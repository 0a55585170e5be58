--------------------------- MODULE StackExecutor ---------------------------
(***************************************************************************)
(* Executor of llmops_executor.py with the parts of ComponentRunner        *)
(* (llmops_drivers.py) and LifecycleStateStore (llmops_lifecycle_state.py) *)
(* it calls: several llmops processes on one authority host plan and run   *)
(* lifecycle operations over one stack.  Each process takes orchestrator.  *)
(* lock without blocking, runs its plan batch by batch in a thread pool,   *)
(* records the desired lifecycle of every component and, when a start      *)
(* fails, stops the components it started.                                 *)
(***************************************************************************)
EXTENDS Topology

CONSTANTS Controllers,  \* llmops processes (CLI, TUI receipts, workers)
          NoController, \* nobody holds the lock
          Requests,     \* the requests operators make
          Unprobed,     \* components whose health check is "none"
          Workers,      \* max_workers of the pool: 8 in the code
          Faults        \* the faults the environment may produce

AllFaults == {"unreachable",  \* ssh exits 255: lifecycle "unknown"
              "timeout",      \* a command outlives its timeout: exit code 124
              "command",      \* a start, stop or restart command fails
              "spawn",        \* a command cannot be built or spawned: exception
              "disk",         \* LifecycleStateStore.save raises OSError
              "die",          \* a component exits by itself
              "interrupt",    \* KeyboardInterrupt in the main thread
              "kill"}         \* the llmops process is killed

ASSUME ExecutorAssumption ==
    /\ NoController \notin Controllers
    /\ Requests \subseteq Request
    /\ Unprobed \subseteq Components
    /\ Workers \in Nat \ {0}
    /\ Faults \subseteq AllFaults

VARIABLES
    proc,      \* what runs on the component's host: down, up (not ready), ready
    late,      \* start and stop commands that outlived the process that gave up on them
    desired,   \* components map of lifecycle.json; "none" for a missing key
    lock,      \* holder of the flock on orchestrator.lock
    pc,        \* where the main thread of each controller stands
    plan,      \* the operations it was given
    todo,      \* operations of groups not yet given to _execute_batch
    act,       \* action of the current batch
    task,      \* per operation of the current batch: how far its future is
    collected, \* operations whose outcome the main thread has inspected
    recorded,  \* outcomes execute() has walked over
    mem,       \* the desired map it loaded
    started,   \* started: components newly started by this invocation
    undone,    \* components its rollback has sent a stop to
    broken,    \* "no", "kept" (stop_failures) or "batch" (batch_failure)
    before,    \* history: up without a break since this invocation took the lock
    misread,   \* history: components whose status it read wrongly
    stopped    \* history: components whose stop succeeded

worldVars == <<proc, late>>
mainVars  == <<plan, todo, act, task, collected, recorded, mem, started, undone, broken>>
histVars  == <<before, misread, stopped>>
vars      == <<worldVars, desired, lock, pc, mainVars, histVars>>

Lifecycle   == {"none", "running", "stopped"}
PcStates    == {"idle", "prepared", "batch", "outcomes", "rollback", "unwind", "release"}
InFlight    == {"check", "command", "verify"}
Successes   == {"already", "ok", "new"}
Failures    == {"failed", "failedNew"}
TaskStates  == {"none", "pending"} \cup InFlight \cup Successes \cup Failures
BatchAction == {"none", "stop", "restart", "start"}

Batch(k)    == {c \in Components : task[k][c] # "none"}
Running(k)  == {c \in Components : task[k][c] \in InFlight}
Finished(k) == {c \in Components : task[k][c] \in Successes \cup Failures}
Up(c)       == proc[c] # "down"

NoTasks == [c \in Components |-> "none"]

Init ==
    /\ proc \in [Components -> {"down", "ready"}]
    /\ late = [c \in Components |-> {}]
    /\ desired = [c \in Components |-> "none"]
    /\ lock = NoController
    /\ pc = [k \in Controllers |-> "idle"]
    /\ plan = [k \in Controllers |-> EmptyPlan]
    /\ todo = [k \in Controllers |-> EmptyPlan]
    /\ act = [k \in Controllers |-> "none"]
    /\ task = [k \in Controllers |-> NoTasks]
    /\ collected = [k \in Controllers |-> {}]
    /\ recorded = [k \in Controllers |-> {}]
    /\ mem = [k \in Controllers |-> desired]
    /\ started = [k \in Controllers |-> {}]
    /\ undone = [k \in Controllers |-> {}]
    /\ broken = [k \in Controllers |-> "no"]
    /\ before = [k \in Controllers |-> {}]
    /\ misread = [k \in Controllers |-> {}]
    /\ stopped = [k \in Controllers |-> {}]

(***************************************************************************)
(* ComponentRunner.status through lifecycle_from_result: exit code 255 is  *)
(* "unknown"; a status command that timed out (124) is not ok and prints   *)
(* nothing, so it reads as "stopped".                                      *)
(***************************************************************************)
Readings(c) ==
    {IF Up(c) THEN "running" ELSE "stopped"}
    \cup (IF "unreachable" \in Faults THEN {"unknown"} ELSE {})
    \cup (IF "timeout" \in Faults THEN {"stopped"} ELSE {})

Misread(k, c, reading) ==
    misread' = [misread EXCEPT ![k] =
        IF Up(c) /\ reading # "running" THEN @ \cup {c} ELSE @]

\* Every change of a component's process; a component that goes down is no
\* longer one that ran before the invocation.
ProcBecomes(c, state) ==
    /\ proc' = [proc EXCEPT ![c] = state]
    /\ before' = IF state = "down" THEN [k \in Controllers |-> before[k] \ {c}] ELSE before

SetTask(k, c, state) == task' = [task EXCEPT ![k][c] = state]

(***************************************************************************)
(* execute_component and cmd_stack_run up to the lock.                     *)
(***************************************************************************)

\* prepare_component: a plain stop reads its dependents before anything is
\* locked and is refused when one of them runs.
PlainStop(r) == r.scope = "component" /\ r.action = "stop" /\ ~r.cascade /\ ~r.force

Dependents(r) == DependentClosure(r.target) \ {r.target}

Prepare(k) ==
    /\ pc[k] = "idle"
    /\ \E r \in Requests :
        /\ PlainStop(r) => \A c \in Dependents(r) : Readings(c) # {"running"}
        /\ plan' = [plan EXCEPT ![k] = PlanOf(r)]
    /\ pc' = [pc EXCEPT ![k] = "prepared"]
    /\ UNCHANGED <<worldVars, desired, lock, todo, act, task, collected, recorded, mem,
                   started, undone, broken, histVars>>

\* The first batch of a plan: one wave of stops, the restart, or every start.
NextBatch(left) ==
    IF left.stop # {} THEN [action |-> "stop", ops |-> StopWave(left.stop)]
    ELSE IF left.restart # {} THEN [action |-> "restart", ops |-> left.restart]
    ELSE [action |-> "start", ops |-> left.start]

Without(left, batch) ==
    CASE batch.action = "stop"    -> [left EXCEPT !.stop = @ \ batch.ops]
      [] batch.action = "restart" -> [left EXCEPT !.restart = {}]
      [] batch.action = "start"   -> [left EXCEPT !.start = {}]

\* Hand the next batch to _execute_batch.
LoadBatch(k, left) ==
    LET batch == NextBatch(left)
    IN  /\ todo' = [todo EXCEPT ![k] = Without(left, batch)]
        /\ act' = [act EXCEPT ![k] = batch.action]
        /\ task' = [task EXCEPT ![k] =
                        [c \in Components |-> IF c \in batch.ops THEN "pending" ELSE "none"]]
        /\ collected' = [collected EXCEPT ![k] = {}]
        /\ recorded' = [recorded EXCEPT ![k] = {}]
        /\ pc' = [pc EXCEPT ![k] = "batch"]

\* flock(LOCK_EX | LOCK_NB) would succeed.
LockIgnored == TRUE
LockFree    == lock = NoController

\* state_store.load(), under the lock.
CachedMap(k)   == mem[k]
LoadedMap(k)   == desired

\* operation_lock is taken, desired is loaded, the batches are built.
Acquire(k) ==
    /\ pc[k] = "prepared"
    /\ LockFree
    /\ lock' = k
    /\ mem' = [mem EXCEPT ![k] = LoadedMap(k)]
    /\ before' = [before EXCEPT ![k] = {c \in Components : Up(c)}]
    /\ LoadBatch(k, plan[k])
    /\ UNCHANGED <<worldVars, desired, plan, started, undone, broken, misread, stopped>>

\* flock would block: "another lifecycle operation holds".
LockBusy(k) ==
    /\ pc[k] = "prepared"
    /\ lock # NoController
    /\ pc' = [pc EXCEPT ![k] = "idle"]
    /\ plan' = [plan EXCEPT ![k] = EmptyPlan]
    /\ UNCHANGED <<worldVars, desired, lock, todo, act, task, collected, recorded, mem,
                   started, undone, broken, histVars>>

(***************************************************************************)
(* _execute_batch, main thread.                                            *)
(***************************************************************************)

\* Operations that have not been seen to succeed.
SeenFailed(k, seen)  == {c \in seen : task[k][c] \in Failures}
WholeStack(k, seen)  == Components \ {c \in seen : task[k][c] \in Successes}
Unready(k, seen)     == Batch(k) \ {c \in seen : task[k][c] \in Successes}

\* A failed start has been seen: nothing more is admitted.
StartFailed(k, seen) == act[k] = "start" /\ \E c \in seen : task[k][c] \in Failures

Admissible(k, seen) ==
    IF StartFailed(k, seen) THEN {}
    ELSE {c \in Components : /\ task[k][c] = "pending"
                             /\ act[k] = "start" => DependsOn[c] \cap Unready(k, seen) = {}}

\* A restart asks for no status first.
FirstStep(k) == IF act[k] = "restart" THEN "command" ELSE "check"

\* The loop ends: no future left, nothing admitted.
LeaveOnFailure(k, seen, admitted) ==
    StartFailed(k, seen) \/ Running(k) \cup admitted = {}
LeaveWhenComplete(k, seen, admitted) == seen = Batch(k)
BatchOver(k, seen, admitted) == Running(k) \cup admitted = {}

\* One turn of the loop: wait(FIRST_COMPLETED) has returned (on the first turn
\* there is nothing to wait for), every completed future is inspected before
\* anything is admitted, then what has become ready fills the free slots in
\* plan order.  With no future left and nothing to admit the batch returns.
\* What workers do between the inspection and the admission changes neither.
Turn(k) ==
    /\ pc[k] = "batch"
    /\ Running(k) = {} \/ Finished(k) # collected[k]
    /\ LET seen == Finished(k)
           slots == Workers - Cardinality(Running(k))
           admitted == FirstOf(act[k], Admissible(k, seen), slots)
       IN  /\ collected' = [collected EXCEPT ![k] = seen]
           /\ task' = [task EXCEPT ![k] =
                        [c \in Components |-> IF c \in admitted THEN FirstStep(k) ELSE @[c]]]
           /\ pc' = IF BatchOver(k, seen, admitted)
                     THEN [pc EXCEPT ![k] = "outcomes"] ELSE pc
    /\ UNCHANGED <<worldVars, desired, lock, plan, todo, act, recorded, mem,
                   started, undone, broken, histVars>>

(***************************************************************************)
(* _execute_operation, one worker thread per admitted operation.           *)
(***************************************************************************)
workerFrame == <<desired, lock, pc, plan, todo, act, collected, recorded, mem,
                 started, undone, broken, stopped>>

\* What a start or restart becomes once its command has succeeded.
Confirmed(k) == IF act[k] = "start" THEN "new" ELSE "ok"
Rejected(k)  == IF act[k] = "start" THEN "failedNew" ELSE "failed"

\* The operation has nothing to do: started and running, or stopped already.
NeverDone(k, reading)   == FALSE
AlreadyDone(k, reading) == (act[k] = "start") = (reading = "running")

\* runner.is_running, before a start or a stop.
CheckRunning(k, c) ==
    /\ task[k][c] = "check"
    /\ \E reading \in Readings(c) :
        /\ Misread(k, c, reading)
        /\ SetTask(k, c, IF AlreadyDone(k, reading) THEN "already" ELSE "command")
    /\ UNCHANGED <<worldVars, before, workerFrame>>

\* runner.run(component, "start" | "restart") exits 0; what was up stays up.
StartCommandOk(k, c) ==
    /\ task[k][c] = "command" /\ act[k] \in {"start", "restart"}
    /\ SetTask(k, c, "verify")
    /\ ProcBecomes(c, IF act[k] = "start" /\ Up(c) THEN proc[c] ELSE "up")
    /\ UNCHANGED <<late, misread, workerFrame>>

\* A stop command that exits 0: the process is gone, or lingers and goes later.
StopTakesEffect(c) ==
    \/ ProcBecomes(c, "down") /\ UNCHANGED late
    \/ /\ Up(c)
       /\ late' = [late EXCEPT ![c] = @ \cup {"stop"}]
       /\ UNCHANGED <<proc, before>>

StopCommandOk(k, c) ==
    /\ task[k][c] = "command" /\ act[k] = "stop"
    /\ SetTask(k, c, "verify")
    /\ StopTakesEffect(c)
    /\ UNCHANGED <<misread, workerFrame>>

\* The command exits non-zero and has changed nothing.
CommandFails(k, c) ==
    /\ "command" \in Faults
    /\ task[k][c] = "command"
    /\ SetTask(k, c, "failed")
    /\ UNCHANGED <<worldVars, before, misread, workerFrame>>

\* subprocess.run gives up after timeouts.<action>: exit code 124, while what
\* the command set in motion on the host may still take effect.
CommandTimesOut(k, c) ==
    /\ "timeout" \in Faults
    /\ task[k][c] = "command"
    /\ SetTask(k, c, "failed")
    /\ late' = [late EXCEPT ![c] = @ \cup {IF act[k] = "stop" THEN "stop" ELSE "start"}]
    /\ UNCHANGED <<proc, before, misread, workerFrame>>

\* Building or spawning a command raises: no result, and after a start command
\* that had succeeded the component counts as newly started.
CommandRaises(k, c) ==
    /\ "spawn" \in Faults
    /\ task[k][c] \in InFlight
    /\ SetTask(k, c, IF task[k][c] = "verify" THEN Rejected(k) ELSE "failed")
    /\ UNCHANGED <<worldVars, before, misread, workerFrame>>

\* wait_healthy sees the readiness probe pass, or the component has none.
Healthy(k, c) ==
    /\ task[k][c] = "verify" /\ act[k] \in {"start", "restart"}
    /\ proc[c] = "ready" \/ c \in Unprobed
    /\ SetTask(k, c, Confirmed(k))
    /\ UNCHANGED <<worldVars, before, misread, workerFrame>>

\* wait_healthy raises: the status reads stopped, or the deadline passes
\* without a passing probe.
Unhealthy(k, c) ==
    /\ task[k][c] = "verify" /\ act[k] \in {"start", "restart"}
    /\ c \notin Unprobed
    /\ proc[c] # "ready" \/ Faults \cap {"unreachable", "timeout"} # {}
    /\ SetTask(k, c, Rejected(k))
    /\ UNCHANGED <<worldVars, before, misread, workerFrame>>

\* wait_stopped: one status; only "stopped" confirms the stop.
VerifyStopped(k, c) ==
    /\ task[k][c] = "verify" /\ act[k] = "stop"
    /\ \E reading \in Readings(c) :
        /\ Misread(k, c, reading)
        /\ SetTask(k, c, IF reading = "stopped" THEN "ok" ELSE "failed")
    /\ UNCHANGED <<worldVars, before, workerFrame>>

Worker(k, c) ==
    \/ CheckRunning(k, c)
    \/ StartCommandOk(k, c)
    \/ StopCommandOk(k, c)
    \/ CommandFails(k, c)
    \/ CommandTimesOut(k, c)
    \/ CommandRaises(k, c)
    \/ Healthy(k, c)
    \/ Unhealthy(k, c)
    \/ VerifyStopped(k, c)

(***************************************************************************)
(* execute(): outcomes, next batch, commit, rollback, release.             *)
(***************************************************************************)

\* best_effort_stop: the plan holds nothing but stops.
AlwaysCollect(k) == TRUE
BestEffort(k)    == plan[k].restart = {} /\ plan[k].start = {}

\* The outcomes the loop walks over in one step: stops one by one, because each
\* success is saved; starts and restarts, which only touch memory, together.
NextOutcomes(k) ==
    LET left == collected[k] \ recorded[k]
    IN  IF act[k] = "stop" THEN FirstOf("stop", left, 1) ELSE left

Stops(k)     == {c \in NextOutcomes(k) : act[k] = "stop" /\ task[k][c] \in Successes}
Brings(k)    == {c \in NextOutcomes(k) : act[k] # "stop" /\ task[k][c] \in Successes}

\* Components the rollback will have to stop again.
ReadyOnly(k)   == {c \in NextOutcomes(k) : task[k][c] = "new"}
NewlyStarted(k) == {c \in NextOutcomes(k) : task[k][c] \in {"new", "failedNew"}}

\* Whether this turn of the loop calls state_store.save.
SavesNothing(k) == FALSE
SavesAll(k)     == Stops(k) \cup Brings(k) # {}
Saves(k)        == Stops(k) # {}

\* A successful stop is saved at once, a successful start or restart is only
\* entered in the map in memory; newly started components are kept for the
\* rollback whether or not they became ready.
RecordOutcomes(k) ==
    /\ pc[k] = "outcomes"
    /\ NextOutcomes(k) # {}
    /\ mem' = [mem EXCEPT ![k] = [c \in Components |->
                    IF c \in Stops(k) THEN "stopped"
                    ELSE IF c \in Brings(k) THEN "running" ELSE @[c]]]
    /\ desired' = IF Saves(k) THEN mem'[k] ELSE desired
    /\ stopped' = [stopped EXCEPT ![k] = @ \cup Stops(k)]
    /\ started' = [started EXCEPT ![k] = @ \cup NewlyStarted(k)]
    /\ broken' = IF NextOutcomes(k) = Stops(k) \cup Brings(k) THEN broken
                  ELSE [broken EXCEPT ![k] =
                            IF act[k] = "stop" /\ BestEffort(k) THEN "kept" ELSE "batch"]
    /\ recorded' = [recorded EXCEPT ![k] = @ \cup NextOutcomes(k)]
    /\ UNCHANGED <<worldVars, lock, pc, plan, todo, act, task, collected, undone,
                   before, misread>>

\* The loop is over: go on with the next batch.
NextBatchStarts(k) ==
    /\ pc[k] = "outcomes"
    /\ recorded[k] = collected[k]
    /\ broken[k] # "batch"
    /\ todo[k] # EmptyPlan
    /\ LoadBatch(k, todo[k])
    /\ UNCHANGED <<worldVars, desired, lock, plan, mem, started, undone, broken, histVars>>

\* A batch failed, or stops of a best-effort plan did: raise into the rollback.
Fail(k) ==
    /\ pc[k] = "outcomes"
    /\ recorded[k] = collected[k]
    /\ broken[k] = "batch" \/ (broken[k] = "kept" /\ todo[k] = EmptyPlan)
    /\ pc' = [pc EXCEPT ![k] = "rollback"]
    /\ UNCHANGED <<worldVars, desired, lock, mainVars, histVars>>

\* Every batch succeeded: the map in memory is saved.
Commit(k) ==
    /\ pc[k] = "outcomes"
    /\ recorded[k] = collected[k]
    /\ broken[k] = "no"
    /\ todo[k] = EmptyPlan
    /\ desired' = mem[k]
    /\ pc' = [pc EXCEPT ![k] = "release"]
    /\ UNCHANGED <<worldVars, lock, mainVars, histVars>>

\* save() raises OSError, which no handler of execute() catches: the lock is
\* released with no rollback.
SaveRaises(k) ==
    /\ "disk" \in Faults
    /\ pc[k] = "outcomes"
    /\ \/ broken[k] = "no" /\ todo[k] = EmptyPlan /\ recorded[k] = collected[k]
       \/ Stops(k) # {}
    /\ pc' = [pc EXCEPT ![k] = "unwind"]
    /\ UNCHANGED <<worldVars, desired, lock, mainVars, histVars>>

\* for component in reversed(started): runner.run(component, "stop"); neither
\* the exit code nor the state afterwards is looked at.
Undo(k, c) ==
    /\ pc[k] = "rollback"
    /\ c \in started[k] \ undone[k]
    /\ \A d \in started[k] \ undone[k] : d = c \/ Precedes("stop", c, d)
    /\ undone' = [undone EXCEPT ![k] = @ \cup {c}]
    /\ \/ StopTakesEffect(c)
       \/ "command" \in Faults /\ UNCHANGED <<worldVars, before>>
    /\ UNCHANGED <<desired, lock, pc, plan, todo, act, task, collected, recorded, mem,
                   started, broken, misread, stopped>>

\* A stop of the rollback cannot be issued: the exception leaves the rest.
UndoRaises(k) ==
    /\ "spawn" \in Faults
    /\ pc[k] = "rollback"
    /\ started[k] # undone[k]
    /\ pc' = [pc EXCEPT ![k] = "unwind"]
    /\ UNCHANGED <<worldVars, desired, lock, mainVars, histVars>>

RolledBack(k) ==
    /\ pc[k] = "rollback"
    /\ started[k] = undone[k]
    /\ pc' = [pc EXCEPT ![k] = "release"]
    /\ UNCHANGED <<worldVars, desired, lock, mainVars, histVars>>

\* KeyboardInterrupt: no handler of execute() catches it either; leaving the
\* thread pool waits for what runs.
Interrupt(k) ==
    /\ "interrupt" \in Faults
    /\ pc[k] \in {"batch", "outcomes", "rollback"}
    /\ pc' = [pc EXCEPT ![k] = "unwind"]
    /\ UNCHANGED <<worldVars, desired, lock, mainVars, histVars>>

\* The process is done with this invocation and forgets all about it.
Forget(k) ==
    /\ pc' = [pc EXCEPT ![k] = "idle"]
    /\ plan' = [plan EXCEPT ![k] = EmptyPlan]
    /\ todo' = [todo EXCEPT ![k] = EmptyPlan]
    /\ act' = [act EXCEPT ![k] = "none"]
    /\ task' = [task EXCEPT ![k] = NoTasks]
    /\ collected' = [collected EXCEPT ![k] = {}]
    /\ recorded' = [recorded EXCEPT ![k] = {}]
    /\ mem' = [mem EXCEPT ![k] = [c \in Components |-> "none"]]
    /\ started' = [started EXCEPT ![k] = {}]
    /\ undone' = [undone EXCEPT ![k] = {}]
    /\ broken' = [broken EXCEPT ![k] = "no"]
    /\ before' = [before EXCEPT ![k] = {}]
    /\ misread' = [misread EXCEPT ![k] = {}]
    /\ stopped' = [stopped EXCEPT ![k] = {}]

\* operation_lock is left: LOCK_UN.
Release(k) ==
    /\ pc[k] \in {"release", "unwind"}
    /\ Running(k) = {}
    /\ lock' = NoController
    /\ Forget(k)
    /\ UNCHANGED <<worldVars, desired>>

\* The process dies; the kernel drops its flock, and a command it was waiting
\* for may still take effect.
Kill(k) ==
    /\ "kill" \in Faults
    /\ pc[k] # "idle"
    /\ lock' = IF lock = k THEN NoController ELSE lock
    /\ late' = [c \in Components |->
                    late[c] \cup (IF task[k][c] # "command" THEN {}
                                  ELSE IF act[k] = "stop" THEN {"stop"} ELSE {"start"})]
    /\ Forget(k)
    /\ UNCHANGED <<proc, desired>>

(***************************************************************************)
(* The hosts.                                                              *)
(***************************************************************************)
hostFrame == <<desired, lock, pc, mainVars, misread, stopped>>

BecomesReady(c) ==
    /\ proc[c] = "up" /\ c \notin Unprobed
    /\ ProcBecomes(c, "ready")
    /\ UNCHANGED <<late, hostFrame>>

Dies(c) ==
    /\ "die" \in Faults
    /\ Up(c)
    /\ ProcBecomes(c, "down")
    /\ UNCHANGED <<late, hostFrame>>

\* A command nobody waits for any more takes effect.
LateEffect(c, effect) ==
    /\ effect \in late[c]
    /\ late' = [late EXCEPT ![c] = @ \ {effect}]
    /\ ProcBecomes(c, IF effect = "stop" THEN "down" ELSE IF Up(c) THEN proc[c] ELSE "up")
    /\ UNCHANGED hostFrame

Main(k) ==
    \/ Acquire(k)
    \/ LockBusy(k)
    \/ Turn(k)
    \/ RecordOutcomes(k)
    \/ NextBatchStarts(k)
    \/ Fail(k)
    \/ Commit(k)
    \/ SaveRaises(k)
    \/ \E c \in Components : Undo(k, c)
    \/ UndoRaises(k)
    \/ RolledBack(k)
    \/ Release(k)

Host ==
    \E c \in Components :
        \/ BecomesReady(c)
        \/ Dies(c)
        \/ \E effect \in {"start", "stop"} : LateEffect(c, effect)

Next ==
    \/ \E k \in Controllers :
        \/ Prepare(k)
        \/ Main(k)
        \/ \E c \in Components : Worker(k, c)
        \/ Interrupt(k)
        \/ Kill(k)
    \/ Host

Spec == Init /\ [][Next]_vars

\* Every command, probe and lock attempt the code makes is bounded by a
\* timeout, so a controller that is not killed keeps taking steps.
Fairness ==
    \A k \in Controllers :
        /\ WF_vars(Main(k))
        /\ \A c \in Components : WF_vars(Worker(k, c))

FairSpec == Spec /\ Fairness

(***************************************************************************)
(* Properties.                                                             *)
(***************************************************************************)
Executing(k) == pc[k] \notin {"idle", "prepared"}

\* The type of every variable.
TypeOK ==
    /\ proc \in [Components -> {"down", "up", "ready"}]
    /\ late \in [Components -> SUBSET {"start", "stop"}]
    /\ desired \in [Components -> Lifecycle]
    /\ lock \in Controllers \cup {NoController}
    /\ pc \in [Controllers -> PcStates]
    /\ plan \in [Controllers -> Plan]
    /\ todo \in [Controllers -> Plan]
    /\ act \in [Controllers -> BatchAction]
    /\ task \in [Controllers -> [Components -> TaskStates]]
    /\ collected \in [Controllers -> SUBSET Components]
    /\ recorded \in [Controllers -> SUBSET Components]
    /\ mem \in [Controllers -> [Components -> Lifecycle]]
    /\ started \in [Controllers -> SUBSET Components]
    /\ undone \in [Controllers -> SUBSET Components]
    /\ broken \in [Controllers -> {"no", "kept", "batch"}]
    /\ before \in [Controllers -> SUBSET Components]
    /\ misread \in [Controllers -> SUBSET Components]
    /\ stopped \in [Controllers -> SUBSET Components]

\* Two invocations never run operations at the same time: whoever executes
\* holds the lock, and only an executor has a command in flight (operation_lock).
LockOwnsExecution ==
    \A k \in Controllers :
        /\ Executing(k) => lock = k
        /\ Running(k) # {} => Executing(k)

\* What the holder read at the start is still what the file says, up to the
\* successful starts it keeps in memory: saving the whole map loses no update
\* of another invocation (execute: load under the lock, save under the lock).
HolderSeesDisk ==
    \A k \in Controllers : Executing(k) => \A c \in Components :
        mem[k][c] # desired[c] => /\ mem[k][c] = "running"
                                  /\ c \in plan[k].start \cup plan[k].restart

\* A component becomes desired-running only when the whole invocation that
\* started it succeeded; a failed start never leaves that intent behind.
RunningOnlyAfterSuccess ==
    [][\A c \in Components : (desired[c] # "running" /\ desired'[c] = "running") =>
            \E k \in Controllers :
                /\ lock = k /\ broken[k] = "no" /\ todo[k] = EmptyPlan
                /\ c \in plan[k].start \cup plan[k].restart
                /\ \A d \in Batch(k) : task[k][d] \in Successes]_vars

\* Partial failures do not leave a successfully stopped component recorded as
\* desired-running (CHANGELOG 0.9: every successful stop is persisted).
StopsRecorded ==
    \A k \in Controllers : pc[k] = "release" => \A c \in stopped[k] :
        desired[c] = "running" => broken[k] = "no" /\ c \in plan[k].start

\* The stop phase of a restart is over, with no stop failed, before the first
\* start or the restart of the plan is admitted.
RestartBarrier ==
    \A k \in Controllers :
        act[k] \in {"restart", "start"} => plan[k].stop \subseteq stopped[k]

\* A component is stopped only after every planned consumer of it: stopped, or,
\* when the plan is nothing but stops, at least tried.
StopOrder ==
    \A k \in Controllers : act[k] = "stop" =>
        \A c \in Batch(k), d \in plan[k].stop : c \in DependsOn[d] =>
            \/ d \in stopped[k]
            \/ BestEffort(k) /\ d \notin todo[k].stop \cup Batch(k)

\* A consumer is admitted only after each of its planned dependencies was
\* collected as running or ready, whatever else runs, fails or is queued.
StartOrder ==
    \A k \in Controllers : act[k] = "start" =>
        \A c \in Batch(k) : task[k][c] # "pending" =>
            \A d \in DependsOn[c] \cap Batch(k) :
                d \in collected[k] /\ task[k][d] \in Successes

\* The "unresolved dependency cycle" error of _execute_batch is unreachable:
\* a batch returns with every operation done, unless a start has failed.
AdmissionNeverStuck ==
    \A k \in Controllers :
        pc[k] = "outcomes" =>
            StartFailed(k, collected[k]) \/ Batch(k) = collected[k]

\* In-flight work is drained before outcomes are recorded, before anything is
\* rolled back and before the lock is given up.
DrainBeforeRollback ==
    \A k \in Controllers :
        pc[k] \in {"outcomes", "rollback", "release"} => Running(k) = {}

\* A component that ran without a break since before the invocation is never
\* among those its rollback stops, unless its status was read wrongly.
RollbackSparesPreexisting ==
    \A k \in Controllers : started[k] \cap before[k] \subseteq misread[k]

\* When a failed invocation is through with its rollback, it has sent a stop to
\* exactly the components whose start command it saw succeed.
RollbackComplete ==
    \A k \in Controllers : (pc[k] = "release" /\ broken[k] = "batch") =>
        undone[k] = {c \in Components : task[k][c] \in {"new", "failedNew"}}

\* Every invocation ends and gives the lock up.
LockReleased == \A k \in Controllers : lock = k ~> lock # k

\* The desired-lifecycle file behaves as LifecycleLedger promises: changed under
\* the lock only, stops one by one, the starts of an invocation all together as
\* its last act.
LedgerPhase ==
    IF lock = NoController THEN "free"
    ELSE IF pc[lock] \in {"release", "unwind"} THEN "settled" ELSE "working"

Ledger == INSTANCE LifecycleLedger WITH holder <- lock, phase <- LedgerPhase

ImplementsLedger == Ledger!Spec

\* ARCHITECTURE.md: a startup failure "rolls back only newly started components":
\* no stop of a rollback is for what ran without a break since before.
RollbackOnlyNewlyStarted ==
    [][\A k \in Controllers :
            (undone'[k] \ undone[k]) \cap before[k] = {}]_vars

\* README: "Stopping a component with active dependents requires --force or
\* --cascade": no plain stop is issued while a dependent runs.
PlainStopSparesDependents ==
    [][\A k \in Controllers, r \in Requests :
            (PlainStop(r) /\ plan[k] = PlanOf(r) /\ act[k] = "stop"
                /\ task[k][r.target] = "check" /\ task'[k][r.target] = "command")
            => \A c \in Dependents(r) : ~Up(c)]_vars

\* wait_stopped: "Verify that a completed stop action left the component stopped."
VerifiedStopIsDown ==
    [][\A k \in Controllers, c \in Components :
            (act[k] = "stop" /\ task[k][c] = "verify" /\ task'[k][c] = "ok") => ~Up(c)]_vars
=============================================================================

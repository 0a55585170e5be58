------------------------ MODULE StackExecutor_proofs ------------------------
(***************************************************************************)
(* Theorems about StackExecutor for any graph, any set of controllers, any *)
(* requests and any faults: types and the lock; the refinement of          *)
(* LifecycleLedger; the admission of concurrent operations; what execute() *)
(* makes of their outcomes.                                                *)
(***************************************************************************)
EXTENDS StackExecutor, FiniteSetTheorems, WellFoundedInduction, TLAPS

\* A plan is three sets of components, whatever the request.
LEMMA PlanOfType == ASSUME NEW r \in Request PROVE PlanOf(r) \in Plan
<1> USE TopologyAssumption DEF Plan, Group
<1>1. CASE r.scope = "stack"
  BY <1>1 DEF PlanOf, StackPlan
<1>2. CASE r.scope = "component"
  <2>1. r.target \in Components /\ r.action \in {"start", "stop", "restart"} /\ r.cascade \in BOOLEAN
    BY <1>2 DEF Request
  <2>2. DependentClosure(r.target) \subseteq Components
    BY DEF DependentClosure
  <2>3. DependencyClosure(r.target) \subseteq Components
    BY DEF DependencyClosure
  <2>4. ComponentPlan(r.target, r.action, r.cascade, r.noDeps) \in Plan
    BY <2>1, <2>2, <2>3 DEF ComponentPlan
  <2> QED BY <1>2, <2>4 DEF PlanOf
<1> QED BY <1>1, <1>2 DEF Request

\* Loading a batch keeps the types of the variables it changes.
LEMMA LoadBatchType ==
    ASSUME TypeOK, NEW k \in Controllers, NEW left \in Plan, LoadBatch(k, left)
    PROVE  /\ todo' \in [Controllers -> Plan]
           /\ act' \in [Controllers -> BatchAction]
           /\ task' \in [Controllers -> [Components -> TaskStates]]
           /\ collected' \in [Controllers -> SUBSET Components]
           /\ recorded' \in [Controllers -> SUBSET Components]
           /\ pc' \in [Controllers -> PcStates]
<1>1. NextBatch(left).action \in {"stop", "restart", "start"}
  BY DEF NextBatch
<1>2. Without(left, NextBatch(left)) \in Plan
  BY <1>1 DEF Without, Plan, NextBatch
<1> QED
  BY <1>1, <1>2 DEF LoadBatch, TypeOK, BatchAction, TaskStates, PcStates

LEMMA ForgetType ==
    ASSUME TypeOK, NEW k \in Controllers, Forget(k)
    PROVE  /\ pc' \in [Controllers -> PcStates]
           /\ plan' \in [Controllers -> Plan]
           /\ todo' \in [Controllers -> Plan]
           /\ act' \in [Controllers -> BatchAction]
           /\ task' \in [Controllers -> [Components -> TaskStates]]
           /\ collected' \in [Controllers -> SUBSET Components]
           /\ recorded' \in [Controllers -> SUBSET Components]
           /\ mem' \in [Controllers -> [Components -> Lifecycle]]
           /\ started' \in [Controllers -> SUBSET Components]
           /\ undone' \in [Controllers -> SUBSET Components]
           /\ broken' \in [Controllers -> {"no", "kept", "batch"}]
           /\ before' \in [Controllers -> SUBSET Components]
           /\ misread' \in [Controllers -> SUBSET Components]
           /\ stopped' \in [Controllers -> SUBSET Components]
  BY DEF Forget, TypeOK, PcStates, Plan, EmptyPlan, Group, BatchAction, TaskStates,
         NoTasks, Lifecycle

LEMMA ProcType ==
    ASSUME TypeOK, NEW c \in Components, NEW s \in {"down", "up", "ready"}, ProcBecomes(c, s)
    PROVE  /\ proc' \in [Components -> {"down", "up", "ready"}]
           /\ before' \in [Controllers -> SUBSET Components]
  BY DEF ProcBecomes, TypeOK

LEMMA StopEffectType ==
    ASSUME TypeOK, NEW c \in Components, StopTakesEffect(c)
    PROVE  /\ proc' \in [Components -> {"down", "up", "ready"}]
           /\ late' \in [Components -> SUBSET {"start", "stop"}]
           /\ before' \in [Controllers -> SUBSET Components]
<1>1. CASE ProcBecomes(c, "down") /\ UNCHANGED late
  BY <1>1, ProcType DEF TypeOK
<1>2. CASE late' = [late EXCEPT ![c] = @ \cup {"stop"}] /\ UNCHANGED <<proc, before>>
  BY <1>2 DEF TypeOK
<1> QED BY <1>1, <1>2 DEF StopTakesEffect

\* Every variable keeps its type: what the program stores and reads back is
\* always one of the states the code names.
THEOREM TypeCorrect == Spec => []TypeOK
<1>1. Init => TypeOK
  BY DEF Init, TypeOK, PcStates, Plan, EmptyPlan, Group, BatchAction, TaskStates, NoTasks, Lifecycle
<1>2. TypeOK /\ [Next]_vars => TypeOK'
  <2> SUFFICES ASSUME TypeOK, [Next]_vars PROVE TypeOK'
    OBVIOUS
  <2> USE DEF worldVars, mainVars, histVars
  <2>1. ASSUME NEW k \in Controllers, Prepare(k) PROVE TypeOK'
    BY <2>1, PlanOfType, ExecutorAssumption DEF Prepare, TypeOK, PcStates
  <2>2. ASSUME NEW k \in Controllers, Acquire(k) PROVE TypeOK'
    BY <2>2, LoadBatchType DEF Acquire, TypeOK, LoadedMap
  <2>3. ASSUME NEW k \in Controllers, LockBusy(k) PROVE TypeOK'
    BY <2>3 DEF LockBusy, TypeOK, PcStates, Plan, EmptyPlan, Group
  <2>4. ASSUME NEW k \in Controllers, Turn(k) PROVE TypeOK'
    <3>1. Finished(k) \subseteq Components
      BY DEF Finished
    <3>2. FirstStep(k) \in TaskStates
      BY DEF FirstStep, TaskStates, InFlight
    <3> QED BY <2>4, <3>1, <3>2 DEF Turn, TypeOK, PcStates
  <2>5. ASSUME NEW k \in Controllers, RecordOutcomes(k) PROVE TypeOK'
    <3>1. NextOutcomes(k) \subseteq Components
      BY DEF NextOutcomes, FirstOf, TypeOK
    <3>2. mem' \in [Controllers -> [Components -> Lifecycle]]
      BY <2>5 DEF RecordOutcomes, TypeOK, Lifecycle
    <3>3. desired' \in [Components -> Lifecycle]
      BY <2>5, <3>2 DEF RecordOutcomes, TypeOK
    <3> QED
      BY <2>5, <3>1, <3>2, <3>3 DEF RecordOutcomes, TypeOK, Stops, NewlyStarted
  <2>6. ASSUME NEW k \in Controllers, NextBatchStarts(k) PROVE TypeOK'
    BY <2>6, LoadBatchType DEF NextBatchStarts, TypeOK
  <2>7. ASSUME NEW k \in Controllers, Fail(k) PROVE TypeOK'
    BY <2>7 DEF Fail, TypeOK, PcStates
  <2>8. ASSUME NEW k \in Controllers, Commit(k) PROVE TypeOK'
    BY <2>8 DEF Commit, TypeOK, PcStates
  <2>9. ASSUME NEW k \in Controllers, SaveRaises(k) \/ UndoRaises(k) \/ RolledBack(k) \/ Interrupt(k)
        PROVE TypeOK'
    BY <2>9 DEF SaveRaises, UndoRaises, RolledBack, Interrupt, TypeOK, PcStates
  <2>10. ASSUME NEW k \in Controllers, NEW c \in Components, Undo(k, c) PROVE TypeOK'
    BY <2>10, StopEffectType DEF Undo, TypeOK
  <2>11. ASSUME NEW k \in Controllers, Release(k) PROVE TypeOK'
    BY <2>11, ForgetType DEF Release, TypeOK
  <2>12. ASSUME NEW k \in Controllers, Kill(k) PROVE TypeOK'
    <3>1. late' \in [Components -> SUBSET {"start", "stop"}]
      BY <2>12 DEF Kill, TypeOK
    <3> QED BY <2>12, <3>1, ForgetType DEF Kill, TypeOK
  <2>13. ASSUME NEW k \in Controllers, NEW c \in Components, Worker(k, c) PROVE TypeOK'
    <3> USE DEF workerFrame, SetTask
    <3>1. CASE CheckRunning(k, c)
      BY <3>1 DEF CheckRunning, Misread, TypeOK, TaskStates, InFlight, Successes
    <3>2. CASE StartCommandOk(k, c)
      <4>1. (IF act[k] = "start" /\ Up(c) THEN proc[c] ELSE "up") \in {"down", "up", "ready"}
        BY DEF TypeOK
      <4> QED BY <3>2, <4>1, ProcType DEF StartCommandOk, TypeOK, TaskStates, InFlight
    <3>3. CASE StopCommandOk(k, c)
      BY <3>3, StopEffectType DEF StopCommandOk, TypeOK, TaskStates, InFlight
    <3>4. CASE CommandFails(k, c)
      BY <3>4 DEF CommandFails, TypeOK, TaskStates, Failures
    <3>5. CASE CommandTimesOut(k, c)
      BY <3>5 DEF CommandTimesOut, TypeOK, TaskStates, Failures
    <3>6. CASE CommandRaises(k, c)
      BY <3>6 DEF CommandRaises, Rejected, TypeOK, TaskStates, Failures
    <3>7. CASE Healthy(k, c)
      BY <3>7 DEF Healthy, Confirmed, TypeOK, TaskStates, Successes
    <3>8. CASE Unhealthy(k, c)
      BY <3>8 DEF Unhealthy, Rejected, TypeOK, TaskStates, Failures
    <3>9. CASE VerifyStopped(k, c)
      BY <3>9 DEF VerifyStopped, Misread, TypeOK, TaskStates, Successes, Failures
    <3> QED
      BY <2>13, <3>1, <3>2, <3>3, <3>4, <3>5, <3>6, <3>7, <3>8, <3>9 DEF Worker
  <2>14. CASE Host
    <3> USE DEF hostFrame
    <3>1. ASSUME NEW c \in Components, BecomesReady(c) \/ Dies(c) PROVE TypeOK'
      BY <3>1, ProcType DEF BecomesReady, Dies, TypeOK
    <3>2. ASSUME NEW c \in Components, NEW e \in {"start", "stop"}, LateEffect(c, e) PROVE TypeOK'
      <4>1. (IF e = "stop" THEN "down" ELSE IF Up(c) THEN proc[c] ELSE "up") \in {"down", "up", "ready"}
        BY DEF TypeOK
      <4> QED BY <3>2, <4>1, ProcType DEF LateEffect, TypeOK
    <3> QED BY <2>14, <3>1, <3>2 DEF Host
  <2>15. CASE UNCHANGED vars
    BY <2>15 DEF vars, TypeOK
  <2> QED
    BY <2>1, <2>2, <2>3, <2>4, <2>5, <2>6, <2>7, <2>8, <2>9, <2>10, <2>11, <2>12, <2>13, <2>14, <2>15
       DEF Next, Main
<1> QED BY <1>1, <1>2, PTL DEF Spec

(***************************************************************************)
(* Mutual exclusion.  LockOwnsExecution is not inductive: a controller     *)
(* that does not execute must also have forgotten its previous invocation. *)
(***************************************************************************)
Quiet(k) ==
    /\ act[k] = "none" /\ task[k] = NoTasks /\ todo[k] = EmptyPlan
    /\ collected[k] = {} /\ recorded[k] = {}
    /\ started[k] = {} /\ undone[k] = {} /\ broken[k] = "no"
    /\ misread[k] = {} /\ stopped[k] = {}

MutexInv ==
    \A k \in Controllers : IF Executing(k) THEN lock = k ELSE Quiet(k)

\* Only an executing controller has an operation in a state of its own.
LEMMA QuietHasNoTasks ==
    ASSUME TypeOK, MutexInv, NEW k \in Controllers, NEW c \in Components, task[k][c] # "none"
    PROVE  Executing(k)
  BY DEF MutexInv, Quiet, NoTasks

LEMMA ForgetIsQuiet ==
    ASSUME TypeOK, NEW k \in Controllers, Forget(k)
    PROVE  /\ ~Executing(k)' /\ Quiet(k)'
           /\ \A j \in Controllers \ {k} :
                /\ Executing(j)' = Executing(j)
                /\ Quiet(j)' = Quiet(j)
  BY DEF Forget, Quiet, Executing, TypeOK

LEMMA MutexStep ==
    ASSUME TypeOK, MutexInv, [Next]_vars PROVE MutexInv'
<1> USE ExecutorAssumption DEF worldVars, mainVars, histVars, TypeOK
<1>1. ASSUME NEW k \in Controllers, Prepare(k) PROVE MutexInv'
  BY <1>1 DEF Prepare, MutexInv, Executing, Quiet
<1>2. ASSUME NEW k \in Controllers, Acquire(k) PROVE MutexInv'
  BY <1>2 DEF Acquire, LockFree, LoadBatch, MutexInv, Executing, Quiet
<1>3. ASSUME NEW k \in Controllers, LockBusy(k) PROVE MutexInv'
  BY <1>3 DEF LockBusy, MutexInv, Executing, Quiet
<1>4. ASSUME NEW k \in Controllers, Turn(k) PROVE MutexInv'
  BY <1>4 DEF Turn, MutexInv, Executing, Quiet
<1>5. ASSUME NEW k \in Controllers, RecordOutcomes(k) PROVE MutexInv'
  BY <1>5 DEF RecordOutcomes, MutexInv, Executing, Quiet
<1>6. ASSUME NEW k \in Controllers, NextBatchStarts(k) PROVE MutexInv'
  BY <1>6 DEF NextBatchStarts, LoadBatch, MutexInv, Executing, Quiet
<1>7. ASSUME NEW k \in Controllers,
             Fail(k) \/ Commit(k) \/ SaveRaises(k) \/ UndoRaises(k) \/ RolledBack(k) \/ Interrupt(k)
      PROVE MutexInv'
  <2>1. Executing(k) /\ Executing(k)' /\ lock' = lock
    BY <1>7 DEF Fail, Commit, SaveRaises, UndoRaises, RolledBack, Interrupt, Executing
  <2>2. /\ act' = act /\ task' = task /\ todo' = todo /\ collected' = collected
        /\ recorded' = recorded /\ undone' = undone /\ misread' = misread /\ stopped' = stopped
    BY <1>7 DEF Fail, Commit, SaveRaises, UndoRaises, RolledBack, Interrupt
  <2>3. \A j \in Controllers \ {k} :
            pc'[j] = pc[j] /\ started'[j] = started[j] /\ broken'[j] = broken[j]
    BY <1>7 DEF Fail, Commit, SaveRaises, UndoRaises, RolledBack, Interrupt
  <2> QED BY <2>1, <2>2, <2>3 DEF MutexInv, Executing, Quiet
<1>8. ASSUME NEW k \in Controllers, NEW c \in Components, Undo(k, c) PROVE MutexInv'
  BY <1>8 DEF Undo, MutexInv, Executing, Quiet
<1>9. ASSUME NEW k \in Controllers, Release(k) \/ Kill(k) PROVE MutexInv'
  BY <1>9, ForgetIsQuiet DEF Release, Kill, MutexInv, Executing
<1>10. ASSUME NEW k \in Controllers, NEW c \in Components, Worker(k, c) PROVE MutexInv'
  <2>1. UNCHANGED workerFrame
    BY <1>10 DEF Worker, workerFrame, CheckRunning, StartCommandOk, StopCommandOk, CommandFails,
                 CommandTimesOut, CommandRaises, Healthy, Unhealthy, VerifyStopped
  <2>2. task[k][c] # "none"
    BY <1>10 DEF Worker, InFlight, CheckRunning, StartCommandOk, StopCommandOk, CommandFails,
                 CommandTimesOut, CommandRaises, Healthy, Unhealthy, VerifyStopped
  <2>3. Executing(k)
    BY <2>2, QuietHasNoTasks
  <2>4. \A j \in Controllers \ {k} : task'[j] = task[j] /\ misread'[j] = misread[j]
    BY <1>10 DEF Worker, SetTask, Misread, CheckRunning, StartCommandOk, StopCommandOk, CommandFails,
                 CommandTimesOut, CommandRaises, Healthy, Unhealthy, VerifyStopped
  <2> QED BY <2>1, <2>3, <2>4 DEF workerFrame, MutexInv, Executing, Quiet
<1>11. CASE Host
  <2>1. UNCHANGED hostFrame
    BY <1>11 DEF Host, BecomesReady, Dies, LateEffect
  <2> QED BY <2>1 DEF hostFrame, MutexInv, Executing, Quiet
<1>12. CASE UNCHANGED vars
  BY <1>12 DEF vars, MutexInv, Executing, Quiet
<1> QED
  BY <1>1, <1>2, <1>3, <1>4, <1>5, <1>6, <1>7, <1>8, <1>9, <1>10, <1>11, <1>12 DEF Next, Main

LEMMA MutexInvariant == Spec => []MutexInv
<1>1. Init => MutexInv
  BY DEF Init, MutexInv, Executing, Quiet
<1> QED BY <1>1, MutexStep, TypeCorrect, PTL DEF Spec

\* operation_lock is a mutual exclusion: whoever executes holds the lock, and
\* an operation is in flight only for an executing controller.
THEOREM Mutex == Spec => []LockOwnsExecution
<1>1. TypeOK /\ MutexInv => LockOwnsExecution
  BY QuietHasNoTasks DEF MutexInv, LockOwnsExecution, Running, InFlight
<1> QED
  BY <1>1, MutexInvariant, TypeCorrect, PTL

(***************************************************************************)
(* How the batches relate to the plan they were cut from.                  *)
(***************************************************************************)
SameBatch(k) ==
    /\ plan'[k] = plan[k] /\ todo'[k] = todo[k] /\ act'[k] = act[k]
    /\ Batch(k)' = Batch(k) /\ (Executing(k)' <=> Executing(k))

\* What a worker step changes of the controllers' state.
LEMMA WorkerFrame ==
    ASSUME TypeOK, NEW k \in Controllers, NEW c \in Components, Worker(k, c)
    PROVE  /\ UNCHANGED workerFrame
           /\ task[k][c] \in InFlight
           /\ \E s \in TaskStates \ {"none", "pending"} : SetTask(k, c, s)
  BY DEF Worker, workerFrame, TypeOK, TaskStates, InFlight, Successes, Failures, Confirmed, Rejected, CheckRunning,
         StartCommandOk, StopCommandOk, CommandFails, CommandTimesOut, CommandRaises, Healthy, Unhealthy, VerifyStopped

\* Only five actions touch a controller's plan or batch.
LEMMA StepKinds ==
    ASSUME TypeOK, [Next]_vars, NEW k \in Controllers
    PROVE  \/ SameBatch(k)
           \/ Prepare(k)
           \/ LockBusy(k)
           \/ Acquire(k)
           \/ NextBatchStarts(k)
           \/ Forget(k)
<1> USE DEF worldVars, mainVars, histVars, TypeOK
<1>1. ASSUME NEW j \in Controllers, j # k,
             Prepare(j) \/ LockBusy(j) \/ Acquire(j) \/ NextBatchStarts(j) \/ Release(j) \/ Kill(j)
      PROVE SameBatch(k)
  BY <1>1 DEF Prepare, LockBusy, Acquire, NextBatchStarts, LoadBatch, Release, Kill, Forget, SameBatch, Batch, Executing
<1>2. ASSUME NEW j \in Controllers,
             RecordOutcomes(j) \/ Fail(j) \/ Commit(j) \/ SaveRaises(j) \/ UndoRaises(j)
                \/ RolledBack(j) \/ Interrupt(j) \/ (\E c \in Components : Undo(j, c))
      PROVE SameBatch(k)
  BY <1>2 DEF RecordOutcomes, Fail, Commit, SaveRaises, UndoRaises, RolledBack, Interrupt, Undo, SameBatch, Batch, Executing
<1>3. ASSUME NEW j \in Controllers, Turn(j) PROVE SameBatch(k)
  <2> DEFINE admitted ==
          FirstOf(act[j], Admissible(j, Finished(j)), Workers - Cardinality(Running(j)))
  <2>1. FirstStep(j) # "none"
    BY DEF FirstStep
  <2>2. admitted \subseteq Batch(j)
    BY DEF FirstOf, Admissible, Batch
  <2>3. /\ task' = [task EXCEPT ![j] = [c \in Components |-> IF c \in admitted THEN FirstStep(j) ELSE @[c]]]
        /\ plan' = plan /\ todo' = todo /\ act' = act
        /\ Executing(k)' <=> Executing(k)
    BY <1>3 DEF Turn, Executing
  <2> HIDE DEF admitted
  <2>4. \A c \in Components : task'[k][c] # "none" <=> task[k][c] # "none"
    BY <2>1, <2>2, <2>3 DEF Batch
  <2> QED BY <2>3, <2>4 DEF SameBatch, Batch
<1>4. ASSUME NEW j \in Controllers, NEW c \in Components, Worker(j, c) PROVE SameBatch(k)
  <2>1. /\ plan' = plan /\ todo' = todo /\ act' = act /\ pc' = pc
        /\ task[j][c] # "none"
    BY <1>4, WorkerFrame DEF workerFrame, InFlight
  <2>2. PICK s \in TaskStates \ {"none", "pending"} : SetTask(j, c, s)
    BY <1>4, WorkerFrame
  <2>3. \A d \in Components : task'[k][d] # "none" <=> task[k][d] # "none"
    BY <2>1, <2>2 DEF SetTask
  <2> QED BY <2>1, <2>3 DEF SameBatch, Batch, Executing
<1>5. CASE Host
  BY <1>5 DEF Host, BecomesReady, Dies, LateEffect, hostFrame, SameBatch, Batch, Executing
<1>6. CASE UNCHANGED vars
  BY <1>6 DEF vars, SameBatch, Batch, Executing
<1>7. ASSUME Release(k) \/ Kill(k) PROVE Forget(k)
  BY <1>7 DEF Release, Kill
<1> QED
  BY <1>1, <1>2, <1>3, <1>4, <1>5, <1>6, <1>7 DEF Next, Main

PlanShape(k) ==
    /\ Executing(k) => act[k] # "none"
    /\ todo[k].stop \subseteq plan[k].stop
    /\ todo[k].restart \subseteq plan[k].restart
    /\ todo[k].start \subseteq plan[k].start
    /\ act[k] = "stop" => Batch(k) \subseteq plan[k].stop
    /\ act[k] = "restart" => Batch(k) \subseteq plan[k].restart
    /\ act[k] = "start" => Batch(k) \subseteq plan[k].start
    /\ act[k] \in {"restart", "start"} => todo[k].stop = {}
    /\ act[k] = "start" => todo[k] = EmptyPlan

ShapeInv == \A k \in Controllers : PlanShape(k)

LEMMA LoadBatchShape ==
    ASSUME TypeOK, NEW k \in Controllers, plan'[k] = plan[k], LoadBatch(k, todo[k]) \/ LoadBatch(k, plan[k]),
           PlanShape(k)
    PROVE  PlanShape(k)'
<1>1. PICK left \in Plan :
        /\ LoadBatch(k, left)
        /\ left.stop \subseteq plan[k].stop
        /\ left.restart \subseteq plan[k].restart
        /\ left.start \subseteq plan[k].start
  BY DEF PlanShape, TypeOK
<1>2. /\ todo'[k] = Without(left, NextBatch(left))
      /\ act'[k] = NextBatch(left).action
      /\ Batch(k)' \subseteq NextBatch(left).ops
  <2>1. DOMAIN todo = Controllers /\ DOMAIN act = Controllers /\ DOMAIN task = Controllers
    BY DEF TypeOK
  <2> QED BY <1>1, <2>1 DEF LoadBatch, Batch
<1>3. StopWave(left.stop) \subseteq left.stop
  BY DEF StopWave
<1>4. CASE left.stop # {}
  <2>1. /\ act'[k] = "stop" /\ Batch(k)' \subseteq left.stop
        /\ todo'[k] = [left EXCEPT !.stop = @ \ StopWave(left.stop)]
    BY <1>2, <1>3, <1>4 DEF NextBatch, Without
  <2> QED BY <1>1, <2>1 DEF PlanShape, Plan
<1>5. CASE left.stop = {} /\ left.restart # {}
  <2>1. /\ act'[k] = "restart" /\ Batch(k)' \subseteq left.restart
        /\ todo'[k] = [left EXCEPT !.restart = {}]
    BY <1>2, <1>5 DEF NextBatch, Without
  <2> QED BY <1>1, <1>5, <2>1 DEF PlanShape, Plan
<1>6. CASE left.stop = {} /\ left.restart = {}
  <2>1. /\ act'[k] = "start" /\ Batch(k)' \subseteq left.start
        /\ todo'[k] = [left EXCEPT !.start = {}]
    BY <1>2, <1>6 DEF NextBatch, Without
  <2>2. todo'[k] = EmptyPlan
    BY <1>1, <1>6, <2>1 DEF Plan, EmptyPlan, Group
  <2> QED BY <1>1, <1>6, <2>1, <2>2 DEF PlanShape, Plan, EmptyPlan, Group
<1> QED BY <1>4, <1>5, <1>6

LEMMA ShapeStep ==
    ASSUME TypeOK, MutexInv, ShapeInv, [Next]_vars PROVE ShapeInv'
<1> SUFFICES ASSUME NEW k \in Controllers PROVE PlanShape(k)'
  BY DEF ShapeInv
<1> PlanShape(k)
  BY DEF ShapeInv
<1>1. CASE SameBatch(k)
  BY <1>1 DEF SameBatch, PlanShape
<1>2. CASE Prepare(k) \/ LockBusy(k)
  <2>1. Quiet(k)
    BY <1>2 DEF MutexInv, Executing, Prepare, LockBusy
  <2>2. act'[k] = "none" /\ todo'[k] = EmptyPlan /\ ~Executing(k)'
    BY <1>2, <2>1 DEF Prepare, LockBusy, Executing, Quiet, TypeOK
  <2> QED BY <2>2 DEF PlanShape, EmptyPlan, Group
<1>3. CASE Acquire(k) \/ NextBatchStarts(k)
  BY <1>3, LoadBatchShape DEF Acquire, NextBatchStarts
<1>4. CASE Forget(k)
  BY <1>4 DEF Forget, PlanShape, EmptyPlan, Group, Executing, TypeOK
<1> QED BY <1>1, <1>2, <1>3, <1>4, StepKinds

\* Whatever is in a batch comes from the group of its action in the plan, and
\* the groups are worked off in the order stop, restart, start.
THEOREM BatchesFollowPlan == Spec => []ShapeInv
<1>1. Init => ShapeInv
  BY DEF Init, ShapeInv, PlanShape, EmptyPlan, Group, Batch, NoTasks, Executing
<1> QED BY <1>1, ShapeStep, MutexInvariant, TypeCorrect, PTL DEF Spec

(***************************************************************************)
(* The executor implements LifecycleLedger, and saving the map an          *)
(* invocation loaded loses no update, for any graph and any controllers.   *)
(***************************************************************************)

\* The first operation of a group is one operation.
LEMMA FirstIsOne ==
    ASSUME NEW S \in SUBSET Components, NEW c \in FirstOf("stop", S, 1), NEW d \in FirstOf("stop", S, 1)
    PROVE  c = d
<1> DEFINE Earlier(x) == {y \in S : Precedes("stop", y, x)}
<1>1. \A x \in FirstOf("stop", S, 1) : x \in S /\ Earlier(x) = {}
  <2> SUFFICES ASSUME NEW x \in FirstOf("stop", S, 1) PROVE x \in S /\ Earlier(x) = {}
    OBVIOUS
  <2>1. x \in S /\ Cardinality(Earlier(x)) < 1
    BY DEF FirstOf
  <2>2. IsFiniteSet(Earlier(x))
    BY FS_Subset, TopologyAssumption
  <2>3. Cardinality(Earlier(x)) \in Nat
    BY <2>2, FS_CardinalityType
  <2>4. Cardinality(Earlier(x)) = 0
    BY <2>1, <2>3
  <2> QED BY <2>1, <2>2, <2>4, FS_EmptySet
<1>2. c \in S /\ d \in S /\ ~Precedes("stop", c, d) /\ ~Precedes("stop", d, c)
  BY <1>1
<1>3. Position[c] \in Nat /\ Position[d] \in Nat
  BY <1>2, TopologyAssumption
<1> QED BY <1>2, <1>3, TopologyAssumption DEF Precedes

(***************************************************************************)
(* The strengthening of HolderSeesDisk: during the stops of a plan the map *)
(* in memory is the file.                                                  *)
(***************************************************************************)
StoreInv == HolderSeesDisk /\ \A k \in Controllers : act[k] = "stop" => mem[k] = desired

\* The file is written by walking over outcomes and by the final save.
LEMMA SomeWriter ==
    ASSUME [Next]_vars, TypeOK, desired' # desired
    PROVE  \E k \in Controllers : RecordOutcomes(k) \/ Commit(k)
<1> USE DEF worldVars, mainVars, histVars
<1>1. ASSUME NEW j \in Controllers,
             \/ Prepare(j) \/ Acquire(j) \/ LockBusy(j) \/ Turn(j) \/ NextBatchStarts(j)
             \/ Fail(j) \/ SaveRaises(j) \/ UndoRaises(j) \/ RolledBack(j) \/ Release(j)
             \/ Interrupt(j) \/ Kill(j) \/ \E c \in Components : Undo(j, c)
      PROVE FALSE
  BY <1>1 DEF Prepare, Acquire, LockBusy, Turn, NextBatchStarts, Fail, SaveRaises, UndoRaises,
              RolledBack, Release, Interrupt, Kill, Undo
<1>2. ASSUME NEW j \in Controllers, NEW c \in Components, Worker(j, c) PROVE FALSE
  BY <1>2, WorkerFrame DEF workerFrame
<1>3. CASE Host
  BY <1>3 DEF Host, BecomesReady, Dies, LateEffect, hostFrame
<1>4. CASE UNCHANGED vars
  BY <1>4 DEF vars
<1> QED BY <1>1, <1>2, <1>3, <1>4 DEF Next, Main

\* Only the executing controller writes the file.
LEMMA OnlyHolderWrites ==
    ASSUME TypeOK, MutexInv, [Next]_vars, NEW k \in Controllers, Executing(k), desired' # desired
    PROVE  RecordOutcomes(k) \/ Commit(k)
<1>1. PICK j \in Controllers : RecordOutcomes(j) \/ Commit(j)
  BY SomeWriter
<1>2. j = k
  BY <1>1 DEF MutexInv, RecordOutcomes, Commit, Executing
<1> QED BY <1>1, <1>2

\* The map in memory changes by loading, by an outcome, or by forgetting.
LEMMA MemSteps ==
    ASSUME TypeOK, [Next]_vars, NEW k \in Controllers, mem'[k] # mem[k]
    PROVE  Acquire(k) \/ RecordOutcomes(k) \/ Forget(k)
<1> USE DEF worldVars, mainVars, histVars, TypeOK
<1>1. ASSUME NEW j \in Controllers,
             \/ Prepare(j) \/ LockBusy(j) \/ Turn(j) \/ NextBatchStarts(j) \/ Commit(j)
             \/ Fail(j) \/ SaveRaises(j) \/ UndoRaises(j) \/ RolledBack(j)
             \/ Interrupt(j) \/ \E c \in Components : Undo(j, c)
      PROVE FALSE
  BY <1>1 DEF Prepare, LockBusy, Turn, NextBatchStarts, Commit, Fail, SaveRaises, UndoRaises,
              RolledBack, Interrupt, Undo
<1>2. ASSUME NEW j \in Controllers, Acquire(j) \/ RecordOutcomes(j) \/ Release(j) \/ Kill(j)
      PROVE j = k /\ (Acquire(k) \/ RecordOutcomes(k) \/ Forget(k))
  BY <1>2 DEF Acquire, RecordOutcomes, Release, Kill, Forget
<1>3. ASSUME NEW j \in Controllers, NEW c \in Components, Worker(j, c) PROVE FALSE
  BY <1>3, WorkerFrame DEF workerFrame
<1>4. CASE Host
  BY <1>4 DEF Host, BecomesReady, Dies, LateEffect, hostFrame
<1>5. CASE UNCHANGED vars
  BY <1>5 DEF vars
<1> QED BY <1>1, <1>2, <1>3, <1>4, <1>5 DEF Next, Main

\* What walking over outcomes does to the file: it notes at most one stop.
LEMMA OutcomeEffect ==
    ASSUME TypeOK, ShapeInv, StoreInv, NEW k \in Controllers, RecordOutcomes(k)
    PROVE  \/ /\ act[k] = "stop" /\ mem'[k] = desired'
              /\ \/ desired' = desired
                 \/ \E c \in Components : desired' = [desired EXCEPT ![c] = "stopped"]
           \/ /\ act[k] # "stop" /\ desired' = desired
              /\ \A c \in Components : mem'[k][c] # mem[k][c] =>
                    /\ mem'[k][c] = "running"
                    /\ c \in plan[k].start \cup plan[k].restart
<1>0. mem'[k] = [c \in Components |->
            IF c \in Stops(k) THEN "stopped" ELSE IF c \in Brings(k) THEN "running" ELSE mem[k][c]]
  BY DEF RecordOutcomes, TypeOK
<1>1. CASE act[k] = "stop"
  <2>1. Brings(k) = {} /\ mem[k] = desired
    BY <1>1 DEF Brings, StoreInv
  <2>2. NextOutcomes(k) = FirstOf("stop", collected[k] \ recorded[k], 1)
    BY <1>1 DEF NextOutcomes
  <2>3. \A c, d \in Stops(k) : c = d
    <3>1. collected[k] \ recorded[k] \in SUBSET Components
      BY DEF TypeOK
    <3>2. Stops(k) \subseteq FirstOf("stop", collected[k] \ recorded[k], 1)
      BY <2>2 DEF Stops
    <3> QED BY <3>1, <3>2, FirstIsOne
  <2>4. Stops(k) \subseteq Components
    BY <2>2 DEF Stops, FirstOf, TypeOK
  <2>5. CASE Stops(k) = {}
    <3>1. mem'[k] = mem[k]
      BY <1>0, <2>1, <2>5 DEF TypeOK
    <3>2. desired' = desired
      BY <2>5 DEF RecordOutcomes, Saves
    <3> QED BY <1>1, <2>1, <3>1, <3>2
  <2>6. CASE Stops(k) # {}
    <3>1. PICK c \in Components : Stops(k) = {c}
      BY <2>3, <2>4, <2>6
    <3>2. mem'[k] = [desired EXCEPT ![c] = "stopped"]
      BY <1>0, <2>1, <3>1 DEF TypeOK
    <3>3. desired' = mem'[k]
      BY <2>6 DEF RecordOutcomes, Saves
    <3> QED BY <1>1, <3>2, <3>3
  <2> QED BY <2>5, <2>6
<1>2. CASE act[k] # "stop"
  <2>1. Stops(k) = {}
    BY <1>2 DEF Stops
  <2>2. desired' = desired
    BY <2>1 DEF RecordOutcomes, Saves
  <2>3. \A c \in Brings(k) : c \in Components => c \in plan[k].start \cup plan[k].restart
    BY <1>2 DEF Brings, ShapeInv, PlanShape, Batch, Successes, TypeOK, BatchAction,
                Executing, RecordOutcomes
  <2> QED BY <1>0, <1>2, <2>1, <2>2, <2>3
<1> QED BY <1>1, <1>2

LEMMA StoreStep ==
    ASSUME TypeOK, MutexInv, ShapeInv, StoreInv, [Next]_vars
    PROVE  StoreInv'
<1> SUFFICES ASSUME NEW k \in Controllers
             PROVE /\ Executing(k)' => \A c \in Components : mem'[k][c] # desired'[c] =>
                            mem'[k][c] = "running" /\ c \in plan'[k].start \cup plan'[k].restart
                   /\ act'[k] = "stop" => mem'[k] = desired'
  BY DEF StoreInv, HolderSeesDisk
<1> USE DEF TypeOK
<1>1. CASE SameBatch(k)
  <2>1. CASE ~Executing(k)
    BY <1>1, <2>1 DEF SameBatch, MutexInv, Quiet
  <2>2. CASE Executing(k) /\ RecordOutcomes(k)
    BY <1>1, <2>2, OutcomeEffect DEF SameBatch, StoreInv, HolderSeesDisk
  <2>3. CASE Executing(k) /\ ~RecordOutcomes(k) /\ desired' = desired
    <3>1. mem'[k] = mem[k]
      BY <2>3, <1>1, MemSteps DEF SameBatch, Acquire, LoadBatch, Forget, Executing
    <3> QED BY <1>1, <2>3, <3>1 DEF SameBatch, StoreInv, HolderSeesDisk
  <2>4. CASE Executing(k) /\ ~RecordOutcomes(k) /\ desired' # desired
    <3>1. Commit(k)
      BY <2>4, OnlyHolderWrites
    <3>2. mem' = mem /\ desired' = mem[k]
      BY <3>1 DEF Commit, mainVars
    <3> QED BY <3>2
  <2> QED BY <2>1, <2>2, <2>3, <2>4
<1>2. CASE Prepare(k) \/ LockBusy(k)
  BY <1>2 DEF Prepare, LockBusy, Executing, MutexInv, Quiet
<1>3. CASE Acquire(k)
  BY <1>3 DEF Acquire, LoadedMap
<1>4. CASE NextBatchStarts(k)
  <2>1. /\ mem' = mem /\ desired' = desired /\ plan' = plan /\ Executing(k)
        /\ act'[k] = NextBatch(todo[k]).action
    BY <1>4 DEF NextBatchStarts, LoadBatch, Executing
  <2>2. act'[k] = "stop" => act[k] = "stop"
    BY <2>1 DEF NextBatch, ShapeInv, PlanShape, BatchAction
  <2> QED BY <2>1, <2>2 DEF StoreInv, HolderSeesDisk
<1>5. CASE Forget(k)
  BY <1>5 DEF Forget, Executing
<1> QED BY <1>1, <1>2, <1>3, <1>4, <1>5, StepKinds

LEMMA StoreInvariant == Spec => []StoreInv
<1>1. Init => StoreInv
  BY DEF Init, StoreInv, HolderSeesDisk, Executing
<1> QED BY <1>1, StoreStep, BatchesFollowPlan, MutexInvariant, TypeCorrect, PTL DEF Spec

\* An invocation that saves the map it loaded under the lock overwrites nobody's
\* update (execute loads after operation_lock is taken).
THEOREM NoLostUpdate == Spec => []HolderSeesDisk
<1>1. StoreInv => HolderSeesDisk
  BY DEF StoreInv
<1> QED BY <1>1, StoreInvariant, PTL

(***************************************************************************)
(* Refinement.                                                             *)
(***************************************************************************)
\* Every step is a step of the ledger or a stutter.
LEMMA LedgerStep ==
    ASSUME TypeOK, MutexInv, ShapeInv, StoreInv, [Next]_vars
    PROVE  [Ledger!Next]_(Ledger!vars)
<1> USE ExecutorAssumption DEF worldVars, mainVars, histVars
<1>1. ASSUME NEW k \in Controllers, Prepare(k) \/ LockBusy(k) \/ Turn(k) \/ NextBatchStarts(k) \/ Fail(k)
      PROVE UNCHANGED Ledger!vars
  BY <1>1 DEF Prepare, LockBusy, Turn, NextBatchStarts, LoadBatch, Fail, Ledger!vars, LedgerPhase, TypeOK
<1>2. ASSUME NEW k \in Controllers, Acquire(k) PROVE Ledger!Take(k)
  BY <1>2 DEF Acquire, LockFree, LoadBatch, Ledger!Take, LedgerPhase, TypeOK
<1>3. ASSUME NEW k \in Controllers, RecordOutcomes(k) PROVE [Ledger!Next]_(Ledger!vars)
  <2>1. lock = k /\ lock' = lock /\ pc' = pc /\ pc[k] = "outcomes"
    BY <1>3 DEF RecordOutcomes, MutexInv, Executing
  <2>2. LedgerPhase = "working" /\ LedgerPhase' = LedgerPhase
    BY <2>1 DEF LedgerPhase
  <2>3. desired' = desired \/ \E c \in Components : desired' = [desired EXCEPT ![c] = "stopped"]
    BY <1>3, OutcomeEffect
  <2> QED BY <2>1, <2>2, <2>3 DEF Ledger!Next, Ledger!NoteStopped, Ledger!vars
<1>4. ASSUME NEW k \in Controllers, Commit(k) PROVE Ledger!Next
  <2>1. /\ lock = k /\ lock' = lock /\ LedgerPhase = "working" /\ LedgerPhase' = "settled"
        /\ desired' = mem[k]
    BY <1>4 DEF Commit, MutexInv, Executing, LedgerPhase, TypeOK
  <2>2. \A c \in Components : mem[k][c] # desired[c] => mem[k][c] = "running"
    BY <1>4 DEF Commit, StoreInv, HolderSeesDisk, Executing
  <2>3. Ledger!Settle({c \in Components : mem[k][c] # desired[c]})
    BY <2>1, <2>2 DEF Ledger!Settle, TypeOK
  <2> QED BY <2>3 DEF Ledger!Next
<1>5. ASSUME NEW k \in Controllers, SaveRaises(k) \/ UndoRaises(k) \/ RolledBack(k) \/ Interrupt(k)
      PROVE Ledger!Settle({})
  <2>1. /\ lock' = lock /\ desired' = desired
        /\ pc[k] \in {"batch", "outcomes", "rollback"} /\ pc'[k] \in {"unwind", "release"}
    BY <1>5 DEF SaveRaises, UndoRaises, RolledBack, Interrupt, TypeOK
  <2>2. lock = k
    BY <2>1 DEF MutexInv, Executing
  <2>3. LedgerPhase = "working" /\ LedgerPhase' = "settled"
    BY <2>1, <2>2 DEF LedgerPhase
  <2> QED BY <2>1, <2>2, <2>3 DEF Ledger!Settle, TypeOK
<1>6. ASSUME NEW k \in Controllers, NEW c \in Components, Undo(k, c) PROVE UNCHANGED Ledger!vars
  BY <1>6 DEF Undo, Ledger!vars, LedgerPhase
<1>7. ASSUME NEW k \in Controllers, Release(k) PROVE Ledger!Leave
  BY <1>7 DEF Release, MutexInv, Executing, Ledger!Leave, LedgerPhase
<1>8. ASSUME NEW k \in Controllers, Kill(k) PROVE [Ledger!Next]_(Ledger!vars)
  <2>1. CASE lock = k
    <3>1. Ledger!Leave
      BY <1>8, <2>1 DEF Kill, Ledger!Leave, LedgerPhase
    <3> QED BY <3>1 DEF Ledger!Next
  <2>2. CASE lock # k
    BY <1>8, <2>2 DEF Kill, Forget, Ledger!vars, LedgerPhase, TypeOK
  <2> QED BY <2>1, <2>2
<1>9. ASSUME NEW k \in Controllers, NEW c \in Components, Worker(k, c) PROVE UNCHANGED Ledger!vars
  BY <1>9, WorkerFrame DEF workerFrame, Ledger!vars, LedgerPhase
<1>10. CASE Host
  BY <1>10 DEF Host, BecomesReady, Dies, LateEffect, hostFrame, Ledger!vars, LedgerPhase
<1>11. CASE UNCHANGED vars
  BY <1>11 DEF vars, Ledger!vars, LedgerPhase
<1> QED
  BY <1>1, <1>2, <1>3, <1>4, <1>5, <1>6, <1>7, <1>8, <1>9, <1>10, <1>11 DEF Next, Main, Ledger!Next

\* lifecycle.json behaves as LifecycleLedger promises: written under the lock
\* only, stops noted one by one, what was brought up noted all at once and last.
THEOREM ExecutorImplementsLedger == Spec => ImplementsLedger
<1>1. Init => Ledger!Init
  BY DEF Init, Ledger!Init, LedgerPhase
<1> QED
  BY <1>1, LedgerStep, StoreInvariant, BatchesFollowPlan, MutexInvariant, TypeCorrect, PTL
     DEF Spec, ImplementsLedger, Ledger!Spec

(***************************************************************************)
(* Admission of concurrent operations: dependencies before consumers, no   *)
(* batch that gets stuck, nothing in flight when outcomes are recorded.    *)
(***************************************************************************)

\* A step of another controller or of a host leaves a controller alone.
Untouched(k) ==
    /\ pc'[k] = pc[k] /\ plan'[k] = plan[k] /\ todo'[k] = todo[k] /\ act'[k] = act[k]
    /\ task'[k] = task[k] /\ collected'[k] = collected[k] /\ recorded'[k] = recorded[k]
    /\ started'[k] = started[k] /\ undone'[k] = undone[k] /\ broken'[k] = broken[k]
    /\ stopped'[k] = stopped[k]

\* The steps of a controller that leave its batch and the outcomes alone.
PcOnly(k) ==
    Fail(k) \/ Commit(k) \/ SaveRaises(k) \/ UndoRaises(k) \/ RolledBack(k) \/ Interrupt(k)
        \/ \E c \in Components : Undo(k, c)

LEMMA ControllerSteps ==
    ASSUME TypeOK, [Next]_vars, NEW k \in Controllers
    PROVE  \/ Untouched(k)
           \/ Prepare(k) \/ LockBusy(k)
           \/ Acquire(k) \/ NextBatchStarts(k)
           \/ Turn(k)
           \/ \E c \in Components : Worker(k, c)
           \/ RecordOutcomes(k)
           \/ PcOnly(k)
           \/ Forget(k)
<1> USE DEF worldVars, mainVars, histVars, TypeOK
<1>1. ASSUME NEW j \in Controllers, j # k,
             Prepare(j) \/ LockBusy(j) \/ Acquire(j) \/ NextBatchStarts(j) \/ Release(j) \/ Kill(j)
      PROVE Untouched(k)
  BY <1>1 DEF Prepare, LockBusy, Acquire, NextBatchStarts, LoadBatch, Release, Kill, Forget, Untouched
<1>2. ASSUME NEW j \in Controllers, j # k, Turn(j) \/ RecordOutcomes(j) PROVE Untouched(k)
  BY <1>2 DEF Turn, RecordOutcomes, Untouched
<1>3. ASSUME NEW j \in Controllers, j # k, PcOnly(j) PROVE Untouched(k)
  BY <1>3 DEF PcOnly, Fail, Commit, SaveRaises, UndoRaises, RolledBack, Interrupt, Undo, Untouched
<1>4. ASSUME NEW j \in Controllers, j # k, NEW c \in Components, Worker(j, c) PROVE Untouched(k)
  BY <1>4, WorkerFrame DEF workerFrame, SetTask, Untouched
<1>5. CASE Host
  BY <1>5 DEF Host, BecomesReady, Dies, LateEffect, hostFrame, Untouched
<1>6. CASE UNCHANGED vars
  BY <1>6 DEF vars, Untouched
<1>7. ASSUME Release(k) \/ Kill(k) PROVE Forget(k)
  BY <1>7 DEF Release, Kill
<1> QED
  BY <1>1, <1>2, <1>3, <1>4, <1>5, <1>6, <1>7 DEF Next, Main, PcOnly

(***************************************************************************)
(* There is a first operation in every non-empty group.                    *)
(***************************************************************************)
Earlier(action, S, x) == {d \in S : Precedes(action, d, x)}

LEMMA SomeFirst ==
    ASSUME NEW S \in SUBSET Components, S # {}, NEW action
    PROVE  \E c \in S : Earlier(action, S, c) = {}
<1> DEFINE T == {Earlier(action, S, c) : c \in S}
<1>1. IsFiniteSet(S)
  BY FS_Subset, TopologyAssumption
<1>2. T \subseteq FiniteSubsetsOf(S) /\ T # {}
  <2>1. ASSUME NEW c \in S PROVE Earlier(action, S, c) \in FiniteSubsetsOf(S)
    <3>1. Earlier(action, S, c) \in SUBSET S
      BY DEF Earlier
    <3> QED BY <1>1, <3>1, FS_Subset DEF FiniteSubsetsOf
  <2> QED BY <2>1
<1>3. PICK E \in T : \A F \in T : <<F, E>> \notin StrictSubsetOrdering(S)
  <2> HIDE DEF T
  <2> QED BY <1>2, FS_StrictSubsetOrderingWellFounded, WFMin
<1>4. PICK c \in S : E = Earlier(action, S, c)
  BY <1>3
<1>5. ASSUME NEW d \in Earlier(action, S, c) PROVE FALSE
  <2>1. d \in S /\ Precedes(action, d, c)
    BY <1>5 DEF Earlier
  <2>2. \A x \in S : Position[x] \in Nat
    BY TopologyAssumption
  <2>3. d \notin Earlier(action, S, d)
    BY <2>1, <2>2 DEF Earlier, Precedes
  <2>4. Earlier(action, S, d) \subseteq Earlier(action, S, c)
    BY <2>1, <2>2 DEF Earlier, Precedes
  <2>5. Earlier(action, S, d) # Earlier(action, S, c)
    BY <1>5, <2>3
  <2>6. <<Earlier(action, S, d), E>> \in StrictSubsetOrdering(S)
    BY <1>4, <2>4, <2>5 DEF StrictSubsetOrdering, Earlier
  <2> QED BY <1>3, <2>1, <2>6
<1> QED BY <1>5

LEMMA FirstOfNonEmpty ==
    ASSUME NEW S \in SUBSET Components, S # {}, NEW action, NEW n \in Nat \ {0}
    PROVE  FirstOf(action, S, n) # {}
<1>1. PICK c \in S : Earlier(action, S, c) = {}
  BY SomeFirst
<1>2. Cardinality(Earlier(action, S, c)) < n
  BY <1>1, FS_EmptySet
<1> QED BY <1>2 DEF FirstOf, Earlier

(***************************************************************************)
(* The invariant of one batch.                                             *)
(***************************************************************************)
Ordered(k) ==
    act[k] = "start" => \A c \in Batch(k) : task[k][c] # "pending" =>
        \A d \in DependsOn[c] \cap Batch(k) : d \in collected[k] /\ task[k][d] \in Successes

Drained(k) ==
    pc[k] \in {"outcomes", "rollback", "release"} =>
        Running(k) = {} /\ collected[k] = Finished(k)

Complete(k) ==
    pc[k] = "outcomes" => StartFailed(k, collected[k]) \/ Batch(k) = collected[k]

BatchInv(k) ==
    /\ collected[k] \subseteq Finished(k)
    /\ recorded[k] \subseteq collected[k]
    /\ Ordered(k)
    /\ Drained(k)
    /\ Complete(k)

AdmissionInv == \A k \in Controllers : BatchInv(k)

\* The states of a task.
LEMMA TaskPartition ==
    ASSUME TypeOK, NEW k \in Controllers
    PROVE  /\ Batch(k) = {c \in Components : task[k][c] = "pending"} \cup Running(k) \cup Finished(k)
           /\ Running(k) \cap Finished(k) = {}
           /\ \A c \in Components : task[k][c] = "pending" => c \notin Running(k) \cup Finished(k)
  BY DEF TypeOK, TaskStates, InFlight, Successes, Failures, Batch, Running, Finished

\* A batch that stops waiting has nothing pending, or a start has failed.
LEMMA NeverStuck ==
    ASSUME TypeOK, ShapeInv, NEW k \in Controllers, Executing(k),
           BatchOver(k, Finished(k), FirstOf(act[k], Admissible(k, Finished(k)),
                                             Workers - Cardinality(Running(k))))
    PROVE  StartFailed(k, Finished(k)) \/ Batch(k) = Finished(k)
<1> DEFINE pending == {c \in Components : task[k][c] = "pending"}
<1> SUFFICES ASSUME ~StartFailed(k, Finished(k)), pending # {} PROVE FALSE
  BY TaskPartition DEF BatchOver
<1>1. Running(k) = {} /\ FirstOf(act[k], Admissible(k, Finished(k)), Workers) = {}
  BY FS_EmptySet, ExecutorAssumption DEF BatchOver
<1>2. Admissible(k, Finished(k)) \in SUBSET Components
  BY DEF Admissible
<1>3. PICK c \in pending : Earlier("start", pending, c) = {}
  BY SomeFirst
<1>4. ASSUME act[k] = "start" PROVE DependsOn[c] \cap Unready(k, Finished(k)) = {}
  <2> SUFFICES ASSUME NEW d \in DependsOn[c], d \in Unready(k, Finished(k)) PROVE FALSE
    OBVIOUS
  <2>1. d \in Components /\ Precedes("start", d, c) /\ d \in Batch(k)
    BY TopologyAssumption DEF Precedes, Unready, Batch
  <2>2. d \notin pending
    BY <1>3, <2>1 DEF Earlier
  <2>3. d \in Finished(k)
    BY <1>1, <2>1, <2>2, TaskPartition
  <2>4. task[k][d] \in Successes
    BY <1>4, <2>3 DEF StartFailed, Finished
  <2> QED BY <2>3, <2>4 DEF Unready
<1>5. c \in Admissible(k, Finished(k))
  BY <1>3, <1>4 DEF Admissible
<1> QED BY <1>1, <1>2, <1>5, FirstOfNonEmpty, ExecutorAssumption

LEMMA LoadedBatchInv ==
    ASSUME TypeOK, NEW k \in Controllers, NEW left \in Plan, LoadBatch(k, left) PROVE BatchInv(k)'
<1>1. /\ collected'[k] = {} /\ recorded'[k] = {} /\ pc'[k] = "batch"
      /\ \A c \in Components : task'[k][c] \in {"pending", "none"}
  BY DEF LoadBatch, TypeOK
<1> QED BY <1>1 DEF BatchInv, Ordered, Drained, Complete, Batch

LEMMA TurnBatchInv ==
    ASSUME TypeOK, ShapeInv, NEW k \in Controllers, BatchInv(k), Turn(k) PROVE BatchInv(k)'
<1> DEFINE seen == Finished(k)
           admitted == FirstOf(act[k], Admissible(k, seen), Workers - Cardinality(Running(k)))
<1>1. /\ pc[k] = "batch" /\ collected'[k] = seen /\ recorded' = recorded /\ act' = act
      /\ \A c \in Components :
            task'[k][c] = IF c \in admitted THEN FirstStep(k) ELSE task[k][c]
      /\ pc'[k] = IF BatchOver(k, seen, admitted) THEN "outcomes" ELSE "batch"
  BY DEF Turn, TypeOK
<1>2. admitted \subseteq Admissible(k, seen)
  BY DEF FirstOf
<1>3. \A c \in admitted : c \in Components /\ task[k][c] = "pending"
  BY <1>2 DEF Admissible
<1>4. act[k] = "start" => \A c \in admitted : DependsOn[c] \cap Unready(k, seen) = {}
  BY <1>2 DEF Admissible
<1>5. BatchOver(k, seen, admitted) => StartFailed(k, seen) \/ Batch(k) = seen
  BY <1>1, NeverStuck DEF Executing
<1>6. FirstStep(k) \in InFlight
  BY DEF FirstStep, InFlight
<1> HIDE DEF seen, admitted
<1>7. Batch(k)' = Batch(k)
  BY <1>1, <1>3, <1>6 DEF Batch, InFlight
<1>8. Finished(k)' = Finished(k)
  BY <1>1, <1>3, <1>6 DEF Finished, InFlight, Successes, Failures
<1>9. \A c \in seen : task'[k][c] = task[k][c]
  BY <1>1, <1>3 DEF seen, Finished, Successes, Failures
<1>10. Ordered(k)'
  <2> SUFFICES ASSUME act[k] = "start", NEW c \in Batch(k), task'[k][c] # "pending",
                      NEW d \in DependsOn[c] \cap Batch(k)
               PROVE  d \in seen /\ task'[k][d] \in Successes
    BY <1>1, <1>7 DEF Ordered
  <2>1. c \in Components
    BY DEF Batch
  <2>2. CASE c \in admitted
    <3>1. d \in seen /\ task[k][d] \in Successes
      BY <1>4, <2>2 DEF Unready
    <3> QED BY <3>1, <1>9
  <2>3. CASE c \notin admitted
    <3>1. task[k][c] # "pending"
      BY <1>1, <2>1, <2>3
    <3>2. d \in collected[k] /\ task[k][d] \in Successes
      BY <3>1 DEF BatchInv, Ordered
    <3> QED BY <3>2, <1>9 DEF BatchInv, seen
  <2> QED BY <2>2, <2>3
<1>11. BatchOver(k, seen, admitted) => Running(k)' = {}
  BY <1>1, <1>3 DEF BatchOver, Running
<1>12. StartFailed(k, seen)' <=> StartFailed(k, seen)
  BY <1>1, <1>8, <1>9 DEF StartFailed, seen
<1> QED
  BY <1>1, <1>5, <1>7, <1>8, <1>10, <1>11, <1>12 DEF BatchInv, Drained, Complete, seen, StartFailed

LEMMA WorkerBatchInv ==
    ASSUME TypeOK, NEW k \in Controllers, NEW c \in Components, BatchInv(k), Worker(k, c)
    PROVE  BatchInv(k)'
<1>1. /\ pc'[k] = pc[k] /\ act'[k] = act[k] /\ collected'[k] = collected[k] /\ recorded'[k] = recorded[k]
      /\ task[k][c] \in InFlight
  BY WorkerFrame DEF workerFrame
<1>2. PICK s \in TaskStates \ {"none", "pending"} : SetTask(k, c, s)
  BY WorkerFrame
<1>3. task'[k][c] = s /\ \A d \in Components \ {c} : task'[k][d] = task[k][d]
  BY <1>2 DEF SetTask, TypeOK
<1>4. pc[k] \notin {"outcomes", "rollback", "release"}
  BY <1>1 DEF BatchInv, Drained, Running
<1>5. Batch(k)' = Batch(k) /\ Finished(k) \subseteq Finished(k)' /\ c \notin Finished(k)
  BY <1>1, <1>3 DEF Batch, Finished, InFlight, Successes, Failures
<1>6. Ordered(k)'
  BY <1>1, <1>3, <1>5 DEF BatchInv, Ordered, InFlight, Successes, Batch
<1> QED BY <1>1, <1>4, <1>5, <1>6 DEF BatchInv, Drained, Complete

LEMMA AdmissionStep ==
    ASSUME TypeOK, MutexInv, ShapeInv, AdmissionInv, [Next]_vars PROVE AdmissionInv'
<1> SUFFICES ASSUME NEW k \in Controllers PROVE BatchInv(k)'
  BY DEF AdmissionInv
<1> BatchInv(k)
  BY DEF AdmissionInv
<1>1. CASE Untouched(k)
  BY <1>1 DEF Untouched, BatchInv, Ordered, Drained, Complete, Batch, Running, Finished, StartFailed
<1>2. CASE Prepare(k) \/ LockBusy(k)
  BY <1>2 DEF Prepare, LockBusy, TypeOK, BatchInv, Ordered, Drained, Complete, Batch, Finished
<1>3. CASE Acquire(k) \/ NextBatchStarts(k)
  BY <1>3, LoadedBatchInv DEF Acquire, NextBatchStarts, TypeOK
<1>4. CASE Turn(k)
  BY <1>4, TurnBatchInv
<1>5. CASE \E c \in Components : Worker(k, c)
  BY <1>5, WorkerBatchInv
<1>6. CASE RecordOutcomes(k)
  <2>1. NextOutcomes(k) \subseteq collected[k]
    BY DEF NextOutcomes, FirstOf
  <2>2. /\ pc' = pc /\ act' = act /\ task' = task /\ collected' = collected
        /\ recorded'[k] = recorded[k] \cup NextOutcomes(k)
    BY <1>6 DEF RecordOutcomes, TypeOK
  <2> QED BY <2>1, <2>2 DEF BatchInv, Ordered, Drained, Complete, Batch, Running, Finished, StartFailed
<1>7. CASE PcOnly(k)
  <2>1. /\ act' = act /\ task' = task /\ collected' = collected /\ recorded' = recorded
        /\ pc'[k] # "outcomes"
        /\ pc'[k] \in {"rollback", "release"} => pc[k] \in {"outcomes", "rollback"}
    BY <1>7 DEF PcOnly, Fail, Commit, SaveRaises, UndoRaises, RolledBack, Interrupt, Undo, mainVars, TypeOK
  <2> QED BY <2>1 DEF BatchInv, Ordered, Drained, Complete, Batch, Running, Finished
<1>8. CASE Forget(k)
  BY <1>8 DEF Forget, NoTasks, TypeOK, BatchInv, Ordered, Drained, Complete
<1> QED BY <1>1, <1>2, <1>3, <1>4, <1>5, <1>6, <1>7, <1>8, ControllerSteps

LEMMA AdmissionInvariant == Spec => []AdmissionInv
<1>1. Init => AdmissionInv
  BY DEF Init, AdmissionInv, BatchInv, Ordered, Drained, Complete
<1> QED BY <1>1, AdmissionStep, BatchesFollowPlan, MutexInvariant, TypeCorrect, PTL DEF Spec

\* A consumer is admitted only after each of its planned dependencies was seen
\* to run or to become ready, for every acyclic graph and any pool size.
THEOREM DependenciesFirst == Spec => []StartOrder
<1>1. AdmissionInv => StartOrder
  BY DEF AdmissionInv, BatchInv, Ordered, StartOrder
<1> QED BY <1>1, AdmissionInvariant, PTL

\* The "unresolved dependency cycle" error of _execute_batch cannot be raised,
\* and no operation of a batch is silently left out: the graph is acyclic, so
\* with nothing in flight and no failed start there is always one to admit.
THEOREM BatchesComplete == Spec => []AdmissionNeverStuck
<1>1. AdmissionInv => AdmissionNeverStuck
  BY DEF AdmissionInv, BatchInv, Complete, AdmissionNeverStuck
<1> QED BY <1>1, AdmissionInvariant, PTL

\* Nothing is in flight when outcomes are recorded, when the rollback runs and
\* when the lock is given up in an orderly way.
THEOREM DrainedFirst == Spec => []DrainBeforeRollback
<1>1. AdmissionInv => DrainBeforeRollback
  BY DEF AdmissionInv, BatchInv, Drained, DrainBeforeRollback
<1> QED BY <1>1, AdmissionInvariant, PTL

(***************************************************************************)
(* What execute() makes of the outcomes: the barrier between the phases of *)
(* a plan, the rollback, and what reaches lifecycle.json.                  *)
(***************************************************************************)

(***************************************************************************)
(* The rollback spares what ran before.                                    *)
(***************************************************************************)
StartSides == {"command", "verify", "new", "failedNew"}

SparesInv(k) ==
    /\ \A c \in before[k] : Up(c)
    /\ started[k] \cap before[k] \subseteq misread[k]
    /\ act[k] = "start" => \A c \in before[k] : task[k][c] \in StartSides => c \in misread[k]
    /\ act[k] # "start" => \A c \in Components : task[k][c] \notin {"new", "failedNew"}

\* The history of one controller, in every step that is not its own Acquire or
\* its end: before only shrinks, misread only grows.
LEMMA HistorySteps ==
    ASSUME TypeOK, [Next]_vars, NEW k \in Controllers, ~Acquire(k), ~Forget(k),
           \A c \in before[k] : Up(c)
    PROVE  /\ before'[k] \subseteq before[k]
           /\ misread[k] \subseteq misread'[k]
           /\ \A c \in before'[k] : Up(c)'
<1> USE DEF worldVars, mainVars, histVars, TypeOK
<1> DEFINE Kept == /\ before'[k] \subseteq before[k]
                   /\ misread[k] \subseteq misread'[k]
                   /\ \A d \in before'[k] : Up(d)'
<1>1. ASSUME NEW c \in Components, NEW s \in {"down", "up", "ready"}, ProcBecomes(c, s)
      PROVE before'[k] \subseteq before[k] /\ \A d \in before'[k] : Up(d)'
  BY <1>1 DEF ProcBecomes, Up
<1>2. ASSUME UNCHANGED <<proc, before>>
      PROVE before'[k] \subseteq before[k] /\ \A d \in before'[k] : Up(d)'
  BY <1>2 DEF Up
<1>3. ASSUME NEW c \in Components, StopTakesEffect(c)
      PROVE before'[k] \subseteq before[k] /\ \A d \in before'[k] : Up(d)'
  BY <1>1, <1>2, <1>3 DEF StopTakesEffect
<1>4. ASSUME NEW j \in Controllers,
             \/ Prepare(j) \/ LockBusy(j) \/ Turn(j) \/ RecordOutcomes(j) \/ NextBatchStarts(j)
             \/ Fail(j) \/ Commit(j) \/ SaveRaises(j) \/ UndoRaises(j) \/ RolledBack(j) \/ Interrupt(j)
      PROVE Kept
  <2>1. UNCHANGED <<proc, before, misread>>
    BY <1>4 DEF Prepare, LockBusy, Turn, RecordOutcomes, NextBatchStarts, Fail, Commit, SaveRaises,
                UndoRaises, RolledBack, Interrupt
  <2> QED BY <2>1 DEF Up
<1>5. ASSUME NEW j \in Controllers, j # k, Acquire(j) \/ Release(j) \/ Kill(j)
      PROVE Kept
  <2>1. before'[k] = before[k] /\ misread'[k] = misread[k] /\ proc' = proc
    BY <1>5 DEF Acquire, Release, Kill, Forget
  <2> QED BY <2>1 DEF Up
<1>6. ASSUME NEW j \in Controllers, NEW c \in Components, Undo(j, c)
      PROVE Kept
  BY <1>2, <1>3, <1>6 DEF Undo
<1>7. ASSUME NEW j \in Controllers, NEW c \in Components, Worker(j, c)
      PROVE Kept
  <2>1. CASE CheckRunning(j, c) \/ VerifyStopped(j, c)
    <3>1. UNCHANGED <<proc, before>>
      BY <2>1 DEF CheckRunning, VerifyStopped
    <3>2. PICK reading : Misread(j, c, reading)
      BY <2>1 DEF CheckRunning, VerifyStopped
    <3>3. misread[k] \subseteq misread'[k]
      BY <3>2 DEF Misread
    <3> QED BY <1>2, <3>1, <3>3
  <2>2. CASE StartCommandOk(j, c)
    <3>1. (IF act[j] = "start" /\ Up(c) THEN proc[c] ELSE "up") \in {"down", "up", "ready"}
      OBVIOUS
    <3> QED BY <1>1, <2>2, <3>1 DEF StartCommandOk
  <2>3. CASE StopCommandOk(j, c)
    BY <1>3, <2>3 DEF StopCommandOk
  <2>4. CASE \/ CommandFails(j, c) \/ CommandTimesOut(j, c) \/ CommandRaises(j, c)
             \/ Healthy(j, c) \/ Unhealthy(j, c)
    BY <1>2, <2>4 DEF CommandFails, CommandTimesOut, CommandRaises, Healthy, Unhealthy
  <2> QED BY <1>7, <2>1, <2>2, <2>3, <2>4 DEF Worker
<1>8. ASSUME Host PROVE Kept
  <2>1. ASSUME NEW c \in Components, NEW e \in {"start", "stop"}, LateEffect(c, e)
        PROVE Kept
    <3>1. (IF e = "stop" THEN "down" ELSE IF Up(c) THEN proc[c] ELSE "up") \in {"down", "up", "ready"}
      OBVIOUS
    <3> QED BY <1>1, <2>1, <3>1 DEF LateEffect, hostFrame
  <2>2. ASSUME NEW c \in Components, BecomesReady(c) \/ Dies(c)
        PROVE Kept
    BY <1>1, <2>2 DEF BecomesReady, Dies, hostFrame
  <2> QED BY <1>8, <2>1, <2>2 DEF Host
<1>9. ASSUME UNCHANGED vars PROVE Kept
  BY <1>9 DEF vars, Up
<1>10. ~Release(k) /\ ~Kill(k)
  BY DEF Release, Kill
<1> HIDE DEF Kept
<1>11. Kept
  BY <1>4, <1>5, <1>6, <1>7, <1>8, <1>9, <1>10 DEF Next, Main
<1> QED BY <1>11 DEF Kept

LEMMA SparesStep ==
    ASSUME TypeOK, MutexInv, ShapeInv, AdmissionInv, \A k \in Controllers : SparesInv(k), [Next]_vars
    PROVE  \A k \in Controllers : SparesInv(k)'
<1> SUFFICES ASSUME NEW k \in Controllers PROVE SparesInv(k)'
  OBVIOUS
<1> SparesInv(k)
  OBVIOUS
<1>1. ASSUME ~Acquire(k), ~Forget(k)
      PROVE /\ before'[k] \subseteq before[k] /\ misread[k] \subseteq misread'[k]
            /\ \A c \in before'[k] : Up(c)'
  BY <1>1, HistorySteps DEF SparesInv
<1>2. CASE Forget(k)
  BY <1>2 DEF Forget, NoTasks, SparesInv, TypeOK
<1>3. CASE Acquire(k)
  <2>1. started'[k] = {} /\ proc' = proc /\ before'[k] = {c \in Components : Up(c)}
    BY <1>3 DEF Acquire, MutexInv, Executing, Quiet, TypeOK, worldVars
  <2>2. \A c \in Components : task'[k][c] \in {"pending", "none"}
    BY <1>3 DEF Acquire, LoadBatch, TypeOK
  <2> QED BY <2>1, <2>2 DEF SparesInv, StartSides, Up, TypeOK
<1>4. CASE ~Forget(k) /\ ~Acquire(k) /\ (Untouched(k) \/ Prepare(k) \/ LockBusy(k) \/ PcOnly(k))
  <2>1. started'[k] = started[k] /\ act'[k] = act[k] /\ task'[k] = task[k]
    BY <1>4 DEF Untouched, Prepare, LockBusy, PcOnly, Fail, Commit, SaveRaises, UndoRaises, RolledBack,
                Interrupt, Undo, mainVars
  <2> QED BY <1>1, <1>4, <2>1 DEF SparesInv, TypeOK
<1>5. CASE NextBatchStarts(k) /\ ~Forget(k) /\ ~Acquire(k)
  <2>1. started' = started
    BY <1>5 DEF NextBatchStarts
  <2>2. \A c \in Components : task'[k][c] \in {"pending", "none"}
    BY <1>5 DEF NextBatchStarts, LoadBatch, TypeOK
  <2> QED BY <1>1, <1>5, <2>1, <2>2 DEF SparesInv, StartSides, TypeOK
<1>6. CASE Turn(k) /\ ~Forget(k) /\ ~Acquire(k)
  <2>1. started' = started /\ act' = act
    BY <1>6 DEF Turn
  <2>2. \A c \in Components : task'[k][c] = task[k][c] \/ task'[k][c] = FirstStep(k)
    BY <1>6 DEF Turn, TypeOK
  <2>3. FirstStep(k) \notin {"new", "failedNew"} /\ (act[k] = "start" => FirstStep(k) = "check")
    BY DEF FirstStep
  <2> QED BY <1>1, <1>6, <2>1, <2>2, <2>3 DEF SparesInv, StartSides, TypeOK
<1>7. CASE RecordOutcomes(k) /\ ~Forget(k) /\ ~Acquire(k)
  <2>1. act' = act /\ task' = task /\ started'[k] = started[k] \cup NewlyStarted(k)
    BY <1>7 DEF RecordOutcomes, TypeOK
  <2>2. NewlyStarted(k) \subseteq {c \in Components : task[k][c] \in {"new", "failedNew"}}
    BY DEF NewlyStarted, NextOutcomes, FirstOf, TypeOK
  <2>3. \A c \in NewlyStarted(k) \cap before[k] : c \in misread[k]
    BY <2>2 DEF SparesInv, StartSides
  <2> QED BY <1>1, <1>7, <2>1, <2>3 DEF SparesInv, TypeOK
<1>8. CASE (\E c \in Components : Worker(k, c)) /\ ~Forget(k) /\ ~Acquire(k)
  <2>1. PICK c \in Components : Worker(k, c)
    BY <1>8
  <2>2. started' = started /\ act' = act
    BY <2>1, WorkerFrame DEF workerFrame
  <2>3. PICK s \in TaskStates \ {"none", "pending"} : SetTask(k, c, s)
    BY <2>1, WorkerFrame
  <2>4. task'[k][c] = s /\ \A d \in Components \ {c} : task'[k][d] = task[k][d]
    BY <2>3 DEF SetTask, TypeOK
  <2>5. act[k] # "start" => s \notin {"new", "failedNew"}
    BY <2>1, <2>4 DEF Worker, SetTask, CheckRunning, StartCommandOk, StopCommandOk, CommandFails, CommandTimesOut,
             CommandRaises, Healthy, Unhealthy, VerifyStopped, Confirmed, Rejected, TypeOK
  <2>6. ASSUME act[k] = "start", c \in before'[k], s \in StartSides PROVE c \in misread'[k]
    <3>1. c \in before[k] /\ Up(c)
      BY <1>1, <1>8, <2>6 DEF SparesInv
    <3>2. CASE CheckRunning(k, c)
      BY <2>4, <2>6, <3>1, <3>2 DEF CheckRunning, SetTask, AlreadyDone, Misread, StartSides, TypeOK
    <3>3. CASE ~CheckRunning(k, c)
      <4>1. task[k][c] \in StartSides
        BY <2>1, <2>4, <2>6, <3>3 DEF Worker, StartCommandOk, StopCommandOk, CommandFails, CommandTimesOut,
             CommandRaises, Healthy, Unhealthy, VerifyStopped, SetTask, StartSides, InFlight, TypeOK,
             Confirmed, Rejected
      <4> QED BY <1>1, <1>8, <2>6, <3>1, <4>1 DEF SparesInv
    <3> QED BY <3>2, <3>3
  <2> QED BY <1>1, <1>8, <2>2, <2>4, <2>5, <2>6 DEF SparesInv, TypeOK
<1> QED BY <1>2, <1>3, <1>4, <1>5, <1>6, <1>7, <1>8, ControllerSteps

\* Every invariant so far, for what follows.
AllInv ==
    /\ TypeOK /\ MutexInv /\ ShapeInv /\ StoreInv /\ AdmissionInv
    /\ \A k \in Controllers : SparesInv(k)

LEMMA AllInvariant == Spec => []AllInv
<1> DEFINE Inv == \A k \in Controllers : SparesInv(k)
<1>1. Init => Inv
  BY DEF Init, SparesInv, NoTasks
<1>2. TypeOK /\ MutexInv /\ ShapeInv /\ AdmissionInv /\ Inv /\ [Next]_vars => Inv'
  BY SparesStep
<1>3. TypeOK /\ MutexInv /\ ShapeInv /\ StoreInv /\ AdmissionInv /\ Inv => AllInv
  BY DEF AllInv
<1> QED
  BY <1>1, <1>2, <1>3, AdmissionInvariant, StoreInvariant, BatchesFollowPlan, MutexInvariant,
     TypeCorrect, PTL DEF Spec

\* A failed invocation never marks for its rollback a component that was
\* running before it and has not been down since, except after a misread status.
THEOREM RollbackSpares == Spec => []RollbackSparesPreexisting
<1>1. AllInv => RollbackSparesPreexisting
  BY DEF AllInv, SparesInv, RollbackSparesPreexisting
<1> QED BY <1>1, AllInvariant, PTL

(***************************************************************************)
(* The phases of a plan and the outcomes kept for the rollback.            *)
(***************************************************************************)
\* A stop of the plan is still to come, in the batch, or done; only a plan of
\* nothing but stops goes on after one that failed.
Barrier(k) ==
    /\ Executing(k) => \A c \in plan[k].stop :
            \/ c \in todo[k].stop
            \/ act[k] = "stop" /\ c \in Batch(k)
            \/ c \in stopped[k]
            \/ BestEffort(k)
    /\ act[k] \in {"restart", "start"} /\ BestEffort(k) => plan[k].stop = {}

StopsOrdered(k) ==
    act[k] = "stop" => \A c \in Batch(k), d \in plan[k].stop : c \in DependsOn[d] =>
        d \in stopped[k] \/ (BestEffort(k) /\ d \notin todo[k].stop \cup Batch(k))

\* What broken and started say of the outcomes walked over so far.
Walked(k) ==
    /\ act[k] = "stop" /\ ~BestEffort(k) => recorded[k] \subseteq stopped[k] \/ broken[k] = "batch"
    /\ broken[k] = "no" => \A c \in recorded[k] : task[k][c] \in Successes
    /\ started[k] = {c \in recorded[k] : task[k][c] \in {"new", "failedNew"}}
    /\ act[k] # "start" => started[k] = {}
    /\ pc[k] \in {"rollback", "release"} => recorded[k] = collected[k]
    /\ pc[k] = "release" => broken[k] = "no" \/ started[k] = undone[k]

OutcomeInv == \A k \in Controllers : Barrier(k) /\ StopsOrdered(k) /\ Walked(k)

LEMMA RecordKeepsWalked ==
    ASSUME AllInv, OutcomeInv, NEW k \in Controllers, RecordOutcomes(k)
    PROVE  Walked(k)'
<1> USE DEF AllInv, TypeOK
<1>1. /\ pc'[k] = "outcomes" /\ act' = act /\ task' = task /\ plan' = plan
      /\ recorded'[k] = recorded[k] \cup NextOutcomes(k)
      /\ started'[k] = started[k] \cup NewlyStarted(k)
      /\ stopped'[k] = stopped[k] \cup Stops(k)
  BY DEF RecordOutcomes
<1>2. /\ NextOutcomes(k) = Stops(k) \cup Brings(k) => broken'[k] = broken[k]
      /\ NextOutcomes(k) # Stops(k) \cup Brings(k) =>
            broken'[k] = (IF act[k] = "stop" /\ BestEffort(k) THEN "kept" ELSE "batch")
  BY DEF RecordOutcomes
<1>3. NewlyStarted(k) = {c \in NextOutcomes(k) : task[k][c] \in {"new", "failedNew"}}
  BY DEF NewlyStarted
<1>4. \A c \in Stops(k) \cup Brings(k) : task[k][c] \in Successes
  BY DEF Stops, Brings
<1>5. act[k] = "stop" => Brings(k) = {}
  BY DEF Brings
<1>6. Walked(k)
  BY DEF OutcomeInv
<1>7. act[k] = "stop" /\ ~BestEffort(k) => recorded'[k] \subseteq stopped'[k] \/ broken'[k] = "batch"
  BY <1>1, <1>2, <1>5, <1>6 DEF Walked
<1>8. broken'[k] = "no" => \A c \in recorded'[k] : task[k][c] \in Successes
  BY <1>1, <1>2, <1>4, <1>6 DEF Walked
<1>9. act[k] # "start" => NewlyStarted(k) = {}
  BY <1>3 DEF SparesInv, NextOutcomes, FirstOf
<1> QED BY <1>1, <1>3, <1>6, <1>7, <1>8, <1>9 DEF Walked, BestEffort

\* The loop and the workers never touch what is finished.
LEMMA TaskKept ==
    ASSUME TypeOK, NEW k \in Controllers, Turn(k) \/ \E c \in Components : Worker(k, c)
    PROVE  /\ \A c \in Finished(k) : task'[k][c] = task[k][c]
           /\ Batch(k)' = Batch(k)
<1> USE DEF TypeOK
<1>1. CASE Turn(k)
  <2>1. PICK S : S \subseteq {c \in Components : task[k][c] = "pending"}
                 /\ \A c \in Components : task'[k][c] = IF c \in S THEN FirstStep(k) ELSE task[k][c]
    <3> DEFINE S == FirstOf(act[k], Admissible(k, Finished(k)), Workers - Cardinality(Running(k)))
    <3>1. S \subseteq {c \in Components : task[k][c] = "pending"}
      BY DEF FirstOf, Admissible
    <3>2. \A c \in Components : task'[k][c] = IF c \in S THEN FirstStep(k) ELSE task[k][c]
      BY <1>1 DEF Turn
    <3> HIDE DEF S
    <3> QED BY <3>1, <3>2
  <2>2. FirstStep(k) \in InFlight
    BY DEF FirstStep, InFlight
  <2> QED BY <2>1, <2>2 DEF Finished, Batch, Successes, Failures, InFlight
<1>2. ASSUME NEW c \in Components, Worker(k, c)
      PROVE (\A d \in Finished(k) : task'[k][d] = task[k][d]) /\ Batch(k)' = Batch(k)
  <2>1. task[k][c] \in InFlight
    BY <1>2, WorkerFrame
  <2>2. PICK s \in TaskStates \ {"none", "pending"} : SetTask(k, c, s)
    BY <1>2, WorkerFrame
  <2>3. task'[k][c] = s /\ \A d \in Components \ {c} : task'[k][d] = task[k][d]
    BY <2>2 DEF SetTask
  <2> QED BY <2>1, <2>3 DEF Finished, Batch, InFlight, Successes, Failures
<1> QED BY <1>1, <1>2

\* Loading the next batch of the plan.
LEMMA NextBatchOutcome ==
    ASSUME AllInv, OutcomeInv, NEW k \in Controllers, NextBatchStarts(k)
    PROVE  Barrier(k)' /\ StopsOrdered(k)' /\ Walked(k)'
<1> USE DEF AllInv, TypeOK
<1>1. /\ pc[k] = "outcomes" /\ pc'[k] = "batch" /\ recorded[k] = collected[k] /\ broken[k] # "batch"
      /\ todo[k] # EmptyPlan /\ todo[k] \in Plan
      /\ plan' = plan /\ started' = started /\ stopped' = stopped /\ broken' = broken
      /\ recorded'[k] = {} /\ collected'[k] = {} /\ act'[k] = NextBatch(todo[k]).action
      /\ Batch(k)' = NextBatch(todo[k]).ops \cap Components
      /\ todo'[k] = Without(todo[k], NextBatch(todo[k]))
  BY DEF NextBatchStarts, LoadBatch, Batch, histVars
<1>2. act[k] \in {"stop", "restart"} /\ started[k] = {}
  <2>1. act[k] \notin {"none", "start"}
    BY <1>1 DEF ShapeInv, PlanShape, Executing
  <2>2. act[k] \in {"stop", "restart"}
    BY <2>1 DEF BatchAction
  <2> QED BY <2>2 DEF OutcomeInv, Walked
<1>3. ASSUME act[k] = "stop", ~BestEffort(k) PROVE Batch(k) \subseteq stopped[k]
  <2>1. Batch(k) = collected[k]
    BY <1>1, <1>3 DEF AdmissionInv, BatchInv, Complete, StartFailed
  <2> QED BY <1>1, <1>3, <2>1 DEF OutcomeInv, Walked
<1>4. \A c \in plan[k].stop : c \in todo[k].stop \/ c \in stopped[k] \/ BestEffort(k)
  BY <1>1, <1>3 DEF OutcomeInv, Barrier, Executing
<1>5. Walked(k)'
  BY <1>1, <1>2 DEF Walked
<1>6. Barrier(k)'
  <2>1. StopWave(todo[k].stop) \subseteq Components
    BY DEF StopWave, Plan
  <2>2. todo[k].stop # {} => act'[k] = "stop" /\ todo'[k].stop \cup Batch(k)' = todo[k].stop
    BY <1>1, <2>1 DEF NextBatch, Without, StopWave, Plan
  <2>3. todo[k].stop = {} => todo[k].restart # {} \/ todo[k].start # {}
    BY <1>1 DEF EmptyPlan, Group, Plan
  <2>4. BestEffort(k) => todo[k].restart = {} /\ todo[k].start = {}
    BY DEF BestEffort, ShapeInv, PlanShape
  <2>5. BestEffort(k)' <=> BestEffort(k)
    BY <1>1 DEF BestEffort
  <2>6. BestEffort(k) => act'[k] = "stop"
    BY <2>2, <2>3, <2>4
  <2> QED BY <1>1, <1>4, <2>2, <2>5, <2>6 DEF Barrier
<1>7. StopsOrdered(k)'
  <2> SUFFICES ASSUME act'[k] = "stop", NEW c \in Batch(k)', NEW d \in plan[k].stop, c \in DependsOn[d]
               PROVE d \in stopped[k] \/ (BestEffort(k) /\ d \notin todo'[k].stop \cup Batch(k)')
    BY <1>1 DEF StopsOrdered, BestEffort
  <2>1. todo[k].stop # {} /\ c \in StopWave(todo[k].stop)
    BY <1>1 DEF NextBatch
  <2>2. d \notin todo[k].stop
    BY <2>1 DEF StopWave
  <2>3. todo'[k].stop \cup Batch(k)' \subseteq todo[k].stop
    BY <1>1, <2>1 DEF NextBatch, Without, StopWave, Plan
  <2> QED BY <1>4, <2>2, <2>3
<1> QED BY <1>5, <1>6, <1>7

\* Loading the first batch, under the lock.
LEMMA FirstBatchOutcome ==
    ASSUME AllInv, NEW k \in Controllers, Acquire(k)
    PROVE  Barrier(k)' /\ StopsOrdered(k)' /\ Walked(k)'
<1> USE DEF AllInv, TypeOK
<1>1. /\ pc'[k] = "batch" /\ plan' = plan /\ plan[k] \in Plan
      /\ recorded'[k] = {} /\ act'[k] = NextBatch(plan[k]).action
      /\ Batch(k)' = NextBatch(plan[k]).ops \cap Components
      /\ todo'[k] = Without(plan[k], NextBatch(plan[k]))
      /\ started'[k] = {}
  BY DEF Acquire, LoadBatch, Batch, MutexInv, Executing, Quiet
<1>2. StopWave(plan[k].stop) \subseteq plan[k].stop /\ plan[k].stop \subseteq Components
  BY <1>1 DEF StopWave, Plan
<1>3. plan[k].stop # {} => act'[k] = "stop" /\ todo'[k].stop \cup Batch(k)' = plan[k].stop
  BY <1>1, <1>2 DEF NextBatch, Without, Plan
<1>4. Barrier(k)'
  BY <1>1, <1>3 DEF Barrier
<1>5. StopsOrdered(k)'
  BY <1>1, <1>2 DEF StopsOrdered, NextBatch, StopWave
<1>6. Walked(k)'
  BY <1>1 DEF Walked
<1> QED BY <1>4, <1>5, <1>6

LEMMA OutcomeStep ==
    ASSUME AllInv, OutcomeInv, [Next]_vars PROVE OutcomeInv'
<1> SUFFICES ASSUME NEW k \in Controllers PROVE Barrier(k)' /\ StopsOrdered(k)' /\ Walked(k)'
  BY DEF OutcomeInv
<1> USE DEF AllInv, TypeOK
<1>0. Barrier(k) /\ StopsOrdered(k) /\ Walked(k)
  BY DEF OutcomeInv
<1>1. CASE Untouched(k)
  BY <1>0, <1>1 DEF Untouched, Barrier, StopsOrdered, Walked, Executing, Batch, BestEffort
<1>2. CASE Prepare(k) \/ LockBusy(k)
  <2>1. Quiet(k) /\ ~Executing(k)' /\ act'[k] = act[k] /\ recorded'[k] = recorded[k] /\ started'[k] = started[k]
        /\ task'[k] = task[k] /\ broken'[k] = broken[k] /\ pc'[k] \in {"idle", "prepared"}
    BY <1>2 DEF Prepare, LockBusy, MutexInv, Executing
  <2> QED BY <2>1 DEF Quiet, Barrier, StopsOrdered, Walked
<1>3. CASE Acquire(k)
  BY <1>3, FirstBatchOutcome
<1>4. CASE NextBatchStarts(k)
  BY <1>4, NextBatchOutcome
<1>5. CASE Turn(k) \/ \E c \in Components : Worker(k, c)
  <2>1. /\ plan' = plan /\ todo' = todo /\ act' = act /\ recorded' = recorded /\ started' = started
        /\ stopped' = stopped /\ broken' = broken
        /\ Executing(k)' <=> Executing(k)
        /\ pc'[k] \in {"rollback", "release"} => pc[k] = pc'[k] /\ \E c \in Components : task[k][c] \in InFlight
    BY <1>5, WorkerFrame DEF Turn, histVars, workerFrame, Executing
  <2>2. pc'[k] \notin {"rollback", "release"}
    BY <2>1 DEF AdmissionInv, BatchInv, Drained, Running
  <2>3. \A c \in Finished(k) : task'[k][c] = task[k][c]
    BY <1>5, TaskKept
  <2>4. Batch(k)' = Batch(k)
    BY <1>5, TaskKept
  <2>5. \A c \in recorded[k] : task'[k][c] = task[k][c]
    BY <2>3 DEF AdmissionInv, BatchInv
  <2> QED BY <1>0, <2>1, <2>2, <2>4, <2>5 DEF Barrier, StopsOrdered, Walked, BestEffort
<1>6. CASE RecordOutcomes(k)
  <2>1. Walked(k)'
    BY <1>6, RecordKeepsWalked
  <2>2. /\ plan' = plan /\ todo' = todo /\ act' = act /\ task' = task /\ pc' = pc
        /\ stopped[k] \subseteq stopped'[k]
    BY <1>6 DEF RecordOutcomes
  <2> QED BY <1>0, <2>1, <2>2 DEF Barrier, StopsOrdered, Executing, Batch, BestEffort
<1>7. CASE PcOnly(k)
  <2>1. /\ plan' = plan /\ todo' = todo /\ act' = act /\ task' = task /\ stopped' = stopped
        /\ recorded' = recorded /\ started' = started /\ collected' = collected /\ broken' = broken
        /\ Executing(k) /\ Executing(k)'
        /\ pc'[k] \in {"rollback", "release"} => recorded[k] = collected[k]
        /\ pc'[k] = "release" => broken[k] = "no" \/ started[k] = undone'[k]
    BY <1>0, <1>7 DEF PcOnly, Fail, Commit, SaveRaises, UndoRaises, RolledBack, Interrupt, Undo,
                mainVars, histVars, Executing, Walked
  <2> QED BY <1>0, <2>1 DEF Barrier, StopsOrdered, Walked, Batch, BestEffort
<1>8. CASE Forget(k)
  BY <1>8 DEF Forget, Barrier, StopsOrdered, Walked, Executing
<1> QED BY <1>1, <1>2, <1>3, <1>4, <1>5, <1>6, <1>7, <1>8, ControllerSteps

LEMMA OutcomeInvariant == Spec => []OutcomeInv
<1>1. Init => OutcomeInv
  BY DEF Init, OutcomeInv, Barrier, StopsOrdered, Walked, Executing
<1> QED BY <1>1, OutcomeStep, AllInvariant, PTL DEF Spec

\* No start and no restart of a plan is admitted before all its stops succeeded.
THEOREM StopPhaseFirst == Spec => []RestartBarrier
<1>1. AllInv /\ OutcomeInv => RestartBarrier
  <2> SUFFICES ASSUME AllInv, OutcomeInv, NEW k \in Controllers, act[k] \in {"restart", "start"},
                      NEW c \in plan[k].stop
               PROVE c \in stopped[k]
    BY DEF RestartBarrier
  <2>1. Executing(k)
    BY DEF AllInv, MutexInv, Quiet
  <2>2. todo[k].stop = {}
    BY DEF AllInv, ShapeInv, PlanShape
  <2> QED BY <2>1, <2>2 DEF OutcomeInv, Barrier
<1> QED BY <1>1, OutcomeInvariant, AllInvariant, PTL

\* A component is stopped only after its planned consumers: after their stops
\* succeeded, or were at least tried by a plan of nothing but stops.
THEOREM ConsumersStopFirst == Spec => []StopOrder
<1>1. OutcomeInv => StopOrder
  BY DEF OutcomeInv, StopsOrdered, StopOrder
<1> QED BY <1>1, OutcomeInvariant, PTL

\* A rollback that ran to its end sent a stop to every component whose start
\* command was seen to succeed, and to no other.
THEOREM RollbackExact == Spec => []RollbackComplete
<1>1. AllInv /\ OutcomeInv => RollbackComplete
  <2> SUFFICES ASSUME AllInv, OutcomeInv, NEW k \in Controllers, pc[k] = "release", broken[k] = "batch"
               PROVE undone[k] = {c \in Components : task[k][c] \in {"new", "failedNew"}}
    BY DEF RollbackComplete
  <2>1. recorded[k] = Finished(k)
    BY DEF AllInv, AdmissionInv, BatchInv, Drained, OutcomeInv, Walked
  <2>2. \A c \in Components : task[k][c] \in {"new", "failedNew"} => c \in Finished(k)
    BY DEF Finished, Successes, Failures
  <2> QED BY <2>1, <2>2 DEF OutcomeInv, Walked, AllInv, AdmissionInv, Finished
<1> QED BY <1>1, OutcomeInvariant, AllInvariant, PTL

\* Nothing is recorded as desired-running before the whole invocation succeeded.
THEOREM RunningIsCommitted == Spec => RunningOnlyAfterSuccess
<1>1. ASSUME AllInv, OutcomeInv, [Next]_vars, NEW c \in Components,
             desired[c] # "running", desired'[c] = "running"
      PROVE  \E k \in Controllers :
                /\ lock = k /\ broken[k] = "no" /\ todo[k] = EmptyPlan
                /\ c \in plan[k].start \cup plan[k].restart
                /\ \A d \in Batch(k) : task[k][d] \in Successes
  <2> USE DEF AllInv
  <2>1. PICK k \in Controllers : RecordOutcomes(k) \/ Commit(k)
    BY <1>1, SomeWriter
  <2>2. ~RecordOutcomes(k)
    <3> SUFFICES ASSUME RecordOutcomes(k) PROVE FALSE
      OBVIOUS
    <3>1. desired' = desired \/ \E d \in Components : desired' = [desired EXCEPT ![d] = "stopped"]
      BY <1>1, OutcomeEffect
    <3> QED BY <1>1, <3>1 DEF TypeOK
  <2>3. /\ pc[k] = "outcomes" /\ recorded[k] = collected[k] /\ broken[k] = "no" /\ todo[k] = EmptyPlan
        /\ desired' = mem[k]
    BY <2>1, <2>2 DEF Commit
  <2>4. lock = k
    BY <1>1, <2>3 DEF MutexInv, Executing
  <2>5. c \in plan[k].start \cup plan[k].restart
    BY <1>1, <2>3 DEF StoreInv, HolderSeesDisk, Executing
  <2>6. \A d \in recorded[k] : task[k][d] \in Successes
    BY <1>1, <2>3 DEF OutcomeInv, Walked
  <2>7. ~StartFailed(k, collected[k])
    BY <2>3, <2>6 DEF StartFailed, Successes, Failures
  <2>8. Batch(k) = recorded[k]
    BY <1>1, <2>3, <2>7 DEF AdmissionInv, BatchInv, Complete
  <2> QED BY <2>3, <2>4, <2>5, <2>6, <2>8
<1>2. AllInv /\ OutcomeInv /\ [Next]_vars =>
        [\A c \in Components : (desired[c] # "running" /\ desired'[c] = "running") =>
            \E k \in Controllers :
                /\ lock = k /\ broken[k] = "no" /\ todo[k] = EmptyPlan
                /\ c \in plan[k].start \cup plan[k].restart
                /\ \A d \in Batch(k) : task[k][d] \in Successes]_vars
  BY <1>1
<1> QED BY <1>2, OutcomeInvariant, AllInvariant, PTL DEF Spec, RunningOnlyAfterSuccess

(***************************************************************************)
(* Successful stops are on disk.                                           *)
(***************************************************************************)
Noted(k) ==
    /\ plan[k].stop \cap plan[k].restart = {}
    /\ Executing(k) => \A c \in stopped[k] :
        /\ c \in plan[k].stop
        /\ \/ desired[c] = "stopped"
           \/ /\ pc[k] \in {"release", "unwind"} /\ broken[k] = "no"
              /\ c \in plan[k].start \cup plan[k].restart

\* No plan restarts what it also stops.
LEMMA PlanDisjoint == ASSUME NEW r \in Request PROVE PlanOf(r).stop \cap PlanOf(r).restart = {}
<1>1. CASE r.scope = "stack"
  BY <1>1 DEF PlanOf, StackPlan, Group
<1>2. CASE r.scope = "component"
  <2>1. r.action \in {"start", "stop", "restart"} /\ r.cascade \in BOOLEAN
    BY <1>2 DEF Request
  <2> QED BY <1>2, <2>1 DEF PlanOf, ComponentPlan, Group
<1> QED BY <1>1, <1>2 DEF Request

LEMMA NotedStep ==
    ASSUME AllInv, OutcomeInv, \A k \in Controllers : Noted(k), [Next]_vars
    PROVE  \A k \in Controllers : Noted(k)'
<1> SUFFICES ASSUME NEW k \in Controllers PROVE Noted(k)'
  OBVIOUS
<1> USE DEF AllInv, TypeOK
<1>0. Noted(k)
  OBVIOUS
<1>1. CASE Prepare(k) \/ LockBusy(k)
  BY <1>1, PlanDisjoint, ExecutorAssumption DEF Prepare, LockBusy, EmptyPlan, Group, Noted, Executing
<1>2. CASE Forget(k)
  BY <1>2 DEF Forget, EmptyPlan, Group, Noted, Executing
<1>3. CASE Acquire(k)
  <2>1. stopped'[k] = {} /\ plan' = plan
    BY <1>3 DEF Acquire, MutexInv, Quiet, Executing
  <2> QED BY <1>0, <2>1 DEF Noted
<1>4. CASE RecordOutcomes(k)
  <2>1. stopped'[k] = stopped[k] \cup Stops(k) /\ plan' = plan /\ pc' = pc /\ pc[k] = "outcomes"
    BY <1>4 DEF RecordOutcomes
  <2>2. \A c \in Stops(k) : c \in plan[k].stop /\ c \in Components
    BY DEF Stops, NextOutcomes, FirstOf, Batch, Successes, ShapeInv, PlanShape
  <2>3. CASE act[k] = "stop"
    <3>1. desired' = mem'[k] /\ (desired' = desired \/ \E c \in Components : desired' = [desired EXCEPT ![c] = "stopped"])
      BY <1>4, <2>3, OutcomeEffect
    <3>2. \A c \in Stops(k) : mem'[k][c] = "stopped"
      BY <1>4, <2>2 DEF RecordOutcomes
    <3>3. \A c \in stopped'[k] : c \in plan[k].stop
      BY <1>0, <2>1, <2>2 DEF Noted, Executing
    <3>4. \A c \in stopped[k] : desired[c] = "stopped"
      BY <1>0, <2>1 DEF Noted, Executing
    <3>5. \A c \in stopped'[k] : desired'[c] = "stopped"
      BY <2>1, <3>1, <3>2, <3>4
    <3> QED BY <1>0, <2>1, <3>3, <3>5 DEF Noted
  <2>4. CASE act[k] # "stop"
    <3>1. Stops(k) = {} /\ desired' = desired
      BY <1>4, <2>4 DEF Stops, RecordOutcomes, Saves
    <3> QED BY <1>0, <2>1, <3>1 DEF Noted, Executing
  <2> QED BY <2>3, <2>4
<1>5. CASE Commit(k)
  <2>1. /\ pc[k] = "outcomes" /\ pc'[k] = "release" /\ broken' = broken /\ broken[k] = "no"
        /\ stopped' = stopped /\ plan' = plan /\ desired' = mem[k]
    BY <1>5 DEF Commit, mainVars, histVars
  <2>2. \A c \in stopped[k] : c \in Components /\ desired[c] = "stopped" /\ c \in plan[k].stop
    BY <1>0, <2>1 DEF Noted, Executing
  <2>3. \A c \in stopped[k] : mem[k][c] = "stopped" \/ c \in plan[k].start \cup plan[k].restart
    BY <2>1, <2>2 DEF StoreInv, HolderSeesDisk, Executing
  <2> QED BY <1>0, <2>1, <2>2, <2>3 DEF Noted
<1>6. CASE /\ Untouched(k) \/ NextBatchStarts(k) \/ Turn(k) \/ PcOnly(k) \/ \E c \in Components : Worker(k, c)
           /\ ~RecordOutcomes(k) /\ ~Commit(k)
  <2>1. /\ plan'[k] = plan[k] /\ stopped'[k] = stopped[k] /\ broken'[k] = broken[k]
        /\ Executing(k)' <=> Executing(k)
        /\ pc[k] \in {"release", "unwind"} => pc'[k] = pc[k]
    BY <1>6, WorkerFrame DEF Untouched, NextBatchStarts, LoadBatch, Turn, PcOnly, Fail, Commit, SaveRaises,
             UndoRaises, RolledBack, Interrupt, Undo, workerFrame, mainVars, histVars, Executing
  <2>2. Executing(k) => desired' = desired
    BY <1>6, OnlyHolderWrites
  <2> QED BY <1>0, <2>1, <2>2 DEF Noted
<1> QED BY <1>1, <1>2, <1>3, <1>4, <1>5, <1>6, ControllerSteps

\* A stop that succeeded is on disk when the invocation ends, however the rest
\* of it went; only a complete success may have noted a later start instead.
THEOREM StopsAreRecorded == Spec => []StopsRecorded
<1> DEFINE Inv == \A k \in Controllers : Noted(k)
<1>1. Init => Inv
  BY DEF Init, Noted, EmptyPlan, Group, Executing
<1>2. AllInv /\ OutcomeInv /\ Inv /\ [Next]_vars => Inv'
  BY NotedStep
<1>3. Inv => StopsRecorded
  BY DEF Noted, StopsRecorded, Executing
<1> QED BY <1>1, <1>2, <1>3, OutcomeInvariant, AllInvariant, PTL DEF Spec
=============================================================================

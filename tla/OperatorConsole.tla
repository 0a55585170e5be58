--------------------------- MODULE OperatorConsole ---------------------------
(***************************************************************************)
(* The Textual console and the detached operations it starts.  The console *)
(* is one event loop with one worker at a time: run_worker(exclusive=True) *)
(* cancels the worker before it, wherever it waits, while a thread it      *)
(* waits for runs on.  A worker is a flow: probes and reads in threads,    *)
(* questions on modal screens, writes in threads, and at the end perhaps   *)
(* an operation record with a process of its own to carry it out.          *)
(* Time passes in ticks: the refresh timer has a period, a status probe a  *)
(* longest duration.                                                       *)
(***************************************************************************)
EXTENDS Naturals, Sequences

CONSTANTS
    Flows,      \* the requests an operator makes here
    Operations, \* bound: operations dispatched
    MaxKeys,    \* bound: requests made with a key or a button
    Period,     \* ticks of ui.refresh_seconds, 15 s unless configured
    ProbeTime,  \* ticks a status probe takes at most: host_timeout, 20 s
    MaxFaults,  \* bound: faults of a behaviour
    Faults      \* the faults the environment may produce

AllFaults == {"raise",   \* a call in a thread raises
              "short",   \* a payload lacks a component of the topology
              "grown",   \* the topology got a component since the last probe
              "spawn",   \* the worker process cannot be started
              "kill",    \* the worker process dies
              "update"}  \* entrypoint updates the runtime and replaces the process

\* What each request does, question by question and thread by thread.
Refresh       == <<"probe">>
Lifecycle     == <<"read", "ask", "dispatch">>
WithImpact    == <<"read", "ask", "read", "ask", "dispatch">>
Configuration == <<"ask", "ask", "dispatch">>
Update        == <<"ask", "dispatch">>
TemplateAction == <<"ask", "ask", "write">>
Import        == <<"ask", "ask", "ask", "write", "probe">>
Clone         == <<"ask", "ask", "ask", "write", "probe">>
Provision     == <<"ask", "ask", "ask", "write", "probe">>
Restore       == <<"ask", "ask", "write", "probe">>
Retire        == <<"ask", "ask", "read", "write", "write", "probe">>
Settings      == <<"ask">>
Branding      == <<"ask", "ask">>

Flow == [refresh |-> Refresh, lifecycle |-> Lifecycle, guarded |-> WithImpact,
         configure |-> Configuration, update |-> Update, action |-> TemplateAction,
         import |-> Import, clone |-> Clone, add |-> Provision, restore |-> Restore,
         retire |-> Retire, settings |-> Settings, labels |-> Branding]

Mutations == {"lifecycle", "guarded"}      \* run_mutation: sets mutating
Refreshing == Mutations \cup {"configure"} \* end with action_refresh
Catching == Mutations \cup {"import"}      \* handle what their threads raise

ASSUME ConsoleAssumption ==
    /\ Flows \subseteq DOMAIN Flow /\ "refresh" \in Flows
    /\ MaxKeys \in Nat /\ MaxFaults \in Nat
    /\ Period \in Nat \ {0} /\ ProbeTime \in Nat \ {0}
    /\ Faults \subseteq AllFaults

VARIABLES
    up,        \* the console: up, exited or crashed
    job,       \* the worker of the default group
    mutating,
    auto,      \* preferences.auto_refresh
    dialog,    \* a modal screen some worker waits for is open
    browsing,  \* help, topology or logs is open
    ahead,     \* the topology was reloaded and has what status_by_id lacks
    left, due,  \* ticks until the probe answers, and until the timer fires
    redrawn,   \* the table was drawn since the last tick
    record,    \* operation -> state of its record
    process,   \* operation -> what became of its worker process
    keys, faults

screen == <<dialog, browsing>>
work   == <<up, job, mutating, auto, screen, ahead, left, due, redrawn, keys>>
ops    == <<record, process>>
vars   == <<work, ops, faults>>

NoJob == [flow |-> "none", step |-> 0]
Jobs == {NoJob} \cup {[flow |-> f, step |-> i] : f \in DOMAIN Flow, i \in 1 .. 6}
Step == IF job = NoJob THEN "none" ELSE Flow[job.flow][job.step]

TypeOK ==
    /\ up \in {"up", "exited", "crashed"}
    /\ job \in Jobs
    /\ {mutating, auto, dialog, browsing, ahead, redrawn} \subseteq BOOLEAN
    /\ left \in 0 .. ProbeTime /\ due \in 0 .. Period
    /\ record \in [Operations -> {"none", "queued", "running", "succeeded", "failed"}]
    /\ process \in [Operations -> {"none", "spawned", "working", "replaced", "dead", "ended"}]
    /\ keys \in 0 .. MaxKeys /\ faults \in 0 .. MaxFaults

\* on_mount starts the timer and the first refresh.
Init ==
    /\ up = "up"
    /\ job = [flow |-> "refresh", step |-> 1]
    /\ mutating = FALSE /\ dialog = FALSE /\ browsing = FALSE
    /\ auto \in BOOLEAN
    /\ ahead = FALSE /\ redrawn = FALSE
    /\ left = 0 /\ due = Period
    /\ record = [o \in Operations |-> "none"]
    /\ process = [o \in Operations |-> "none"]
    /\ keys = 0 /\ faults = 0

Fault(f) == f \in Faults /\ faults < MaxFaults /\ faults' = faults + 1

(***************************************************************************)
(* Workers                                                                 *)
(***************************************************************************)
\* A worker comes to a step: a probe reloads the topology, a question opens a screen.
At(f, i, open) ==
    /\ job' = [flow |-> f, step |-> i]
    /\ dialog' = (open \/ Flow[f][i] = "ask")
    /\ left' \in IF Flow[f][i] = "probe" THEN 0 .. ProbeTime ELSE {0}
    /\ ahead' \in {ahead, ahead \/ (Flow[f][i] = "probe" /\ "grown" \in Faults)}

\* A worker that goes on has closed the screen it asked on.
Elsewhere == dialog /\ Step # "ask"
Idle == job' = NoJob /\ dialog' = Elsewhere /\ left' = 0 /\ UNCHANGED ahead

NeverReleased == mutating   \* mutant of Released

\* The finally of run_mutation.
Released == FALSE

\* run_worker(exclusive=True).  A cancelled run_mutation refreshes in its
\* finally, which in turn cancels the worker that was to take its place.
Begin(f) ==
    IF job.flow \in Mutations THEN At("refresh", 1, dialog) /\ mutating' = Released
    ELSE At(f, 1, dialog) /\ mutating' = (f \in Mutations)

\* The coroutine returns or handles what was raised.
End ==
    /\ mutating' = IF job.flow \in Mutations THEN Released ELSE mutating
    /\ IF job.flow \in Refreshing THEN At("refresh", 1, Elsewhere) ELSE Idle

\* An exception nobody handles ends the application, not its threads.
Crash ==
    /\ up' = "crashed"
    /\ job' = NoJob /\ mutating' = FALSE
    /\ dialog' = FALSE /\ browsing' = FALSE
    /\ left' = 0 /\ UNCHANGED ahead

NoScreen == ~dialog /\ ~browsing
NewOperation == CHOOSE o \in Operations : record[o] = "none"
CanDispatch == \E o \in Operations : record[o] = "none"

\* dispatch: the record is queued before the process is started.
Dispatch ==
    /\ CanDispatch
    /\ record' = [record EXCEPT ![NewOperation] = "queued"]
    /\ \/ process' = [process EXCEPT ![NewOperation] = "spawned"]
          /\ End /\ UNCHANGED <<up, browsing, faults>>
       \/ Fault("spawn") /\ Crash /\ UNCHANGED process

\* The next step, taken without waiting when it is a dispatch or the end.
Proceed ==
    IF job.step = Len(Flow[job.flow]) THEN End /\ UNCHANGED <<up, browsing, ops, faults>>
    ELSE IF Flow[job.flow][job.step + 1] = "dispatch" THEN Dispatch
    ELSE At(job.flow, job.step + 1, Elsewhere) /\ UNCHANGED <<up, browsing, mutating, ops, faults>>

(***************************************************************************)
(* What the operator and the timer do                                      *)
(***************************************************************************)
Key(f) ==
    /\ up = "up" /\ NoScreen /\ keys < MaxKeys
    /\ ~(f = "refresh" /\ mutating)   \* action_refresh
    /\ keys' = keys + 1
    /\ Begin(f)
    /\ UNCHANGED <<up, auto, browsing, due, redrawn, ops, faults>>

\* Help, the topology and the log viewer wait for no worker.
Browse ==
    /\ up = "up" /\ NoScreen /\ keys < MaxKeys
    /\ keys' = keys + 1 /\ browsing' = TRUE
    /\ UNCHANGED <<up, job, mutating, auto, dialog, ahead, left, due, redrawn, ops, faults>>

Close ==
    /\ up = "up" /\ browsing /\ ~dialog
    /\ browsing' = FALSE
    /\ UNCHANGED <<up, job, mutating, auto, dialog, ahead, left, due, redrawn, keys, ops, faults>>

\* action_toggle_view draws what is known of components the topology may have gained.
Toggle ==
    /\ up = "up" /\ NoScreen /\ keys < MaxKeys
    /\ keys' = keys + 1
    /\ IF ahead THEN Crash ELSE UNCHANGED <<up, job, mutating, screen, ahead, left>>
    /\ UNCHANGED <<auto, due, redrawn, ops, faults>>

Quit ==
    /\ up = "up" /\ NoScreen
    /\ up' = "exited" /\ job' = NoJob /\ mutating' = FALSE /\ left' = 0
    /\ UNCHANGED <<auto, screen, ahead, due, redrawn, keys, ops, faults>>

Accept ==
    /\ up = "up" /\ Step = "ask"
    /\ Proceed
    /\ IF job.flow = "settings" THEN due' = Period /\ auto' \in BOOLEAN   \* _reset_refresh_timer
       ELSE UNCHANGED <<due, auto>>
    /\ UNCHANGED <<redrawn, keys>>

Decline ==
    /\ up = "up" /\ Step = "ask"
    /\ mutating' = IF job.flow \in Mutations THEN Released ELSE mutating
    /\ IF job.flow \in Mutations THEN At("refresh", 1, Elsewhere) ELSE Idle
    /\ UNCHANGED <<up, auto, browsing, due, redrawn, keys, ops, faults>>

\* _automatic_refresh; a screen or a lifecycle mutation holds it back.
WithoutScreenCheck == auto /\ ~mutating   \* mutant of MayRefresh
MayRefresh == auto /\ ~mutating /\ NoScreen

Timer ==
    /\ up = "up" /\ due = 0
    /\ due' = Period
    /\ IF MayRefresh THEN Begin("refresh")
       ELSE UNCHANGED <<job, mutating, dialog, ahead, left>>
    /\ UNCHANGED <<up, auto, browsing, redrawn, keys, ops, faults>>

Tick ==
    /\ up = "up" /\ due > 0
    /\ Step = "probe" => left > 0
    /\ due' = due - 1
    /\ left' = IF Step = "probe" THEN left - 1 ELSE left
    /\ redrawn' = FALSE
    /\ UNCHANGED <<up, job, mutating, auto, screen, ahead, keys, ops, faults>>

(***************************************************************************)
(* What threads answer                                                     *)
(***************************************************************************)
\* inspect and _render_status, which draws only when no screen is in front.
Probed ==
    /\ up = "up" /\ Step = "probe" /\ left = 0
    /\ \/ /\ job' = NoJob /\ ahead' = FALSE /\ left' = 0
          /\ redrawn' = NoScreen
          /\ UNCHANGED <<up, mutating, screen, faults>>
       \/ NoScreen /\ Fault("short") /\ Crash /\ UNCHANGED redrawn
    /\ UNCHANGED <<auto, due, keys, ops>>

Returned ==
    /\ up = "up" /\ Step \in {"read", "write"}
    /\ \/ Proceed
       \/ job.flow \in Catching /\ Fault("raise") /\ End /\ UNCHANGED <<up, browsing, ops>>
       \/ Fault("raise") /\ Crash /\ UNCHANGED ops
    /\ UNCHANGED <<auto, due, redrawn, keys>>

(***************************************************************************)
(* The worker process of an operation                                      *)
(***************************************************************************)
StartWork(o) ==
    /\ process[o] = "spawned"
    /\ record' = [record EXCEPT ![o] = "running"]
    /\ process' = [process EXCEPT ![o] = "working"]
    /\ UNCHANGED <<work, faults>>

\* How entrypoint.main ends, and which of these ends the worker records.
Outcomes == {"succeeded", "failed", "raised", "exited"}
ExceptionOnly == Outcomes \ {"exited"}   \* mutant of Recorded: SystemExit passes
Recorded == Outcomes

EndWork(o) ==
    /\ process[o] = "working"
    /\ \E r \in Outcomes :
         record' = IF r \in Recorded
                   THEN [record EXCEPT ![o] = IF r = "succeeded" THEN r ELSE "failed"]
                   ELSE record
    /\ process' = [process EXCEPT ![o] = "ended"]
    /\ UNCHANGED <<work, faults>>

\* _auto_update and execve: the command goes on, the worker that recorded it does not.
Replace(o) ==
    /\ process[o] = "working" /\ Fault("update")
    /\ process' = [process EXCEPT ![o] = "replaced"]
    /\ UNCHANGED <<work, record>>

Kill(o) ==
    /\ process[o] \in {"spawned", "working"} /\ Fault("kill")
    /\ process' = [process EXCEPT ![o] = "dead"]
    /\ UNCHANGED <<work, record>>

Operator == (\E f \in Flows : Key(f)) \/ Browse \/ Close \/ Toggle \/ Quit \/ Accept \/ Decline
Answers == Probed \/ Returned
Worker(o) == StartWork(o) \/ EndWork(o)
Next ==
    \/ Operator \/ Timer \/ Tick \/ Answers
    \/ \E o \in Operations : Worker(o) \/ Replace(o) \/ Kill(o)

\* The event loop serves its timer and the threads that answered, and a worker
\* process that is not killed runs to its end.  An operator need not do anything.
Spec == Init /\ [][Next]_vars
FairSpec ==
    /\ Spec
    /\ WF_vars(Tick) /\ WF_vars(Timer) /\ WF_vars(Answers)
    /\ \A o \in Operations : WF_vars(Worker(o))

(***************************************************************************)
(* What the console and its operations guarantee                           *)
(***************************************************************************)

\* A question on the screen is asked by a worker that waits for its answer:
\* nothing, no key, timer or ending worker, cancels a worker that asks.
DialogHasOwner == dialog <=> Step = "ask"

\* An operation whose process was started and is neither killed nor replaced
\* by an updated runtime comes to a final state in its record, whatever the
\* operation does and whether or not the console is still there.
Settled(o) == record[o] \in {"succeeded", "failed"}
Lost(o) == process[o] \in {"none", "replaced", "dead"}
OperationsSettle == \A o \in Operations : record[o] # "none" ~> Settled(o) \/ Lost(o)

\* If the automatic refresh is on and probes answer within its period from some
\* time on, the table is drawn again and again as long as no screen is in front:
\* no cancelled, failed or abandoned request, whatever it did before, leaves the
\* refresh switched off or two workers that cancel each other.
Prompt == Step = "probe" => left < Period
StatusReturns == <>[](auto /\ Prompt) => []<>(redrawn \/ ~NoScreen \/ up # "up")

\* What an automatic refresh suggests and the code does not give: the period
\* (15 s) is shorter than the time a host has to answer (20 s), so each refresh
\* may cancel the probe of the one before it, for ever.
StatusAlwaysReturns == <>[]auto => []<>(redrawn \/ ~NoScreen \/ up # "up")

\* Stated by docs/TUI.md ("Automatic refresh ... pauses while a modal, edit,
\* confirmation, or mutation is active"): the timer takes no worker away that
\* carries out what the operator confirmed.
RefreshPausesForMutations == [][due = 0 /\ due' # 0 /\ Step = "write" => job' = job]_vars
=============================================================================

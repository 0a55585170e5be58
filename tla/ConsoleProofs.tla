--------------------------- MODULE ConsoleProofs ---------------------------
(***************************************************************************)
(* Theorems about the console for any number of requests, operations and   *)
(* ticks, and any faults: no question is left on the screen without the    *)
(* worker that asked it, and the flag that holds back the refresh is never *)
(* set without the mutation that will clear it.                            *)
(***************************************************************************)
EXTENDS OperatorConsole, TLAPS

\* Every request has a first step, and none more than six.
LEMMA FlowShape ==
  ASSUME NEW f \in DOMAIN Flow
  PROVE  Len(Flow[f]) \in 1 .. 6
<1>1. f \in {"refresh", "lifecycle", "guarded", "configure", "update", "action", "import",
             "clone", "add", "restore", "retire", "settings", "labels"}
  BY DEF Flow
<1>2. CASE f \in {"refresh", "lifecycle", "guarded", "configure"}
  BY <1>2 DEF Flow, Refresh, Lifecycle, WithImpact, Configuration
<1>3. CASE f \in {"update", "action", "settings", "labels"}
  BY <1>3 DEF Flow, Update, TemplateAction, Settings, Branding
<1>4. CASE f \in {"import", "clone", "add"}
  BY <1>4 DEF Flow, Import, Clone, Provision
<1>5. CASE f \in {"restore", "retire"}
  BY <1>5 DEF Flow, Restore, Retire
<1> QED BY <1>1, <1>2, <1>3, <1>4, <1>5

LEMMA FlowFacts ==
  /\ Flows \subseteq DOMAIN Flow /\ "refresh" \in DOMAIN Flow /\ "none" \notin DOMAIN Flow
  /\ "refresh" \notin Mutations /\ "none" \notin Mutations /\ Flow["refresh"][1] = "probe"
  BY ConsoleAssumption DEF Flow, Refresh, Mutations

\* The worker stands at a step of its request.
AtWork == job = NoJob \/ (job.flow \in DOMAIN Flow /\ job.step \in 1 .. Len(Flow[job.flow])
                          /\ job = [flow |-> job.flow, step |-> job.step])

\* The finally of run_mutation runs on every way out of it.
MutatingHasOwner == mutating => job.flow \in Mutations

ConsoleInv == AtWork /\ DialogHasOwner /\ (mutating <=> job.flow \in Mutations)

-----------------------------------------------------------------------------
(***************************************************************************)
(* What becomes of the worker                                              *)
(***************************************************************************)
\* Coming to a step, with no question of anybody else's open.
LEMMA Comes ==
  ASSUME NEW f \in DOMAIN Flow, NEW i \in 1 .. Len(Flow[f]), NEW open, ~open, At(f, i, open)
  PROVE  AtWork' /\ DialogHasOwner' /\ job'.flow = f
<1>1. job' = [flow |-> f, step |-> i] /\ (dialog' <=> Flow[f][i] = "ask")
  BY DEF At
<1>2. job' # NoJob
  BY <1>1, FlowFacts DEF NoJob
<1>3. Step' = Flow[f][i]
  BY <1>1, <1>2 DEF Step
<1> QED BY <1>1, <1>3 DEF AtWork, DialogHasOwner

LEMMA FirstStep == ASSUME NEW f \in DOMAIN Flow PROVE 1 \in 1 .. Len(Flow[f])
<1>1. PICK n \in 1 .. 6 : n = Len(Flow[f])
  BY FlowShape
<1>2. 1 \in 1 .. n
  OBVIOUS
<1> QED BY <1>1, <1>2

\* A lifecycle request probes nothing itself.
LEMMA NoProbe == ASSUME AtWork, Step = "probe" PROVE job.flow \notin Mutations
<1>1. job # NoJob /\ job.step \in 1 .. Len(Flow[job.flow]) /\ Flow[job.flow][job.step] = "probe"
  BY DEF AtWork, Step
<1>2. CASE job.flow = "lifecycle"
  <2>1. Flow[job.flow] = <<"read", "ask", "dispatch">>
    BY <1>2 DEF Flow, Lifecycle
  <2> QED BY <1>1, <2>1
<1>3. CASE job.flow = "guarded"
  <2>1. Flow[job.flow] = <<"read", "ask", "read", "ask", "dispatch">>
    BY <1>3 DEF Flow, WithImpact
  <2> QED BY <1>1, <2>1
<1> QED BY <1>2, <1>3 DEF Mutations

LEMMA NobodyElse == ASSUME ConsoleInv PROVE ~Elsewhere
  BY DEF ConsoleInv, DialogHasOwner, Elsewhere

LEMMA Rests == ASSUME job' = NoJob, ~dialog' PROVE AtWork' /\ DialogHasOwner' /\ job'.flow \notin Mutations
  BY FlowFacts DEF AtWork, DialogHasOwner, Step, NoJob

LEMMA Begins ==
  ASSUME ConsoleInv, ~dialog, NEW f \in DOMAIN Flow, Begin(f)
  PROVE  ConsoleInv'
<1>1. CASE job.flow \in Mutations
  <2>1. At("refresh", 1, dialog) /\ mutating' = FALSE
    BY <1>1 DEF Begin, Released
  <2>2. AtWork' /\ DialogHasOwner' /\ job'.flow = "refresh"
    BY <2>1, Comes, FirstStep, FlowFacts
  <2> QED BY <2>1, <2>2, FlowFacts DEF ConsoleInv
<1>2. CASE job.flow \notin Mutations
  <2>1. At(f, 1, dialog) /\ mutating' = (f \in Mutations)
    BY <1>2 DEF Begin
  <2>2. AtWork' /\ DialogHasOwner' /\ job'.flow = f
    BY <2>1, Comes, FirstStep
  <2> QED BY <2>1, <2>2 DEF ConsoleInv
<1> QED BY <1>1, <1>2

LEMMA Refreshes ==
  ASSUME ConsoleInv, At("refresh", 1, Elsewhere), ~mutating'
  PROVE  ConsoleInv'
<1>1. AtWork' /\ DialogHasOwner' /\ job'.flow = "refresh"
  BY Comes, FirstStep, FlowFacts, NobodyElse
<1> QED BY <1>1, FlowFacts DEF ConsoleInv

LEMMA Idles == ASSUME ConsoleInv, Idle, ~mutating' PROVE ConsoleInv'
<1>1. job' = NoJob /\ ~dialog'
  BY NobodyElse DEF Idle
<1> QED BY <1>1, Rests DEF ConsoleInv

LEMMA Ends == ASSUME ConsoleInv, End PROVE ConsoleInv'
<1>1. ~mutating'
  BY DEF End, Released, ConsoleInv
<1>2. CASE job.flow \in Refreshing
  BY <1>1, <1>2, Refreshes DEF End
<1>3. CASE job.flow \notin Refreshing
  BY <1>1, <1>3, Idles DEF End
<1> QED BY <1>2, <1>3

LEMMA Crashes == ASSUME Crash PROVE ConsoleInv'
  BY Rests DEF Crash, ConsoleInv

LEMMA Proceeds ==
  ASSUME ConsoleInv, job # NoJob, Proceed PROVE ConsoleInv'
<1>1. /\ job.flow \in DOMAIN Flow /\ job.step \in 1 .. Len(Flow[job.flow])
      /\ Len(Flow[job.flow]) \in 1 .. 6
  BY FlowShape DEF ConsoleInv, AtWork
<1>2. CASE End
  BY <1>2, Ends
<1>3. CASE Dispatch
  BY <1>3, Ends, Crashes DEF Dispatch
<1>4. CASE At(job.flow, job.step + 1, Elsewhere) /\ job.step # Len(Flow[job.flow])
           /\ UNCHANGED mutating
  <2>0. job.step + 1 \in 1 .. Len(Flow[job.flow])
    BY <1>1, <1>4
  <2>1. AtWork' /\ DialogHasOwner' /\ job'.flow = job.flow
    BY <1>1, <1>4, <2>0, Comes, NobodyElse
  <2> QED BY <1>4, <2>1 DEF ConsoleInv
<1> QED BY <1>2, <1>3, <1>4 DEF Proceed

LEMMA ConsoleStays == ASSUME ConsoleInv, UNCHANGED <<job, dialog, mutating>> PROVE ConsoleInv'
  BY DEF ConsoleInv, AtWork, DialogHasOwner, Step

-----------------------------------------------------------------------------
LEMMA ConsoleStart == Init => ConsoleInv
<1> SUFFICES ASSUME Init PROVE ConsoleInv
  OBVIOUS
<1>1. job = [flow |-> "refresh", step |-> 1] /\ dialog = FALSE /\ mutating = FALSE
  BY DEF Init
<1>2. job # NoJob
  BY <1>1 DEF NoJob
<1>3. Step = "probe"
  BY <1>1, <1>2, FlowFacts DEF Step
<1> QED BY <1>1, <1>3, FirstStep, FlowFacts DEF ConsoleInv, AtWork, DialogHasOwner

LEMMA ConsoleStep == ASSUME ConsoleInv, [Next]_vars PROVE ConsoleInv'
<1>1. ASSUME NEW f \in Flows, Key(f) PROVE ConsoleInv'
  BY <1>1, Begins, FlowFacts DEF Key, NoScreen, ConsoleInv, DialogHasOwner
<1>2. CASE Browse \/ Close
  BY <1>2, ConsoleStays DEF Browse, Close
<1>3. CASE Toggle
  BY <1>3, ConsoleStays, Crashes DEF Toggle, screen
<1>4. CASE Quit
  <2>1. job' = NoJob /\ mutating' = FALSE /\ dialog' = dialog /\ ~dialog
    BY <1>4 DEF Quit, NoScreen, screen
  <2> QED BY <2>1, Rests DEF ConsoleInv
<1>5. CASE Accept
  <2>1. job # NoJob
    BY <1>5 DEF Accept, Step
  <2> QED BY <1>5, <2>1, Proceeds DEF Accept
<1>6. CASE Decline
  <2>1. ~mutating'
    BY <1>6 DEF Decline, Released, ConsoleInv
  <2> QED BY <1>6, <2>1, Refreshes, Idles DEF Decline
<1>7. CASE Timer
  BY <1>7, Begins, ConsoleStays, FlowFacts DEF Timer, MayRefresh, NoScreen, ConsoleInv, DialogHasOwner
<1>8. CASE Tick
  BY <1>8, ConsoleStays DEF Tick, screen
<1>9. CASE Probed
  <2>1. CASE job' = NoJob /\ UNCHANGED <<mutating, screen>>
    <3>1. Step = "probe"
      BY <1>9 DEF Probed
    <3>2. ~dialog'
      BY <2>1, <3>1 DEF screen, ConsoleInv, DialogHasOwner
    <3>3. ~mutating'
      BY <2>1, <3>1, NoProbe DEF ConsoleInv
    <3> QED BY <2>1, <3>2, <3>3, Rests DEF ConsoleInv
  <2>2. CASE Crash
    BY <2>2, Crashes
  <2> QED BY <1>9, <2>1, <2>2 DEF Probed
<1>10. CASE Returned
  <2>1. job # NoJob
    BY <1>10 DEF Returned, Step
  <2> QED BY <1>10, <2>1, Proceeds, Ends, Crashes DEF Returned
<1>11. ASSUME NEW o \in Operations, Worker(o) \/ Replace(o) \/ Kill(o) PROVE ConsoleInv'
  BY <1>11, ConsoleStays DEF Worker, StartWork, EndWork, Replace, Kill, work, screen
<1>12. CASE UNCHANGED vars
  BY <1>12, ConsoleStays DEF vars, work, screen
<1> QED BY <1>1, <1>2, <1>3, <1>4, <1>5, <1>6, <1>7, <1>8, <1>9, <1>10, <1>11, <1>12
    DEF Next, Operator, Answers

LEMMA ConsoleAlways == Spec => []ConsoleInv
  BY ConsoleStart, ConsoleStep, PTL DEF Spec

\* A question on the screen is asked by a worker that waits for its answer,
\* whatever keys, timers, ends and crashes come between.
THEOREM QuestionsAreAnswered == Spec => []DialogHasOwner
<1>1. ConsoleInv => DialogHasOwner
  BY DEF ConsoleInv
<1> QED BY <1>1, ConsoleAlways, PTL

\* The refresh is held back only while the lifecycle request that set the flag
\* still has the worker: none cancels it, fails or ends and leaves it set.
THEOREM RefreshIsReleased == Spec => []MutatingHasOwner
<1>1. ConsoleInv => MutatingHasOwner
  BY DEF ConsoleInv, MutatingHasOwner
<1> QED BY <1>1, ConsoleAlways, PTL

-----------------------------------------------------------------------------
(***************************************************************************)
(* The records of operations                                               *)
(***************************************************************************)
\* What a record may say while its worker process is where it is.
Says == [none     |-> {"none", "queued"},    spawned  |-> {"queued"},
         working  |-> {"running"},           replaced |-> {"running"},
         dead     |-> {"queued", "running"}, ended    |-> {"succeeded", "failed"}]

RecordInv ==
  /\ record \in [Operations -> {"none", "queued", "running", "succeeded", "failed"}]
  /\ process \in [Operations -> DOMAIN Says]
  /\ \A o \in Operations : record[o] \in Says[process[o]]

\* A record is final when the worker came to its end and only then: no lost
\* operation is taken for one that ended.
RecordsTellTheEnd == \A o \in Operations : Settled(o) <=> process[o] = "ended"

\* No step of an operation's process, and no other operation, rewrites a final record.
FinalIsFinal == [][\A o \in Operations : Settled(o) => record'[o] = record[o]]_vars

\* One operation's record and process move, the others' stay.
LEMMA RecordMoves ==
  ASSUME RecordInv, NEW o \in Operations, NEW r, NEW s \in DOMAIN Says, r \in Says[s],
         record' = [record EXCEPT ![o] = r], process' = [process EXCEPT ![o] = s],
         record[o] \notin {"succeeded", "failed"}
  PROVE  RecordInv' /\ \A q \in Operations : Settled(q) => record'[q] = record[q]
<1>1. r \in {"none", "queued", "running", "succeeded", "failed"}
  BY DEF Says
<1> QED BY <1>1 DEF RecordInv, Settled

LEMMA RecordStays ==
  ASSUME RecordInv, UNCHANGED ops
  PROVE  RecordInv' /\ \A q \in Operations : Settled(q) => record'[q] = record[q]
  BY DEF RecordInv, ops

LEMMA ProceedRecords ==
  ASSUME RecordInv, Proceed
  PROVE  RecordInv' /\ \A q \in Operations : Settled(q) => record'[q] = record[q]
<1>1. CASE Dispatch
  <2>1. NewOperation \in Operations /\ record[NewOperation] = "none"
    BY <1>1 DEF Dispatch, CanDispatch, NewOperation
  <2>2. record' = [record EXCEPT ![NewOperation] = "queued"]
    BY <1>1 DEF Dispatch
  <2>3. process[NewOperation] = "none"
    BY <2>1 DEF RecordInv, Says
  <2>4. CASE process' = [process EXCEPT ![NewOperation] = "spawned"]
    BY <2>1, <2>2, <2>4, RecordMoves DEF Says
  <2>5. CASE process' = process
    <3>1. process' = [process EXCEPT ![NewOperation] = "none"]
      BY <2>1, <2>3, <2>5 DEF RecordInv
    <3> QED BY <2>1, <2>2, <3>1, RecordMoves DEF Says
  <2> QED BY <1>1, <2>4, <2>5 DEF Dispatch
<1>2. CASE UNCHANGED ops
  BY <1>2, RecordStays
<1> QED BY <1>1, <1>2 DEF Proceed

LEMMA RecordStep ==
  ASSUME RecordInv, [Next]_vars
  PROVE  RecordInv' /\ \A q \in Operations : Settled(q) => record'[q] = record[q]
<1> DEFINE Kept == RecordInv' /\ \A q \in Operations : Settled(q) => record'[q] = record[q]
<1>1. ASSUME NEW f \in Flows, Key(f) PROVE Kept
  BY <1>1, RecordStays DEF Key
<1>2. CASE Browse \/ Close \/ Toggle \/ Quit \/ Decline \/ Timer \/ Tick \/ Probed
  BY <1>2, RecordStays DEF Browse, Close, Toggle, Quit, Decline, Timer, Tick, Probed
<1>3. CASE Accept \/ Returned
  BY <1>3, RecordStays, ProceedRecords DEF Accept, Returned
<1>4. ASSUME NEW o \in Operations, StartWork(o) PROVE Kept
  <2>1. record[o] = "queued"
    BY <1>4 DEF StartWork, RecordInv, Says
  <2> QED BY <1>4, <2>1, RecordMoves DEF StartWork, Says
<1>5. ASSUME NEW o \in Operations, EndWork(o) PROVE Kept
  <2>1. record[o] = "running"
    BY <1>5 DEF EndWork, RecordInv, Says
  <2>2. PICK r \in {"succeeded", "failed"} : record' = [record EXCEPT ![o] = r]
    BY <1>5 DEF EndWork, Outcomes, Recorded
  <2> QED BY <1>5, <2>1, <2>2, RecordMoves DEF EndWork, Says
<1>6. ASSUME NEW o \in Operations, Replace(o) \/ Kill(o) PROVE Kept
  <2>1. record' = [record EXCEPT ![o] = record[o]]
    BY <1>6 DEF Replace, Kill, RecordInv
  <2>2. CASE Replace(o)
    <3>1. record[o] = "running"
      BY <2>2 DEF Replace, RecordInv, Says
    <3> QED BY <2>1, <2>2, <3>1, RecordMoves DEF Replace, Says
  <2>3. CASE Kill(o)
    <3>1. record[o] \in {"queued", "running"}
      BY <2>3 DEF Kill, RecordInv, Says
    <3> QED BY <2>1, <2>3, <3>1, RecordMoves DEF Kill, Says
  <2> QED BY <1>6, <2>2, <2>3
<1>7. CASE UNCHANGED vars
  BY <1>7, RecordStays DEF vars
<1> QED BY <1>1, <1>2, <1>3, <1>4, <1>5, <1>6, <1>7 DEF Next, Operator, Answers, Worker

LEMMA RecordAlways == Spec => []RecordInv
<1>1. Init => RecordInv
  BY DEF Init, RecordInv, Says
<1> QED BY <1>1, RecordStep, PTL DEF Spec

\* A final record means that the worker came to its end, and no worker that
\* did leaves another one (llmops_operation_worker.main).
THEOREM RecordsAreTrue == Spec => []RecordsTellTheEnd
<1>1. RecordInv => RecordsTellTheEnd
  BY DEF RecordInv, RecordsTellTheEnd, Settled, Says
<1> QED BY <1>1, RecordAlways, PTL

\* What a record says of the end of its operation it says for ever.
THEOREM EndsAreKept == Spec => FinalIsFinal
<1>1. RecordInv /\ [Next]_vars => [\A o \in Operations : Settled(o) => record'[o] = record[o]]_vars
  BY RecordStep
<1> QED BY <1>1, RecordAlways, PTL DEF Spec, FinalIsFinal
=============================================================================

----------------------- MODULE ReleaseSelector_proofs -----------------------
(***************************************************************************)
(* Theorems about ReleaseSelector for any releases, any number of          *)
(* invocations and any faults but a signal to the shell of an install.     *)
(***************************************************************************)
EXTENDS ReleaseSelector, TLAPS

\* cleanup after a signal between two commands sees $? = 0 and runs a second
\* time when the lock is gone: the runs leave this fault out too.
InstallsUndisturbed == "signalInstall" \notin Faults

(***************************************************************************)
(* The inductive invariant.                                                *)
(***************************************************************************)
\* The parts of LockPoints.
InstallPoints == {"install", "stage", "linkPrevious", "mark", "switch",
                  "cleanup", "restore", "restorePrevious"}
TailPoints    == {"wrappers", "writeState", "writeBase", "finish"}
USE DEF ScriptPoints

\* Inodes and reviewed plans without the bound MaxInode.
Reviews == [current : Link, previous : Link, remove : SUBSET (Releases \X Nat)]

TypeInv ==
  /\ dir \in [Releases -> {"absent", "partial", "complete"}]
  /\ inode \in [Releases -> Nat]
  /\ current \in Link /\ previous \in Link
  /\ active \in [{"state", "base"} -> Link]
  /\ entry \in {"app", "script", "none"}
  /\ updateLock \in Processes \cup {NoProcess, Dead}
  /\ inUse \subseteq Releases
  /\ pc \in [Processes -> Points]
  /\ op \in [Processes -> {"none", "install", "rollback", "repair", "prune"}]
  /\ target \in [Processes -> Link]
  /\ created \in [Processes -> BOOLEAN]
  /\ switched \in [Processes -> BOOLEAN]
  /\ saved \in [Processes -> Links]
  /\ failed \in [Processes -> BOOLEAN]
  /\ reviewed \in [Processes -> Reviews]
  /\ doomed \in [Processes -> SUBSET Releases]
  /\ found \in [Processes -> Links]

\* An owner of update.lock is at work behind it.
HolderInv == \A p \in Processes : updateLock = p => pc[p] \in LockPoints

\* Nobody else is there.
ExclusionInv == \A p \in Processes : pc[p] \in LockPoints => updateLock = p

\* The operation an invocation performs where it is, and what it has not yet done.
CourseInv(p) ==
  /\ pc[p] \in InstallPoints \cup {"untrap"} => op[p] = "install"
  /\ pc[p] \in {"rollback", "exchange"} => op[p] = "rollback"
  /\ pc[p] = "repair" => op[p] = "repair"
  /\ pc[p] \in RetentionPoints => op[p] = "prune"
  /\ pc[p] \in TailPoints => op[p] \in {"install", "rollback", "repair"}
  /\ pc[p] \in {"acquire", "own"} => op[p] \in {"install", "rollback", "repair", "prune"}
  /\ pc[p] = "decide" \/ op[p] = "install" => target[p] \in Releases
  /\ pc[p] \in {"idle", "decide", "acquire", "own", "install"} => ~created[p] /\ ~switched[p]

Good(link) == link # NoRelease => Usable(link)

\* The links are as they were when p took update.lock.
Same(p) == current = found[p].current /\ previous = found[p].previous

\* The previous link once an install has linked what it replaces.
Linked(p) == IF found[p].current = NoRelease THEN found[p].previous ELSE found[p].current

\* What the links may select under the lock: releases found there, which stay
\* complete, or the one being installed.
SelectionInv(p) ==
  /\ Good(found[p].current) /\ Good(found[p].previous)
  /\ previous \in {found[p].current, found[p].previous}
  /\ \/ current \in {found[p].current, found[p].previous}
     \/ op[p] = "install" /\ current = target[p] /\ (pc[p] = "restore" \/ Usable(target[p]))
  /\ created[p] => target[p] \notin {found[p].current, found[p].previous}

\* The way of an install into cleanup and out of it.
InstallInv(p) ==
  /\ pc[p] \in {"own", "install", "stage", "linkPrevious"} => Same(p)
  /\ pc[p] \in {"linkPrevious", "mark", "switch"} => Usable(target[p])
  /\ pc[p] \in {"mark", "switch"} => current = found[p].current /\ previous = Linked(p)
  /\ pc[p] = "mark" \/ switched[p] => saved[p] = found[p]
  /\ pc[p] \in {"switch", "restore", "restorePrevious"} => switched[p]
  /\ pc[p] \in {"cleanup", "restore", "restorePrevious"} => failed[p]
  /\ pc[p] = "cleanup" /\ ~switched[p] => Same(p)
  /\ pc[p] = "restorePrevious" => current = found[p].current
  /\ pc[p] = "unlock" /\ op[p] = "install" => Same(p)

\* The links at the end of a successful operation.
Moved(p) ==
  CASE op[p] = "install"  -> current = target[p] /\ previous = Linked(p) /\ switched[p]
    [] op[p] = "rollback" -> /\ current = found[p].previous /\ previous = found[p].current
                             /\ saved[p] = found[p]
    [] op[p] = "repair"   -> Same(p)

\* The way of the other operations, and the common tail.
ExchangeInv(p) ==
  /\ pc[p] \in {"rollback", "repair"} => Same(p)
  /\ pc[p] = "exchange" => /\ current = found[p].previous /\ previous = found[p].previous
                           /\ saved[p] = found[p]
  /\ pc[p] \in TailPoints => Moved(p)
  /\ pc[p] \in {"writeState", "writeBase", "finish"} => entry = Kind(current)
  /\ pc[p] \in {"writeBase", "finish"} => active["state"] = current
  /\ pc[p] = "finish" => active["base"] = current

\* A retention run removes what the plan named and no link selects.
RetentionInv(p) ==
  /\ pc[p] \in RetentionPoints => Same(p)
  /\ pc[p] = "remove" => \A r \in doomed[p] :
        <<r, inode[r]>> \in reviewed[p].remove /\ r \notin {current, previous}

HoldInv(p) == SelectionInv(p) /\ InstallInv(p) /\ ExchangeInv(p) /\ RetentionInv(p)

\* With nobody at work both links select complete releases.
RestInv ==
  /\ Good(previous)
  /\ updateLock = NoProcess => Good(current)

SelectorInv ==
  /\ TypeInv /\ HolderInv /\ ExclusionInv /\ RestInv
  /\ \A p \in Processes : CourseInv(p) /\ (pc[p] \in LockPoints => HoldInv(p))

(***************************************************************************)
(* Types.                                                                  *)
(***************************************************************************)
\* The ends that leave update.lock behind, or may.
Abandons(p) == OwnFails(p) \/ CleanupFails(p) \/ UnlockFails(p) \/ Kill(p)

Act(p) == \/ Update(p) \/ Ask(p) \/ Review(p) \/ Step(p)
          \/ CommandFails(p) \/ Signalled(p) \/ Abandons(p)

LEMMA NextActs ==
  [Next]_vars <=> \/ \E p \in Processes : Act(p)
                  \/ Launch \/ (\E r \in Releases : Exits(r))
                  \/ UNCHANGED vars
  BY DEF Next, Act, Abandons

LEMMA PointsAre ==
  {"idle", "decide", "acquire", "own", "mark", "untrap", "verify", "reexec", "cleanup", "restore",
   "restorePrevious", "unlock", "install", "stage", "linkPrevious", "switch", "rollback",
   "exchange", "repair", "wrappers", "writeState", "writeBase", "finish", "prune", "remove"} = Points
  BY DEF Points, ScriptPoints, RetentionPoints

LEMMA StartTypes == Init => TypeInv
<1> SUFFICES ASSUME Init PROVE TypeInv
  OBVIOUS
<1>1. NoLinks \in Links /\ NoRelease \in Link /\ NoPlan \in Reviews
  BY DEF NoLinks, Links, Link, NoPlan, Reviews
<1>2. current \in Link /\ previous \in Link
  BY DEF Init, Link
<1>3. entry \in {"app", "script", "none"}
  BY DEF Init, Kind
<1>4. "idle" \in Points
  BY PointsAre
<1>5. inode \in [Releases -> Nat] /\ dir \in [Releases -> {"absent", "partial", "complete"}]
  BY DEF Init
<1> QED BY <1>1, <1>2, <1>3, <1>4, <1>5 DEF Init, TypeInv

LEMMA ForgetTypes ==
  ASSUME TypeInv, NEW p \in Processes, Forget(p)
  PROVE  /\ pc' \in [Processes -> Points]
         /\ op' \in [Processes -> {"none", "install", "rollback", "repair", "prune"}]
         /\ target' \in [Processes -> Link]
         /\ created' \in [Processes -> BOOLEAN] /\ switched' \in [Processes -> BOOLEAN]
         /\ saved' \in [Processes -> Links] /\ failed' \in [Processes -> BOOLEAN]
         /\ reviewed' \in [Processes -> Reviews] /\ doomed' \in [Processes -> SUBSET Releases]
         /\ found' \in [Processes -> Links]
<1>1. NoLinks \in Links /\ NoRelease \in Link /\ NoPlan \in Reviews
  BY DEF NoLinks, Links, Link, NoPlan, Reviews
<1> QED BY <1>1, PointsAre DEF Forget, Goto, TypeInv

LEMMA IdentityType == ASSUME TypeInv PROVE Identity \in Reviews
<1>1. Candidates \subseteq Releases
  BY DEF Candidates
<1> QED BY <1>1 DEF TypeInv, Identity, Reviews

LEMMA AskTypes ==
  ASSUME TypeInv, NEW p \in Processes, CourseInv(p),
         Update(p) \/ Decide(p) \/ Ask(p) \/ Review(p) \/ Acquire(p) \/ Own(p)
  PROVE  TypeInv'
<1> USE PointsAre DEF TypeInv, Goto, worldVars, planFrame, treeVars, linkVars
<1>1. CASE Update(p)
  <2>1. Targets \subseteq Link
    BY SelectorAssumption DEF Link
  <2> QED BY <1>1, <2>1 DEF Update
<1>2. CASE Decide(p)
  BY <1>2, ForgetTypes DEF Decide
<1>3. CASE Ask(p)
  BY <1>3 DEF Ask
<1>4. CASE Review(p)
  BY <1>4, IdentityType DEF Review
<1>5. CASE Acquire(p)
  <2>1. [current |-> current, previous |-> previous] \in Links
    BY DEF Links
  <2> QED BY <1>5, <2>1, ForgetTypes DEF Acquire
<1>6. CASE Own(p)
  <2>1. op[p] \in Points
    BY <1>6 DEF Own, CourseInv
  <2> QED BY <1>6, <2>1 DEF Own, localVars
<1> QED BY <1>1, <1>2, <1>3, <1>4, <1>5, <1>6

LEMMA ReportsTypes ==
  ASSUME TypeInv, NEW p \in Processes, Reports(p)
  PROVE  /\ pc' \in [Processes -> Points]
         /\ op' \in [Processes -> {"none", "install", "rollback", "repair", "prune"}]
         /\ target' \in [Processes -> Link]
         /\ created' \in [Processes -> BOOLEAN] /\ switched' \in [Processes -> BOOLEAN]
         /\ saved' \in [Processes -> Links] /\ failed' \in [Processes -> BOOLEAN]
         /\ reviewed' \in [Processes -> Reviews] /\ doomed' \in [Processes -> SUBSET Releases]
         /\ found' \in [Processes -> Links]
<1>1. CASE Forget(p)
  BY <1>1, ForgetTypes
<1>2. CASE UNCHANGED localVars /\ (Goto(p, "reexec") \/ Goto(p, "verify"))
  BY <1>2, PointsAre DEF TypeInv, Goto, localVars
<1> QED BY <1>1, <1>2 DEF Reports

LEMMA AbortTypes ==
  ASSUME TypeInv, NEW p \in Processes, Abort(p)
  PROVE  pc' \in [Processes -> Points] /\ failed' \in [Processes -> BOOLEAN]
  BY PointsAre DEF TypeInv, Abort, TrapOf, Goto

LEMMA InstallTypes ==
  ASSUME TypeInv, NEW p \in Processes, CourseInv(p),
         \/ CommandFails(p) \/ Signalled(p) \/ MakeRelease(p) \/ Stage(p) \/ LinkPrevious(p)
         \/ MarkSwitched(p) \/ Switch(p)
         \/ RemoveStaging(p) \/ RestoreCurrent(p) \/ RestorePrevious(p)
  PROVE  TypeInv'
<1> USE PointsAre DEF TypeInv, Goto, worldVars, planFrame, treeVars, linkVars, localVars
<1>1. CASE CommandFails(p)
  BY <1>1, AbortTypes DEF CommandFails
<1>2. CASE Signalled(p)
  BY <1>2 DEF Signalled, TrapOf
<1>3. CASE MakeRelease(p)
  <2>1. target[p] \in Releases
    BY <1>3 DEF MakeRelease, CourseInv, InstallPoints
  <2>2. CASE dir[target[p]] # "absent"
    BY <1>3, <2>2, AbortTypes DEF MakeRelease
  <2>3. CASE dir[target[p]] = "absent"
    <3>1. inode' \in [Releases -> Nat] /\ dir' \in [Releases -> {"absent", "partial", "complete"}]
      BY <1>3, <2>1, <2>3 DEF MakeRelease
    <3> QED BY <1>3, <2>3, <3>1 DEF MakeRelease
  <2> QED BY <2>2, <2>3
<1>4. CASE Stage(p)
  BY <1>4 DEF Stage
<1>5. CASE LinkPrevious(p)
  <2>1. Snapshot \in Links
    BY DEF Snapshot, Links
  <2> QED BY <1>5, <2>1 DEF LinkPrevious
<1>6. CASE MarkSwitched(p) \/ Switch(p)
  <2>1. target[p] \in Link
    OBVIOUS
  <2>2. CASE MarkSwitched(p)
    BY <2>2 DEF MarkSwitched
  <2>3. CASE Switch(p)
    BY <2>1, <2>3 DEF Switch
  <2> QED BY <1>6, <2>2, <2>3
<1>7. CASE RemoveStaging(p)
  BY <1>7 DEF RemoveStaging
<1>8. CASE RestoreCurrent(p) \/ RestorePrevious(p)
  <2>1. saved[p].current \in Link /\ saved[p].previous \in Link
    BY DEF Links
  <2>2. CASE RestoreCurrent(p)
    BY <2>1, <2>2 DEF RestoreCurrent
  <2>3. CASE RestorePrevious(p)
    BY <2>1, <2>3 DEF RestorePrevious
  <2> QED BY <1>8, <2>2, <2>3
<1> QED BY <1>1, <1>2, <1>3, <1>4, <1>5, <1>6, <1>7, <1>8

LEMMA TailTypes ==
  ASSUME TypeInv, NEW p \in Processes, CourseInv(p),
         \/ Exchange(p) \/ ExchangePrevious(p) \/ Repair(p) \/ LinkRuntime(p)
         \/ WriteState(p, "state", "writeState", "writeBase")
         \/ WriteState(p, "base", "writeBase", "finish") \/ Finish(p)
  PROVE  TypeInv'
<1> USE PointsAre DEF TypeInv, Goto, worldVars, treeVars, linkVars, localVars
<1>1. CASE Exchange(p)
  <2>1. Snapshot \in Links
    BY DEF Snapshot, Links
  <2> QED BY <1>1, <2>1, AbortTypes DEF Exchange
<1>2. CASE ExchangePrevious(p)
  BY <1>2 DEF ExchangePrevious, Links
<1>3. CASE Repair(p)
  BY <1>3, AbortTypes DEF Repair
<1>4. CASE LinkRuntime(p)
  BY <1>4 DEF LinkRuntime, Kind
<1>5. ASSUME NEW f \in {"state", "base"}, NEW from \in {"writeState", "writeBase"},
             NEW to \in {"writeBase", "finish"}, WriteState(p, f, from, to)
      PROVE TypeInv'
  <2>1. Written(p) \in Link
    BY <1>5 DEF WriteState, Written, CourseInv, TailPoints, Links
  <2> QED BY <1>5, <2>1, AbortTypes DEF WriteState
<1>6. CASE Finish(p)
  BY <1>6 DEF Finish
<1> QED BY <1>1, <1>2, <1>3, <1>4, <1>5, <1>6

LEMMA EndTypes ==
  ASSUME TypeInv, NEW p \in Processes,
         \/ Untrap(p) \/ Verify(p) \/ Reexecute(p) \/ Unlock(p) \/ Abandons(p)
         \/ Inventory(p) \/ (\E r \in Releases : Remove(p, r)) \/ RemovedAll(p)
  PROVE  TypeInv'
<1> USE PointsAre DEF TypeInv, Goto, worldVars, treeVars, linkVars, localVars
<1>1. CASE Untrap(p) \/ Unlock(p)
  BY <1>1, ReportsTypes DEF Untrap, Unlock
<1>2. CASE Verify(p)
  BY <1>2, ForgetTypes DEF Verify
<1>3. CASE Reexecute(p)
  <2>1. inUse' \subseteq Releases
    BY <1>3 DEF Reexecute, Usable
  <2> QED BY <1>3, <2>1, ForgetTypes DEF Reexecute
<1>4. CASE Kill(p) \/ OwnFails(p)
  BY <1>4, ForgetTypes DEF Kill, OwnFails, LeftBehind
<1>8. CASE UnlockFails(p)
  BY <1>8, ForgetTypes, ReportsTypes DEF UnlockFails, LeftBehind
<1>9. CASE CleanupFails(p)
  <2>1. dir' = dir \/ dir' = [dir EXCEPT ![target[p]] = "partial"]
    BY <1>9 DEF CleanupFails
  <2>2. dir' \in [Releases -> {"absent", "partial", "complete"}]
    BY <2>1
  <2> QED BY <1>9, <2>2, ForgetTypes DEF CleanupFails, LeftBehind
<1>5. CASE Inventory(p)
  <2>1. Candidates \subseteq Releases
    BY DEF Candidates
  <2> QED BY <1>5, <2>1 DEF Inventory
<1>6. ASSUME NEW r \in Releases, Remove(p, r) PROVE TypeInv'
  BY <1>6 DEF Remove
<1>7. CASE RemovedAll(p)
  BY <1>7 DEF RemovedAll
<1> QED BY <1>1, <1>2, <1>3, <1>4, <1>5, <1>6, <1>7, <1>8, <1>9 DEF Abandons

LEMMA TypesStay ==
  ASSUME TypeInv, \A p \in Processes : CourseInv(p), [Next]_vars PROVE TypeInv'
<1>1. ASSUME NEW p \in Processes, Act(p) PROVE TypeInv'
  BY <1>1, AskTypes, InstallTypes, TailTypes, EndTypes DEF Act, Step
<1>2. CASE Launch \/ (\E r \in Releases : Exits(r)) \/ UNCHANGED vars
  BY <1>2 DEF TypeInv, Launch, Exits, Usable, vars, treeVars, linkVars, localVars
<1> QED BY <1>1, <1>2, NextActs

(***************************************************************************)
(* What an invocation leaves to the others.                                *)
(***************************************************************************)
Untouched(p) ==
  /\ pc'[p] = pc[p] /\ op'[p] = op[p] /\ target'[p] = target[p] /\ created'[p] = created[p]
  /\ switched'[p] = switched[p] /\ saved'[p] = saved[p] /\ failed'[p] = failed[p]
  /\ reviewed'[p] = reviewed[p] /\ doomed'[p] = doomed[p] /\ found'[p] = found[p]

LEMMA OthersUntouched ==
  ASSUME TypeInv, NEW p \in Processes, NEW q \in Processes, p # q, Act(q) PROVE Untouched(p)
<1> USE DEF TypeInv, Untouched, Goto, worldVars, planFrame, localVars
<1>1. Forget(q) => Untouched(p)
  BY DEF Forget
<1>2. Abort(q) => pc'[p] = pc[p] /\ failed'[p] = failed[p]
  BY DEF Abort
<1>3. CASE Update(q) \/ Ask(q) \/ Review(q)
  BY <1>3 DEF Update, Ask, Review
<1>4. CASE Decide(q) \/ Verify(q) \/ Reexecute(q)
  BY <1>1, <1>4 DEF Decide, Verify, Reexecute
<1>5. CASE Acquire(q) \/ Own(q)
  BY <1>1, <1>5 DEF Acquire, Own
<1>13. CASE Abandons(q)
  BY <1>1, <1>13 DEF Abandons, OwnFails, CleanupFails, UnlockFails, Kill, Reports
<1>6. CASE CommandFails(q) \/ Signalled(q)
  BY <1>2, <1>6 DEF CommandFails, Signalled
<1>7. CASE MakeRelease(q) \/ Exchange(q) \/ Repair(q)
  BY <1>2, <1>7 DEF MakeRelease, Exchange, Repair
<1>8. CASE Stage(q) \/ LinkPrevious(q) \/ MarkSwitched(q) \/ Switch(q) \/ ExchangePrevious(q) \/ LinkRuntime(q)
  BY <1>8 DEF Stage, LinkPrevious, MarkSwitched, Switch, ExchangePrevious, LinkRuntime
<1>9. ASSUME NEW f, NEW from, NEW to, WriteState(q, f, from, to) PROVE Untouched(p)
  BY <1>2, <1>9 DEF WriteState
<1>10. CASE Finish(q) \/ RemoveStaging(q) \/ RestoreCurrent(q) \/ RestorePrevious(q)
  BY <1>10 DEF Finish, RemoveStaging, RestoreCurrent, RestorePrevious
<1>11. CASE Untrap(q) \/ Unlock(q)
  BY <1>1, <1>11 DEF Untrap, Unlock, Reports
<1>12. CASE Inventory(q) \/ RemovedAll(q) \/ \E r \in Releases : Remove(q, r)
  BY <1>12 DEF Inventory, RemovedAll, Remove
<1> QED BY <1>3, <1>4, <1>5, <1>6, <1>7, <1>8, <1>9, <1>10, <1>11, <1>12, <1>13 DEF Act, Step

\* An invocation that is not behind the lock changes nothing of the installation,
\* and the lock only by taking it free or dying with it.
LEMMA OutsideLock ==
  ASSUME NEW q \in Processes, Act(q), pc[q] \notin LockPoints
  PROVE  /\ UNCHANGED <<dir, inode, current, previous, active, entry>>
         /\ \/ updateLock' = updateLock
            \/ updateLock = NoProcess /\ Acquire(q)
            \/ updateLock = q /\ Kill(q)
<1> USE DEF LockPoints, InstallPoints, TailPoints, RetentionPoints, worldVars, treeVars, linkVars
<1>1. CASE Update(q) \/ Ask(q) \/ Review(q) \/ Decide(q) \/ Untrap(q) \/ Verify(q) \/ Reexecute(q)
  BY <1>1 DEF Update, Ask, Review, Decide, Untrap, Verify, Reexecute
<1>2. CASE Acquire(q) \/ Kill(q) \/ Signalled(q) \/ CommandFails(q)
  BY <1>2 DEF Acquire, LockFree, Kill, LeftBehind, Signalled, CommandFails
<1>3. Act(q) => \/ Update(q) \/ Ask(q) \/ Review(q) \/ Decide(q) \/ Untrap(q) \/ Verify(q) \/ Reexecute(q)
                \/ Acquire(q) \/ Kill(q) \/ Signalled(q) \/ CommandFails(q)
  BY DEF Act, Step, Abandons, OwnFails, CleanupFails, UnlockFails, Own, MakeRelease, Stage, LinkPrevious, MarkSwitched, Switch, Exchange, ExchangePrevious,
         Repair, LinkRuntime, WriteState, Finish, RemoveStaging, RestoreCurrent, RestorePrevious, Unlock,
         Inventory, Remove, RemovedAll
<1> QED BY <1>1, <1>2, <1>3

\* How an invocation leaves the points behind the lock, and how it gets there.
LEMMA LockMoves ==
  ASSUME TypeInv, NEW q \in Processes, CourseInv(q), Act(q)
  PROVE  /\ updateLock' \in {updateLock, q, NoProcess, Dead}
         /\ updateLock' = q /\ updateLock # q => pc'[q] \in LockPoints
         /\ updateLock' = q /\ pc[q] \in LockPoints => pc'[q] \in LockPoints
         /\ pc'[q] \in LockPoints =>
              \/ pc[q] \in LockPoints /\ updateLock' = updateLock
              \/ updateLock' = q
              \/ pc[q] = "untrap" /\ Signalled(q)
<1> USE DEF LockPoints, InstallPoints, TailPoints, RetentionPoints, ScriptPoints,
            worldVars, treeVars, linkVars, Goto
<1>0. updateLock = Dead \/ updateLock = NoProcess => updateLock # q
  BY SelectorAssumption
<1>1. Forget(q) => pc'[q] = "idle"
  BY DEF Forget, TypeInv
<1>2. Abort(q) => pc'[q] \in {"cleanup", "unlock"}
  BY DEF Abort, TrapOf, TypeInv
<1>3. CASE Update(q) \/ Ask(q) \/ Review(q)
  BY <1>3 DEF Update, Ask, Review, TypeInv
<1>4. CASE Decide(q) \/ Verify(q) \/ Reexecute(q)
  BY <1>1, <1>4 DEF Decide, Verify, Reexecute, TypeInv
<1>5. CASE Abandons(q)
  <2>1. q # NoProcess /\ q # Dead
    BY SelectorAssumption
  <2>2. Reports(q) => pc'[q] \in {"idle", "reexec", "verify"}
    BY <1>1 DEF Reports, TypeInv
  <2>3. pc'[q] \in {"idle", "reexec", "verify"}
    BY <1>1, <1>5, <2>2 DEF Abandons, OwnFails, CleanupFails, UnlockFails, Kill
  <2>4. updateLock' \in {LeftBehind(q), NoProcess}
    BY <1>5 DEF Abandons, OwnFails, CleanupFails, UnlockFails, Kill
  <2>5. updateLock' # q /\ updateLock' \in {updateLock, NoProcess, Dead}
    BY <2>1, <2>4 DEF LeftBehind
  <2> QED BY <2>3, <2>5
<1>6. CASE Acquire(q)
  <2>1. \/ pc'[q] = "idle" /\ updateLock' = updateLock
        \/ pc'[q] = "own" /\ updateLock' = q
    BY <1>1, <1>6 DEF Acquire, TypeInv
  <2>2. pc[q] = "acquire"
    BY <1>6 DEF Acquire
  <2> QED BY <2>1, <2>2
<1>17. CASE Own(q)
  <2>1. op[q] \in {"install", "rollback", "repair", "prune"}
    BY <1>17 DEF Own, CourseInv
  <2> QED BY <1>17, <2>1 DEF Own, TypeInv
<1>7. CASE CommandFails(q)
  BY <1>2, <1>7 DEF CommandFails
<1>8. CASE Signalled(q)
  BY <1>8 DEF Signalled, TrapOf, TypeInv
<1>9. CASE MakeRelease(q) \/ Exchange(q) \/ Repair(q)
  BY <1>2, <1>9 DEF MakeRelease, Exchange, Repair, TypeInv
<1>10. CASE Stage(q) \/ LinkPrevious(q) \/ MarkSwitched(q) \/ Switch(q) \/ ExchangePrevious(q) \/ LinkRuntime(q)
  BY <1>10 DEF Stage, LinkPrevious, MarkSwitched, Switch, ExchangePrevious, LinkRuntime, TypeInv
<1>11. ASSUME NEW f, NEW from \in TailPoints, NEW to \in TailPoints, WriteState(q, f, from, to)
       PROVE  pc[q] \in LockPoints /\ updateLock' = updateLock /\ pc'[q] \in LockPoints
  BY <1>2, <1>11 DEF WriteState, TypeInv
<1>12. CASE Finish(q)
  <2>1. CASE op[q] = "install"
    <3>1. pc'[q] = "untrap" /\ updateLock' \in {NoProcess, Dead}
      BY <1>12, <2>1 DEF Finish, TypeInv
    <3> QED BY <3>1, SelectorAssumption
  <2>2. CASE op[q] # "install"
    BY <1>12, <2>2 DEF Finish, TypeInv
  <2> QED BY <2>1, <2>2
<1>13. CASE RemoveStaging(q) \/ RestoreCurrent(q) \/ RestorePrevious(q)
  BY <1>13 DEF RemoveStaging, RestoreCurrent, RestorePrevious, TypeInv
<1>14. CASE Untrap(q)
  BY <1>1, <1>14 DEF Untrap, Reports, TypeInv
<1>15. CASE Unlock(q)
  <2>1. pc'[q] \in {"idle", "reexec", "verify"} /\ updateLock' # q
    BY <1>1, <1>15, SelectorAssumption DEF Unlock, Reports, TypeInv
  <2>2. updateLock' = updateLock \/ updateLock' = NoProcess
    BY <1>15 DEF Unlock
  <2>3. pc'[q] \notin LockPoints /\ NoProcess # Dead
    BY <2>1, SelectorAssumption
  <2> HIDE DEF LockPoints
  <2> QED BY <2>1, <2>2, <2>3
<1>16. CASE Inventory(q) \/ RemovedAll(q) \/ \E r \in Releases : Remove(q, r)
  BY <1>16 DEF Inventory, RemovedAll, Remove, TypeInv
<1> QED BY <1>3, <1>4, <1>5, <1>6, <1>7, <1>8, <1>9, <1>10, <1>11, <1>12, <1>13, <1>14, <1>15, <1>16,
       <1>17 DEF Act, Step

\* The owner of the lock is behind it.
LEMMA HolderStays ==
  ASSUME TypeInv, HolderInv, \A p \in Processes : CourseInv(p), [Next]_vars
  PROVE  HolderInv'
<1>1. ASSUME NEW q \in Processes, Act(q) PROVE HolderInv'
  <2>2. ASSUME NEW p \in Processes, updateLock' = p PROVE pc'[p] \in LockPoints
    <3>1. CASE p = q
      BY <1>1, <2>2, <3>1, LockMoves DEF HolderInv
    <3>2. CASE p # q
      <4>1. updateLock = p
        BY <1>1, <2>2, <3>2, LockMoves, SelectorAssumption
      <4> QED BY <1>1, <3>2, <4>1, OthersUntouched DEF HolderInv, Untouched
    <3> QED BY <3>1, <3>2
  <2> QED BY <2>2 DEF HolderInv
<1>2. CASE Launch \/ (\E r \in Releases : Exits(r)) \/ UNCHANGED vars
  BY <1>2 DEF HolderInv, Launch, Exits, vars
<1> QED BY <1>1, <1>2, NextActs

\* Only one invocation at a time is behind the lock.
LEMMA ExclusionStays ==
  ASSUME TypeInv, ExclusionInv, \A p \in Processes : CourseInv(p), [Next]_vars, InstallsUndisturbed
  PROVE  ExclusionInv'
<1>1. ASSUME NEW q \in Processes, Act(q), NEW p \in Processes, pc'[p] \in LockPoints
      PROVE  updateLock' = p
  <2>1. CASE p = q
    <3>1. ~(pc[q] = "untrap" /\ Signalled(q))
      BY DEF InstallsUndisturbed, Signalled, SignalFault, CourseInv
    <3> QED BY <1>1, <2>1, <3>1, LockMoves DEF ExclusionInv
  <2>2. CASE p # q
    <3>1. updateLock = p
      BY <1>1, <2>2, OthersUntouched DEF Untouched, ExclusionInv
    <3>2. pc[q] \notin LockPoints /\ updateLock # NoProcess
      BY <2>2, <3>1, SelectorAssumption DEF ExclusionInv
    <3> QED BY <1>1, <2>2, <3>1, <3>2, OutsideLock
  <2> QED BY <2>1, <2>2
<1>2. CASE Launch \/ (\E r \in Releases : Exits(r)) \/ UNCHANGED vars
  BY <1>2 DEF ExclusionInv, Launch, Exits, vars
<1> QED BY <1>1, <1>2, NextActs DEF ExclusionInv

(***************************************************************************)
(* The course of an invocation.                                            *)
(***************************************************************************)
LEMMA ForgetCourse == ASSUME TypeInv, NEW p \in Processes, Forget(p) PROVE CourseInv(p)'
<1>1. pc'[p] = "idle" /\ op'[p] = "none" /\ ~created'[p] /\ ~switched'[p]
  BY DEF TypeInv, Forget, Goto
<1> QED BY <1>1 DEF CourseInv, InstallPoints, RetentionPoints, TailPoints

LEMMA AbortCourse ==
  ASSUME TypeInv, NEW p \in Processes, CourseInv(p), pc[p] \in ScriptPoints \cup RetentionPoints \cup {"mark"},
         Goto(p, TrapOf(p)), UNCHANGED <<op, target, created, switched>>
  PROVE  CourseInv(p)'
<1>1. op[p] \in {"install", "rollback", "repair", "prune"}
  BY DEF CourseInv, ScriptPoints, InstallPoints, TailPoints, RetentionPoints
<1>2. CASE op[p] = "install"
  BY <1>2 DEF TypeInv, CourseInv, TrapOf, Goto, InstallPoints, TailPoints, RetentionPoints
<1>3. CASE op[p] # "install"
  BY <1>3 DEF TypeInv, CourseInv, TrapOf, Goto, InstallPoints, TailPoints, RetentionPoints
<1> QED BY <1>2, <1>3

LEMMA CourseStays ==
  ASSUME TypeInv, NEW p \in Processes, CourseInv(p), [Next]_vars PROVE CourseInv(p)'
<1> USE DEF InstallPoints, TailPoints, RetentionPoints, Goto, worldVars, planFrame, localVars
<1>1. ASSUME NEW q \in Processes, q # p, Act(q) PROVE CourseInv(p)'
  BY <1>1, OthersUntouched DEF Untouched, CourseInv
<1>2. CASE Update(p)
  BY <1>2, SelectorAssumption DEF Update, CourseInv, TypeInv
<1>3. CASE Ask(p) \/ Review(p)
  BY <1>3 DEF Ask, Review, CourseInv, TypeInv
<1>4. CASE Decide(p)
  BY <1>4, ForgetCourse DEF Decide, CourseInv, TypeInv
<1>5. CASE Acquire(p) \/ Own(p)
  BY <1>5, ForgetCourse DEF Acquire, Own, CourseInv, TypeInv
<1>6. CASE CommandFails(p)
  BY <1>6, AbortCourse DEF CommandFails, Abort
<1>7. CASE Signalled(p)
  <2>1. CASE pc[p] = "untrap"
    BY <1>7, <2>1 DEF Signalled, TrapOf, CourseInv, TypeInv
  <2> QED BY <1>7, <2>1, AbortCourse DEF Signalled
<1>8. CASE MakeRelease(p)
  <2>1. CASE Abort(p) /\ UNCHANGED created
    BY <1>8, <2>1, AbortCourse DEF MakeRelease, Abort, ScriptPoints
  <2>2. CASE Goto(p, "stage")
    BY <1>8, <2>2 DEF MakeRelease, CourseInv, TypeInv
  <2> QED BY <1>8, <2>1, <2>2 DEF MakeRelease
<1>9. CASE Exchange(p) \/ Repair(p)
  <2>1. CASE Abort(p)
    <3>1. pc[p] \in ScriptPoints /\ Goto(p, TrapOf(p)) /\ UNCHANGED <<op, target, created, switched>>
      BY <1>9, <2>1 DEF Exchange, Repair, Abort, ScriptPoints
    <3> QED BY <3>1, AbortCourse
  <2>2. CASE Exchange(p) /\ Goto(p, "exchange")
    BY <2>2 DEF Exchange, CourseInv, TypeInv
  <2>3. CASE Repair(p) /\ Goto(p, "wrappers")
    BY <2>3 DEF Repair, CourseInv, TypeInv
  <2> QED BY <1>9, <2>1, <2>2, <2>3 DEF Exchange, Repair
<1>10. CASE Stage(p) \/ LinkPrevious(p) \/ MarkSwitched(p) \/ Switch(p) \/ ExchangePrevious(p) \/ LinkRuntime(p)
  BY <1>10 DEF Stage, LinkPrevious, MarkSwitched, Switch, ExchangePrevious, LinkRuntime, CourseInv, TypeInv
<1>11. ASSUME NEW f, NEW from \in TailPoints \ {"wrappers"}, NEW to \in TailPoints, WriteState(p, f, from, to)
       PROVE  CourseInv(p)'
  <2>1. CASE Abort(p)
    BY <1>11, <2>1, AbortCourse DEF WriteState, Abort, ScriptPoints
  <2>2. CASE Goto(p, to)
    BY <1>11, <2>2 DEF WriteState, CourseInv, TypeInv
  <2> QED BY <1>11, <2>1, <2>2 DEF WriteState
<1>12. CASE Finish(p) \/ RemoveStaging(p) \/ RestoreCurrent(p) \/ RestorePrevious(p)
  BY <1>12 DEF Finish, RemoveStaging, RestoreCurrent, RestorePrevious, CourseInv, TypeInv
<1>13. CASE Untrap(p) \/ Unlock(p) \/ Verify(p) \/ Reexecute(p) \/ Abandons(p)
  <2>1. CASE Forget(p)
    BY <2>1, ForgetCourse
  <2>2. CASE UNCHANGED localVars /\ (Goto(p, "reexec") \/ Goto(p, "verify"))
    BY <2>2 DEF CourseInv, TypeInv
  <2> QED BY <1>13, <2>1, <2>2 
         DEF Untrap, Unlock, Reports, Verify, Reexecute, Abandons, OwnFails, CleanupFails, UnlockFails, Kill
<1>14. CASE Inventory(p) \/ RemovedAll(p) \/ \E r \in Releases : Remove(p, r)
  BY <1>14 DEF Inventory, RemovedAll, Remove, CourseInv, TypeInv
<1>15. CASE Launch \/ (\E r \in Releases : Exits(r)) \/ UNCHANGED vars
  BY <1>15 DEF CourseInv, Launch, Exits, vars
<1>16. Act(p) => CourseInv(p)'
  BY <1>2, <1>3, <1>4, <1>5, <1>6, <1>7, <1>8, <1>9, <1>10, <1>11, <1>12, <1>13, <1>14 DEF Act, Step
<1> QED BY <1>1, <1>15, <1>16, NextActs

(***************************************************************************)
(* Behind the lock.                                                        *)
(***************************************************************************)
World == <<dir, inode, current, previous, active, entry>>

LEMMA HoldSame ==
  ASSUME NEW p \in Processes, HoldInv(p), Untouched(p), UNCHANGED World PROVE HoldInv(p)'
<1> USE DEF Untouched, World, Same, Good, Usable, Linked, Kind
<1>1. SelectionInv(p)'
  BY DEF HoldInv, SelectionInv
<1>2. InstallInv(p)'
  BY DEF HoldInv, InstallInv
<1>3. ExchangeInv(p)'
  BY DEF HoldInv, ExchangeInv, Moved
<1>4. RetentionInv(p)'
  BY DEF HoldInv, RetentionInv
<1> QED BY <1>1, <1>2, <1>3, <1>4 DEF HoldInv

LEMMA OthersKeep ==
  ASSUME SelectorInv, NEW p \in Processes, NEW q \in Processes, p # q, Act(q),
         pc'[p] \in LockPoints
  PROVE  HoldInv(p)' /\ UNCHANGED World
<1>1. Untouched(p) /\ pc[p] \in LockPoints /\ updateLock = p /\ HoldInv(p)
  BY OthersUntouched DEF SelectorInv, Untouched, ExclusionInv
<1>2. pc[q] \notin LockPoints
  BY <1>1 DEF SelectorInv, ExclusionInv
<1>3. UNCHANGED World
  BY <1>2, OutsideLock DEF World
<1> QED BY <1>1, <1>3, HoldSame

\* A step that changes nothing of the installation and little of its invocation.
Trapped(p) ==
  /\ pc'[p] = TrapOf(p) /\ failed'[p] /\ UNCHANGED World
  /\ op'[p] = op[p] /\ target'[p] = target[p] /\ created'[p] = created[p]
  /\ switched'[p] = switched[p] /\ saved'[p] = saved[p] /\ found'[p] = found[p]

LEMMA TrapKeeps ==
  ASSUME SelectorInv, NEW p \in Processes,
         pc[p] \in ScriptPoints \cup RetentionPoints \cup {"mark"}, pc[p] = "mark" => op[p] # "install",
         Trapped(p)
  PROVE  HoldInv(p)'
<1> USE DEF World, Same, Good, Usable, Linked, InstallPoints, TailPoints, RetentionPoints
<1>1. HoldInv(p) /\ CourseInv(p) /\ pc[p] # "mark"
  BY DEF SelectorInv, LockPoints, ScriptPoints, CourseInv
<1>2. CASE op[p] = "install"
  <2>1. pc'[p] = "cleanup" /\ op'[p] = "install"
    BY <1>2 DEF Trapped, TrapOf
  <2>2. pc[p] \in {"install", "stage", "linkPrevious", "switch"} \cup TailPoints
    BY <1>1, <1>2 DEF CourseInv, ScriptPoints
  <2>3. pc[p] \in {"install", "stage", "linkPrevious"} \/ switched[p]
    BY <1>1, <1>2, <2>2 DEF HoldInv, InstallInv, ExchangeInv, Moved
  <2>4. SelectionInv(p)'
    BY <1>1, <2>1, <2>2 DEF HoldInv, SelectionInv, Trapped
  <2>5. InstallInv(p)'
    BY <1>1, <2>1, <2>3 DEF HoldInv, InstallInv, Trapped
  <2>6. ExchangeInv(p)' /\ RetentionInv(p)'
    BY <2>1 DEF ExchangeInv, RetentionInv
  <2> QED BY <2>4, <2>5, <2>6 DEF HoldInv
<1>3. CASE op[p] # "install"
  <2>1. pc'[p] = "unlock" /\ op'[p] # "install"
    BY <1>3 DEF Trapped, TrapOf
  <2>2. SelectionInv(p)'
    BY <1>1, <1>3, <2>1 DEF HoldInv, SelectionInv, Trapped
  <2>3. InstallInv(p)'
    BY <1>1, <2>1 DEF HoldInv, InstallInv, Trapped
  <2>4. ExchangeInv(p)' /\ RetentionInv(p)'
    BY <2>1 DEF ExchangeInv, RetentionInv
  <2> QED BY <2>2, <2>3, <2>4 DEF HoldInv
<1> QED BY <1>2, <1>3

LEMMA AbortTraps ==
  ASSUME TypeInv, NEW p \in Processes, Goto(p, TrapOf(p)), failed' = [failed EXCEPT ![p] = TRUE],
         UNCHANGED World, UNCHANGED <<op, target, created, switched, saved, found>>
  PROVE  Trapped(p)
  BY DEF TypeInv, Goto, Trapped

LEMMA FaultsKeep ==
  ASSUME SelectorInv, InstallsUndisturbed, NEW p \in Processes, CommandFails(p) \/ Signalled(p),
         pc[p] \in LockPoints
  PROVE  HoldInv(p)'
<1>1. CASE CommandFails(p)
  <2>1. Trapped(p)
    BY <1>1, AbortTraps DEF CommandFails, Abort, SelectorInv, World, worldVars, treeVars, linkVars
  <2> QED BY <1>1, <2>1, TrapKeeps DEF CommandFails, ScriptPoints, RetentionPoints
<1>2. CASE Signalled(p)
  <2>1. op[p] # "install"
    BY <1>2 DEF Signalled, SignalFault, InstallsUndisturbed
  <2>2. Trapped(p)
    BY <1>2, <2>1, AbortTraps DEF Signalled, SelectorInv, World, worldVars, treeVars, linkVars
  <2>3. pc[p] # "untrap"
    BY DEF LockPoints, InstallPoints, TailPoints, RetentionPoints
  <2> QED BY <1>2, <2>1, <2>2, <2>3, TrapKeeps DEF Signalled
<1> QED BY <1>1, <1>2

LEMMA AcquireKeeps ==
  ASSUME SelectorInv, NEW p \in Processes, Acquire(p), pc'[p] \in LockPoints PROVE HoldInv(p)'
<1> USE DEF SelectorInv, TypeInv, InstallPoints, TailPoints, RetentionPoints
<1>1. pc[p] = "acquire" /\ CourseInv(p)
  BY DEF Acquire
<1>2. LockFree
  <2> SUFFICES ASSUME ~LockFree PROVE FALSE
    OBVIOUS
  <2> QED BY DEF Acquire, Forget, Goto, LockPoints
<1>3. /\ pc'[p] = "own" /\ op[p] \in {"install", "rollback", "repair", "prune"}
      /\ found'[p] = [current |-> current, previous |-> previous]
      /\ UNCHANGED World /\ UNCHANGED <<op, target, created, switched, failed, saved, doomed, reviewed>>
  BY <1>1, <1>2 DEF Acquire, Goto, CourseInv, World, treeVars, linkVars
<1>4. Good(current) /\ Good(previous) /\ ~created[p] /\ ~switched[p]
  BY <1>1, <1>2 DEF RestInv, LockFree, CourseInv
<1>5. found'[p].current = current /\ found'[p].previous = previous
  BY <1>3
<1>6. SelectionInv(p)'
  BY <1>3, <1>4, <1>5 DEF SelectionInv, Good, Usable, World
<1>7. InstallInv(p)'
  BY <1>3, <1>4, <1>5 DEF InstallInv, Same, World
<1>8. ExchangeInv(p)'
  BY <1>3, <1>5 DEF ExchangeInv, Same, World
<1>9. RetentionInv(p)'
  BY <1>3, <1>5 DEF RetentionInv, Same, World
<1> QED BY <1>6, <1>7, <1>8, <1>9 DEF HoldInv

LEMMA OwnStepKeeps ==
  ASSUME SelectorInv, NEW p \in Processes, Own(p) PROVE HoldInv(p)'
<1> USE DEF SelectorInv, InstallPoints, TailPoints, RetentionPoints
<1>1. pc[p] = "own" /\ HoldInv(p) /\ CourseInv(p)
  BY DEF Own, LockPoints
<1>2. /\ pc'[p] = op[p] /\ op[p] \in {"install", "rollback", "repair", "prune"} /\ ~switched[p]
      /\ UNCHANGED World /\ UNCHANGED <<op, target, created, switched, failed, saved, doomed, reviewed, found>>
  BY <1>1 DEF Own, Goto, TypeInv, CourseInv, World, worldVars, treeVars, linkVars, localVars
<1>3. Same(p) /\ SelectionInv(p)
  BY <1>1 DEF HoldInv, InstallInv
<1>4. SelectionInv(p)'
  BY <1>2, <1>3 DEF SelectionInv, Same, Good, Usable, World
<1>5. InstallInv(p)' /\ ExchangeInv(p)' /\ RetentionInv(p)'
  BY <1>2, <1>3 DEF InstallInv, ExchangeInv, RetentionInv, Same, World
<1> QED BY <1>4, <1>5 DEF HoldInv

\* install, up to the links.
LEMMA MakeKeeps ==
  ASSUME SelectorInv, NEW p \in Processes, MakeRelease(p) PROVE HoldInv(p)'
<1> USE DEF SelectorInv, InstallPoints, TailPoints, RetentionPoints
<1>1. pc[p] = "install" /\ op[p] = "install" /\ target[p] \in Releases /\ HoldInv(p) /\ ~switched[p]
  BY DEF MakeRelease, CourseInv, LockPoints
<1>2. CASE Abort(p) /\ UNCHANGED <<treeVars, created>>
  <2>1. Trapped(p)
    BY <1>2, AbortTraps DEF MakeRelease, Abort, World, treeVars, linkVars
  <2> QED BY <1>1, <2>1, TrapKeeps DEF ScriptPoints
<1>3. CASE dir[target[p]] = "absent"
  <2> DEFINE r == target[p]
  <2>1. /\ pc'[p] = "stage" /\ dir' = [dir EXCEPT ![r] = "partial"] /\ created'[p]
        /\ UNCHANGED <<current, previous, op, target, switched, saved, found>>
    BY <1>3 DEF MakeRelease, TypeInv, Goto, linkVars
  <2>2. Same(p) /\ Good(found[p].current) /\ Good(found[p].previous)
    BY <1>1 DEF HoldInv, SelectionInv, InstallInv
  <2>3. r # NoRelease /\ ~Good(r)
    BY <1>1, <1>3, SelectorAssumption DEF Good, Usable
  <2>4. r \notin {found[p].current, found[p].previous}
    BY <2>2, <2>3
  <2>5. Good(found[p].current)' /\ Good(found[p].previous)'
    BY <1>1, <2>1, <2>2, <2>4 DEF Good, Usable, TypeInv
  <2>6. SelectionInv(p)'
    BY <2>1, <2>2, <2>4, <2>5 DEF SelectionInv, Same
  <2>7. InstallInv(p)'
    BY <1>1, <2>1, <2>2 DEF InstallInv, Same
  <2>8. ExchangeInv(p)' /\ RetentionInv(p)'
    BY <2>1 DEF ExchangeInv, RetentionInv
  <2> QED BY <2>6, <2>7, <2>8 DEF HoldInv
<1> QED BY <1>2, <1>3 DEF MakeRelease

LEMMA StageKeeps ==
  ASSUME SelectorInv, NEW p \in Processes, Stage(p) PROVE HoldInv(p)'
<1> USE DEF SelectorInv, InstallPoints, TailPoints, RetentionPoints
<1>1. pc[p] = "stage" /\ op[p] = "install" /\ target[p] \in Releases /\ HoldInv(p)
  BY DEF Stage, CourseInv, LockPoints
<1>2. /\ pc'[p] = "linkPrevious" /\ dir' = [dir EXCEPT ![target[p]] = "complete"]
      /\ UNCHANGED <<current, previous, op, target, created, switched, saved, found>>
  BY DEF Stage, TypeInv, Goto, linkVars, localVars
<1>3. \A r \in Releases : Usable(r) => Usable(r)'
  BY <1>2 DEF Usable, TypeInv
<1>4. Usable(target[p])'
  BY <1>1, <1>2 DEF Usable, TypeInv
<1>5. Same(p) /\ SelectionInv(p)
  BY <1>1 DEF HoldInv, InstallInv
<1>6. SelectionInv(p)'
  BY <1>2, <1>3, <1>5 DEF SelectionInv, Same, Good, Usable
<1>7. InstallInv(p)'
  BY <1>1, <1>2, <1>4, <1>5 DEF HoldInv, InstallInv, Same
<1>8. ExchangeInv(p)' /\ RetentionInv(p)'
  BY <1>2 DEF ExchangeInv, RetentionInv
<1> QED BY <1>6, <1>7, <1>8 DEF HoldInv

LEMMA LinkKeeps ==
  ASSUME SelectorInv, NEW p \in Processes, LinkPrevious(p) PROVE HoldInv(p)'
<1> USE DEF SelectorInv, InstallPoints, TailPoints, RetentionPoints
<1>1. pc[p] = "linkPrevious" /\ op[p] = "install" /\ HoldInv(p)
  BY DEF LinkPrevious, CourseInv, LockPoints
<1>2. /\ pc'[p] = "mark" /\ saved'[p] = Snapshot
      /\ previous' = IF current = NoRelease THEN previous ELSE current
      /\ UNCHANGED <<dir, current, op, target, created, switched, found>>
  BY DEF LinkPrevious, TypeInv, Goto, treeVars
<1>3. Same(p) /\ SelectionInv(p) /\ Usable(target[p])
  BY <1>1 DEF HoldInv, InstallInv
<1>4. Snapshot = found[p]
  <2>1. found[p] = [current |-> found[p].current, previous |-> found[p].previous]
    BY DEF TypeInv, Links
  <2> QED BY <1>3, <2>1 DEF Snapshot, Same
<1>5. previous' = Linked(p)
  BY <1>2, <1>3 DEF Linked, Same
<1>6. SelectionInv(p)'
  BY <1>2, <1>3, <1>5 DEF SelectionInv, Same, Good, Usable, Linked
<1>7. InstallInv(p)'
  BY <1>2, <1>3, <1>4, <1>5 DEF InstallInv, Same, Linked, Usable
<1>8. ExchangeInv(p)' /\ RetentionInv(p)'
  BY <1>2 DEF ExchangeInv, RetentionInv
<1> QED BY <1>6, <1>7, <1>8 DEF HoldInv

LEMMA SwitchKeeps ==
  ASSUME SelectorInv, NEW p \in Processes, MarkSwitched(p) \/ Switch(p) PROVE HoldInv(p)'
<1> USE DEF SelectorInv, InstallPoints, TailPoints, RetentionPoints
<1>1. CASE MarkSwitched(p)
  <2>1. pc[p] = "mark" /\ HoldInv(p)
    BY <1>1 DEF MarkSwitched, LockPoints
  <2>2. /\ pc'[p] = "switch" /\ switched'[p]
        /\ UNCHANGED <<dir, current, previous, op, target, created, saved, found>>
    BY <1>1 DEF MarkSwitched, TypeInv, Goto, worldVars, treeVars, linkVars
  <2>3. SelectionInv(p)'
    BY <2>1, <2>2 DEF HoldInv, SelectionInv, Good, Usable
  <2>4. InstallInv(p)'
    BY <2>1, <2>2 DEF HoldInv, InstallInv, Linked, Usable
  <2>5. ExchangeInv(p)' /\ RetentionInv(p)'
    BY <2>2 DEF ExchangeInv, RetentionInv
  <2> QED BY <2>3, <2>4, <2>5 DEF HoldInv
<1>2. CASE Switch(p)
  <2>1. pc[p] = "switch" /\ op[p] = "install" /\ HoldInv(p)
    BY <1>2 DEF Switch, CourseInv, LockPoints
  <2>2. /\ pc'[p] = "wrappers" /\ current' = target[p]
        /\ UNCHANGED <<dir, previous, op, target, created, switched, saved, found>>
    BY <1>2 DEF Switch, TypeInv, Goto, treeVars, localVars
  <2>3. Usable(target[p]) /\ previous = Linked(p) /\ switched[p] /\ saved[p] = found[p]
    BY <2>1 DEF HoldInv, InstallInv
  <2>4. SelectionInv(p)'
    BY <2>1, <2>2, <2>3 DEF HoldInv, SelectionInv, Good, Usable
  <2>5. InstallInv(p)'
    BY <2>2, <2>3 DEF InstallInv
  <2>6. Moved(p)'
    BY <2>1, <2>2, <2>3 DEF Moved, Linked
  <2>7. ExchangeInv(p)' /\ RetentionInv(p)'
    BY <2>2, <2>6 DEF ExchangeInv, RetentionInv
  <2> QED BY <2>4, <2>5, <2>7 DEF HoldInv
<1> QED BY <1>1, <1>2

\* cleanup.
LEMMA CleanupKeeps ==
  ASSUME SelectorInv, NEW p \in Processes, RemoveStaging(p) PROVE HoldInv(p)'
<1> USE DEF SelectorInv, InstallPoints, TailPoints, RetentionPoints
<1>1. pc[p] = "cleanup" /\ op[p] = "install" /\ target[p] \in Releases /\ HoldInv(p)
  BY DEF RemoveStaging, CourseInv, LockPoints
<1>2. /\ pc'[p] = IF MustRestore(p) THEN "restore" ELSE "unlock"
      /\ dir' = IF created[p] THEN [dir EXCEPT ![target[p]] = "absent"] ELSE dir
      /\ UNCHANGED <<current, previous, op, target, created, switched, saved, found, failed>>
  BY DEF RemoveStaging, TypeInv, Goto, linkVars, localVars
<1>3. /\ Good(found[p].current) /\ Good(found[p].previous)
      /\ created[p] => target[p] \notin {found[p].current, found[p].previous}
      /\ failed[p] /\ SelectionInv(p)
      /\ ~switched[p] => Same(p)
      /\ switched[p] => saved[p] = found[p]
  BY <1>1 DEF HoldInv, SelectionInv, InstallInv
<1>4. Good(found[p].current)' /\ Good(found[p].previous)'
  BY <1>2, <1>3 DEF Good, Usable, TypeInv
<1>5. CASE switched[p]
  <2>1. pc'[p] = "restore"
    BY <1>2, <1>3, <1>5 DEF MustRestore
  <2>2. SelectionInv(p)'
    BY <1>2, <1>3, <1>4, <2>1 DEF SelectionInv
  <2>3. InstallInv(p)'
    BY <1>2, <1>3, <1>5, <2>1 DEF InstallInv
  <2>4. ExchangeInv(p)' /\ RetentionInv(p)'
    BY <2>1 DEF ExchangeInv, RetentionInv
  <2> QED BY <2>2, <2>3, <2>4 DEF HoldInv
<1>6. CASE ~switched[p]
  <2>1. pc'[p] = "unlock"
    BY <1>2, <1>6 DEF MustRestore
  <2>2. SelectionInv(p)'
    BY <1>2, <1>3, <1>4, <1>6 DEF SelectionInv, Same
  <2>3. InstallInv(p)'
    BY <1>2, <1>3, <1>6, <2>1 DEF InstallInv, Same
  <2>4. ExchangeInv(p)' /\ RetentionInv(p)'
    BY <2>1 DEF ExchangeInv, RetentionInv
  <2> QED BY <2>2, <2>3, <2>4 DEF HoldInv
<1> QED BY <1>5, <1>6

LEMMA RestoreKeeps ==
  ASSUME SelectorInv, NEW p \in Processes, RestoreCurrent(p) \/ RestorePrevious(p) PROVE HoldInv(p)'
<1> USE DEF SelectorInv, InstallPoints, TailPoints, RetentionPoints
<1>1. pc[p] \in {"restore", "restorePrevious"} /\ op[p] = "install" /\ HoldInv(p)
  BY DEF RestoreCurrent, RestorePrevious, CourseInv, LockPoints
<1>2. UNCHANGED <<dir, op, target, created, switched, saved, found, failed>>
  BY DEF RestoreCurrent, RestorePrevious, treeVars, localVars
<1>3. switched[p] /\ saved[p] = found[p] /\ failed[p] /\ SelectionInv(p)
  BY <1>1 DEF HoldInv, InstallInv
<1>4. CASE RestoreCurrent(p)
  <2>1. pc'[p] = "restorePrevious" /\ current' = found[p].current /\ previous' = previous
    BY <1>3, <1>4 DEF RestoreCurrent, TypeInv, Goto
  <2>2. SelectionInv(p)'
    BY <1>2, <1>3, <2>1 DEF SelectionInv, Good, Usable
  <2>3. InstallInv(p)' /\ ExchangeInv(p)' /\ RetentionInv(p)'
    BY <1>2, <1>3, <2>1 DEF InstallInv, ExchangeInv, RetentionInv
  <2> QED BY <2>2, <2>3 DEF HoldInv
<1>5. CASE RestorePrevious(p)
  <2>1. pc'[p] = "unlock" /\ previous' = found[p].previous /\ current' = current
    BY <1>3, <1>5 DEF RestorePrevious, TypeInv, Goto
  <2>2. current = found[p].current
    BY <1>1, <1>5 DEF HoldInv, InstallInv, RestorePrevious
  <2>3. SelectionInv(p)'
    BY <1>2, <1>3, <2>1, <2>2 DEF SelectionInv, Good, Usable
  <2>4. InstallInv(p)' /\ ExchangeInv(p)' /\ RetentionInv(p)'
    BY <1>2, <1>3, <2>1, <2>2 DEF InstallInv, ExchangeInv, RetentionInv, Same
  <2> QED BY <2>3, <2>4 DEF HoldInv
<1> QED BY <1>4, <1>5

\* Rollback and repair.
LEMMA ExchangeKeeps ==
  ASSUME SelectorInv, NEW p \in Processes, Exchange(p) \/ ExchangePrevious(p) PROVE HoldInv(p)'
<1> USE DEF SelectorInv, InstallPoints, TailPoints, RetentionPoints
<1>1. op[p] = "rollback" /\ HoldInv(p)
  BY DEF Exchange, ExchangePrevious, CourseInv, LockPoints
<1>2. CASE Exchange(p) /\ Abort(p)
  <2>1. Trapped(p)
    BY <1>2, AbortTraps DEF Exchange, Abort, World, treeVars, linkVars, TypeInv, Goto, TrapOf
  <2> QED BY <1>2, <2>1, TrapKeeps DEF Exchange, ScriptPoints
<1>3. CASE Exchange(p) /\ Usable(previous) /\ Goto(p, "exchange")
  <2>1. /\ pc[p] = "rollback" /\ pc'[p] = "exchange" /\ saved'[p] = Snapshot /\ current' = previous
        /\ UNCHANGED <<dir, previous, op, target, created, switched, found>>
    BY <1>1, <1>3 DEF Exchange, TypeInv, Goto, treeVars, Abort, TrapOf
  <2>2. Same(p) /\ SelectionInv(p)
    BY <1>1, <2>1 DEF HoldInv, ExchangeInv
  <2>3. Snapshot = found[p]
    <3>1. found[p] = [current |-> found[p].current, previous |-> found[p].previous]
      BY DEF TypeInv, Links
    <3> QED BY <2>2, <3>1 DEF Snapshot, Same
  <2>4. SelectionInv(p)'
    BY <1>1, <2>1, <2>2 DEF SelectionInv, Same, Good, Usable
  <2>5. InstallInv(p)' /\ ExchangeInv(p)' /\ RetentionInv(p)'
    BY <2>1, <2>2, <2>3 DEF InstallInv, ExchangeInv, RetentionInv, Same
  <2> QED BY <2>4, <2>5 DEF HoldInv
<1>4. CASE ExchangePrevious(p)
  <2>1. /\ pc[p] = "exchange" /\ pc'[p] = "wrappers" /\ previous' = saved[p].current
        /\ UNCHANGED <<dir, current, op, target, created, switched, saved, found>>
    BY <1>4 DEF ExchangePrevious, TypeInv, Goto, treeVars, localVars
  <2>2. current = found[p].previous /\ saved[p] = found[p] /\ SelectionInv(p)
    BY <1>1, <2>1 DEF HoldInv, ExchangeInv
  <2>3. SelectionInv(p)'
    BY <2>1, <2>2 DEF SelectionInv, Good, Usable
  <2>4. Moved(p)'
    BY <1>1, <2>1, <2>2 DEF Moved
  <2>5. InstallInv(p)' /\ ExchangeInv(p)' /\ RetentionInv(p)'
    BY <2>1, <2>2, <2>4 DEF InstallInv, ExchangeInv, RetentionInv
  <2> QED BY <2>3, <2>5 DEF HoldInv
<1>5. Exchange(p) => Abort(p) \/ (Usable(previous) /\ Goto(p, "exchange"))
  BY DEF Exchange
<1> QED BY <1>2, <1>3, <1>4, <1>5

LEMMA RepairKeeps ==
  ASSUME SelectorInv, NEW p \in Processes, Repair(p) PROVE HoldInv(p)'
<1> USE DEF SelectorInv, InstallPoints, TailPoints, RetentionPoints
<1>1. pc[p] = "repair" /\ op[p] = "repair" /\ HoldInv(p)
      /\ UNCHANGED World /\ UNCHANGED <<op, target, created, switched, saved, found>>
  BY DEF Repair, CourseInv, LockPoints, World, worldVars, treeVars, linkVars
<1>2. CASE Abort(p)
  BY <1>1, <1>2, AbortTraps, TrapKeeps DEF Abort, ScriptPoints
<1>3. CASE Goto(p, "wrappers")
  <2>1. pc'[p] = "wrappers" /\ SelectionInv(p) /\ Same(p) /\ (switched[p] => saved[p] = found[p])
    BY <1>1, <1>3 DEF HoldInv, ExchangeInv, InstallInv, TypeInv, Goto
  <2>2. SelectionInv(p)'
    BY <1>1, <2>1 DEF SelectionInv, Same, Good, Usable, World
  <2>3. Moved(p)'
    BY <1>1, <2>1 DEF Moved, Same, World
  <2>4. InstallInv(p)' /\ ExchangeInv(p)' /\ RetentionInv(p)'
    BY <1>1, <2>1, <2>3 DEF InstallInv, ExchangeInv, RetentionInv
  <2> QED BY <2>2, <2>4 DEF HoldInv
<1> QED BY <1>2, <1>3 DEF Repair

\* The common tail: an invocation that goes on to y keeps what it knows.
LEMMA TailGoesOn ==
  ASSUME SelectorInv, NEW p \in Processes, pc[p] \in TailPoints, pc'[p] \in TailPoints,
         UNCHANGED <<dir, current, previous, op, target, created, switched, saved, found>>
  PROVE  SelectionInv(p)' /\ InstallInv(p)' /\ Moved(p)' /\ RetentionInv(p)'
<1> USE DEF SelectorInv, InstallPoints, TailPoints, RetentionPoints
<1>1. HoldInv(p)
  BY DEF LockPoints
<1>2. SelectionInv(p)'
  BY <1>1 DEF HoldInv, SelectionInv, Good, Usable
<1>3. InstallInv(p)' /\ RetentionInv(p)'
  BY <1>1 DEF HoldInv, InstallInv, RetentionInv
<1>4. Moved(p)'
  BY <1>1 DEF HoldInv, ExchangeInv, Moved, Linked, Same
<1> QED BY <1>2, <1>3, <1>4

LEMMA TailKeeps ==
  ASSUME SelectorInv, NEW p \in Processes,
         \/ LinkRuntime(p) \/ WriteState(p, "state", "writeState", "writeBase")
         \/ WriteState(p, "base", "writeBase", "finish") \/ Finish(p)
  PROVE  pc'[p] \in LockPoints => HoldInv(p)'
<1> USE DEF SelectorInv, InstallPoints, TailPoints, RetentionPoints
<1>1. pc[p] \in TailPoints /\ HoldInv(p) /\ op[p] \in {"install", "rollback", "repair"}
  BY DEF LinkRuntime, WriteState, Finish, CourseInv, LockPoints
<1>2. CASE LinkRuntime(p)
  <2>1. pc'[p] = "writeState" /\ entry' = Kind(current)
        /\ UNCHANGED <<dir, current, previous, op, target, created, switched, saved, found>>
    BY <1>2 DEF LinkRuntime, TypeInv, Goto, treeVars, linkVars, localVars
  <2>2. SelectionInv(p)' /\ InstallInv(p)' /\ Moved(p)' /\ RetentionInv(p)'
    BY <1>1, <2>1, TailGoesOn
  <2>3. ExchangeInv(p)'
    BY <2>1, <2>2 DEF ExchangeInv, Kind
  <2> QED BY <2>2, <2>3 DEF HoldInv
<1>3. Written(p) = current
  BY <1>1 DEF HoldInv, ExchangeInv, Moved, Written
<1>4. ASSUME NEW f \in {"state", "base"}, NEW from \in {"writeState", "writeBase"},
             NEW to \in {"writeBase", "finish"}, WriteState(p, f, from, to),
             f = "state" => from = "writeState" /\ to = "writeBase",
             f = "base" => from = "writeBase" /\ to = "finish"
      PROVE  HoldInv(p)'
  <2>1. CASE Abort(p) /\ UNCHANGED active
    <3>1. Trapped(p)
      BY <1>4, <2>1, AbortTraps DEF WriteState, Abort, World, treeVars, linkVars
    <3> QED BY <1>1, <3>1, TrapKeeps DEF ScriptPoints
  <2>2. CASE active' = [active EXCEPT ![f] = Written(p)] /\ Goto(p, to)
    <3>1. pc[p] = from /\ pc'[p] = to /\ active'[f] = current /\ entry' = entry
          /\ UNCHANGED <<dir, current, previous, op, target, created, switched, saved, found>>
      BY <1>3, <1>4, <2>2 DEF WriteState, TypeInv, Goto, treeVars, linkVars
    <3>2. SelectionInv(p)' /\ InstallInv(p)' /\ Moved(p)' /\ RetentionInv(p)'
      BY <1>1, <1>4, <3>1, TailGoesOn
    <3>3. entry = Kind(current) /\ (f = "base" => active["state"] = current)
      BY <1>1, <1>4, <3>1 DEF HoldInv, ExchangeInv
    <3>4. f = "base" => active'["state"] = current
      BY <2>2, <3>3 DEF TypeInv
    <3>5. ExchangeInv(p)'
      BY <1>4, <3>1, <3>2, <3>3, <3>4 DEF ExchangeInv, Kind
    <3> QED BY <3>2, <3>5 DEF HoldInv
  <2> QED BY <1>4, <2>1, <2>2 DEF WriteState
<1>5. CASE Finish(p)
  <2>1. CASE op[p] = "install"
    <3>1. pc'[p] = "untrap"
      BY <1>5, <2>1 DEF Finish, TypeInv, Goto
    <3> QED BY <3>1 DEF LockPoints
  <2>2. CASE op[p] # "install"
    <3>1. pc'[p] = "unlock"
          /\ UNCHANGED <<dir, current, previous, op, target, created, switched, saved, found>>
      BY <1>5, <2>2 DEF Finish, TypeInv, Goto, treeVars, linkVars, localVars
    <3>2. SelectionInv(p)'
      BY <1>1, <3>1 DEF HoldInv, SelectionInv, Good, Usable
    <3>3. InstallInv(p)' /\ ExchangeInv(p)' /\ RetentionInv(p)'
      BY <1>1, <2>2, <3>1 DEF HoldInv, InstallInv, ExchangeInv, RetentionInv
    <3> QED BY <3>2, <3>3 DEF HoldInv
  <2> QED BY <2>1, <2>2
<1> QED BY <1>2, <1>4, <1>5

\* Retention.
LEMMA InventoryKeeps ==
  ASSUME SelectorInv, NEW p \in Processes, Inventory(p) \/ RemovedAll(p) PROVE HoldInv(p)'
<1> USE DEF SelectorInv, InstallPoints, TailPoints, RetentionPoints
<1>1. /\ pc[p] \in {"prune", "remove"} /\ op[p] = "prune" /\ HoldInv(p)
      /\ UNCHANGED <<dir, inode, current, previous, op, target, created, switched, saved, found, reviewed>>
      /\ pc'[p] \in {"remove", "unlock"}
  BY DEF Inventory, RemovedAll, CourseInv, LockPoints, TypeInv, Goto, worldVars, treeVars, linkVars, localVars
<1>2. SelectionInv(p)'
  BY <1>1 DEF HoldInv, SelectionInv, Good, Usable
<1>3. InstallInv(p)' /\ ExchangeInv(p)'
  BY <1>1 DEF HoldInv, InstallInv, ExchangeInv
<1>4. CASE pc'[p] = "unlock"
  BY <1>2, <1>3, <1>4 DEF HoldInv, RetentionInv
<1>5. CASE pc'[p] = "remove"
  <2>1. reviewed[p] = Identity /\ doomed'[p] = Candidates
    BY <1>5 DEF Inventory, RemovedAll, DigestDiffers, TypeInv, Goto
  <2>2. \A r \in Candidates : <<r, inode[r]>> \in reviewed[p].remove /\ r \notin {current, previous}
    BY <2>1 DEF Identity, Candidates
  <2>3. RetentionInv(p)'
    BY <1>1, <2>1, <2>2 DEF HoldInv, RetentionInv, Same
  <2> QED BY <1>2, <1>3, <2>3 DEF HoldInv
<1> QED BY <1>1, <1>4, <1>5

LEMMA RemoveKeeps ==
  ASSUME SelectorInv, NEW p \in Processes, NEW r \in Releases, Remove(p, r) PROVE HoldInv(p)'
<1> USE DEF SelectorInv, InstallPoints, TailPoints, RetentionPoints
<1>1. /\ pc[p] = "remove" /\ op[p] = "prune" /\ HoldInv(p) /\ r \in doomed[p]
      /\ UNCHANGED <<inode, current, previous, op, target, created, switched, saved, found, reviewed>>
      /\ pc'[p] \in {"remove", "unlock"} /\ doomed'[p] = doomed[p] \ {r}
  BY DEF Remove, CourseInv, LockPoints, TypeInv, Goto, linkVars
<1>2. \A s \in Releases \ {r} : dir'[s] = dir[s]
  BY DEF Remove, TypeInv
<1>3. Same(p) /\ SelectionInv(p) /\ r \notin {current, previous}
  BY <1>1 DEF HoldInv, RetentionInv
<1>4. SelectionInv(p)'
  BY <1>1, <1>2, <1>3 DEF SelectionInv, Same, Good, Usable
<1>5. InstallInv(p)' /\ ExchangeInv(p)'
  BY <1>1 DEF HoldInv, InstallInv, ExchangeInv
<1>6. RetentionInv(p)'
  BY <1>1 DEF HoldInv, RetentionInv, Same
<1> QED BY <1>4, <1>5, <1>6 DEF HoldInv

(***************************************************************************)
(* The invariant is inductive.                                             *)
(***************************************************************************)
LEMMA Leaves ==
  ASSUME TypeInv, NEW p \in Processes, CourseInv(p), Act(p), pc[p] \in LockPoints, pc'[p] \notin LockPoints
  PROVE  \/ UNCHANGED World /\ (Finish(p) \/ Unlock(p) \/ OwnFails(p) \/ UnlockFails(p) \/ Kill(p))
         \/ CleanupFails(p)
<1> USE DEF LockPoints, InstallPoints, TailPoints, RetentionPoints, World, treeVars, linkVars
<1>1. Finish(p) \/ Unlock(p) \/ OwnFails(p) \/ UnlockFails(p) \/ Kill(p) => UNCHANGED World
  BY DEF Finish, Unlock, OwnFails, UnlockFails, Kill
<1>2. ~Abort(p) /\ ~Goto(p, TrapOf(p))
  BY DEF Abort, Goto, TrapOf, TypeInv
<1>3. ~CommandFails(p) /\ ~Signalled(p) /\ ~MakeRelease(p) /\ ~Exchange(p) /\ ~Repair(p)
  BY <1>2 DEF CommandFails, Signalled, MakeRelease, Exchange, Repair, Abort, Goto, TypeInv
<1>4. ~WriteState(p, "state", "writeState", "writeBase") /\ ~WriteState(p, "base", "writeBase", "finish")
  BY <1>2 DEF WriteState, Goto, TypeInv
<1>5. ~Stage(p) /\ ~LinkPrevious(p) /\ ~MarkSwitched(p) /\ ~Switch(p) /\ ~ExchangePrevious(p) /\ ~LinkRuntime(p)
  BY DEF Stage, LinkPrevious, MarkSwitched, Switch, ExchangePrevious, LinkRuntime, Goto, TypeInv
<1>6. ~RemoveStaging(p) /\ ~RestoreCurrent(p) /\ ~RestorePrevious(p)
  BY DEF RemoveStaging, RestoreCurrent, RestorePrevious, Goto, TypeInv
<1>7. ~Inventory(p) /\ ~RemovedAll(p) /\ \A r \in Releases : ~Remove(p, r)
  BY DEF Inventory, RemovedAll, Remove, Goto, TypeInv
<1>8. ~Update(p) /\ ~Ask(p) /\ ~Review(p) /\ ~Decide(p) /\ ~Acquire(p) /\ ~Untrap(p) /\ ~Verify(p) /\ ~Reexecute(p)
  BY DEF Update, Ask, Review, Decide, Acquire, Untrap, Verify, Reexecute
<1>9. ~Own(p)
  BY DEF Own, CourseInv, Goto, TypeInv
<1> QED BY <1>1, <1>3, <1>4, <1>5, <1>6, <1>7, <1>8, <1>9 DEF Act, Step, Abandons

\* A cleanup that fails may leave its own release half removed, and nothing else.
LEMMA CleanupLeaves ==
  ASSUME SelectorInv, NEW p \in Processes, CleanupFails(p)
  PROVE  /\ UNCHANGED <<inode, current, previous, active, entry>>
         /\ updateLock = p /\ updateLock' = Dead /\ pc[p] \in LockPoints
         /\ Good(previous)'
<1> USE DEF SelectorInv
<1>1. pc[p] \in {"cleanup", "restore", "restorePrevious"} /\ pc[p] \in LockPoints
  BY DEF CleanupFails, LockPoints
<1>2. updateLock = p /\ SelectionInv(p)
  BY <1>1 DEF ExclusionInv, HoldInv
<1>3. \/ dir' = dir
      \/ created[p] /\ dir' = [dir EXCEPT ![target[p]] = "partial"]
  BY DEF CleanupFails
<1>4. previous' = previous
  BY DEF CleanupFails, linkVars
<1>5. Good(previous)'
  <2>1. Good(previous) /\ (created[p] => target[p] # previous)
    BY <1>2 DEF SelectionInv, RestInv
  <2> QED BY <1>3, <1>4, <2>1 DEF Good, Usable, TypeInv
<1> QED BY <1>1, <1>2, <1>5 DEF CleanupFails, LeftBehind, linkVars

LEMMA OwnKeeps ==
  ASSUME SelectorInv, InstallsUndisturbed, NEW p \in Processes, Act(p), pc'[p] \in LockPoints
  PROVE  HoldInv(p)'
<1> USE DEF SelectorInv
<1>1. CASE pc[p] \notin LockPoints
  <2>1. Acquire(p)
    <3>1. updateLock' = p /\ updateLock # p
      BY <1>1, LockMoves DEF HolderInv, InstallsUndisturbed, Signalled, SignalFault, CourseInv
    <3> QED BY <1>1, <3>1, OutsideLock, SelectorAssumption
  <2> QED BY <2>1, AcquireKeeps
<1>2. CASE pc[p] \in LockPoints
  <2>1. ~Unlock(p) /\ ~Abandons(p)
    BY DEF Unlock, Abandons, OwnFails, CleanupFails, UnlockFails, Kill, Reports, Forget, Goto, TypeInv,
           LockPoints, InstallPoints, TailPoints, RetentionPoints
  <2>2. ~Update(p) /\ ~Ask(p) /\ ~Review(p) /\ ~Decide(p) /\ ~Acquire(p) /\ ~Untrap(p) /\ ~Verify(p) /\ ~Reexecute(p)
    BY <1>2 DEF Update, Ask, Review, Decide, Acquire, Untrap, Verify, Reexecute,
                LockPoints, InstallPoints, TailPoints, RetentionPoints
  <2> QED BY <1>2, <2>1, <2>2, FaultsKeep, OwnStepKeeps, MakeKeeps, StageKeeps, LinkKeeps, SwitchKeeps, CleanupKeeps,
             RestoreKeeps, ExchangeKeeps, RepairKeeps, TailKeeps, InventoryKeeps, RemoveKeeps DEF Act, Step
<1> QED BY <1>1, <1>2

LEMMA RestStays ==
  ASSUME SelectorInv, InstallsUndisturbed, NEW p \in Processes, Act(p) PROVE RestInv'
<1> USE DEF SelectorInv
<1>1. CASE pc[p] \notin LockPoints
  <2>1. UNCHANGED World /\ (updateLock' = NoProcess => updateLock = NoProcess)
    BY <1>1, OutsideLock, SelectorAssumption DEF World, Kill, LeftBehind
  <2> QED BY <2>1 DEF RestInv, Good, Usable, World
<1>2. CASE pc'[p] \in LockPoints
  <2>1. SelectionInv(p)' /\ updateLock' = p
    <3>1. ExclusionInv'
      BY ExclusionStays, NextActs
    <3> QED BY <1>2, <3>1, OwnKeeps DEF HoldInv, ExclusionInv
  <2> QED BY <2>1, SelectorAssumption DEF RestInv, SelectionInv
<1>3. CASE pc[p] \in LockPoints /\ pc'[p] \notin LockPoints
  <2>1. CASE CleanupFails(p)
    <3>1. Good(previous)' /\ updateLock' # NoProcess
      BY <2>1, CleanupLeaves, SelectorAssumption
    <3> QED BY <3>1 DEF RestInv
  <2>2. CASE UNCHANGED World /\ (Finish(p) \/ Unlock(p) \/ OwnFails(p) \/ UnlockFails(p) \/ Kill(p))
    <3>1. SelectionInv(p)
      BY <1>3 DEF HoldInv
    <3>2. ASSUME updateLock' = NoProcess PROVE pc[p] # "restore"
      <4>1. ~Kill(p)
        BY <1>3, <3>2, SelectorAssumption DEF Kill, LeftBehind, ExclusionInv
      <4> QED BY <2>2, <4>1 DEF Finish, Unlock, OwnFails, UnlockFails
    <3>3. Good(previous) /\ (updateLock' = NoProcess => Good(current))
      BY <3>1, <3>2 DEF SelectionInv, Good
    <3> QED BY <2>2, <3>3 DEF RestInv, Good, Usable, World
  <2> QED BY <1>3, <2>1, <2>2, Leaves
<1> QED BY <1>1, <1>2, <1>3

LEMMA SelectorStep == ASSUME InstallsUndisturbed PROVE SelectorInv /\ [Next]_vars => SelectorInv'
<1> SUFFICES ASSUME SelectorInv, [Next]_vars PROVE SelectorInv'
  OBVIOUS
<1> USE DEF SelectorInv
<1>1. TypeInv' /\ HolderInv' /\ ExclusionInv' /\ \A p \in Processes : CourseInv(p)'
  BY TypesStay, HolderStays, ExclusionStays, CourseStays
<1>2. ASSUME NEW q \in Processes, Act(q)
      PROVE  RestInv' /\ \A p \in Processes : pc'[p] \in LockPoints => HoldInv(p)'
  BY <1>2, RestStays, OwnKeeps, OthersKeep
<1>3. CASE Launch \/ (\E r \in Releases : Exits(r)) \/ UNCHANGED vars
  <2>1. UNCHANGED World /\ UNCHANGED <<updateLock, pc>> /\ \A p \in Processes : Untouched(p)
    BY <1>3 DEF Launch, Exits, vars, World, treeVars, linkVars, localVars, Untouched
  <2>2. RestInv'
    BY <2>1 DEF RestInv, Good, Usable, World
  <2>3. ASSUME NEW p \in Processes, pc'[p] \in LockPoints PROVE HoldInv(p)'
    <3>1. pc[p] \in LockPoints
      BY <2>1, <2>3
    <3> QED BY <2>1, <3>1, HoldSame
  <2> QED BY <1>1, <2>2, <2>3
<1> QED BY <1>1, <1>2, <1>3, NextActs

LEMMA SelectorAlways == ASSUME InstallsUndisturbed PROVE Spec => []SelectorInv
<1>1. Init => SelectorInv
  <2> SUFFICES ASSUME Init PROVE SelectorInv
    OBVIOUS
  <2>1. \A p \in Processes : pc[p] = "idle" /\ op[p] = "none" /\ ~created[p] /\ ~switched[p]
    BY DEF Init
  <2>2. \A p \in Processes : pc[p] \notin LockPoints /\ CourseInv(p)
    BY <2>1 DEF LockPoints, InstallPoints, TailPoints, RetentionPoints, CourseInv
  <2>3. RestInv
    BY DEF Init, RestInv, Good, Usable
  <2>4. HolderInv /\ ExclusionInv
    BY <2>2, SelectorAssumption DEF Init, HolderInv, ExclusionInv
  <2> QED BY <2>2, <2>3, <2>4, StartTypes DEF SelectorInv
<1> QED BY <1>1, SelectorStep, PTL DEF Spec

(***************************************************************************)
(* The theorems.                                                           *)
(***************************************************************************)
\* Whatever fails, nobody works on the installation without update.lock, and the
\* lock's owner is never an invocation that is over: one that ends releases the
\* lock or leaves it behind for everybody.
THEOREM LockIsKept == ASSUME InstallsUndisturbed PROVE Spec => []LockMatchesWork
<1>1. SelectorInv => LockMatchesWork
  BY DEF SelectorInv, HolderInv, ExclusionInv, LockMatchesWork
<1> QED BY <1>1, SelectorAlways, PTL

\* Both links select complete releases, but for a cleanup between the removal
\* of its release and the restoration of current, or one that died or failed there.
THEOREM SelectionStaysUsable == ASSUME InstallsUndisturbed PROVE Spec => []SelectionUsable
<1>1. SelectorInv => SelectionUsable
  <2> SUFFICES ASSUME SelectorInv PROVE SelectionUsable
    OBVIOUS
  <2>1. CASE updateLock \in Processes
    <3>1. pc[updateLock] \in LockPoints /\ SelectionInv(updateLock)
      BY <2>1 DEF SelectorInv, HolderInv, HoldInv
    <3> QED BY <2>1, <3>1 DEF SelectorInv, RestInv, SelectionInv, SelectionUsable, Good
  <2>2. CASE updateLock \in {NoProcess, Dead}
    BY <2>2 DEF SelectorInv, RestInv, SelectionUsable, Good
  <2> QED BY <2>1, <2>2 DEF SelectorInv, TypeInv
<1> QED BY <1>1, SelectorAlways, PTL

\* A failed install has put both links back, wherever it failed (cleanup).
THEOREM FailureRestores == ASSUME InstallsUndisturbed PROVE Spec => []FailedInstallRestores
<1>1. SelectorInv => FailedInstallRestores
  BY DEF SelectorInv, HoldInv, InstallInv, Same, FailedInstallRestores, LockPoints
<1> QED BY <1>1, SelectorAlways, PTL

\* An install, rollback or repair that gets to its end has moved the links as it
\* should; both documents and the entry point agree with current.
THEOREM SuccessesAreConsistent == ASSUME InstallsUndisturbed PROVE Spec => []SuccessIsConsistent
<1>1. SelectorInv => SuccessIsConsistent
  <2> SUFFICES ASSUME SelectorInv, NEW p \in Processes, pc[p] = "finish"
               PROVE  /\ active = [f \in {"state", "base"} |-> current]
                      /\ entry = Kind(current)
                      /\ CASE op[p] = "install"  -> /\ current = target[p]
                                                    /\ previous = IF found[p].current = NoRelease
                                                                  THEN found[p].previous
                                                                  ELSE found[p].current
                           [] op[p] = "rollback" -> /\ current = found[p].previous
                                                    /\ previous = found[p].current
                           [] op[p] = "repair"   -> /\ current = found[p].current
                                                    /\ previous = found[p].previous
    BY DEF SuccessIsConsistent
  <2>1. ExchangeInv(p) /\ op[p] \in {"install", "rollback", "repair"}
    BY DEF SelectorInv, HoldInv, CourseInv, LockPoints, TailPoints
  <2>2. Moved(p) /\ entry = Kind(current) /\ active["state"] = current /\ active["base"] = current
    BY <2>1 DEF ExchangeInv, TailPoints
  <2>3. active = [f \in {"state", "base"} |-> current]
    BY <2>2 DEF SelectorInv, TypeInv
  <2> QED BY <2>1, <2>2, <2>3 DEF Moved, Linked, Same
<1> QED BY <1>1, SelectorAlways, PTL

\* Retention removes only directories the reviewed plan named, that no link
\* selects and nothing runs from (maintain_releases --apply).
THEOREM RemovalsWereReviewed == ASSUME InstallsUndisturbed PROVE Spec => RemovalWasReviewed
<1>1. ASSUME SelectorInv, [Next]_vars, NEW p \in Processes, NEW r \in Releases,
             pc[p] = "remove", r \in doomed[p], dir'[r] # dir[r]
      PROVE  <<r, inode[r]>> \in reviewed[p].remove /\ r \notin {current, previous} \cup inUse
  <2> USE <1>1 DEF SelectorInv, LockPoints, RetentionPoints
  <2>1. <<r, inode[r]>> \in reviewed[p].remove /\ r \notin {current, previous}
    BY DEF HoldInv, RetentionInv
  <2>2. PICK q \in Processes : Act(q)
    BY NextActs DEF Launch, Exits, vars, treeVars
  <2>3. q = p
    <3>1. pc[q] \in LockPoints
      BY <2>2, OutsideLock
    <3> QED BY <3>1 DEF ExclusionInv
  <2>4. PICK s \in Releases : Remove(p, s)
    <3>1. ~Abandons(p)
      <4>1. ~CleanupFails(p) /\ ~OwnFails(p) /\ ~UnlockFails(p)
        BY DEF CleanupFails, OwnFails, UnlockFails
      <4> QED BY <4>1 DEF Abandons, Kill, treeVars
    <3> QED BY <2>2, <2>3, <3>1 DEF Act, Step, Update, Ask, Review, CommandFails, Signalled, Decide, Acquire,
           Own, MakeRelease, Stage, LinkPrevious, MarkSwitched, Switch, Exchange, ExchangePrevious, Repair,
           LinkRuntime, WriteState, Finish, Untrap, Verify, Reexecute, RemoveStaging, RestoreCurrent,
           RestorePrevious, Unlock, Inventory, RemovedAll, worldVars, treeVars
  <2>5. s = r /\ Unreferenced(r)
    BY <2>4 DEF Remove, TypeInv
  <2> QED BY <2>1, <2>5 DEF Unreferenced
<1>2. SelectorInv /\ [Next]_vars =>
        [\A p \in Processes, r \in Releases :
            (pc[p] = "remove" /\ r \in doomed[p] /\ dir'[r] # dir[r]) =>
                /\ <<r, inode[r]>> \in reviewed[p].remove
                /\ r \notin {current, previous} \cup inUse]_vars
  BY <1>1
<1> QED BY <1>2, SelectorAlways, PTL DEF Spec, RemovalWasReviewed

(***************************************************************************)
(* The contract of one invocation.                                         *)
(***************************************************************************)
\* Where the links may be, given the task, and what an end without failure means.
MadePoints      == {"stage", "linkPrevious", "mark", "switch"} \cup TailPoints
ExchangedPoints == {"exchange"} \cup TailPoints

Halfway(p) == current = found[p].current /\ previous = Linked(p)

InstallPasses(p) ==
  /\ pc[p] \in MadePoints => created[p]
  /\ pc[p] = "unlock" => failed[p]
  /\ \/ Same(p)
     \/ Halfway(p)
     \/ current = target[p] /\ previous = Linked(p) /\ created[p]

FoundBoth(p) == NoRelease \notin {found[p].current, found[p].previous}

RollbackPasses(p) ==
  /\ pc[p] \in ExchangedPoints => FoundBoth(p)
  /\ \/ Same(p)
     \/ FoundBoth(p) /\ current = found[p].previous
        /\ previous \in {found[p].previous, found[p].current}
  /\ pc[p] = "unlock" /\ ~failed[p] =>
        FoundBoth(p) /\ current = found[p].previous /\ previous = found[p].current

Passing(p) ==
  /\ op[p] \in {"install", "rollback", "repair", "prune"}
  /\ op[p] = "install" => InstallPasses(p)
  /\ op[p] = "rollback" => RollbackPasses(p)
  /\ op[p] \in {"repair", "prune"} => Same(p)

PassInv == \A p \in Processes : pc[p] \in LockPoints => Passing(p)

\* A step that changes neither links nor what was found, but perhaps the point.
Stays(p) ==
  /\ UNCHANGED <<current, previous>>
  /\ op'[p] = op[p] /\ target'[p] = target[p] /\ created'[p] = created[p] /\ found'[p] = found[p]

LEMMA StaysPassing ==
  ASSUME NEW p \in Processes, Passing(p), Stays(p),
         op[p] = "install" /\ pc'[p] \in MadePoints => created[p],
         op[p] = "install" /\ pc'[p] = "unlock" => failed'[p],
         op[p] = "rollback" /\ pc'[p] \in ExchangedPoints => FoundBoth(p),
         op[p] = "rollback" /\ pc'[p] = "unlock" /\ ~failed'[p] =>
             FoundBoth(p) /\ current = found[p].previous /\ previous = found[p].current
  PROVE  Passing(p)'
<1>1. Same(p)' <=> Same(p)
  BY DEF Same, Stays
<1>2. (Linked(p))' = Linked(p) /\ (FoundBoth(p)' <=> FoundBoth(p))
  BY DEF Linked, FoundBoth, Stays
<1>3. op[p] = "install" => InstallPasses(p)'
  BY <1>1, <1>2 DEF Passing, InstallPasses, Halfway, Stays
<1>4. op[p] = "rollback" => RollbackPasses(p)'
  BY <1>1, <1>2 DEF Passing, RollbackPasses, Stays
<1> QED BY <1>1, <1>3, <1>4 DEF Passing, Stays

LEMMA TrapPasses ==
  ASSUME NEW p \in Processes, Passing(p), Trapped(p) PROVE Passing(p)'
<1>1. Stays(p)
  BY DEF Trapped, Stays, World
<1>2. pc'[p] = (IF op[p] = "install" THEN "cleanup" ELSE "unlock") /\ failed'[p]
  BY DEF Trapped, TrapOf
<1> QED BY <1>1, <1>2, StaysPassing DEF MadePoints, ExchangedPoints, TailPoints

LEMMA AcquirePasses ==
  ASSUME SelectorInv, NEW p \in Processes, Acquire(p), pc'[p] \in LockPoints PROVE Passing(p)'
<1> USE DEF SelectorInv, TypeInv
<1>1. CourseInv(p) /\ pc[p] = "acquire"
  BY DEF Acquire
<1>2. LockFree
  <2> SUFFICES ASSUME ~LockFree PROVE FALSE
    OBVIOUS
  <2> QED BY DEF Acquire, Forget, Goto, LockPoints, InstallPoints, TailPoints, RetentionPoints
<1>3. /\ pc'[p] = "own" /\ op'[p] = op[p] /\ op[p] \in {"install", "rollback", "repair", "prune"}
      /\ found'[p] = [current |-> current, previous |-> previous]
      /\ current' = current /\ previous' = previous
  BY <1>1, <1>2 DEF Acquire, Goto, CourseInv, linkVars
<1>4. Same(p)'
  BY <1>3 DEF Same
<1>5. InstallPasses(p)' /\ RollbackPasses(p)'
  BY <1>3, <1>4 DEF InstallPasses, RollbackPasses, MadePoints, ExchangedPoints, TailPoints
<1> QED BY <1>3, <1>4, <1>5 DEF Passing

LEMMA OwnPassing ==
  ASSUME SelectorInv, NEW p \in Processes, Passing(p), Own(p) PROVE Passing(p)'
<1>1. Stays(p) /\ pc'[p] = op[p] /\ op[p] \in {"install", "rollback", "repair", "prune"}
  BY DEF SelectorInv, TypeInv, CourseInv, Own, Goto, Stays, worldVars, linkVars, localVars
<1> QED BY <1>1, StaysPassing DEF MadePoints, ExchangedPoints, TailPoints

\* install and its cleanup.
LEMMA InstallPassing ==
  ASSUME SelectorInv, NEW p \in Processes, Passing(p), HoldInv(p)', CourseInv(p)',
         \/ MakeRelease(p) \/ Stage(p) \/ LinkPrevious(p) \/ MarkSwitched(p) \/ Switch(p)
         \/ RemoveStaging(p) \/ RestoreCurrent(p) \/ RestorePrevious(p)
  PROVE  Passing(p)'
<1> USE DEF SelectorInv, MadePoints, ExchangedPoints, TailPoints
<1>1. op[p] = "install" /\ HoldInv(p)
  BY DEF MakeRelease, Stage, LinkPrevious, MarkSwitched, Switch, RemoveStaging, RestoreCurrent,
         RestorePrevious, CourseInv, InstallPoints, LockPoints
<1>2. InstallPasses(p) /\ InstallInv(p) /\ InstallInv(p)'
  BY <1>1 DEF Passing, HoldInv
<1>3. CASE MakeRelease(p)
  <2>1. CASE Abort(p) /\ UNCHANGED <<treeVars, created>>
    <3>1. Trapped(p)
      BY <1>3, <2>1, AbortTraps DEF MakeRelease, Abort, World, treeVars, linkVars
    <3> QED BY <3>1, TrapPasses
  <2>2. CASE dir[target[p]] = "absent"
    <3>1. pc'[p] = "stage" /\ created'[p] /\ op'[p] = "install"
      BY <1>1, <1>3, <2>2 DEF MakeRelease, TypeInv, Goto
    <3>2. Same(p)'
      BY <1>2, <3>1 DEF InstallInv
    <3> QED BY <3>1, <3>2 DEF Passing, InstallPasses
  <2> QED BY <1>3, <2>1, <2>2 DEF MakeRelease
<1>4. CASE Stage(p)
  <2>1. Stays(p) /\ pc[p] = "stage" /\ pc'[p] = "linkPrevious"
    BY <1>4 DEF Stage, Stays, linkVars, localVars, TypeInv, Goto
  <2> QED BY <1>1, <1>2, <2>1, StaysPassing DEF InstallPasses
<1>5. CASE LinkPrevious(p) \/ MarkSwitched(p)
  <2>1. /\ pc[p] \in {"linkPrevious", "mark"} /\ pc'[p] \in {"mark", "switch"}
        /\ op'[p] = op[p] /\ created'[p] = created[p]
    BY <1>5 DEF LinkPrevious, MarkSwitched, TypeInv, Goto
  <2>2. Halfway(p)'
    BY <1>2, <2>1 DEF InstallInv, Halfway
  <2> QED BY <1>1, <1>2, <2>1, <2>2 DEF Passing, InstallPasses
<1>6. CASE Switch(p)
  <2>1. /\ pc[p] = "switch" /\ pc'[p] = "wrappers" /\ current' = target[p] /\ previous' = previous
        /\ op'[p] = op[p] /\ created'[p] = created[p] /\ target'[p] = target[p] /\ found'[p] = found[p]
    BY <1>6 DEF Switch, TypeInv, Goto, localVars
  <2>2. previous = Linked(p)
    BY <1>2, <2>1 DEF InstallInv
  <2> QED BY <1>1, <1>2, <2>1, <2>2 DEF Passing, InstallPasses, Linked
<1>7. CASE RemoveStaging(p)
  <2>1. Stays(p) /\ pc'[p] \in {"restore", "unlock"} /\ failed'[p] = failed[p] /\ pc[p] = "cleanup"
    BY <1>7 DEF RemoveStaging, Stays, linkVars, localVars, TypeInv, Goto
  <2>2. failed[p]
    BY <1>2, <2>1 DEF InstallInv
  <2> QED BY <1>1, <2>1, <2>2, StaysPassing
<1>8. CASE RestoreCurrent(p)
  <2>1. /\ pc'[p] = "restorePrevious" /\ previous' = previous
        /\ op'[p] = op[p] /\ found'[p] = found[p]
    BY <1>8 DEF RestoreCurrent, TypeInv, Goto, localVars
  <2>2. current' = found'[p].current
    BY <1>2, <2>1 DEF InstallInv
  <2>3. Same(p)' \/ Halfway(p)'
    BY <1>2, <2>1, <2>2 DEF InstallPasses, Same, Halfway, Linked
  <2> QED BY <1>1, <2>1, <2>3 DEF Passing, InstallPasses
<1>9. CASE RestorePrevious(p)
  <2>1. pc[p] = "restorePrevious" /\ pc'[p] = "unlock" /\ op'[p] = op[p] /\ failed'[p] = failed[p]
    BY <1>9 DEF RestorePrevious, TypeInv, Goto, localVars
  <2>2. Same(p)' /\ failed[p]
    BY <1>1, <1>2, <2>1 DEF InstallInv
  <2> QED BY <1>1, <2>1, <2>2 DEF Passing, InstallPasses
<1> QED BY <1>3, <1>4, <1>5, <1>6, <1>7, <1>8, <1>9

\* A rollback, a repair and retention, up to the tail.
LEMMA OtherPassing ==
  ASSUME SelectorInv, NEW p \in Processes, Passing(p),
         \/ Exchange(p) \/ ExchangePrevious(p) \/ Repair(p)
         \/ Inventory(p) \/ RemovedAll(p) \/ \E r \in Releases : Remove(p, r)
  PROVE  Passing(p)'
<1> USE DEF SelectorInv, MadePoints, ExchangedPoints, TailPoints
<1>1. CASE Exchange(p)
  <2>1. pc[p] = "rollback" /\ op[p] = "rollback" /\ Same(p) /\ RollbackPasses(p)
    BY <1>1 DEF Exchange, CourseInv, HoldInv, ExchangeInv, LockPoints, Passing
  <2>2. CASE Abort(p) /\ UNCHANGED <<saved, current>>
    <3>1. Trapped(p)
      BY <1>1, <2>2, AbortTraps DEF Exchange, Abort, World, treeVars, linkVars
    <3> QED BY <3>1, TrapPasses
  <2>3. CASE current # NoRelease /\ Usable(previous)
    <3>1. /\ pc'[p] = "exchange" /\ current' = previous /\ previous' = previous
          /\ op'[p] = op[p] /\ found'[p] = found[p]
      BY <1>1, <2>3 DEF Exchange, TypeInv, Goto
    <3>2. FoundBoth(p)
      BY <2>1, <2>3, SelectorAssumption DEF FoundBoth, Same, Usable
    <3> QED BY <2>1, <3>1, <3>2 DEF Passing, RollbackPasses, FoundBoth, Same
  <2> QED BY <1>1, <2>2, <2>3 DEF Exchange
<1>2. CASE ExchangePrevious(p)
  <2>1. /\ pc[p] = "exchange" /\ pc'[p] = "wrappers" /\ current' = current
        /\ previous' = saved[p].current /\ op'[p] = op[p] /\ found'[p] = found[p]
    BY <1>2 DEF ExchangePrevious, TypeInv, Goto, localVars
  <2>2. op[p] = "rollback" /\ FoundBoth(p) /\ current = found[p].previous /\ saved[p] = found[p]
    BY <2>1 DEF CourseInv, HoldInv, ExchangeInv, LockPoints, Passing, RollbackPasses
  <2> QED BY <2>1, <2>2 DEF Passing, RollbackPasses, FoundBoth
<1>3. CASE Repair(p)
  <2>1. op[p] = "repair" /\ Stays(p)
    BY <1>3 DEF Repair, CourseInv, Stays, worldVars, linkVars
  <2> QED BY <2>1, StaysPassing
<1>4. CASE Inventory(p) \/ RemovedAll(p) \/ \E r \in Releases : Remove(p, r)
  <2>1. op[p] = "prune" /\ Stays(p)
    BY <1>4 DEF Inventory, RemovedAll, Remove, CourseInv, RetentionPoints, Stays, worldVars, linkVars, localVars
  <2> QED BY <2>1, StaysPassing
<1> QED BY <1>1, <1>2, <1>3, <1>4

LEMMA TailPassing ==
  ASSUME SelectorInv, NEW p \in Processes, Passing(p), pc'[p] \in LockPoints,
         \/ LinkRuntime(p) \/ WriteState(p, "state", "writeState", "writeBase")
         \/ WriteState(p, "base", "writeBase", "finish") \/ Finish(p)
  PROVE  Passing(p)'
<1> USE DEF SelectorInv, MadePoints, ExchangedPoints, TailPoints
<1>1. pc[p] \in TailPoints /\ Moved(p) /\ op[p] \in {"install", "rollback", "repair"}
  BY DEF LinkRuntime, WriteState, Finish, HoldInv, ExchangeInv, LockPoints, CourseInv
<1>2. /\ op[p] = "install" => created[p]
      /\ op[p] = "rollback" => FoundBoth(p) /\ current = found[p].previous /\ previous = found[p].current
  BY <1>1 DEF Passing, InstallPasses, RollbackPasses, Moved
<1>3. CASE Finish(p)
  <2>1. Stays(p) /\ (op[p] = "install" => pc'[p] = "untrap")
    BY <1>3 DEF Finish, Stays, linkVars, localVars, TypeInv, Goto
  <2>2. op[p] # "install"
    BY <2>1 DEF LockPoints, InstallPoints, RetentionPoints
  <2> QED BY <1>2, <2>1, <2>2, StaysPassing
<1>4. CASE LinkRuntime(p)
  <2>1. Stays(p) /\ pc'[p] = "writeState"
    BY <1>4 DEF LinkRuntime, Stays, linkVars, localVars, TypeInv, Goto
  <2> QED BY <1>2, <2>1, StaysPassing
<1>5. ASSUME NEW f, NEW from \in TailPoints, NEW to \in TailPoints, WriteState(p, f, from, to)
      PROVE  Passing(p)'
  <2>1. CASE Abort(p) /\ UNCHANGED active
    <3>1. Trapped(p)
      BY <1>5, <2>1, AbortTraps DEF WriteState, Abort, World, treeVars, linkVars
    <3> QED BY <3>1, TrapPasses
  <2>2. CASE Goto(p, to)
    <3>1. Stays(p) /\ pc'[p] = to
      BY <1>5, <2>2 DEF WriteState, Stays, linkVars, TypeInv, Goto
    <3> QED BY <1>2, <3>1, StaysPassing
  <2> QED BY <1>5, <2>1, <2>2 DEF WriteState
<1> QED BY <1>3, <1>4, <1>5

LEMMA OwnPasses ==
  ASSUME SelectorInv, PassInv, InstallsUndisturbed, NEW p \in Processes, Act(p), pc'[p] \in LockPoints
  PROVE  Passing(p)'
<1> USE DEF SelectorInv
<1>1. CourseInv(p)' /\ HoldInv(p)'
  BY CourseStays, OwnKeeps, NextActs
<1>2. CASE pc[p] \notin LockPoints
  <2>1. updateLock' = p /\ updateLock # p
    BY <1>2, LockMoves DEF HolderInv, InstallsUndisturbed, Signalled, SignalFault, CourseInv
  <2>2. Acquire(p)
    BY <1>2, <2>1, OutsideLock, SelectorAssumption
  <2> QED BY <2>2, AcquirePasses
<1>3. CASE pc[p] \in LockPoints
  <2>1. Passing(p)
    BY <1>3 DEF PassInv
  <2>2. CASE CommandFails(p) \/ Signalled(p)
    <3>1. op[p] # "install" \/ ~Signalled(p)
      BY DEF Signalled, SignalFault, InstallsUndisturbed
    <3>2. Trapped(p)
      BY <2>2, <3>1, AbortTraps DEF CommandFails, Signalled, Abort, World, worldVars, treeVars, linkVars
    <3> QED BY <2>1, <3>2, TrapPasses
  <2>3. ~Unlock(p) /\ ~Abandons(p)
    BY DEF Unlock, Abandons, OwnFails, CleanupFails, UnlockFails, Kill, Reports, Forget, Goto, TypeInv,
           LockPoints, InstallPoints, TailPoints, RetentionPoints
  <2>4. ~Update(p) /\ ~Ask(p) /\ ~Review(p) /\ ~Decide(p) /\ ~Acquire(p) /\ ~Untrap(p) /\ ~Verify(p) /\ ~Reexecute(p)
    BY <1>3 DEF Update, Ask, Review, Decide, Acquire, Untrap, Verify, Reexecute,
                LockPoints, InstallPoints, TailPoints, RetentionPoints
  <2> HIDE DEF SelectorInv
  <2> QED BY <1>1, <2>1, <2>2, <2>3, <2>4, OwnPassing, InstallPassing, OtherPassing, TailPassing DEF Act, Step
<1> QED BY <1>2, <1>3

LEMMA PassStep == ASSUME InstallsUndisturbed, SelectorInv, PassInv, [Next]_vars PROVE PassInv'
<1>1. ASSUME NEW p \in Processes, UNCHANGED World, Untouched(p), pc[p] \in LockPoints PROVE Passing(p)'
  <2>1. Passing(p) /\ Stays(p) /\ pc'[p] = pc[p] /\ failed'[p] = failed[p]
    BY <1>1 DEF PassInv, Stays, Untouched, World
  <2> QED BY <2>1, StaysPassing DEF Passing, InstallPasses, RollbackPasses
<1>2. ASSUME NEW q \in Processes, Act(q), NEW p \in Processes, pc'[p] \in LockPoints PROVE Passing(p)'
  <2>1. CASE p = q
    BY <1>2, <2>1, OwnPasses
  <2>2. CASE p # q
    <3>1. UNCHANGED World /\ Untouched(p)
      BY <1>2, <2>2, OthersKeep, OthersUntouched DEF SelectorInv
    <3>2. pc[p] \in LockPoints
      BY <1>2, <3>1 DEF Untouched
    <3> QED BY <1>1, <3>1, <3>2
  <2> QED BY <2>1, <2>2
<1>3. ASSUME Launch \/ (\E r \in Releases : Exits(r)) \/ UNCHANGED vars, NEW p \in Processes,
             pc'[p] \in LockPoints
      PROVE  Passing(p)'
  <2>1. UNCHANGED World /\ UNCHANGED pc /\ Untouched(p)
    BY <1>3 DEF Launch, Exits, vars, World, treeVars, linkVars, localVars, Untouched
  <2> QED BY <1>1, <1>3, <2>1
<1> QED BY <1>2, <1>3, NextActs DEF PassInv

\* The links under the lock, as the contract counts them.
LEMMA ContractWords ==
  ASSUME TypeInv, NEW p \in Processes, ContractLinks = found[p]
  PROVE  /\ Contract!Linked = [current |-> found[p].current, previous |-> Linked(p)]
         /\ Contract!HalfSwapped = [current |-> found[p].previous, previous |-> found[p].previous]
         /\ Contract!Swapped = [current |-> found[p].previous, previous |-> found[p].current]
         /\ Contract!Exchangeable <=> FoundBoth(p)
         /\ \A r \in Releases \ {found[p].current, found[p].previous} :
                [current |-> r, previous |-> Linked(p)] \in Contract!Installed
         /\ found[p] = [current |-> found[p].current, previous |-> found[p].previous]
         /\ [current |-> current, previous |-> previous] \in Contract!Links
<1>1. found[p] = [current |-> found[p].current, previous |-> found[p].previous]
  BY DEF TypeInv, Links
<1>2. Contract!Linked = [current |-> found[p].current, previous |-> Linked(p)]
  BY <1>1 DEF Contract!Linked, Linked
<1>3. \A r \in Releases \ {found[p].current, found[p].previous} :
         [current |-> r, previous |-> Linked(p)] \in Contract!Installed
  BY <1>2 DEF Contract!Installed
<1>4. Contract!HalfSwapped = [current |-> found[p].previous, previous |-> found[p].previous]
  BY <1>1 DEF Contract!HalfSwapped
<1>5. [current |-> current, previous |-> previous] \in Contract!Links
  BY DEF TypeInv, Link, Contract!Links, Contract!Link
<1> QED BY <1>1, <1>2, <1>3, <1>4, <1>5 DEF Contract!Swapped, Contract!Exchangeable, FoundBoth

\* Whoever stops there, by failing or dying, leaves the links where its task may.
LEMMA EndsMidway ==
  ASSUME SelectorInv, NEW p \in Processes, pc[p] \in LockPoints, Passing(p),
         ContractTask = op[p], ContractLinks = found[p]
  PROVE  /\ [current |-> current, previous |-> previous] \in Contract!LeftBehind
         /\ op[p] # "install" \/ Same(p) =>
              [current |-> current, previous |-> previous] \in Contract!LeftByFailure
<1> DEFINE now == [current |-> current, previous |-> previous]
<1> USE ContractWords DEF SelectorInv
<1>1. now \in Contract!Links
  OBVIOUS
<1>2. Same(p) => now = found[p]
  BY DEF Same
<1>3. op[p] \in {"repair", "prune"} \/ Same(p) => now \in Contract!LeftByFailure
  BY <1>1, <1>2 DEF Passing, Contract!LeftByFailure
<1>4. op[p] = "rollback" => now \in Contract!LeftByFailure
  BY <1>1, <1>3 DEF Passing, RollbackPasses, Contract!LeftByFailure
<1>5. ASSUME op[p] = "install" PROVE now \in Contract!LeftBehind
  <2>1. CASE Same(p)
    BY <1>1, <1>3, <2>1 DEF Contract!LeftBehind
  <2>2. CASE Halfway(p)
    BY <1>1, <1>5, <2>2 DEF Halfway, Contract!LeftBehind
  <2>3. CASE current = target[p] /\ previous = Linked(p) /\ created[p]
    <3>1. target[p] \in Releases \ {found[p].current, found[p].previous}
      BY <1>5, <2>3 DEF HoldInv, SelectionInv, CourseInv
    <3> QED BY <1>1, <1>5, <2>3, <3>1 DEF Contract!LeftBehind
  <2> QED BY <1>5, <2>1, <2>2, <2>3 DEF Passing, InstallPasses
<1> QED BY <1>1, <1>3, <1>4, <1>5 DEF Passing, Contract!LeftBehind

\* The contract's variables while p has the lock, and while nobody has it.
LEMMA ContractOf ==
  ASSUME NEW p \in Processes
  PROVE  /\ updateLock = p =>
              /\ ContractStage = (IF Failing(p) THEN "failed" ELSE "working")
              /\ ContractTask = op[p]
              /\ ContractLinks = IF Failing(p) THEN [current |-> current, previous |-> previous]
                                              ELSE found[p]
         /\ updateLock \in {NoProcess, Dead} =>
              /\ ContractStage = (IF updateLock = Dead THEN "left" ELSE "free")
              /\ ContractTask = "none"
              /\ ContractLinks = [current |-> current, previous |-> previous]
  BY SelectorAssumption DEF ContractStage, ContractTask, ContractLinks, Behind

\* A step of somebody who does not have the lock and does not get it.
LEMMA ContractBlind ==
  ASSUME TypeInv, UNCHANGED World, UNCHANGED updateLock,
         \A p \in Processes : updateLock = p => Untouched(p)
  PROVE  UNCHANGED <<ContractStage, ContractTask, ContractLinks>>
<1>1. CASE updateLock \in Processes
  <2> DEFINE p == updateLock
  <2>1. Untouched(p) /\ p \in Processes /\ updateLock' = p
    BY <1>1
  <2>2. Failing(p)' <=> Failing(p)
    BY <2>1 DEF Failing, Untouched
  <2> QED BY <2>1, <2>2 DEF ContractStage, ContractTask, ContractLinks, Behind, Failing, World, Untouched
<1>2. CASE updateLock \notin Processes
  BY <1>2 DEF ContractStage, ContractTask, ContractLinks, Behind, World
<1> QED BY <1>1, <1>2

\* An invocation gets the lock.
LEMMA ContractTakes ==
  ASSUME SelectorInv, NEW q \in Processes, Acquire(q), updateLock' = q, updateLock = NoProcess
  PROVE  Contract!Next
<1> USE DEF SelectorInv, TypeInv
<1>1. /\ pc[q] = "acquire" /\ pc'[q] = "own" /\ op'[q] = op[q] /\ current' = current /\ previous' = previous
      /\ found'[q] = [current |-> current, previous |-> previous]
  BY DEF Acquire, LockFree, Goto, linkVars
<1>2. op[q] \in {"install", "rollback", "repair", "prune"}
  BY <1>1 DEF CourseInv
<1>3. ContractStage = "free" /\ ContractTask = "none" /\ ContractLinks = [current |-> current, previous |-> previous]
  BY ContractOf, SelectorAssumption
<1>4. ~Failing(q)'
  BY <1>1, <1>2 DEF Failing
<1>5. ContractStage' = "working" /\ ContractTask' = op[q] /\ ContractLinks' = found'[q]
  BY <1>1, <1>4, SelectorAssumption DEF ContractStage, ContractTask, ContractLinks, Behind
<1> QED BY <1>1, <1>2, <1>3, <1>5 DEF Contract!Next, Contract!Take, Contract!Tasks

\* The owner goes on behind the lock: nothing to be seen, unless it has failed.
LEMMA ContractWorks ==
  ASSUME SelectorInv, SelectorInv', PassInv, PassInv', NEW q \in Processes, Act(q),
         updateLock = q, pc[q] \in LockPoints, pc'[q] \in LockPoints
  PROVE  Contract!Next \/ UNCHANGED <<ContractStage, ContractTask, ContractLinks>>
<1> USE DEF SelectorInv
<1>1. updateLock' = q
  BY LockMoves DEF ExclusionInv
<1>2. pc[q] # "unlock"
  <2> SUFFICES ASSUME pc[q] = "unlock" PROVE FALSE
    OBVIOUS
  <2>1. ~Abandons(q)
    BY DEF Abandons, OwnFails, CleanupFails, UnlockFails, Kill, Forget, Reports, Goto, TypeInv,
           LockPoints, InstallPoints, TailPoints, RetentionPoints
  <2> QED BY <2>1 DEF Act, Step, Update, Ask, Review, CommandFails, Signalled, Decide, Acquire, Own, Forget,
       RetentionPoints, InstallPoints, TailPoints, LockPoints, Reports, Goto, TypeInv,
       MakeRelease, Stage, LinkPrevious, MarkSwitched, Switch, Exchange, ExchangePrevious, Repair,
       LinkRuntime, WriteState, Finish, Untrap, Verify, Reexecute, RemoveStaging, RestoreCurrent,
       RestorePrevious, Unlock, Inventory, Remove, RemovedAll
<1>3. op'[q] = op[q] /\ found'[q] = found[q]
  <2> USE DEF worldVars, localVars, planFrame, LockPoints, InstallPoints, TailPoints, RetentionPoints
  <2>1. ~Update(q) /\ ~Ask(q) /\ ~Review(q) /\ ~Decide(q) /\ ~Acquire(q) /\ ~Untrap(q) /\ ~Verify(q) /\ ~Reexecute(q)
    BY DEF Update, Ask, Review, Decide, Acquire, Untrap, Verify, Reexecute
  <2>2. ~Unlock(q) /\ ~Abandons(q)
    BY DEF Unlock, Abandons, OwnFails, CleanupFails, UnlockFails, Kill, Reports, Forget, Goto, TypeInv
  <2>7. Own(q) => UNCHANGED <<op, found>>
    BY DEF Own
  <2>3. CommandFails(q) \/ Signalled(q) \/ MakeRelease(q) \/ Stage(q) \/ LinkPrevious(q) \/ MarkSwitched(q)
          => UNCHANGED <<op, found>>
    BY DEF CommandFails, Signalled, MakeRelease, Stage, LinkPrevious, MarkSwitched
  <2>4. Switch(q) \/ Exchange(q) \/ ExchangePrevious(q) \/ Repair(q) \/ LinkRuntime(q) \/ Finish(q)
          => UNCHANGED <<op, found>>
    BY DEF Switch, Exchange, ExchangePrevious, Repair, LinkRuntime, Finish
  <2>5. \A f, from, to : WriteState(q, f, from, to) => UNCHANGED <<op, found>>
    BY DEF WriteState
  <2>6. RemoveStaging(q) \/ RestoreCurrent(q) \/ RestorePrevious(q) \/ Inventory(q) \/ RemovedAll(q)
          \/ (\E r \in Releases : Remove(q, r)) => UNCHANGED <<op, found>>
    BY DEF RemoveStaging, RestoreCurrent, RestorePrevious, Inventory, RemovedAll, Remove
  <2> QED BY <2>1, <2>2, <2>3, <2>4, <2>5, <2>6, <2>7 DEF Act, Step
<1>4. ContractStage = "working" /\ ContractTask = op[q] /\ ContractLinks = found[q]
  BY <1>2, ContractOf DEF Failing
<1>5. CASE ~Failing(q)'
  <2>1. ContractStage' = "working" /\ ContractTask' = op[q] /\ ContractLinks' = found[q]
    BY <1>1, <1>3, <1>5, SelectorAssumption DEF ContractStage, ContractTask, ContractLinks, Behind
  <2> QED BY <1>4, <2>1
<1>6. CASE Failing(q)'
  <2>1. /\ ContractStage' = "failed" /\ ContractTask' = op[q]
        /\ ContractLinks' = [current |-> current', previous |-> previous']
    BY <1>1, <1>3, <1>6, SelectorAssumption DEF ContractStage, ContractTask, ContractLinks, Behind
  <2>2. Passing(q)' /\ InstallInv(q)' /\ pc'[q] = "unlock"
    BY <1>6 DEF PassInv, HoldInv, Failing
  <2>3. CASE op[q] = "rollback"
    <3>1. \/ current' = found[q].current /\ previous' = found[q].previous
          \/ /\ FoundBoth(q) /\ current' = found[q].previous
             /\ previous' \in {found[q].previous, found[q].current}
      BY <1>3, <2>2, <2>3 DEF Passing, RollbackPasses, Same, FoundBoth
    <3>2. [current |-> current', previous |-> previous'] \in Contract!Links
      BY DEF TypeInv, Link, Contract!Links, Contract!Link
    <3>3. ContractLinks' \in Contract!LeftByFailure
      BY <1>4, <2>1, <2>3, <3>1, <3>2, ContractWords DEF Contract!LeftByFailure
    <3> QED BY <1>4, <2>1, <3>3 DEF Contract!Next, Contract!Fail
  <2>4. CASE op[q] # "rollback"
    <3>1. current' = found[q].current /\ previous' = found[q].previous
      BY <1>3, <2>2, <2>4 DEF Passing, InstallInv, Same
    <3>2. found[q] \in Contract!Links
      BY DEF TypeInv, Link, Links, Contract!Links, Contract!Link
    <3>3. ContractLinks' = found[q]
      BY <2>1, <3>1, ContractWords, <1>4
    <3>4. ContractLinks' \in Contract!LeftByFailure
      BY <1>4, <3>2, <3>3 DEF Contract!LeftByFailure
    <3> QED BY <1>4, <2>1, <3>4 DEF Contract!Next, Contract!Fail
  <2> QED BY <2>3, <2>4
<1> QED BY <1>5, <1>6

\* The owner comes to its end.
LEMMA ContractEnds ==
  ASSUME SelectorInv, PassInv, NEW q \in Processes, Act(q),
         updateLock = q, pc[q] \in LockPoints, pc'[q] \notin LockPoints
  PROVE  Contract!Next
<1> USE DEF SelectorInv
<1> DEFINE now == [current |-> current, previous |-> previous]
<1>1. /\ current' = current /\ previous' = previous
      /\ Finish(q) \/ Unlock(q) \/ Abandons(q)
  BY Leaves, CleanupLeaves DEF World, Abandons
<1>2. Passing(q) /\ HoldInv(q) /\ CourseInv(q)
  BY DEF PassInv
<1>3. /\ ContractStage = (IF Failing(q) THEN "failed" ELSE "working") /\ ContractTask = op[q]
      /\ ContractLinks = IF Failing(q) THEN now ELSE found[q]
  BY ContractOf
<1>4. updateLock' \in {NoProcess, Dead} =>
        /\ ContractStage' = (IF updateLock' = Dead THEN "left" ELSE "free")
        /\ ContractTask' = "none" /\ ContractLinks' = now
  BY <1>1, SelectorAssumption DEF ContractStage, ContractTask, ContractLinks, Behind
<1>5. CASE updateLock' = Dead
  <2>1. ContractStage' = "left" /\ ContractTask' = "none" /\ ContractLinks' = now
    BY <1>4, <1>5
  <2>2. CASE Failing(q)
    BY <1>3, <2>1, <2>2 DEF Contract!Next, Contract!LeaveLock
  <2>3. CASE ~Failing(q)
    <3>1. now \in Contract!LeftBehind
      BY <1>2, <1>3, <2>3, EndsMidway
    <3> QED BY <1>3, <2>1, <2>3, <3>1 DEF Contract!Next, Contract!LeaveLock
  <2> QED BY <2>2, <2>3
<1>6. ASSUME updateLock' = NoProcess, ~Failing(q), now \in Contract!Delivered PROVE Contract!Next
  BY <1>3, <1>4, <1>6, SelectorAssumption DEF Contract!Next, Contract!Deliver
<1>9. CASE Abandons(q) /\ updateLock' # Dead
  <2>1. OwnFails(q) /\ updateLock' = NoProcess /\ op[q] = "prune"
    <3>1. ~CleanupFails(q) /\ ~UnlockFails(q) /\ ~Kill(q)
      BY <1>9 DEF CleanupFails, UnlockFails, Kill, LeftBehind
    <3> QED BY <1>9, <3>1 DEF Abandons, OwnFails, LeftBehind
  <2>2. ~Failing(q)
    BY <2>1 DEF OwnFails, Failing
  <2>3. ContractLinks = found[q] /\ Same(q)
    BY <1>2, <1>3, <2>1, <2>2 DEF Passing
  <2>4. now \in Contract!Links /\ now = found[q]
    BY <2>3, ContractWords DEF Same
  <2> QED BY <1>3, <1>6, <2>1, <2>2, <2>4 DEF Contract!Delivered
<1>7. CASE Unlock(q)
  <2>1. updateLock' = NoProcess /\ pc[q] = "unlock"
    BY <1>7 DEF Unlock
  <2>2. CASE Failing(q)
    BY <1>3, <1>4, <2>1, <2>2, SelectorAssumption DEF Contract!Next, Contract!Leave
  <2>3. CASE ~Failing(q)
    <3>1. ContractLinks = found[q] /\ ContractTask = op[q] /\ op[q] # "install"
      BY <1>2, <1>3, <2>1, <2>3 DEF Failing, Passing, InstallPasses
    <3>2. now \in Contract!Links
      BY <3>1, ContractWords
    <3>3. CASE op[q] = "rollback"
      <4>1. FoundBoth(q) /\ now = [current |-> found[q].previous, previous |-> found[q].current]
        BY <1>2, <2>1, <2>3, <3>3 DEF Passing, RollbackPasses, Failing
      <4> QED BY <1>6, <2>1, <2>3, <3>1, <3>2, <3>3, <4>1, ContractWords DEF Contract!Delivered
    <3>4. CASE op[q] \in {"repair", "prune"}
      <4>1. now = found[q]
        BY <1>2, <3>1, <3>4, ContractWords DEF Passing, Same
      <4> QED BY <1>6, <2>1, <2>3, <3>1, <3>2, <3>4, <4>1 DEF Contract!Delivered
    <3> QED BY <1>2, <3>1, <3>3, <3>4 DEF Passing
  <2> QED BY <2>2, <2>3
<1>8. CASE Finish(q) /\ updateLock' # Dead
  <2>1. op[q] = "install"
    BY <1>8 DEF Finish, Goto, TypeInv, LockPoints
  <2>2. updateLock' = NoProcess /\ pc[q] = "finish" /\ ~Failing(q)
    BY <1>8, <2>1 DEF Finish, Failing
  <2>3. current = target[q] /\ previous = Linked(q) /\ created[q]
    BY <1>2, <2>1, <2>2 DEF HoldInv, ExchangeInv, Moved, TailPoints, Passing, InstallPasses, MadePoints
  <2>4. target[q] \in Releases \ {found[q].current, found[q].previous}
    BY <1>2, <2>1, <2>3 DEF HoldInv, SelectionInv, CourseInv
  <2>5. now \in Contract!Links /\ now \in Contract!Installed
    BY <1>3, <2>2, <2>3, <2>4, ContractWords
  <2> QED BY <1>3, <1>6, <2>1, <2>2, <2>5 DEF Contract!Delivered
<1> QED BY <1>1, <1>5, <1>7, <1>8, <1>9

LEMMA ContractStep ==
  ASSUME InstallsUndisturbed, SelectorInv, PassInv, [Next]_vars
  PROVE  [Contract!Next]_(Contract!vars)
<1> USE DEF Contract!vars
<1>1. SelectorInv' /\ PassInv'
  BY SelectorStep, PassStep
<1>2. ASSUME NEW q \in Processes, Act(q)
      PROVE  Contract!Next \/ UNCHANGED <<ContractStage, ContractTask, ContractLinks>>
  <2>1. CASE pc[q] \notin LockPoints
    <3>1. UNCHANGED World /\ updateLock # q
      BY <1>2, <2>1, OutsideLock DEF World, SelectorInv, HolderInv
    <3>2. CASE updateLock' = updateLock
      <4>1. \A p \in Processes : updateLock = p => Untouched(p)
        BY <1>2, <3>1, OthersUntouched DEF SelectorInv
      <4> QED BY <3>1, <3>2, <4>1, ContractBlind DEF SelectorInv
    <3>3. CASE updateLock' # updateLock
      <4>1. updateLock = NoProcess /\ Acquire(q)
        BY <1>2, <2>1, <3>1, <3>3, OutsideLock
      <4>2. updateLock' = q
        BY <3>3, <4>1 DEF Acquire
      <4> QED BY <4>1, <4>2, ContractTakes
    <3> QED BY <3>2, <3>3
  <2>2. CASE pc[q] \in LockPoints
    <3>1. updateLock = q
      BY <2>2 DEF SelectorInv, ExclusionInv
    <3> QED BY <1>1, <1>2, <2>2, <3>1, ContractWorks, ContractEnds
  <2> QED BY <2>1, <2>2
<1>3. CASE Launch \/ (\E r \in Releases : Exits(r)) \/ UNCHANGED vars
  <2>1. UNCHANGED World /\ UNCHANGED updateLock /\ \A p \in Processes : Untouched(p)
    BY <1>3 DEF Launch, Exits, vars, World, treeVars, linkVars, localVars, Untouched
  <2> QED BY <2>1, ContractBlind DEF SelectorInv
<1> QED BY <1>2, <1>3, NextActs

\* Seen through update.lock an invocation delivers what its task says or fails as
\* its task may: SelectorContract, which is what FleetUpdate takes an installer for.
THEOREM ImplementsSelectorContract == ASSUME InstallsUndisturbed PROVE Spec => ImplementsContract
<1>1. Init => PassInv
  <2> SUFFICES ASSUME Init PROVE PassInv
    OBVIOUS
  <2>1. \A p \in Processes : pc[p] = "idle"
    BY DEF Init
  <2> QED BY <2>1 DEF PassInv, LockPoints, InstallPoints, TailPoints, RetentionPoints
<1>2. Init => Contract!Init
  <2> SUFFICES ASSUME Init PROVE Contract!Init
    OBVIOUS
  <2>1. updateLock = NoProcess /\ TypeInv
    BY StartTypes DEF Init
  <2>2. ContractStage = "free" /\ ContractTask = "none" /\ ContractLinks = [current |-> current, previous |-> previous]
    BY <2>1, SelectorAssumption DEF ContractStage, ContractTask, ContractLinks, Behind
  <2> QED BY <2>1, <2>2 DEF Contract!Init, Contract!Links, Contract!Link, TypeInv, Link
<1>3. SelectorInv /\ PassInv /\ [Next]_vars => PassInv' /\ [Contract!Next]_(Contract!vars)
  BY PassStep, ContractStep
<1> QED BY <1>1, <1>2, <1>3, SelectorAlways, PTL DEF Spec, ImplementsContract, Contract!Spec
=============================================================================

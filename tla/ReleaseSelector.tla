--------------------------- MODULE ReleaseSelector ---------------------------
(***************************************************************************)
(* One installation root: the immutable releases under releases/, the      *)
(* current and previous links, the two install.json documents and the      *)
(* public entry points, as scripts/install-runtime.sh (install, --rollback *)
(* and --repair), the local part of llmops_update.py (automatic updates    *)
(* too) and the release retention of llmops_maintenance.py change them.    *)
(* Every change is made under update.lock, a directory that nobody removes *)
(* when its owner is killed, ends before its traps are set or fails inside *)
(* the trap that would have released it.                                   *)
(*                                                                         *)
(* replace_link renames a link over its destination, so it succeeds or     *)
(* leaves the destination alone; the fallback for an mv without -h is not  *)
(* modelled (the script runs on Darwin only).  Adoption of a configuration *)
(* tree by the first managed install is left out.                          *)
(***************************************************************************)
EXTENDS Naturals, FiniteSets

CONSTANTS Releases,      \* release ids
          NoRelease,     \* no link, no document
          Legacy,        \* releases of the script runtime: no app/bin/llmops
          Processes,     \* llmops and install-runtime.sh invocations
          NoProcess,     \* a lock is free
          Dead,          \* update.lock left behind by an invocation that is over
          Targets,       \* releases an update may aim at
          Operations,    \* among update, rollback, repair, prune
          MaxInode,      \* bound on the directories ever made for one release
          MaxInUse,      \* bound on the releases in use at a time
          Faults         \* the faults the environment may produce

AllFaults == {"command",        \* a command fails, or dies with the process group
              "kill",           \* SIGKILL, power loss, SIGTERM to a retention run
              "signal",         \* the shell of a rollback or repair is signalled
              "signalInstall"}  \* the shell of an install is signalled

ASSUME SelectorAssumption ==
    /\ NoRelease \notin Releases
    /\ Legacy \subseteq Releases
    /\ Targets \subseteq Releases \ Legacy
    /\ {NoProcess, Dead} \cap Processes = {} /\ NoProcess # Dead
    /\ Operations \subseteq {"update", "rollback", "repair", "prune"}
    /\ MaxInode \in Nat /\ MaxInUse \in Nat
    /\ Faults \subseteq AllFaults

VARIABLES
    dir,        \* absent, partial or complete: releases/<id>
    inode,      \* identity of that directory
    current,    \* release the link selects
    previous,
    active,     \* active_release of install.json in "state" and in "base"
    entry,      \* what the public llmops command executes: app, script, none
    updateLock,
    inUse,      \* releases some live process runs from; retention, who asks,
                \* keeps the legacy ones anyway
    pc,
    op,         \* install, rollback, repair, prune or none
    target,     \* release the invocation installs or wants selected
    created,    \* release_created
    switched,   \* switched
    saved,      \* old and previous_old (current_target and previous_target)
    failed,     \* $? of the script as its traps see it is not 0
    reviewed,   \* the plan whose digest --apply was given
    doomed,     \* releases a retention run still has to remove
    found       \* history: the links as they were when it took update.lock

treeVars  == <<dir, inode>>
linkVars  == <<current, previous>>
localVars == <<op, target, created, switched, saved, failed, reviewed, doomed, found>>
vars == <<treeVars, linkVars, active, entry, updateLock, inUse, pc, localVars>>

Link == Releases \cup {NoRelease}
Usable(r) == r \in Releases /\ dir[r] = "complete"
Kind(r)   == IF r \in Legacy THEN "script" ELSE "app"
NoLinks   == [current |-> NoRelease, previous |-> NoRelease]

Plans == [current : Link, previous : Link, remove : SUBSET (Releases \X (0..MaxInode))]
NoPlan == [current |-> NoRelease, previous |-> NoRelease, remove |-> {}]

\* The two links as a script reads them into old and previous_old.
LateSnapshot == [current |-> current, previous |-> current]
Snapshot     == [current |-> current, previous |-> previous]

\* A consistent installation that has seen any number of installs.
Init ==
    /\ dir \in [Releases -> {"absent", "complete"}]
    /\ inode = [r \in Releases |-> IF dir[r] = "absent" THEN 0 ELSE 1]
    /\ current \in {r \in Releases : dir[r] = "complete"} \cup {NoRelease}
    /\ previous \in {r \in Releases : dir[r] = "complete"} \cup {NoRelease}
    /\ current = NoRelease => previous = NoRelease /\ \A r \in Releases : dir[r] = "absent"
    /\ current # NoRelease => current # previous
    /\ active = [f \in {"state", "base"} |-> current]
    /\ entry = IF current = NoRelease THEN "none" ELSE Kind(current)
    /\ updateLock = NoProcess
    /\ inUse = {}
    /\ pc = [p \in Processes |-> "idle"]
    /\ op = [p \in Processes |-> "none"]
    /\ target = [p \in Processes |-> NoRelease]
    /\ created = [p \in Processes |-> FALSE]
    /\ switched = [p \in Processes |-> FALSE]
    /\ saved = [p \in Processes |-> NoLinks]
    /\ failed = [p \in Processes |-> FALSE]
    /\ reviewed = [p \in Processes |-> NoPlan]
    /\ doomed = [p \in Processes |-> {}]
    /\ found = [p \in Processes |-> NoLinks]

Goto(p, label) == pc' = [pc EXCEPT ![p] = label]

\* The invocation is over and forgets everything.
Forget(p) ==
    /\ Goto(p, "idle")
    /\ op' = [op EXCEPT ![p] = "none"]
    /\ target' = [target EXCEPT ![p] = NoRelease]
    /\ created' = [created EXCEPT ![p] = FALSE]
    /\ switched' = [switched EXCEPT ![p] = FALSE]
    /\ saved' = [saved EXCEPT ![p] = NoLinks]
    /\ failed' = [failed EXCEPT ![p] = FALSE]
    /\ reviewed' = [reviewed EXCEPT ![p] = NoPlan]
    /\ doomed' = [doomed EXCEPT ![p] = {}]
    /\ found' = [found EXCEPT ![p] = NoLinks]

(***************************************************************************)
(* What starts an invocation.                                              *)
(***************************************************************************)
worldVars == <<treeVars, linkVars, active, entry, updateLock, inUse>>
planFrame == <<created, switched, saved, failed, doomed, found>>

\* Releases a retention inventory calls candidates, as it reads them now.
Candidates ==
    {r \in Releases \ Legacy : /\ dir[r] = "complete" /\ r \notin inUse
                               /\ r \notin {current, previous}}

Identity == [current |-> current, previous |-> previous,
             remove |-> {<<r, inode[r]>> : r \in Candidates}]

\* llmops update --apply --local-only, by hand or before any other command.
Update(p) ==
    /\ "update" \in Operations
    /\ pc[p] = "idle"
    /\ \E r \in Targets :
        /\ inode[r] + Cardinality({q \in Processes : target[q] = r}) < MaxInode
        /\ target' = [target EXCEPT ![p] = r]
    /\ Goto(p, "decide")
    /\ UNCHANGED <<worldVars, op, reviewed, planFrame>>

\* main() reads the two selectors, before any lock: nothing to do, exchange
\* them, or install.
PreviousSelects(p) == previous = target[p] /\ dir[previous] # "absent"

Decide(p) ==
    /\ pc[p] = "decide"
    /\ IF current = target[p] THEN Forget(p)
       ELSE /\ op' = [op EXCEPT ![p] = IF PreviousSelects(p) THEN "rollback" ELSE "install"]
            /\ Goto(p, "acquire")
            /\ UNCHANGED <<target, reviewed, planFrame>>
    /\ UNCHANGED worldVars

\* llmops rollback, install-runtime.sh --repair.
Ask(p) ==
    /\ pc[p] = "idle"
    /\ \E o \in Operations \cap {"rollback", "repair"} : op' = [op EXCEPT ![p] = o]
    /\ Goto(p, "acquire")
    /\ UNCHANGED <<worldVars, target, reviewed, planFrame>>

\* maintenance releases --plan, which takes no lock, and then --apply with its
\* digest at any later time.
Review(p) ==
    /\ "prune" \in Operations
    /\ pc[p] = "idle"
    /\ current # NoRelease /\ active["base"] = current
    /\ reviewed' = [reviewed EXCEPT ![p] = Identity]
    /\ op' = [op EXCEPT ![p] = "prune"]
    /\ Goto(p, "acquire")
    /\ UNCHANGED <<worldVars, target, planFrame>>

(***************************************************************************)
(* update.lock and the dispatch behind it.                                 *)
(***************************************************************************)
LockFree == updateLock = NoProcess

\* mkdir of update.lock.
Acquire(p) ==
    /\ pc[p] = "acquire"
    /\ IF LockFree
       THEN /\ updateLock' = p
            /\ found' = [found EXCEPT ![p] = [current |-> current, previous |-> previous]]
            /\ Goto(p, "own")
            /\ UNCHANGED <<op, target, created, switched, saved, failed, reviewed, doomed>>
       ELSE Forget(p) /\ UNCHANGED updateLock
    /\ UNCHANGED <<treeVars, linkVars, active, entry, inUse>>

\* The token in update.lock/owner, its mode, and only then the traps.
Own(p) ==
    /\ pc[p] = "own"
    /\ Goto(p, op[p])
    /\ UNCHANGED <<worldVars, localVars>>

SignalFault(p) == IF op[p] = "install" THEN "signalInstall" ELSE "signal"
Fault(p)       == "command" \in Faults \/ SignalFault(p) \in Faults

LeftBehind(p) == IF updateLock = p THEN Dead ELSE updateLock

\* One of these fails, or a signal comes before the traps: the script ends and
\* leaves the lock.  The finally of a retention run removes a lock whose owner
\* file it had written.
OwnFails(p) ==
    /\ pc[p] = "own"
    /\ Fault(p)
    /\ updateLock' \in {LeftBehind(p)} \cup (IF op[p] = "prune" THEN {NoProcess} ELSE {})
    /\ Forget(p)
    /\ UNCHANGED <<treeVars, linkVars, active, entry, inUse>>

\* A command of the script fails or dies with a signal to the process group:
\* set -e runs the EXIT trap, cleanup for an install.  A retention run that
\* cannot inspect something raises MaintenanceError and leaves its locks.
ExitOnly(p) == IF op[p] = "install" THEN "cleanup" ELSE "untrap"
TrapOf(p) == IF op[p] = "install" THEN "cleanup" ELSE "unlock"

Abort(p) ==
    /\ Goto(p, TrapOf(p))
    /\ failed' = [failed EXCEPT ![p] = TRUE]

ScriptPoints == {"install", "stage", "linkPrevious", "switch", "rollback", "exchange",
                 "repair", "wrappers", "writeState", "writeBase", "finish"}
RetentionPoints == {"prune", "remove"}

CommandFails(p) ==
    /\ "command" \in Faults
    /\ pc[p] \in ScriptPoints \cup RetentionPoints
    /\ Abort(p)
    /\ UNCHANGED <<worldVars, op, target, created, switched, saved, reviewed, doomed, found>>

\* A signal to the shell alone, taken between two commands or when the running
\* one has succeeded: an install runs cleanup with $? = 0, the others exit.
Signalled(p) ==
    /\ SignalFault(p) \in Faults
    /\ pc[p] \in ScriptPoints \cup {"mark", "untrap"}
    /\ Goto(p, TrapOf(p))
    /\ failed' = [failed EXCEPT ![p] = op[p] # "install"]
    /\ UNCHANGED <<worldVars, op, target, created, switched, saved, reviewed, doomed, found>>

(***************************************************************************)
(* install.                                                                *)
(***************************************************************************)
\* "release already exists", or mkdir of the release directory itself.
MakeRelease(p) ==
    /\ pc[p] = "install"
    /\ LET r == target[p]
       IN  IF dir[r] # "absent"
           THEN Abort(p) /\ UNCHANGED <<treeVars, created>>
           ELSE /\ dir' = [dir EXCEPT ![r] = "partial"]
                /\ inode' = [inode EXCEPT ![r] = @ + 1]
                /\ created' = [created EXCEPT ![p] = TRUE]
                /\ Goto(p, "stage")
                /\ UNCHANGED failed
    /\ UNCHANGED <<linkVars, active, entry, updateLock, inUse, op, target, switched, saved,
                   reviewed, doomed, found>>

\* Environment, scripts, metadata; "$staging/app/bin/llmops --help" succeeds.
Stage(p) ==
    /\ pc[p] = "stage"
    /\ dir' = [dir EXCEPT ![target[p]] = "complete"]
    /\ Goto(p, "linkPrevious")
    /\ UNCHANGED <<inode, linkVars, active, entry, updateLock, inUse, localVars>>

LinkPrevious(p) ==
    /\ pc[p] = "linkPrevious"
    /\ saved' = [saved EXCEPT ![p] = Snapshot]
    /\ previous' = IF current = NoRelease THEN previous ELSE current
    /\ Goto(p, "mark")
    /\ UNCHANGED <<treeVars, current, active, entry, updateLock, inUse, op, target, created,
                   switched, failed, reviewed, doomed, found>>

MarkSwitched(p) ==
    /\ pc[p] = "mark"
    /\ switched' = [switched EXCEPT ![p] = TRUE]
    /\ Goto(p, "switch")
    /\ UNCHANGED <<worldVars, op, target, created, saved, failed, reviewed, doomed, found>>

Switch(p) ==
    /\ pc[p] = "switch"
    /\ current' = target[p]
    /\ Goto(p, "wrappers")
    /\ UNCHANGED <<treeVars, previous, active, entry, updateLock, inUse, localVars>>

(***************************************************************************)
(* --rollback and --repair.                                                *)
(***************************************************************************)
Exchange(p) ==
    /\ pc[p] = "rollback"
    /\ IF current # NoRelease /\ Usable(previous)
       THEN /\ saved' = [saved EXCEPT ![p] = Snapshot]
            /\ current' = previous
            /\ Goto(p, "exchange")
            /\ UNCHANGED failed
       ELSE Abort(p) /\ UNCHANGED <<saved, current>>
    /\ UNCHANGED <<treeVars, previous, active, entry, updateLock, inUse, op, target, created,
                   switched, reviewed, doomed, found>>

ExchangePrevious(p) ==
    /\ pc[p] = "exchange"
    /\ previous' = saved[p].current
    /\ Goto(p, "wrappers")
    /\ UNCHANGED <<treeVars, current, active, entry, updateLock, inUse, localVars>>

Repair(p) ==
    /\ pc[p] = "repair"
    /\ IF Usable(current) /\ current \notin Legacy
       THEN Goto(p, "wrappers") /\ UNCHANGED failed
       ELSE Abort(p)
    /\ UNCHANGED <<worldVars, op, target, created, switched, saved, reviewed, doomed, found>>

(***************************************************************************)
(* The common tail: entry points, both documents, lock.                    *)
(***************************************************************************)
\* link_runtime, or link_pre_beta_runtime for a release of scripts.
LinkRuntime(p) ==
    /\ pc[p] = "wrappers"
    /\ entry' = Kind(current)
    /\ Goto(p, "writeState")
    /\ UNCHANGED <<treeVars, linkVars, active, updateLock, inUse, localVars>>

\* The interpreter that writes the documents: a legacy release borrows the one
\* of the release it was exchanged with.
Interpreter == IF current \in Legacy THEN previous ELSE current
CanWrite    == Usable(Interpreter) /\ Interpreter \notin Legacy

\* The release write_state is told.
WrittenOld(p) == IF op[p] = "rollback" THEN saved[p].current ELSE current
Written(p) ==
    CASE op[p] = "install"  -> target[p]
      [] op[p] = "rollback" -> saved[p].previous
      [] op[p] = "repair"   -> current

WriteState(p, file, from, to) ==
    /\ pc[p] = from
    /\ IF CanWrite
       THEN /\ active' = [active EXCEPT ![file] = Written(p)]
            /\ Goto(p, to)
            /\ UNCHANGED failed
       ELSE Abort(p) /\ UNCHANGED active
    /\ UNCHANGED <<treeVars, linkVars, entry, updateLock, inUse, op, target, created,
                   switched, saved, reviewed, doomed, found>>

\* What the updater does when its installer has exited.
Reports(p) ==
    IF target[p] = NoRelease \/ failed[p] THEN Forget(p)
    ELSE Goto(p, IF op[p] = "install" THEN "reexec" ELSE "verify") /\ UNCHANGED localVars

\* release_update_lock, which ignores an rmdir that fails; an install drops its
\* traps only afterwards.
Finish(p) ==
    /\ pc[p] = "finish"
    /\ IF op[p] = "install"
       THEN /\ updateLock' \in {NoProcess} \cup (IF "command" \in Faults THEN {Dead} ELSE {})
            /\ Goto(p, "untrap")
       ELSE updateLock' = updateLock /\ Goto(p, "unlock")
    /\ UNCHANGED <<treeVars, linkVars, active, entry, inUse, localVars>>

Untrap(p) ==
    /\ pc[p] = "untrap"
    /\ Reports(p)
    /\ UNCHANGED worldVars

\* The selection is read again after an exchange; then the original command is
\* executed from whatever current selects.
Verify(p) ==
    /\ pc[p] = "verify"
    /\ IF current = target[p]
       THEN Goto(p, "reexec") /\ UNCHANGED localVars
       ELSE Forget(p)
    /\ UNCHANGED worldVars

Reexecute(p) ==
    /\ pc[p] = "reexec"
    /\ inUse' = IF Usable(current) THEN inUse \cup ({current} \ Legacy) ELSE inUse
    /\ Forget(p)
    /\ UNCHANGED <<treeVars, linkVars, active, entry, updateLock>>

(***************************************************************************)
(* cleanup: the release goes first, then, after a failure, the links.      *)
(***************************************************************************)
NoRestore(p)    == FALSE
MustRestore(p)  == failed[p] /\ switched[p]

RemoveStaging(p) ==
    /\ pc[p] = "cleanup"
    /\ dir' = IF created[p] THEN [dir EXCEPT ![target[p]] = "absent"] ELSE dir
    /\ Goto(p, IF MustRestore(p) THEN "restore" ELSE "unlock")
    /\ UNCHANGED <<inode, linkVars, active, entry, updateLock, inUse, localVars>>

RestoreCurrent(p) ==
    /\ pc[p] = "restore"
    /\ current' = saved[p].current
    /\ Goto(p, "restorePrevious")
    /\ UNCHANGED <<treeVars, previous, active, entry, updateLock, inUse, localVars>>

RestorePrevious(p) ==
    /\ pc[p] = "restorePrevious"
    /\ previous' = saved[p].previous
    /\ Goto(p, "unlock")
    /\ UNCHANGED <<treeVars, current, active, entry, updateLock, inUse, localVars>>

\* cleanup has dropped its traps: a failing rm -rf or replace_link, or a signal,
\* ends the script there, the rest not done and the lock not released.
CleanupFails(p) ==
    /\ pc[p] \in {"cleanup", "restore", "restorePrevious"}
    /\ Fault(p)
    /\ dir' \in {dir} \cup (IF pc[p] = "cleanup" /\ created[p]
                           THEN {[dir EXCEPT ![target[p]] = "partial"]} ELSE {})
    /\ updateLock' = LeftBehind(p)
    /\ Forget(p)
    /\ UNCHANGED <<inode, linkVars, active, entry, inUse>>

\* release_update_lock looks for its own token.
Unlock(p) ==
    /\ pc[p] = "unlock"
    /\ updateLock' = IF updateLock = p THEN NoProcess ELSE updateLock
    /\ Reports(p)
    /\ UNCHANGED <<treeVars, linkVars, active, entry, inUse>>

\* The owner file is not removed and set -e ends the script, or it is removed and
\* the failure of rmdir is ignored, as the finally of a retention run ignores both.
UnlockFails(p) ==
    /\ pc[p] = "unlock"
    /\ Fault(p)
    /\ updateLock' = LeftBehind(p)
    /\ Forget(p) \/ Reports(p)
    /\ UNCHANGED <<treeVars, linkVars, active, entry, inUse>>

(***************************************************************************)
(* maintain_releases --apply.                                              *)
(***************************************************************************)
\* The inventory, under orchestrator.lock too; anything but the reviewed identity
\* is refused, and so is everything while a lifecycle executor has that lock.
StaleDigest(p)   == FALSE
DigestDiffers(p) == reviewed[p] # Identity

Owned(link) == link # NoRelease => dir[link] # "absent"

Inventory(p) ==
    /\ pc[p] = "prune"
    /\ \/ /\ \A link \in {current, previous} : Owned(link)
          /\ current # NoRelease /\ active["base"] = current
          /\ ~DigestDiffers(p)
          /\ doomed' = [doomed EXCEPT ![p] = Candidates]
          /\ Goto(p, "remove")
       \/ Goto(p, "unlock") /\ UNCHANGED doomed
    /\ UNCHANGED <<treeVars, linkVars, active, entry, updateLock, inUse, op, target,
                   created, switched, saved, failed, reviewed, found>>

\* One row: everything is looked at once more, then rmtree.
Unreferenced(r) == r \notin inUse

Remove(p, r) ==
    /\ pc[p] = "remove"
    /\ r \in doomed[p]
    /\ doomed' = [doomed EXCEPT ![p] = @ \ {r}]
    /\ IF Unreferenced(r)
       THEN \/ dir' = [dir EXCEPT ![r] = "absent"] /\ UNCHANGED pc
            \/ /\ "command" \in Faults
               /\ dir' = [dir EXCEPT ![r] = "partial"]
               /\ Goto(p, "unlock")
       ELSE UNCHANGED <<dir, pc>>
    /\ UNCHANGED <<inode, linkVars, active, entry, updateLock, inUse, op, target, created,
                   switched, saved, failed, reviewed, found>>

RemovedAll(p) ==
    /\ pc[p] = "remove"
    /\ doomed[p] = {}
    /\ Goto(p, "unlock")
    /\ UNCHANGED <<worldVars, localVars>>

(***************************************************************************)
(* The rest of the world.                                                  *)
(***************************************************************************)
\* SIGKILL or power loss: the lock directory stays.
Kill(p) ==
    /\ "kill" \in Faults
    /\ pc[p] # "idle"
    /\ updateLock' = LeftBehind(p)
    /\ Forget(p)
    /\ UNCHANGED <<treeVars, linkVars, active, entry, inUse>>

\* Any command started through the current link keeps its release busy.
Launch ==
    /\ Usable(current) /\ current \notin Legacy
    /\ Cardinality(inUse \cup {current}) <= MaxInUse
    /\ inUse' = inUse \cup {current}
    /\ UNCHANGED <<treeVars, linkVars, active, entry, updateLock, pc, localVars>>

Exits(r) ==
    /\ r \in inUse
    /\ inUse' = inUse \ {r}
    /\ UNCHANGED <<treeVars, linkVars, active, entry, updateLock, pc, localVars>>

Step(p) ==
    \/ Decide(p)
    \/ Acquire(p)
    \/ Own(p)
    \/ MakeRelease(p)
    \/ Stage(p)
    \/ LinkPrevious(p)
    \/ MarkSwitched(p)
    \/ Switch(p)
    \/ Exchange(p)
    \/ ExchangePrevious(p)
    \/ Repair(p)
    \/ LinkRuntime(p)
    \/ WriteState(p, "state", "writeState", "writeBase")
    \/ WriteState(p, "base", "writeBase", "finish")
    \/ Finish(p)
    \/ Untrap(p)
    \/ Verify(p)
    \/ Reexecute(p)
    \/ RemoveStaging(p)
    \/ RestoreCurrent(p)
    \/ RestorePrevious(p)
    \/ Unlock(p)
    \/ Inventory(p)
    \/ \E r \in Releases : Remove(p, r)
    \/ RemovedAll(p)

Next ==
    \/ \E p \in Processes :
        \/ Update(p)
        \/ Ask(p)
        \/ Review(p)
        \/ Step(p)
        \/ CommandFails(p)
        \/ Signalled(p)
        \/ OwnFails(p)
        \/ CleanupFails(p)
        \/ UnlockFails(p)
        \/ Kill(p)
    \/ Launch
    \/ \E r \in Releases : Exits(r)

Spec == Init /\ [][Next]_vars

(***************************************************************************)
(* Properties.                                                             *)
(***************************************************************************)
Points == ScriptPoints \cup RetentionPoints \cup
          {"idle", "decide", "acquire", "own", "mark", "untrap", "verify", "reexec", "cleanup",
           "restore", "restorePrevious", "unlock"}
Links  == [current : Link, previous : Link]

\* The type of every variable.
TypeOK ==
    /\ dir \in [Releases -> {"absent", "partial", "complete"}]
    /\ inode \in [Releases -> 0..MaxInode]
    /\ current \in Link /\ previous \in Link
    /\ active \in [{"state", "base"} -> Link]
    /\ entry \in {"app", "script", "none"}
    /\ updateLock \in Processes \cup {NoProcess, Dead}
    /\ inUse \subseteq Releases
    /\ pc \in [Processes -> Points]
    /\ op \in [Processes -> {"none", "install", "rollback", "repair", "prune"}]
    /\ target \in [Processes -> Link]
    /\ created \in [Processes -> BOOLEAN]
    /\ switched \in [Processes -> BOOLEAN]
    /\ saved \in [Processes -> Links]
    /\ failed \in [Processes -> BOOLEAN]
    /\ reviewed \in [Processes -> Plans]
    /\ doomed \in [Processes -> SUBSET Releases]
    /\ found \in [Processes -> Links]

\* Both links select complete releases in every state, with one exception: a
\* cleanup that has removed its release and not yet put current back, or died or
\* failed there and left update.lock behind.
SelectionUsable ==
    /\ previous # NoRelease => Usable(previous)
    /\ current # NoRelease => \/ Usable(current)
                              \/ updateLock = Dead
                              \/ \E p \in Processes : pc[p] = "restore" /\ updateLock = p

\* An install that failed has left the two links as it found them, wherever it
\* failed (cleanup).
FailedInstallRestores ==
    \A p \in Processes : (pc[p] = "unlock" /\ op[p] = "install" /\ failed[p]) =>
        /\ current = found[p].current
        /\ previous = found[p].previous

\* An install, rollback or repair that gets to its end has moved the links as
\* it should, and both documents and the entry point agree with current.
SuccessIsConsistent ==
    \A p \in Processes : pc[p] = "finish" =>
        /\ active = [f \in {"state", "base"} |-> current]
        /\ entry = Kind(current)
        /\ CASE op[p] = "install"  -> /\ current = target[p]
                                      /\ previous = IF found[p].current = NoRelease
                                                    THEN found[p].previous
                                                    ELSE found[p].current
             [] op[p] = "rollback" -> /\ current = found[p].previous
                                      /\ previous = found[p].current
             [] op[p] = "repair"   -> /\ current = found[p].current
                                      /\ previous = found[p].previous

\* Retention removes a release only if the reviewed plan named that very
\* directory, no link selects it and nothing runs from it, however much time
\* and how many installs lie between the plan and its application.
RemovalWasReviewed ==
    [][\A p \in Processes, r \in Releases :
            (pc[p] = "remove" /\ r \in doomed[p] /\ dir'[r] # dir[r]) =>
                /\ <<r, inode[r]>> \in reviewed[p].remove
                /\ r \notin {current, previous} \cup inUse]_vars

\* Between mkdir of update.lock and its release.
LockPoints == ScriptPoints \cup RetentionPoints \cup
              {"own", "mark", "cleanup", "restore", "restorePrevious", "unlock"}

\* Whatever fails, nobody works on the installation without update.lock, and
\* nobody who holds it is past its work: an invocation that is over has released
\* the lock or left it behind for everybody (the EXIT traps, cleanup, the finally
\* of install_mutation_lock).
LockMatchesWork ==
    /\ updateLock \in Processes => pc[updateLock] \in LockPoints
    /\ \A p \in Processes : pc[p] \in LockPoints => updateLock = p

\* test_install_runtime.py, interrupted repair: whatever ends an invocation short
\* of SIGKILL releases update.lock.  It does not when the owner file, a step of
\* cleanup or the release itself fails, or a signal comes before the traps.
LockNotOrphaned == updateLock = Dead => "kill" \in Faults

\* The installation as the contract of one invocation after the other sees it:
\* under the lock the links are those its owner found, until it ends or fails.
Failing(p) == pc[p] = "unlock" /\ failed[p]
Behind     == updateLock \in Processes /\ ~Failing(updateLock)

ContractStage ==
    IF updateLock = NoProcess THEN "free"
    ELSE IF updateLock = Dead THEN "left" ELSE IF Behind THEN "working" ELSE "failed"

ContractTask  == IF updateLock \in Processes THEN op[updateLock] ELSE "none"
ContractLinks == IF Behind THEN found[updateLock] ELSE [current |-> current, previous |-> previous]

Contract == INSTANCE SelectorContract
    WITH stage <- ContractStage, task <- ContractTask, links <- ContractLinks

\* Whatever fails or is killed: each invocation delivers what its task says and
\* nothing else, a failed install, repair or retention moves no link, a failed
\* rollback at most its own two, and nobody works on behind a lock left behind.
ImplementsContract == Contract!Spec

\* Engineering evidence, runtime rollback: an install ends in the old stable
\* state or in the new one; with no mutation under way current works.
InstallIsAtomic ==
    updateLock = NoProcess => current = NoRelease \/ Usable(current)

\* UPGRADE_AND_ROLLBACK.md: an automatic update "re-executes the original
\* command from the newly selected release".
ReexecutesTarget ==
    [][\A p \in Processes :
            (pc[p] = "reexec" /\ inUse' # inUse /\ pc'[p] = "idle") =>
                current = target[p]]_vars
=============================================================================

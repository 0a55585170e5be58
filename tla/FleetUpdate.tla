----------------------------- MODULE FleetUpdate -----------------------------
(***************************************************************************)
(* Coordinated update and rollback of llmops_update.py: a controller walks *)
(* the selected hosts of the catalog one after the other through ssh.      *)
(* A remote installer does to the two links of its host what               *)
(* SelectorContract promises of a whole invocation: it moves them as it    *)
(* should or fails; a failed install moved nothing, a failed exchange may  *)
(* have moved one link or both.  There is no lock over the fleet.          *)
(***************************************************************************)
EXTENDS Naturals, FiniteSets

CONSTANTS Hosts,        \* hosts of the catalog
          Position,     \* their order in _select_hosts
          Releases,
          NoRelease,
          Controllers,  \* invocations of llmops update on control hosts
          Goals,        \* among apply and rollback
          Targets,      \* releases an apply may aim at
          MaxDoubt,     \* bound on the hosts where a command is lost or breaks off
          Faults        \* the faults the environment may produce

AllFaults == {"refuse",   \* a remote command exits non-zero with no effect
              "halfway",  \* an exchange exits non-zero after it moved a link
              "lost",     \* ssh fails or times out; the command may still take effect
              "verify"}   \* the configuration of an updated host does not verify

ASSUME FleetAssumption ==
    /\ IsFiniteSet(Hosts)
    /\ Position \in [Hosts -> Nat]
    /\ \A g, h \in Hosts : Position[g] = Position[h] => g = h
    /\ NoRelease \notin Releases
    /\ Goals \subseteq {"apply", "rollback"}
    /\ Targets \subseteq Releases
    /\ MaxDoubt \in Nat
    /\ Faults \subseteq AllFaults

VARIABLES
    sel,       \* host -> what its current and previous links select
    disk,      \* host -> releases under its releases/
    late,      \* host -> remote commands nobody waits for any more
    pc,
    goal,      \* apply or rollback
    target,    \* available
    selected,  \* selected_hosts
    seen,      \* preflight: host -> version it reported
    todo,      \* pending or selected hosts the loop has not come to
    done,      \* updated, or changed
    undo,      \* hosts of done still to be rolled back
    outcome,   \* none, ok, failed
    origin,    \* history: host -> current link when the invocation began
    moved,     \* history: hosts whose links commands of this invocation moved
    stuck,     \* history: hosts whose rollback did not report success
    doubt      \* history: hosts where a command was lost or failed half way

hostVars == <<sel, disk, late>>
workVars == <<goal, target, selected, seen, todo, done, undo, outcome>>
histVars == <<origin, moved, stuck>>
vars == <<hostVars, pc, workVars, histVars, doubt>>

Link   == Releases \cup {NoRelease}
Points == {"idle", "preflight", "stage", "apply", "verify", "undoSelf", "exchange", "undo", "ended"}

First(S) == {h \in S : \A g \in S : Position[h] <= Position[g]}
Last(S)  == {h \in S : \A g \in S : Position[g] <= Position[h]}

NoVersions == [h \in Hosts |-> NoRelease]

\* A fleet after any number of updates: previous, or both links, may be missing.
Init ==
    /\ sel \in [Hosts -> {s \in [current : Link, previous : Link] :
                            /\ s.current = NoRelease => s.previous = NoRelease
                            /\ s.current = s.previous => s.current = NoRelease}]
    /\ disk = [h \in Hosts |-> {sel[h].current, sel[h].previous} \ {NoRelease}]
    /\ late = [h \in Hosts |-> {}]
    /\ pc = [k \in Controllers |-> "idle"]
    /\ goal = [k \in Controllers |-> "none"]
    /\ target = [k \in Controllers |-> NoRelease]
    /\ selected = [k \in Controllers |-> {}]
    /\ seen = [k \in Controllers |-> NoVersions]
    /\ todo = [k \in Controllers |-> {}]
    /\ done = [k \in Controllers |-> {}]
    /\ undo = [k \in Controllers |-> {}]
    /\ outcome = [k \in Controllers |-> "none"]
    /\ origin = [k \in Controllers |-> NoVersions]
    /\ moved = [k \in Controllers |-> {}]
    /\ stuck = [k \in Controllers |-> {}]
    /\ doubt = {}

Goto(k, label) == pc' = [pc EXCEPT ![k] = label]

Report(k, verdict) ==
    /\ Goto(k, "ended")
    /\ outcome' = [outcome EXCEPT ![k] = verdict]

(***************************************************************************)
(* What a remote command does on its host.  t = NoRelease is --rollback.   *)
(***************************************************************************)
ReadTooLate(s) == [current |-> s.previous, previous |-> s.previous]
Swapped(s) == [current |-> s.previous, previous |-> s.current]

Installed(s, t) ==
    [current |-> t, previous |-> IF s.current = NoRelease THEN s.previous ELSE s.current]

\* The script of _remote_apply: already there, an exchange, or an install.
Reselected(h, t) ==
    IF sel[h].current = t THEN sel[h]
    ELSE IF sel[h].previous = t THEN Swapped(sel[h]) ELSE Installed(sel[h], t)

Result(h, t) == IF t = NoRelease THEN Swapped(sel[h]) ELSE Reselected(h, t)

\* --rollback wants both links, an install a release id not on disk yet.
Possible(h, t) ==
    IF t = NoRelease THEN NoRelease \notin {sel[h].current, sel[h].previous}
    ELSE t \in {sel[h].current, sel[h].previous} \/ t \notin disk[h]

Performs(h, t) ==
    /\ Possible(h, t)
    /\ sel' = [sel EXCEPT ![h] = Result(h, t)]
    /\ disk' = [disk EXCEPT ![h] = @ \cup ({t} \ {NoRelease})]

\* The three ways a remote command ends for the controller.
Succeeds(k, h, t) ==
    /\ Performs(h, t)
    /\ moved' = [moved EXCEPT ![k] = IF sel'[h] = sel[h] THEN @ ELSE @ \cup {h}]
    /\ UNCHANGED <<late, doubt>>

\* An exchange that fails when it has moved one of its links, or both.
HalfMoves(h, t) ==
    /\ "halfway" \in Faults
    /\ Possible(h, t) /\ t \in {NoRelease, sel[h].previous}
    /\ \E s \in {Swapped(sel[h]), [sel[h] EXCEPT !.current = sel[h].previous]} :
        sel' = [sel EXCEPT ![h] = s]
    /\ UNCHANGED disk

Doubts(h) ==
    /\ Cardinality(doubt \cup {h}) <= MaxDoubt
    /\ doubt' = doubt \cup {h}

Halfway(h, t) ==
    /\ HalfMoves(h, t)
    /\ Doubts(h)
    /\ UNCHANGED late

Refused(h, t) ==
    \/ (~Possible(h, t) \/ "refuse" \in Faults) /\ UNCHANGED <<hostVars, doubt>>
    \/ Halfway(h, t)

Lost(h, t) ==
    /\ "lost" \in Faults
    /\ late' = [late EXCEPT ![h] = @ \cup {t}]
    /\ Doubts(h)
    /\ UNCHANGED <<sel, disk>>

(***************************************************************************)
(* main(): preflight and staging.                                          *)
(***************************************************************************)
Begin(k) ==
    /\ pc[k] = "idle"
    /\ \E g \in Goals, S \in SUBSET Hosts \ {{}}, t \in Targets :
        /\ goal' = [goal EXCEPT ![k] = g]
        /\ target' = [target EXCEPT ![k] = IF g = "apply" THEN t ELSE NoRelease]
        /\ selected' = [selected EXCEPT ![k] = S]
        /\ todo' = [todo EXCEPT ![k] = S]
    /\ origin' = [origin EXCEPT ![k] = [h \in Hosts |-> sel[h].current]]
    /\ Goto(k, "preflight")
    /\ UNCHANGED <<hostVars, seen, done, undo, outcome, moved, stuck, doubt>>

\* _remote_preflight of the next host; any failure ends the invocation.
Preflight(k, h) ==
    /\ pc[k] = "preflight"
    /\ h \in First(todo[k])
    /\ \/ /\ seen' = [seen EXCEPT ![k][h] = sel[h].current]
          /\ todo' = [todo EXCEPT ![k] = @ \ {h}]
          /\ UNCHANGED <<pc, outcome>>
       \/ /\ Faults \cap {"refuse", "lost"} # {}
          /\ Report(k, "failed")
          /\ UNCHANGED <<seen, todo>>
    /\ UNCHANGED <<hostVars, goal, target, selected, done, undo, histVars, doubt>>

\* pending_hosts: those that did not report the target.
AllSelected(k)     == selected[k]
WithoutRelease(k)  == {h \in selected[k] : seen[k][h] = NoRelease}
Pending(k)         == {h \in selected[k] : seen[k][h] # target[k]}

\* An apply with nothing pending is over; staging may fail before any change.
Stage(k) ==
    /\ pc[k] = "preflight"
    /\ todo[k] = {}
    /\ IF goal[k] = "rollback"
       THEN /\ todo' = [todo EXCEPT ![k] = selected[k]]
            /\ Goto(k, "exchange")
            /\ UNCHANGED outcome
       ELSE IF Pending(k) = {} THEN Report(k, "ok") /\ UNCHANGED todo
       ELSE \/ /\ todo' = [todo EXCEPT ![k] = Pending(k)]
               /\ Goto(k, "apply")
               /\ UNCHANGED outcome
            \/ /\ Faults \cap {"refuse", "lost"} # {}
               /\ Report(k, "failed")
               /\ UNCHANGED todo
    /\ UNCHANGED <<hostVars, goal, target, selected, seen, done, undo, histVars, doubt>>

(***************************************************************************)
(* The apply loop.                                                         *)
(***************************************************************************)
\* UpdateError: roll back what is in the list, in reverse.
Unwinds(k) ==
    /\ undo' = [undo EXCEPT ![k] = done[k]]
    /\ Goto(k, "undo")

\* _remote_apply, the command itself; its failure puts the host in no list.
Apply(k, h) ==
    /\ pc[k] = "apply"
    /\ h \in First(todo[k])
    /\ \/ Succeeds(k, h, target[k]) /\ Goto(k, "verify") /\ UNCHANGED undo
       \/ Refused(h, target[k]) /\ Unwinds(k) /\ UNCHANGED moved
       \/ Lost(h, target[k]) /\ Unwinds(k) /\ UNCHANGED moved
    /\ UNCHANGED <<goal, target, selected, seen, todo, done, outcome, origin, stuck>>

\* _remote_verify; a failure rolls this host back first.
Verified(k, h) == sel[h].current = target[k]

Verify(k, h) ==
    /\ pc[k] = "verify"
    /\ h \in First(todo[k])
    /\ \/ /\ Verified(k, h)
          /\ done' = [done EXCEPT ![k] = @ \cup {h}]
          /\ todo' = [todo EXCEPT ![k] = @ \ {h}]
          /\ IF todo[k] = {h} THEN Report(k, "ok") ELSE Goto(k, "apply") /\ UNCHANGED outcome
       \/ /\ ~Verified(k, h) \/ Faults \cap {"refuse", "lost", "verify"} # {}
          /\ Goto(k, "undoSelf")
          /\ UNCHANGED <<done, todo, outcome>>
    /\ UNCHANGED <<hostVars, goal, target, selected, seen, undo, histVars, doubt>>

\* _remote_rollback, whatever it reports.
RollsBack(k, h) ==
    \/ Succeeds(k, h, NoRelease) /\ UNCHANGED stuck
    \/ /\ Refused(h, NoRelease) \/ Lost(h, NoRelease)
       /\ stuck' = [stuck EXCEPT ![k] = @ \cup {h}]
       /\ UNCHANGED moved

UndoSelf(k, h) ==
    /\ pc[k] = "undoSelf"
    /\ h \in First(todo[k])
    /\ RollsBack(k, h)
    /\ Unwinds(k)
    /\ UNCHANGED <<goal, target, selected, seen, todo, done, outcome, origin>>

(***************************************************************************)
(* The loop of a coordinated --rollback.                                   *)
(***************************************************************************)
Exchange(k, h) ==
    /\ pc[k] = "exchange"
    /\ h \in First(todo[k])
    /\ \/ /\ Succeeds(k, h, NoRelease)
          /\ done' = [done EXCEPT ![k] = @ \cup {h}]
          /\ todo' = [todo EXCEPT ![k] = @ \ {h}]
          /\ IF todo[k] = {h} THEN Report(k, "ok") ELSE UNCHANGED <<pc, outcome>>
          /\ UNCHANGED undo
       \/ /\ Refused(h, NoRelease) \/ Lost(h, NoRelease)
          /\ Unwinds(k)
          /\ UNCHANGED <<done, todo, outcome, moved>>
    /\ UNCHANGED <<goal, target, selected, seen, origin, stuck>>

(***************************************************************************)
(* [_remote_rollback(...) for ... in reversed(updated)]: a refusal is only *)
(* reported, an exception of ssh leaves the rest of the list alone.        *)
(***************************************************************************)
Reversed(S) == Last(S)

Undo(k, h) ==
    /\ pc[k] = "undo"
    /\ h \in Reversed(undo[k])
    /\ \/ Succeeds(k, h, NoRelease) /\ UNCHANGED <<pc, outcome, stuck>>
       \/ /\ Refused(h, NoRelease)
          /\ stuck' = [stuck EXCEPT ![k] = @ \cup {h}]
          /\ UNCHANGED <<pc, outcome, moved>>
       \/ /\ Lost(h, NoRelease)
          /\ stuck' = [stuck EXCEPT ![k] = @ \cup {h}]
          /\ Report(k, "failed")
          /\ UNCHANGED moved
    /\ undo' = [undo EXCEPT ![k] = @ \ {h}]
    /\ UNCHANGED <<goal, target, selected, seen, todo, done, origin>>

UndoneCleanly(k) ==
    /\ pc[k] = "undo"
    /\ undo[k] \cup stuck[k] = {}
    /\ Report(k, "failed")
    /\ UNCHANGED <<hostVars, goal, target, selected, seen, todo, done, undo, histVars, doubt>>

Undone(k) ==
    /\ pc[k] = "undo"
    /\ undo[k] = {}
    /\ Report(k, "failed")
    /\ UNCHANGED <<hostVars, goal, target, selected, seen, todo, done, undo, histVars, doubt>>

\* The process exits.
End(k) ==
    /\ pc[k] = "ended"
    /\ Goto(k, "idle")
    /\ goal' = [goal EXCEPT ![k] = "none"]
    /\ target' = [target EXCEPT ![k] = NoRelease]
    /\ selected' = [selected EXCEPT ![k] = {}]
    /\ seen' = [seen EXCEPT ![k] = NoVersions]
    /\ todo' = [todo EXCEPT ![k] = {}]
    /\ done' = [done EXCEPT ![k] = {}]
    /\ undo' = [undo EXCEPT ![k] = {}]
    /\ outcome' = [outcome EXCEPT ![k] = "none"]
    /\ origin' = [origin EXCEPT ![k] = NoVersions]
    /\ moved' = [moved EXCEPT ![k] = {}]
    /\ stuck' = [stuck EXCEPT ![k] = {}]
    /\ UNCHANGED <<hostVars, doubt>>

\* A command whose connection was lost takes effect on its host, half way
\* perhaps, or dies.
LateEffect(h, t) ==
    /\ t \in late[h]
    /\ late' = [late EXCEPT ![h] = @ \ {t}]
    /\ Performs(h, t) \/ HalfMoves(h, t) \/ UNCHANGED <<sel, disk>>
    /\ UNCHANGED <<pc, workVars, histVars, doubt>>

Step(k) ==
    \/ \E h \in Hosts :
        \/ Preflight(k, h)
        \/ Apply(k, h)
        \/ Verify(k, h)
        \/ UndoSelf(k, h)
        \/ Exchange(k, h)
        \/ Undo(k, h)
    \/ Stage(k)
    \/ Undone(k)
    \/ End(k)

Next ==
    \/ \E k \in Controllers : Begin(k) \/ Step(k)
    \/ \E h \in Hosts, t \in Link : LateEffect(h, t)

Spec == Init /\ [][Next]_vars

\* Every remote command has a timeout (--host-timeout), so an invocation goes on.
FairSpec == Spec /\ \A k \in Controllers : WF_vars(Step(k))

(***************************************************************************)
(* Properties.                                                             *)
(***************************************************************************)

\* The type of every variable.
TypeOK ==
    /\ sel \in [Hosts -> [current : Link, previous : Link]]
    /\ disk \in [Hosts -> SUBSET Releases]
    /\ late \in [Hosts -> SUBSET Link]
    /\ pc \in [Controllers -> Points]
    /\ goal \in [Controllers -> {"none", "apply", "rollback"}]
    /\ target \in [Controllers -> Link]
    /\ selected \in [Controllers -> SUBSET Hosts]
    /\ seen \in [Controllers -> [Hosts -> Link]]
    /\ todo \in [Controllers -> SUBSET Hosts]
    /\ done \in [Controllers -> SUBSET Hosts]
    /\ undo \in [Controllers -> SUBSET Hosts]
    /\ outcome \in [Controllers -> {"none", "ok", "failed"}]
    /\ origin \in [Controllers -> [Hosts -> Link]]
    /\ moved \in [Controllers -> SUBSET Hosts]
    /\ stuck \in [Controllers -> SUBSET Hosts]
    /\ doubt \subseteq Hosts

\* "All-or-rollback", one half: an apply that reports success leaves every host
\* it was asked for on the target, the hosts it skipped included.
SuccessIsUniform ==
    \A k \in Controllers : (outcome[k] = "ok" /\ goal[k] = "apply") =>
        \A h \in selected[k] \ doubt : sel[h].current = target[k]

\* The other half: an invocation that failed leaves no host on another release
\* than it found there, except where its rollback reported a failure, or where
\* a command was lost or failed half way.  A host whose rollback was never
\* tried comes before one whose rollback was lost, and is one exchange away
\* from the release it had.
NotTried(k, h) ==
    h \in undo[k] /\ \E g \in stuck[k] \cap doubt : Position[h] < Position[g]

FailureRestores ==
    \A k \in Controllers : outcome[k] = "failed" =>
        \A h \in Hosts \ (stuck[k] \cup doubt) :
            \/ sel[h].current = origin[k][h]
            \/ NotTried(k, h) /\ sel[h].previous = origin[k][h]

\* UPGRADE_AND_ROLLBACK.md, "all-or-rollback": the rollback of one host that is
\* lost keeps no other host from going back.  It does.
AllOrRollback ==
    \A k \in Controllers : outcome[k] = "failed" =>
        \A h \in Hosts \ (stuck[k] \cup doubt) : sel[h].current = origin[k][h]

\* Links always select installed releases, and, unless an exchange failed half
\* way, never the same one twice: a rollback has somewhere to go back to.
LinksStayDistinct ==
    \A h \in Hosts :
        /\ {sel[h].current, sel[h].previous} \subseteq disk[h] \cup {NoRelease}
        /\ sel[h].current = sel[h].previous => sel[h].current = NoRelease \/ h \in doubt

\* Every invocation ends, whatever the hosts do.
InvocationEnds == \A k \in Controllers : pc[k] # "idle" ~> pc[k] = "idle"

\* Engineering evidence, update protocol: "rollback scope is limited to hosts
\* changed by that invocation".
RollbackScope ==
    [][\A k \in Controllers, h \in Hosts :
            (pc[k] = "undo" /\ h \in undo[k] /\ h \notin undo'[k] /\ sel'[h] # sel[h])
            => h \in moved[k]]_vars
=============================================================================

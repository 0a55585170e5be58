------------------------- MODULE FleetUpdateProofs -------------------------
(***************************************************************************)
(* Theorems about the coordinated update for any number of hosts and       *)
(* releases, and any faults.  What concerns the links holds whatever the   *)
(* number of invocations at work; that an invocation ends with all hosts   *)
(* updated or all restored needs that they follow each other, as in the    *)
(* runs: no lock keeps two controllers from undoing each other's work.     *)
(***************************************************************************)
EXTENDS FleetUpdate, TLAPS

OneController == \A j, k \in Controllers : j = k

-----------------------------------------------------------------------------
(***************************************************************************)
(* Types                                                                   *)
(***************************************************************************)
LEMMA FirstIn == ASSUME NEW S PROVE First(S) \subseteq S /\ Last(S) \subseteq S
  BY DEF First, Last

\* What the commands of a host leave.
LEMMA PerformsTyped ==
  ASSUME TypeOK, NEW h \in Hosts, NEW t \in Link, Performs(h, t)
  PROVE  /\ sel' \in [Hosts -> [current : Link, previous : Link]]
         /\ disk' \in [Hosts -> SUBSET Releases]
<1>1. sel[h] \in [current : Link, previous : Link]
  BY DEF TypeOK
<1>2. Result(h, t) \in [current : Link, previous : Link]
  BY <1>1 DEF Result, Reselected, Swapped, Installed
<1> QED BY <1>2 DEF Performs, TypeOK, Link

LEMMA HalfTyped ==
  ASSUME TypeOK, NEW h \in Hosts, NEW t \in Link, HalfMoves(h, t)
  PROVE  sel' \in [Hosts -> [current : Link, previous : Link]] /\ disk' = disk
<1>1. sel[h] \in [current : Link, previous : Link] /\ sel \in [Hosts -> [current : Link, previous : Link]]
  BY DEF TypeOK
<1>2. \A s \in {Swapped(sel[h]), [sel[h] EXCEPT !.current = sel[h].previous]} :
         s \in [current : Link, previous : Link]
  BY <1>1 DEF Swapped
<1> QED BY <1>1, <1>2 DEF HalfMoves

LEMMA RefusedTyped ==
  ASSUME TypeOK, NEW h \in Hosts, NEW t \in Link, Refused(h, t) \/ Lost(h, t)
  PROVE  /\ sel' \in [Hosts -> [current : Link, previous : Link]]
         /\ disk' = disk /\ late' \in [Hosts -> SUBSET Link] /\ doubt' \subseteq Hosts
<1>1. sel[h] \in [current : Link, previous : Link]
  BY DEF TypeOK
<1>2. CASE UNCHANGED <<hostVars, doubt>>
  BY <1>2 DEF hostVars, TypeOK
<1>3. CASE Halfway(h, t)
  BY <1>3, HalfTyped DEF Halfway, Doubts, TypeOK
<1>4. CASE Lost(h, t)
  BY <1>4 DEF Lost, Doubts, TypeOK
<1> QED BY <1>2, <1>3, <1>4 DEF Refused

LEMMA SucceedsTyped ==
  ASSUME TypeOK, NEW k \in Controllers, NEW h \in Hosts, NEW t \in Link, Succeeds(k, h, t)
  PROVE  /\ sel' \in [Hosts -> [current : Link, previous : Link]]
         /\ disk' \in [Hosts -> SUBSET Releases] /\ late' \in [Hosts -> SUBSET Link]
         /\ doubt' \subseteq Hosts /\ moved' \in [Controllers -> SUBSET Hosts]
<1>1. Performs(h, t) /\ UNCHANGED <<late, doubt>>
  BY DEF Succeeds
<1>2. moved' \in [Controllers -> SUBSET Hosts]
  BY DEF Succeeds, TypeOK
<1> QED BY <1>1, <1>2, PerformsTyped DEF TypeOK

LEMMA TypeStep == ASSUME TypeOK, Next PROVE TypeOK'
<1> USE DEF Goto, Report, Unwinds
<1>0. NoRelease \in Link /\ Releases \subseteq Link /\ Targets \subseteq Link
  BY FleetAssumption DEF Link
<1>1. ASSUME NEW k \in Controllers, Begin(k) PROVE TypeOK'
  <2>1. PICK g \in Goals, S \in SUBSET Hosts \ {{}}, t \in Targets :
          /\ goal' = [goal EXCEPT ![k] = g]
          /\ target' = [target EXCEPT ![k] = IF g = "apply" THEN t ELSE NoRelease]
          /\ selected' = [selected EXCEPT ![k] = S]
          /\ todo' = [todo EXCEPT ![k] = S]
    BY <1>1 DEF Begin
  <2>2. [h \in Hosts |-> sel[h].current] \in [Hosts -> Link]
    BY DEF TypeOK
  <2>3. origin' \in [Controllers -> [Hosts -> Link]]
    BY <1>1, <2>2 DEF Begin, TypeOK
  <2>4. target' \in [Controllers -> Link]
    BY <1>0, <2>1 DEF TypeOK
  <2>5. /\ goal' \in [Controllers -> {"none", "apply", "rollback"}]
        /\ selected' \in [Controllers -> SUBSET Hosts] /\ todo' \in [Controllers -> SUBSET Hosts]
    BY <2>1, FleetAssumption DEF TypeOK
  <2> QED BY <1>1, <2>3, <2>4, <2>5 DEF Begin, TypeOK, hostVars, Points
<1>2. ASSUME NEW k \in Controllers, NEW h \in Hosts, Preflight(k, h) PROVE TypeOK'
  <2>1. sel[h].current \in Link
    BY DEF TypeOK
  <2>2. seen' \in [Controllers -> [Hosts -> Link]]
    <3>1. seen \in [Controllers -> [Hosts -> Link]]
      BY DEF TypeOK
    <3> QED BY <1>2, <2>1, <3>1 DEF Preflight
  <2>3. todo' \in [Controllers -> SUBSET Hosts]
    <3>1. todo \in [Controllers -> SUBSET Hosts]
      BY DEF TypeOK
    <3> QED BY <1>2, <3>1 DEF Preflight
  <2>4. /\ pc' \in [Controllers -> Points]
        /\ outcome' \in [Controllers -> {"none", "ok", "failed"}]
    <3>1. pc \in [Controllers -> Points] /\ outcome \in [Controllers -> {"none", "ok", "failed"}]
      BY DEF TypeOK
    <3> QED BY <1>2, <3>1 DEF Preflight, Points
  <2> QED BY <1>2, <2>2, <2>3, <2>4 DEF Preflight, TypeOK, hostVars, histVars
<1>3. ASSUME NEW k \in Controllers, Stage(k) PROVE TypeOK'
  <2>1. Pending(k) \subseteq Hosts
    BY DEF Pending, TypeOK
  <2>2. todo' \in [Controllers -> SUBSET Hosts]
    <3>1. todo \in [Controllers -> SUBSET Hosts] /\ selected[k] \subseteq Hosts
      BY DEF TypeOK
    <3> QED BY <1>3, <2>1, <3>1 DEF Stage
  <2>3. /\ pc' \in [Controllers -> Points]
        /\ outcome' \in [Controllers -> {"none", "ok", "failed"}]
    <3>1. pc \in [Controllers -> Points] /\ outcome \in [Controllers -> {"none", "ok", "failed"}]
      BY DEF TypeOK
    <3> QED BY <1>3, <3>1 DEF Stage, Points
  <2> QED BY <1>3, <2>2, <2>3 DEF Stage, TypeOK, hostVars, histVars
<1>4. ASSUME NEW k \in Controllers, NEW h \in Hosts, Apply(k, h) PROVE TypeOK'
  <2>1. target[k] \in Link
    BY DEF TypeOK
  <2>2. /\ sel' \in [Hosts -> [current : Link, previous : Link]]
        /\ disk' \in [Hosts -> SUBSET Releases] /\ late' \in [Hosts -> SUBSET Link]
        /\ doubt' \subseteq Hosts /\ moved' \in [Controllers -> SUBSET Hosts]
    BY <1>4, <2>1, SucceedsTyped, RefusedTyped DEF Apply, TypeOK
  <2>3. undo' \in [Controllers -> SUBSET Hosts] /\ pc' \in [Controllers -> Points]
    <3>1. undo \in [Controllers -> SUBSET Hosts] /\ pc \in [Controllers -> Points]
          /\ done[k] \subseteq Hosts
      BY DEF TypeOK
    <3> QED BY <1>4, <3>1 DEF Apply, Points
  <2> QED BY <1>4, <2>2, <2>3 DEF Apply, TypeOK
<1>5. ASSUME NEW k \in Controllers, NEW h \in Hosts, Verify(k, h) PROVE TypeOK'
  <2>1. todo' \in [Controllers -> SUBSET Hosts] /\ done' \in [Controllers -> SUBSET Hosts]
    <3>1. todo \in [Controllers -> SUBSET Hosts] /\ done \in [Controllers -> SUBSET Hosts]
      BY DEF TypeOK
    <3> QED BY <1>5, <3>1 DEF Verify
  <2>2. /\ pc' \in [Controllers -> Points]
        /\ outcome' \in [Controllers -> {"none", "ok", "failed"}]
    <3>1. pc \in [Controllers -> Points] /\ outcome \in [Controllers -> {"none", "ok", "failed"}]
      BY DEF TypeOK
    <3> QED BY <1>5, <3>1 DEF Verify, Points
  <2> QED BY <1>5, <2>1, <2>2 DEF Verify, TypeOK, hostVars, histVars
<1>6. ASSUME NEW k \in Controllers, NEW h \in Hosts, UndoSelf(k, h) PROVE TypeOK'
  <2>1. /\ sel' \in [Hosts -> [current : Link, previous : Link]]
        /\ disk' \in [Hosts -> SUBSET Releases] /\ late' \in [Hosts -> SUBSET Link]
        /\ doubt' \subseteq Hosts /\ moved' \in [Controllers -> SUBSET Hosts]
    BY <1>0, <1>6, SucceedsTyped, RefusedTyped DEF UndoSelf, RollsBack, TypeOK
  <2>2. stuck' \in [Controllers -> SUBSET Hosts]
    <3>1. stuck \in [Controllers -> SUBSET Hosts]
      BY DEF TypeOK
    <3> QED BY <1>6, <3>1 DEF UndoSelf, RollsBack
  <2>3. undo' \in [Controllers -> SUBSET Hosts] /\ pc' \in [Controllers -> Points]
    <3>1. undo \in [Controllers -> SUBSET Hosts] /\ pc \in [Controllers -> Points]
          /\ done[k] \subseteq Hosts
      BY DEF TypeOK
    <3> QED BY <1>6, <3>1 DEF UndoSelf, Points
  <2> QED BY <1>6, <2>1, <2>2, <2>3 DEF UndoSelf, TypeOK
<1>7. ASSUME NEW k \in Controllers, NEW h \in Hosts, Exchange(k, h) PROVE TypeOK'
  <2>1. /\ sel' \in [Hosts -> [current : Link, previous : Link]]
        /\ disk' \in [Hosts -> SUBSET Releases] /\ late' \in [Hosts -> SUBSET Link]
        /\ doubt' \subseteq Hosts /\ moved' \in [Controllers -> SUBSET Hosts]
    BY <1>0, <1>7, SucceedsTyped, RefusedTyped DEF Exchange, TypeOK
  <2>2. /\ todo' \in [Controllers -> SUBSET Hosts] /\ done' \in [Controllers -> SUBSET Hosts]
        /\ undo' \in [Controllers -> SUBSET Hosts]
    <3>1. /\ todo \in [Controllers -> SUBSET Hosts] /\ done \in [Controllers -> SUBSET Hosts]
          /\ undo \in [Controllers -> SUBSET Hosts]
      BY DEF TypeOK
    <3> QED BY <1>7, <3>1 DEF Exchange
  <2>3. /\ pc' \in [Controllers -> Points]
        /\ outcome' \in [Controllers -> {"none", "ok", "failed"}]
    <3>1. pc \in [Controllers -> Points] /\ outcome \in [Controllers -> {"none", "ok", "failed"}]
      BY DEF TypeOK
    <3> QED BY <1>7, <3>1 DEF Exchange, Points
  <2> QED BY <1>7, <2>1, <2>2, <2>3 DEF Exchange, TypeOK
<1>8. ASSUME NEW k \in Controllers, NEW h \in Hosts, Undo(k, h) PROVE TypeOK'
  <2>1. /\ sel' \in [Hosts -> [current : Link, previous : Link]]
        /\ disk' \in [Hosts -> SUBSET Releases] /\ late' \in [Hosts -> SUBSET Link]
        /\ doubt' \subseteq Hosts /\ moved' \in [Controllers -> SUBSET Hosts]
    BY <1>0, <1>8, SucceedsTyped, RefusedTyped DEF Undo, TypeOK
  <2>2. stuck' \in [Controllers -> SUBSET Hosts] /\ undo' \in [Controllers -> SUBSET Hosts]
    <3>1. stuck \in [Controllers -> SUBSET Hosts] /\ undo \in [Controllers -> SUBSET Hosts]
      BY DEF TypeOK
    <3> QED BY <1>8, <3>1 DEF Undo
  <2>3. /\ pc' \in [Controllers -> Points]
        /\ outcome' \in [Controllers -> {"none", "ok", "failed"}]
    <3>1. pc \in [Controllers -> Points] /\ outcome \in [Controllers -> {"none", "ok", "failed"}]
      BY DEF TypeOK
    <3> QED BY <1>8, <3>1 DEF Undo, Points
  <2> QED BY <1>8, <2>1, <2>2, <2>3 DEF Undo, TypeOK
<1>9. ASSUME NEW k \in Controllers, Undone(k) PROVE TypeOK'
  BY <1>9 DEF Undone, TypeOK, hostVars, histVars, Points
<1>10. ASSUME NEW k \in Controllers, End(k) PROVE TypeOK'
  <2>1. NoVersions \in [Hosts -> Link]
    BY <1>0 DEF NoVersions
  <2> QED BY <1>0, <1>10, <2>1 DEF End, TypeOK, hostVars, Points
<1>11. ASSUME NEW h \in Hosts, NEW t \in Link, LateEffect(h, t) PROVE TypeOK'
  <2>1. /\ sel' \in [Hosts -> [current : Link, previous : Link]]
        /\ disk' \in [Hosts -> SUBSET Releases]
    BY <1>11, PerformsTyped, HalfTyped DEF LateEffect, TypeOK
  <2> QED BY <1>11, <2>1 DEF LateEffect, TypeOK, workVars, histVars
<1> QED BY <1>1, <1>2, <1>3, <1>4, <1>5, <1>6, <1>7, <1>8, <1>9, <1>10, <1>11 DEF Next, Step

LEMMA TypeInit == Init => TypeOK
<1> SUFFICES ASSUME Init PROVE TypeOK
  OBVIOUS
<1>1. NoRelease \in Link /\ Link \ {NoRelease} = Releases
  BY FleetAssumption DEF Link
<1>2. /\ sel \in [Hosts -> [current : Link, previous : Link]]
      /\ disk \in [Hosts -> SUBSET Releases]
  BY <1>1 DEF Init
<1>3. NoVersions \in [Hosts -> Link]
  BY <1>1 DEF NoVersions
<1> QED BY <1>1, <1>2, <1>3 DEF Init, TypeOK, Points
-----------------------------------------------------------------------------
(***************************************************************************)
(* The links                                                               *)
(***************************************************************************)
\* A host without a release has no previous one either: an install that finds
\* no current release leaves previous alone.
LinksInv ==
  /\ LinksStayDistinct
  /\ \A h \in Hosts : sel[h].current = NoRelease => sel[h].previous = NoRelease

\* A command nobody waits for any more is of a host in doubt.
LateInDoubt == \A h \in Hosts : late[h] # {} => h \in doubt

LEMMA LinksStart == Init => LinksInv
<1> SUFFICES ASSUME Init PROVE LinksInv
  OBVIOUS
<1>1. \A h \in Hosts : /\ disk[h] = {sel[h].current, sel[h].previous} \ {NoRelease}
                       /\ sel[h].current = NoRelease => sel[h].previous = NoRelease
                       /\ sel[h].current = sel[h].previous => sel[h].current = NoRelease
  BY DEF Init
<1> QED BY <1>1 DEF LinksInv, LinksStayDistinct

LEMMA PerformsLinks ==
  ASSUME TypeOK, LinksInv, NEW h \in Hosts, NEW t \in Link, Performs(h, t), doubt \subseteq doubt'
  PROVE  LinksInv'
<1> DEFINE s == sel[h]
<1>1. s \in [current : Link, previous : Link]
  BY DEF TypeOK
<1>2. /\ {s.current, s.previous} \subseteq disk[h] \cup {NoRelease}
      /\ s.current = s.previous => s.current = NoRelease \/ h \in doubt
      /\ s.current = NoRelease => s.previous = NoRelease
  BY DEF LinksInv, LinksStayDistinct
<1>3. /\ sel'[h] = Result(h, t) /\ disk'[h] = disk[h] \cup ({t} \ {NoRelease})
      /\ \A g \in Hosts \ {h} : sel'[g] = sel[g] /\ disk'[g] = disk[g]
  BY DEF Performs, TypeOK
<1>4. /\ {sel'[h].current, sel'[h].previous} \subseteq disk'[h] \cup {NoRelease}
      /\ sel'[h].current = sel'[h].previous => sel'[h].current = NoRelease \/ h \in doubt
      /\ sel'[h].current = NoRelease => sel'[h].previous = NoRelease
  <2>1. CASE t = NoRelease
    BY <1>1, <1>2, <1>3, <2>1 DEF Performs, Possible, Result, Swapped
  <2>2. CASE t # NoRelease
    BY <1>1, <1>2, <1>3, <2>2 DEF Result, Reselected, Swapped, Installed
  <2> QED BY <2>1, <2>2
<1> QED BY <1>3, <1>4 DEF LinksInv, LinksStayDistinct

LEMMA HalfLinks ==
  ASSUME TypeOK, LinksInv, NEW h \in Hosts, NEW t \in Link, HalfMoves(h, t), doubt \cup {h} \subseteq doubt'
  PROVE  LinksInv'
<1> DEFINE s == sel[h]
<1>1. s \in [current : Link, previous : Link]
  BY DEF TypeOK
<1>2. PICK u \in {Swapped(s), [s EXCEPT !.current = s.previous]} : sel' = [sel EXCEPT ![h] = u]
  BY DEF HalfMoves
<1>3. sel'[h] = u /\ disk' = disk /\ \A g \in Hosts \ {h} : sel'[g] = sel[g]
  BY <1>2 DEF HalfMoves, TypeOK
<1>4. u.current = s.previous /\ u.previous \in {s.current, s.previous}
  BY <1>1, <1>2 DEF Swapped
<1>5. s.previous = NoRelease => s.current = NoRelease
  BY DEF HalfMoves, Possible, LinksInv, LinksStayDistinct
<1>6. {s.current, s.previous} \subseteq disk[h] \cup {NoRelease}
      /\ (s.current = NoRelease => s.previous = NoRelease)
  BY DEF LinksInv, LinksStayDistinct
<1> QED BY <1>3, <1>4, <1>5, <1>6 DEF LinksInv, LinksStayDistinct

LEMMA RefusedLinks ==
  ASSUME TypeOK, LinksInv, NEW h \in Hosts, NEW t \in Link, Refused(h, t) \/ Lost(h, t)
  PROVE  LinksInv'
<1>1. CASE UNCHANGED <<sel, disk>> /\ doubt \subseteq doubt'
  BY <1>1 DEF LinksInv, LinksStayDistinct
<1>2. CASE Halfway(h, t)
  BY <1>2, HalfLinks DEF Halfway, Doubts
<1> QED BY <1>1, <1>2 DEF Refused, Lost, Doubts, hostVars

LEMMA SucceedsLinks ==
  ASSUME TypeOK, LinksInv, NEW k \in Controllers, NEW h \in Hosts, NEW t \in Link,
         Succeeds(k, h, t)
  PROVE  LinksInv'
BY PerformsLinks DEF Succeeds

LEMMA LinksStep == ASSUME TypeOK, LinksInv, LateInDoubt, Next PROVE LinksInv'
<1>0. NoRelease \in Link /\ \A k \in Controllers : target[k] \in Link
  BY DEF Link, TypeOK
<1>1. CASE UNCHANGED <<sel, disk, doubt>>
  BY <1>1 DEF LinksInv, LinksStayDistinct
<1>2. ASSUME NEW k \in Controllers, NEW h \in Hosts,
             Apply(k, h) \/ UndoSelf(k, h) \/ Exchange(k, h) \/ Undo(k, h)
      PROVE  LinksInv'
  BY <1>0, <1>2, SucceedsLinks, RefusedLinks DEF Apply, UndoSelf, RollsBack, Exchange, Undo
<1>3. ASSUME NEW h \in Hosts, NEW t \in Link, LateEffect(h, t) PROVE LinksInv'
  <2>1. h \in doubt /\ doubt' = doubt
    BY <1>3 DEF LateEffect, LateInDoubt
  <2> QED BY <1>1, <1>3, <2>1, PerformsLinks, HalfLinks DEF LateEffect
<1> QED BY <1>1, <1>2, <1>3 DEF Next, Begin, Step, Preflight, Verify, Stage, Undone, End, hostVars

LEMMA LateStays == ASSUME TypeOK, LateInDoubt, Next PROVE LateInDoubt'
<1>1. CASE UNCHANGED <<late, doubt>>
  BY <1>1 DEF LateInDoubt
<1>2. ASSUME NEW k \in Controllers, NEW h \in Hosts,
             Apply(k, h) \/ UndoSelf(k, h) \/ Exchange(k, h) \/ Undo(k, h)
      PROVE  LateInDoubt'
  <2>1. ASSUME NEW t, Refused(h, t) \/ Lost(h, t) PROVE LateInDoubt'
    BY <2>1 DEF Refused, Halfway, Doubts, Lost, LateInDoubt, TypeOK, hostVars
  <2> QED BY <1>1, <1>2, <2>1 DEF Apply, UndoSelf, RollsBack, Exchange, Undo, Succeeds
<1>3. ASSUME NEW h \in Hosts, NEW t \in Link, LateEffect(h, t) PROVE LateInDoubt'
  BY <1>3 DEF LateEffect, LateInDoubt, TypeOK
<1> QED BY <1>1, <1>2, <1>3 DEF Next, Begin, Step, Preflight, Verify, Stage, Undone, End, hostVars

\* The type invariant, for any number of hosts and of invocations at work at once.
THEOREM TypeCorrect == Spec => []TypeOK
<1>1. TypeOK /\ [Next]_vars => TypeOK'
  <2>1. CASE UNCHANGED vars
    BY <2>1 DEF TypeOK, vars, hostVars, workVars, histVars
  <2> QED BY <2>1, TypeStep
<1> QED BY <1>1, TypeInit, PTL DEF Spec

\* Whatever invocations run and whatever fails, a link selects an installed
\* release, and the two links never the same one unless an exchange broke off.
THEOREM LinksSelectDistinct == Spec => []LinksStayDistinct
<1> DEFINE Inv == TypeOK /\ LinksInv /\ LateInDoubt
<1>1. Init => Inv
  BY TypeInit, LinksStart DEF Init, LateInDoubt
<1>2. Inv /\ [Next]_vars => Inv'
  <2>1. CASE UNCHANGED vars
    BY <2>1 DEF vars, hostVars, workVars, histVars, TypeOK, LinksInv, LinksStayDistinct, LateInDoubt
  <2> QED BY <2>1, TypeStep, LinksStep, LateStays
<1>3. Inv => LinksStayDistinct
  BY DEF LinksInv
<1> QED BY <1>1, <1>2, <1>3, PTL DEF Spec
-----------------------------------------------------------------------------
(***************************************************************************)
(* A host keeps the contract of its selector, which ReleaseSelector is     *)
(* proved to implement.                                                    *)
(***************************************************************************)
Installer(h, t) == INSTANCE SelectorContract
    WITH stage <- "working", task <- t, links <- sel[h]

MayDeliver(h) ==
  sel'[h] \in {sel[h]} \cup Installer(h, "install")!Delivered \cup Installer(h, "rollback")!Delivered

MayFail(h) == sel'[h] \in Installer(h, "rollback")!LeftByFailure

HostsKeepContract ==
  [][\A h \in Hosts : MayDeliver(h) \/ (MayFail(h) /\ h \in doubt')]_vars

LEMMA PerformsDelivers ==
  ASSUME TypeOK, LinksInv, NEW h \in Hosts, NEW t \in Link, Performs(h, t)
  PROVE  \A g \in Hosts : MayDeliver(g)
<1> DEFINE s == sel[h]
<1>1. s \in [current : Link, previous : Link] /\ (s.current = NoRelease => s.previous = NoRelease)
  BY DEF TypeOK, LinksInv
<1>2. sel'[h] = Result(h, t) /\ Possible(h, t) /\ \A g \in Hosts \ {h} : sel'[g] = sel[g]
  BY DEF Performs, TypeOK
<1>3. CASE Result(h, t) = s
  BY <1>2, <1>3 DEF MayDeliver
<1>4. CASE /\ Result(h, t) = Swapped(s)
           /\ NoRelease \notin {s.current, s.previous}
  <2>1. Swapped(s) \in Installer(h, "rollback")!Delivered
    BY <1>1, <1>4 DEF Swapped, Installer!Delivered, Installer!Exchangeable, Installer!Swapped,
       Installer!Links, Installer!Link, Link
  <2> QED BY <1>2, <1>4, <2>1 DEF MayDeliver
<1>5. CASE /\ Result(h, t) = Installed(s, t)
           /\ t \in Releases \ {s.current, s.previous}
  <2>1. Installed(s, t) \in Installer(h, "install")!Delivered
    <3>1. Installed(s, t) = [Installer(h, "install")!Linked EXCEPT !.current = t]
      <4>1. Installer(h, "install")!Linked =
              [current |-> s.current, previous |-> IF s.current = NoRelease THEN s.previous ELSE s.current]
        BY <1>1 DEF Installer!Linked
      <4> QED BY <4>1 DEF Installed
    <3>2. Installed(s, t) \in Installer(h, "install")!Installed
      BY <1>5, <3>1 DEF Installer!Installed
    <3>3. Installed(s, t) \in Installer(h, "install")!Links
      BY <1>1, <1>5 DEF Installed, Installer!Links, Installer!Link, Link
    <3> QED BY <3>2, <3>3 DEF Installer!Delivered
  <2> QED BY <1>2, <1>5, <2>1 DEF MayDeliver
<1> QED BY <1>1, <1>2, <1>3, <1>4, <1>5 DEF Result, Reselected, Possible, Link

LEMMA HalfFails ==
  ASSUME TypeOK, LinksInv, NEW h \in Hosts, NEW t \in Link, HalfMoves(h, t)
  PROVE  MayFail(h) /\ \A g \in Hosts \ {h} : sel'[g] = sel[g]
<1> DEFINE s == sel[h]
<1>1. s \in [current : Link, previous : Link] /\ (s.current = NoRelease => s.previous = NoRelease)
  BY DEF TypeOK, LinksInv
<1>2. PICK u \in {Swapped(s), [s EXCEPT !.current = s.previous]} : sel' = [sel EXCEPT ![h] = u]
  BY DEF HalfMoves
<1>3. sel'[h] = u /\ \A g \in Hosts \ {h} : sel'[g] = sel[g]
  BY <1>2 DEF TypeOK
<1>4. NoRelease \notin {s.current, s.previous}
  BY <1>1 DEF HalfMoves, Possible
<1>5. u \in Installer(h, "rollback")!LeftByFailure
  BY <1>1, <1>2, <1>4 DEF Swapped, Installer!LeftByFailure, Installer!Exchangeable,
     Installer!Swapped, Installer!HalfSwapped, Installer!Links, Installer!Link, Link
<1> QED BY <1>3, <1>5 DEF MayFail

LEMMA ContractKept ==
  ASSUME TypeOK, LinksInv, LateInDoubt, Next, NEW g \in Hosts
  PROVE  MayDeliver(g) \/ (MayFail(g) /\ g \in doubt')
<1>0. NoRelease \in Link /\ \A k \in Controllers : target[k] \in Link
  BY DEF Link, TypeOK
<1>1. CASE UNCHANGED sel
  BY <1>1 DEF MayDeliver
<1>2. ASSUME NEW h \in Hosts, NEW t \in Link, Performs(h, t) PROVE MayDeliver(g)
  BY <1>2, PerformsDelivers
<1>3. ASSUME NEW h \in Hosts, NEW t \in Link, HalfMoves(h, t), h \in doubt'
      PROVE  MayDeliver(g) \/ (MayFail(g) /\ g \in doubt')
  <2>1. CASE g = h
    BY <1>3, <2>1, HalfFails
  <2>2. CASE g # h
    BY <1>3, <2>2, HalfFails DEF MayDeliver
  <2> QED BY <2>1, <2>2
<1>4. ASSUME NEW h \in Hosts, NEW t \in Link, Refused(h, t) \/ Lost(h, t)
      PROVE  MayDeliver(g) \/ (MayFail(g) /\ g \in doubt')
  <2>1. CASE Halfway(h, t)
    <3>1. HalfMoves(h, t) /\ h \in doubt'
      BY <2>1 DEF Halfway, Doubts
    <3> QED BY <1>3, <3>1
  <2> QED BY <1>1, <1>4, <2>1 DEF Refused, Lost, Doubts, hostVars
<1>5. ASSUME NEW k \in Controllers, NEW h \in Hosts,
             Apply(k, h) \/ UndoSelf(k, h) \/ Exchange(k, h) \/ Undo(k, h)
      PROVE  MayDeliver(g) \/ (MayFail(g) /\ g \in doubt')
  <2>1. PICK t \in Link : Succeeds(k, h, t) \/ Refused(h, t) \/ Lost(h, t)
    BY <1>0, <1>5 DEF Apply, UndoSelf, RollsBack, Exchange, Undo
  <2> QED BY <1>2, <1>4, <2>1 DEF Succeeds
<1>6. ASSUME NEW h \in Hosts, NEW t \in Link, LateEffect(h, t)
      PROVE  MayDeliver(g) \/ (MayFail(g) /\ g \in doubt')
  <2>1. h \in doubt'
    BY <1>6 DEF LateEffect, LateInDoubt
  <2> QED BY <1>1, <1>2, <1>3, <1>6, <2>1 DEF LateEffect
<1> QED BY <1>1, <1>5, <1>6
    DEF Next, Begin, Step, Preflight, Verify, Stage, Undone, End, hostVars

\* However many controllers are at work, the links of a host only ever move as
\* SelectorContract lets an install or a rollback move them, and as it lets one
\* that failed only where a command was lost or broke off.
THEOREM HostsAreSelectors == Spec => HostsKeepContract
<1> DEFINE Inv == TypeOK /\ LinksInv /\ LateInDoubt
<1>1. Init => Inv
  BY TypeInit, LinksStart DEF Init, LateInDoubt
<1>2. Inv /\ [Next]_vars => Inv'
  <2>1. CASE UNCHANGED vars
    BY <2>1 DEF vars, hostVars, workVars, histVars, TypeOK, LinksInv, LinksStayDistinct, LateInDoubt
  <2> QED BY <2>1, TypeStep, LinksStep, LateStays
<1>3. Inv /\ [Next]_vars => [\A h \in Hosts : MayDeliver(h) \/ (MayFail(h) /\ h \in doubt')]_vars
  BY ContractKept
<1> QED BY <1>1, <1>2, <1>3, PTL DEF Spec, HostsKeepContract
-----------------------------------------------------------------------------
(***************************************************************************)
(* All or rollback                                                         *)
(***************************************************************************)
\* The host whose command succeeded and which is in no list yet.
Between(k) == IF pc[k] \in {"verify", "undoSelf"} THEN First(todo[k]) ELSE {}

\* The hosts this invocation has moved and not put back.
Changed(k) ==
  CASE pc[k] = "undo" -> undo[k]
    [] pc[k] \in {"apply", "exchange", "verify", "undoSelf"} -> done[k] \cup Between(k)
    [] OTHER -> {}

Excused(k) == IF pc[k] = "undo" THEN doubt \cup stuck[k] ELSE doubt

\* A host that was moved remembers where it came from in its previous link, which
\* is why rolling back is exchanging; any other is where it was.
Traced(k) ==
  pc[k] \notin {"idle", "ended"} =>
    \A h \in Hosts \ Excused(k) :
      IF h \in Changed(k) THEN sel[h].previous = origin[k][h]
                          ELSE sel[h].current = origin[k][h]

Listed(k) ==
  /\ todo[k] \cap done[k] = {}
  /\ pc[k] \in {"idle", "preflight"} => done[k] = {}
  /\ pc[k] = "preflight" /\ goal[k] # "rollback" => goal[k] = "apply" /\ target[k] # NoRelease
  /\ pc[k] \in {"apply", "verify", "undoSelf"} => goal[k] = "apply" /\ target[k] # NoRelease
  /\ pc[k] = "exchange" => goal[k] = "rollback"
  /\ pc[k] = "idle" => outcome[k] = "none"
  /\ outcome[k] # "none" => pc[k] = "ended"

\* Nothing moves between the preflight of a host and its turn.
Compared(k) ==
  /\ pc[k] = "preflight" =>
       \A h \in selected[k] \ (todo[k] \cup doubt) : seen[k][h] = origin[k][h]
  /\ pc[k] \in {"apply", "verify", "undoSelf"} =>
       \A h \in todo[k] \ doubt : origin[k][h] # target[k]
  /\ pc[k] \in {"apply", "verify"} =>
       \A h \in selected[k] \ (todo[k] \cup doubt) : sel[h].current = target[k]

Concluded(k) ==
  /\ outcome[k] = "failed" =>
       \A h \in Hosts \ (stuck[k] \cup doubt) :
         sel[h].current = origin[k][h] \/ (NotTried(k, h) /\ sel[h].previous = origin[k][h])
  /\ outcome[k] = "ok" /\ goal[k] = "apply" =>
       \A h \in selected[k] \ doubt : sel[h].current = target[k]

Walk(k) == Traced(k) /\ Listed(k) /\ Compared(k) /\ Concluded(k)

WalkInv == OneController /\ TypeOK /\ LinksInv /\ LateInDoubt /\ \A k \in Controllers : Walk(k)

\* The list is in order: its first host is one.
LEMMA OneFirst == ASSUME NEW S \in SUBSET Hosts, NEW g \in First(S), NEW h \in First(S)
                  PROVE  g = h
<1>1. Position[g] <= Position[h] /\ Position[h] <= Position[g] /\ g \in Hosts /\ h \in Hosts
  BY DEF First
<1>2. Position[g] = Position[h]
  BY <1>1, FleetAssumption
<1> QED BY <1>1, <1>2, FleetAssumption

\* What a command of this invocation does to a host nobody else touches.
LEMMA Moves ==
  ASSUME WalkInv, NEW k \in Controllers, NEW h \in Hosts, NEW t \in Link, Succeeds(k, h, t)
  PROVE  /\ \A g \in Hosts \ {h} : sel'[g] = sel[g]
         /\ sel[h].current # t => sel'[h].previous = sel[h].current
         /\ t = NoRelease => sel'[h].current = sel[h].previous /\ sel'[h].previous = sel[h].current
         /\ t # NoRelease => sel'[h].current = t
         /\ LateInDoubt' /\ doubt' = doubt
<1>1. /\ sel[h] \in [current : Link, previous : Link]
      /\ sel[h].current = NoRelease => sel[h].previous = NoRelease
  BY DEF WalkInv, TypeOK, LinksInv
<1>2. sel'[h] = Result(h, t) /\ Possible(h, t) /\ \A g \in Hosts \ {h} : sel'[g] = sel[g]
  BY DEF Succeeds, Performs, WalkInv, TypeOK
<1>3. LateInDoubt' /\ doubt' = doubt
  BY DEF Succeeds, WalkInv, LateInDoubt
<1>4. CASE t = NoRelease
  BY <1>1, <1>2, <1>3, <1>4 DEF Result, Swapped
<1>5. CASE t # NoRelease
  BY <1>1, <1>2, <1>3, <1>5 DEF Result, Reselected, Swapped, Installed
<1> QED BY <1>4, <1>5

LEMMA Breaks ==
  ASSUME WalkInv, NEW h \in Hosts, NEW t \in Link, Refused(h, t) \/ Lost(h, t)
  PROVE  /\ \A g \in Hosts \ doubt' : sel'[g] = sel[g]
         /\ doubt \subseteq doubt' /\ LateInDoubt'
<1>1. CASE UNCHANGED <<hostVars, doubt>>
  BY <1>1 DEF hostVars, WalkInv, LateInDoubt
<1>2. CASE Halfway(h, t) \/ Lost(h, t)
  <2>1. doubt' = doubt \cup {h} /\ \A g \in Hosts \ {h} : sel'[g] = sel[g] /\ late'[g] = late[g]
    BY <1>2 DEF Halfway, Doubts, HalfMoves, Lost, WalkInv, TypeOK
  <2> QED BY <2>1 DEF WalkInv, LateInDoubt
<1> QED BY <1>1, <1>2 DEF Refused

\* What is left to show of a step of the one invocation there is.
LEMMA Alone ==
  ASSUME WalkInv, NEW k \in Controllers, Step(k) \/ Begin(k), LateInDoubt', Walk(k)'
  PROVE  WalkInv'
<1>1. Next
  BY DEF Next
<1>2. TypeOK' /\ LinksInv'
  BY <1>1, TypeStep, LinksStep DEF WalkInv
<1>3. \A j \in Controllers : j = k
  BY DEF WalkInv, OneController
<1> QED BY <1>2, <1>3 DEF WalkInv, OneController

\* The functions of the invocation, at itself.
LEMMA AtItself ==
  ASSUME TypeOK, NEW k \in Controllers
  PROVE  /\ \A x : (Goto(k, x) => pc'[k] = x) /\ (Report(k, x) => pc'[k] = "ended" /\ outcome'[k] = x)
         /\ Unwinds(k) => pc'[k] = "undo" /\ undo'[k] = done[k]
         /\ todo[k] \subseteq Hosts /\ done[k] \subseteq Hosts /\ undo[k] \subseteq Hosts
         /\ selected[k] \subseteq Hosts
         /\ \A S : /\ todo' = [todo EXCEPT ![k] = S] => todo'[k] = S
                   /\ done' = [done EXCEPT ![k] = S] => done'[k] = S
                   /\ undo' = [undo EXCEPT ![k] = S] => undo'[k] = S
                   /\ stuck' = [stuck EXCEPT ![k] = S] => stuck'[k] = S
BY DEF TypeOK, Goto, Report, Unwinds

LEMMA BeginWalks == ASSUME WalkInv, NEW k \in Controllers, Begin(k) PROVE Walk(k)'
<1>1. PICK g \in Goals, S \in SUBSET Hosts \ {{}}, t \in Targets :
        /\ goal' = [goal EXCEPT ![k] = g]
        /\ target' = [target EXCEPT ![k] = IF g = "apply" THEN t ELSE NoRelease]
        /\ selected' = [selected EXCEPT ![k] = S]
        /\ todo' = [todo EXCEPT ![k] = S]
  BY DEF Begin
<1>2. /\ pc[k] = "idle" /\ pc'[k] = "preflight" /\ done'[k] = {} /\ outcome'[k] = "none"
      /\ done[k] = {} /\ UNCHANGED <<sel, doubt>>
      /\ \A h \in Hosts : origin'[k][h] = sel[h].current
      /\ todo'[k] = S /\ selected'[k] = S /\ goal'[k] = g
      /\ target'[k] = IF g = "apply" THEN t ELSE NoRelease
  BY <1>1 DEF Begin, Goto, WalkInv, TypeOK, Walk, Listed, hostVars
<1>3. g \in {"apply", "rollback"} /\ t # NoRelease
  BY FleetAssumption
<1> QED BY <1>2, <1>3 DEF Walk, Traced, Changed, Excused, Listed, Compared, Concluded

LEMMA PreflightWalks ==
  ASSUME WalkInv, NEW k \in Controllers, NEW h \in Hosts, Preflight(k, h)
  PROVE  Walk(k)'
<1>1. /\ pc[k] = "preflight" /\ UNCHANGED <<sel, doubt, goal, target, selected, done, origin, stuck>>
      /\ Walk(k) /\ outcome[k] = "none"
  BY DEF Preflight, hostVars, histVars, WalkInv, Walk, Listed
<1>2. \A g \in Hosts \ doubt : sel[g].current = origin[k][g]
  BY <1>1 DEF Walk, Traced, Changed, Excused
<1>3. CASE /\ seen' = [seen EXCEPT ![k][h] = sel[h].current]
           /\ todo' = [todo EXCEPT ![k] = @ \ {h}] /\ UNCHANGED <<pc, outcome>>
  <2>1. /\ todo'[k] = todo[k] \ {h}
        /\ \A g \in Hosts : seen'[k][g] = IF g = h THEN sel[h].current ELSE seen[k][g]
    <3>1. seen \in [Controllers -> [Hosts -> Link]] /\ todo \in [Controllers -> SUBSET Hosts]
      BY DEF WalkInv, TypeOK
    <3> QED BY <1>3, <3>1
  <2>2. selected[k] \subseteq Hosts
    BY AtItself DEF WalkInv
  <2>3. Compared(k)'
    BY <1>1, <1>2, <1>3, <2>1, <2>2 DEF Walk, Compared
  <2>4. Traced(k)' /\ Listed(k)' /\ Concluded(k)'
    BY <1>1, <1>2, <1>3, <2>1 DEF Walk, Traced, Changed, Excused, Listed, Concluded
  <2> QED BY <2>3, <2>4 DEF Walk
<1>4. CASE Report(k, "failed") /\ UNCHANGED <<seen, todo>>
  <2>1. pc'[k] = "ended" /\ outcome'[k] = "failed"
    BY <1>4, AtItself DEF WalkInv
  <2> QED BY <1>1, <1>2, <1>4, <2>1 DEF Walk, Traced, Listed, Compared, Concluded
<1> QED BY <1>3, <1>4 DEF Preflight

LEMMA StageWalks == ASSUME WalkInv, NEW k \in Controllers, Stage(k) PROVE Walk(k)'
<1>1. /\ pc[k] = "preflight" /\ todo[k] = {} /\ done[k] = {} /\ outcome[k] = "none" /\ Walk(k)
      /\ UNCHANGED <<sel, doubt, goal, target, selected, seen, done, origin, stuck>>
  BY DEF Stage, hostVars, histVars, WalkInv, Walk, Listed
<1>2. /\ \A g \in Hosts \ doubt : sel[g].current = origin[k][g]
      /\ \A g \in selected[k] \ doubt : seen[k][g] = origin[k][g]
      /\ selected[k] \subseteq Hosts
  BY <1>1, AtItself DEF Walk, Traced, Changed, Excused, Compared, WalkInv
<1>3. CASE goal[k] = "rollback"
  <2>1. todo'[k] = selected[k] /\ pc'[k] = "exchange" /\ outcome' = outcome
    BY <1>1, <1>3, AtItself DEF Stage, WalkInv
  <2> QED BY <1>1, <1>2, <1>3, <2>1
          DEF Walk, Traced, Changed, Excused, Between, Listed, Compared, Concluded
<1>4. CASE goal[k] # "rollback"
  <2>0. goal[k] = "apply" /\ target[k] # NoRelease
    BY <1>1, <1>4 DEF Walk, Listed
  <2>1. CASE Pending(k) = {} /\ Report(k, "ok")
    <3>1. pc'[k] = "ended" /\ outcome'[k] = "ok"
      BY <2>1, AtItself DEF WalkInv
    <3>2. \A g \in selected[k] : seen[k][g] = target[k]
      BY <2>1 DEF Pending
    <3>3. todo'[k] \cap done'[k] = {}
      BY <1>1
    <3> QED BY <1>1, <1>2, <3>1, <3>2, <3>3 DEF Walk, Traced, Listed, Compared, Concluded
  <2>2. CASE todo' = [todo EXCEPT ![k] = Pending(k)] /\ Goto(k, "apply") /\ UNCHANGED outcome
    <3>1. todo'[k] = Pending(k) /\ pc'[k] = "apply"
      BY <2>2, AtItself DEF WalkInv
    <3>2. /\ \A g \in Pending(k) : g \in selected[k] /\ seen[k][g] # target[k]
          /\ \A g \in selected[k] \ Pending(k) : seen[k][g] = target[k]
      BY DEF Pending
    <3> QED BY <1>1, <1>2, <2>0, <2>2, <3>1, <3>2
            DEF Walk, Traced, Changed, Excused, Between, Listed, Compared, Concluded
  <2>3. CASE Report(k, "failed") /\ UNCHANGED todo
    <3>1. pc'[k] = "ended" /\ outcome'[k] = "failed"
      BY <2>3, AtItself DEF WalkInv
    <3> QED BY <1>1, <1>2, <2>3, <3>1 DEF Walk, Traced, Listed, Compared, Concluded
  <2> QED BY <1>1, <1>4, <2>1, <2>2, <2>3 DEF Stage
<1> QED BY <1>3, <1>4

LEMMA ApplyWalks ==
  ASSUME WalkInv, NEW k \in Controllers, NEW h \in Hosts, Apply(k, h)
  PROVE  Walk(k)' /\ LateInDoubt'
<1>1. /\ pc[k] = "apply" /\ h \in First(todo[k]) /\ h \in todo[k] /\ h \notin done[k]
      /\ UNCHANGED <<goal, target, selected, seen, todo, done, outcome, origin, stuck>>
      /\ outcome[k] = "none" /\ goal[k] = "apply" /\ target[k] # NoRelease /\ Walk(k)
      /\ target[k] \in Link
  BY FirstIn DEF Apply, WalkInv, Walk, Listed, TypeOK
<1>2. /\ \A g \in Hosts \ doubt : IF g \in done[k] THEN sel[g].previous = origin[k][g]
                                                  ELSE sel[g].current = origin[k][g]
      /\ \A g \in todo[k] \ doubt : origin[k][g] # target[k]
      /\ \A g \in selected[k] \ (todo[k] \cup doubt) : sel[g].current = target[k]
      /\ selected[k] \subseteq Hosts
  BY <1>1, AtItself DEF Walk, Traced, Changed, Between, Excused, Compared, WalkInv
<1>3. CASE Succeeds(k, h, target[k]) /\ Goto(k, "verify")
  <2>1. /\ \A g \in Hosts \ {h} : sel'[g] = sel[g]
        /\ sel[h].current # target[k] => sel'[h].previous = sel[h].current
        /\ LateInDoubt' /\ doubt' = doubt
    BY <1>1, <1>3, Moves
  <2>2. pc'[k] = "verify" /\ First(todo[k]) = {h}
    BY <1>1, <1>3, AtItself, OneFirst DEF WalkInv
  <2>3. Traced(k)'
    <3>1. Changed(k)' = done[k] \cup {h} /\ Excused(k)' = doubt
      BY <1>1, <2>1, <2>2 DEF Changed, Between, Excused
    <3> QED BY <1>1, <1>2, <2>1, <3>1 DEF Traced
  <2>4. Listed(k)' /\ Compared(k)' /\ Concluded(k)'
    BY <1>1, <1>2, <2>1, <2>2 DEF Walk, Listed, Compared, Concluded
  <2> QED BY <2>1, <2>3, <2>4 DEF Walk
<1>4. CASE (Refused(h, target[k]) \/ Lost(h, target[k])) /\ Unwinds(k)
  <2>1. /\ \A g \in Hosts \ doubt' : sel'[g] = sel[g]
        /\ doubt \subseteq doubt' /\ LateInDoubt'
    BY <1>1, <1>4, Breaks
  <2>2. pc'[k] = "undo" /\ undo'[k] = done[k]
    BY <1>4, AtItself DEF WalkInv
  <2>3. Traced(k)'
    <3>1. Changed(k)' = done[k] /\ Excused(k)' = doubt' \cup stuck[k]
      BY <1>1, <2>2 DEF Changed, Excused
    <3> QED BY <1>1, <1>2, <2>1, <3>1 DEF Traced
  <2>4. Listed(k)' /\ Compared(k)' /\ Concluded(k)'
    BY <1>1, <2>2 DEF Walk, Listed, Compared, Concluded
  <2> QED BY <2>1, <2>3, <2>4 DEF Walk
<1> QED BY <1>3, <1>4 DEF Apply

LEMMA VerifyWalks ==
  ASSUME WalkInv, NEW k \in Controllers, NEW h \in Hosts, Verify(k, h)
  PROVE  Walk(k)'
<1>1. /\ pc[k] = "verify" /\ h \in First(todo[k]) /\ h \in todo[k] /\ h \notin done[k]
      /\ UNCHANGED <<sel, doubt, goal, target, selected, seen, undo, origin, stuck>>
      /\ outcome[k] = "none" /\ goal[k] = "apply" /\ target[k] # NoRelease /\ Walk(k)
  BY FirstIn DEF Verify, WalkInv, Walk, Listed, hostVars, histVars
<1>2. First(todo[k]) = {h} /\ selected[k] \subseteq Hosts
  BY <1>1, AtItself, OneFirst DEF WalkInv
<1>3. /\ \A g \in Hosts \ doubt : IF g \in done[k] \cup {h} THEN sel[g].previous = origin[k][g]
                                                           ELSE sel[g].current = origin[k][g]
      /\ \A g \in todo[k] \ doubt : origin[k][g] # target[k]
      /\ \A g \in selected[k] \ (todo[k] \cup doubt) : sel[g].current = target[k]
  BY <1>1, <1>2 DEF Walk, Traced, Changed, Between, Excused, Compared
<1>4. CASE /\ Verified(k, h)
           /\ done' = [done EXCEPT ![k] = @ \cup {h}] /\ todo' = [todo EXCEPT ![k] = @ \ {h}]
           /\ IF todo[k] = {h} THEN Report(k, "ok") ELSE Goto(k, "apply") /\ UNCHANGED outcome
  <2>1. /\ done'[k] = done[k] \cup {h} /\ todo'[k] = todo[k] \ {h} /\ sel[h].current = target[k]
    BY <1>4, AtItself DEF Verified, WalkInv
  <2>2. \A g \in selected[k] \ (todo'[k] \cup doubt) : sel[g].current = target[k]
    BY <1>3, <2>1
  <2>3. CASE todo[k] = {h} /\ pc'[k] = "ended" /\ outcome'[k] = "ok"
    BY <1>1, <1>3, <2>1, <2>2, <2>3 DEF Walk, Traced, Listed, Compared, Concluded
  <2>4. CASE pc'[k] = "apply" /\ outcome'[k] = "none"
    <3>1. Changed(k)' = done[k] \cup {h} /\ Excused(k)' = doubt
      BY <1>1, <2>1, <2>4 DEF Changed, Between, Excused
    <3>2. Traced(k)'
      BY <1>1, <1>3, <3>1 DEF Traced
    <3>3. Listed(k)' /\ Compared(k)' /\ Concluded(k)'
      BY <1>1, <1>3, <2>1, <2>2, <2>4 DEF Walk, Listed, Compared, Concluded
    <3> QED BY <3>2, <3>3 DEF Walk
  <2> QED BY <1>1, <1>4, <2>3, <2>4, AtItself DEF WalkInv
<1>5. CASE Goto(k, "undoSelf") /\ UNCHANGED <<done, todo, outcome>>
  <2>1. pc'[k] = "undoSelf"
    BY <1>5, AtItself DEF WalkInv
  <2>2. Changed(k)' = done[k] \cup {h} /\ Excused(k)' = doubt
    BY <1>1, <1>2, <1>5, <2>1 DEF Changed, Between, Excused
  <2>3. Traced(k)'
    BY <1>1, <1>3, <2>2 DEF Traced
  <2>4. Listed(k)' /\ Compared(k)' /\ Concluded(k)'
    BY <1>1, <1>3, <1>5, <2>1 DEF Walk, Listed, Compared, Concluded
  <2> QED BY <2>3, <2>4 DEF Walk
<1> QED BY <1>4, <1>5 DEF Verify

LEMMA UndoSelfWalks ==
  ASSUME WalkInv, NEW k \in Controllers, NEW h \in Hosts, UndoSelf(k, h)
  PROVE  Walk(k)' /\ LateInDoubt'
<1>1. /\ pc[k] = "undoSelf" /\ h \in First(todo[k]) /\ h \in todo[k] /\ h \notin done[k]
      /\ UNCHANGED <<goal, target, selected, seen, todo, done, outcome, origin>>
      /\ outcome[k] = "none" /\ Walk(k) /\ pc'[k] = "undo" /\ undo'[k] = done[k]
  BY FirstIn, AtItself DEF UndoSelf, WalkInv, Walk, Listed
<1>2. First(todo[k]) = {h}
  BY <1>1, AtItself, OneFirst DEF WalkInv
<1>3. \A g \in Hosts \ doubt : IF g \in done[k] \cup {h} THEN sel[g].previous = origin[k][g]
                                                        ELSE sel[g].current = origin[k][g]
  BY <1>1, <1>2 DEF Walk, Traced, Changed, Between, Excused
<1>4. Changed(k)' = done[k] /\ Excused(k)' = doubt' \cup stuck'[k]
  BY <1>1 DEF Changed, Excused
<1>5. Listed(k)' /\ Compared(k)' /\ Concluded(k)'
  BY <1>1 DEF Walk, Listed, Compared, Concluded
<1>6. CASE Succeeds(k, h, NoRelease)
  <2>1. /\ \A g \in Hosts \ {h} : sel'[g] = sel[g]
        /\ sel'[h].current = sel[h].previous
        /\ LateInDoubt' /\ doubt' = doubt
    BY <1>6, Moves DEF Link
  <2>2. Traced(k)'
    BY <1>1, <1>3, <1>4, <2>1 DEF Traced
  <2> QED BY <1>5, <2>1, <2>2 DEF Walk
<1>7. CASE /\ Refused(h, NoRelease) \/ Lost(h, NoRelease)
           /\ stuck' = [stuck EXCEPT ![k] = @ \cup {h}]
  <2>1. /\ \A g \in Hosts \ doubt' : sel'[g] = sel[g]
        /\ doubt \subseteq doubt' /\ LateInDoubt'
    BY <1>7, Breaks DEF Link
  <2>2. h \in stuck'[k]
    BY <1>7, AtItself DEF WalkInv
  <2>3. Traced(k)'
    BY <1>1, <1>3, <1>4, <2>1, <2>2 DEF Traced
  <2> QED BY <1>5, <2>1, <2>3 DEF Walk
<1> QED BY <1>6, <1>7 DEF UndoSelf, RollsBack

LEMMA ExchangeWalks ==
  ASSUME WalkInv, NEW k \in Controllers, NEW h \in Hosts, Exchange(k, h)
  PROVE  Walk(k)' /\ LateInDoubt'
<1>1. /\ pc[k] = "exchange" /\ h \in todo[k] /\ h \notin done[k] /\ goal[k] = "rollback"
      /\ UNCHANGED <<goal, target, selected, seen, origin, stuck>>
      /\ outcome[k] = "none" /\ Walk(k)
  BY FirstIn DEF Exchange, WalkInv, Walk, Listed
<1>2. \A g \in Hosts \ doubt : IF g \in done[k] THEN sel[g].previous = origin[k][g]
                                               ELSE sel[g].current = origin[k][g]
  BY <1>1 DEF Walk, Traced, Changed, Between, Excused
<1>3. CASE /\ Succeeds(k, h, NoRelease)
           /\ done' = [done EXCEPT ![k] = @ \cup {h}] /\ todo' = [todo EXCEPT ![k] = @ \ {h}]
           /\ IF todo[k] = {h} THEN Report(k, "ok") ELSE UNCHANGED <<pc, outcome>>
  <2>1. /\ \A g \in Hosts \ {h} : sel'[g] = sel[g]
        /\ sel'[h].previous = sel[h].current
        /\ LateInDoubt' /\ doubt' = doubt
    BY <1>3, Moves DEF Link
  <2>2. done'[k] = done[k] \cup {h} /\ todo'[k] = todo[k] \ {h}
    BY <1>3, AtItself DEF WalkInv
  <2>3. CASE pc'[k] = "ended" /\ outcome'[k] = "ok"
    BY <1>1, <2>1, <2>2, <2>3 DEF Walk, Traced, Listed, Compared, Concluded
  <2>4. CASE UNCHANGED <<pc, outcome>>
    <3>1. Changed(k)' = done[k] \cup {h} /\ Excused(k)' = doubt
      BY <1>1, <2>1, <2>2, <2>4 DEF Changed, Between, Excused
    <3>2. Traced(k)'
      BY <1>1, <1>2, <2>1, <3>1 DEF Traced
    <3>3. Listed(k)' /\ Compared(k)' /\ Concluded(k)'
      BY <1>1, <2>2, <2>4 DEF Walk, Listed, Compared, Concluded
    <3> QED BY <2>1, <3>2, <3>3 DEF Walk
  <2> QED BY <1>3, <2>1, <2>3, <2>4, AtItself DEF WalkInv
<1>4. CASE /\ Refused(h, NoRelease) \/ Lost(h, NoRelease)
           /\ Unwinds(k) /\ UNCHANGED <<done, todo, outcome, moved>>
  <2>1. /\ \A g \in Hosts \ doubt' : sel'[g] = sel[g]
        /\ doubt \subseteq doubt' /\ LateInDoubt'
    BY <1>4, Breaks DEF Link
  <2>2. pc'[k] = "undo" /\ undo'[k] = done[k]
    BY <1>4, AtItself DEF WalkInv
  <2>3. Changed(k)' = done[k] /\ Excused(k)' = doubt' \cup stuck[k]
    BY <1>1, <2>2 DEF Changed, Excused
  <2>4. Traced(k)'
    BY <1>1, <1>2, <2>1, <2>3 DEF Traced
  <2>5. Listed(k)' /\ Compared(k)' /\ Concluded(k)'
    BY <1>1, <1>4, <2>2 DEF Walk, Listed, Compared, Concluded
  <2> QED BY <2>1, <2>4, <2>5 DEF Walk
<1> QED BY <1>3, <1>4 DEF Exchange

LEMMA UndoWalks ==
  ASSUME WalkInv, NEW k \in Controllers, NEW h \in Hosts, Undo(k, h)
  PROVE  Walk(k)' /\ LateInDoubt'
<1>1. /\ pc[k] = "undo" /\ h \in undo[k] /\ undo'[k] = undo[k] \ {h}
      /\ UNCHANGED <<goal, target, selected, seen, todo, done, origin>>
      /\ outcome[k] = "none" /\ Walk(k)
  BY FirstIn, AtItself DEF Undo, Reversed, WalkInv, Walk, Listed
<1>2. \A g \in Hosts \ (doubt \cup stuck[k]) :
         IF g \in undo[k] THEN sel[g].previous = origin[k][g] ELSE sel[g].current = origin[k][g]
  BY <1>1 DEF Walk, Traced, Changed, Excused
<1>3. CASE Succeeds(k, h, NoRelease) /\ UNCHANGED <<pc, outcome, stuck>>
  <2>1. /\ \A g \in Hosts \ {h} : sel'[g] = sel[g]
        /\ sel'[h].current = sel[h].previous
        /\ LateInDoubt' /\ doubt' = doubt
    BY <1>3, Moves DEF Link
  <2>2. Changed(k)' = undo[k] \ {h} /\ Excused(k)' = doubt \cup stuck[k]
    BY <1>1, <1>3, <2>1 DEF Changed, Excused
  <2>3. Traced(k)'
    BY <1>1, <1>2, <2>1, <2>2 DEF Traced
  <2>4. Listed(k)' /\ Compared(k)' /\ Concluded(k)'
    BY <1>1, <1>3 DEF Walk, Listed, Compared, Concluded
  <2> QED BY <2>1, <2>3, <2>4 DEF Walk
<1>4. CASE /\ Refused(h, NoRelease) /\ UNCHANGED <<pc, outcome, moved>>
           /\ stuck' = [stuck EXCEPT ![k] = @ \cup {h}]
  <2>1. /\ \A g \in Hosts \ doubt' : sel'[g] = sel[g]
        /\ doubt \subseteq doubt' /\ LateInDoubt'
    BY <1>4, Breaks DEF Link
  <2>2. stuck'[k] = stuck[k] \cup {h}
    BY <1>4, AtItself DEF WalkInv
  <2>3. Changed(k)' = undo[k] \ {h} /\ Excused(k)' = doubt' \cup stuck'[k]
    BY <1>1, <1>4 DEF Changed, Excused
  <2>4. Traced(k)'
    BY <1>1, <1>2, <2>1, <2>2, <2>3 DEF Traced
  <2>5. Listed(k)' /\ Compared(k)' /\ Concluded(k)'
    BY <1>1, <1>4 DEF Walk, Listed, Compared, Concluded
  <2> QED BY <2>1, <2>4, <2>5 DEF Walk
<1>5. CASE /\ Lost(h, NoRelease) /\ Report(k, "failed")
           /\ stuck' = [stuck EXCEPT ![k] = @ \cup {h}]
  <2>1. /\ \A g \in Hosts \ doubt' : sel'[g] = sel[g]
        /\ doubt \subseteq doubt' /\ LateInDoubt'
    BY <1>5, Breaks DEF Link
  <2>2. stuck'[k] = stuck[k] \cup {h} /\ pc'[k] = "ended" /\ outcome'[k] = "failed"
    <3>1. pc'[k] = "ended" /\ outcome'[k] = "failed"
      BY <1>5, AtItself DEF WalkInv
    <3>2. stuck'[k] = stuck[k] \cup {h}
      BY <1>5 DEF WalkInv, TypeOK
    <3> QED BY <3>1, <3>2
  <2>3. Concluded(k)'
    <3>1. h \in stuck'[k] \cap doubt'
      BY <1>5, <2>2 DEF Lost, Doubts
    <3>2. \A g \in undo[k] \ {h} : Position[g] < Position[h]
      <4>1. undo[k] \subseteq Hosts /\ h \in Last(undo[k])
        BY DEF Undo, Reversed, WalkInv, TypeOK
      <4>2. ASSUME NEW g \in undo[k] \ {h} PROVE Position[g] < Position[h]
        <5>1. g \in Hosts /\ Position[g] \in Nat /\ Position[h] \in Nat /\ Position[g] # Position[h]
          BY <4>1, FleetAssumption
        <5>2. Position[g] <= Position[h]
          BY <4>1 DEF Last
        <5> QED BY <5>1, <5>2
      <4> QED BY <4>2
    <3>3. \A g \in undo'[k] : NotTried(k, g)'
      BY <1>1, <3>1, <3>2 DEF NotTried
    <3>4. ASSUME NEW g \in Hosts \ (stuck'[k] \cup doubt')
          PROVE  IF g \in undo'[k] THEN sel'[g].previous = origin'[k][g]
                                   ELSE sel'[g].current = origin'[k][g]
      BY <1>1, <1>2, <2>1, <2>2
    <3> QED BY <2>2, <3>3, <3>4 DEF Concluded
  <2>4. Traced(k)' /\ Listed(k)' /\ Compared(k)'
    BY <1>1, <2>2 DEF Walk, Traced, Listed, Compared
  <2> QED BY <2>1, <2>3, <2>4 DEF Walk
<1> QED BY <1>3, <1>4, <1>5 DEF Undo

LEMMA EndWalks ==
  ASSUME WalkInv, NEW k \in Controllers, Undone(k) \/ End(k)
  PROVE  Walk(k)' /\ LateInDoubt'
<1>0. LateInDoubt'
  BY DEF Undone, End, hostVars, WalkInv, LateInDoubt
<1>1. CASE Undone(k)
  <2>1. /\ pc[k] = "undo" /\ undo[k] = {} /\ pc'[k] = "ended" /\ outcome'[k] = "failed" /\ Walk(k)
        /\ UNCHANGED <<sel, doubt, goal, target, selected, seen, todo, done, origin, stuck>>
    BY <1>1, AtItself DEF Undone, hostVars, histVars, WalkInv
  <2>2. \A g \in Hosts \ (doubt \cup stuck[k]) : sel[g].current = origin[k][g]
    BY <2>1 DEF Walk, Traced, Changed, Excused
  <2> QED BY <1>0, <2>1, <2>2 DEF Walk, Traced, Listed, Compared, Concluded
<1>2. CASE End(k)
  <2>1. /\ pc'[k] = "idle" /\ outcome'[k] = "none" /\ done'[k] = {} /\ todo'[k] = {}
    BY <1>2 DEF End, Goto, WalkInv, TypeOK
  <2> QED BY <1>0, <2>1 DEF Walk, Traced, Listed, Compared, Concluded
<1> QED BY <1>1, <1>2

LEMMA LateWalks ==
  ASSUME WalkInv, NEW h \in Hosts, NEW t \in Link, LateEffect(h, t)
  PROVE  WalkInv'
<1>1. Next
  BY DEF Next
<1>2. TypeOK' /\ LinksInv'
  BY <1>1, TypeStep, LinksStep DEF WalkInv
<1>3. h \in doubt /\ UNCHANGED <<pc, workVars, histVars, doubt>>
      /\ \A g \in Hosts \ {h} : sel'[g] = sel[g]
  BY DEF LateEffect, Performs, HalfMoves, WalkInv, LateInDoubt, TypeOK
<1>4. LateInDoubt'
  BY <1>3 DEF LateEffect, WalkInv, LateInDoubt, TypeOK
<1>5. ASSUME NEW k \in Controllers PROVE Walk(k)'
  <2>1. Walk(k) /\ selected[k] \subseteq Hosts
    BY DEF WalkInv, TypeOK
  <2>2. Changed(k)' = Changed(k) /\ Excused(k)' = Excused(k) /\ h \in Excused(k)
    BY <1>3 DEF Changed, Between, Excused, workVars, histVars
  <2>3. Traced(k)'
    BY <1>3, <2>1, <2>2 DEF Walk, Traced, workVars, histVars
  <2>4. Listed(k)' /\ Compared(k)' /\ Concluded(k)'
    BY <1>3, <2>1 DEF Walk, Listed, Compared, Concluded, NotTried, workVars, histVars
  <2> QED BY <2>3, <2>4 DEF Walk
<1> QED BY <1>2, <1>4, <1>5 DEF WalkInv, OneController

LEMMA WalkStep == ASSUME WalkInv, [Next]_vars PROVE WalkInv'
<1>1. ASSUME NEW k \in Controllers, Begin(k) \/ Stage(k) PROVE WalkInv'
  <2>1. LateInDoubt'
    BY <1>1 DEF Begin, Stage, hostVars, WalkInv, LateInDoubt
  <2> QED BY <1>1, <2>1, BeginWalks, StageWalks, Alone DEF Step
<1>2. ASSUME NEW k \in Controllers, NEW h \in Hosts, Preflight(k, h) \/ Verify(k, h) PROVE WalkInv'
  <2>1. LateInDoubt'
    BY <1>2 DEF Preflight, Verify, hostVars, WalkInv, LateInDoubt
  <2> QED BY <1>2, <2>1, PreflightWalks, VerifyWalks, Alone DEF Step
<1>3. ASSUME NEW k \in Controllers, NEW h \in Hosts,
             Apply(k, h) \/ UndoSelf(k, h) \/ Exchange(k, h) \/ Undo(k, h)
      PROVE  WalkInv'
  BY <1>3, ApplyWalks, UndoSelfWalks, ExchangeWalks, UndoWalks, Alone DEF Step
<1>4. ASSUME NEW k \in Controllers, Undone(k) \/ End(k) PROVE WalkInv'
  BY <1>4, EndWalks, Alone DEF Step
<1>5. CASE UNCHANGED vars
  <2>1. TypeOK' /\ LinksInv'
    BY <1>5 DEF vars, hostVars, workVars, histVars, WalkInv, TypeOK, LinksInv, LinksStayDistinct
  <2>2. ASSUME NEW k \in Controllers PROVE Walk(k)'
    BY <1>5 DEF vars, hostVars, workVars, histVars, WalkInv, Walk, Traced, Changed, Between,
       Excused, Listed, Compared, Concluded, NotTried
  <2> QED BY <1>5, <2>1, <2>2
          DEF vars, hostVars, WalkInv, LateInDoubt, OneController
<1> QED BY <1>1, <1>2, <1>3, <1>4, <1>5, LateWalks DEF Next, Step

LEMMA WalkInit == OneController /\ Init => WalkInv
<1> SUFFICES ASSUME OneController, Init PROVE WalkInv
  OBVIOUS
<1>1. TypeOK
  BY TypeInit
<1>2. LinksInv
  BY LinksStart
<1>3. LateInDoubt /\ \A k \in Controllers : Walk(k)
  BY DEF Init, LateInDoubt, Walk, Traced, Listed, Compared, Concluded
<1> QED BY <1>1, <1>2, <1>3 DEF WalkInv

\* An apply that reports success leaves every host it was asked for on the
\* target, the skipped ones included, whatever their number and links.
THEOREM AllUpdated == OneController => (Spec => []SuccessIsUniform)
<1>1. WalkInv => SuccessIsUniform
  BY DEF WalkInv, Walk, Concluded, SuccessIsUniform
<1> QED BY <1>1, WalkInit, WalkStep, PTL DEF Spec

\* One that fails leaves every host where it found it, but for those whose
\* rollback reported a failure or where a command was lost or broke off, and
\* those listed before a host whose rollback was lost: they stay updated, their
\* previous link on the release they had.
THEOREM OrRolledBack == OneController => (Spec => []FailureRestores)
<1>1. WalkInv => FailureRestores
  BY DEF WalkInv, Walk, Concluded, FailureRestores
<1> QED BY <1>1, WalkInit, WalkStep, PTL DEF Spec
=============================================================================

------------------------- MODULE ControlPlane_proofs -------------------------
(***************************************************************************)
(* Theorems about ControlPlane for any hosts, any order of them, any       *)
(* history of versions and authorities, any number of commands and faults. *)
(***************************************************************************)
EXTENDS ControlPlane, TLAPS

\* Where a reconcile stands in its plan: a copy or a script is about a host the
\* plan applies to, and a command without a script has not begun to copy.
Placed(c) ==
    /\ pc[c] \in {"idle", "route", "lock", "working", "read", "confirm", "copy", "copying"}
         => script[c] = "none"
    /\ pc[c] \in {"idle", "route", "read"} => next[c] \in 0 .. Len(HostOrder)
    /\ pc[c] \in {"confirm", "copy"} => version[c] # 0 /\ next[c] # 0
    /\ pc[c] = "copying" \/ script[c] # "none" =>
         /\ version[c] # 0
         /\ next[c] \in 1 .. Len(HostOrder)
         /\ plan[c][Host(c)] = "apply"

PlacedInv == TypeOK /\ \A c \in Commands : Placed(c)

LEMMA HostsOrdered ==
    /\ Len(HostOrder) \in Nat
    /\ \A i \in 1 .. Len(HostOrder) : HostOrder[i] \in Hosts
    /\ Hosts # {} => Len(HostOrder) # 0
  BY ControlAssumption

LEMMA InitPlaced == Init => PlacedInv
<1> SUFFICES ASSUME Init PROVE PlacedInv
  OBVIOUS
<1>1. TypeOK
  <2>1. 1 \in Versions /\ authority \in [Versions -> Trusted \cup {Nobody}]
    BY ControlAssumption DEF Init, Versions
  <2>2. current \in [Hosts -> 0 .. MaxVersion]
    BY ControlAssumption DEF Init
  <2>3. revision \in [Hosts -> [Versions -> Contents]]
    BY DEF Init, Contents
  <2> QED BY <2>1, <2>2, <2>3, ControlAssumption, HostsOrdered DEF Init, TypeOK, Points, ScriptPoints
<1>2. \A c \in Commands : Placed(c)
  BY DEF Init, Placed
<1> QED BY <1>1, <1>2 DEF PlacedInv

\* A fault is counted within its bound.
LEMMA FaultType == ASSUME TypeOK, NEW f, Fault(f) PROVE faults' \in 0 .. MaxFaults
  BY ControlAssumption DEF TypeOK, Fault

\* Updating one entry of a function keeps its type.
LEMMA Put ==
    ASSUME NEW A, NEW S, NEW f \in [A -> S], NEW a \in A, NEW w \in S
    PROVE  [f EXCEPT ![a] = w] \in [A -> S]
  OBVIOUS

Actions == {"unread", "apply", "none", "conflict", "error"}

\* The steps of the script change what a host holds, selects and was read with.
LEMMA ScriptSteps ==
    ASSUME NEW c \in Commands, RunScript(c)
    PROVE  /\ script[c] # "none"
           /\ \E p \in ScriptPoints \ {"none"} : script' = [script EXCEPT ![c] = p]
           /\ revision' = revision \/ \E w \in Contents : Fills(c, w)
           /\ UNCHANGED <<current, unseen>> \/ \E v \in {0, version[c]} : Points_to(c, v)
           /\ faults' = faults \/ \E f \in {"extract"} : Fault(f)
           /\ UNCHANGED scriptRest
  BY DEF RunScript, Extract, Untar, Verify, Select, Swap, Sync, Goes, ScriptPoints, Contents

\* The host a copy or a script is about is one of the inventory.
LEMMA AtHost ==
    ASSUME TypeOK, NEW c \in Commands, Placed(c), pc[c] = "copying" \/ script[c] # "none"
    PROVE  Host(c) \in Hosts /\ version[c] \in Versions /\ next[c] \in 1 .. Len(HostOrder)
<1>1. version[c] \in 0 .. MaxVersion /\ MaxVersion \in Nat
  BY ControlAssumption DEF TypeOK
<1> QED BY <1>1, HostsOrdered DEF Placed, Host, Versions

LEMMA TypeStep == ASSUME PlacedInv, [Next]_vars PROVE TypeOK'
<1>0. Len(HostOrder) \in Nat /\ MaxVersion \in Nat /\ MaxHops \in Nat
  BY ControlAssumption, HostsOrdered
<1>p. TypeOK /\ \A c \in Commands : Placed(c)
  BY DEF PlacedInv
<1>t. /\ pc \in [Commands -> Points] /\ at \in [Commands -> Hosts]
      /\ hops \in [Commands -> 0 .. MaxHops] /\ next \in [Commands -> 0 .. Len(HostOrder) + 1]
      /\ plan \in [Commands -> [Hosts -> Actions]]
      /\ archive \in [Hosts -> [Versions -> {"none", "short", "whole"}]]
      /\ revision \in [Hosts -> [Versions -> Contents]]
      /\ lock \in [Hosts -> SUBSET Commands] /\ unseen \in [Hosts -> SUBSET Commands]
      /\ current \in [Hosts -> 0 .. MaxVersion] /\ version \in [Commands -> 0 .. MaxVersion]
  BY <1>p DEF TypeOK, Actions
<1>1. CASE UNCHANGED vars
  BY <1>p, <1>1 DEF TypeOK, vars, hostVars, callVars, planVars
<1>2. CASE Edit
  <2>1. desired' \in Versions
    BY <1>0, <1>2, <1>p DEF TypeOK, Edit, Versions
  <2>2. authority' \in [Versions -> Trusted \cup {Nobody}]
    <3>1. desired + 1 \in Versions
      BY <1>0, <1>2, <1>p DEF TypeOK, Edit, Versions
    <3>2. \A a \in MayName[desired + 1] : a \in Trusted \cup {Nobody}
      BY <3>1, ControlAssumption
    <3> QED BY <1>2, <1>p, <3>1, <3>2 DEF TypeOK, Edit
  <2> QED BY <1>p, <1>2, <2>1, <2>2 DEF TypeOK, Edit, hostVars, callVars, planVars
<1>3. ASSUME NEW h \in Hosts, Drift(h) PROVE TypeOK'
  <2>1. revision' \in [Hosts -> [Versions -> Contents]]
    BY <1>3, <1>t DEF Drift, Contents
  <2>2. unseen' \in [Hosts -> SUBSET Commands]
    BY <1>3, <1>t DEF Drift, Readers
  <2> QED BY <1>p, <1>3, <2>1, <2>2, FaultType DEF TypeOK, Drift, callVars, planVars
<1>4. ASSUME NEW c \in Commands, Command(c) PROVE TypeOK'
  <2>1. CASE Submit(c)
    BY <1>p, <2>1 DEF TypeOK, Submit, To, Points, hostVars, callVars, planVars
  <2>13. CASE Override(c)
    <3>1. Start(c) \in Points
      BY DEF Start, Points
    <3>2. pc' \in [Commands -> Points] /\ unrouted' \subseteq Commands
      BY <1>p, <1>t, <2>13, <3>1 DEF Override, To, TypeOK
    <3> QED BY <1>p, <2>13, <3>2 DEF TypeOK, Override, hostVars, callVars, planVars
  <2>2. CASE Relay(c)
    <3>1. at' \in [Commands -> Hosts] /\ pc' \in [Commands -> Points]
      BY <1>t, <2>2 DEF Relay, To, Points
    <3> QED BY <1>p, <2>2, <3>1 DEF TypeOK, Relay, hostVars, planVars
  <2>3. CASE Route(c)
    <3>1. Start(c) \in Points /\ {"failed", "refused", "looping"} \subseteq Points
      BY DEF Start, Points
    <3>2. pc' \in [Commands -> Points] /\ unrouted' \subseteq Commands
      <4>1. pc' = pc \/ \E p \in {Start(c), "failed", "refused", "looping"} : pc' = [pc EXCEPT ![c] = p]
        BY <2>3 DEF Route, To
      <4>2. pc \in [Commands -> Points]
        BY <1>t
      <4>3. unrouted' \subseteq unrouted \cup {c} /\ unrouted \subseteq Commands
        BY <1>p, <2>3 DEF TypeOK, Route
      <4> QED BY <3>1, <4>1, <4>2, <4>3
    <3>3. hops' \in [Commands -> 0 .. MaxHops]
      <4>1. hops' = hops \/ (hops[c] < MaxHops /\ hops' = [hops EXCEPT ![c] = hops[c] + 1])
        BY <2>3 DEF Route
      <4>2. hops[c] < MaxHops => hops[c] + 1 \in 0 .. MaxHops
        BY <1>0, <1>t
      <4> QED BY <1>t, <4>1, <4>2, Put
    <3>4. at' \in [Commands -> Hosts]
      <4>5. ~RunsHere(at[c], kind[c]) /\ ~Refused(at[c], kind[c]) => NamesOne(at[c])
        BY DEF RunsHere, Refused, NamesOne
      <4>1. at' = at \/ (NamesOne(at[c]) /\ at' = [at EXCEPT ![c] = authority[current[at[c]]]])
        BY <2>3, <4>5 DEF Route
      <4>2. NamesOne(at[c]) => current[at[c]] \in Versions
        BY <1>0, <1>t DEF NamesOne, KnowsItself, Selected, Versions
      <4>3. \A v \in Versions : authority[v] # Nobody => authority[v] \in Hosts
        BY <1>p, ControlAssumption DEF TypeOK
      <4>4. NamesOne(at[c]) => authority[current[at[c]]] \in Hosts
        BY <4>2, <4>3 DEF NamesOne
      <4> QED BY <1>t, <4>1, <4>4, Put
    <3>5. faults' \in 0 .. MaxFaults
      BY <1>p, <2>3, FaultType DEF TypeOK, Route
    <3> QED BY <1>p, <2>3, <3>2, <3>3, <3>4, <3>5 DEF TypeOK, Route, hostVars, planVars
  <2>4. CASE Lock(c)
    <3>1. lock' \in [Hosts -> SUBSET Commands]
      <4>1. lock' = lock \/ lock' = [lock EXCEPT ![at[c]] = {c}]
        BY <2>4 DEF Lock
      <4>2. at[c] \in Hosts /\ lock \in [Hosts -> SUBSET Commands]
        BY <1>t
      <4> QED BY <4>1, <4>2
    <3>2. pc' \in [Commands -> Points]
      BY <1>t, <2>4 DEF Lock, To, Points
    <3> QED BY <1>p, <2>4, <3>1, <3>2 DEF TypeOK, Lock, hostVars, callVars, planVars
  <2>5. CASE Finish(c)
    BY <1>p, <2>5 DEF TypeOK, Finish, To, Points, hostVars, callVars, planVars
  <2>6. CASE ReadHost(c)
    <3> DEFINE i == IF next[c] = 0 THEN 1 ELSE next[c]
    <3>1. pc[c] = "read" /\ at[c] \in Hosts
      BY <1>t, <2>6 DEF ReadHost
    <3>2. i \in 1 .. Len(HostOrder)
      BY <1>0, <1>p, <3>1, HostsOrdered DEF Placed
    <3>3. HostOrder[i] \in Hosts
      BY <3>2, HostsOrdered
    <3>4. Compared(HostOrder[i], Goal(c)) \in Actions /\ "error" \in Actions
      BY DEF Compared, Actions
    <3>5. Goal(c) \in 0 .. MaxVersion
      BY <1>0, <1>p DEF Goal, TypeOK, Versions
    <3>6. plan' \in [Commands -> [Hosts -> Actions]]
      <4>1. \/ plan' = plan
            \/ plan' = [plan EXCEPT ![c][HostOrder[i]] = Compared(HostOrder[i], Goal(c))]
            \/ plan' = [plan EXCEPT ![c][HostOrder[i]] = "error"]
        BY <2>6 DEF ReadHost
      <4>2. plan \in [Commands -> [Hosts -> Actions]]
        BY <1>t
      <4> HIDE DEF i
      <4> QED BY <3>3, <3>4, <4>1, <4>2
    <3>7. next' \in [Commands -> 0 .. Len(HostOrder) + 1]
      <4>1. \/ next' = next
            \/ next' = [next EXCEPT ![c] = i + 1]
            \/ next' = [next EXCEPT ![c] = 1]
        BY <2>6 DEF ReadHost
      <4>2. i + 1 \in 0 .. Len(HostOrder) + 1 /\ 1 \in 0 .. Len(HostOrder) + 1
        BY <1>0, <3>2
      <4> HIDE DEF i
      <4> QED BY <1>t, <4>1, <4>2, Put
    <3>8. pc' \in [Commands -> Points] /\ faults' \in 0 .. MaxFaults
      <4>1. pc' = pc \/ \E p \in {"failed", "confirm"} : pc' = [pc EXCEPT ![c] = p]
        BY <2>6 DEF ReadHost, To
      <4>2. faults' \in 0 .. MaxFaults
        BY <1>p, <2>6, FaultType DEF ReadHost, TypeOK
      <4> QED BY <1>t, <4>1, <4>2 DEF Points
    <3>9. version' \in [Commands -> 0 .. MaxVersion]
      BY <1>t, <2>6, <3>5 DEF ReadHost
    <3> QED BY <1>p, <2>6, <3>6, <3>7, <3>8, <3>9 DEF ReadHost, TypeOK, hostVars, callVars, Actions
  <2>7. CASE Confirm(c)
    BY <1>p, <2>7 DEF TypeOK, Confirm, To, Points, hostVars, callVars, planVars
  <2>8. CASE BeginCopy(c)
    <3>1. archive' \in [Hosts -> [Versions -> {"none", "short", "whole"}]]
      <4>1. \/ archive' = archive
            \/ /\ archive' = [archive EXCEPT ![Host(c)][version[c]] = "short"]
               /\ next[c] <= Len(HostOrder) /\ pc[c] = "copy"
        BY <2>8 DEF BeginCopy, Arrived
      <4>2. ASSUME pc[c] = "copy", next[c] <= Len(HostOrder)
            PROVE  Host(c) \in Hosts /\ version[c] \in Versions
        <5>1. next[c] \in 1 .. Len(HostOrder) /\ version[c] \in 1 .. MaxVersion
          BY <1>0, <1>p, <1>t, <4>2 DEF Placed
        <5> QED BY <5>1, HostsOrdered DEF Host, Versions
      <4>3. archive \in [Hosts -> [Versions -> {"none", "short", "whole"}]]
        BY <1>t
      <4> QED BY <4>1, <4>2, <4>3
    <3>2. faults' \in 0 .. MaxFaults
      BY <1>p, <2>8, FaultType DEF BeginCopy, TypeOK
    <3>3. next' \in [Commands -> 0 .. Len(HostOrder) + 1]
      <4>1. next' = next \/ (next[c] <= Len(HostOrder) /\ next' = [next EXCEPT ![c] = next[c] + 1])
        BY <2>8 DEF BeginCopy
      <4>2. next[c] <= Len(HostOrder) => next[c] + 1 \in 0 .. Len(HostOrder) + 1
        BY <1>0, <1>t
      <4> QED BY <1>t, <4>1, <4>2, Put
    <3>4. pc' \in [Commands -> Points]
      <4>1. pc' = pc \/ \E p \in {"failed", "done", "copying"} : pc' = [pc EXCEPT ![c] = p]
        BY <2>8 DEF BeginCopy, To
      <4> QED BY <1>t, <4>1 DEF Points
    <3> QED BY <1>p, <2>8, <3>1, <3>2, <3>3, <3>4 DEF BeginCopy, TypeOK, callVars
  <2>9. CASE EndCopy(c)
    <3>1. archive' \in [Hosts -> [Versions -> {"none", "short", "whole"}]]
      <4>1. archive' = archive \/ archive' = [archive EXCEPT ![Host(c)][version[c]] = "whole"]
        BY <2>9 DEF EndCopy, Arrived
      <4>2. Host(c) \in Hosts /\ version[c] \in Versions
        BY <1>p, <2>9, AtHost DEF EndCopy
      <4>3. archive \in [Hosts -> [Versions -> {"none", "short", "whole"}]]
        BY <1>t
      <4> QED BY <4>1, <4>2, <4>3
    <3>2. faults' \in 0 .. MaxFaults
      BY <1>p, <2>9, FaultType DEF EndCopy, TypeOK
    <3>3. pc' \in [Commands -> Points]
      BY <1>t, <2>9 DEF EndCopy, To, Points
    <3>4. script' \in [Commands -> ScriptPoints]
      BY <1>p, <2>9 DEF EndCopy, TypeOK, ScriptPoints
    <3> QED BY <1>p, <2>9, <3>1, <3>2, <3>3, <3>4 DEF EndCopy, TypeOK, callVars, planVars
  <2>10. CASE Applied(c)
    <3>1. next' \in [Commands -> 0 .. Len(HostOrder) + 1]
      <4>1. next[c] \in 1 .. Len(HostOrder)
        BY <1>p, <2>10 DEF Applied, Placed
      <4>2. next' = next \/ next' = [next EXCEPT ![c] = next[c] + 1]
        BY <2>10 DEF Applied
      <4>3. next[c] + 1 \in 0 .. Len(HostOrder) + 1
        BY <1>0, <4>1
      <4> QED BY <1>t, <4>2, <4>3, Put
    <3>2. pc' \in [Commands -> Points]
      BY <1>t, <2>10 DEF Applied, To, Points
    <3>3. script' \in [Commands -> ScriptPoints]
      BY <1>p, <2>10 DEF Applied, Goes, TypeOK, ScriptPoints
    <3> QED BY <1>p, <2>10, <3>1, <3>2, <3>3 DEF Applied, TypeOK, hostVars, callVars
  <2>11. CASE GiveUp(c)
    BY <1>p, <2>11, FaultType DEF GiveUp, TypeOK, To, Points, hostVars, callVars, planVars
  <2>12. CASE RunScript(c)
    <3>1. Host(c) \in Hosts /\ version[c] \in Versions
      BY <1>p, <2>12, AtHost, ScriptSteps
    <3>2. script' \in [Commands -> ScriptPoints]
      BY <1>p, <2>12, ScriptSteps DEF TypeOK
    <3>3. revision' \in [Hosts -> [Versions -> Contents]]
      <4>1. revision' = revision
              \/ \E w \in Contents : revision' = [revision EXCEPT ![Host(c)][version[c]] = w]
        BY <2>12, ScriptSteps DEF Fills
      <4>2. revision \in [Hosts -> [Versions -> Contents]]
        BY <1>t
      <4> QED BY <3>1, <4>1, <4>2
    <3>4. current' \in [Hosts -> 0 .. MaxVersion] /\ unseen' \in [Hosts -> SUBSET Commands]
      <4>1. UNCHANGED <<current, unseen>> \/ \E v \in {0, version[c]} : Points_to(c, v)
        BY <2>12, ScriptSteps
      <4>2. ASSUME NEW v \in {0, version[c]}, Points_to(c, v) PROVE  current' \in [Hosts -> 0 .. MaxVersion] /\ unseen' \in [Hosts -> SUBSET Commands]
        <5>1. v \in 0 .. MaxVersion
          BY <1>0, <1>t
        <5>2. current' \in [Hosts -> 0 .. MaxVersion]
          BY <1>t, <3>1, <4>2, <5>1 DEF Points_to
        <5>3. unseen' \in [Hosts -> SUBSET Commands]
          BY <1>t, <3>1, <4>2 DEF Points_to, Readers
        <5> QED BY <5>2, <5>3
      <4> QED BY <1>t, <4>1, <4>2
    <3>5. faults' \in 0 .. MaxFaults
      BY <1>p, <2>12, FaultType, ScriptSteps DEF TypeOK
    <3> QED BY <1>p, <2>12, <3>2, <3>3, <3>4, <3>5, ScriptSteps DEF TypeOK, scriptRest, callVars, planVars
  <2> QED BY <1>4, <2>1, <2>2, <2>3, <2>4, <2>5, <2>6, <2>7, <2>8, <2>9, <2>10, <2>11, <2>12, <2>13
      DEF Command, Reconcile
<1> QED BY <1>1, <1>2, <1>3, <1>4 DEF Next

\* What a command's position depends on.
LEMMA PlacedFrame ==
    ASSUME NEW d \in Commands, Placed(d), pc'[d] = pc[d], script'[d] = script[d],
           next'[d] = next[d], version'[d] = version[d], plan'[d] = plan[d]
    PROVE  Placed(d)'
  BY DEF Placed, Host

LEMMA PlacedStep == ASSUME PlacedInv, [Next]_vars, NEW d \in Commands PROVE Placed(d)'
<1>0. Len(HostOrder) \in Nat /\ (Hosts # {} => Len(HostOrder) # 0)
  BY HostsOrdered
<1>p. Placed(d)
  BY DEF PlacedInv
<1>t. /\ pc \in [Commands -> Points] /\ script \in [Commands -> ScriptPoints]
      /\ next \in [Commands -> 0 .. Len(HostOrder) + 1] /\ at \in [Commands -> Hosts]
      /\ version \in [Commands -> 0 .. MaxVersion] /\ desired \in Versions
  BY DEF PlacedInv, TypeOK
<1>1. CASE UNCHANGED vars
  BY <1>p, <1>1, PlacedFrame DEF vars, planVars
<1>2. CASE Edit \/ \E h \in Hosts : Drift(h)
  BY <1>p, <1>2, PlacedFrame DEF Edit, Drift, planVars
<1>3. ASSUME NEW c \in Commands, Command(c), c # d PROVE Placed(d)'
  <2>1. pc'[d] = pc[d]
    BY <1>t, <1>3 DEF Command, Submit, Override, Relay, Route, Lock, Finish, Reconcile, ReadHost, Confirm,
       BeginCopy, EndCopy, Applied, GiveUp, To, RunScript, Extract, Untar, Verify, Select, Swap, Sync,
       scriptRest
  <2>2. script'[d] = script[d]
    BY <1>t, <1>3 DEF Command, Submit, Override, Relay, Route, Lock, Finish, Reconcile, ReadHost, Confirm,
       BeginCopy, EndCopy, Applied, GiveUp, Goes, RunScript, Extract, Untar, Verify, Select, Swap, Sync
  <2>3. next'[d] = next[d] /\ version'[d] = version[d] /\ plan'[d] = plan[d]
    <3>1. plan \in [Commands -> [Hosts -> Actions]]
      BY DEF PlacedInv, TypeOK, Actions
    <3> QED BY <1>t, <1>3, <3>1 DEF Command, Submit, Override, Relay, Route, Lock, Finish, Reconcile, ReadHost,
       Confirm, BeginCopy, EndCopy, Applied, GiveUp, RunScript, Extract, Untar, Verify, Select, Swap, Sync,
       scriptRest, planVars
  <2> QED BY <1>p, <2>1, <2>2, <2>3, PlacedFrame
<1>4. ASSUME Command(d) PROVE Placed(d)'
  <2>1. CASE Submit(d) \/ Relay(d)
    BY <1>p, <1>t, <2>1 DEF Submit, Override, Relay, To, Placed, planVars, Points
  <2>11. CASE Override(d)
    <3>1. /\ UNCHANGED <<script, version, plan, next>> /\ script[d] = "none" /\ pc[d] = "idle"
          /\ pc'[d] \in {"lock", "read", "working"}
      BY <1>p, <1>t, <2>11 DEF Override, To, Start, planVars, Placed
    <3> QED BY <1>0, <1>p, <1>t, <3>1 DEF Placed
  <2>2. CASE Route(d)
    <3>1. /\ UNCHANGED <<script, version, plan, next>> /\ script[d] = "none" /\ pc[d] = "route"
          /\ pc'[d] \in {"route", "lock", "read", "working", "refused", "looping", "failed"}
      BY <1>p, <1>t, <2>2 DEF Route, To, Start, planVars, Placed
    <3> QED BY <1>0, <1>p, <1>t, <3>1 DEF Placed
  <2>3. CASE Lock(d) \/ Finish(d)
    BY <1>p, <1>t, <2>3 DEF Lock, Finish, To, Placed, planVars
  <2>4. CASE ReadHost(d)
    <3>1. script'[d] = "none" /\ pc'[d] \in {"read", "confirm", "failed"}
      BY <1>p, <1>t, <2>4 DEF ReadHost, Placed, To
    <3>2. pc'[d] = "read" => next'[d] \in 0 .. Len(HostOrder)
      <4>1. (IF next[d] = 0 THEN 1 ELSE next[d]) \in 1 .. Len(HostOrder)
        BY <1>0, <1>p, <1>t, <2>4 DEF ReadHost, Placed
      <4> QED BY <1>0, <1>t, <2>4, <4>1 DEF ReadHost, To
    <3>3. pc'[d] = "confirm" => version'[d] # 0 /\ next'[d] = 1
      <4>1. Goal(d) # 0
        BY <1>t, ControlAssumption DEF Goal, Versions
      <4> QED BY <1>t, <2>4, <4>1 DEF ReadHost, To
    <3> QED BY <3>1, <3>2, <3>3 DEF Placed
  <2>5. CASE Confirm(d)
    BY <1>p, <1>t, <2>5 DEF Confirm, To, Placed, planVars
  <2>6. CASE BeginCopy(d)
    <3>1. pc[d] = "copy" /\ script'[d] = "none" /\ version'[d] = version[d] /\ plan' = plan
      BY <1>p, <2>6 DEF BeginCopy, Placed
    <3>2. \/ pc'[d] \in {"done", "failed"}
          \/ pc'[d] = "copy" /\ next[d] <= Len(HostOrder) /\ next'[d] = next[d] + 1
          \/ /\ pc'[d] = "copying" /\ next[d] <= Len(HostOrder) /\ next'[d] = next[d]
             /\ plan[d][Host(d)] = "apply"
      BY <1>t, <2>6 DEF BeginCopy, To
    <3>3. version[d] # 0 /\ next[d] # 0
      BY <1>p, <3>1 DEF Placed
    <3>4. next[d] + 1 # 0
      BY <1>0, <1>t
    <3>5. next[d] <= Len(HostOrder) => next[d] \in 1 .. Len(HostOrder)
      BY <1>0, <1>t, <3>3
    <3> QED BY <3>1, <3>2, <3>3, <3>4, <3>5 DEF Placed, Host
  <2>7. CASE EndCopy(d)
    <3>1. /\ version[d] # 0 /\ next[d] \in 1 .. Len(HostOrder) /\ plan[d][Host(d)] = "apply"
          /\ UNCHANGED planVars /\ pc'[d] \in {"script", "failed"}
      BY <1>p, <1>t, <2>7 DEF EndCopy, Placed, To
    <3> QED BY <3>1 DEF Placed, Host, planVars
  <2>8. CASE Applied(d)
    <3>1. /\ version'[d] = version[d] /\ version[d] # 0 /\ plan' = plan
          /\ next[d] \in 1 .. Len(HostOrder) /\ plan[d][Host(d)] = "apply"
      BY <1>p, <2>8 DEF Applied, Placed
    <3>2. \/ pc'[d] = "copy" /\ script'[d] = "none" /\ next'[d] = next[d] + 1
          \/ pc'[d] = "failed" /\ script'[d] = script[d] /\ next'[d] = next[d]
      BY <1>t, <2>8 DEF Applied, To, Goes
    <3>3. next[d] + 1 # 0
      BY <1>0, <3>1
    <3> QED BY <3>1, <3>2, <3>3 DEF Placed, Host
  <2>9. CASE GiveUp(d)
    BY <1>p, <1>t, <2>9 DEF GiveUp, To, Placed, Host, planVars
  <2>10. CASE RunScript(d)
    <3>1. script[d] # "none" /\ UNCHANGED <<pc, planVars>>
      BY <2>10, ScriptSteps DEF scriptRest
    <3> QED BY <1>p, <3>1 DEF Placed, Host, planVars
  <2> QED BY <1>4, <2>1, <2>2, <2>3, <2>4, <2>5, <2>6, <2>7, <2>8, <2>9, <2>10, <2>11 DEF Command, Reconcile
<1> QED BY <1>1, <1>2, <1>3, <1>4 DEF Next

LEMMA AlwaysPlaced == Spec => []PlacedInv
<1>1. PlacedInv /\ [Next]_vars => PlacedInv'
  BY TypeStep, PlacedStep DEF PlacedInv
<1> QED BY InitPlaced, <1>1, PTL DEF Spec

\* Every reachable state has values of the declared types.
THEOREM ControlTypes == Spec => []TypeOK
  BY AlwaysPlaced, PTL DEF PlacedInv

(***************************************************************************)
(* What a host selects                                                     *)
(***************************************************************************)
Manifest == {"declared", "edited", "full"}

\* SelectedIsDeclared is not inductive: a script that is about to select has
\* verified a revision, which must keep its manifest until it does.
DeclaredInv ==
    /\ \A h \in Hosts : current[h] # 0 => revision[h][current[h]] \in Manifest
    /\ \A c \in Commands : script[c] \in {"select", "swap"} => Holds(c) \in Manifest

\* A revision never loses its manifest, whoever extracts it, or edits it.
LEMMA ManifestStays ==
    ASSUME PlacedInv, [Next]_vars, NEW h \in Hosts, NEW v \in Versions, revision[h][v] \in Manifest
    PROVE  revision'[h][v] \in Manifest
<1>t. revision \in [Hosts -> [Versions -> Contents]]
  BY DEF PlacedInv, TypeOK
<1>1. CASE revision' = revision
  BY <1>1
<1>2. ASSUME NEW g \in Hosts, Drift(g) PROVE revision'[h][v] \in Manifest
  BY <1>t, <1>2 DEF Drift, Manifest
<1>3. ASSUME NEW c \in Commands, RunScript(c) PROVE revision'[h][v] \in Manifest
  <2>1. \/ revision' = revision
        \/ Holds(c) = "absent" /\ Fills(c, "begun")
        \/ Fills(c, "declared") \/ Fills(c, "full")
    BY <1>3 DEF RunScript, Extract, Untar, Verify, Select, Swap, Sync
  <2> QED BY <1>t, <2>1 DEF Fills, Holds, Manifest
<1> QED
  BY <1>1, <1>2, <1>3 DEF Next, vars, hostVars, Edit, Command, Submit, Override, Relay, Route, Lock, Finish,
     Reconcile, ReadHost, Confirm, BeginCopy, EndCopy, Applied, GiveUp

\* Only the two commands that replace the link change what a host selects.
LEMMA SelectionStep ==
    ASSUME PlacedInv, [Next]_vars
    PROVE  \/ UNCHANGED current
           \/ \E c \in Commands :
                 /\ script[c] \in {"select", "swap"} /\ UNCHANGED <<revision, plan>>
                 /\ \E v \in {0, version[c]} : Points_to(c, v)
                 /\ script[c] = "swap" => current[Host(c)] = 0
<1>1. ASSUME NEW c \in Commands, Select(c) \/ Swap(c), current' # current
      PROVE  /\ script[c] \in {"select", "swap"} /\ UNCHANGED <<revision, plan>>
             /\ \E v \in {0, version[c]} : Points_to(c, v)
             /\ script[c] = "swap" => current[Host(c)] = 0
  BY <1>1 DEF Select, Swap, scriptRest, planVars
<1>2. UNCHANGED current \/ \E c \in Commands : Select(c) \/ Swap(c)
  BY DEF Next, vars, hostVars, Edit, Drift, Command, Submit, Override, Relay, Route, Lock, Finish,
     Reconcile, ReadHost, Confirm, BeginCopy, EndCopy, Applied, GiveUp,
     RunScript, Extract, Untar, Verify, Sync
<1> QED BY <1>1, <1>2

\* A script comes to select what it has verified, and does not move on to another host.
LEMMA SelectingStep ==
    ASSUME PlacedInv, [Next]_vars, NEW c \in Commands, script'[c] \in {"select", "swap"}
    PROVE  /\ next'[c] = next[c] /\ version'[c] = version[c] /\ script[c] # "none"
           /\ script[c] \in {"select", "swap"} \/ Holds(c) \in Manifest
<1>t. script \in [Commands -> ScriptPoints] /\ pc \in [Commands -> Points] /\ version \in [Commands -> 0 .. MaxVersion]
      /\ next \in [Commands -> 0 .. Len(HostOrder) + 1] /\ Placed(c)
  BY DEF PlacedInv, TypeOK
<1>1. CASE UNCHANGED vars \/ Edit \/ \E h \in Hosts : Drift(h)
  BY <1>1 DEF vars, planVars, Edit, Drift
<1>2. ASSUME NEW d \in Commands, Submit(d) \/ Override(d) \/ Relay(d) \/ Route(d) \/ Lock(d) \/ Finish(d) \/ Confirm(d) \/ GiveUp(d)
      PROVE  UNCHANGED <<script, next, version>>
  BY <1>2 DEF Submit, Override, Relay, Route, Lock, Finish, Confirm, GiveUp, planVars
<1>3. ASSUME NEW d \in Commands, ReadHost(d) \/ BeginCopy(d)
      PROVE  script' = script /\ next'[c] = next[c] /\ version'[c] = version[c]
  <2>1. script' = script /\ pc[d] \in {"read", "copy"}
    BY <1>3 DEF ReadHost, BeginCopy
  <2>2. c # d
    BY <1>t, <2>1 DEF Placed
  <2> QED BY <1>3, <1>t, <2>1, <2>2 DEF ReadHost, BeginCopy
<1>4. ASSUME NEW d \in Commands, EndCopy(d) \/ Applied(d)
      PROVE  script'[c] = script[c] /\ next'[c] = next[c] /\ version'[c] = version[c]
  <2>1. c = d => script'[c] \in {"extract", "none", "done", "failed"} \/ script[c] = "none"
    BY <1>4, <1>t DEF EndCopy, Applied, Goes, Placed
  <2>2. c = d => UNCHANGED script \/ script'[c] \in {"extract", "none"}
    BY <1>4, <1>t DEF EndCopy, Applied, Goes
  <2>3. c # d
    BY <2>1, <2>2
  <2> QED BY <1>4, <1>t, <2>3 DEF EndCopy, Applied, Goes, planVars
<1>5. ASSUME NEW d \in Commands, RunScript(d)
      PROVE  /\ next'[c] = next[c] /\ version'[c] = version[c] /\ script[c] # "none"
             /\ script[c] \in {"select", "swap"} \/ Holds(c) \in Manifest
  <2>1. UNCHANGED planVars
    BY <1>5, ScriptSteps DEF scriptRest
  <2>2. CASE c # d
    BY <1>5, <1>t, <2>1, <2>2, ScriptSteps DEF planVars
  <2>3. CASE c = d
    BY <1>5, <1>t, <2>1, <2>3 DEF planVars, RunScript, Extract, Untar, Verify, Select, Swap, Sync, Goes,
       DeclaredMatches, Manifest
  <2> QED BY <2>2, <2>3
<1> QED BY <1>1, <1>2, <1>3, <1>4, <1>5 DEF Next, Command, Reconcile

LEMMA DeclaredStep == ASSUME PlacedInv, DeclaredInv, [Next]_vars PROVE DeclaredInv'
<1>t. /\ current \in [Hosts -> 0 .. MaxVersion] /\ version \in [Commands -> 0 .. MaxVersion]
      /\ current' \in [Hosts -> 0 .. MaxVersion] /\ MaxVersion \in Nat
  BY TypeStep, ControlAssumption DEF PlacedInv, TypeOK
<1>1. ASSUME NEW h \in Hosts, current'[h] # 0 PROVE revision'[h][current'[h]] \in Manifest
  <2>1. current'[h] \in Versions
    BY <1>t, <1>1 DEF Versions
  <2>2. revision[h][current'[h]] \in Manifest
    <3>1. CASE current'[h] = current[h]
      BY <1>1, <3>1 DEF DeclaredInv
    <3>2. CASE current'[h] # current[h]
      <4>1. PICK c \in Commands : script[c] \in {"select", "swap"} /\ \E v \in {0, version[c]} : Points_to(c, v)
        BY <3>2, SelectionStep
      <4>2. h = Host(c) /\ current'[h] = version[c]
        BY <1>1, <1>t, <3>2, <4>1 DEF Points_to
      <4> QED BY <4>1, <4>2 DEF DeclaredInv, Holds
    <3> QED BY <3>1, <3>2
  <2> QED BY <2>1, <2>2, ManifestStays
<1>2. ASSUME NEW c \in Commands, script'[c] \in {"select", "swap"} PROVE Holds(c)' \in Manifest
  <2>1. Holds(c) \in Manifest /\ next'[c] = next[c] /\ version'[c] = version[c]
    BY <1>2, SelectingStep DEF DeclaredInv
  <2>2. Host(c) \in Hosts /\ version[c] \in Versions
    BY <1>2, SelectingStep, AtHost DEF PlacedInv
  <2>3. revision'[Host(c)][version[c]] \in Manifest
    BY <2>1, <2>2, ManifestStays DEF Holds
  <2> QED BY <2>1, <2>3 DEF Holds, Host
<1> QED BY <1>1, <1>2 DEF DeclaredInv

LEMMA AlwaysDeclared == Spec => [](PlacedInv /\ DeclaredInv)
<1>1. ASSUME Init PROVE DeclaredInv
  <2>1. 1 \in Versions /\ \A c \in Commands : script[c] = "none"
    BY <1>1, ControlAssumption DEF Init, Versions
  <2>2. PICK h0 \in SUBSET (Hosts \ Trusted) :
          /\ current = [h \in Hosts |-> IF h \in h0 THEN 0 ELSE 1]
          /\ revision = [h \in Hosts |-> [v \in Versions |->
                           IF v = 1 /\ h \notin h0 THEN "full" ELSE "absent"]]
    BY <1>1 DEF Init
  <2>3. ASSUME NEW h \in Hosts, current[h] # 0 PROVE revision[h][current[h]] = "full"
    BY <2>1, <2>2, <2>3
  <2> QED BY <2>1, <2>3 DEF DeclaredInv, Manifest
<1>2. PlacedInv /\ DeclaredInv /\ [Next]_vars => DeclaredInv'
  BY DeclaredStep
<1> QED BY <1>1, <1>2, AlwaysPlaced, PTL DEF Spec

\* Whatever is interrupted, repeated or overlaps, a host selects only revisions
\* whose manifest is there: the verification of apply_snapshot comes after the
\* manifest is written and nothing takes it away.
THEOREM RevisionsAreDeclared == Spec => []SelectedIsDeclared
<1>1. DeclaredInv => SelectedIsDeclared
  BY DEF DeclaredInv, SelectedIsDeclared, KnowsItself, Selected, Manifest
<1> QED BY <1>1, AlwaysDeclared, PTL

(***************************************************************************)
(* Edits on a host                                                         *)
(***************************************************************************)
\* A reconcile that is to replace what a host now holds with an edit had read
\* the host before.
ConflictInv ==
    \A c \in Commands, h \in Hosts : plan[c][h] = "apply" /\ Selected(h) = "edited" => c \in unseen[h]

\* What a host selects is edited only by an edit, or by selecting an edited revision.
LEMMA ConflictStep == ASSUME PlacedInv, ConflictInv, [Next]_vars PROVE ConflictInv'
<1>t. /\ plan \in [Commands -> [Hosts -> Actions]] /\ unseen \in [Hosts -> SUBSET Commands]
      /\ revision \in [Hosts -> [Versions -> Contents]] /\ current \in [Hosts -> 0 .. MaxVersion]
      /\ MaxVersion \in Nat
  BY ControlAssumption DEF PlacedInv, TypeOK, Actions
<1>1. ASSUME UNCHANGED <<current, revision>>, plan' = plan, unseen' = unseen PROVE ConflictInv'
  BY <1>1 DEF ConflictInv, Selected
<1>2. ASSUME NEW g \in Hosts, Drift(g) PROVE ConflictInv'
  <2>1. \A h \in Hosts \ {g} : Selected(h)' = Selected(h) /\ unseen'[h] = unseen[h]
    BY <1>2, <1>t DEF Drift, Selected
  <2>2. unseen'[g] = unseen[g] \cup {c \in Commands : plan[c][g] # "unread"} /\ plan' = plan
    BY <1>2, <1>t DEF Drift, Readers, planVars
  <2> QED BY <2>1, <2>2 DEF ConflictInv
<1>3. ASSUME NEW d \in Commands, ReadHost(d) PROVE ConflictInv'
  <2> DEFINE g == HostOrder[IF next[d] = 0 THEN 1 ELSE next[d]]
  <2>1. UNCHANGED <<current, revision, unseen>>
    BY <1>3 DEF ReadHost, hostVars
  <2>2. \/ plan' = plan
        \/ plan' = [plan EXCEPT ![d][g] = Compared(g, Goal(d))]
        \/ plan' = [plan EXCEPT ![d][g] = "error"]
    BY <1>3 DEF ReadHost
  <2>3. Selected(g) = "edited" => Compared(g, Goal(d)) # "apply"
    BY DEF Compared, Selected
  <2> HIDE DEF g
  <2>4. ASSUME NEW c \in Commands, NEW h \in Hosts, plan'[c][h] = "apply", Selected(h) = "edited"
        PROVE  plan[c][h] = "apply"
    BY <1>t, <2>2, <2>3, <2>4
  <2>5. \A h \in Hosts : Selected(h)' = Selected(h)
    BY <2>1 DEF Selected
  <2> QED BY <2>1, <2>4, <2>5 DEF ConflictInv
<1>4. ASSUME NEW d \in Commands, RunScript(d) PROVE ConflictInv'
  <2>1. Host(d) \in Hosts /\ version[d] \in Versions /\ plan' = plan
    BY <1>4, ScriptSteps, AtHost DEF PlacedInv, scriptRest, planVars
  <2>2. CASE UNCHANGED <<current, unseen>>
    <3>1. revision' = revision \/ \E w \in {"begun", "declared", "full"} : Fills(d, w)
      BY <1>4 DEF RunScript, Extract, Untar, Verify, Select, Swap, Sync
    <3>2. ASSUME NEW h \in Hosts, Selected(h)' = "edited" PROVE Selected(h) = "edited"
      <4>1. current'[h] = current[h] /\ current[h] # 0 /\ revision'[h][current[h]] = "edited"
        BY <2>2, <3>2 DEF Selected
      <4>2. current[h] \in Versions
        BY <1>t, <4>1 DEF Versions
      <4>3. revision[h][current[h]] = "edited"
        <5>1. revision \in [Hosts -> [Versions -> Contents]]
          BY <1>t
        <5> QED BY <2>1, <3>1, <4>1, <4>2, <5>1 DEF Fills
      <4> QED BY <4>1, <4>3 DEF Selected
    <3> QED BY <2>1, <2>2, <3>2 DEF ConflictInv
  <2>3. CASE ~UNCHANGED <<current, unseen>>
    <3>1. PICK v \in {0, version[d]} : Points_to(d, v)
      BY <1>4, <2>3, ScriptSteps
    <3>2. revision' = revision
      BY <1>4, <2>3 DEF RunScript, Extract, Untar, Verify, Select, Swap, Sync
    <3>3. \A h \in Hosts \ {Host(d)} : Selected(h)' = Selected(h) /\ unseen'[h] = unseen[h]
      BY <1>t, <3>1, <3>2 DEF Points_to, Selected
    <3>4. current'[Host(d)] = v
      BY <1>t, <2>1, <3>1 DEF Points_to
    <3>5. ASSUME NEW c \in Commands, NEW h \in Hosts, plan[c][h] = "apply", Selected(h)' = "edited"
          PROVE  c \in unseen'[h]
      <4>1. CASE h = Host(d)
        <5>1. current'[h] = v /\ v # 0 /\ revision[h][v] = "edited"
          BY <3>2, <3>4, <3>5, <4>1 DEF Selected
        <5>2. unseen'[h] = unseen[h] \cup Readers(h)
          BY <1>t, <2>1, <3>1, <4>1, <5>1 DEF Points_to
        <5> QED BY <3>5, <5>2 DEF Readers
      <4>2. CASE h # Host(d)
        BY <3>3, <3>5, <4>2 DEF ConflictInv
      <4> QED BY <4>1, <4>2
    <3> QED BY <2>1, <3>5 DEF ConflictInv
  <2> QED BY <2>2, <2>3
<1>5. \/ UNCHANGED <<current, revision, plan, unseen>>
      \/ (\E g \in Hosts : Drift(g)) \/ (\E d \in Commands : ReadHost(d) \/ RunScript(d))
  BY DEF Next, vars, hostVars, planVars, Edit, Command, Submit, Override, Relay, Route, Lock, Finish,
     Reconcile, Confirm, BeginCopy, EndCopy, Applied, GiveUp
<1> QED BY <1>1, <1>2, <1>3, <1>4, <1>5

LEMMA AlwaysInConflict == Spec => [](PlacedInv /\ ConflictInv)
<1>1. Init => ConflictInv
  BY DEF Init, ConflictInv
<1>2. PlacedInv /\ ConflictInv /\ [Next]_vars => ConflictInv'
  BY ConflictStep
<1> QED BY <1>1, <1>2, AlwaysPlaced, PTL DEF Spec

\* An edit of a selected document is replaced only by a reconcile that read the
\* host before there was one: reconcile_plan reports every other as a conflict.
THEOREM EditsAreKept == Spec => ConflictIsKept
<1>1. ASSUME PlacedInv, ConflictInv, [Next]_vars,
             NEW h \in Hosts, Selected(h) = "edited", current'[h] # current[h]
      PROVE  SelectsOver(h)
  <2>1. PICK c \in Commands : /\ script[c] \in {"select", "swap"}
                              /\ \E v \in {0, version[c]} : Points_to(c, v)
                              /\ script[c] = "swap" => current[Host(c)] = 0
    BY <1>1, SelectionStep
  <2>2. h = Host(c) /\ script[c] = "select"
    <3>1. h = Host(c)
      BY <1>1, <2>1 DEF Points_to, PlacedInv, TypeOK
    <3>2. current[h] # 0
      BY <1>1 DEF Selected
    <3> QED BY <2>1, <3>1, <3>2
  <2>3. plan[c][h] = "apply"
    BY <1>1, <2>1, <2>2 DEF PlacedInv, Placed
  <2>4. c \in unseen[h]
    BY <1>1, <2>3 DEF ConflictInv
  <2> QED BY <2>1, <2>2, <2>4 DEF SelectsOver
<1>2. PlacedInv /\ ConflictInv /\ [Next]_vars
        => [\A h \in Hosts : Selected(h) = "edited" /\ current'[h] # current[h] => SelectsOver(h)]_vars
  BY <1>1
<1> QED BY <1>2, AlwaysInConflict, PTL DEF Spec, ConflictIsKept

(***************************************************************************)
(* Where mutations are carried out                                         *)
(***************************************************************************)
\* A lifecycle command that was not carried out where it was given runs on a host
\* some version so far names as the authority; what hosts select and reconciles plan are versions so far.
RoutedInv ==
    /\ \A h \in Hosts : current[h] <= desired
    /\ \A c \in Commands : version[c] <= desired
    /\ \A c \in Commands :
          pc[c] \in {"lock", "working"} /\ kind[c] = "lifecycle" /\ c \notin unrouted
          => at[c] # Nobody /\ \E v \in 1 .. desired : authority[v] = at[c]

LEMMA RoutedStep == ASSUME PlacedInv, RoutedInv, [Next]_vars PROVE RoutedInv'
<1>t. /\ current \in [Hosts -> 0 .. MaxVersion] /\ version \in [Commands -> 0 .. MaxVersion]
      /\ desired \in Nat /\ MaxVersion \in Nat /\ pc \in [Commands -> Points]
      /\ at \in [Commands -> Hosts]
  <2>1. desired \in 1 .. MaxVersion /\ MaxVersion \in Nat
    BY ControlAssumption DEF PlacedInv, TypeOK, Versions
  <2> QED BY <2>1 DEF PlacedInv, TypeOK
<1>d. desired' \in Nat /\ desired <= desired'
  <2>1. desired' = desired \/ desired' = desired + 1
    BY DEF Next, vars, Edit, Drift, Command, Submit, Override, Relay, Route, Lock, Finish, Reconcile, ReadHost,
       Confirm, BeginCopy, EndCopy, Applied, GiveUp, RunScript, Extract, Untar, Verify, Select, Swap, Sync,
       scriptRest
  <2> QED BY <1>t, <2>1
<1>a. \A v \in 1 .. desired : authority'[v] = authority[v]
  <2>1. authority \in [Versions -> Trusted \cup {Nobody}]
    BY DEF PlacedInv, TypeOK
  <2>2. authority' = authority \/ \E a : authority' = [authority EXCEPT ![desired + 1] = a]
    BY DEF Next, vars, Edit, Drift, Command, Submit, Override, Relay, Route, Lock, Finish, Reconcile, ReadHost,
       Confirm, BeginCopy, EndCopy, Applied, GiveUp, RunScript, Extract, Untar, Verify, Select, Swap, Sync,
       scriptRest
  <2>3. \A v \in 1 .. desired : v # desired + 1 /\ v \in Versions
    <3>1. desired \in 1 .. MaxVersion /\ MaxVersion \in Nat
      BY ControlAssumption DEF PlacedInv, TypeOK, Versions
    <3> QED BY <3>1 DEF Versions
  <2> QED BY <2>1, <2>2, <2>3
<1>1. ASSUME NEW c \in Commands PROVE version'[c] <= desired'
  <2>1. version' = version \/ \E d \in Commands : version' = [version EXCEPT ![d] = Goal(d)]
    BY DEF Next, vars, planVars, Edit, Drift, Command, Submit, Override, Relay, Route, Lock, Finish, Reconcile, ReadHost,
       Confirm, BeginCopy, EndCopy, Applied, GiveUp, RunScript, Extract, Untar, Verify, Select, Swap, Sync,
       scriptRest
  <2>2. \A d \in Commands : version[d] \in Nat /\ version[d] <= desired
    BY <1>t DEF RoutedInv
  <2>3. \A d \in Commands : Goal(d) \in Nat /\ Goal(d) <= desired
    BY <1>t, <2>2 DEF Goal
  <2>4. version'[c] \in Nat /\ version'[c] <= desired
    BY <1>t, <2>1, <2>2, <2>3
  <2> QED BY <1>t, <1>d, <2>4
<1>2. ASSUME NEW h \in Hosts PROVE current'[h] <= desired'
  <2>1. UNCHANGED current \/ \E c \in Commands : \E v \in {0, version[c]} : Points_to(c, v)
    BY SelectionStep
  <2>2. current'[h] \in {current[h], 0} \cup {version[c] : c \in Commands}
    BY <1>t, <2>1 DEF Points_to
  <2>3. \A x \in {current[h], 0} \cup {version[c] : c \in Commands} : x \in Nat /\ x <= desired
    BY <1>t DEF RoutedInv
  <2>4. current'[h] \in Nat /\ current'[h] <= desired
    BY <2>2, <2>3
  <2> QED BY <1>t, <1>d, <2>4
<1>3. ASSUME NEW c \in Commands, pc'[c] \in {"lock", "working"}, kind'[c] = "lifecycle", c \notin unrouted'
      PROVE  at'[c] # Nobody /\ \E v \in 1 .. desired' : authority'[v] = at'[c]
  <2>1. kind[c] = "lifecycle"
    BY <1>3 DEF Next, vars, callVars, Edit, Drift, Command, Submit, Override, Relay, Route, Lock, Finish, Reconcile,
       ReadHost, Confirm, BeginCopy, EndCopy, Applied, GiveUp, RunScript, Extract, Untar, Verify, Select,
       Swap, Sync, scriptRest
  <2>2. CASE Route(c) /\ pc[c] = "route"
    <3>1. RunsHere(at[c], kind[c]) /\ at' = at /\ authority' = authority
          /\ unrouted' = IF kind[c] = "lifecycle" /\ ~NamesOne(at[c]) /\ pc'[c] = "lock"
                         THEN unrouted \cup {c} ELSE unrouted
      BY <1>t, <1>3, <2>2 DEF Route, To
    <3>2. pc'[c] = "lock"
      BY <1>t, <1>3, <2>1, <2>2 DEF Route, To, Start
    <3>3. NamesOne(at[c])
      BY <1>3, <2>1, <3>1, <3>2
    <3>4. authority[current[at[c]]] = at[c] /\ current[at[c]] # 0
      BY <3>1, <3>3 DEF RunsHere, IsLocal, NamesOne, KnowsItself, Selected
    <3>5. current[at[c]] \in 1 .. desired'
      BY <1>t, <1>d, <3>4 DEF RoutedInv
    <3>6. at[c] # Nobody
      BY <1>t, ControlAssumption
    <3> QED BY <3>1, <3>4, <3>5, <3>6
  <2>3. CASE ~Route(c)
    <3>1. at'[c] = at[c] /\ pc[c] \in {"lock", "working"}
      <4>1. ASSUME NEW d \in Commands, Command(d), d # c PROVE at'[c] = at[c] /\ pc'[c] = pc[c]
        <5>1. \/ UNCHANGED at \/ \E g \in Hosts : at' = [at EXCEPT ![d] = g]
              \/ at' = [at EXCEPT ![d] = authority[current[at[d]]]]
          BY <4>1 DEF callVars, Command, Submit, Override, Relay, Route, Lock, Finish, Reconcile, ReadHost, Confirm,
             BeginCopy, EndCopy, Applied, GiveUp, RunScript, Extract, Untar, Verify, Select, Swap, Sync, scriptRest
        <5>2. UNCHANGED pc \/ \E p : To(d, p)
          BY <4>1 DEF Command, Submit, Override, Relay, Route, Lock, Finish, Reconcile, ReadHost, Confirm,
             BeginCopy, EndCopy, Applied, GiveUp, RunScript, Extract, Untar, Verify, Select, Swap, Sync, scriptRest
        <5> QED BY <1>t, <4>1, <5>1, <5>2 DEF To
      <4>2. CASE Command(c)
        <5>0. CASE Override(c)
          BY <1>3, <2>1, <5>0 DEF Override
        <5>1. CASE Submit(c) \/ Relay(c)
          BY <1>3, <1>t, <5>1 DEF Submit, Relay, To
        <5>2. CASE Lock(c) \/ Finish(c) \/ Reconcile(c)
          BY <1>3, <1>t, <5>2 DEF Lock, Finish, Reconcile, ReadHost, Confirm, BeginCopy, EndCopy, Applied,
             GiveUp, To, callVars
        <5>3. CASE RunScript(c)
          BY <1>3, <5>3, ScriptSteps DEF scriptRest, callVars
        <5> QED BY <2>3, <4>2, <5>0, <5>1, <5>2, <5>3 DEF Command
      <4>3. CASE UNCHANGED vars \/ Edit \/ \E h \in Hosts : Drift(h)
        BY <1>3, <4>3 DEF vars, callVars, Edit, Drift
      <4> QED BY <1>3, <4>1, <4>2, <4>3 DEF Next
    <3>2. c \notin unrouted
      BY <1>3 DEF Next, vars, Edit, Drift, Command, Submit, Override, Relay, Route, Lock, Finish, Reconcile, ReadHost,
         Confirm, BeginCopy, EndCopy, Applied, GiveUp, RunScript, Extract, Untar, Verify, Select, Swap, Sync,
         scriptRest
    <3>3. PICK v \in 1 .. desired : authority[v] = at[c]
      BY <2>1, <3>1, <3>2 DEF RoutedInv
    <3>4. v \in 1 .. desired' /\ at[c] # Nobody
      BY <1>t, <1>d, <2>1, <3>1, <3>2 DEF RoutedInv
    <3>5. authority'[v] = authority[v]
      BY <1>a, <3>3
    <3> QED BY <3>1, <3>3, <3>4, <3>5
  <2>4. Route(c) => pc[c] = "route"
    BY DEF Route
  <2> QED BY <2>2, <2>3, <2>4
<1> QED BY <1>1, <1>2, <1>3 DEF RoutedInv

LEMMA AlwaysRouted == Spec => []RoutedInv
<1>1. Init => RoutedInv
  <2>1. ASSUME Init, NEW h \in Hosts PROVE current[h] <= 1
    BY <2>1 DEF Init
  <2> QED BY <2>1 DEF Init, RoutedInv
<1>2. PlacedInv /\ RoutedInv /\ [Next]_vars => RoutedInv'
  BY RoutedStep
<1> QED BY <1>1, <1>2, AlwaysPlaced, PTL DEF Spec

\* While the authority is not handed over, two lifecycle commands are never
\* carried out under the locks of two hosts, unless one of them never asked for
\* the authority, or was told of none.
THEOREM OneLock == Spec => []MutationsShareLock
<1>1. RoutedInv => MutationsShareLock
  BY DEF RoutedInv, MutationsShareLock, HandedOver, AtOnce
<1> QED BY <1>1, AlwaysRouted, PTL

(***************************************************************************)
(* What an observer is shown                                               *)
(***************************************************************************)
\* Status never shows a failed or silent component of a host that is in step
\* with the observer and not hidden as anything but an error.
THEOREM FailuresShow == Spec => []StatusHidesNoFailure
<1>1. StatusHidesNoFailure
  <2> SUFFICES ASSUME NEW o \in {h \in Trusted : KnowsItself(h)}, NEW x \in InRevision(o, current[o]),
                      NEW reached \in BOOLEAN, NEW ob \in Observations,
                      (Failing(ob) /\ InStep(o, HostIn[current[o]][x]))
                        \/ (~reached /\ HostIn[current[o]][x] # o),
                      HostIn[current[o]][x] \notin Hidden \/ HostIn[current[o]][x] = o
               PROVE  "error" \in Rows(o, x, reached, ob)
    BY DEF StatusHidesNoFailure
  <2> DEFINE h == HostIn[current[o]][x]
  <2>1. current[o] # 0 /\ Nowhere # h /\ x \in Components
    BY DEF KnowsItself, Selected, InRevision
  <2>2. CASE ~reached /\ h # o
    BY <2>2 DEF Rows, NoAnswer
  <2>3. CASE Failing(ob) /\ InStep(o, h)
    <3>1. current[h] = current[o] /\ Shows(h) = InRevision(h, current[h])
      BY <2>1, <2>3 DEF InStep, Shows, Listed
    <3>2. x \in Shows(h)
      BY <2>1, <3>1 DEF InRevision
    <3>3. Answers(h) /\ Condition(ob) = "error"
      BY <2>1, <2>3, <3>1 DEF Answers, Failing, Condition
    <3> QED BY <3>2, <3>3 DEF Rows, Inspected, NoAnswer
  <2> QED BY <2>2, <2>3
<1> QED BY <1>1, PTL

=============================================================================

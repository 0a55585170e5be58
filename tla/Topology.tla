------------------------------ MODULE Topology ------------------------------
(***************************************************************************)
(* The component graph of one stack and the plans that                     *)
(* llmops_executor.py builds over it.  A component is an element of        *)
(* Components; DependsOn[c] are the qualified ids of its depends_on list.  *)
(* Position[c] is the index of c in topological_order(stack): dependencies *)
(* first, no two components at one index.                                  *)
(***************************************************************************)
EXTENDS Naturals, FiniteSets

CONSTANTS Components,   \* qualified ids of one stack
          DependsOn,    \* Components -> set of direct dependencies
          Position,     \* index in topological_order(stack)
          Enabled,      \* components with enabled: true
          Managed       \* components with ownership "managed"

ASSUME TopologyAssumption ==
    /\ IsFiniteSet(Components)
    /\ DependsOn \in [Components -> SUBSET Components]
    /\ Position \in [Components -> Nat]
    /\ \A c, d \in Components : Position[c] = Position[d] => c = d
    /\ \A c \in Components : \A d \in DependsOn[c] : Position[d] < Position[c]
    /\ Enabled \subseteq Components
    /\ Managed \subseteq Components

ClosedUpstream(S)   == \A c \in S : DependsOn[c] \subseteq S
ClosedDownstream(S) == \A c \in Components : DependsOn[c] \cap S # {} => c \in S

\* The target plus all transitive upstream dependencies: the least set that
\* holds the target and is closed under DependsOn.
DependencyClosure(c) ==
    {d \in Components :
        \A S \in SUBSET Components : (c \in S /\ ClosedUpstream(S)) => d \in S}

\* The target plus all transitive downstream dependents.
DependentClosure(c) ==
    {d \in Components :
        \A S \in SUBSET Components : (c \in S /\ ClosedDownstream(S)) => d \in S}

(***************************************************************************)
(* A plan is a list of operations grouped by action.  Every plan the code  *)
(* builds is a (possibly empty) group of stops, then at most one restart,  *)
(* then a group of starts, so it is kept as the three sets; the order      *)
(* inside a group is Position (starts) or its inverse (stops).             *)
(***************************************************************************)
Plan == [stop : SUBSET Components, restart : SUBSET Components, start : SUBSET Components]

Group(stop, restart, start) == [stop |-> stop, restart |-> restart, start |-> start]

EmptyPlan == Group({}, {}, {})

\* A request names what the operator typed.
Request == [scope : {"component"}, target : Enabled, action : {"start", "stop", "restart"},
            cascade : BOOLEAN, noDeps : BOOLEAN, force : BOOLEAN]
           \cup [scope : {"stack"}, action : {"start", "stop", "restart"}]

ComponentPlan(c, action, cascade, noDeps) ==
    LET downstream == DependentClosure(c) \cap Enabled
    IN  CASE action = "start" ->
                Group({}, {}, (IF noDeps THEN {c} ELSE DependencyClosure(c)) \cap Enabled)
          [] action = "stop" -> Group(IF cascade THEN downstream ELSE {c}, {}, {})
          [] action = "restart" /\ cascade -> Group(downstream \ {c}, {c}, downstream \ {c})
          [] action = "restart" /\ ~cascade -> Group({}, {c}, {})

StackPlan(action) ==
    LET members == Enabled \cap Managed
    IN  Group(IF action \in {"stop", "restart"} THEN members ELSE {}, {},
              IF action \in {"start", "restart"} THEN members ELSE {})

PlanOf(r) == IF r.scope = "stack" THEN StackPlan(r.action)
             ELSE ComponentPlan(r.target, r.action, r.cascade, r.noDeps)

\* The next concurrent wave of a group of stops: the members no other member
\* still depends on.
WholeGroup(pending) == pending
StopWave(pending) ==
    {c \in pending : \A d \in pending : c \notin DependsOn[d]}

\* Order of the operations of one group in the plan.
Precedes(action, c, d) ==
    IF action = "stop" THEN Position[d] < Position[c] ELSE Position[c] < Position[d]

\* The first n operations of a group, in plan order.
FirstOf(action, S, n) ==
    {c \in S : Cardinality({d \in S : Precedes(action, d, c)}) < n}
=============================================================================

-------------------------- MODULE MCStackExecutor --------------------------
(* Small instances of StackExecutor for TLC. *)
EXTENDS StackExecutor, TLC

CONSTANTS engine, proxy, agent, c1, c2

MCComponents == {engine, proxy, agent}

\* engine <- proxy, engine <- agent: two consumers of one service.
MCDependsOn == (engine :> {}) @@ (proxy :> {engine}) @@ (agent :> {engine})
MCPosition  == (engine :> 1) @@ (proxy :> 2) @@ (agent :> 3)

\* engine <- proxy alone.
PairComponents == {engine, proxy}
PairDependsOn  == (engine :> {}) @@ (proxy :> {engine})
PairPosition   == (engine :> 1) @@ (proxy :> 2)

ControllerSymmetry == Permutations(Controllers)

Component(action, target, cascade, noDeps, force) ==
    [scope |-> "component", target |-> target, action |-> action,
     cascade |-> cascade, noDeps |-> noDeps, force |-> force]
Stack(action) == [scope |-> "stack", action |-> action]

\* Whole stacks and one cascading restart, whose starts depend on a component
\* outside their group.
GraphRequests ==
    {Stack("start"), Stack("stop"), Component("restart", engine, TRUE, FALSE, FALSE)}

ContentionRequests == {Stack("start"), Component("stop", engine, FALSE, FALSE, TRUE)}

\* A start and an unforced stop of what others depend on.
PlainStopRequests == {Stack("start"), Component("stop", engine, FALSE, FALSE, FALSE)}
=============================================================================

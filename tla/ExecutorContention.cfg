\* Two controllers and every fault but a failing command, over engine <- proxy.
SPECIFICATION Spec
CONSTANTS
    engine = engine
    proxy = proxy
    agent = agent
    c1 = c1
    c2 = c2
    NoController = NoController
    Components <- PairComponents
    DependsOn <- PairDependsOn
    Position <- PairPosition
    Enabled <- PairComponents
    Managed <- PairComponents
    Unprobed = {proxy}
    Controllers = {c1, c2}
    Requests <- ContentionRequests
    Workers = 2
    Faults = {"kill", "disk", "unreachable", "interrupt", "timeout", "die", "spawn"}
SYMMETRY ControllerSymmetry
INVARIANTS
    LockOwnsExecution
    HolderSeesDisk
    RollbackSparesPreexisting
PROPERTIES
    RunningOnlyAfterSuccess
    ImplementsLedger

\* One controller, failing commands, over engine <- proxy, agent.
SPECIFICATION FairSpec
CONSTANTS
    engine = engine
    proxy = proxy
    agent = agent
    c1 = c1
    c2 = c2
    NoController = NoController
    Components <- MCComponents
    DependsOn <- MCDependsOn
    Position <- MCPosition
    Enabled <- MCComponents
    Managed <- MCComponents
    Unprobed = {}
    Controllers = {c1}
    Requests <- GraphRequests
    Workers = 2
    Faults = {"command"}
INVARIANTS
    StopsRecorded
    RestartBarrier
    StopOrder
    StartOrder
    AdmissionNeverStuck
    DrainBeforeRollback
    RollbackComplete
PROPERTY
    LockReleased

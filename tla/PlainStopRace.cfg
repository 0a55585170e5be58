\* A stop without --force, prepared before the lock, against a stack start.
SPECIFICATION Spec
CONSTANTS
    engine = engine
    proxy = proxy
    agent = agent
    c1 = c1
    c2 = c2
    NoController = NoController
    Components <- PairComponents
    DependsOn <- PairDependsOn
    Position <- PairPosition
    Enabled <- PairComponents
    Managed <- PairComponents
    Unprobed = {proxy}
    Controllers = {c1, c2}
    Requests <- PlainStopRequests
    Workers = 2
    Faults = {}
PROPERTY
    PlainStopSparesDependents

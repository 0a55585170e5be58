\* Two overlapping commands of every kind, three versions of which the last names
\* another authority or none, one fault.
\* A behaviour ends when its commands have ended.
SPECIFICATION Spec
CONSTANTS
    desk = desk
    peer = peer
    node = node
    model = model
    gateway = gateway
    c1 = c1
    c2 = c2
    Nowhere = Nowhere
    Nobody = Nobody
    Hosts = {desk, peer, node}
    HostOrder <- MCHostOrder
    Trusted = {desk, peer}
    Canonical = {desk, peer}
    AtomicMove = {desk}
    Hidden = {}
    MaxVersion = 3
    MayName <- MCMayName
    Components = {model, gateway}
    HostIn <- MCHostIn
    Commands = {c1, c2}
    Kinds = {"lifecycle", "reconcile", "console"}
    MaxHops = 2
    MaxFaults = 1
    Faults = {"unreachable", "transfer", "extract", "drift", "give up"}
SYMMETRY CommandSymmetry
INVARIANTS
    SelectedIsDeclared
    MutationsShareLock
    StatusHidesNoFailure
PROPERTY
    ConflictIsKept
CHECK_DEADLOCK FALSE

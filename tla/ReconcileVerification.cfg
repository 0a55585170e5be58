\* Two reconciles one after the other or overlapping; one extraction fails.
\* A behaviour ends when its commands have ended.
SPECIFICATION Spec
CONSTANTS
    desk = desk
    peer = peer
    node = node
    model = model
    gateway = gateway
    c1 = c1
    c2 = c2
    Nowhere = Nowhere
    Nobody = Nobody
    Hosts = {desk, peer, node}
    HostOrder <- MCHostOrder
    Trusted = {desk, peer}
    Canonical = {desk}
    AtomicMove = {desk, peer, node}
    Hidden = {}
    MaxVersion = 2
    MayName <- MCMayName
    Components = {model, gateway}
    HostIn <- MCHostIn
    Commands = {c1, c2}
    Kinds = {"reconcile"}
    MaxHops = 2
    MaxFaults = 1
    Faults = {"extract"}
INVARIANT
    SelectedIsComplete
CHECK_DEADLOCK FALSE

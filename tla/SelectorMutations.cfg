\* Two invocations of any kind, failing commands, kills and signals.
SPECIFICATION Spec
CONSTANTS
    ra = ra
    rb = rb
    rc = rc
    NoRelease = NoRelease
    NoProcess = NoProcess
    Dead = Dead
    p1 = p1
    p2 = p2
    Releases = {ra, rb, rc}
    Legacy = {ra}
    Processes = {p1, p2}
    Targets = {rc}
    Operations = {"update", "rollback", "repair", "prune"}
    MaxInode = 2
    MaxInUse = 1
    Faults = {"command", "kill", "signal"}
INVARIANTS
    LockMatchesWork
    SelectionUsable
    SuccessIsConsistent
PROPERTY
    RemovalWasReviewed
    ImplementsContract
SYMMETRY ProcessSymmetry

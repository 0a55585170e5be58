\* One controller at a time over three hosts, every fault.
SPECIFICATION FairSpec
CONSTANTS
    h1 = h1
    h2 = h2
    h3 = h3
    va = va
    vb = vb
    NoRelease = NoRelease
    k1 = k1
    k2 = k2
    Hosts = {h1, h2, h3}
    Position <- TriplePosition
    Releases = {va, vb}
    Controllers = {k1}
    Goals = {"apply", "rollback"}
    Targets = {vb}
    MaxDoubt = 1
    Faults = {"refuse", "halfway", "lost", "verify"}
INVARIANTS
    SuccessIsUniform
    FailureRestores
    LinksStayDistinct
PROPERTY
    InvocationEnds

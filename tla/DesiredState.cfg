\* A proxy in front of a model and a name for a third component; a command line
\* and a console, three commands in all.  A behaviour ends with them.
SPECIFICATION Spec
CONSTANTS
    model = model
    proxy = proxy
    spare = spare
    desk = desk
    node = node
    llama = llama
    tap = tap
    chat = chat
    gate = gate
    extra = extra
    c1 = c1
    c2 = c2
    Slots = {model, proxy, spare}
    Hosts = {desk, node}
    Trusted = {desk}
    Profiles = {chat, gate, extra}
    Templates = {llama, tap}
    Providers = {llama, tap}
    Consumers = {tap}
    Ports = {1, 2}
    NoPort = 0
    NoOne = NoOne
    Authority = desk
    NoHost = NoHost
    FirstTree <- MCFirst
    Requests <- MCRequests
    Commands = {c1, c2}
    Consoles = {c2}
    MaxCommands = 3
INVARIANTS
    TreeStaysValid
    SnapshotLoads
PROPERTIES
    PlanStillHolds
    RetiredWasStopped
CHECK_DEADLOCK FALSE

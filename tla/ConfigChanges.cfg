\* Two operators, three kinds of edit, every fault, backups named by the second.
\* A behaviour ends with its MaxOperations operations: nothing waits for another.
SPECIFICATION Spec
CONSTANTS
    stack = stack
    profile = profile
    created = created
    configure = configure
    provision = provision
    create = create
    o1 = o1
    o2 = o2
    Original = Original
    Files = {stack, profile, created}
    Edits = {configure, provision, create}
    Documents <- MCDocuments
    Creates <- MCCreates
    Unvalidated = {create}
    Incompatible <- MCIncompatible
    Operators = {o1, o2}
    MaxSecond = 1
    MaxOperations = 2
    Faults = {"prepare", "replace", "restore", "kill"}
SYMMETRY OperatorSymmetry
INVARIANTS
    ReplacedIsRecoverable
PROPERTIES
    FailedChangeRestores
    GuardedChangeIsExact
CHECK_DEADLOCK FALSE

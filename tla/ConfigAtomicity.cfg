\* One operator; a temporary or a backup cannot be written.
\* A behaviour ends with its MaxOperations operations.
SPECIFICATION Spec
CONSTANTS
    stack = stack
    profile = profile
    created = created
    configure = configure
    provision = provision
    create = create
    o1 = o1
    o2 = o2
    Original = Original
    Files = {stack, profile, created}
    Edits = {configure, provision, create}
    Documents <- MCDocuments
    Creates <- MCCreates
    Unvalidated = {create}
    Incompatible <- MCIncompatible
    Operators = {o1}
    MaxSecond = 0
    MaxOperations = 1
    Faults = {"prepare"}
PROPERTY
    TransactionIsAtomic
CHECK_DEADLOCK FALSE

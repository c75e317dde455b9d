SPECIFICATION Spec
SYMMETRY HandleSymmetry
CONSTANTS
    Options = {o1, o2}
    Contexts = {c1}
    Handles = {h1, h2}
    Kinds = {"guard_condition", "wait_set"}
    InstanceIds = {"1"}
    IdSpace = 2
    MaxStrings = 1
    MaxInits = 2
    Namespaces <- MCNamespaces
    ForeignInstances <- MCForeignInstances
    NoHandle = NoHandle
INVARIANT
    ContextOutlivesWaitSets
CHECK_DEADLOCK FALSE

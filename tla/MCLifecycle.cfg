SPECIFICATION Spec
SYMMETRY HandleSymmetry
CONSTANTS
    Options = {o1, o2}
    Contexts = {c1}
    Handles = {h1, h2, h3}
    Kinds = {"node", "guard_condition", "wait_set", "publisher", "subscription", "client", "service"}
    InstanceIds = {"1"}
    IdSpace = 2
    MaxStrings = 1
    MaxInits = 2
    Namespaces <- MCNamespaces
    ForeignInstances <- MCForeignInstances
    NoHandle = NoHandle
INVARIANTS
    TypeOK
    PiecesAccounted
    ImplsOwned
    EnclavesAlive
    ServicesDistinct
    NodesListed
    OnlyWaitSetsDangle
CHECK_DEADLOCK FALSE

SPECIFICATION Spec
SYMMETRY EndpointSymmetry
CONSTANTS
    MessageTypes <- MCMessageTypes
    TopicTypes <- NarrowTypes
    TopicNames = {"/chatter"}
    ForeignNames <- BareNames
    Endpoints = {e1, e2}
    Counters = {k1, k2}
    MaxPorts = 1
INVARIANTS
    TypeOK
    PortsConfigured
    ListingExact
    MessagesIntact
PROPERTIES
    RefusedOnlyWhileCounting

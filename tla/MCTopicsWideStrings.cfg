SPECIFICATION Spec
SYMMETRY EndpointSymmetry
CONSTANTS
    MessageTypes <- MCMessageTypes
    TopicTypes <- WideTypes
    TopicNames = {"/chatter"}
    ForeignNames <- OtherNames
    Endpoints = {e1, e2}
    Counters = {k1, k2}
    MaxPorts = 1
INVARIANT
    MessagesIntact

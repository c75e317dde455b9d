SPECIFICATION Spec
CONSTANTS
    g1 = g1
    g2 = g2
    s1 = s1
    s2 = s2
    s3 = s3
    Null = Null
    GuardConditions = {g1, g2}
    Subscribers = {s1, s2, s3}
    ServiceName <- MCServiceName
    Calls <- MixedCalls
    Faults = {"create", "attach", "run"}
PROPERTIES
    EachCallOwnMappings

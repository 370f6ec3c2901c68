SPECIFICATION Spec
CONSTANTS
    Channels = {c1, c2}
    Types <- MCTypes
    MaxRetries = 2
    MaxConnections = 2
    MaxFailures = 2
    None = None
INVARIANT NoChannelForgotten
PROPERTY SubscribedInTheEnd
CHECK_DEADLOCK FALSE

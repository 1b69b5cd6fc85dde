SPECIFICATION FairSpec
CONSTANTS
    MaxPayload = 60
    MaxSent = 2
    Messages <- MCMessages
    Pairs <- MCPairs
PROPERTY
    ImplementsQueue
CHECK_DEADLOCK FALSE

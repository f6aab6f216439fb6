SPECIFICATION AllSpec
CONSTANTS
    Kinds = {"tty", "file", "mtls", "web", "mcp"}
    MaxRequests = 2
    MaxDecisions = 3
    MaxAsked = 2
    MaxPosts = 3
    MaxGets = 2
    Servers = {s1, s2}
    MaxCalls = 2
    MaxNoise = 2
INVARIANTS
    OnlyOutstandingPending
    LinesLostBounded
    McpFaithful
    AnsweredAreHeard
PROPERTIES
    ImplementsChannel
    EveryRequestReturns
    MtlsImplementsChannel

SPECIFICATION AllSpec
CONSTANTS
    Kinds = {"web"}
    MaxRequests = 1
    MaxDecisions = 1
    MaxAsked = 1
    MaxPosts = 1
    MaxGets = 1
    Servers = {s1}
    MaxCalls = 1
    MaxNoise = 1
PROPERTY TimeoutHonoured

\* NodeControllerHooks run one_controller: one controller thread and one
\* ping thread sharing prng(), a joined and a foreign network.
SPECIFICATION Spec
CONSTANTS
    c1 = c1
    p1 = p1
    me = me
    a1 = a1
    n1 = n1
    n2 = n2
    ControllerThreads = {c1}
    Pingers = {p1}
    Self = me
    Peers = {a1}
    Nwids = {n1, n2}
    Joined = {n1}
    RequestIds = {0, 9}
    DictSizes = {2, 3}
    ChunkMax = 2
    ErrorCodes = {"OBJECT_NOT_FOUND", "ACCESS_DENIED", "INTERNAL_SERVER_ERROR", "NONE"}
    PrngOutputs <- MCPrngOutputs
    MaxCalls = 4
INVARIANTS
    TypeOK
    TransferChunksTile
    WireRouting
\* The controller may stop issuing calls; the node then waits.
CHECK_DEADLOCK FALSE

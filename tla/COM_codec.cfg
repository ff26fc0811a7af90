\* COM run codec: the sender's certificate through serialize, forged and truncated buffers, and deserialize.
CONSTANTS
    Values = {0, 1}
    Deltas = {0, 1}
    MaxU64 = 7
    ExtraIds = {3}
    SetIds = {0, 3}
    NetworkIds = {1}
    Members = {1}
    ForgedIds = {1, 3}
    Signers = {5}
    NullAddress = 0
    MaxQualifiers = 3
    MaxSenderOps = 2
SPECIFICATION Spec
INVARIANTS
    TypeOK
    DecodedIdsOrdered
PROPERTY
    RoundTrip

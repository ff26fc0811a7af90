\* NodeConstruction run public_lost: the same host and faults;
\* IDENTITY_SECRET, three constructions, crashes and torn puts anywhere.
SPECIFICATION Spec
CONSTANTS
    i1 = i1
    i2 = i2
    Identities = {i1, i2}
    SecretKeyedById = FALSE
    MaxStarts = 3
    CallbackVersions = {0, 1}
INVARIANT PublicIdentityPersisted
\* After the host's last destroy nothing runs.
CHECK_DEADLOCK FALSE

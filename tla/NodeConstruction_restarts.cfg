\* NodeConstruction run restarts: a host that ignores the id of
\* IDENTITY_SECRET, three constructions, crashes and torn puts anywhere.
SPECIFICATION Spec
CONSTANTS
    i1 = i1
    i2 = i2
    Identities = {i1, i2}
    SecretKeyedById = FALSE
    MaxStarts = 3
    CallbackVersions = {0, 1}
INVARIANTS
    TypeOK
    UpOnlyWhenBuilt
    NoLeakWhenStopped
    HostViewConsistent
PROPERTY
    ImplementsLifecycle
\* After the host's last destroy nothing runs.
CHECK_DEADLOCK FALSE

\* JSONDB run sequential: one client thread, the store built in filesystem or IPC mode.
CONSTANTS
    n1 = n1
    n2 = n2
    m1 = m1
    m2 = m2
    c1 = c1
    c2 = c2
    t1 = t1
    t2 = t2
    EmptyConfig = EmptyConfig
    Modes = {"fs", "ipc"}
    Nwids = {n1}
    Mids = {m1, m2}
    Configs = {c1}
    Threads = {t1}
    MayStartEmpty = TRUE
    MaxInput = 1
    WritesMayFail = TRUE
    MemberConfigs <- MCMemberConfigs
    InitDiskNet <- MCInitDiskNet
    InitDiskMem <- MCInitDiskMem
SPECIFICATION Spec
INVARIANT MembersIndexConsistent
INVARIANT DiskMatchesMemory
INVARIANT ReadyOnlyAfterInput
PROPERTY StaleSummaryEventuallyRecomputed
PROPERTY ImplementsStore

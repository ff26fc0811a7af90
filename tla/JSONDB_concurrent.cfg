\* JSONDB run concurrent: two client threads and the worker, filesystem or HTTP mode.
CONSTANTS
    n1 = n1
    n2 = n2
    m1 = m1
    m2 = m2
    c1 = c1
    c2 = c2
    t1 = t1
    t2 = t2
    EmptyConfig = EmptyConfig
    Modes = {"fs", "http"}
    Nwids = {n1}
    Mids = {m1, m2}
    Configs = {c1}
    Threads = {t1, t2}
    MayStartEmpty = FALSE
    MaxInput = 0
    WritesMayFail = FALSE
    MemberConfigs <- MCMemberConfigs
    InitDiskNet <- MCInitDiskNet
    InitDiskMem <- MCInitDiskMem
SPECIFICATION Spec
INVARIANT TypeOK
INVARIANT SummaryConsistent

SPECIFICATION Spec
CONSTANTS
    n1 = n1
    c1 = c1
    c2 = c2
    d1 = d1
    o1 = o1
    o2 = o2
    o3 = o3
    Nwids = {n1}
    DataThreads = {d1}
    Objs = {o1, o2}
    ControlThreads = {c1, c2}
INVARIANT
    ErasedNetworksWereDestroyed

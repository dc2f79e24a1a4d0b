CONSTANTS
    Values = {v1, v2, v3}
    NoValue = none
    N = 4
    Nodes = {n1, n2, n3, n4}
    End = end
    Null = null
    PushEnds = {"front", "back"}
    Threaded = {n1, n2, n3}
    Procs = {loop, h1, h2}
    Poppers = {loop}
    Bufs = {b1, b2, b3, b4}
    Ptrs = {p1, p2}
    Reqs = {r1, r2}
    Tasks = {t1}
    Size = 1
    MaxCalls = 1
    NULL = NULL
    Configs <- MCConfigs
    Slots = {x1, x2, x3}
    Objects = {o1, o2}
    Kinds = {"handle", "simple", "auto", "shared", "openssl", "pointer"}
    Unborn = unborn
    Ports = {1, 2}
    Words = {1, 2}
    Wides = {1, 2}
    Types = {"int", "string"}
    Vals = {1, 2}
    Classes = {"optional", "recursive", "table"}
    None = none
    Ids = {i1, i2, i3}
    Names = {"level", "depth", "password", "peers", "size"}
    Hash <- MCHash
    Args <- MCArgs
    Texts <- MCTexts
    Garbage = garbage
    LongBits = 4
    IntBits = 3
    MaxArgs = 2
    Calls = 2
SPECIFICATION MCSpec
INVARIANTS CellsExact BuffersSound PoolServes OwnersSound AddressSound HoldersSound OptionsSound
PROPERTIES ImplementsFifo ListSound ImplementsStack RecycledBuffersAreEmpty
CHECK_DEADLOCK FALSE
SYMMETRY Symmetry

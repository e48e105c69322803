SPECIFICATION SequentialSpec
CONSTANTS
    Parts = {"dict", "list", "owner", "walk"}
    Locals = {"x", "y"}
    Param = "p"
    Keys = {k1, k2, k3, k4}
    Vals = {v1, v2}
    NoVal = NoVal
    Hash <- Hashes
    InitCap = 4
    MaxCap = 8
    MaxRefs = 2
    k1 = k1
    k2 = k2
    k3 = k3
    k4 = k4
    Vars = {"x", "y"}
    Ints = {1}
    Ptrs = {2}
    MaxLen = 2
    MaxLists = 2
    MaxHidden = 1
    MaxDepth = 3
    MaxObjects = 3
INVARIANTS
    ProbeEnds KeysOwned ReadsElement CountsExact JudgedByContext
PROPERTIES Implements
CHECK_DEADLOCK FALSE

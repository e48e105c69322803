SPECIFICATION CompilerSpec
CONSTANTS
    Parts = {"scope"}
    MaxItems = 1
    MaxDepth = 2
    MaxThrows = 0
    Values = {1}
    Orders <- BaseFirst
    A = A
    B = B
    C = C
    NoClass = NoClass
INVARIANTS DeferOnce
CHECK_DEADLOCK FALSE

SPECIFICATION CompilerSpec
CONSTANTS
    Parts = {"closure"}
    MaxItems = 2
    MaxDepth = 4
    MaxThrows = 2
    Values = {1, 2}
    Orders <- BaseFirst
    A = A
    B = B
    C = C
    NoClass = NoClass
INVARIANTS CapturesByValue
CHECK_DEADLOCK FALSE

SPECIFICATION CompilerSpec
CONSTANTS
    Parts = {"imports", "generics", "hierarchy", "scope", "flow", "class", "closure"}
    MaxItems = 2
    MaxDepth = 4
    MaxThrows = 2
    Values = {1}
    Orders <- AnyOrder
    A = A
    B = B
    C = C
    NoClass = NoClass
INVARIANTS
    ImportedOnce Expanded SubtypingRight Substitutable FreedOnce LeaveExact
    ExecutesAsWritten FieldsAgree PartsDestroyedOnce CapturesFree
PROPERTIES Lifo
CHECK_DEADLOCK FALSE

SPECIFICATION HandlesSpec
CONSTANTS
    Threads = {t1, t2, t3}
    None = None
    Parts = {"websocket"}
    Kinds = {"once", "static"}
    MaxCalls = 2
    t1 = t1
    t2 = t2
    t3 = t3
    Owners = {o1, o2, o3, o4}
    Creator = o1
    Awaiters = {o2}
    Capacity = 2
    Captured = {"out", "err"}
    MaxWrites <- BothOverflow
    MaxKills = 2
    Result = Result
    NoResult = NoResult
    Senders = {s1, s2}
    Nobody = Nobody
    MaxFrames = 3
    MaxSends = 1
    Clients = {"c1", "c2"}
    Size <- OneFits
    AnswerSize = 2
    Fits = 2
    Runners = {r1, r2}
    Stoppers = {q1, q2}
PROPERTY
    SendPathProtected
CHECK_DEADLOCK FALSE

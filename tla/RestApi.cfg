\* One DELETE at a time. Calm: well-formed requests, nothing fails. Mixed: malformed
\* and foreign ones as well; nothing fails, or the process is killed and Redis drops
\* commands. Connection: the flag, the waiting calls and the retries of several clients.
CONSTANTS
    magazine = magazine
    battery = battery
    flyer = flyer
    ticket = ticket
    r1 = r1
    r2 = r2
    r3 = r3
    None = None
    Tasks <- MCTasks
    Users <- MCUsers
    Lists <- MCLists
    Requests <- MCRequests
    Req <- MCReq
    Overlap = FALSE
    Faults = {"kill", "outage"}
    Callers <- MCCallers
    Breaks = 2
    NoClient = None
SPECIFICATION ServerSpec
CHECK_DEADLOCK FALSE
INVARIANTS
    RestTypeOK
    PostsSurvive
    OnlyNamedTasksMove
    PromisesAreKept
    ConnectionInv
PROPERTIES
    TasksAreAccounted
    ServerAnswers

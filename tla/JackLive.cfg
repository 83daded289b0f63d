\* One slow client and two that process, for the properties about what must happen.
CONSTANTS
    Parts = {"transport", "cycle", "engine", "session"}
    p = p
    q = q
    e1 = e1
    e2 = e2
    in = in
    NoClient = NoClient
    Callers = {p}
    SyncTimeout = 2
    FrameCount = 3
    MaxAsks = 3
    Processors = {e1, e2}
    InProcess = {}
    MaxBytes = 2
    MaxUpsets = 2
    Faults = {"cycle", "device"}
    Deletes = TRUE
    MaxOps = 4
    Managers = {"m", "n"}
    Savers = {"r", "s"}
    MaxNotifies = 2
SPECIFICATION FairSpec
CHECK_DEADLOCK FALSE
PROPERTIES
    ServerGoesOn

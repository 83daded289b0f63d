\* Two clients that answer the transport slowly, three that process, one of them
\* in the server, and everything the driver may fail at.
CONSTANTS
    Parts = {"transport", "cycle", "engine", "session"}
    p = p
    q = q
    e1 = e1
    e2 = e2
    in = in
    NoClient = NoClient
    Callers = {p, q}
    SyncTimeout = 2
    FrameCount = 3
    MaxAsks = 4
    Processors = {e1, e2, in}
    InProcess = {in}
    MaxBytes = 2
    MaxUpsets = 2
    Faults = {"cycle", "thread", "device"}
    Deletes = TRUE
    MaxOps = 4
    Managers = {"m", "n"}
    Savers = {"r", "s"}
    MaxNotifies = 3
SPECIFICATION Spec
CHECK_DEADLOCK FALSE
INVARIANTS
    TransportInv
    CycleInv
    EngineInv
    
PROPERTIES
    MovesAreAnnounced

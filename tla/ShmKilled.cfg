\* Servers that may be killed at any line.
CONSTANTS
    Parts = {"shm"}
    p1 = p1
    p2 = p2
    p3 = p3
    srv1 = srv1
    srv2 = srv2
    app = app
    port1 = port1
    port2 = port2
    pretty = pretty
    hint = hint
    Size = 8
    MaxBytes = 20
    Sources = {1, 2}
    BufferSize = 54
    EventTimes = {0, 1}
    DataSizes = {1, 5, 6}
    MaxReserves = 4
    Procs = {p1, p2}
    ServerNames = {srv1, srv2}
    LastIndex = 0
    Slots = {1, 2}
    MaxRegistries = 2
    MaxObjects = 2
    Mishaps = {"kill"}
    Setters = {app}
    Subjects = {port1, port2}
    Keys = {pretty, hint}
    Sizes = {5}
    OwnerOf <- PortsOfApp
    MaySet <- DescribesItsOwn
    DbFails = TRUE
    MaxNotices = 2
    LatencyClients = {"effect", "mixer"}
    InPorts <- InputPorts
    OutPorts <- OutputPorts
    Driver = "driver"
    Delay <- Delays
    DriverKinds = {"plain"}
    Periods = {1}
    MaxSorts = 0
    MaxAsked = 0
SPECIFICATION Spec
CHECK_DEADLOCK FALSE
INVARIANT
    JackAlwaysStarts

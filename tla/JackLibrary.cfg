\* A ring of 8 bytes; two MIDI ports mixed into one; three servers with two names,
\* of which one may be killed at any line; a client that describes its two ports.
CONSTANTS
    Parts = {"ring", "midi", "shm", "metadata", "latency"}
    p1 = p1
    p2 = p2
    p3 = p3
    srv1 = srv1
    srv2 = srv2
    app = app
    port1 = port1
    port2 = port2
    pretty = pretty
    hint = hint
    Size = 8
    MaxBytes = 20
    Sources = {1, 2}
    BufferSize = 54
    EventTimes = {0, 1}
    DataSizes = {1, 5, 6}
    MaxReserves = 4
    Procs = {p1, p2, p3}
    ServerNames = {srv1, srv2}
    LastIndex = 0
    Slots = {1, 2}
    MaxRegistries = 2
    MaxObjects = 2
    Mishaps = {"twice", "kill"}
    Setters = {app}
    Subjects = {port1, port2}
    Keys = {pretty, hint}
    Sizes = {5}
    OwnerOf <- PortsOfApp
    MaySet <- DescribesItsOwn
    DbFails = TRUE
    MaxNotices = 2
    LatencyClients = {"effect", "mixer"}
    InPorts <- InputPorts
    OutPorts <- OutputPorts
    Driver = "driver"
    Delay <- Delays
    DriverKinds = {"callback", "plain"}
    Periods = {1, 2}
    MaxSorts = 3
    MaxAsked = 1
SPECIFICATION Spec
CHECK_DEADLOCK FALSE
SYMMETRY Symmetry
INVARIANTS
    RingInv
    MidiInv
    RegistryInv
    MetadataInv
    LatencyInv

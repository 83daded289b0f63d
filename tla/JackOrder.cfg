\* Six clients of which one feeds another, enough for the halves of the sorted
\* list to hold several clients each; one connection.
CONSTANTS
    Parts = {"graph"}
    a = a
    b = b
    synth = synth
    mixer = mixer
    drv = drv
    ext = ext
    int = int
    eo = eo
    ei = ei
    io = io
    ii = ii
    play = play
    None = None
    Clients = {drv, a, b, ext, int, synth}
    Drivers = {drv}
    Internals = {}
    Ports = {eo, ii}
    Owner <- GraphOwner
    Outputs = {eo}
    NoZombies = FALSE
    FreshFed = {0}
    MaxConns = 1
    MaxUncounted = 1
    Apps = {a, b}
    PortMax = 3
    Names = {synth, mixer}
    Sizes = {1, 2}
    MaxRequests = 5
    Procs = {a, b}
    Keys = {1, 2, 3}
    Bases = {synth, mixer}
    MaxExtra = 1
    Uuids = {8, 9}
    MaxOpens = 6
    Openers = {a, b}
    User = user
    NoStart = {}
    MaxTries = 1
    Nobody = nobody
SPECIFICATION TablesSpec
CHECK_DEADLOCK FALSE
INVARIANT
    ExecutionOrder

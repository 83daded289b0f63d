\* An external and an internal client and the driver with up to four connections;
\* two clients that know two names, for three ports and for three client structures.
CONSTANTS
    Parts = {"graph", "ports", "clients", "open"}
    a = a
    b = b
    synth = synth
    mixer = mixer
    drv = drv
    ext = ext
    int = int
    eo = eo
    ei = ei
    io = io
    ii = ii
    play = play
    None = None
    Clients = {drv, ext, int}
    Drivers = {drv}
    Internals = {int}
    Ports = {eo, ei, io, ii, play}
    Owner <- GraphOwner
    Outputs = {eo, io}
    NoZombies = FALSE
    FreshFed = {0}
    MaxConns = 4
    MaxUncounted = 1
    Apps = {a, b}
    PortMax = 3
    Names = {synth, mixer}
    Sizes = {1, 2}
    MaxRequests = 5
    Procs = {a, b}
    Keys = {1, 2, 3}
    Bases = {synth, mixer}
    MaxExtra = 1
    Uuids = {8, 9}
    MaxOpens = 6
    Openers = {a, b}
    User = user
    NoStart = {}
    MaxTries = 1
    Nobody = nobody
SPECIFICATION TablesSpec
CHECK_DEADLOCK FALSE
SYMMETRY Symmetry
INVARIANTS
    GraphInv
    PortsInv
    ClientsInv
    OpeningInv

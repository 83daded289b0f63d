\* A network driver with packets of two datagrams and a cache of two; payloads
\* around the size of a datagram; a sound card of one channel, of each kind.
CONSTANTS
    Parts = {"net", "packet", "alsa", "oss", "bsd", "options", "server", "firewire", "firemidi", "callback"}
    Masters = {"a", "b"}
    NumFragments = 2
    CacheSize = 2
    MaxFrame = 2
    ResyncAt = 2
    LostMany = 1
    MaxExpected = 4
    LostAll = 2
    Header = 3
    Mtus = {6, 7}
    PacketSizes = {3, 4, 6, 7, 9, 10, 11, 15}
    Words = 12
    MidiEvents <- SomeEvents
    MaxEvents = 2
    Channels = {1}
    MonitorPorts = {1}
    Setups <- Cards
    UserPeriods = 2
    Frames = {1, 2}
    Refused = {}
    MaxDelays = 1
    CardFaults = {"suspend", "unplug", "signal"}
    Devices = {{"in", "out"}, {"in"}, {"out"}}
    Builds = {TRUE, FALSE}
    MaxPeriods = 4
    Kinds = {"sun", "sndio"}
    DeviceSize = 3
    Primes = {2, 3}
    MaxRecorded = 5
    DriverNames = {"alsa", "coreaudio", "portaudio", "net", "ffado", "freebob", "dummy", "oss", "sun", "sndio"}
    Built = {"samplerate"}
    MaxWords = 2
    MaxSets = 2
    MaxTyped = 2
    MaxCalls = 4
    FireApis = {"freebob", "ffado"}
    FireDevices <- FireWireDevices
    FireMidi = {"alsa", "jack"}
    FirePeriods = {1, 2}
    MidiPaths = {"ffado", "freebob", "alsa"}
    Messages <- MidiMessages
    PeriodSlots = 4
    OverflowSize = 2
    UnpackMax = 4
    MaxMessages = 3
    CallbackApis = {"coreaudio", "portaudio"}
    Uids = {"card", "mic", "none"}
    NoUid = "none"
    SoundDevices <- SoundCards
    DefaultIn = "mic"
    DefaultOut = "card"
    Asked <- AskedFor
    CallbackFrames = {1, 2}
SPECIFICATION Spec
CHECK_DEADLOCK FALSE
INVARIANTS
    
    AlsaInv
    OssInv
    BsdInv
    PassedOnInv
    FirewireInv
    CallbackInv
PROPERTIES
    PeriodsAreGivenOnce

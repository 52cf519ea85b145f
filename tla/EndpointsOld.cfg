CONSTANTS
    p1 = p1
    prof0 = prof0
    prof1 = prof1
    shift = shift
    kA = kA
    vol = vol
    Nothing = Nothing
    Mods <- SomeMods
    Keys <- SomeKeys
    Media <- SomeMedia
    Unsupported <- NoUsages
    KeySlots = 1
    MediaSlots = 1
    SeparateModRelease = TRUE
    Bind <- PlainKey
    Morph <- NoMorph
    MorphOf <- NoMorph
    Profiles <- TwoProfiles
    QueueSize = 2
    UsbStates <- OffOn
    h1 = h1
    h2 = h2
    NoHost = NoHost
    BleHosts <- TwoHosts
    Builds <- SomeBuilds
    Count = 2
    MaxConn = 2
    PasskeyDigits = 2
    Digits = {1, 2}
    MaxCommands = 3
    MaxLinks = 3
    MaxBleSteps = 6
    MaxCrashes = 1
    Parts = {"endpoints"}
SPECIFICATION AllSpec
INVARIANT OldEndpointReleased
CHECK_DEADLOCK FALSE

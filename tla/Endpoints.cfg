CONSTANTS
    p1 = p1
    prof0 = prof0
    prof1 = prof1
    shift = shift
    kA = kA
    vol = vol
    Nothing = Nothing
    Mods <- SomeMods
    Keys <- SomeKeys
    Media <- SomeMedia
    Unsupported <- NoUsages
    KeySlots = 1
    MediaSlots = 1
    SeparateModRelease = TRUE
    Bind <- MixedKey
    Morph <- NoMorph
    MorphOf <- NoMorph
    Profiles <- TwoProfiles
    QueueSize = 2
    UsbStates <- Suspending
    h1 = h1
    h2 = h2
    NoHost = NoHost
    BleHosts <- TwoHosts
    Builds <- SomeBuilds
    Count = 2
    MaxConn = 2
    PasskeyDigits = 2
    Digits = {1, 2}
    MaxCommands = 3
    MaxLinks = 4
    MaxBleSteps = 5
    MaxCrashes = 1
    Parts = {"endpoints", "profiles"}
SPECIFICATION AllSpec
SYMMETRY Alike
VIEW AllButForOut
INVARIANTS EndpointsReleased ProfilesAgree
PROPERTIES NoTakeover
CHECK_DEADLOCK FALSE

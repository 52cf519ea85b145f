CONSTANTS
    p1 = p1
    p2 = p2
    p3 = p3
    p4 = p4
    p5 = p5
    p6 = p6
    grave = grave
    shift = shift
    ctrl = ctrl
    kA = kA
    kB = kB
    kC = kC
    vol = vol
    far = far
    Nothing = Nothing
    Mods <- SomeMods
    Keys <- SomeKeys
    Media <- SomeMedia
    Unsupported <- FarUsage
    KeySlots = 2
    MediaSlots = 1
    SeparateModRelease = TRUE
    Bind <- SixKeys
    Morph <- ShiftMorph
    MorphOf <- OnTwo
    swA = swA
    swB = swB
    swC = swC
    swD = swD
    swE = swE
    swF = swF
    Matrix = {"matrix"}
    Direct = {"direct"}
    Charlieplex = {"charlieplex"}
    Demux = {"demux"}
    Input = "input"
    InputKeys = {swF}
    Wired <- SomeWired
    Composite = "composite"
    Sideband = "side"
    Children <- SomeChildren
    SideKeys = {swD}
    Layouts <- FourLayouts
    KscanOf <- SomeKscans
    Transform <- SomeTransforms
    TooLarge = {3}
    QueueSize = 2
    Thresholds <- SomeThresholds
    MaxToggles = 2
    MaxTrouble = 1
    StudioBuilds = {{"usb"}, {"usb", "ble"}}
    RxSize = 3
    TxSize = 3
    NotifySize = 2
    MaxWrite = 2
    MaxRequests = 2
    MaxLinks = 2
    MaxLocks = 2
    MaxEvents = 3
    Parts = {"hid", "kscan", "studio"}
SPECIFICATION AllSpec
INVARIANTS ModCounted ReportsFollow PositionsReported TransportsAgree
PROPERTIES KeyBeforeModifiers NoChatter SettlesAndServes
CHECK_DEADLOCK FALSE

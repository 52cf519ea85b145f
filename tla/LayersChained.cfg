\* Layers chained on one another; beside them temporary layers, power, and the air mouse.
CONSTANTS
    N = 5
    Conds <- Chained
    Builds <- TempBuilds
    Instances <- OneInstance
    TempLayers = {1, 2}
    LayerOrders <- SomeOrders
    Positions = {"p", "q"}
    MaxActions = 2
    MaxInputs = 4
    MaxKeys = 3
    Devices <- FourDevices
    PowerBuilds <- Powered
    Kscan = "kscan"
    Wakers = {"waker"}
    MaxIdle = 1
    MaxSleep = 2
    Bits = 3
    Period = 2
    Voltages = {3300, 4199}
    MaxPowerEvents = 3
    AirBuilds <- SomeAir
    Raw <- SomeRaw
    Tilts <- SomeTilts
    Discard = 1
    Collect = 2
    MaxSpaceKeys = 3
    MaxToggles = 3
    MaxUsb = 2
    MaxTurns = 1
    MaxChipFailures = 1
    MaxFailures = 1
    Parts = {"layers", "temp", "power", "air"}
SPECIFICATION AllSpec
INVARIANTS LayersSettled DevicesAgree AirMouseFollows
PROPERTIES SettlesInTheEnd StillIsStill
CHECK_DEADLOCK FALSE

CONSTANTS
    left_half = left_half
    right_half = right_half
    Nobody = Nobody
    Peripherals <- Halves
    Slots = {0, 1}
    Positions = {1, 2}
    StateQueue = 2
    EventQueue = 2
    AirSize = 1
    Layouts = {0, 1}
    Budgets <- Several
    GattHalves = {1, 2}
    NoHalf = NoHalf
    Stranger = Stranger
    Builds <- Keyboards
    GattEventQueue = 2
    CommandQueue = 2
    SensorQueue = 2
    GattAirSize = 1
    Wires <- Wires3
    CommandData = 2
    EventData = 1
    CentralTx = 10
    PeripheralTx = 8
    CentralRx = 8
    PeripheralRx = 10
    WireCommandQueue = 1
    Chunk = 2
    MaxCommands = 2
    MaxNoise = 1
    MaxPlugs = 1
    MaxTrouble = 1
    Parts = {"ble", "gatt", "wire"}
SPECIFICATION AllSpec
INVARIANTS KeepsLooking KeysAgree DiscoveredRightly BothSidesAgree
PROPERTIES OnlyOnce LinksDeliver
CHECK_DEADLOCK FALSE

\* Momentary, toggle, to and conditional layers under three keys, and Studio's edits; beside
\* them the settings of the keymap, and the lights.
CONSTANTS
    p1 = p1  p2 = p2  p3 = p3
    N = 4
    Conds <- TriLayer
    Positions = {p1, p2, p3}
    Stock <- TriLayerKeymap
    StockLayers = 3
    Edits = {"bind", "add", "remove", "move_used", "restore_removed"}
    Rebound <- SomeBindings
    MaxEdits = 2
    LayersLen = 3
    EnabledLayers = 2
    KeyPositions <- TwoPositions
    Bindings = {"other", "alike"}
    StockBinding = "stock"
    Compared <- SomeBytes
    Names = {n}
    StockName = unnamed
    Layouts <- TwoLayouts
    PosMap <- Swapping
    NoSetting = NoSetting
    MaxChanges = 3
    MaxFailures = 1
    MaxRestarts = 1
    None = None
    BrtMax = 2
    HueMax = 2
    SpeedMax = 2
    BrtStart = 1
    Builds <- SomeLights
    MaxSteps = 3
    Parts = {"keymap", "settings", "lights"}
SPECIFICATION AllSpec
VIEW AllButOldRecords
INVARIANTS LayersAccounted  LightsFollow
PROPERTIES  WakeRestores
CHECK_DEADLOCK FALSE

CONSTANTS
    p1 = p1  p2 = p2  p3 = p3
    N = 3
    Conds <- NoConds
    Positions = {p1, p2, p3}
    Stock <- MoKeymap
    StockLayers = 3
    Edits = {"move"}
    Rebound <- NoBindings
    MaxEdits = 1
    LayersLen = 3
    EnabledLayers = 2
    KeyPositions <- TwoPositions
    Bindings = {"other", "alike"}
    StockBinding = "stock"
    Compared <- SomeBytes
    Names = {n}
    StockName = unnamed
    Layouts <- TwoLayouts
    PosMap <- Swapping
    NoSetting = NoSetting
    MaxChanges = 3
    MaxFailures = 1
    MaxRestarts = 1
    None = None
    BrtMax = 2
    HueMax = 3
    SpeedMax = 2
    BrtStart = 1
    Builds <- SomeLights
    MaxSteps = 3
    Parts = {"keymap"}
SPECIFICATION AllSpec
INVARIANT ReleaseGoesToPressedLayer
CHECK_DEADLOCK FALSE

CONSTANTS
    p1 = p1
    p2 = p2
    p3 = p3
    Nobody = Nobody
    Positions <- ThreeKeys
    Keyboards <- Working
    MaxHeld = 2
    MaxCaptured = 8
    MaxNow = 4
    Builds <- SomeMice
    Nowhere = Nowhere
    MouseKeys = {"k1", "k2"}
    KeyButtons <- TwoKeys
    Arrows <- ThreeArrows
    ArrowSpeed <- Speeds
    Unit = 4
    Buttons = {1, 2}
    Rates <- SomeRates
    QueueSize = 3
    ReportQueueSize = 2
    MaxLayers = 2
    MaxPointerLinks = 2
    Parts = {"holdtap", "pointing"}
SPECIFICATION AllSpec
INVARIANTS PressesAccounted PointerFollows MotionConserved
PROPERTIES KeepsOrder TypedAsPressed Decides
CHECK_DEADLOCK FALSE

CONSTANTS
    shift = shift
    kA = kA
    kB = kB
    one = one
    two = two
    outer = outer
    inner = inner
    knob = knob
    Never = Never
    Keys <- ThreeKeys
    Bindings <- FourMacros
    DefaultWait <- Waits
    DefaultTap <- Taps
    Sensors <- Knob
    Item <- MacroItem
    AddsOf <- MacroAdds
    Times <- UpTo3
    QueueSize = 6
    MaxEvents = 3
    ctrl = ctrl
    A = A
    space = space
    mo = mo
    k1 = k1
    k2 = k2
    k3 = k3
    k4 = k4
    Nothing = Nothing
    ListenerKeys <- FourKeys
    Mods = {shift, ctrl}
    Letters = {A}
    Others = {space}
    Layers = {mo}
    CapsMods = {shift}
    Slots = 2
    ReleaseAfter = 2
    Builds <- SomeListeners
    MaxKeyEvents = 6
    MaxTime = 4
    MaxLag = 2
    posA = posA
    posB = posB
    posC = posC
    posD = posD
    None = None
    Positions = {posA, posB, posC, posD}
    Dances = 1
    TappingTerm = 4
    BehaviorCount = 2
    ComboBuilds <- Boards
    Far = 100
    MaxComboLag = 1
    Parts = {"macro", "listeners", "combo"}
SPECIFICATION AllSpec
INVARIANTS NoLostWakeup MacroAccounted StickyAccounted CombosAccounted
PROPERTIES WaitHonouredAfterKeys Drains SeenWithModifiers CombosInOrder
CHECK_DEADLOCK FALSE

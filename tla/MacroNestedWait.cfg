CONSTANTS
    shift = shift
    kA = kA
    kB = kB
    one = one
    two = two
    outer = outer
    inner = inner
    knob = knob
    Never = Never
    Keys <- ThreeKeys
    Bindings <- FourMacros
    DefaultWait <- Waits
    DefaultTap <- Taps
    Sensors <- Knob
    Item <- MacroItem
    AddsOf <- MacroAdds
    Times <- UpTo3
    QueueSize = 12
    MaxEvents = 1
    ctrl = ctrl
    A = A
    space = space
    mo = mo
    k1 = k1
    k2 = k2
    k3 = k3
    k4 = k4
    Nothing = Nothing
    ListenerKeys <- FourKeys
    Mods = {shift, ctrl}
    Letters = {A}
    Others = {space}
    Layers = {mo}
    CapsMods = {shift}
    Slots = 2
    ReleaseAfter = 2
    Builds <- SomeListeners
    MaxKeyEvents = 6
    MaxTime = 4
    MaxLag = 2
    posA = posA
    posB = posB
    posC = posC
    posD = posD
    None = None
    Positions = {posA, posB, posC, posD}
    Dances = 1
    TappingTerm = 4
    BehaviorCount = 2
    ComboBuilds <- Boards
    Far = 100
    MaxComboLag = 1
    Parts = {"macro"}
SPECIFICATION AllSpec
PROPERTY WaitHonoured
CHECK_DEADLOCK FALSE

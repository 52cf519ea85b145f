------------------------------ MODULE MCLayers ------------------------------
(***************************************************************************)
(* Instances of Layers, TempLayer, Power and AirMouse.  They share no      *)
(* state: in each behavior one of them moves, chosen initially, and the    *)
(* others rest in one of their initial states.                             *)
(***************************************************************************)
EXTENDS Layers, TempLayer, Power, AirMouse, TLC

\* The configurations are those of the tests in src/app/tests/conditional-layer: two with
\* the same then-layer, one chained on the other.
\* if 1 and 2 then 3; if 1 and 3 then 4; if 2 then 4
Chained == { [ifs |-> {1, 2}, then |-> 3],
             [ifs |-> {1, 3}, then |-> 4],
             [ifs |-> {2},    then |-> 4] }

\* two configurations each of which switches on the other's if-layer
Cyclic == { [ifs |-> {1}, then |-> 2], [ifs |-> {2}, then |-> 1] }

\* one temporary layer instance for two layers, with and without excluded positions
AllPositions == [excluded |-> {}, idle |-> FALSE]
TempBuilds == { AllPositions, [excluded |-> {"p"}, idle |-> TRUE] }
OneInstance == 1 .. 1
\* the stock order of three layers, and two others
InOrder == [index \in 0 .. 2 |-> index]
SomeOrders == { InOrder, [InOrder EXCEPT ![1] = 2, ![2] = 1], [InOrder EXCEPT ![0] = 1, ![1] = 0] }

\* keyboards with the sleep option and without, and a peripheral
PowerOf(sleep, peripheral, offOnPress, hold) ==
    [sleep |-> sleep, peripheral |-> peripheral, offOnPress |-> offOnPress, hold |-> hold]
Sleeping == PowerOf(TRUE, FALSE, FALSE, 1)
Powered == { Sleeping, PowerOf(FALSE, FALSE, FALSE, 0), PowerOf(TRUE, TRUE, TRUE, 1) }
FourDevices == <<"uart", "kscan", "waker", "radio">>

\* rates of the chip between and beside those it has, a full scale it does not have, the
\* air mouse off, and the LED; readings at rest, in the dead zone and at both ends
AirOf(odr, fs, trigger, moves, lit, bars) ==
    [odr |-> odr, fs |-> fs, g |-> 8, trigger |-> trigger, air |-> moves, led |-> lit, bars |-> bars]
Slow == AirOf(56, 256, FALSE, TRUE, FALSE, {})
SomeAir == { Slow, AirOf(5, 2048, FALSE, TRUE, FALSE, {}), AirOf(9000, 100, TRUE, TRUE, FALSE, {}),
             AirOf(340, 256, TRUE, FALSE, FALSE, {"left"}), AirOf(112, 256, FALSE, FALSE, TRUE, {}),
             AirOf(112, 256, FALSE, FALSE, FALSE, Roles) }
SomeRaw == {-32768, 0, 150, 32767}
SomeTilts == {-32768, 60, 376}

CONSTANT Parts
VARIABLE part    \* what moves: "layers", "temp", "power" or "air"
AllVars == <<part, vars, temp_vars, power_vars, air_vars>>

AllInit ==
    /\ part \in Parts /\ Init /\ TempInit /\ PowerInit /\ AirInit
    /\ part = "temp" \/ (build = AllPositions /\ order = InOrder)
    /\ part = "power" \/ (power_build = Sleeping /\ ~usb /\ voltage = 3300)
    /\ part = "air" \/ (air_build = Slow /\ imu = Configured(0, TRUE) /\ rate = 0)
AllNext ==
    /\ UNCHANGED part
    /\ \/ part = "layers" /\ Next /\ UNCHANGED <<temp_vars, power_vars, air_vars>>
       \/ part = "temp" /\ TempNext /\ UNCHANGED <<vars, power_vars, air_vars>>
       \/ part = "power" /\ PowerNext /\ UNCHANGED <<vars, temp_vars, air_vars>>
       \/ part = "air" /\ AirNext /\ UNCHANGED <<vars, temp_vars, power_vars>>

\* The fairness of what moves; that of TempLayer in a form that is checked faster: each of
\* its actions ends what enables it.
AllFairness ==
    /\ WF_vars(part = "layers" /\ Work)
    /\ []<>~submitted /\ \A l \in TempLayers : []<>(l \notin armed)
    /\ WF_power_vars(part = "power" /\ Second) /\ WF_power_vars(part = "power" /\ NoteWork)
    /\ WF_power_vars(part = "power" /\ BatteryWork)
    /\ WF_air_vars(part = "air" /\ Probe) /\ WF_air_vars(part = "air" /\ Poll) /\ WF_air_vars(part = "air" /\ RgbWork)
AllSpec == AllInit /\ [][AllNext]_AllVars /\ AllFairness

\* Power in the end, when its clock runs.
PowerInTheEnd == part = "power" => SleepsInTheEnd /\ LevelReported

\* What must happen in the end: the passes of the conditional layers are over, a temporary
\* layer that is on goes off, a keyboard left alone sleeps and the level of its battery is
\* reported, the air mouse is calibrated and its LED comes to rest.
SettlesInTheEnd == Terminates /\ TempLayersEnd /\ PowerInTheEnd /\ ReadyInTheEnd
=============================================================================

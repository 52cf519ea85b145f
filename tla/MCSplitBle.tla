----------------------------- MODULE MCSplitBle -----------------------------
(***************************************************************************)
(* Instances of SplitBle, a central with one or two peripherals of two     *)
(* keys; of SplitGatt, a central with one or two halves; and of WiredLink, *)
(* in full and half duplex.  They share no state here: in each behavior    *)
(* one of them moves, chosen initially, and the others rest where they     *)
(* start.                                                                  *)
(***************************************************************************)
EXTENDS SplitBle, SplitGatt, WiredLink

CONSTANTS left_half, right_half

Budget(boots, strokes, losses, failures, wires, selections) ==
    [w \in Outside |-> CASE w = "boot" -> boots [] w = "stroke" -> strokes
                         [] w = "loss" -> losses [] w = "failure" -> failures
                         [] w = "plug" -> wires [] w = "selection" -> selections]

Halves == {left_half, right_half}

\* One half and its keys; a restart, or a second half, and keys; both halves, a loss and a
\* failure; the wire; both halves and layouts; a bit of everything else.
Several == { Budget(1, 3, 1, 0, 0, 0), Budget(2, 2, 0, 0, 0, 0), Budget(2, 0, 1, 1, 0, 0),
             Budget(1, 1, 0, 0, 2, 0), Budget(2, 0, 0, 0, 0, 2), Budget(1, 0, 1, 1, 1, 1) }

Chrc(kind) == [kind |-> kind, reg |-> 0]
Input(n) == [kind |-> "input", reg |-> n]

NoneOf == [w \in {"connect", "loss", "host", "turn", "move", "drain", "press", "light",
                   "select", "failure"} |-> 0]
B(table, inputs, budget) ==
    [table |-> table, inputs |-> inputs, budget |-> budget @@ NoneOf]

Plain == <<Chrc("pos"), Chrc("run"), Chrc("layout")>>
Lit == <<Chrc("pos"), Chrc("run"), Chrc("leds"), Chrc("layout")>>
Encoder == <<Chrc("pos"), Chrc("run"), Chrc("sensor"), Chrc("layout")>>
Powered == <<Chrc("batt"), Chrc("pos"), Chrc("run"), Chrc("layout")>>

Powered2 == B(<<Powered, Powered>>, 0, [connect |-> 1, drain |-> 1, host |-> 2, loss |-> 1])
Keyboards == {
    \* lights and behaviors on two halves
    B(<<Lit, Lit>>, 0, [connect |-> 2, light |-> 1]),
    B(<<Lit, Plain>>, 0, [connect |-> 1, light |-> 1, select |-> 1, press |-> 1]),
    B(<<Lit, Plain>>, 0, [connect |-> 2, loss |-> 1, light |-> 1]),
    B(<<Plain, Plain>>, 0, [connect |-> 2, press |-> 2, failure |-> 1]),
    B(<<Plain, Plain>>, 0, [connect |-> 2, press |-> 2, loss |-> 1]),
    \* an encoder and batteries
    B(<<Encoder, Plain>>, 0, [connect |-> 2, turn |-> 3, loss |-> 1]),
    B(<<Powered, Plain>>, 0, [connect |-> 2, drain |-> 1, host |-> 1, loss |-> 1]),
    Powered2,
    \* pointing devices
    B(<<<<Chrc("pos"), Chrc("run"), Input(1), Input(2), Chrc("layout")>>, Plain>>, 2,
      [connect |-> 2, move |-> 2, loss |-> 1]),
    B(<<<<Chrc("pos"), Chrc("run"), Input(0), Chrc("layout")>>,
        <<Chrc("pos"), Chrc("run"), Input(1), Chrc("layout")>>>>, 2,
      [connect |-> 3, move |-> 2, loss |-> 1]),
    B(<<<<Chrc("pos"), Chrc("run"), Input(1), Input(2), Chrc("layout")>>, Plain>>, 1,
      [connect |-> 1, move |-> 2]) }
FullDuplex == [half |-> FALSE, ble |-> TRUE, mode |-> "interrupt", events |-> 3]
Wires3 == { FullDuplex, [FullDuplex EXCEPT !.ble = FALSE, !.mode = "async", !.events = 2],
           [half |-> TRUE, ble |-> FALSE, mode |-> "polling", events |-> 1] }

CONSTANT Parts
VARIABLE part    \* what moves: "ble", "gatt" or "wire"
AllVars == <<part, vars, gatt_vars, wire_vars>>

AllInit ==
    /\ part \in Parts /\ Init /\ GattInit /\ WireInit
    /\ part = "ble" \/ left = Budget(1, 1, 0, 0, 2, 0)
    /\ part = "gatt" \/ build = Powered2
    /\ part = "wire" \/ wire_build = FullDuplex
AllNext ==
    /\ UNCHANGED part
    /\ \/ part = "ble" /\ Next /\ UNCHANGED <<gatt_vars, wire_vars>>
       \/ part = "gatt" /\ GattNext /\ UNCHANGED <<vars, wire_vars>>
       \/ part = "wire" /\ WireNext /\ UNCHANGED <<vars, gatt_vars>>

\* The fairness of what moves.
AllFairness ==
    /\ \A h \in Halves :
         /\ WF_vars(part = "ble" /\ Advertise(h)) /\ WF_vars(part = "ble" /\ HangUp(h))
         /\ WF_vars(part = "ble" /\ Found(h))
    /\ \A i \in Slots : WF_vars(part = "ble" /\ Connected(i)) /\ WF_vars(part = "ble" /\ Disconnected(i))
    /\ WF_vars(part = "ble" /\ WiredStatus)
    /\ WF_gatt_vars(part = "gatt" /\ Internal)
    /\ WF_wire_vars(part = "wire" /\ RxDone)
    /\ WF_wire_vars(part = "wire" /\ CentralTransmit) /\ WF_wire_vars(part = "wire" /\ PeripheralTransmit)
    /\ WF_wire_vars(part = "wire" /\ CentralReceive) /\ WF_wire_vars(part = "wire" /\ PeripheralReceive)
    /\ WF_wire_vars(part = "wire" /\ PublishEvents) /\ WF_wire_vars(part = "wire" /\ PublishCommands)
    /\ WF_wire_vars(part = "wire" /\ CentralStatus) /\ WF_wire_vars(part = "wire" /\ PeripheralStatus)
AllSpec == AllInit /\ [][AllNext]_AllVars /\ AllFairness
-----------------------------------------------------------------------------
\* What the central knows of the keys is what its halves have, over Bluetooth as over the wire.
KeysAgree == MirrorsAgree /\ WiredTypeOK /\ KeyFollows

\* Over Bluetooth no event is raised twice; over the wire only what was sent arrives, in its
\* order and once.
OnlyOnce == [][NoRepeatedEvent /\ OnlySent]_AllVars

\* In the end all of it has arrived, every half is connected that can be, and nothing is on
\* its way, whichever of the links is in use.
LinksDeliver == <>[](AllLinked /\ AtRest /\ HasArrived)
=============================================================================

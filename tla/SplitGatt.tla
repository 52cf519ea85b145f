------------------------------ MODULE SplitGatt ------------------------------
(***************************************************************************)
(* What the halves of a split keyboard say to each other over Bluetooth    *)
(* besides keys: the central discovers the characteristics of a half and   *)
(* subscribes to its sensor, its pointing devices and its battery          *)
(* (split/bluetooth/central.c, service.c), and sends commands to it        *)
(* through a queue with a thread of its own: behaviors to run and the      *)
(* lock lights of the host (behavior.c, hid_indicators.c).                 *)
(*                                                                         *)
(* Connections come up complete: slots, scanning and security are modelled *)
(* in SplitBle.  A characteristic is found at a time, as with the smallest *)
(* MTU.  `up' and `down' are what is on its way over the air.              *)
(***************************************************************************)
EXTENDS Naturals, SequencesExt, FiniteSetsExt

CONSTANTS
    GattHalves,   \* the halves, by the index of their slot
    NoHalf,        \* no connection: NULL
    Stranger,      \* the source of an event of a connection without a slot: -EINVAL
    Builds,        \* keyboards: see BuildType
    GattEventQueue,    \* CONFIG_ZMK_SPLIT_BLE_CENTRAL_POSITION_QUEUE_SIZE
    CommandQueue,  \* CONFIG_ZMK_SPLIT_BLE_CENTRAL_SPLIT_RUN_QUEUE_SIZE
    SensorQueue,   \* CONFIG_ZMK_SPLIT_BLE_PERIPHERAL_POSITION_QUEUE_SIZE
    GattAirSize        \* bound: notifications on their way

VARIABLES
    build,       \* never changes
    \* the central
    gatt_state,       \* peripheral_slot.state
    handles,     \* the handles of a peripheral_slot that are set, by characteristic
    cursor,      \* discover_params: how far discovery has come
    slots,       \* peripheral_input_slots
    gatt_events,      \* peripheral_event_msgq
    commands,    \* zmk_split_central_split_run_msgq
    todo,        \* commands that the work queue is about to put there
    levels,      \* peripheral_battery_levels
    host,        \* the host on Bluetooth is connected
    proxy,       \* the levels the host has been told
    lights,      \* hid_indicators, by endpoint
    gatt_selected,    \* the selected endpoint
    led_work,    \* led_changed_work is submitted
    pressed,     \* keys that are down, of behaviors that run on halves
    \* the peripherals
    enabled,     \* the characteristics whose notifications are enabled
    charge,      \* the level of the battery service
    turns,       \* sensor_state_msgq
    hid_lights,  \* hid_indicators of a half
    shown,       \* what it has raised of them
    show_work,   \* split_svc_update_indicators_work is submitted
    held,        \* behaviors that are pressed on it
    up, down,    \* on the air
    \* histories and bounds
    turned, counted,   \* detents of a half's encoder, and those the central has seen
    seen,        \* pointing events: the device and the reg they were raised with
    owed,        \* halves that must get to know the lights
    gatt_lost,        \* what was dropped, and whose it was
    gatt_left         \* what is left of the bounds

central_vars == <<gatt_state, handles, cursor, slots>>
event_vars == <<gatt_events, levels, host, proxy>>
command_vars == <<commands, todo, lights, gatt_selected, led_work, pressed>>
half_vars == <<enabled, charge, turns, hid_lights, shown, show_work, held>>
history_vars == <<turned, counted, seen, owed, gatt_lost>>
gatt_vars == <<build, central_vars, event_vars, command_vars, half_vars, up, down, history_vars, gatt_left>>

Kinds == {"pos", "run", "sensor", "input", "leds", "layout", "batt"}
\* What the outside does, each with a bound.
GattOutside == {"connect", "loss", "host", "turn", "move", "drain", "press", "light", "select",
                "failure"}
GattSpend(what) == gatt_left[what] > 0 /\ gatt_left' = [gatt_left EXCEPT ![what] = @ - 1]

(***************************************************************************)
(* A build: `table' has the characteristics of each half in the order of   *)
(* their handles, `inputs' the number of pointing devices of halves that   *)
(* the central knows, `budget' the bounds.                                 *)
(***************************************************************************)
ASSUME GattAssumption ==
    /\ GattHalves \subseteq Nat /\ IsFiniteSet(GattHalves) /\ {NoHalf, Stranger} \cap GattHalves = {}
    /\ {GattEventQueue, CommandQueue, SensorQueue, GattAirSize} \subseteq Nat \ {0}
    /\ \A b \in Builds :
        /\ b.inputs \in Nat /\ b.budget \in [GattOutside -> Nat]
        /\ b.table \in [GattHalves -> Seq([kind : Kinds, reg : Nat]) \ {<<>>}]
Table(p) == build.table[p]
Has(kind) == \E p \in GattHalves : \E c \in Range(Table(p)) : c.kind = kind
InputSlots == 1 .. build.inputs

Rec(kind, p) == [source |-> p, kind |-> kind, level |-> 0, reg |-> 0, chr |-> 0]
Turned(p) == Rec("turn", p)
Level(p, level) == [Rec("batt", p) EXCEPT !.level = level]
Moved(p, chr, reg) == [Rec("input", p) EXCEPT !.chr = chr, !.reg = reg]

\* k_msgq_put with K_NO_WAIT into peripheral_event_msgq: what does not fit is dropped
PutLast(ev) == IF Len(gatt_events) < GattEventQueue THEN Append(gatt_events, ev) ELSE gatt_events
Refused(ev) == IF Len(gatt_events) < GattEventQueue THEN {} ELSE {<<ev.source, ev.kind>>}
-----------------------------------------------------------------------------
(***************************************************************************)
(* Pointing devices: the central's slots.                                  *)
(***************************************************************************)
\* input_slot_is_open
IsOpen(slot) == slot.conn = NoHalf

\* input_slot_is_pending
IsPending(slot) ==
    slot.conn # NoHalf /\ (slot.value = 0 \/ slot.ccc = 0 \/ slot.reg = 0)

FirstSlot(S) == {i \in S : \A j \in S : i <= j}

\* reserve_next_open_input_slot
OpenSlot == FirstSlot({i \in InputSlots : IsOpen(slots[i])})
Reserved(i, p, chr) ==
    [slots EXCEPT ![i].conn = p, ![i].value = chr, ![i].ccc = 0, ![i].reg = 0]

\* mutant of PendingSlot: any slot of the connection
PendingSlot_Any(p) == FirstSlot({i \in InputSlots : slots[i].conn = p})
\* find_pending_input_slot
PendingSlot(p) == FirstSlot({i \in InputSlots : slots[i].conn = p /\ IsPending(slots[i])})

\* release_peripheral_input_subs, after the stack has ended the subscriptions and called
\* back with no data
ReleasedInputs(p) ==
    [i \in InputSlots |->
        IF slots[i].conn = p
        THEN [slots[i] EXCEPT !.conn = NoHalf, !.value = 0, !.subscribed = FALSE]
        ELSE slots[i]]
-----------------------------------------------------------------------------
(***************************************************************************)
(* Connections and discovery.                                              *)
(***************************************************************************)
Cursor(mode, at) == [mode |-> mode, at |-> at]

\* split_central_connected, split_central_process_connection
GattConnected(p) ==
    /\ GattSpend("connect") /\ gatt_state[p] = "open"
    /\ gatt_state' = [gatt_state EXCEPT ![p] = "connected"]
    /\ cursor' = [cursor EXCEPT ![p] = IF "pos" \in handles[p] THEN @ ELSE Cursor("service", 1)]
    /\ UNCHANGED <<build, handles, slots, event_vars, command_vars, half_vars, up, down,
                   history_vars>>

\* The stack ends the subscriptions; the callbacks forget their handles.
Unsubscribed(found) == found \ {"pos", "sensor", "batt"}
\* mutant of Released: the handle of the key states stays
Released_KeepsState(found) == (found \ {"run", "layout", "leds"}) \cup {"pos"}
\* release_peripheral_slot
Released(found) == found \ {"pos", "run", "layout", "leds"}

\* mutant of LastLevel: nothing is said of the battery
LastLevel_Silent(source) == gatt_events
\* what split_central_disconnected says of the battery, if the build fetches levels
LastLevel(source) == IF Has("batt") THEN PutLast(Level(source, 0)) ELSE gatt_events

InFlight(p) == {<<p, x.kind>> : x \in Range(up[p]) \cup Range(down[p])}

\* split_central_disconnected of a half, with what was on the air
Lose(p) ==
    /\ GattSpend("loss") /\ gatt_state[p] = "connected"
    /\ gatt_state' = [gatt_state EXCEPT ![p] = "open"]
    /\ handles' = [handles EXCEPT ![p] = Released(Unsubscribed(@))]
    /\ cursor' = [cursor EXCEPT ![p] = Cursor("none", 1)]
    /\ slots' = ReleasedInputs(p)
    /\ gatt_events' = LastLevel(p)
    /\ up' = [up EXCEPT ![p] = <<>>] /\ down' = [down EXCEPT ![p] = <<>>]
    /\ enabled' = [enabled EXCEPT ![p] = {}]
    /\ owed' = owed \ {p}
    /\ UNCHANGED <<build, levels, host, proxy, command_vars, turned, counted, seen>>

\* the radio loses the connection
GattLoss(p) ==
    /\ Lose(p)
    /\ gatt_lost' = gatt_lost \cup InFlight(p) \cup (IF Has("batt") THEN Refused(Level(p, 0)) ELSE {})
    /\ UNCHANGED <<charge, turns, hid_lights, shown, show_work, held>>

\* the half restarts
Restart(p) ==
    /\ Lose(p)
    /\ gatt_lost' = gatt_lost \cup InFlight(p) \cup (IF Has("batt") THEN Refused(Level(p, 0)) ELSE {})
                              \cup {<<p, "run">>, <<p, "turn">>}
    /\ turns' = [turns EXCEPT ![p] = 0]
    /\ hid_lights' = [hid_lights EXCEPT ![p] = 0] /\ shown' = [shown EXCEPT ![p] = 0]
    /\ show_work' = [show_work EXCEPT ![p] = FALSE] /\ held' = [held EXCEPT ![p] = {}]
    /\ UNCHANGED charge

\* A host disconnects.  The callback does not ask whose connection it was.
HostDisconnected ==
    /\ GattSpend("host") /\ host
    /\ host' = FALSE
    /\ gatt_events' = LastLevel(Stranger)
    /\ UNCHANGED <<build, central_vars, levels, proxy, command_vars, half_vars, up, down,
                   history_vars>>

\* A host connects and reads the levels (read_blvl).
HostConnected ==
    /\ GattSpend("host") /\ ~host
    /\ host' = TRUE /\ proxy' = levels
    /\ UNCHANGED <<build, central_vars, gatt_events, levels, command_vars, half_vars, up, down,
                   history_vars>>

\* what of split_central_chrc_discovery_func decides that all has been found
Complete(found, ss) ==
    /\ {"pos", "run", "layout"} \subseteq found
    /\ \A kind \in {"sensor", "leds", "batt"} : Has(kind) => kind \in found
    /\ \A i \in InputSlots : ~IsOpen(ss[i]) /\ ~IsPending(ss[i])

\* Discovery goes on after the characteristic, or to one of its descriptors.
GoOn(p, mode) ==
    LET next == IF mode = "chrc" THEN cursor[p].at + 1 ELSE cursor[p].at
    IN  cursor' = [cursor EXCEPT ![p] =
                    IF Complete(handles'[p], slots') \/ next > Len(Table(p))
                    THEN Cursor("done", 1) ELSE Cursor(mode, next)]

Discovering(p, mode) == gatt_state[p] = "connected" /\ cursor[p].mode = mode
Here(p) == Table(p)[cursor[p].at]

\* split_central_service_discovery_func
FindService(p) ==
    /\ Discovering(p, "service")
    /\ cursor' = [cursor EXCEPT ![p] = Cursor("chrc", 1)]
    /\ UNCHANGED <<build, gatt_state, handles, slots, event_vars, command_vars, half_vars, up, down,
                   history_vars, gatt_left>>

\* The requests that a characteristic leads to.  The stack looks for the descriptor before
\* it writes to it, so that a read may overtake the write.
Requests(p) ==
    LET ccc == [kind |-> "ccc", chr |-> cursor[p].at, key |-> {}, value |-> 0]
        read == [ccc EXCEPT !.kind = "read"]
    IN  CASE Here(p).kind \in {"pos", "sensor"} -> {<<ccc>>}
          [] Here(p).kind = "batt" -> {<<ccc, read>>, <<read, ccc>>}
          [] OTHER -> {<<>>}

\* split_central_chrc_discovery_func, at a characteristic that is not a pointing device
FindCharacteristic(p) ==
    /\ Discovering(p, "chrc") /\ Here(p).kind # "input"
    /\ handles' = [handles EXCEPT ![p] = @ \cup {Here(p).kind}]
    /\ UNCHANGED slots
    /\ \E requests \in Requests(p) : down' = [down EXCEPT ![p] = @ \o requests]
    /\ GoOn(p, "chrc")
    /\ UNCHANGED <<build, gatt_state, event_vars, command_vars, half_vars, up, history_vars, gatt_left>>

\* and at a pointing device, which takes the next open slot
FindInput(p) ==
    /\ Discovering(p, "chrc") /\ Here(p).kind = "input"
    /\ IF OpenSlot = {} THEN UNCHANGED slots
       ELSE \E i \in OpenSlot : slots' = Reserved(i, p, cursor[p].at)
    /\ UNCHANGED handles
    /\ GoOn(p, IF OpenSlot = {} THEN "chrc" ELSE "ccc")
    /\ UNCHANGED <<build, gatt_state, event_vars, command_vars, half_vars, up, down, history_vars,
                   gatt_left>>

\* at the descriptor that enables its notifications
FindCcc(p) ==
    /\ Discovering(p, "ccc")
    /\ IF PendingSlot(p) = {} THEN UNCHANGED slots
       ELSE \E i \in PendingSlot(p) : slots' = [slots EXCEPT ![i].ccc = cursor[p].at]
    /\ UNCHANGED handles
    /\ GoOn(p, IF PendingSlot(p) = {} THEN "chrc" ELSE "cpf")
    /\ UNCHANGED <<build, gatt_state, event_vars, command_vars, half_vars, up, down, history_vars,
                   gatt_left>>

\* mutant of AfterInput: the characteristic behind it is passed over
AfterInput_Skips(p) ==
    cursor' = [cursor EXCEPT ![p] =
                IF Complete(handles'[p], slots') \/ @.at + 2 > Len(Table(p))
                THEN Cursor("done", 1) ELSE Cursor("chrc", @.at + 2)]
AfterInput(p) == GoOn(p, "chrc")

\* and at the one that names its reg: the central subscribes (split_central_subscribe), which
\* the stack refuses for a slot that it has subscribed already
FindCpf(p) ==
    /\ Discovering(p, "cpf")
    /\ IF PendingSlot(p) = {} THEN UNCHANGED <<slots, down>>
       ELSE \E i \in PendingSlot(p) :
                /\ slots' = [slots EXCEPT ![i].reg = Here(p).reg, ![i].subscribed = TRUE]
                /\ down' = IF slots[i].subscribed THEN down
                           ELSE [down EXCEPT ![p] =
                                    Append(@, [kind |-> "ccc", chr |-> slots[i].ccc,
                                               key |-> {}, value |-> 0])]
    /\ UNCHANGED handles
    /\ AfterInput(p)
    /\ UNCHANGED <<build, gatt_state, event_vars, command_vars, half_vars, up, history_vars, gatt_left>>
-----------------------------------------------------------------------------
(***************************************************************************)
(* A half: its encoder, its pointing devices, its battery, and what it is  *)
(* told.                                                                   *)
(***************************************************************************)
IndexOf(p, kind) == {k \in DOMAIN Table(p) : Table(p)[k].kind = kind}
Enabled(p, kind) == gatt_state[p] = "connected" /\ IndexOf(p, kind) \cap enabled[p] # {}
Send(p, x) == up' = [up EXCEPT ![p] = Append(@, x)]

\* mutant of Turn: a full queue refuses the event
Turn_Refused(p) ==
    /\ GattSpend("turn") /\ IndexOf(p, "sensor") # {}
    /\ turned' = [turned EXCEPT ![p] = @ + 1]
    /\ turns' = [turns EXCEPT ![p] = IF @ < SensorQueue THEN @ + 1 ELSE @]
    /\ UNCHANGED <<build, central_vars, event_vars, command_vars, enabled, charge, hid_lights,
                   shown, show_work, held, up, down, counted, seen, owed, gatt_lost>>
\* zmk_split_bt_sensor_triggered, send_sensor_state: when the queue is still full after 100
\* ms its first event goes
Turn(p) ==
    /\ GattSpend("turn") /\ IndexOf(p, "sensor") # {}
    /\ turned' = [turned EXCEPT ![p] = @ + 1]
    /\ turns' = [turns EXCEPT ![p] = IF @ < SensorQueue THEN @ + 1 ELSE @]
    /\ gatt_lost' = IF turns[p] < SensorQueue THEN gatt_lost ELSE gatt_lost \cup {<<p, "turn">>}
    /\ UNCHANGED <<build, central_vars, event_vars, command_vars, enabled, charge, hid_lights,
                   shown, show_work, held, up, down, counted, seen, owed>>

\* send_sensor_state_callback: one round of the loop
SendTurn(p) ==
    /\ turns[p] > 0
    /\ turns' = [turns EXCEPT ![p] = @ - 1]
    /\ IF Enabled(p, "sensor")
       THEN Len(up[p]) < GattAirSize /\ Send(p, Turned(p)) /\ UNCHANGED gatt_lost
       ELSE gatt_lost' = gatt_lost \cup {<<p, "turn">>} /\ UNCHANGED up
    /\ UNCHANGED <<build, central_vars, event_vars, command_vars, enabled, charge, hid_lights,
                   shown, show_work, held, down, turned, counted, seen, owed, gatt_left>>

\* zmk_split_bt_report_input: the first characteristic with the device's reg
Move(p, k) ==
    LET same_reg == {j \in IndexOf(p, "input") : Table(p)[j].reg = Table(p)[k].reg}
        j == Min(same_reg)
    IN  /\ GattSpend("move") /\ gatt_state[p] = "connected"
        /\ j \in enabled[p] /\ Len(up[p]) < GattAirSize
        /\ Send(p, Moved(p, j, 0))
        /\ UNCHANGED <<build, central_vars, event_vars, command_vars, half_vars, down,
                       history_vars>>

\* zmk_battery_update: the battery service notifies a new level.  It is missed when the
\* level has been read and notifications are not enabled yet.
Drain(p) ==
    /\ GattSpend("drain") /\ IndexOf(p, "batt") # {} /\ charge[p] > 1
    /\ charge' = [charge EXCEPT ![p] = @ - 1]
    /\ IF Enabled(p, "batt")
       THEN Len(up[p]) < GattAirSize /\ Send(p, Level(p, charge[p] - 1)) /\ UNCHANGED gatt_lost
       ELSE /\ gatt_lost' = IF "batt" \in handles[p] /\ \A x \in Range(down[p]) : x.kind # "read"
                            THEN gatt_lost \cup {<<p, "batt">>} ELSE gatt_lost
            /\ UNCHANGED up
    /\ UNCHANGED <<build, central_vars, event_vars, command_vars, enabled, turns, hid_lights,
                   shown, show_work, held, down, turned, counted, seen, owed>>

Arrives(p, kind) ==
    down[p] # <<>> /\ Head(down[p]).kind = kind /\ down' = [down EXCEPT ![p] = Tail(@)]

\* The stack of the half answers a read of the level, or enables notifications.
Asked(p) ==
    /\ \/ Arrives(p, "read") /\ Send(p, Level(p, charge[p])) /\ UNCHANGED enabled
       \/ /\ Arrives(p, "ccc") /\ enabled' = [enabled EXCEPT ![p] = @ \cup {Head(down[p]).chr}]
          /\ UNCHANGED up
    /\ UNCHANGED <<build, central_vars, event_vars, command_vars, charge, turns, hid_lights,
                   shown, show_work, held, history_vars, gatt_left>>

\* split_svc_run_behavior, zmk_split_transport_peripheral_command_handler
RunBehavior(p) ==
    /\ Arrives(p, "run")
    /\ held' = [held EXCEPT ![p] = IF Head(down[p]).value = 1 THEN @ \cup {Head(down[p]).key}
                                   ELSE @ \ {Head(down[p]).key}]
    /\ UNCHANGED <<build, central_vars, event_vars, command_vars, enabled, charge, turns,
                   hid_lights, shown, show_work, up, history_vars, gatt_left>>

\* split_svc_update_indicators
UpdateIndicators(p) ==
    /\ Arrives(p, "leds")
    /\ hid_lights' = [hid_lights EXCEPT ![p] = Head(down[p]).value]
    /\ show_work' = [show_work EXCEPT ![p] = TRUE]
    /\ UNCHANGED <<build, central_vars, event_vars, command_vars, enabled, charge, turns, shown,
                   held, up, history_vars, gatt_left>>

\* split_svc_update_indicators_callback
ShowLights(p) ==
    /\ show_work[p]
    /\ show_work' = [show_work EXCEPT ![p] = FALSE]
    /\ shown' = [shown EXCEPT ![p] = hid_lights[p]]
    /\ UNCHANGED <<build, central_vars, event_vars, command_vars, enabled, charge, turns,
                   hid_lights, held, up, down, history_vars, gatt_left>>
-----------------------------------------------------------------------------
(***************************************************************************)
(* The central hears of its halves.                                        *)
(***************************************************************************)
\* split_central_sensor_notify_func
SensorNotified(p) ==
    /\ Head(up[p]).kind = "turn"
    /\ gatt_events' = PutLast(Turned(p)) /\ gatt_lost' = gatt_lost \cup Refused(Turned(p))

\* split_central_battery_level_notify_func, split_central_battery_level_read_func
LevelNotified(p) ==
    /\ Head(up[p]).kind = "batt"
    /\ gatt_events' = PutLast(Head(up[p])) /\ gatt_lost' = gatt_lost \cup Refused(Head(up[p]))

\* peripheral_input_event_notify_cb, of the slot that is subscribed to the characteristic
InputNotified(p) ==
    LET x == Head(up[p])
        subscribed == {i \in InputSlots : slots[i].conn = p /\ slots[i].subscribed
                                          /\ slots[i].value = x.chr}
    IN  /\ x.kind = "input"
        /\ IF subscribed = {} THEN UNCHANGED <<gatt_events, gatt_lost>>
           ELSE \E i \in subscribed :
                    /\ gatt_events' = PutLast(Moved(p, x.chr, slots[i].reg))
                    /\ gatt_lost' = gatt_lost \cup Refused(x)

GattNotified(p) ==
    /\ up[p] # <<>> /\ up' = [up EXCEPT ![p] = Tail(@)]
    /\ SensorNotified(p) \/ LevelNotified(p) \/ InputNotified(p)
    /\ UNCHANGED <<build, central_vars, levels, host, proxy, command_vars, half_vars, down,
                   turned, counted, seen, owed, gatt_left>>

\* The work queue of the central is not waiting for room for a command.
Free == todo = <<>>
NextEvent(kind) == Free /\ gatt_events # <<>> /\ Head(gatt_events).kind = kind /\ gatt_events' = Tail(gatt_events)

\* zmk_split_transport_central_peripheral_event_handler, of a sensor
RaiseSensor ==
    /\ NextEvent("turn")
    /\ counted' = [counted EXCEPT ![Head(gatt_events).source] = @ + 1]
    /\ UNCHANGED <<build, central_vars, levels, host, proxy, command_vars, half_vars, up, down,
                   turned, seen, owed, gatt_lost, gatt_left>>

\* of a pointing device
RaiseInput ==
    /\ NextEvent("input")
    /\ seen' = seen \cup {[source |-> Head(gatt_events).source, chr |-> Head(gatt_events).chr,
                           reg |-> Head(gatt_events).reg]}
    /\ UNCHANGED <<build, central_vars, levels, host, proxy, command_vars, half_vars, up, down,
                   turned, counted, owed, gatt_lost, gatt_left>>

\* of a battery, with peripheral_batt_lvl_listener.  That of a stranger is written outside of
\* the levels; the listener ignores it.
RaiseLevel ==
    /\ NextEvent("batt")
    /\ LET ev == Head(gatt_events)
           told == [q \in GattHalves |-> IF q = ev.source THEN ev.level ELSE levels[q]]
       IN  /\ levels' = told
           /\ proxy' = IF host /\ ev.source # Stranger
                       THEN [proxy EXCEPT ![ev.source] = ev.level] ELSE proxy
    /\ UNCHANGED <<build, central_vars, host, command_vars, half_vars, up, down, history_vars,
                   gatt_left>>
-----------------------------------------------------------------------------
(***************************************************************************)
(* Commands.  The work queue waits up to 100 ms for room in their queue,   *)
(* which a thread of its own empties.                                      *)
(***************************************************************************)
\* the halves in their order
Ascending(halves) ==
    [n \in 1 .. Cardinality(halves) |->
        CHOOSE p \in halves : Cardinality({q \in halves : q < p}) = n - 1]
Command(p, kind, key, value) ==
    [dest |-> p, kind |-> kind, key |-> key, value |-> value, chr |-> 0]

\* split_central_bt_get_available_source_ids
Available == {p \in GattHalves : gatt_state[p] = "connected"}

\* mutant of Tell: the halves but the first
Tell_NotTheFirst(value) ==
    LET halves == Ascending(Available)
    IN  /\ todo' = [n \in 1 .. Len(halves) - 1 |-> Command(halves[n + 1], "leds", {}, value)]
        /\ owed' = {p \in Available : "leds" \in handles[p]}
\* zmk_split_central_update_hid_indicator.  A half whose handle is not known is not told.
Tell(value) ==
    LET halves == Ascending(Available)
    IN  /\ todo' = [n \in DOMAIN halves |-> Command(halves[n], "leds", {}, value)]
        /\ owed' = {p \in Available : "leds" \in handles[p]}

\* zmk_hid_indicators_process_report, zmk_hid_indicators_set_profile
HostLights(endpoint, value) ==
    /\ GattSpend("light") /\ Has("leds") /\ lights[endpoint] # value
    /\ lights' = [lights EXCEPT ![endpoint] = value]
    /\ led_work' = TRUE
    /\ UNCHANGED <<build, central_vars, event_vars, commands, todo, gatt_selected, pressed,
                   half_vars, up, down, history_vars>>

\* raise_led_changed_event
LedsChanged ==
    /\ Free /\ led_work /\ led_work' = FALSE
    /\ Tell(lights[gatt_selected])
    /\ UNCHANGED <<build, central_vars, event_vars, commands, lights, gatt_selected, pressed,
                   half_vars, up, down, turned, counted, seen, gatt_lost, gatt_left>>

\* profile_listener
SelectEndpoint(endpoint) ==
    /\ Free /\ GattSpend("select") /\ Has("leds") /\ endpoint # gatt_selected
    /\ gatt_selected' = endpoint
    /\ Tell(lights[endpoint])
    /\ UNCHANGED <<build, central_vars, event_vars, commands, lights, led_work, pressed,
                   half_vars, up, down, turned, counted, seen, gatt_lost>>

\* mutant of Invoke: the release goes to the first half only
Invoke_ReleasesFirst(key, on) ==
    LET halves == Ascending(IF on THEN key ELSE {Min(key)})
    IN  todo' = [n \in DOMAIN halves |->
                    Command(halves[n], "run", key, IF on THEN 1 ELSE 0)]
\* zmk_behavior_invoke_binding, zmk_split_central_invoke_behavior, of a behavior that runs
\* where the key is, or everywhere: a key is the set of halves that run its behavior
Invoke(key, on) ==
    LET halves == Ascending(key)
    IN  todo' = [n \in DOMAIN halves |->
                    Command(halves[n], "run", key, IF on THEN 1 ELSE 0)]

Press(key) ==
    /\ Free /\ GattSpend("press")
    /\ pressed' = SymDiff(pressed, {key})
    /\ Invoke(key, key \notin pressed)
    /\ UNCHANGED <<build, central_vars, event_vars, commands, lights, gatt_selected, led_work,
                   half_vars, up, down, history_vars>>

\* A half need not be told any more when its last command about the lights is dropped.
StillOwed(dropped, later) ==
    IF dropped.kind = "leds"
       /\ \A c \in Range(later) : ~(c.kind = "leds" /\ c.dest = dropped.dest)
    THEN owed \ {dropped.dest} ELSE owed

\* split_bt_invoke_behavior_payload, when there is room
PutCommand ==
    /\ todo # <<>> /\ Len(commands) < CommandQueue
    /\ commands' = Append(commands, Head(todo)) /\ todo' = Tail(todo)
    /\ UNCHANGED <<build, central_vars, event_vars, lights, gatt_selected, led_work, pressed,
                   half_vars, up, down, history_vars, gatt_left>>

\* and when there still is none: the first command goes
Overtaken ==
    /\ todo # <<>> /\ Len(commands) = CommandQueue
    /\ commands' = Append(Tail(commands), Head(todo)) /\ todo' = Tail(todo)
    /\ gatt_lost' = gatt_lost \cup {<<Head(commands).dest, Head(commands).kind>>}
    /\ owed' = StillOwed(Head(commands), Tail(commands) \o todo)
    /\ UNCHANGED <<build, central_vars, event_vars, lights, gatt_selected, led_work, pressed,
                   half_vars, up, down, turned, counted, seen, gatt_left>>

CanRun(c) == gatt_state[c.dest] = "connected" /\ c.kind \in handles[c.dest]

\* split_central_split_run_callback: one round of the loop
RunCommand ==
    /\ commands # <<>> /\ CanRun(Head(commands)) /\ commands' = Tail(commands)
    /\ LET c == Head(commands)
       IN  down' = [down EXCEPT ![c.dest] =
                        Append(@, [kind |-> c.kind, chr |-> 0, key |-> c.key, value |-> c.value])]
    /\ UNCHANGED <<build, central_vars, event_vars, todo, lights, gatt_selected, led_work, pressed,
                   half_vars, up, history_vars, gatt_left>>

\* The half is not connected, or its handle not known, or the write fails.
DropCommand ==
    /\ commands # <<>> /\ commands' = Tail(commands)
    /\ (~CanRun(Head(commands)) /\ UNCHANGED gatt_left) \/ GattSpend("failure")
    /\ gatt_lost' = gatt_lost \cup {<<Head(commands).dest, Head(commands).kind>>}
    /\ owed' = StillOwed(Head(commands), Tail(commands) \o todo)
    /\ UNCHANGED <<build, central_vars, event_vars, todo, lights, gatt_selected, led_work, pressed,
                   half_vars, up, down, turned, counted, seen>>
-----------------------------------------------------------------------------
EmptySlot == [conn |-> NoHalf, value |-> 0, ccc |-> 0, reg |-> 0, subscribed |-> FALSE]
Endpoints == {1, 2}

GattInit ==
    /\ build \in Builds /\ gatt_left = build.budget
    /\ gatt_state = [p \in GattHalves |-> "open"] /\ handles = [p \in GattHalves |-> {}]
    /\ cursor = [p \in GattHalves |-> Cursor("none", 1)]
    /\ slots = [i \in InputSlots |-> EmptySlot]
    /\ gatt_events = <<>> /\ levels = [p \in GattHalves |-> 0]
    /\ host = FALSE /\ proxy = [p \in GattHalves |-> 0]
    /\ commands = <<>> /\ todo = <<>> /\ lights = [e \in Endpoints |-> 0] /\ gatt_selected = 1
    /\ led_work = FALSE /\ pressed = {}
    /\ enabled = [p \in GattHalves |-> {}] /\ charge = [p \in GattHalves |-> 3]
    /\ turns = [p \in GattHalves |-> 0] /\ hid_lights = [p \in GattHalves |-> 0]
    /\ shown = [p \in GattHalves |-> 0] /\ show_work = [p \in GattHalves |-> FALSE]
    /\ held = [p \in GattHalves |-> {}]
    /\ up = [p \in GattHalves |-> <<>>] /\ down = [p \in GattHalves |-> <<>>]
    /\ turned = [p \in GattHalves |-> 0] /\ counted = [p \in GattHalves |-> 0]
    /\ seen = {} /\ owed = {} /\ gatt_lost = {}

\* What goes on by itself.
Internal ==
    \/ \E p \in GattHalves :
        \/ FindService(p) \/ FindCharacteristic(p) \/ FindInput(p) \/ FindCcc(p) \/ FindCpf(p)
        \/ SendTurn(p) \/ Asked(p) \/ RunBehavior(p) \/ UpdateIndicators(p) \/ ShowLights(p)
        \/ GattNotified(p)
    \/ RaiseSensor \/ RaiseInput \/ RaiseLevel
    \/ LedsChanged \/ PutCommand \/ Overtaken \/ RunCommand \/ DropCommand

GattNext ==
    \/ Internal
    \/ \E p \in GattHalves :
        \/ GattConnected(p) \/ GattLoss(p) \/ Restart(p) \/ Turn(p) \/ Drain(p)
        \/ \E k \in IndexOf(p, "input") : Move(p, k)
        \/ Press({p})
    \/ HostConnected \/ HostDisconnected \/ Press(GattHalves)
    \/ \E e \in Endpoints : SelectEndpoint(e) \/ \E value \in {0, 1} : HostLights(e, value)

GattSpec == GattInit /\ [][GattNext]_gatt_vars
\* Every thread and work queue goes on.
GattFairSpec == GattSpec /\ WF_gatt_vars(Internal)
-----------------------------------------------------------------------------
(***************************************************************************)
(* Properties.                                                             *)
(***************************************************************************)
\* The queues keep their limits, and slots, handles and cursors have their shape.
GattTypeOK ==
    /\ Len(gatt_events) <= GattEventQueue /\ Len(commands) <= CommandQueue
    /\ \A p \in GattHalves :
        /\ gatt_state[p] \in {"open", "connected"} /\ handles[p] \subseteq Kinds
        /\ cursor[p].at \in DOMAIN Table(p) /\ turns[p] \in 0 .. SensorQueue
        /\ cursor[p].mode \in {"none", "service", "chrc", "ccc", "cpf", "done"}
        /\ levels[p] \in 0 .. 3 /\ proxy[p] \in 0 .. 3 /\ counted[p] <= turned[p]
    /\ \A i \in InputSlots : slots[i].conn \in GattHalves \cup {NoHalf}
    /\ owed \subseteq GattHalves

\* Nothing is on its way any more, and discovery has come to its end: so it is in the end,
\* when nothing happens any more outside.
AtRest ==
    /\ gatt_events = <<>> /\ commands = <<>> /\ todo = <<>> /\ ~led_work
    /\ \A p \in GattHalves :
        /\ up[p] = <<>> /\ down[p] = <<>> /\ turns[p] = 0 /\ ~show_work[p]
        /\ gatt_state[p] = "connected" => cursor[p].mode = "done"

\* What a pointing device of a half reports is raised under its own reg, whatever other
\* devices the half has, and however its connection came and went.
UnderItsOwnReg == \A s \in seen : s.reg = Table(s.source)[s.chr].reg

\* When discovery has ended, everything the half has was found, and each pointing device has
\* a slot that is subscribed, if there are slots for all of them.
FullyFound ==
    \A p \in GattHalves : gatt_state[p] = "connected" /\ cursor[p].mode = "done" =>
        /\ \A c \in Range(Table(p)) : c.kind # "input" => c.kind \in handles[p]
        /\ Cardinality(UNION {{<<q, k>> : k \in IndexOf(q, "input")} : q \in GattHalves})
                <= build.inputs =>
            \A k \in IndexOf(p, "input") :
                \E i \in InputSlots : slots[i].conn = p /\ slots[i].value = k /\ slots[i].subscribed

\* The host knows the charge of each half that is connected, and that the others are not,
\* unless a message about it was lost.
HostKnowsTheCharge ==
    AtRest /\ host =>
        \A p \in GattHalves : IndexOf(p, "batt") = {} \/ <<p, "batt">> \in gatt_lost
            \/ proxy[p] = IF gatt_state[p] = "connected" THEN charge[p] ELSE 0

\* The halves that were known to be ready when the lights changed show those of the selected
\* endpoint, although commands overtake and drop each other.
LightsAgree == AtRest => \A p \in owed : shown[p] = lights[gatt_selected]

\* A behavior is pressed on exactly the halves that its key wants, unless a command for it was
\* lost on the way.
HeldTogether ==
    AtRest => \A p \in GattHalves :
        gatt_state[p] = "connected" /\ <<p, "run">> \notin gatt_lost =>
            held[p] = {key \in pressed : p \in key}

\* Every detent of a half's encoder is counted, unless one was dropped.
TurnsCounted ==
    AtRest => \A p \in GattHalves : <<p, "turn">> \in gatt_lost \/ counted[p] = turned[p]

\* What was discovered of a half is all there is of it, each under its own number; and
\* the halves agree on what is shared by way of these.
DiscoveredRightly == GattTypeOK /\ UnderItsOwnReg /\ FullyFound
BothSidesAgree == HostKnowsTheCharge /\ LightsAgree /\ HeldTogether /\ TurnsCounted
=============================================================================

------------------------------ MODULE SplitBle ------------------------------
(***************************************************************************)
(* The Bluetooth link of a split keyboard: the peripherals                 *)
(* (split/bluetooth/service.c, peripheral.c), the central that mirrors     *)
(* their keys (split/bluetooth/central.c), and its choice of transport     *)
(* (split/central.c).                                                      *)
(*                                                                         *)
(* On a peripheral the work queue and the thread that notifies share       *)
(* `queue'.  On the central the callbacks of the Bluetooth thread share    *)
(* the slots and `events' with the work queue.                             *)
(***************************************************************************)
EXTENDS Naturals, SequencesExt

CONSTANTS
    Peripherals,   \* the addresses
    Nobody,        \* BT_ADDR_LE_ANY, an address that is not set
    Slots,         \* ZMK_SPLIT_BLE_PERIPHERAL_COUNT: the indices 0 .. count - 1
    Positions,     \* the key positions of each peripheral
    StateQueue,    \* CONFIG_ZMK_SPLIT_BLE_PERIPHERAL_POSITION_QUEUE_SIZE
    EventQueue,    \* CONFIG_ZMK_SPLIT_BLE_CENTRAL_POSITION_QUEUE_SIZE
    AirSize,       \* bound: notifications on their way
    Layouts,       \* indices of physical layouts
    Budgets        \* bounds: how often what the outside does may happen

Outside == {"boot", "stroke", "loss", "failure", "plug", "selection"}

ASSUME SplitAssumption ==
    /\ Nobody \notin Peripherals /\ Slots \subseteq Nat
    /\ Positions \subseteq Nat /\ IsFiniteSet(Positions)
    /\ StateQueue \in Nat \ {0} /\ EventQueue \in Nat \ {0} /\ AirSize \in Nat \ {0}
    /\ 0 \in Layouts
    /\ \A budget \in Budgets : DOMAIN budget = Outside /\ \A w \in Outside : budget[w] \in Nat

VARIABLES
    \* of each peripheral
    keys,         \* position_state
    queue,        \* position_state_msgq
    attached,     \* is_connected
    bonded,       \* is_bonded
    adv,          \* what it does: see AdvStates
    layout,       \* the physical layout it has selected
    air,          \* notifications on their way
    stale,        \* its last state was not sent on this connection (history)
    \* of each slot of the central
    addrs,        \* peripheral_addrs
    state,        \* peripheral_slot.state
    found,        \* handles discovered, in order: 1 the position state, to which the
                  \* central then is subscribed, 2 run behavior, 3 the layout
    secured,      \* the security level of its connection is 2
    mirror,       \* peripheral_slot.position_state
    closing,      \* a disconnection has been asked for
    raised,       \* positions it has raised as pressed (history)
    \* of the central
    scanning,     \* is_scanning
    events,       \* peripheral_event_msgq
    selected,     \* the physical layout of the keyboard
    layout_work,  \* update_peripherals_selected_layouts_work is submitted
    pass,         \* that work in progress: the layout and the slots to be told
    active,       \* active_transport
    wired,        \* a wire is plugged in
    wired_work,   \* notify_status_work of the wired transport is submitted
    ble_work,     \* notify_status_work is submitted
    lost,         \* an event has been dropped (history)
    left          \* what is left of the bounds

peripheral_vars == <<keys, queue, attached, bonded, adv, layout, air, stale>>
slot_vars == <<addrs, state, found, secured, mirror, closing, raised>>
link_vars == <<attached, bonded, adv, air, stale, addrs, state, found, secured, mirror, closing>>
work_vars == <<selected, layout_work, pass, active, wired, wired_work, ble_work>>
vars == <<peripheral_vars, slot_vars, scanning, events, work_vars, lost, left>>

AdvStates == {"unpowered", "off",
              "submitted", "on",           \* high duty cycle, or to any central
              "submitted_low", "on_low"}   \* low_duty_advertising
Advertising(p) == adv[p] \in {"on", "on_low"}

Spend(what) == left[what] > 0 /\ left' = [left EXCEPT ![what] = @ - 1]

Event == [source : Slots, position : Positions, pressed : BOOLEAN]
InOrder(S) ==
    [n \in 1 .. Cardinality(S) |-> CHOOSE k \in S : Cardinality({l \in S : l < k}) = n - 1]
-----------------------------------------------------------------------------
(***************************************************************************)
(* The peripheral.                                                         *)
(***************************************************************************)
\* mutant of Queued: a full queue refuses the new state
Queued_Refused(q, s) == IF Len(q) < StateQueue THEN Append(q, s) ELSE q
\* send_position_state: when the queue is still full after 100 ms its first state goes
Queued(q, s) == Append(IF Len(q) < StateQueue THEN q ELSE Tail(q), s)

\* zmk_split_bt_position_pressed, zmk_split_bt_position_released
Stroke(p, k) ==
    /\ Spend("stroke") /\ adv[p] # "unpowered"
    /\ keys' = [keys EXCEPT ![p] = SymDiff(@, {k})]
    /\ queue' = [queue EXCEPT ![p] = Queued(@, keys'[p])]
    /\ UNCHANGED <<link_vars, raised, layout, scanning, events, work_vars, lost>>

\* the central's slot of p, when it is connected
SlotOf(p) == {i \in Slots : addrs[i] = p /\ state[i] = "connected"}

\* send_position_state_callback: one round of the loop.  What cannot be notified is lost.
SendState(p) ==
    /\ queue[p] # <<>>
    /\ queue' = [queue EXCEPT ![p] = Tail(@)]
    /\ IF attached[p] /\ \E i \in SlotOf(p) : found[i] >= 1 /\ secured[i]
       THEN /\ Len(air[p]) < AirSize
            /\ air' = [air EXCEPT ![p] = Append(@, Head(queue[p]))]
            /\ stale' = [stale EXCEPT ![p] = FALSE]
       ELSE stale' = [stale EXCEPT ![p] = TRUE] /\ UNCHANGED air
    /\ UNCHANGED <<keys, attached, bonded, adv, layout, slot_vars, scanning, events,
                   work_vars, lost, left>>

\* advertising_cb
Advertise(p) ==
    /\ adv[p] \in {"submitted", "submitted_low"}
    /\ adv' = [adv EXCEPT ![p] = IF @ = "submitted" THEN "on" ELSE "on_low"]
    /\ UNCHANGED <<keys, queue, attached, bonded, layout, air, stale, slot_vars, scanning,
                   events, work_vars, lost, left>>

\* connected, with BT_HCI_ERR_ADV_TIMEOUT: directed advertising ends, and goes on slower
AdvTimeout(p) ==
    /\ adv[p] = "on" /\ bonded[p]
    /\ adv' = [adv EXCEPT ![p] = "submitted_low"]
    /\ UNCHANGED <<keys, queue, attached, bonded, layout, air, stale, slot_vars, scanning,
                   events, work_vars, lost, left>>

\* mutant of Dropped: the end of a connection does not lead back to advertising
Dropped_Silent(p) ==
    /\ attached[p]
    /\ attached' = [attached EXCEPT ![p] = FALSE]
    /\ air' = [air EXCEPT ![p] = <<>>]
    /\ adv' = [adv EXCEPT ![p] = "off"]
    /\ UNCHANGED <<keys, queue, bonded, layout, stale, slot_vars, scanning, events,
                   work_vars, lost>>
\* disconnected and recycled: the peripheral sees the connection go, with what was on its
\* way
Dropped(p) ==
    /\ attached[p]
    /\ attached' = [attached EXCEPT ![p] = FALSE]
    /\ air' = [air EXCEPT ![p] = <<>>]
    /\ adv' = [adv EXCEPT ![p] = "submitted"]
    /\ UNCHANGED <<keys, queue, bonded, layout, stale, slot_vars, scanning, events,
                   work_vars, lost>>

\* The peripheral starts, or starts again, with the physical layout it starts with
\* (zmk_peripheral_ble_complete_startup).
Boot(p) ==
    /\ Spend("boot")
    /\ keys' = [keys EXCEPT ![p] = {}] /\ queue' = [queue EXCEPT ![p] = <<>>]
    /\ attached' = [attached EXCEPT ![p] = FALSE] /\ air' = [air EXCEPT ![p] = <<>>]
    /\ adv' = [adv EXCEPT ![p] = "submitted"] /\ layout' = [layout EXCEPT ![p] = 0]
    /\ stale' = [stale EXCEPT ![p] = TRUE]
    /\ UNCHANGED <<bonded, slot_vars, scanning, events, work_vars, lost>>

\* The connection is lost, or was to be closed.
Loss(p) == Spend("loss") /\ Dropped(p)
HangUp(p) == SlotOf(p) \cap closing # {} /\ Dropped(p) /\ UNCHANGED left
-----------------------------------------------------------------------------
(***************************************************************************)
(* The central's slots.                                                    *)
(***************************************************************************)
\* start_scanning
StartScanning(transport, states) ==
    scanning' = (scanning \/ (transport = "ble" /\ \E i \in Slots : states[i] = "open"))

\* k_msgq_put with K_NO_WAIT: events that do not fit are dropped
Put(evs) ==
    LET room == EventQueue - Len(events)
    IN  /\ events' = events \o SubSeq(evs, 1, IF Len(evs) <= room THEN Len(evs) ELSE room)
        /\ lost' = (lost \/ Len(evs) > room)

\* mutant of Releases: the first position is passed over
Releases_SkipFirst(i) ==
    [n \in 1 .. (IF mirror[i] = {} THEN 0 ELSE Cardinality(mirror[i]) - 1) |->
        [source |-> i, position |-> InOrder(mirror[i])[n + 1], pressed |-> FALSE]]
\* release_peripheral_slot raises events for the positions that are active
Releases(i) ==
    [n \in 1 .. Cardinality(mirror[i]) |->
        [source |-> i, position |-> InOrder(mirror[i])[n], pressed |-> FALSE]]

\* release_peripheral_slot
ReleaseSlot(i) ==
    /\ state' = [state EXCEPT ![i] = "open"]
    /\ Put(Releases(i))
    /\ mirror' = [mirror EXCEPT ![i] = {}]
    /\ found' = [found EXCEPT ![i] = 0]
    /\ secured' = [secured EXCEPT ![i] = FALSE]
    /\ closing' = closing \ {i}

\* zmk_ble_put_peripheral_addr: the slot of an address, or the first one that is free
SlotFor(p) ==
    IF \E i \in Slots : addrs[i] = p THEN {i \in Slots : addrs[i] = p}
    ELSE {i \in Slots : addrs[i] = Nobody /\ \A j \in Slots : addrs[j] = Nobody => i <= j}

Connecting == \E i \in Slots : state[i] = "connecting"

\* split_central_eir_found, when bt_conn_le_create takes the request
Found(p) ==
    /\ scanning /\ Advertising(p) /\ ~Connecting
    /\ \E i \in SlotFor(p) :
        /\ state[i] = "open"
        /\ addrs' = [addrs EXCEPT ![i] = p]
        /\ state' = [state EXCEPT ![i] = "connecting"]
    /\ scanning' = FALSE
    /\ UNCHANGED <<peripheral_vars, found, secured, mirror, closing, raised, events,
                   work_vars, lost, left>>

\* mutant of FoundInVain: scanning does not start again
FoundInVain_NoRescan(p) ==
    /\ scanning /\ Advertising(p)
    /\ (Connecting /\ UNCHANGED left) \/ Spend("failure")
    /\ \E i \in SlotFor(p) : state[i] = "open" /\ addrs' = [addrs EXCEPT ![i] = p]
    /\ scanning' = FALSE
    /\ UNCHANGED <<peripheral_vars, state, found, secured, mirror, closing, raised, events,
                   work_vars, lost>>
\* split_central_eir_found, when it fails, as it does while another one is connecting:
\* the slot is released and scanning starts again
FoundInVain(p) ==
    /\ scanning /\ Advertising(p)
    /\ (Connecting /\ UNCHANGED left) \/ Spend("failure")
    /\ \E i \in SlotFor(p) : state[i] = "open" /\ addrs' = [addrs EXCEPT ![i] = p]
    /\ UNCHANGED scanning
    /\ UNCHANGED <<peripheral_vars, state, found, secured, mirror, closing, raised, events,
                   work_vars, lost>>

\* split_central_connected, and connected on the peripheral
Connected(i) ==
    /\ state[i] = "connecting" /\ Advertising(addrs[i])
    /\ state' = [state EXCEPT ![i] = "connected"]
    /\ StartScanning(active, state')
    /\ ble_work' = TRUE
    /\ attached' = [attached EXCEPT ![addrs[i]] = TRUE]
    /\ stale' = [stale EXCEPT ![addrs[i]] = TRUE]
    /\ adv' = [adv EXCEPT ![addrs[i]] = "off"]
    /\ UNCHANGED <<keys, queue, bonded, layout, air, addrs, found, secured, mirror, closing,
                   raised, events, selected, layout_work, pass, active, wired, wired_work,
                   lost, left>>

\* split_central_connected with an error
ConnectionFailed(i) ==
    /\ state[i] = "connecting" /\ Spend("failure")
    /\ ReleaseSlot(i)
    /\ StartScanning(active, state')
    /\ UNCHANGED <<peripheral_vars, addrs, raised, work_vars>>

\* split_central_disconnected, when the central sees the connection go
Disconnected(i) ==
    /\ state[i] = "connected" /\ ~attached[addrs[i]]
    /\ ReleaseSlot(i)
    /\ StartScanning(active, state')
    /\ ble_work' = TRUE
    /\ UNCHANGED <<peripheral_vars, addrs, raised, selected, layout_work, pass, active,
                   wired, wired_work, left>>

\* split_central_chrc_discovery_func finds the next of the three handles
Discovered(i) ==
    /\ state[i] = "connected" /\ attached[addrs[i]] /\ found[i] < 3
    /\ found' = [found EXCEPT ![i] = @ + 1]
    /\ layout_work' = (layout_work \/ found'[i] = 3)
    /\ UNCHANGED <<peripheral_vars, addrs, state, secured, mirror, closing, raised, scanning,
                   events, selected, pass, active, wired, wired_work, ble_work, lost, left>>

\* mutant of Secured: security does not lead to the layout
Secured_Silent(i) ==
    /\ state[i] = "connected" /\ attached[addrs[i]] /\ ~secured[i]
    /\ secured' = [secured EXCEPT ![i] = TRUE]
    /\ bonded' = [bonded EXCEPT ![addrs[i]] = TRUE]
    /\ UNCHANGED <<keys, queue, attached, adv, layout, air, stale, addrs, state, found,
                   mirror, closing, raised, scanning, events, work_vars, lost, left>>
\* split_central_security_changed, and auth_pairing_complete on the peripheral
Secured(i) ==
    /\ state[i] = "connected" /\ attached[addrs[i]] /\ ~secured[i]
    /\ secured' = [secured EXCEPT ![i] = TRUE]
    /\ bonded' = [bonded EXCEPT ![addrs[i]] = TRUE]
    /\ layout_work' = (layout_work \/ found[i] = 3)
    /\ UNCHANGED <<keys, queue, attached, adv, layout, air, stale, addrs, state, found,
                   mirror, closing, raised, scanning, events, selected, pass, active, wired,
                   wired_work, ble_work, lost, left>>

\* mutant of Changed: every position that is down, rather than those that have changed
Changed_AllDown(old, new) == InOrder(new \cup old)
\* changed_positions
Changed(old, new) == InOrder(SymDiff(old, new))

\* split_central_notify_func
Notified(i) ==
    /\ state[i] = "connected" /\ air[addrs[i]] # <<>>
    /\ LET data == Head(air[addrs[i]])
           changed == Changed(mirror[i], data)
       IN  /\ Put([n \in DOMAIN changed |->
                    [source |-> i, position |-> changed[n], pressed |-> changed[n] \in data]])
           /\ mirror' = [mirror EXCEPT ![i] = data]
    /\ air' = [air EXCEPT ![addrs[i]] = Tail(@)]
    /\ UNCHANGED <<keys, queue, attached, bonded, adv, layout, stale, addrs, state, found,
                   secured, closing, raised, scanning, work_vars, left>>
-----------------------------------------------------------------------------
(***************************************************************************)
(* The central's work queue.                                               *)
(***************************************************************************)
\* peripheral_event_work_callback and zmk_split_transport_central_peripheral_event_handler:
\* one round of the loop.  Events of a transport that is not active are ignored.
Raise ==
    /\ events # <<>>
    /\ events' = Tail(events)
    /\ LET ev == Head(events)
       IN  IF active = "ble"
           THEN /\ raised' = [raised EXCEPT ![ev.source] =
                                IF ev.pressed THEN @ \cup {ev.position} ELSE @ \ {ev.position}]
                /\ UNCHANGED lost
           ELSE lost' = TRUE /\ UNCHANGED raised
    /\ UNCHANGED <<peripheral_vars, addrs, state, found, secured, mirror, closing, scanning,
                   work_vars, left>>

\* zmk_physical_layouts_select on the central, which Studio may ask for at any time
SelectLayout(l) ==
    /\ Spend("selection") /\ l # selected
    /\ selected' = l /\ layout_work' = TRUE
    /\ UNCHANGED <<peripheral_vars, slot_vars, scanning, events, pass, active, wired,
                   wired_work, ble_work, lost>>

\* update_peripherals_selected_physical_layout reads the selected layout...
TellLayout ==
    /\ layout_work /\ pass.todo = {}
    /\ layout_work' = FALSE
    /\ pass' = [layout |-> selected, todo |-> Slots]
    /\ UNCHANGED <<peripheral_vars, slot_vars, scanning, events, selected, active, wired,
                   wired_work, ble_work, lost, left>>

\* ...and writes it to one slot after the other (update_peripheral_selected_layout).
WriteLayout(i) ==
    /\ i \in pass.todo /\ \A j \in pass.todo : i <= j
    /\ pass' = [pass EXCEPT !.todo = @ \ {i}]
    /\ layout' = IF state[i] = "connected" /\ found[i] = 3 /\ secured[i] /\ attached[addrs[i]]
                 THEN [layout EXCEPT ![addrs[i]] = pass.layout] ELSE layout
    /\ UNCHANGED <<keys, queue, attached, bonded, adv, air, stale, slot_vars, scanning,
                   events, selected, layout_work, active, wired, wired_work, ble_work,
                   lost, left>>

\* select_first_available_transport, split_central_bt_set_enabled: the wire comes first
SelectTransport ==
    LET best == IF wired THEN "wired" ELSE "ble"
    IN  /\ active' = best
        /\ CASE best = active -> UNCHANGED <<scanning, closing>>
             [] best # active /\ best = "ble" -> StartScanning("ble", state) /\ UNCHANGED closing
             [] best # active /\ best = "wired" ->
                    scanning' = FALSE /\ closing' = {i \in Slots : state[i] = "connected"}

\* transport_status_changed_cb for Bluetooth: while it is active and something is
\* connected, all is well
BleStatus ==
    /\ ble_work /\ ble_work' = FALSE
    /\ IF active = "ble" /\ \E i \in Slots : state[i] = "connected"
       THEN UNCHANGED <<active, scanning, closing>>
       ELSE SelectTransport
    /\ UNCHANGED <<peripheral_vars, addrs, state, found, secured, mirror, raised, events,
                   selected, layout_work, pass, wired, wired_work, lost, left>>

\* and for the wire
WiredStatus ==
    /\ wired_work /\ wired_work' = FALSE
    /\ IF active = "wired" /\ wired
       THEN UNCHANGED <<active, scanning, closing>>
       ELSE SelectTransport
    /\ UNCHANGED <<peripheral_vars, addrs, state, found, secured, mirror, raised, events,
                   selected, layout_work, pass, wired, ble_work, lost, left>>

\* The wire is plugged in or pulled out (detect_pin_irq_callback_handler).
Plug ==
    /\ Spend("plug")
    /\ wired' = ~wired /\ wired_work' = TRUE
    /\ UNCHANGED <<peripheral_vars, slot_vars, scanning, events, selected, layout_work, pass,
                   active, ble_work, lost>>
-----------------------------------------------------------------------------
\* The central has loaded its settings (finish_init); no peripheral has power.
Init ==
    /\ keys = [p \in Peripherals |-> {}] /\ queue = [p \in Peripherals |-> <<>>]
    /\ attached = [p \in Peripherals |-> FALSE] /\ bonded = [p \in Peripherals |-> FALSE]
    /\ adv = [p \in Peripherals |-> "unpowered"] /\ layout = [p \in Peripherals |-> 0]
    /\ air = [p \in Peripherals |-> <<>>] /\ stale = [p \in Peripherals |-> TRUE]
    /\ addrs = [i \in Slots |-> Nobody] /\ state = [i \in Slots |-> "open"]
    /\ found = [i \in Slots |-> 0] /\ secured = [i \in Slots |-> FALSE]
    /\ mirror = [i \in Slots |-> {}] /\ raised = [i \in Slots |-> {}] /\ closing = {}
    /\ scanning = TRUE /\ events = <<>>
    /\ selected = 0 /\ layout_work = FALSE /\ pass = [layout |-> 0, todo |-> {}]
    /\ active = "ble" /\ wired = FALSE /\ wired_work = FALSE /\ ble_work = FALSE
    /\ lost = FALSE /\ left \in Budgets

Next ==
    \/ \E p \in Peripherals :
        \/ \E k \in Positions : Stroke(p, k)
        \/ Boot(p)
        \/ SendState(p) \/ Advertise(p) \/ AdvTimeout(p) \/ Loss(p) \/ HangUp(p)
        \/ Found(p) \/ FoundInVain(p)
    \/ \E i \in Slots :
        \/ Connected(i) \/ ConnectionFailed(i) \/ Disconnected(i)
        \/ Discovered(i) \/ Secured(i) \/ Notified(i) \/ WriteLayout(i)
    \/ Raise \/ TellLayout \/ BleStatus \/ WiredStatus \/ Plug
    \/ \E l \in Layouts : SelectLayout(l)

Spec == Init /\ [][Next]_vars

\* The work queues are served, a disconnection asked for happens, and a peripheral that
\* advertises is heard while the central scans, and answers.
Fairness ==
    /\ \A p \in Peripherals : WF_vars(Advertise(p)) /\ WF_vars(HangUp(p)) /\ WF_vars(Found(p))
    /\ \A i \in Slots : WF_vars(Connected(i)) /\ WF_vars(Disconnected(i))
    /\ WF_vars(WiredStatus)

FairSpec == Spec /\ Fairness
-----------------------------------------------------------------------------
TypeOK ==
    /\ keys \in [Peripherals -> SUBSET Positions]
    /\ \A p \in Peripherals :
        /\ Len(queue[p]) <= StateQueue /\ Len(air[p]) <= AirSize
        /\ \A n \in DOMAIN queue[p] : queue[p][n] \subseteq Positions
        /\ \A n \in DOMAIN air[p] : air[p][n] \subseteq Positions
    /\ attached \in [Peripherals -> BOOLEAN] /\ bonded \in [Peripherals -> BOOLEAN]
    /\ adv \in [Peripherals -> AdvStates] /\ layout \in [Peripherals -> Layouts]
    /\ stale \in [Peripherals -> BOOLEAN]
    /\ addrs \in [Slots -> Peripherals \cup {Nobody}]
    /\ state \in [Slots -> {"open", "connecting", "connected"}]
    /\ found \in [Slots -> 0 .. 3] /\ secured \in [Slots -> BOOLEAN]
    /\ mirror \in [Slots -> SUBSET Positions] /\ raised \in [Slots -> SUBSET Positions]
    /\ closing \subseteq Slots /\ scanning \in BOOLEAN
    /\ Len(events) <= EventQueue /\ \A n \in DOMAIN events : events[n] \in Event
    /\ selected \in Layouts /\ layout_work \in BOOLEAN
    /\ pass \in [layout : Layouts, todo : SUBSET Slots]
    /\ active \in {"ble", "wired"} /\ wired \in BOOLEAN
    /\ wired_work \in BOOLEAN /\ ble_work \in BOOLEAN /\ lost \in BOOLEAN

(***************************************************************************)
(* Once a peripheral has got a state through on the connection it has, and *)
(* has nothing left to send, the central's copy of its keys is right:      *)
(* however many states were dropped from a full queue or lost with a       *)
(* connection before, and whatever moved while there was none.             *)
(***************************************************************************)
MirrorFollows ==
    \A i \in Slots : LET p == addrs[i] IN
        state[i] = "connected" /\ attached[p] /\ ~stale[p] /\ queue[p] = <<>> /\ air[p] = <<>>
            => mirror[i] = keys[p]

\* What the keymap will have been told of slot i when the events waiting are raised.
Told(i) ==
    {k \in Positions :
        LET about == {n \in DOMAIN events : events[n].source = i /\ events[n].position = k}
        IN  IF about = {} THEN k \in raised[i] ELSE events[Max(about)].pressed}

(***************************************************************************)
(* What the keymap is told adds up to the copy, across connections that    *)
(* come and go, as long as no event was dropped: in particular a           *)
(* peripheral that is gone leaves nothing pressed.                         *)
(***************************************************************************)
EventsAddUp == ~lost => \A i \in Slots : Told(i) = mirror[i]

(***************************************************************************)
(* No position is raised as pressed twice, or as released when it was not  *)
(* pressed, unless an event was dropped.                                   *)
(***************************************************************************)
NoRepeatedEvent == Raise /\ ~lost' => raised' # raised

(***************************************************************************)
(* While Bluetooth is active and a peripheral is missing, the central is   *)
(* scanning, but for the time that a connection is being made: no          *)
(* interleaving of failures, disconnections and changes of transport makes *)
(* it stop looking.                                                        *)
(***************************************************************************)
KeepsLooking ==
    /\ active = "ble" /\ ~Connecting /\ (\E i \in Slots : state[i] = "open") => scanning
    /\ scanning => active = "ble"

(***************************************************************************)
(* With no work waiting, every peripheral that can be told has the layout  *)
(* of the central, whether security or the discovery came first, and       *)
(* whenever another layout was selected.                                   *)
(***************************************************************************)
LayoutAgrees ==
    ~layout_work /\ pass.todo = {} =>
        \A i \in Slots :
            state[i] = "connected" /\ attached[addrs[i]] /\ found[i] = 3 /\ secured[i]
                => layout[addrs[i]] = selected

Linked(p) == attached[p] /\ SlotOf(p) # {}

(***************************************************************************)
(* Every peripheral that was switched on is connected, as both sides see   *)
(* it, when no wire is plugged in.  That is so in the end, once the        *)
(* outside lets it be: losses, failed attempts, restarts and changes of    *)
(* transport never leave one waiting for the other.                        *)
(***************************************************************************)
AllLinked == \A p \in Peripherals : ~wired /\ adv[p] # "unpowered" => Linked(p)

\* What the central knows of the keys and of the layouts is what the peripherals have.
MirrorsAgree == TypeOK /\ MirrorFollows /\ EventsAddUp /\ LayoutAgrees
=============================================================================

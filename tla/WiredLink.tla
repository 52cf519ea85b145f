------------------------------ MODULE WiredLink ------------------------------
(***************************************************************************)
(* The wired link between the halves of a split keyboard: wired.c,         *)
(* wired/central.c, wired/peripheral.c, and the choice of a transport in   *)
(* split/central.c and split/peripheral.c.                                 *)
(*                                                                         *)
(* What goes over the wire is a sequence of tokens, each for some bytes: a *)
(* message is a magic prefix, its size, its data and a checksum.  A token  *)
(* can be changed by noise, and is lost when the receiver is full or the   *)
(* wire is unplugged.  With half duplex the peripheral sends only after a  *)
(* poll.  Bluetooth, which takes over when there is no wire, is reduced to *)
(* what it keeps of one key.                                               *)
(*                                                                         *)
(* Events are numbered; an odd one presses the key and an even one         *)
(* releases it.                                                            *)
(***************************************************************************)
EXTENDS Integers, SequencesExt

CONSTANTS
    Wires,       \* values of build
    CommandData, EventData,   \* data tokens of a command that invokes a behavior, and of an event
    CentralTx, PeripheralTx,  \* room in the rings of what is to be sent, in tokens
    CentralRx, PeripheralRx,  \* and of what has been received
    WireCommandQueue,             \* room in cmd_msg_queue
    Chunk,                    \* tokens that may be received before the rest of them
    MaxCommands, MaxNoise, MaxPlugs, MaxTrouble    \* bounds; the last for noise and plugs together

VARIABLES
    wire_build,     \* [events |-> a bound, half |-> half duplex, ble |-> there is Bluetooth as well,
                    \*  mode |-> how the UART is used: "polling", "interrupt" or "async"]
    c, p,      \* the two halves
    wire_down, wire_up,  \* the wire, to the peripheral and to the central
    plugged,
    sent,      \* the last event of the key, and the last command
    wire_raised,    \* the last event the central has raised over the wire
    invoked,   \* the last command the peripheral has invoked
    wire_pressed,   \* does the central hold the key for pressed
    wire_lost,      \* a message was refused, damaged, or cut off
    carried,   \* a transport was changed while the key was down or messages on their way
    noise, plugs
wire_vars == <<wire_build, c, p, wire_down, wire_up, plugged, sent, wire_raised, invoked, wire_pressed, wire_lost, carried, noise, plugs>>

-----------------------------------------------------------------------------
(* Messages.                                                                  *)
Magic == <<"magic">>
Poll == <<"poll", 0>>
WireInvoke(n) == <<"invoke", n>>
KeyEvent(n) == <<"event", n>>
DataOf(m) == CASE m[1] = "poll" -> 1 [] m[1] = "invoke" -> CommandData [] m[1] = "event" -> EventData

Envelope(m) ==
    <<Magic, <<"size", DataOf(m)>>>> \o [i \in 1 .. DataOf(m) |-> <<"data", m, i>>] \o <<<<"crc", m>>>>

\* A token read as a size: "Z", the first byte of the magic prefix, is larger than
\* any message; the first byte of the data is the source, which is 0; of other bytes
\* any size may be read.
SizeOf(token, guess, max) ==
    CASE token[1] = "size" -> token[2]
      [] token[1] = "magic" -> max + 1
      [] token[1] = "data" /\ token[3] = 1 -> 0
      [] OTHER -> IF guess THEN max + 1 ELSE 0

\* Does the checksum in the first n + 3 tokens match.
Matches(buf, n) == n > 0 /\ buf[3][1] = "data" /\ SubSeq(buf, 1, n + 3) = Envelope(buf[3][2])

NoMessage == <<"none", 0>>
Item(status, rest, m) == [status |-> status, rest |-> rest, message |-> m]

\* The bytes before the next prefix are discarded.
Aligned(buf) ==
    SubSeq(buf, Min({i \in DOMAIN buf : buf[i] = Magic} \cup {Max({1, Len(buf) - 2})}), Len(buf))

\* mutant of GetPrefixed: the checksum is not compared
GetPrefixed_Trusting(buf, n, max) ==
    CASE n > max -> Item("invalid", buf, NoMessage)
      [] n <= max /\ Len(buf) < n + 3 -> Item("again", buf, NoMessage)
      [] OTHER -> Item("item", SubSeq(buf, n + 4, Len(buf)),
                       IF n > 0 /\ buf[3][1] = "data" THEN buf[3][2] ELSE NoMessage)

\* A message of n that begins the ring.  One that is too large is left there.
GetPrefixed(buf, n, max) ==
    CASE n > max -> Item("invalid", buf, NoMessage)
      [] n <= max /\ Len(buf) < n + 3 -> Item("again", buf, NoMessage)
      [] n <= max /\ Len(buf) >= n + 3 /\ ~Matches(buf, n) ->
             Item("invalid", SubSeq(buf, n + 4, Len(buf)), NoMessage)
      [] OTHER -> Item("item", SubSeq(buf, n + 4, Len(buf)), buf[3][2])

\* zmk_split_wired_get_item: the outcomes.
GetItem(ring, max) ==
    UNION {IF Len(buf) <= 3 THEN {Item("again", buf, NoMessage)}
           ELSE {GetPrefixed(buf, SizeOf(buf[2], guess, max), max) : guess \in BOOLEAN} : buf \in {Aligned(ring)}}

-----------------------------------------------------------------------------
(* Rings and wires.                                                           *)
Fits(ring, tokens, size) == Len(ring) + Len(tokens) <= size
Room(ring, size) == size - Len(ring)
Received(ring, tokens, size) ==
    ring \o SubSeq(tokens, 1, IF Fits(ring, tokens, size) THEN Len(tokens) ELSE Room(ring, size))

\* poll_out, fifo_fill, or async_tx until there is nothing left.
\* mutant of Burst: the part before the end of the buffer is sent, all of it is finished
Burst_Claimed(ring) == SubSeq(ring, 1, IF Len(ring) > 4 THEN 4 ELSE Len(ring))
Burst(ring) == ring

\* What is taken of the wire at a time, and whether the rest of it, which did not
\* fit, is gone, and whether what is in the ring is looked at.
\* Polling leaves what does not fit, and looks at nothing when the ring is full.
PollIn(ring, wire, size) ==
    {[n |-> n, drops |-> FALSE, process |-> TRUE] :
        n \in {m \in {Chunk, Len(wire), Room(ring, size)} : m <= Len(wire) /\ m <= Room(ring, size) /\ m > 0}}
\* The interrupt drops what does not fit.
FifoRead(ring, wire, size) ==
    {[n |-> n, drops |-> n > Room(ring, size), process |-> TRUE] : n \in {m \in {Chunk, Len(wire)} : m <= Len(wire)}}
\* So does DMA, half a ring at a time, and then nobody looks at the ring.
RxReady(ring, wire, size) ==
    {[n |-> n, drops |-> n > Room(ring, size), process |-> n <= Room(ring, size)] :
        n \in {m \in {Chunk, Len(wire), size \div 2} : m <= Len(wire) /\ 2 * m <= size}}
Reads(ring, wire, size) ==
    CASE wire_build.mode = "polling"   -> PollIn(ring, wire, size)
      [] wire_build.mode = "interrupt" -> FifoRead(ring, wire, size)
      [] wire_build.mode = "async"     -> RxReady(ring, wire, size)

\* zmk_split_wired_central_init, zmk_split_wired_peripheral_init, and the wire selected.
StartCentral ==
    [active |-> "wired", on |-> TRUE, tx |-> <<>>, rx |-> <<>>, sending |-> FALSE, sem |-> 0,
     polls |-> wire_build.half, publish |-> FALSE, status |-> FALSE, ble |-> FALSE]
StartPeripheral ==
    [active |-> "wired", on |-> TRUE, tx |-> <<>>, rx |-> <<>>, sending |-> FALSE,
     queue |-> <<>>, work |-> FALSE, status |-> FALSE, ble |-> FALSE]
WireInit ==
    /\ wire_build \in Wires /\ c = StartCentral /\ p = StartPeripheral
    /\ wire_down = <<>> /\ wire_up = <<>> /\ plugged = TRUE
    /\ sent = [event |-> 0, command |-> 0] /\ wire_raised = 0 /\ invoked = 0 /\ wire_pressed = FALSE
    /\ wire_lost = FALSE /\ carried = FALSE /\ noise = 0 /\ plugs = 0

Held == sent.event % 2 = 1
Quiet == c.tx = <<>> /\ c.rx = <<>> /\ p.tx = <<>> /\ p.rx = <<>> /\ wire_down = <<>> /\ wire_up = <<>> /\ ~c.publish

-----------------------------------------------------------------------------
(* The central.                                                               *)
\* split_central_wired_send_command: [c, ok].  The semaphore is not asked for
\* with full duplex.
WireSend(x, m) ==
    LET env == Envelope(m)
        may == ~wire_build.half \/ x.sem = 1
    IN  IF ~Fits(x.tx, env, CentralTx) THEN [c |-> x, ok |-> FALSE]
        ELSE [c |-> [x EXCEPT !.tx = @ \o env, !.sending = @ \/ may, !.sem = IF may THEN 0 ELSE @], ok |-> TRUE]

\* zmk_split_central_invoke_behavior
InvokeBehavior ==
    /\ sent.command < MaxCommands /\ c.active = "wired"
    /\ LET done == WireSend(c, WireInvoke(sent.command + 1))
       IN  c' = done.c /\ wire_lost' = (wire_lost \/ ~done.ok)
    /\ sent' = [sent EXCEPT !.command = @ + 1]
    /\ UNCHANGED <<wire_build, p, wire_down, wire_up, plugged, wire_raised, invoked, wire_pressed, carried, noise, plugs>>

\* rx_done_cb.  Its timeouts are longer than it takes to send what is in the ring.
RxDone ==
    /\ c.polls /\ ~c.sending /\ wire_down = <<>>
    /\ c' = WireSend([c EXCEPT !.sem = 1], Poll).c
    /\ UNCHANGED <<wire_build, p, wire_down, wire_up, plugged, sent, wire_raised, invoked, wire_pressed, wire_lost, carried, noise, plugs>>

\* The receiver gets the bytes as they are sent, so there is one burst on the wire.
CentralTransmit ==
    /\ c.sending /\ wire_down = <<>>
    /\ c' = [c EXCEPT !.tx = <<>>, !.sending = FALSE]
    /\ wire_down' = IF plugged THEN Burst(c.tx) ELSE <<>>
    /\ wire_lost' = (wire_lost \/ ~plugged)
    /\ UNCHANGED <<wire_build, p, wire_up, plugged, sent, wire_raised, invoked, wire_pressed, carried, noise, plugs>>

\* serial_cb, read_timer_cb or UART_RX_RDY.
CentralReceive ==
    /\ wire_up # <<>>
    /\ IF c.on
       THEN \E read \in Reads(c.rx, wire_up, CentralRx) :
              /\ wire_up' = SubSeq(wire_up, read.n + 1, Len(wire_up))
              /\ c' = [c EXCEPT !.rx = Received(@, SubSeq(wire_up, 1, read.n), CentralRx), !.publish = @ \/ read.process]
              /\ wire_lost' = (wire_lost \/ read.drops)
       ELSE c' = c /\ wire_up' = <<>> /\ wire_lost' = TRUE
    /\ UNCHANGED <<wire_build, p, wire_down, plugged, sent, wire_raised, invoked, wire_pressed, carried, noise, plugs>>

\* publish_events_work: the outcomes [rx, raised, pressed, lost].  Events of a
\* transport that is not active are ignored.
RECURSIVE Publish(_)
Publish(x) ==
    UNION {CASE got.status = "item" ->
                  Publish(IF c.active = "wired"
                          THEN [rx |-> got.rest, raised |-> got.message[2],
                                pressed |-> got.message[2] % 2 = 1, lost |-> x.lost]
                          ELSE [x EXCEPT !.rx = got.rest, !.lost = TRUE])
             [] got.status = "invalid" -> {[x EXCEPT !.rx = got.rest, !.lost = TRUE]}
             [] got.status = "again"   -> {[x EXCEPT !.rx = got.rest]} : got \in GetItem(x.rx, EventData)}

PublishEvents ==
    /\ c.publish
    /\ \E done \in Publish([rx |-> c.rx, raised |-> wire_raised, pressed |-> wire_pressed, lost |-> wire_lost]) :
         /\ c' = [c EXCEPT !.rx = done.rx, !.publish = FALSE, !.polls = wire_build.half]
         /\ wire_raised' = done.raised /\ wire_pressed' = done.pressed /\ wire_lost' = done.lost
    /\ UNCHANGED <<wire_build, p, wire_down, wire_up, plugged, sent, invoked, carried, noise, plugs>>

-----------------------------------------------------------------------------
(* The peripheral.                                                            *)
\* split_peripheral_wired_report_event
ReportWired(x, n) ==
    LET env == Envelope(KeyEvent(n))
    IN  IF ~Fits(x.tx, env, PeripheralTx) THEN [p |-> x, ok |-> FALSE]
        ELSE [p |-> [x EXCEPT !.tx = @ \o env, !.sending = @ \/ ~wire_build.half], ok |-> TRUE]

\* split_peripheral_listener.  Over Bluetooth the state of the key is sent, and the
\* central raises what differs from its copy.
Report ==
    /\ sent.event < wire_build.events /\ sent' = [sent EXCEPT !.event = @ + 1]
    /\ IF p.active = "wired"
       THEN LET done == ReportWired(p, sent.event + 1)
            IN  p' = done.p /\ wire_lost' = (wire_lost \/ ~done.ok) /\ UNCHANGED <<c, wire_pressed>>
       ELSE /\ p' = [p EXCEPT !.ble = ~Held]
            /\ IF c.active = "ble"
               THEN c' = [c EXCEPT !.ble = ~Held] /\ wire_pressed' = IF c.ble = ~Held THEN wire_pressed ELSE ~Held
               ELSE UNCHANGED <<c, wire_pressed>>
            /\ wire_lost' = (wire_lost \/ c.active # "ble")
    /\ UNCHANGED <<wire_build, wire_down, wire_up, plugged, wire_raised, invoked, carried, noise, plugs>>

PeripheralTransmit ==
    /\ p.sending /\ wire_up = <<>>
    /\ p' = [p EXCEPT !.tx = <<>>, !.sending = FALSE]
    /\ wire_up' = IF plugged THEN Burst(p.tx) ELSE <<>>
    /\ wire_lost' = (wire_lost \/ (~plugged /\ p.tx # <<>>))
    /\ UNCHANGED <<wire_build, c, wire_down, plugged, sent, wire_raised, invoked, wire_pressed, carried, noise, plugs>>

\* process_tx_cb: the outcomes [p, lost].  When the queue is full the command is
\* dropped, and what else is in the ring waits until more is received.
Queue(q, n) == IF Len(q.queue) < WireCommandQueue THEN {[q EXCEPT !.queue = Append(@, n), !.work = TRUE]} ELSE {}

\* mutant of Process: a poll is answered when the next bytes come
RECURSIVE Process_PollWaits(_)
Process_PollWaits(x) ==
    UNION {LET q == [x.p EXCEPT !.rx = got.rest]
           IN  CASE got.status = "item" /\ got.message = Poll -> Process_PollWaits([x EXCEPT !.p = q])
                 [] got.status = "item" /\ got.message # Poll ->
                        IF Queue(q, got.message[2]) = {} THEN {[p |-> q, lost |-> TRUE]}
                        ELSE UNION {Process_PollWaits([x EXCEPT !.p = next]) : next \in Queue(q, got.message[2])}
                 [] got.status = "invalid" -> {[p |-> q, lost |-> TRUE]}
                 [] got.status = "again"   -> {[x EXCEPT !.p = q]} : got \in GetItem(x.p.rx, CommandData)}

RECURSIVE Process(_)
Process(x) ==
    UNION {LET q == [x.p EXCEPT !.rx = got.rest]
           IN  CASE got.status = "item" /\ got.message = Poll -> Process([x EXCEPT !.p = [q EXCEPT !.sending = TRUE]])
                 [] got.status = "item" /\ got.message # Poll ->
                        IF Queue(q, got.message[2]) = {} THEN {[p |-> q, lost |-> TRUE]}
                        ELSE UNION {Process([x EXCEPT !.p = next]) : next \in Queue(q, got.message[2])}
                 [] got.status = "invalid" -> {[p |-> q, lost |-> TRUE]}
                 [] got.status = "again"   -> {[x EXCEPT !.p = q]} : got \in GetItem(x.p.rx, CommandData)}

\* serial_cb, wired_peripheral_read_tick_cb or UART_RX_RDY.
PeripheralReceive ==
    /\ wire_down # <<>>
    /\ IF p.on
       THEN \E read \in Reads(p.rx, wire_down, PeripheralRx) :
            \E got \in {[p |-> [p EXCEPT !.rx = Received(@, SubSeq(wire_down, 1, read.n), PeripheralRx)],
                         lost |-> wire_lost \/ read.drops]} :
            \E done \in IF read.process THEN Process(got) ELSE {got} :
              wire_down' = SubSeq(wire_down, read.n + 1, Len(wire_down)) /\ p' = done.p /\ wire_lost' = done.lost
       ELSE p' = p /\ wire_down' = <<>> /\ wire_lost' = TRUE
    /\ UNCHANGED <<wire_build, c, wire_up, plugged, sent, wire_raised, invoked, wire_pressed, carried, noise, plugs>>

\* publish_commands_work and zmk_split_transport_peripheral_command_handler
PublishCommands ==
    /\ p.work
    /\ invoked' = IF p.queue = <<>> THEN invoked ELSE Last(p.queue)
    /\ p' = [p EXCEPT !.queue = <<>>, !.work = FALSE]
    /\ UNCHANGED <<wire_build, c, wire_down, wire_up, plugged, sent, wire_raised, wire_pressed, wire_lost, carried, noise, plugs>>

-----------------------------------------------------------------------------
(* Plugging, and the choice of the transport.  The rings keep what is in them. *)
PlugWire ==
    /\ plugs < MaxPlugs /\ noise + plugs < MaxTrouble /\ plugs' = plugs + 1
    /\ plugged' = ~plugged
    /\ c' = [c EXCEPT !.status = TRUE] /\ p' = [p EXCEPT !.status = TRUE]
    /\ wire_down' = <<>> /\ wire_up' = <<>> /\ wire_lost' = (wire_lost \/ wire_down # <<>> \/ wire_up # <<>>)
    /\ UNCHANGED <<wire_build, sent, wire_raised, invoked, wire_pressed, carried, noise>>

\* select_first_available_transport: the wire comes first.  When nothing is available
\* what is active stays so.
Best == IF plugged THEN "wired" ELSE IF wire_build.ble THEN "ble" ELSE "none"
Chosen(active) == IF Best = "none" THEN active ELSE Best

\* begin_rx and stop_rx of the two.  DMA that was stopped is started again (RestartRx).
CentralReads(x, on) == [x EXCEPT !.on = on]
PeripheralReads(x, on) == [x EXCEPT !.on = on]

\* split_central_wired_set_enabled, split_peripheral_wired_set_enabled
SetCentral(x, enabled) == [CentralReads(x, enabled) EXCEPT !.polls = wire_build.half /\ enabled]
SetPeripheral(x, enabled) == IF x.on = enabled THEN x ELSE PeripheralReads(x, enabled)

\* notify_status_work_cb and transport_status_changed_cb.  When the central leaves
\* Bluetooth its slot is released after the wire has become active.
CentralStatus ==
    /\ c.status
    /\ LET x == [c EXCEPT !.status = FALSE, !.active = Chosen(@), !.ble = FALSE]
       IN  c' = IF x.active = c.active THEN x ELSE SetCentral(x, x.active = "wired")
    /\ carried' = (carried \/ (Chosen(c.active) # c.active /\ (Held \/ wire_pressed \/ ~Quiet)))
    /\ UNCHANGED <<wire_build, p, wire_down, wire_up, plugged, sent, wire_raised, invoked, wire_pressed, wire_lost, noise, plugs>>

\* When the peripheral leaves Bluetooth the central releases what it had pressed.
PeripheralStatus ==
    /\ p.status
    /\ LET x == [p EXCEPT !.status = FALSE, !.active = Chosen(@)]
       IN  p' = IF x.active = p.active THEN x ELSE SetPeripheral(x, x.active = "wired")
    /\ IF p.active = "ble" /\ Chosen(p.active) = "wired" /\ c.active = "ble"
       THEN c' = [c EXCEPT !.ble = FALSE] /\ wire_pressed' = (wire_pressed /\ ~c.ble)
       ELSE UNCHANGED <<c, wire_pressed>>
    /\ carried' = (carried \/ (Chosen(p.active) # p.active /\ (Held \/ wire_pressed \/ ~Quiet)))
    /\ UNCHANGED <<wire_build, wire_down, wire_up, plugged, sent, wire_raised, invoked, wire_lost, noise, plugs>>

\* UART_RX_DISABLED and restart_rx_work_cb: whoever stopped it.
RestartRx ==
    /\ wire_build.mode = "async"
    /\ \/ ~c.on /\ c' = [c EXCEPT !.on = TRUE] /\ p' = p
       \/ ~p.on /\ p' = [p EXCEPT !.on = TRUE] /\ c' = c
    /\ UNCHANGED <<wire_build, wire_down, wire_up, plugged, sent, wire_raised, invoked, wire_pressed, wire_lost, carried, noise, plugs>>

\* One token on its way changes.
Damage(token, max) ==
    IF token[1] = "size" THEN {<<"size", n>> : n \in 0 .. max + 1} \ {token} ELSE {<<"noise">>}
Noise ==
    /\ noise < MaxNoise /\ noise + plugs < MaxTrouble /\ noise' = noise + 1 /\ wire_lost' = TRUE
    /\ \/ \E i \in DOMAIN wire_up : \E t \in Damage(wire_up[i], EventData) : wire_up' = [wire_up EXCEPT ![i] = t] /\ UNCHANGED wire_down
       \/ \E i \in DOMAIN wire_down : \E t \in Damage(wire_down[i], CommandData) : wire_down' = [wire_down EXCEPT ![i] = t] /\ UNCHANGED wire_up
    /\ UNCHANGED <<wire_build, c, p, plugged, sent, wire_raised, invoked, wire_pressed, carried, plugs>>

WireNext ==
    \/ InvokeBehavior \/ RxDone \/ CentralTransmit \/ CentralReceive \/ PublishEvents
    \/ Report \/ PeripheralTransmit \/ PeripheralReceive \/ PublishCommands
    \/ PlugWire \/ CentralStatus \/ PeripheralStatus \/ RestartRx \/ Noise

WireFairness ==
    /\ WF_wire_vars(RxDone) /\ WF_wire_vars(CentralTransmit) /\ WF_wire_vars(CentralReceive) /\ WF_wire_vars(PublishEvents)
    /\ WF_wire_vars(PeripheralTransmit) /\ WF_wire_vars(PeripheralReceive) /\ WF_wire_vars(PublishCommands)
    /\ WF_wire_vars(CentralStatus) /\ WF_wire_vars(PeripheralStatus)
WireSpec == WireInit /\ [][WireNext]_wire_vars /\ WireFairness

-----------------------------------------------------------------------------
(* The rings and the queue never hold more than their room. *)
WiredTypeOK ==
    /\ Len(c.tx) <= CentralTx /\ Len(p.tx) <= PeripheralTx
    /\ Len(c.rx) <= CentralRx /\ Len(p.rx) <= PeripheralRx /\ Len(p.queue) <= WireCommandQueue

(* Whatever noise, overruns and cut wires do to the messages, what is raised or
   invoked was sent, and later than all that was raised or invoked before. *)
OnlySent ==
    /\ wire_raised' # wire_raised => wire_raised' \in wire_raised + 1 .. sent.event
    /\ invoked' # invoked => invoked' \in invoked + 1 .. sent.command

(* When nothing is on its way and nothing was lost, the central's key is where the
   key is, unless a transport was changed while it was down: Bluetooth then knows
   nothing of a key that was pressed over the wire, and its release is not raised. *)
KeyFollows ==
    Quiet /\ ~wire_lost /\ ~carried /\ c.active = p.active => wire_pressed = Held

(* With half duplex a full ring cannot be emptied: the poll that would start to send
   it does not fit. *)
Jammed == wire_build.half /\ ~c.sending /\ ~Fits(c.tx, Envelope(Poll), CentralTx)

(* Every message has arrived: so it is in the end, unless one was lost or the link is jammed; that
   is so without a jam with full duplex, and when the central has fewer commands. *)
HasArrived ==
    \/ wire_lost \/ carried \/ Jammed
    \/ invoked = sent.command /\ (wire_build.ble \/ wire_raised = sent.event)
=============================================================================

------------------------------- MODULE Pointing -------------------------------
(***************************************************************************)
(* From pointing devices to the host's mouse: the keys that are mouse      *)
(* buttons (behavior_mouse_key_press.c), the keys that move the pointer    *)
(* (behavior_input_two_axis.c), a device on a peripheral (input_split.c),  *)
(* the input processors, the listener that gathers events until a frame is *)
(* complete (input_listener.c), the button counts (hid.c) and the queue of *)
(* reports over Bluetooth (hog.c).                                         *)
(*                                                                         *)
(* Behaviors and timers run in the system's work queue, the listener in    *)
(* the input thread: between the two is Zephyr's queue of events, which    *)
(* drops what does not fit.                                                *)
(***************************************************************************)
EXTENDS Integers, SequencesExt

CONSTANTS
    Builds, Nowhere,
    MouseKeys, KeyButtons,       \* mouse key positions, and the buttons of each
    Arrows, ArrowSpeed,     \* positions that move the pointer, and their speeds, [x, y]
    Unit,                   \* speeds are in this part of a count per tick
    Buttons, Rates,         \* of the device on the peripheral
    QueueSize,              \* CONFIG_INPUT_QUEUE_MAX_MSGS
    ReportQueueSize,        \* CONFIG_ZMK_BLE_MOUSE_REPORT_QUEUE_SIZE
    MaxLayers, MaxPointerLinks  \* bounds

VARIABLES
    build,      \* [overrides, base |-> of the split device's listener, remote |-> of its peripheral,
                \*  buttons, codes |-> what it reports, devices |-> what there is,
                \*  inputs |-> a bound, smooth |-> smooth scrolling, tracked |-> CONFIG_ZMK_INPUT_SPLIT_MAX_TRACKED_KEYS]
    layers,     \* active layers
    queue,      \* input events
    acc,        \* per device: what the listener has gathered
    rem,        \* remainders of the scalers, [scope, code]; of scrolling
    counts,     \* explicit_button_counts
    reports, sending,  \* zmk_hog_mouse_msgq; is hog_mouse_work submitted
    conn, host, \* is there a connection; the buttons and the movement the host has seen
    mouse_down,       \* Keys that are down
    arrows, speed, frac, ticking,  \* Arrows that are down; the state of the movement
    pressed,    \* buttons of the remote device that are down
    tracked,    \* proxy_active_keys
    multiplier, \* of the wheel, for the selected endpoint
    went,       \* which button the remote button is for the host
    moved,      \* what the remote device has moved, of each code
    unsure,     \* reasons why buttons or movement may not add up
    inputs, switches, pointer_links
deviceVars == <<mouse_down, arrows, speed, frac, ticking, pressed, tracked>>
hogVars == <<reports, sending, conn, host, pointer_links>>
pointing_vars == <<build, layers, queue, acc, rem, counts, hogVars, deviceVars, multiplier, went, moved,
                   unsure, inputs, switches>>

Devices == {"keys", "arrows", "split"}
Codes == {"x", "y", "wheel"}
Scroll == -1   \* the remainders of apply_resolution_scaling
Wrap16(v) == ((v + 32768) % 65536) - 32768
Trunc(a, b) == IF a < 0 THEN -((-a) \div b) ELSE a \div b

\* input_report without waiting, and in the system's work queue: what does not fit is dropped.
Rel(dev, code, value, sync) == [dev |-> dev, type |-> "rel", code |-> code, value |-> value, sync |-> sync]
Key(dev, button, value, sync) == [dev |-> dev, type |-> "key", code |-> button, value |-> value, sync |-> sync]
PointerReport(events) ==
    LET room == QueueSize - Len(queue)
    IN  /\ queue' = queue \o (IF Len(events) <= room THEN events ELSE SubSeq(events, 1, room))
        /\ unsure' = IF Len(events) <= room THEN unsure ELSE unsure \cup {"dropped"}

-----------------------------------------------------------------------------
(* Input processors.  A state is [event, rem, result]; rem belongs to scope.  *)
\* mutant of Scale: what is left is not added to what comes next
Scale_Forgets(p, scope, s) ==
    LET product == Wrap16(s.event.value * p.mul)
        scaled  == Trunc(product, p.div)
    IN  [s EXCEPT !.event.value = scaled,
                  !.rem = IF p.track THEN [@ EXCEPT ![scope][s.event.code] = Wrap16(product - scaled * p.div)] ELSE @]
Scale(p, scope, s) ==
    LET product == Wrap16(s.event.value * p.mul + (IF p.track THEN s.rem[scope][s.event.code] ELSE 0))
        scaled  == Trunc(product, p.div)
    IN  [s EXCEPT !.event.value = scaled,
                  !.rem = IF p.track THEN [@ EXCEPT ![scope][s.event.code] = Wrap16(product - scaled * p.div)] ELSE @]

\* ipt_handle_event
Transform(p, s) ==
    LET swapped == [c \in {"x", "y"} |-> IF p.swap THEN IF c = "x" THEN "y" ELSE "x" ELSE c]
        code == swapped[s.event.code]
    IN  [s EXCEPT !.event.code = code, !.event.value = IF code \in p.invert THEN -@ ELSE @]

\* cm_handle_event
Remap(p, s) == [s EXCEPT !.event.code = p.to]

\* ip_behaviors_handle_event: the behavior is invoked, or that fails.
Invoke(p, s) == [s EXCEPT !.result = IF p.fails THEN "error" ELSE "stop"]

Handle(p, scope, s) ==
    IF s.result # "continue" \/ s.event.type # p.type \/ s.event.code \notin p.codes THEN s
    ELSE CASE p.kind = "scaler"    -> Scale(p, scope, s)
           [] p.kind = "transform" -> Transform(p, s)
           [] p.kind = "mapper"    -> Remap(p, s)
           [] p.kind = "behaviors" -> Invoke(p, s)

ApplyConfig(processors, scope, s) == FoldLeft(LAMBDA t, p : Handle(p, scope, t), s, processors)

\* The override i for each of its layers that is active; then none, or those that follow.
\* Whether an override stops the event makes no difference.
ApplyOverride(s, i) ==
    LET o == build.overrides[i]
        active == SetToSeq(o.layers \cap layers)
        Once(t, layer) ==
            IF t.done \/ t.result = "error" THEN t
            ELSE LET u == ApplyConfig(o.processors, i, [t EXCEPT !.result = "continue"])
                 IN  IF u.result = "error" THEN u ELSE [u EXCEPT !.result = "continue", !.done = ~o.next]
    IN  FoldLeft(Once, s, active)

\* filter_with_input_config: events of the other devices have no processors.
Filter(e) ==
    LET start == [event |-> e, rem |-> rem, result |-> "continue", done |-> FALSE]
        s == FoldLeft(ApplyOverride, start, [i \in DOMAIN build.overrides |-> i])
    IN  IF e.dev # "split" THEN start
        ELSE IF s.done \/ s.result = "error" THEN s
        ELSE ApplyConfig(build.base, 0, s)

\* apply_resolution_scaling: what is left is kept, and the value is not scaled.
ScaleResolution(s) ==
    IF ~build.smooth \/ s.event.type # "rel" \/ s.event.code # "wheel" THEN s
    ELSE LET val == Wrap16(s.event.value + s.rem[Scroll]["wheel"])
             div == 16 - multiplier
         IN  [s EXCEPT !.event.value = val, !.rem[Scroll]["wheel"] = val - Trunc(val, div) * div]

-----------------------------------------------------------------------------
(* The listener.                                                              *)
NoFrame == [x |-> 0, y |-> 0, wheel |-> 0, set |-> {}, clear |-> {}]

\* handle_rel_code and handle_key_code
Gather(frame, e) ==
    CASE e.type = "rel" -> [frame EXCEPT ![e.code] = Wrap16(@ + e.value)]
      [] e.type = "key" /\ e.value > 0 -> [frame EXCEPT !.set = @ \cup {e.code}]
      [] e.type = "key" /\ e.value = 0 -> [frame EXCEPT !.clear = @ \cup {e.code}]

\* zmk_hid_mouse_button_press and zmk_hid_mouse_button_release
Press(c, buttons) == [b \in DOMAIN c |-> IF b \in buttons THEN c[b] + 1 ELSE c[b]]
\* mutant of Release: released too often
Release_TooOften(c, buttons) == [b \in DOMAIN c |-> IF b \in buttons THEN c[b] - 1 ELSE c[b]]
Release(c, buttons) == [b \in DOMAIN c |-> IF b \in buttons /\ c[b] > 0 THEN c[b] - 1 ELSE c[b]]

\* mutant of Complete: releases before presses
Complete_ClearFirst(frame) == Press(Release(counts, frame.clear), frame.set)
\* A frame's presses are counted before its releases.
Complete(frame) == Release(Press(counts, frame.set), frame.clear)
PointerPressed(c) == {b \in DOMAIN c : c[b] > 0}

\* zmk_hog_send_mouse_report: the oldest report makes room.
\* mutant of HogSend: the new one is left out
HogSend_KeepsOld(report) == IF Len(reports) < ReportQueueSize THEN Append(reports, report) ELSE reports
HogSend(report) ==
    Append(IF Len(reports) < ReportQueueSize THEN reports ELSE Tail(reports), report)

\* What becomes of the remote device's buttons, for the properties.
Follow(e, s) ==
    LET to      == IF s.result = "continue" THEN s.event.code ELSE Nowhere
        remote  == e.dev = "split" /\ e.type = "key"
        crossed == remote /\ e.value = 0 /\ went[e.code] # to
        frame   == acc[e.dev]
        merged  == /\ e.type = "key" /\ to # Nowhere
                   /\ s.event.code \in (IF e.value > 0 THEN frame.set ELSE frame.clear)
        full    == Len(reports) = ReportQueueSize /\ s.result = "continue" /\ e.sync
    IN  /\ went' = IF remote /\ e.value > 0 THEN [went EXCEPT ![e.code] = to] ELSE went
        /\ unsure' = unsure \cup (IF crossed THEN {"crossed"} ELSE {}) \cup (IF merged THEN {"merged"} ELSE {})
                           \cup (IF full THEN {"discarded"} ELSE {})

\* input_handler
Deliver(dev, s) ==
    \E frame \in {Gather(acc[dev], s.event)} :
      /\ rem' = s.rem
      /\ \/ ~s.event.sync /\ acc' = [acc EXCEPT ![dev] = frame] /\ UNCHANGED <<counts, reports, sending>>
         \/ /\ s.event.sync /\ acc' = [acc EXCEPT ![dev] = NoFrame] /\ counts' = Complete(frame)
            /\ reports' = HogSend([buttons |-> PointerPressed(counts'), x |-> frame.x, y |-> frame.y, wheel |-> frame.wheel])
            /\ sending' = TRUE
ListenInput ==
    /\ queue # <<>> /\ queue' = Tail(queue)
    /\ \E s \in {Filter(Head(queue))} :
         /\ \/ s.result = "continue" /\ Deliver(Head(queue).dev, ScaleResolution(s))
            \/ s.result # "continue" /\ rem' = s.rem /\ UNCHANGED <<acc, counts, reports, sending>>
         /\ Follow(Head(queue), s)
    /\ UNCHANGED <<build, layers, deviceVars, conn, host, pointer_links, multiplier, moved, inputs, switches>>

-----------------------------------------------------------------------------
(* Bluetooth.                                                                 *)
See(h, r) == [buttons |-> r.buttons, x |-> h.x + r.x, y |-> h.y + r.y, wheel |-> h.wheel + r.wheel, current |-> TRUE]

\* send_mouse_report_callback: without a connection the report is lost, the others wait for the next.
SendMouseReport ==
    /\ sending
    /\ \/ reports = <<>> /\ sending' = FALSE /\ UNCHANGED <<reports, host, unsure>>
       \/ /\ reports # <<>> /\ conn /\ reports' = Tail(reports)
          /\ host' = See(host, Head(reports)) /\ UNCHANGED <<sending, unsure>>
       \/ /\ reports # <<>> /\ ~conn /\ reports' = Tail(reports) /\ sending' = FALSE
          /\ host' = [host EXCEPT !.current = FALSE] /\ unsure' = unsure \cup {"discarded"}
    /\ UNCHANGED <<build, layers, queue, acc, rem, counts, conn, pointer_links, deviceVars, multiplier, went, moved,
                   inputs, switches>>

\* The host is gone, and comes back without any button down.
Link ==
    /\ "host" \in build.devices /\ pointer_links < MaxPointerLinks /\ pointer_links' = pointer_links + 1 /\ conn' = ~conn
    /\ host' = [host EXCEPT !.buttons = {}, !.current = FALSE]
    /\ UNCHANGED <<build, layers, queue, acc, rem, counts, reports, sending, deviceVars, multiplier, went, moved,
                   unsure, inputs, switches>>

\* zmk_pointing_resolution_multipliers_process_report, or another endpoint is selected.
SetMultiplier ==
    /\ build.smooth /\ pointer_links < MaxPointerLinks /\ pointer_links' = pointer_links + 1
    /\ \E m \in {0, 15} : m # multiplier /\ multiplier' = m
    /\ UNCHANGED <<build, layers, queue, acc, rem, counts, reports, sending, conn, host, deviceVars, went, moved,
                   unsure, inputs, switches>>

-----------------------------------------------------------------------------
(* The keys that are mouse buttons.                                           *)
Spend == inputs < build.inputs /\ inputs' = inputs + 1
KeyEvents(k, value) ==
    LET buttons == SetToSeq(KeyButtons[k])
    IN  [i \in DOMAIN buttons |-> Key("keys", buttons[i], value, i = Len(buttons))]
KeyPress(k) ==
    /\ Spend /\ k \notin mouse_down /\ mouse_down' = mouse_down \cup {k} /\ PointerReport(KeyEvents(k, 1))
    /\ UNCHANGED <<build, layers, acc, rem, counts, hogVars, arrows, speed, frac, ticking, pressed, tracked,
                   multiplier, went, moved, switches>>
KeyRelease(k) ==
    /\ k \in mouse_down /\ mouse_down' = mouse_down \ {k} /\ PointerReport(KeyEvents(k, 0))
    /\ UNCHANGED <<build, layers, acc, rem, counts, hogVars, arrows, speed, frac, ticking, pressed, tracked,
                   multiplier, went, moved, inputs, switches>>

(* The keys that move the pointer.                                            *)
Moving(s) == s.x # 0 \/ s.y # 0
\* behavior_input_two_axis_adjust_speed with update_work_scheduling
\* mutant of AdjustSpeed: the work goes on
AdjustSpeed_Goes(dx, dy) ==
    /\ speed' = [x |-> Wrap16(speed.x + dx), y |-> Wrap16(speed.y + dy)]
    /\ ticking' = (ticking \/ Moving(speed'))
    /\ frac' = IF Moving(speed') THEN frac ELSE [x |-> 0, y |-> 0]
AdjustSpeed(dx, dy) ==
    /\ speed' = [x |-> Wrap16(speed.x + dx), y |-> Wrap16(speed.y + dy)]
    /\ ticking' = Moving(speed')
    /\ frac' = IF Moving(speed') THEN frac ELSE [x |-> 0, y |-> 0]
ArrowPress(k) ==
    /\ Spend /\ k \notin arrows /\ arrows' = arrows \cup {k} /\ AdjustSpeed(ArrowSpeed[k].x, ArrowSpeed[k].y)
    /\ UNCHANGED <<build, layers, queue, acc, rem, counts, hogVars, mouse_down, pressed, tracked, multiplier, went,
                   moved, unsure, switches>>
ArrowRelease(k) ==
    /\ k \in arrows /\ arrows' = arrows \ {k} /\ AdjustSpeed(-ArrowSpeed[k].x, -ArrowSpeed[k].y)
    /\ UNCHANGED <<build, layers, queue, acc, rem, counts, hogVars, mouse_down, pressed, tracked, multiplier, went,
                   moved, unsure, inputs, switches>>

\* speed(): nothing until the delay is over, then more and more of it.
Accelerated(s) == {0, Trunc(s, 2), s}
\* track_remainder: what is moved, and what is left
TrackRemainder(move, left) ==
    LET whole == Trunc(move + left, Unit) IN [move |-> whole, left |-> move + left - whole * Unit]
\* update_movement_1d
UpdateMovement(s, left) ==
    IF s = 0 THEN {[move |-> 0, left |-> 0]} ELSE {TrackRemainder(a, left) : a \in Accelerated(s)}
\* tick_work_cb
TickArrows ==
          /\ ticking /\ Spend
          /\ \E mx \in UpdateMovement(speed.x, frac.x), my \in UpdateMovement(speed.y, frac.y) :
               /\ PointerReport((IF mx.move # 0 THEN <<Rel("arrows", "x", mx.move, my.move = 0)>> ELSE <<>>)
                                \o (IF my.move # 0 THEN <<Rel("arrows", "y", my.move, TRUE)>> ELSE <<>>))
               /\ frac' = [x |-> mx.left, y |-> my.left]
          /\ ticking' = Moving(speed)
          /\ UNCHANGED <<build, layers, acc, rem, counts, hogVars, mouse_down, arrows, speed, pressed, tracked, multiplier,
                         went, moved, switches>>

-----------------------------------------------------------------------------
(* The device on the peripheral.                                              *)
\* replace_active_key: where find is first, or nowhere.
ReplaceActiveKey(find, replace) ==
    IF \E k \in DOMAIN tracked : tracked[k] = find
    THEN [tracked EXCEPT ![CHOOSE k \in DOMAIN tracked :
                             tracked[k] = find /\ \A j \in 1 .. k - 1 : tracked[j] # find] = replace]
    ELSE tracked

\* split_input_handler, then zmk_input_split_report_peripheral_event on the central
SplitEvent(e) ==
    LET s == ApplyConfig(build.remote, "remote", [event |-> e, rem |-> rem, result |-> "continue"])
    IN  IF s.result # "continue" THEN UNCHANGED <<tracked, queue, unsure, moved>>
        ELSE /\ PointerReport(<<s.event>>)
             /\ IF e.type = "rel"
                THEN /\ moved' = IF queue' = queue THEN moved
                                 ELSE [moved EXCEPT ![s.event.code] = @ + s.event.value]
                     /\ tracked' = tracked
                ELSE /\ tracked' = IF e.value > 0 THEN ReplaceActiveKey(Nowhere, s.event.code)
                                   ELSE ReplaceActiveKey(s.event.code, Nowhere)
                     /\ moved' = moved
SplitKey(b, sync) ==
    /\ Spend /\ "split" \in build.devices /\ b \in build.buttons
    /\ pressed' = IF b \in pressed THEN pressed \ {b} ELSE pressed \cup {b}
    /\ SplitEvent(Key("split", b, IF b \in pressed THEN 0 ELSE 1, sync))
    /\ UNCHANGED <<build, layers, acc, rem, counts, hogVars, mouse_down, arrows, speed, frac, ticking, multiplier, went,
                   switches>>
SplitMove(code, v, sync) ==
    /\ Spend /\ "split" \in build.devices /\ code \in build.codes /\ SplitEvent(Rel("split", code, v, sync))
    /\ UNCHANGED <<build, layers, acc, rem, counts, hogVars, mouse_down, arrows, speed, frac, ticking, pressed,
                   multiplier, went, switches>>

\* zmk_input_split_peripheral_disconnected: what is tracked is released, as one frame.
Disconnected ==
    /\ Spend /\ "split" \in build.devices
    /\ LET keys     == SelectSeq(tracked, LAMBDA k : k # Nowhere)
           releases == [i \in DOMAIN keys |-> Key("split", keys[i], 0, i = Len(keys))]
           room     == QueueSize - Len(queue)
           fits     == Len(keys) <= room
       IN  /\ queue' = queue \o (IF fits THEN releases ELSE SubSeq(releases, 1, room))
           /\ unsure' = unsure \cup (IF fits THEN {} ELSE {"dropped"})
                               \cup (IF pressed \subseteq ToSet(keys) THEN {} ELSE {"untracked"})
    /\ tracked' = [k \in DOMAIN tracked |-> Nowhere] /\ pressed' = {}
    /\ UNCHANGED <<build, layers, acc, rem, counts, hogVars, mouse_down, arrows, speed, frac, ticking, multiplier, went,
                   moved, switches>>

\* The keymap's layers change.
LayerChange(l) ==
    /\ switches < MaxLayers /\ switches' = switches + 1
    /\ layers' = IF l \in layers THEN layers \ {l} ELSE layers \cup {l}
    /\ UNCHANGED <<build, queue, acc, rem, counts, hogVars, deviceVars, multiplier, went, moved, unsure, inputs>>

-----------------------------------------------------------------------------
PointingInit ==
    /\ build \in Builds
    /\ layers = {} /\ queue = <<>> /\ acc = [d \in Devices |-> NoFrame]
    /\ rem = [i \in Scroll .. Len(build.overrides) |-> [c \in Codes |-> 0]]
    /\ counts = [b \in Buttons |-> 0] /\ reports = <<>> /\ sending = FALSE /\ conn = TRUE
    /\ host = [buttons |-> {}, x |-> 0, y |-> 0, wheel |-> 0, current |-> TRUE]
    /\ mouse_down = {} /\ arrows = {} /\ speed = [x |-> 0, y |-> 0] /\ frac = [x |-> 0, y |-> 0] /\ ticking = FALSE
    /\ pressed = {} /\ tracked = [k \in 1 .. build.tracked |-> Nowhere]
    /\ multiplier = 15 /\ went = [b \in Buttons |-> Nowhere] /\ moved = [c \in Codes |-> 0]
    /\ unsure = {} /\ inputs = 0 /\ switches = 0 /\ pointer_links = 0

PointingNext ==
    \/ ListenInput \/ SendMouseReport \/ Link \/ SetMultiplier \/ TickArrows \/ Disconnected
    \/ "keys" \in build.devices /\ \E k \in MouseKeys : KeyPress(k) \/ KeyRelease(k)
    \/ "arrows" \in build.devices /\ \E k \in Arrows : ArrowPress(k) \/ ArrowRelease(k)
    \/ \E b \in Buttons, sync \in BOOLEAN : SplitKey(b, sync)
    \/ \E c \in Codes, v \in Rates, sync \in BOOLEAN : SplitMove(c, v, sync)
    \/ \E o \in DOMAIN build.overrides : \E l \in build.overrides[o].layers : LayerChange(l)
PointingSpec == PointingInit /\ [][PointingNext]_pointing_vars

-----------------------------------------------------------------------------
(* Nothing is released more often than it was pressed, however many presses were
   dropped on their way, and speeds are sums of what the arrows add. *)
PointingTypeOK ==
    /\ \A b \in Buttons : counts[b] \in 0 .. Cardinality(MouseKeys) + 2
    /\ Len(queue) <= QueueSize /\ Len(reports) <= ReportQueueSize
    /\ \A a \in {"x", "y"} : frac[a] \in -(Unit - 1) .. Unit - 1

(* Once the input thread has caught up and no frame is open, a button is down as
   often as it is held on a key or on the device of the peripheral, which has released
   its buttons if it is gone.  Except when the queue was too short, the device had
   more buttons down than are tracked, the layers' processors changed what a button
   is while it was down, or a frame has one button twice: it is counted once. *)
ButtonsFollow ==
    (/\ queue = <<>> /\ unsure \cap {"dropped", "untracked", "crossed", "merged"} = {}
     /\ \A d \in Devices : acc[d].set = {} /\ acc[d].clear = {}) =>
    \A b \in Buttons : counts[b] = Cardinality({k \in mouse_down : b \in KeyButtons[k]})
                                   + Cardinality({p \in pressed : went[p] = b})

(* The pointer moves while, and as, arrows are down: what opposite ones cancel out
   is no movement, and no part of an old movement is left for a new one. *)
ArrowsFollow ==
    /\ speed = [a \in {"x", "y"} |-> MapThenSumSet(LAMBDA k : ArrowSpeed[k][a], arrows)]
    /\ ticking = Moving(speed)
    /\ ~ticking => frac = [x |-> 0, y |-> 0]

(* A host that is connected and has seen the last report sees the buttons that are
   down, although old reports were thrown away to make room. *)
HostFollows == reports = <<>> /\ conn /\ host.current => host.buttons = PointerPressed(counts)

(* With one scaler that tracks remainders, no movement is lost to rounding: what the
   host has seen, what is on its way and what is left add up to the scaled movement. *)
InReports(c) == FoldLeft(LAMBDA n, r : n + r[c], 0, reports)
InQueue(c) == FoldLeft(LAMBDA n, e : IF e.type = "rel" /\ e.code = c THEN n + e.value ELSE n, 0, queue)
MotionConserved ==
    (build.overrides = <<>> /\ build.devices = {"split"} /\ "discarded" \notin unsure) =>
    \A p \in {p \in ToSet(build.base) : p.kind = "scaler" /\ p.track /\ Len(build.base) = 1} :
      \A c \in p.codes : p.div * (host[c] + InReports(c) + acc["split"][c]) + rem[0][c]
                         = p.mul * (moved[c] - InQueue(c))

(* The host's buttons and the ticking of the arrows are those that are held. *)
PointerFollows == PointingTypeOK /\ ButtonsFollow /\ ArrowsFollow /\ HostFollows
=============================================================================

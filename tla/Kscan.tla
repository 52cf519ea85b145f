------------------------------- MODULE Kscan -------------------------------
(***************************************************************************)
(* From the switches to position events: the scanning drivers              *)
(* (kscan_gpio_matrix, _direct, _charlieplex with the debouncer; _demux    *)
(* without), the composite and the sideband driver that wrap them, input   *)
(* devices, the physical layouts that enable one of them at a time, their  *)
(* event queue and the matrix transform.                                   *)
(*                                                                         *)
(* A driver reads all its switches in one step on the system work queue,   *)
(* after an interrupt or a delay; time is counted in scans.  A layout is   *)
(* selected on the RPC thread in two steps, so that the work queue may run *)
(* between switching off and switching on.                                 *)
(***************************************************************************)
EXTENDS Integers, Sequences, Functions

CONSTANTS
    Matrix, Direct, Charlieplex, Demux,   \* the drivers of each kind
    Wired,        \* [Drivers -> sequence of switches, in the order they are read]
    Input, InputKeys,      \* an input device and its keys
    Composite, Sideband,   \* names of the wrapping drivers
    Children,     \* [{Composite, Sideband} -> sequence of drivers]
    SideKeys,     \* switches with a binding in the sideband driver
    Layouts,      \* physical layouts, 0 is the default
    KscanOf,      \* [Layouts -> Drivers or one of the wrapping drivers]
    Transform,    \* [Layouts -> [switches -> positions, or -1]]
    TooLarge,     \* layouts that have more keys than the keymap
    QueueSize,    \* CONFIG_ZMK_KSCAN_EVENT_QUEUE_SIZE
    Thresholds,   \* the values of debounce-press-ms and debounce-release-ms, in scans
    MaxToggles, MaxTrouble    \* bounds, the second of selections and failed reads together

Debounced == Matrix \union Direct \union Charlieplex
Drivers == Debounced \union Demux
Greater(x, y) == IF x < y THEN y ELSE x
SwitchesOf == [d \in Drivers |-> Range(Wired[d])]
Switches == InputKeys \union UNION {SwitchesOf[d] : d \in Drivers}
Names == Drivers \union {Composite, Sideband}
DriversUnder(x) ==
    CASE x = Input -> <<>>
      [] x \in {Composite, Sideband} -> Children[x]
      [] OTHER -> <<x>>
Under(l, k) ==
    IF k \in InputKeys THEN KscanOf[l] = Input
    ELSE \E d \in Range(DriversUnder(KscanOf[l])) : k \in SwitchesOf[d]

ASSUME KscanAssumption ==
    /\ Matrix \intersect (Direct \union Charlieplex \union Demux) = {}
    /\ Direct \intersect (Charlieplex \union Demux) = {} /\ Charlieplex \intersect Demux = {}
    /\ {Input, Composite, Sideband} \intersect Drivers = {}
    /\ Input # Composite /\ Input # Sideband /\ Composite # Sideband
    \* a switch is wired to one driver, and once
    /\ Wired \in [Drivers -> Seq(Switches)] /\ \A d \in Drivers : IsInjective(Wired[d])
    /\ \A d, e \in Drivers : d # e => SwitchesOf[d] \intersect SwitchesOf[e] = {}
    /\ \A d \in Drivers : SwitchesOf[d] \intersect InputKeys = {}
    \* the sideband driver wraps one driver, the composite different ones
    /\ Children \in [{Composite, Sideband} -> Seq(Drivers)]
    /\ IsInjective(Children[Composite]) /\ Len(Children[Sideband]) = 1
    /\ 0 \in Layouts /\ Layouts \subseteq Nat
    /\ KscanOf \in [Layouts -> Drivers \union {Input, Composite, Sideband}]
    \* a position is made for one row and column
    /\ Transform \in [Layouts -> [Switches -> Nat \union {-1}]]
    /\ \A l \in Layouts : \A j, k \in {x \in Switches : Under(l, x)} :
         Transform[l][j] = Transform[l][k] /\ Transform[l][k] # -1 => j = k
    /\ QueueSize \in Nat /\ Thresholds \subseteq Nat \X Nat

VARIABLES s, closed, toggles, selects, errors
kscan_vars == <<s, closed, toggles, selects, errors>>

-----------------------------------------------------------------------------
(* debounce.c: the state of a switch after one scan.  age is the number of  *)
(* scans since the state last flipped, for the properties only.             *)
Open == [pressed |-> FALSE, counter |-> 0, changed |-> FALSE, age |-> 0]
\* The age stops at the longer of the two times.
Aged(key, press, release) ==
    [key EXCEPT !.changed = FALSE, !.age = IF @ < Greater(press, release) THEN @ + 1 ELSE @]

Flip(key) == [pressed |-> ~key.pressed, counter |-> 0, changed |-> TRUE, age |-> 0]

\* mutant of Debounce: the counter goes on from where it was
Debounce_NoReset(key, active, press, release) ==
    LET aged == Aged(key, press, release)
    IN  IF active = key.pressed THEN aged
        ELSE IF key.counter < (IF key.pressed THEN release ELSE press)
             THEN [aged EXCEPT !.counter = @ + 1]
             ELSE [Flip(key) EXCEPT !.counter = key.counter]

Debounce(key, active, press, release) ==
    LET aged == Aged(key, press, release)
    IN  IF active = key.pressed
        THEN [aged EXCEPT !.counter = IF @ = 0 THEN 0 ELSE @ - 1]
        ELSE IF key.counter < (IF key.pressed THEN release ELSE press)
             THEN [aged EXCEPT !.counter = @ + 1]
             ELSE Flip(key)

Undebounced(key, active) ==
    IF active = key.pressed THEN [key EXCEPT !.changed = FALSE] ELSE Flip(key)

IsActive(key) == key.pressed \/ key.counter > 0

-----------------------------------------------------------------------------
(* Events: from the driver through what it is configured to call, to the    *)
(* queue of the physical layouts.                                           *)
Enqueue(st, x, k) ==
    IF x # KscanOf[st.active] THEN [st EXCEPT !.moved = TRUE]
    ELSE IF Len(st.queue) < QueueSize
    THEN [st EXCEPT !.queue = Append(@, <<k, st.key[k].pressed>>), !.moved = @ \/ st.next # -1]
    ELSE [st EXCEPT !.dropped = TRUE, !.moved = @ \/ st.next # -1]

\* ksbb_inner_kscan_callback: the binding of the switch, then the outer callback
SideCallback(st, k) ==
    LET s1 == [st EXCEPT !.side = IF k \notin SideKeys THEN @
                                  ELSE IF st.key[k].pressed THEN @ \union {k} ELSE @ \ {k}]
    IN  IF s1.sideOn /\ s1.cb[Sideband] # "none" THEN Enqueue(s1, Sideband, k)
        ELSE [s1 EXCEPT !.moved = TRUE]

\* The switch k of the driver d has changed.
Deliver(st, d, k) ==
    CASE st.cb[d] = "none" -> [st EXCEPT !.crashed = TRUE]
      [] st.cb[d] = "layout" -> Enqueue(st, d, k)
      [] st.cb[d] = "composite" ->
             IF st.cb[Composite] = "none" THEN [st EXCEPT !.crashed = TRUE]
             ELSE Enqueue(st, Composite, k)
      [] st.cb[d] = "side" -> SideCallback(st, k)

\* Those of the first n switches of d that have changed, one after the other.
ReportSwitch(st, d, n) ==
    LET told[i \in 0..n] ==
            IF i = 0 THEN st
            ELSE LET prev == told[i - 1]
                 IN  IF st.key[Wired[d][i]].changed THEN Deliver(prev, d, Wired[d][i]) ELSE prev
    IN  told[n]

Debounced1(st, K) ==
    [st EXCEPT !.key = [k \in Switches |-> IF k \in K THEN Debounce(st.key[k], k \in closed, st.press, st.release)
                                           ELSE st.key[k]]]
Undebounced1(st, K) ==
    [st EXCEPT !.key = [k \in Switches |-> IF k \in K THEN Undebounced(st.key[k], k \in closed) ELSE st.key[k]]]

\* All read every switch and report what has changed, the charlieplex driver as
\* it reads.
MatrixRead(st, d) == ReportSwitch(Debounced1(st, SwitchesOf[d]), d, Len(Wired[d]))
DirectRead(st, d) == ReportSwitch(Debounced1(st, SwitchesOf[d]), d, Len(Wired[d]))
CharlieplexRead(st, d, n) == ReportSwitch(Debounced1(st, {Wired[d][i] : i \in 1..n}), d, n)
DemuxRead(st, d) == ReportSwitch(Undebounced1(st, SwitchesOf[d]), d, Len(Wired[d]))

\* A driver scans on while a switch is active; then it waits for an interrupt,
\* or for the next poll.  The demux polls by a timer, and reads once more, or
\* as long as a switch is down, when that is stopped.
Down(st, d) == \E k \in SwitchesOf[d] : IsActive(st.key[k])

\* mutant of MatrixEnd: back to the interrupt although a switch is active
MatrixEnd_Irq(st, d) == [st EXCEPT !.mode[d] = IF st.irq THEN "irq" ELSE "scheduled"]

MatrixEnd(st, d) == [st EXCEPT !.mode[d] = IF st.irq /\ ~Down(st, d) THEN "irq" ELSE "scheduled"]
DirectEnd(st, d) == [st EXCEPT !.mode[d] = IF st.irq /\ ~Down(st, d) THEN "irq" ELSE "scheduled"]
CharlieplexEnd(st, d) == [st EXCEPT !.mode[d] = IF st.irqPin /\ ~Down(st, d) THEN "irq" ELSE "scheduled"]
DemuxEnd(st, d) == [st EXCEPT !.mode[d] = IF st.timer[d] \/ Down(st, d) THEN "scheduled" ELSE "off"]

Read(st, d) ==
    CASE d \in Matrix -> MatrixEnd(MatrixRead(st, d), d)
      [] d \in Direct -> DirectEnd(DirectRead(st, d), d)
      [] d \in Charlieplex -> CharlieplexEnd(CharlieplexRead(st, d, Len(Wired[d])), d)
      [] d \in Demux -> DemuxEnd(DemuxRead(st, d), d)

-----------------------------------------------------------------------------
(* Power and callbacks.  Built with power management a driver starts        *)
(* suspended, and resuming it enables it, which reads; it is then enabled   *)
(* again.  A device that is resumed already is left alone.  The demux has   *)
(* no power management; enabling it starts its timer.                       *)
MatrixResume(st, d) == IF st.on[d] THEN st ELSE Read([st EXCEPT !.on[d] = TRUE], d)
DirectResume(st, d) == IF st.on[d] THEN st ELSE Read([st EXCEPT !.on[d] = TRUE], d)
CharlieplexResume(st, d) == IF st.on[d] THEN st ELSE Read([st EXCEPT !.on[d] = TRUE], d)
Resume(st, d) ==
    CASE d \in Matrix -> MatrixResume(st, d)
      [] d \in Direct -> DirectResume(st, d)
      [] d \in Charlieplex -> CharlieplexResume(st, d)
      [] d \in Demux -> st

DemuxEnable(st, d) == [st EXCEPT !.timer[d] = TRUE, !.mode[d] = "scheduled"]
DemuxDisable(st, d) == [st EXCEPT !.timer[d] = FALSE]
Enable(st, d) == IF d \in Demux THEN DemuxEnable(st, d) ELSE Read(st, d)

\* Disabled, and suspended.
MatrixOff(st, d) == [st EXCEPT !.mode[d] = "off", !.on[d] = ~st.pm]
DirectOff(st, d) == [st EXCEPT !.mode[d] = "off", !.on[d] = ~st.pm]
CharlieplexOff(st, d) == [st EXCEPT !.mode[d] = "off", !.on[d] = ~st.pm]
Disable(st, d) ==
    CASE d \in Matrix -> MatrixOff(st, d)
      [] d \in Direct -> DirectOff(st, d)
      [] d \in Charlieplex -> CharlieplexOff(st, d)
      [] d \in Demux -> DemuxDisable(st, d)

\* Is it running after kscan_matrix_init, kscan_direct_init, kscan_charlieplex_init?
MatrixInit(pm) == ~pm
DirectInit(pm) == ~pm
CharlieplexInit(pm) == ~pm

\* One driver after the other.
InTurn(op, st, ds) ==
    LET after[i \in 0..Len(ds)] ==
            IF i = 0 THEN st
            ELSE LET prev == after[i - 1]
                 IN  IF op = "on" THEN Enable(Resume(prev, ds[i]), ds[i]) ELSE Disable(prev, ds[i])
    IN  after[Len(ds)]
ResumeAndEnable(st, ds) == InTurn("on", st, ds)
Configure(st, x, ds, to) ==
    [st EXCEPT !.cb = [y \in Names |-> IF y = x THEN "layout" ELSE IF y \in Range(ds) THEN to ELSE st.cb[y]]]

\* mutant of CompositeOn: the callbacks are set last
CompositeOn_Late(st) ==
    LET resumed == IF st.pm THEN ResumeAndEnable(st, Children[Composite]) ELSE st
    IN  Configure(ResumeAndEnable(resumed, Children[Composite]), Composite, Children[Composite], "composite")

\* Enabling the kscan of a layout: resume, set the callback, enable.
CompositeOn(st) ==
    LET resumed == IF st.pm THEN ResumeAndEnable(st, Children[Composite]) ELSE st
    IN  ResumeAndEnable(Configure(resumed, Composite, Children[Composite], "composite"), Children[Composite])

Inner == Children[Sideband][1]
SidebandEnable(st) == Enable([Resume([st EXCEPT !.sideOn = TRUE], Inner) EXCEPT !.cb[Inner] = "side"], Inner)

SidebandOn(st) ==
    SidebandEnable([IF st.pm THEN SidebandEnable(st) ELSE st EXCEPT !.cb[Sideband] = "layout"])

SwitchOn(st) ==
    LET x == KscanOf[st.active]
    IN  CASE x = Composite -> CompositeOn(st)
          [] x = Sideband -> SidebandOn(st)
          [] x = Input -> st
          [] OTHER -> Enable([Resume(st, x) EXCEPT !.cb[x] = "layout"], x)

CompositeOff(st) == InTurn("off", st, Children[Composite])
SidebandOff(st) == Disable([st EXCEPT !.sideOn = FALSE], Inner)

\* mutant of SwitchOff: only the first of the wrapped drivers is switched off
SwitchOff_First(st) ==
    LET x == KscanOf[st.active]
    IN  IF x = Input THEN st ELSE [Disable(st, Head(DriversUnder(x))) EXCEPT !.sideOn = @ /\ x # Sideband]

SwitchOff(st) ==
    LET x == KscanOf[st.active]
    IN  CASE x = Composite -> CompositeOff(st)
          [] x = Sideband -> SidebandOff(st)
          [] x = Input -> st
          [] OTHER -> Disable(st, x)

-----------------------------------------------------------------------------
Boot(irq, pm, pin, t) ==
    SwitchOn([active |-> 0, next |-> -1, queue |-> <<>>, positions |-> {}, side |-> {},
              key |-> [k \in Switches |-> Open], mode |-> [d \in Drivers |-> "off"],
              on |-> [d \in Debounced |-> IF d \in Matrix THEN MatrixInit(pm)
                                     ELSE IF d \in Direct THEN DirectInit(pm) ELSE CharlieplexInit(pm)],
              timer |-> [d \in Demux |-> FALSE], cb |-> [x \in Names |-> "none"],
              sideOn |-> FALSE, irq |-> irq, irqPin |-> pin, pm |-> pm, press |-> t[1], release |-> t[2],
              crashed |-> FALSE, dropped |-> FALSE, moved |-> FALSE, failed |-> FALSE])

KscanInit ==
    /\ closed \in {{}} \union {{k} : k \in Switches}      \* a key may be held at boot
    /\ \E irq, pm \in BOOLEAN, t \in Thresholds :
         /\ irq \/ pm
         /\ s = Boot(irq, pm, irq, t)
    /\ toggles = 0 /\ selects = 0 /\ errors = 0

Toggle ==
    /\ toggles < MaxToggles /\ ~s.crashed
    /\ \E k \in Switches : closed' = IF k \in closed THEN closed \ {k} ELSE closed \union {k}
    /\ toggles' = toggles + 1
    /\ UNCHANGED <<s, selects, errors>>

\* The level interrupt of a driver that waits for one.
Triggered(d) ==
    /\ ~s.crashed /\ s.mode[d] = "irq" /\ SwitchesOf[d] \intersect closed # {}
    /\ s' = [s EXCEPT !.mode[d] = "scheduled"]
    /\ UNCHANGED <<closed, toggles, selects, errors>>
MatrixInterrupt == \E d \in Matrix : Triggered(d)
DirectInterrupt == \E d \in Direct : Triggered(d)
CharlieplexInterrupt == \E d \in Charlieplex : Triggered(d)

\* The work of a driver, after the interrupt or the delay.
Scan(d) ==
    /\ ~s.crashed /\ s.mode[d] = "scheduled"
    /\ s' = Read(s, d)
    /\ UNCHANGED <<closed, toggles, selects, errors>>

\* A port that cannot be read, or an output that cannot be set, ends the scan:
\* nothing is scheduled, and the interrupts stay off.  The matrix and the
\* direct driver then have reported nothing.
ScanFails(d) ==
    /\ ~s.crashed /\ selects + errors < MaxTrouble /\ s.mode[d] = "scheduled" /\ d \in Debounced
    /\ \E partly \in {s} \union {CharlieplexRead(s, d, n) : n \in IF d \in Charlieplex THEN 0..Len(Wired[d]) ELSE {}} :
         s' = [partly EXCEPT !.mode[d] = "off", !.failed = TRUE]
    /\ errors' = errors + 1
    /\ UNCHANGED <<closed, toggles, selects>>

\* zmk_physical_layout_input_event_cb, at the sync of an event.
InputEvent ==
    /\ ~s.crashed
    /\ \E k \in InputKeys :
         /\ s.key[k].pressed # (k \in closed)
         /\ s' = Enqueue([s EXCEPT !.key[k] = Flip(@)], Input, k)
    /\ UNCHANGED <<closed, toggles, selects, errors>>

\* mutant of At: a switch without a position is taken for position 0
At_Zero(l, k) == IF Transform[l][k] < 0 THEN 0 ELSE Transform[l][k]

At(l, k) == Transform[l][k]

\* zmk_physical_layouts_kscan_process_msgq takes all that is queued: of a
\* position the last event counts.
About(p) == {n \in DOMAIN s.queue : At(s.active, s.queue[n][1]) = p}
Process ==
    /\ ~s.crashed /\ s.queue # <<>>
    /\ s' = [s EXCEPT !.queue = <<>>,
                      !.positions = {p \in @ : About(p) = {}}
                          \union {p \in {At(s.active, s.queue[n][1]) : n \in DOMAIN s.queue} \ {-1} :
                                    \E n \in About(p) : s.queue[n][2] /\ \A m \in About(p) : m <= n}]
    /\ UNCHANGED <<closed, toggles, selects, errors>>

\* zmk_physical_layouts_select_layout: off, the position map, on.  A layout
\* that does not fit ends it with the keyboard switched off.
SelectOff ==
    /\ ~s.crashed /\ selects + errors < MaxTrouble /\ s.next = -1
    /\ \E l \in Layouts \ {s.active} :
         s' = [SwitchOff(s) EXCEPT !.next = IF l \in TooLarge THEN -1 ELSE l,
                                   !.failed = @ \/ l \in TooLarge,
                                   !.moved = @ \/ s.queue # <<>> \/ \E k \in Switches : IsActive(s.key[k])]
    /\ selects' = selects + 1
    /\ UNCHANGED <<closed, toggles, errors>>

SelectOn ==
    /\ ~s.crashed /\ s.next # -1
    /\ s' = SwitchOn([s EXCEPT !.active = s.next, !.next = -1])
    /\ UNCHANGED <<closed, toggles, selects, errors>>

KscanNext ==
    \/ Toggle \/ Process \/ SelectOff \/ SelectOn \/ InputEvent
    \/ MatrixInterrupt \/ DirectInterrupt \/ CharlieplexInterrupt
    \/ \E d \in Drivers : Scan(d) \/ ScanFails(d)

\* The work queue and the RPC thread run, interrupts fire.  (The first two say
\* what WF_vars(Process) and WF_vars(SelectOn) do: nothing else empties the
\* queue, or ends a selection.)
KscanFairness ==
    /\ []<>(s.crashed \/ s.queue = <<>>) /\ []<>(s.crashed \/ s.next = -1)
    /\ WF_kscan_vars(MatrixInterrupt) /\ WF_kscan_vars(DirectInterrupt) /\ WF_kscan_vars(CharlieplexInterrupt)
    /\ WF_kscan_vars(InputEvent) /\ \A d \in Drivers : WF_kscan_vars(Scan(d))

KscanSpec == KscanInit /\ [][KscanNext]_kscan_vars /\ KscanFairness

-----------------------------------------------------------------------------
(* Types, and what is scanned: while a layout is selected for good, the
   drivers under its kscan are the ones that wait or scan, and no other. *)
KscanTypeOK ==
    /\ \A d \in Drivers : s.mode[d] \in {"off", "irq", "scheduled"}
    /\ \A k \in Switches : s.key[k].counter <= Greater(s.press, s.release)
    /\ Len(s.queue) <= QueueSize /\ s.active \in Layouts
    /\ s.next = -1 /\ ~s.failed =>
         /\ {d \in Debounced : s.mode[d] # "off"} = Range(DriversUnder(KscanOf[s.active])) \intersect Debounced
         /\ {d \in Demux : s.timer[d]} = Range(DriversUnder(KscanOf[s.active])) \ Debounced
         /\ s.pm => {d \in Debounced : s.on[d]} = Range(DriversUnder(KscanOf[s.active])) \intersect Debounced

(* While a layout stays selected a key is reported to change only after at
   least as many scans since its last change as the debounce time of the new
   state.  (Selecting one reads up to three times at once.) *)
NoChatter ==
    [][\A d \in Debounced : \A k \in SwitchesOf[d] : s.next = -1 /\ s'.key[k].pressed # s.key[k].pressed
         => s.key[k].age >= (IF s.key[k].pressed THEN s.release ELSE s.press)]_kscan_vars

(* When the queue is empty the positions that are down are those of the keys
   that the drivers hold for pressed: no event is lost, doubled or reordered
   between the scan and the keymap, as long as the queue was never full, no
   read failed and no layout was selected with a key down. *)
FaultFree == ~s.dropped /\ ~s.failed /\ ~s.moved /\ ~s.crashed
UnderLayout(k) == Under(s.active, k)
PositionsFollow ==
    FaultFree /\ s.queue = <<>> =>
        s.positions = {Transform[s.active][k] : k \in {x \in Switches : UnderLayout(x) /\ s.key[x].pressed}} \ {-1}

(* Once the switches rest, the positions that are down are those of the
   closed switches of the selected layout, and the sideband bindings too. *)
Settled == FaultFree => /\ s.positions = {Transform[s.active][k] : k \in {x \in closed : UnderLayout(x)}} \ {-1}
                        /\ s.side = {k \in closed \intersect SideKeys : KscanOf[s.active] = Sideband}
Settles == <>[]Settled

(* A driver that reports a change has been given a callback, unless it was
   suspended before, a key was down when it was resumed, and the debounce time
   is so short that one of the reads of the resume, which come before
   kscan_config, already takes it for pressed. *)
ReportsToSomebody ==
    s.crashed => s.pm /\ s.press <= (IF KscanOf[s.active] = Composite THEN 1 ELSE 0)

(* What the keymap has been told of the switches, at every step and in the end. *)
PositionsReported == KscanTypeOK /\ PositionsFollow /\ ReportsToSomebody
=============================================================================

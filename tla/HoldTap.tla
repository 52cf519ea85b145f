------------------------------- MODULE HoldTap -------------------------------
(***************************************************************************)
(* The hold-tap behavior (src/app/src/behaviors/behavior_hold_tap.c).      *)
(*                                                                         *)
(* While a hold-tap is undecided, its listener captures the key events     *)
(* that follow, and the modifier codes of keys released meanwhile; once it *)
(* is decided, they are raised again, one by one, from the listener on.    *)
(* An event raised again may be the press of another hold-tap, which then  *)
(* captures the events that are raised after it into the same array, below *)
(* the place the first loop has got to, and may decide and release them    *)
(* from within that loop.  The calls are synchronous and nest; `stack'     *)
(* holds what the calls in progress have yet to do.  All of it runs on the *)
(* system work queue, so keys and timers are served between two such       *)
(* calls.                                                                  *)
(*                                                                         *)
(* Keys are plain keys, modifier keys, or hold-taps whose hold behavior is *)
(* a modifier and whose tap behavior is a plain key (&mt).  What they send *)
(* is counted per symbol in `sent'.                                        *)
(***************************************************************************)
EXTENDS Integers, Sequences, FiniteSets

CONSTANTS
    Positions,    \* key positions
    Keyboards,    \* what they are bound to, one of which is in use
    Nobody,       \* no position: NOT_USED, -1 and INT32_MIN in the code
    MaxHeld,      \* ZMK_BHV_HOLD_TAP_MAX_HELD
    MaxCaptured,  \* ZMK_BHV_HOLD_TAP_MAX_CAPTURED_EVENTS
    MaxNow        \* bound: ticks of the clock

Flavors == {"hold-preferred", "balanced", "tap-preferred", "tap-unless-interrupted"}
Config == [flavor : Flavors, term : Nat, quick : Int, idle : Int,
           undecided_hold : BOOLEAN, linger : BOOLEAN, retro : BOOLEAN,
           trigger_on_release : BOOLEAN, triggers : SUBSET Positions]
\* A keyboard has the configurations of its hold-taps, by position, its modifier keys, and
\* a bound: the presses made on it.  Its other keys are plain.
ASSUME HoldTapAssumption ==
    /\ \A k \in Keyboards :
          /\ DOMAIN k.cfg \subseteq Positions /\ k.cfg \in [DOMAIN k.cfg -> Config]
          /\ k.mods \subseteq Positions \ DOMAIN k.cfg /\ k.presses \in Nat
    /\ Nobody \notin Positions
    /\ MaxHeld \in Nat \ {0} /\ MaxCaptured \in Nat \ {0} /\ MaxNow \in Nat

VARIABLES
    keyboard,   \* the keyboard in use: build-time configuration, never changes
    slots,      \* active_hold_taps
    undecided,  \* undecided_hold_tap: a slot, or 0
    captured,   \* captured_events
    timer,      \* slots whose delayable work is scheduled
    last,       \* last_tapped
    sent,       \* symbol -> presses minus releases that reached the HID listener
    stack,      \* calls in progress, innermost first
    now,        \* k_uptime_get
    down,       \* keys that are physically down
    seen,       \* keys that are down as far as the keymap has been told
    presses     \* presses made so far

vars == <<keyboard, slots, undecided, captured, timer, last, sent, stack, now, down, seen,
          presses>>

Cfg == keyboard.cfg
HoldTaps == DOMAIN Cfg
ModKeys == keyboard.mods
PlainKeys == Positions \ (HoldTaps \cup ModKeys)

Never == -1000                             \* a time long before the start

Statuses == {"undecided", "tap", "interrupt", "timer"}
Slots == 1 .. MaxHeld
Slot == [pos : HoldTaps \cup {Nobody}, ts : 0 .. MaxNow, status : Statuses,
         first : Positions \cup {Nobody}, mods : SUBSET ModKeys]
FreeSlot == [pos |-> Nobody, ts |-> 0, status |-> "undecided", first |-> Nobody, mods |-> {}]

Symbols == (PlainKeys \X {"key"}) \cup (ModKeys \X {"mod"}) \cup (HoldTaps \X {"hold", "tap"})
\* `mods' is history: the modifier keys that were down when the event happened.
Event == [type : {"pos"}, key : Positions, on : BOOLEAN, ts : 0 .. MaxNow, mods : SUBSET ModKeys]
            \cup [type : {"code"}, key : Symbols, on : BOOLEAN, ts : 0 .. MaxNow]
None == [type |-> "none"]                  \* ET_NONE

Conf(i) == Cfg[slots[i].pos]
IsMod(sym) == sym[2] \in {"mod", "hold"}

-----------------------------------------------------------------------------
(***************************************************************************)
(* Codes.  `io' is the part of the state that raising a key code changes:  *)
(* [cap, sent, last].                                                      *)
(***************************************************************************)
IO == [cap |-> captured, sent |-> sent, last |-> last]

\* capture_event; the event is dropped, unnoticed, when the array is full
CaptureIn(cap, ev) ==
    IF \A i \in 1 .. MaxCaptured : cap[i] # None THEN cap
    ELSE [cap EXCEPT ![CHOOSE i \in 1 .. MaxCaptured :
                          cap[i] = None /\ \A j \in 1 .. i - 1 : cap[j] # None] = ev]

\* mutant of Raise: modifier codes are not captured
Raise_NoCapture(io, u, sym, on, ts) ==
    [io EXCEPT !.sent[sym] = IF on THEN @ + 1 ELSE @ - 1]
\* keycode_state_changed_listener, with hold-tap u (or 0) undecided, then hid_listener
Raise(io, u, sym, on, ts) ==
    IF IsMod(sym) /\ u # 0 /\ ~Conf(u).undecided_hold
    THEN [io EXCEPT !.cap = CaptureIn(@, [type |-> "code", key |-> sym, on |-> on, ts |-> ts])]
    ELSE [io EXCEPT !.sent[sym] = IF on THEN @ + 1 ELSE @ - 1,
                    !.last = IF on /\ ~IsMod(sym) /\ ts > @.ts
                             THEN [pos |-> Nobody, ts |-> ts] ELSE @]

PressHold(io, u, s)   == Raise(io, u, <<s.pos, "hold">>, TRUE, s.ts)
ReleaseHold(io, u, s) == Raise(io, u, <<s.pos, "hold">>, FALSE, s.ts)
ReleaseTap(io, u, s)  == Raise(io, u, <<s.pos, "tap">>, FALSE, s.ts)
\* press_tap_binding notes the tap first: store_last_hold_tapped
PressTap(io, u, s) ==
    Raise([io EXCEPT !.last = [pos |-> s.pos, ts |-> s.ts]], u, <<s.pos, "tap">>, TRUE, s.ts)

\* mutant of PressBinding: the hold that hold-while-undecided pressed stays for the tap
PressBinding_HoldStays(io, u, s) ==
    CASE s.status = "tap" -> PressTap(io, u, s)
      [] s.status # "tap" /\ (Cfg[s.pos].undecided_hold \/ (s.status = "timer" /\ Cfg[s.pos].retro))
            -> io
      [] OTHER -> PressHold(io, u, s)
\* press_binding and release_binding of slot contents s
PressBinding(io, u, s) ==
    LET c == Cfg[s.pos]
    IN  CASE s.status = "timer" /\ c.retro -> io
          [] s.status \in {"timer", "interrupt"} /\ ~(s.status = "timer" /\ c.retro) ->
                IF c.undecided_hold THEN io ELSE PressHold(io, u, s)
          [] OTHER ->
                PressTap(IF c.undecided_hold /\ ~c.linger THEN ReleaseHold(io, u, s) ELSE io,
                         u, s)
ReleaseBinding(io, u, s) ==
    CASE s.status = "timer" /\ Cfg[s.pos].retro -> io
      [] s.status \in {"timer", "interrupt"} /\ ~(s.status = "timer" /\ Cfg[s.pos].retro) ->
            ReleaseHold(io, u, s)
      [] OTHER -> ReleaseTap(io, u, s)

SetIO(io) == captured' = io.cap /\ sent' = io.sent /\ last' = io.last

-----------------------------------------------------------------------------
(***************************************************************************)
(* Deciding.                                                               *)
(***************************************************************************)
\* decide_hold_preferred, decide_balanced, decide_tap_preferred and
\* decide_tap_unless_interrupted
Decision(flavor, moment) ==
    CASE moment \in {"key-up", "quick-tap"} -> "tap"
      [] moment = "timer" -> IF flavor = "tap-unless-interrupted" THEN "tap" ELSE "timer"
      [] moment = "other-key-down" /\ flavor \in {"hold-preferred", "tap-unless-interrupted"}
            -> "interrupt"
      [] moment = "other-key-up" /\ flavor = "balanced" -> "interrupt"
      [] OTHER -> "undecided"

\* decide_positional_hold: hold only if the first other key is a trigger key
Positional(s, status) ==
    IF /\ Cfg[s.pos].triggers # {}
       /\ s.first # Nobody
       /\ s.first \notin Cfg[s.pos].triggers
    THEN "tap" ELSE status

\* The end of decide_hold_tap: the binding is pressed and the captured events are
\* released (release_captured_events); the calls in `rest' follow.
\* mutant of Decided: undecided_hold_tap is not reset
Decided_StaysUndecided(i, s, io, rest) ==
    /\ slots' = [slots EXCEPT ![i] = s]
    /\ SetIO(PressBinding(io, 0, s))
    /\ stack' = <<[call |-> "release_captured", at |-> 1]>> \o rest
    /\ UNCHANGED undecided
Decided(i, s, io, rest) ==
    /\ slots' = [slots EXCEPT ![i] = s]
    /\ undecided' = 0
    /\ SetIO(PressBinding(io, 0, s))
    /\ stack' = <<[call |-> "release_captured", at |-> 1]>> \o rest

\* decide_hold_tap for slot i, holding s, at a moment other than its press.
Decide(i, s, moment, io, rest) ==
    LET status == Decision(Cfg[s.pos].flavor, moment)
    IN  IF s.status # "undecided" \/ i # undecided \/ status = "undecided"
        THEN /\ slots' = [slots EXCEPT ![i] = s]
             /\ stack' = rest
             /\ SetIO(io)
             /\ UNCHANGED undecided
        ELSE Decided(i, [s EXCEPT !.status = Positional(s, status)], io, rest)

\* mutant of Late: what was queued too long is not noticed
Late_Never(ts, s) == FALSE
Late(ts, s) == ts > s.ts + Cfg[s.pos].term

-----------------------------------------------------------------------------
(***************************************************************************)
(* The keymap: what a key is bound to.  Rest is the stack below the event. *)
(***************************************************************************)
KeyEvent(ev, rest) ==
    /\ ev.key \in PlainKeys \cup ModKeys
    /\ SetIO(Raise(IO, undecided,
                   <<ev.key, IF ev.key \in ModKeys THEN "mod" ELSE "key">>, ev.on, ev.ts))
    /\ stack' = rest
    /\ UNCHANGED <<slots, undecided, timer>>

FindHoldTap(p) == {i \in Slots : slots[i].pos = p /\ \A j \in 1 .. i - 1 : slots[j].pos # p}

IsQuickTap(p, ts) ==
    \/ last.ts + Cfg[p].idle > ts
    \/ last.pos = p /\ last.ts + Cfg[p].quick > ts

\* on_hold_tap_binding_pressed
HoldTapPressed(ev, rest) ==
    LET free == FindHoldTap(Nobody)
        s == [pos |-> ev.key, ts |-> ev.ts, status |-> "undecided", first |-> Nobody,
              mods |-> ev.mods]
        hold == Cfg[ev.key].undecided_hold
        quick == IsQuickTap(ev.key, ev.ts)
        decided == [s EXCEPT !.status = "tap"]
    IN  /\ ev.key \in HoldTaps /\ ev.on
        /\ IF undecided # 0 \/ free = {}
           THEN /\ stack' = rest
                /\ UNCHANGED <<slots, undecided, captured, timer, last, sent>>
           ELSE \E i \in free :
                /\ slots' = [slots EXCEPT ![i] = IF quick THEN decided ELSE s]
                /\ undecided' = IF quick THEN 0 ELSE i
                /\ SetIO(CASE quick -> PressBinding(IO, 0, decided)
                           [] ~quick /\ hold ->
                                 [IO EXCEPT !.sent[<<ev.key, "hold">>] = @ + 1]
                           [] OTHER -> IO)
                /\ IF quick
                   THEN /\ stack' = <<[call |-> "release_captured", at |-> 1],
                                      [call |-> "schedule", slot |-> i]>> \o rest
                        /\ UNCHANGED timer
                   ELSE stack' = rest /\ timer' = timer \cup {i}

\* on_hold_tap_binding_released, up to the decisions it makes
HoldTapReleased(ev, rest) ==
    /\ ev.key \in HoldTaps /\ ~ev.on
    /\ IF FindHoldTap(ev.key) = {}
       THEN stack' = rest /\ UNCHANGED <<slots, undecided, captured, timer, last, sent>>
       ELSE \E i \in FindHoldTap(ev.key) :
            /\ timer' = timer \ {i}
            /\ Decide(i, slots[i], IF Late(ev.ts, slots[i]) THEN "timer" ELSE "key-up",
                      IO, <<[call |-> "finish", slot |-> i]>> \o rest)

\* the rest of on_hold_tap_binding_released: decide_retro_tap, release_binding,
\* the lingering hold, clear_hold_tap
Finish(i) ==
    LET retro == Conf(i).retro /\ slots[i].status = "timer"
        s == IF retro THEN [slots[i] EXCEPT !.status = "tap"] ELSE slots[i]
        pressed == IF retro THEN PressBinding(IO, undecided, s) ELSE IO
        released == ReleaseBinding(pressed, undecided, s)
    IN  /\ stack # <<>> /\ Head(stack) = [call |-> "finish", slot |-> i]
        /\ SetIO(IF Conf(i).undecided_hold /\ Conf(i).linger
                 THEN ReleaseHold(released, undecided, s) ELSE released)
        /\ slots' = [slots EXCEPT ![i] = FreeSlot]
        /\ stack' = Tail(stack)
        /\ UNCHANGED <<undecided, timer, now, down, seen, presses, keyboard>>

Schedule(i) ==
    /\ stack # <<>> /\ Head(stack) = [call |-> "schedule", slot |-> i]
    /\ timer' = timer \cup {i}
    /\ stack' = Tail(stack)
    /\ UNCHANGED <<slots, undecided, captured, last, sent, now, down, seen, presses, keyboard>>

\* The position event gets past the listener.
ToKeymap(ev, rest) ==
    /\ seen' = IF ev.on THEN seen \cup {ev.key} ELSE seen \ {ev.key}
    /\ KeyEvent(ev, rest) \/ HoldTapPressed(ev, rest) \/ HoldTapReleased(ev, rest)
    /\ UNCHANGED <<now, down, presses, keyboard>>

-----------------------------------------------------------------------------
(***************************************************************************)
(* The listener.                                                           *)
(***************************************************************************)
\* mutant of Interrupted: holds without retro-tap are pressed again
Interrupted_NotRetro(p) ==
    {i \in Slots : slots[i].pos \notin {p, Nobody} /\ slots[i].status = "timer"}
\* update_hold_status_for_retro_tap: slots whose hold another key interrupts
Interrupted(p) ==
    {i \in Slots : slots[i].pos \notin {p, Nobody} /\ Conf(i).retro /\ slots[i].status = "timer"}

\* Its effect on one of them, the first: the listener's test, done again per slot.
UpdateRetro(ev) ==
    \E i \in Interrupted(ev.key) :
        LET s == [slots[i] EXCEPT !.status = "interrupt"]
        IN  /\ \A j \in Interrupted(ev.key) : i <= j
            /\ slots' = [slots EXCEPT ![i] = s]
            /\ SetIO(PressBinding(IO, undecided, s))
            /\ UNCHANGED <<undecided, timer, stack, now, down, seen, presses, keyboard>>

\* mutant of HaveCapturedKeydown: every release is let through
HaveCapturedKeydown_Never(p) == FALSE
\* have_captured_keydown_event: the search ends at the first free entry
HaveCapturedKeydown(p) ==
    \E i \in 1 .. MaxCaptured :
        /\ \A j \in 1 .. i : captured[j] # None
        /\ captured[i].type = "pos" /\ captured[i].key = p /\ captured[i].on

\* position_state_changed_listener, up to the decision for a timer that is due
Listen(ev, rest) ==
    LET s == slots[undecided]
        noted == IF Conf(undecided).trigger_on_release # ev.on /\ s.first = Nobody
                 THEN [s EXCEPT !.first = ev.key] ELSE s
        listen == <<[call |-> "listen", ev |-> ev, own |-> s.pos = ev.key]>>
    IN  /\ Interrupted(ev.key) = {}
        /\ IF undecided = 0
           THEN ToKeymap(ev, rest)
           ELSE /\ IF s.pos # ev.key /\ Late(ev.ts, s)
                   THEN Decide(undecided, noted, "timer", IO, listen \o rest)
                   ELSE /\ slots' = [slots EXCEPT ![undecided] = noted]
                        /\ stack' = listen \o rest
                        /\ UNCHANGED <<undecided, captured, last, sent>>
                /\ UNCHANGED <<timer, now, down, seen, presses, keyboard>>

\* the rest of it: let the event through, or capture it and decide; own says whether
\* it is the undecided hold-tap's own
ListenOn(ev, own, rest) ==
    LET bubble == \/ own
                  \/ undecided = 0
                  \/ ~ev.on /\ ~HaveCapturedKeydown(ev.key)
    IN  IF bubble
        THEN ToKeymap(ev, rest)
        ELSE /\ Decide(undecided, slots[undecided],
                       IF ev.on THEN "other-key-down" ELSE "other-key-up",
                       [IO EXCEPT !.cap = CaptureIn(@, ev)], rest)
             /\ UNCHANGED <<timer, now, down, seen, presses, keyboard>>

\* An event raised at the listener: by the keyboard, or again by ReleaseCaptured.
Hear ==
    /\ stack # <<>> /\ Head(stack).call = "raise"
    /\ LET ev == Head(stack).ev
       IN  IF ev.type = "pos"
           THEN UpdateRetro(ev) \/ Listen(ev, Tail(stack))
           ELSE /\ SetIO(Raise(IO, undecided, ev.key, ev.on, ev.ts))
                /\ stack' = Tail(stack)
                /\ UNCHANGED <<slots, undecided, timer, now, down, seen, presses, keyboard>>

HearOn ==
    /\ stack # <<>> /\ Head(stack).call = "listen"
    /\ ListenOn(Head(stack).ev, Head(stack).own, Tail(stack))

\* mutant of ReleaseCaptured: the entry is not freed
ReleaseCaptured_NotFreed ==
    /\ stack # <<>> /\ Head(stack).call = "release_captured"
    /\ LET i == Head(stack).at
       IN  stack' = IF i > MaxCaptured \/ captured[i] = None THEN Tail(stack)
                    ELSE <<[call |-> "raise", ev |-> captured[i]],
                           [call |-> "release_captured", at |-> i + 1]>> \o Tail(stack)
    /\ UNCHANGED <<slots, undecided, captured, timer, last, sent, now, down, seen, presses, keyboard>>
\* mutant of ReleaseCaptured: the loop ends after one round
ReleaseCaptured_OnlyOne ==
    /\ stack # <<>> /\ Head(stack).call = "release_captured"
    /\ LET i == Head(stack).at
       IN  IF i > MaxCaptured \/ captured[i] = None
           THEN stack' = Tail(stack) /\ UNCHANGED captured
           ELSE /\ captured' = [captured EXCEPT ![i] = None]
                /\ stack' = <<[call |-> "raise", ev |-> captured[i]]>> \o Tail(stack)
    /\ UNCHANGED <<slots, undecided, timer, last, sent, now, down, seen, presses, keyboard>>
\* One round of the loop of release_captured_events.
ReleaseCaptured ==
    /\ stack # <<>> /\ Head(stack).call = "release_captured"
    /\ LET i == Head(stack).at
       IN  IF i > MaxCaptured \/ captured[i] = None
           THEN stack' = Tail(stack) /\ UNCHANGED captured
           ELSE /\ captured' = [captured EXCEPT ![i] = None]
                /\ stack' = <<[call |-> "raise", ev |-> captured[i]],
                              [call |-> "release_captured", at |-> i + 1]>> \o Tail(stack)
    /\ UNCHANGED <<slots, undecided, timer, last, sent, now, down, seen, presses, keyboard>>

-----------------------------------------------------------------------------
(***************************************************************************)
(* The keyboard, the clock and the timers.                                 *)
(***************************************************************************)
Idle == stack = <<>>

PosEvent(p, on) == [type |-> "pos", key |-> p, on |-> on, ts |-> now,
                    mods |-> down \cap ModKeys]

\* Presses stop early enough for every timer to run out within MaxNow.
PressKey(p) ==
    /\ Idle /\ p \notin down
    /\ presses < keyboard.presses
    /\ \A h \in HoldTaps : now + Cfg[h].term < MaxNow
    /\ presses' = presses + 1
    /\ down' = down \cup {p}
    /\ stack' = <<[call |-> "raise", ev |-> PosEvent(p, TRUE)]>>
    /\ UNCHANGED <<slots, undecided, captured, timer, last, sent, now, seen, keyboard>>

ReleaseKey(p) ==
    /\ Idle /\ p \in down
    /\ down' = down \ {p}
    /\ stack' = <<[call |-> "raise", ev |-> PosEvent(p, FALSE)]>>
    /\ UNCHANGED <<slots, undecided, captured, timer, last, sent, now, seen, presses, keyboard>>

Tick == Idle /\ now < MaxNow /\ now' = now + 1
        /\ UNCHANGED <<slots, undecided, captured, timer, last, sent, stack, down, seen, presses, keyboard>>

\* mutant of Timer: taken for a timer that was cancelled
Timer_Cancelled(i) ==
    /\ Idle /\ i \in timer
    /\ now >= slots[i].ts + Conf(i).term
    /\ timer' = timer \ {i}
    /\ UNCHANGED <<slots, undecided, captured, last, sent, stack, now, down, seen, presses, keyboard>>
\* behavior_hold_tap_timer_work_handler: may be late, as the work queue may be busy
Timer(i) ==
    /\ Idle /\ i \in timer
    /\ now >= slots[i].ts + Conf(i).term
    /\ timer' = timer \ {i}
    /\ Decide(i, slots[i], "timer", IO, <<>>)
    /\ UNCHANGED <<now, down, seen, presses, keyboard>>

Init ==
    /\ keyboard \in Keyboards
    /\ slots = [i \in Slots |-> FreeSlot]
    /\ undecided = 0
    /\ captured = [i \in 1 .. MaxCaptured |-> None]
    /\ timer = {}
    /\ last = [pos |-> Nobody, ts |-> Never]
    /\ sent = [y \in Symbols |-> 0]
    /\ stack = <<>>
    /\ now = 0
    /\ down = {}
    /\ seen = {}
    /\ presses = 0

Running == \/ Hear \/ HearOn \/ ReleaseCaptured
           \/ \E i \in Slots : Finish(i) \/ Schedule(i)

Next == \/ Running
        \/ \E p \in Positions : PressKey(p) \/ ReleaseKey(p)
        \/ \E i \in Slots : Timer(i)
        \/ Tick

Spec == Init /\ [][Next]_vars

\* The work queue runs, the clock advances, and due timers are served.
FairSpec == /\ Spec /\ WF_vars(Running) /\ WF_vars(Tick)
            /\ \A i \in Slots : WF_vars(Timer(i))
-----------------------------------------------------------------------------
(***************************************************************************)
(* Properties.                                                             *)
(***************************************************************************)
Frame == [call : {"raise"}, ev : Event]
            \cup [call : {"listen"}, ev : Event, own : BOOLEAN]
            \cup [call : {"release_captured"}, at : 1 .. MaxCaptured + 1]
            \cup [call : {"finish", "schedule"}, slot : Slots]

\* Types; an undecided hold-tap occupies a slot and says so, and no two slots are for
\* one key (find_hold_tap takes the first).
TypeOK ==
    /\ slots \in [Slots -> Slot] /\ undecided \in Slots \cup {0} /\ timer \subseteq Slots
    /\ captured \in [1 .. MaxCaptured -> Event \cup {None}]
    /\ \A k \in DOMAIN stack : stack[k] \in Frame
    /\ DOMAIN sent = Symbols /\ down \subseteq Positions /\ seen \subseteq Positions
    /\ undecided # 0 => slots[undecided].pos # Nobody /\ slots[undecided].status = "undecided"
    /\ \A i, j \in Slots : slots[i].pos = slots[j].pos /\ i # j => slots[i].pos = Nobody

\* The trick release_captured_events explains in its comment: the entry that each of the
\* loops in progress took last stays free, so that what an inner hold-tap captures and
\* releases is set off from what the outer loops still have to release.
HoleSeparates ==
    \A k \in DOMAIN stack :
        stack[k].call = "release_captured" /\ stack[k].at > 1 =>
            captured[stack[k].at - 1] = None

\* Between calls, events are held back only for the sake of an undecided hold-tap, and
\* without holes, so that its search for a captured key press sees all of them.
HeldOnlyWhileUndecided ==
    Idle => \A i \in 1 .. MaxCaptured :
                captured[i] # None => undecided # 0 /\ \A j \in 1 .. i : captured[j] # None

\* The HID listener is never told to release what is not pressed, nor to press twice what
\* is: hid.c counts modifiers, and an unmatched release of one is an error there.
SentBalanced == \A y \in Symbols : sent[y] \in {0, 1}

\* Once all keys are up and nothing is undecided, nothing stays pressed and no slot of
\* active_hold_taps stays taken.
AllReleased ==
    Idle /\ down = {} /\ undecided = 0 =>
        slots = [i \in Slots |-> FreeSlot] /\ \A y \in Symbols : sent[y] = 0

\* A key is typed under the modifier keys that were down when it was pressed, however
\* long it or a hold-tap before it was held back: the codes of modifiers released in the
\* meantime are captured for that reason.
TypedUnderItsModifiers ==
    \A y \in Symbols : ~IsMod(y) /\ sent'[y] > sent[y] =>
        {m \in ModKeys : sent[<<m, "mod">>] = 1}
          = IF y[2] = "key" THEN Head(stack).ev.mods
            ELSE slots'[CHOOSE i \in Slots : slots'[i].pos = y[1]].mods

\* Time decides by when keys moved, not by when the code got to know it: a hold-tap is
\* decided a tap only by its own release within the tapping term, and a hold by its timer
\* only if it was not released before its tapping term was over, even if its events were
\* held back by another hold-tap and its timer was started late or not yet run.  (Not so
\* for tap-unless-interrupted, positional hold and quick taps.)
Deciding(i) == undecided = i /\ undecided' = 0
ReleasesOf(p) == {e \in {captured[i] : i \in 1 .. MaxCaptured}
                        \cup {stack[k].ev : k \in {n \in DOMAIN stack :
                                                     stack[n].call \in {"raise", "listen"}}} :
                     e.type = "pos" /\ e.key = p /\ ~e.on}
DecidedByTheClock ==
    \A i \in Slots :
        Deciding(i) /\ Conf(i).flavor # "tap-unless-interrupted" /\ Conf(i).triggers = {} =>
            LET end == slots[i].ts + Conf(i).term
            IN  /\ slots'[i].status = "tap" =>
                      Head(stack).ev.key = slots[i].pos /\ Head(stack).ev.ts <= end
                /\ slots'[i].status = "timer" =>
                      \A e \in ReleasesOf(slots[i].pos) : e.ts >= end

\* Whatever is held back and for how long, what is typed is what was pressed.
TypedAsPressed == [][TypedUnderItsModifiers /\ DecidedByTheClock]_vars

\* A hold-tap does not stay undecided, whatever is or is not typed after it.
Decides == undecided # 0 ~> undecided = 0

(* The order of events: what is captured or being raised, in the order of the     *)
(* captured array.  An event being raised is where the loop took it from, or last *)
(* if it comes from the keyboard.                                                 *)
Loops(k) == {l \in k + 1 .. Len(stack) : stack[l].call = "release_captured"}
PlaceOf(k) == IF Loops(k) = {} THEN MaxCaptured + 1
              ELSE stack[CHOOSE l \in Loops(k) : \A n \in Loops(k) : l <= n].at - 1
InFlight == {k \in DOMAIN stack : stack[k].call \in {"raise", "listen"}}
At(i) == IF \E k \in InFlight : PlaceOf(k) = i
         THEN stack[CHOOSE k \in InFlight : PlaceOf(k) = i].ev
         ELSE IF i <= MaxCaptured THEN captured[i] ELSE None
Waiting ==
    LET events == SelectSeq([i \in 1 .. MaxCaptured + 1 |-> At(i)],
                            LAMBDA ev : ev.type = "pos")
    IN  [n \in 1 .. Len(events) |-> events[n].key]

\* The hold-taps in front of the keymap lose no key event, keep the events of each key in
\* order and let no key press overtake anything.
Order == INSTANCE KeyEventOrder WITH waiting <- Waiting
KeepsOrder == Order!OrderSpec

(* No press is forgotten, in the captured array or by what it has sent.           *)
PressesAccounted == TypeOK /\ HoleSeparates /\ HeldOnlyWhileUndecided /\ SentBalanced /\ AllReleased
=============================================================================

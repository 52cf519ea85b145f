------------------------------- MODULE Combo -------------------------------
(***************************************************************************)
(* Combos, src/app/src/combo.c: the listener captures the presses that may *)
(* become a combo, and presses the combo's behavior or lets them go on to  *)
(* the tap dances and the keymap.  The first captured press continues      *)
(* behind this listener (ZMK_EVENT_RELEASE), the others are raised anew    *)
(* (ZMK_EVENT_RAISE) and may be captured again: Raise is recursive, and a  *)
(* key event with all that follows is one step of the system work queue.   *)
(* Events have passed the hold-taps, which may have held them back.        *)
(***************************************************************************)
EXTENDS TapDance, FiniteSetsExt, SequencesExt, TLC

CONSTANTS
    ComboBuilds,      \* see Build
    Far,         \* LONG_MAX
    MaxComboLag  \* bound: how late an event or a timer is

\* combos: sorted shortest first; [keys, timeout, slow, idle (require_prior_idle_ms),
\*         layers ({}: all)].
\* dances: positions bound to a tap dance; layer: positions bound to a layer key.
\* room: CONFIG_ZMK_COMBO_MAX_PRESSED_COMBOS.
\* long64: long has 64 bits (native builds), or 32 (the boards).
\* apart: an assumption on the typist, that no two key events share a millisecond.
\* events, time: bounds.
Combos(b) == DOMAIN b.combos
ASSUME ComboAssumption ==
    \A b \in ComboBuilds :
        /\ \A c \in Combos(b) : b.combos[c].keys \subseteq Positions
        /\ \A c, d \in Combos(b) : c < d => Cardinality(b.combos[c].keys) <= Cardinality(b.combos[d].keys)
        /\ b.dances \cup b.layer \subseteq Positions /\ b.long64 \in BOOLEAN

VARIABLES
    build,    \* chosen initially
    s,        \* see ComboTypeOK
    arrived,  \* the keys that are down, in the order in which they went down
    combo_now, combo_last, combo_events

combo_vars == <<build, s, arrived, combo_now, combo_last, combo_events>>
combo(c) == build.combos[c]
KeysOf(c) == Cardinality(combo(c).keys)   \* key_position_len
MaxComboKeys == Max({KeysOf(c) : c \in Combos(build)})
Down == ToSet(arrived)
Captured(t) == {t.pressed[i].p : i \in DOMAIN t.pressed}
Behaviors == {<<p, n>> : p \in Positions, n \in 0 .. BehaviorCount}
             \cup {<<None, c>> : c \in Combos(build)}

ComboTypeOK ==
    /\ \A i \in DOMAIN s.pressed : s.pressed[i] \in [p : Positions, ts : 1 .. build.time]
    /\ Len(s.pressed) <= MaxComboKeys
    /\ s.ts0 \in 0 .. build.time        \* pressed_keys[0].data.timestamp, also when none is pressed
    /\ s.candidates \in SUBSET Combos(build)
    /\ s.crowded \in BOOLEAN            \* history: has a combo found no room since cleanup
    /\ s.left \in SUBSET s.candidates   \* history: those left then, by keys captured no more
    /\ s.fully_pressed_combo \in Combos(build) \cup {0}
    /\ Len(s.active) <= build.room
    /\ \A i \in DOMAIN s.active : /\ s.active[i].c \in Combos(build)
                                  /\ s.active[i].keys \in SUBSET Positions \ {{}}
                                  /\ Cardinality(s.active[i].keys) <= KeysOf(s.active[i].c)
    /\ s.timeout_task \in 0 .. Far   \* when it is due; 0: not scheduled
    /\ s.timeout_at \in 0 .. 2 * Far
    /\ s.seen \in SUBSET Positions   \* down as far as the keymap has been told
    /\ s.on \in [Behaviors -> {0, 1}]
    /\ \A i \in DOMAIN s.told : s.told[i] \in Positions \* presses the keymap got in this step
    /\ combo_now \in 1 .. build.time /\ combo_last \in 1 .. combo_now /\ combo_events \in 0 .. build.events

(***************************************************************************)
(* Behind the combos: tap dances, then the keymap.                         *)
(***************************************************************************)
StoreLastTapped(t, ts) == IF ts > t.last_combo THEN [t EXCEPT !.last_tapped = ts] ELSE t

Deliver(t, e) ==
    LET u == IF e.down THEN DanceInterrupt(t, e.p) ELSE t
        v == [u EXCEPT !.seen = IF e.down THEN @ \cup {e.p} ELSE @ \ {e.p},
                       !.told = IF e.down THEN Append(@, e.p) ELSE @]
    IN  IF e.p \in build.dances
        THEN IF e.down THEN DancePressed(v, e.p, e.ts, combo_now) ELSE DanceReleased(v, e.p)
        ELSE IF e.p \in build.layer THEN [v EXCEPT !.layer = IF e.down THEN 1 ELSE 0]
        ELSE InvokeCombo(IF e.down THEN StoreLastTapped(v, e.ts) ELSE v, <<e.p, 0>>, e.down)

(***************************************************************************)
(* Candidates and the timer.                                               *)
(***************************************************************************)
\* The bits that a first press sets, beside those that are left.
SetupCandidates(t, e) ==
    {c \in Combos(build) : /\ e.p \in combo(c).keys
                           /\ combo(c).layers = {} \/ t.layer \in combo(c).layers
                           /\ t.last_tapped + combo(c).idle <= e.ts}

\* mutant of NotTimedOut: the time is not looked at
NotTimedOutEver(t, ts) == t.candidates
NotTimedOut(t, ts) == {c \in t.candidates : t.ts0 + combo(c).timeout > ts}

FilterCandidates(t, e) == {c \in NotTimedOut(t, e.ts) : e.p \in combo(c).keys}

FirstTimeout(t) ==
    IF t.pressed = <<>> THEN Far
    ELSE t.pressed[1].ts + Min({Far} \cup {combo(c).timeout : c \in t.candidates})

Cancel(t) == [t EXCEPT !.timeout_task = 0]

\* k_work_schedule leaves the work alone if it is scheduled already.
UpdateTimeout(t) ==
    LET first == FirstTimeout(t)
        later == IF t.timeout_task # 0 THEN t.timeout_task ELSE Max({Min({first, Far}), combo_now})
    IN  IF t.timeout_at = first THEN t
        ELSE IF first = Far /\ build.long64 THEN [Cancel(t) EXCEPT !.timeout_at = 0]
        ELSE [t EXCEPT !.timeout_task = later, !.timeout_at = first]

(***************************************************************************)
(* Active combos.                                                          *)
(***************************************************************************)
RECURSIVE RaiseCaptured(_, _), ReleasePressed(_), Activate(_, _), Cleanup(_)

\* mutant of ReleasePressed: the first is raised anew, the others are let through
ReleasePressedSwapped(t) ==
    LET held == t.pressed
        step(u, i) == LET e == [p |-> held[i].p, ts |-> held[i].ts, down |-> TRUE]
                      IN  IF i = 1 THEN RaiseCaptured(u, e) ELSE Deliver(u, e)
    IN  [s |-> FoldLeft(step, [t EXCEPT !.pressed = <<>>], [i \in DOMAIN held |-> i]), n |-> Len(held)]
\* release_pressed_keys: the state after it, and how many it released
ReleasePressed(t) ==
    LET held == t.pressed
        step(u, i) == LET e == [p |-> held[i].p, ts |-> held[i].ts, down |-> TRUE]
                      IN  IF i = 1 THEN Deliver(u, e) ELSE RaiseCaptured(u, e)
    IN  [s |-> FoldLeft(step, [t EXCEPT !.pressed = <<>>], [i \in DOMAIN held |-> i]), n |-> Len(held)]

\* activate_combo: the first keys that were pressed become those of the combo.
Activate(t, c) ==
    LET k == Min({KeysOf(c), Len(t.pressed)})
        moved == [t EXCEPT !.active = Append(@, [c |-> c, keys |-> {t.pressed[i].p : i \in 1 .. k}]),
                           !.pressed = SubSeq(@, k + 1, Len(@)), !.last_combo = t.pressed[1].ts,
                           !.ts0 = IF Len(t.pressed) > k THEN t.pressed[k + 1].ts ELSE @]
    IN  IF Len(t.active) = build.room THEN ReleasePressed([t EXCEPT !.crowded = TRUE]).s
        ELSE InvokeCombo(StoreLastTapped(moved, t.pressed[1].ts), <<None, c>>, TRUE)

\* mutant of Cleanup: the timer is not cancelled
Cleanup_TimerOn(t) ==
    LET u == [t EXCEPT !.candidates = {}, !.left = {}, !.crowded = FALSE]
        full == u.fully_pressed_combo
    IN  ReleasePressed(IF full = 0 THEN u
                       ELSE [Activate(u, full) EXCEPT !.fully_pressed_combo = 0])
\* mutant of Cleanup: the candidates stay
Cleanup_CandidatesStay(t) ==
    LET u == [Cancel(t) EXCEPT !.left = {}, !.crowded = FALSE]
        full == u.fully_pressed_combo
    IN  ReleasePressed(IF full = 0 THEN u
                       ELSE [Activate(u, full) EXCEPT !.fully_pressed_combo = 0])
Cleanup(t) ==
    LET u == [Cancel(t) EXCEPT !.candidates = {}, !.left = {}, !.crowded = FALSE]
        full == u.fully_pressed_combo
    IN  ReleasePressed(IF full = 0 THEN u
                       ELSE [Activate(u, full) EXCEPT !.fully_pressed_combo = 0])

\* release_combo_key: only the first active combo that holds the key is looked at;
\* the last one takes the place of one that is over.
Holding(t, p) == {i \in DOMAIN t.active : p \in t.active[i].keys}
Deactivate(t, i) ==
    LET n == Len(t.active)
    IN  [t EXCEPT !.active = [j \in 1 .. n - 1 |-> IF j = i THEN t.active[n] ELSE t.active[j]]]

\* mutant of ReleaseComboKey: a slow combo is released by its first key as well
ReleaseComboKeyFast(t, p) ==
    LET i == Min(Holding(t, p))
        a == t.active[i]
        u == [t EXCEPT !.active[i].keys = @ \ {p}]
        v == IF Cardinality(a.keys) = KeysOf(a.c) \/ (combo(a.c).slow /\ a.keys = {p})
             THEN InvokeCombo(u, <<None, a.c>>, FALSE) ELSE u
    IN  IF a.keys = {p} THEN Deactivate(v, i) ELSE v
ReleaseComboKey(t, p) ==
    LET i == Min(Holding(t, p))
        a == t.active[i]
        over == IF combo(a.c).slow THEN a.keys = {p} ELSE Cardinality(a.keys) = KeysOf(a.c)
        u == [t EXCEPT !.active[i].keys = @ \ {p}]
        v == IF over THEN InvokeCombo(u, <<None, a.c>>, FALSE) ELSE u
    IN  IF a.keys = {p} THEN Deactivate(v, i) ELSE v

(***************************************************************************)
(* The listener.                                                           *)
(***************************************************************************)
PositionDown(t, e) ==
    LET first == t.pressed = <<>>
        matching == IF first THEN SetupCandidates(t, e) ELSE FilterCandidates(t, e)
        candidates == IF first THEN t.candidates \cup matching ELSE matching
        room == Len(t.pressed) < MaxComboKeys
        u == UpdateTimeout([t EXCEPT !.candidates = candidates,
                                     !.left = IF ~first THEN @ \cap matching
                                              ELSE IF t.crowded THEN t.candidates \ matching ELSE {},
                                     !.ts0 = IF first THEN e.ts ELSE @,
                                     !.pressed = IF room THEN Append(@, [p |-> e.p, ts |-> e.ts]) ELSE @])
        c == Min(candidates)
        complete == matching # {} /\ KeysOf(c) = Len(u.pressed)
        v == IF complete THEN [u EXCEPT !.fully_pressed_combo = c] ELSE u
        w == IF matching = {} \/ (complete /\ Cardinality(matching) = 1) THEN Cleanup(v).s ELSE v
    IN  IF first /\ matching = {} THEN Deliver(t, e)
        ELSE IF room THEN w ELSE Deliver(w, e)

\* mutant of PositionUp: the release is not raised again behind the presses
PositionUpInFront(t, e) ==
    LET c == Cleanup(t)
    IN  IF Holding(c.s, e.p) # {} THEN ReleaseComboKey(c.s, e.p) ELSE Deliver(c.s, e)
PositionUp(t, e) ==
    LET c == Cleanup(t)
    IN  IF Holding(c.s, e.p) # {} THEN ReleaseComboKey(c.s, e.p)
        ELSE IF c.n > 1 THEN RaiseCaptured(c.s, e)
        ELSE Deliver(c.s, e)

RaiseCaptured(t, e) == IF e.down THEN PositionDown(t, e) ELSE PositionUp(t, e)

\* combo_timeout_handler
TimeoutHandler(t) ==
    LET u == Cancel(t)
        remaining == NotTimedOut(u, u.timeout_at)
        v == [u EXCEPT !.candidates = remaining, !.left = @ \cap remaining]
    IN  IF u.timeout_at = 0 \/ combo_now < u.timeout_at THEN u
        ELSE UpdateTimeout(IF remaining = {} THEN Cleanup(v).s ELSE v)

ComboInit ==
    /\ build \in ComboBuilds
    /\ s = [pressed |-> <<>>, ts0 |-> 0, candidates |-> {}, left |-> {}, crowded |-> FALSE, fully_pressed_combo |-> 0, active |-> <<>>,
            timeout_task |-> 0, timeout_at |-> 0, last_tapped |-> -Far, last_combo |-> -Far,
            dances |-> [i \in 1 .. Dances |-> FreeDance], on |-> [b \in Behaviors |-> 0],
            seen |-> {}, layer |-> 0, told |-> <<>>]
    /\ arrived = <<>> /\ combo_now = 1 /\ combo_last = 1 /\ combo_events = 0

Fresh == [s EXCEPT !.told = <<>>]

ComboKeyEvent(p, down) ==
    /\ combo_events < build.events
    /\ down # (p \in Down)
    /\ arrived' = IF down THEN Append(arrived, p) ELSE Remove(arrived, p)
    /\ \E ts \in {t \in combo_last .. combo_now : t + MaxComboLag >= combo_now /\ (build.apart /\ combo_events > 0 => t > combo_last)} :
         /\ s' = RaiseCaptured(Fresh, [p |-> p, down |-> down, ts |-> ts])
         /\ combo_last' = ts
    /\ combo_events' = combo_events + 1
    /\ UNCHANGED <<build, combo_now>>

ComboTimer == /\ s.timeout_task # 0 /\ s.timeout_task <= combo_now
              /\ s' = TimeoutHandler(Fresh)
              /\ UNCHANGED <<build, arrived, combo_now, combo_last, combo_events>>

TapDanceTimer(i) == /\ s.dances[i].timer /\ s.dances[i].release_at <= combo_now
                    /\ s' = DanceTimer(Fresh, i)
                    /\ UNCHANGED <<build, arrived, combo_now, combo_last, combo_events>>

\* Timers run late by at most MaxComboLag.
ComboTick == /\ combo_now < build.time /\ combo_now' = combo_now + 1
             /\ s.timeout_task # 0 => s.timeout_task + MaxComboLag > combo_now
             /\ \A i \in 1 .. Dances : s.dances[i].timer => s.dances[i].release_at + MaxComboLag > combo_now
             /\ s' = Fresh
             /\ UNCHANGED <<build, arrived, combo_last, combo_events>>

ComboNext == \/ \E p \in Positions, down \in BOOLEAN : ComboKeyEvent(p, down)
             \/ ComboTimer
             \/ \E i \in 1 .. Dances : TapDanceTimer(i)
             \/ ComboTick

ComboSpec == ComboInit /\ [][ComboNext]_combo_vars
-----------------------------------------------------------------------------
InCombos == UNION {s.active[i].keys : i \in DOMAIN s.active}

\* Every key that is down is exactly one of: captured, part of an active combo, or
\* down for the keymap; and nothing else is any of these.  No press or release is lost
\* or doubled by being captured, raised anew, captured again or swallowed by a combo.
KeysAccounted ==
    /\ Captured(s) \cup InCombos \cup s.seen = Down
    /\ Len(s.pressed) + FoldLeft(LAMBDA n, a : n + Cardinality(a.keys), 0, s.active)
           + Cardinality(s.seen) = Len(arrived)

\* A behavior is pressed once if its key, its combo or its tap dance is, and else not
\* at all: nothing stays pressed when a combo is over, whichever keys went up first.
Wanted(b) ==
    CASE b[1] = None -> \E i \in DOMAIN s.active :
                          /\ s.active[i].c = b[2]
                          /\ combo(b[2]).slow \/ Cardinality(s.active[i].keys) = KeysOf(b[2])
      [] b[1] \in build.dances -> \E i \in 1 .. Dances :
                          s.dances[i].decided /\ Binding(s.dances[i]) = b
      [] OTHER -> b[2] = 0 /\ b[1] \in s.seen \ build.layer
BehaviorsBalanced == \A b \in Behaviors : s.on[b] = IF Wanted(b) THEN 1 ELSE 0

\* Captured presses do not wait for another key: the timer is set for the first
\* candidate's timeout at the latest.
HasTimer == s.pressed # <<>> =>
    s.timeout_task # 0 /\ (s.timeout_task <= combo_now \/ s.timeout_task <= FirstTimeout(s))
\* It holds if long has 64 bits, events come apart, all combos have one timeout and no
\* combo can find no room (or else the timer of keys that are let through stays, and the
\* next key's is not set), however often presses are captured again.
CapturedHasTimer ==
    build.long64 /\ build.apart /\ Cardinality(Positions) < build.room + 2
        /\ (\A c, d \in Combos(build) : combo(c).timeout = combo(d).timeout)
        => HasTimer

\* A tap dance that is not decided waits for its timer; one that is is held by its key.
\* (A press that a combo held back for too long finds its term over: reset_timer then
\* sets no timer, and the next press decides.)
DanceAccounted ==
    \A i \in 1 .. Dances : LET d == s.dances[i] IN d.position # None =>
        /\ d.is_pressed = (d.position \in s.seen)
        /\ IF d.decided THEN d.is_pressed ELSE d.timer \/ (~build.apart /\ d.release_at <= combo_now)

\* Presses reach the keymap in the order in which they happened, and no press does
\* while an earlier one is captured.
Order == IF Len(arrived') > Len(arrived) THEN arrived' ELSE arrived
At(p) == CHOOSE i \in DOMAIN Order : Order[i] = p
InOrder ==
    /\ \A i, j \in DOMAIN s'.told : i < j => At(s'.told[i]) < At(s'.told[j])
    /\ \A i \in DOMAIN s'.told, p \in Captured(s') : At(s'.told[i]) < At(p)

\* A combo is pressed only if its keys went down within its timeout, and its layer is
\* the highest before or after the keys in front of it were let through.  Except a
\* candidate that was left when a combo found no room: the keys were let through, but the
\* bits that they set when they were raised anew stay and go with the next first key, so
\* that AB can be pressed by D and A.
PressedAt(p) == IF p \in Captured(s) THEN (CHOOSE k \in ToSet(s.pressed) : k.p = p).ts ELSE combo_last'
PressedTogether ==
    \A c \in Combos(build) \ s.left : s'.on[<<None, c>>] > s.on[<<None, c>>] =>
        /\ combo(c).keys \subseteq Captured(s) \cup (ToSet(arrived') \ Down)
        /\ \A p, q \in combo(c).keys : PressedAt(q) - PressedAt(p) < combo(c).timeout
        /\ combo(c).layers # {} => {s.layer, s'.layer} \cap combo(c).layers # {}

\* The press of another key decides a tap dance before that key does anything: only
\* the last press that reached the keymap can be that of an undecided dance.
OnlyLastUndecided ==
    s'.told # <<>> => \A i \in 1 .. Dances : LET d == s'.dances[i] IN
        d.position # None /\ ~d.decided => d.position = Last(s'.told)

\* Every key and every behavior of a combo or a tap dance is accounted for; and keys come
\* in order, combos of keys that were pressed together.
CombosAccounted == ComboTypeOK /\ KeysAccounted /\ BehaviorsBalanced /\ CapturedHasTimer /\ DanceAccounted
CombosInOrder == [][InOrder /\ PressedTogether /\ OnlyLastUndecided]_combo_vars
=============================================================================

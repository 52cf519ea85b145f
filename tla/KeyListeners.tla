---------------------------- MODULE KeyListeners ----------------------------
(***************************************************************************)
(* The behaviors that listen to key codes between the key that raises one  *)
(* and the host that sees it: src/app/src/behaviors/behavior_sticky_key.c, *)
(* behavior_caps_word.c and behavior_key_repeat.c, with key toggles.       *)
(*                                                                         *)
(* A key code passes the listeners in the order of their link sections:    *)
(* sticky keys, caps word, key repeat, HID.  Sticky keys press and release *)
(* their own behaviors inside the listener, which raises key codes that    *)
(* pass all listeners again: Raise is recursive, and a whole key event is  *)
(* one step of the system work queue.  `kb' is the state of all of them.   *)
(***************************************************************************)
EXTENDS Integers, Sequences, FiniteSets, SequencesExt

CONSTANTS
    ListenerKeys,          \* positions
    Mods, Letters, Others,  \* usages of the key page
    Layers,        \* what a sticky momentary layer presses instead of a usage
    Nothing,
    Slots,         \* CONFIG_ZMK_BEHAVIOR_STICKY_KEY_MAX_HELD
    ReleaseAfter,  \* release-after-ms
    CapsMods,      \* mods of the caps word
    Builds,        \* <<keymap, flags>>: what each position is bound to, Keys -> [b, u],
                   \* and the properties of the sticky keys, a subset of
                   \* {"lazy", "quick_release", "ignore_modifiers"}
    MaxKeyEvents, MaxTime,  \* bounds: key events, the clock
    MaxLag         \* bound: how late a hold-tap lets a key event through

Usages == Mods \cup Letters \cup Others
Held == Mods \cup Layers
ASSUME KeyListenersAssumption ==
    /\ Slots \in Nat \ {0} /\ ReleaseAfter \in Nat \ {0} /\ CapsMods \subseteq Mods
    /\ Mods \cap (Letters \cup Others \cup Layers) = {} /\ Nothing \notin Usages

VARIABLES
    keymap, flags,  \* the build: chosen initially
    kb,     \* see ListenersTypeOK
    keys_down,   \* positions that are down
    now,    \* k_uptime_get
    last,   \* the time stamp of the last key event
    key_events  \* key events so far

listeners_vars == <<keymap, flags, kb, keys_down, now, last, key_events>>

Time == 0 .. MaxTime
Slot == [position : ListenerKeys \cup {Nothing}, u : Usages \cup Layers \cup {Nothing},
         started : BOOLEAN, timer : BOOLEAN,  \* timer_started; release_timer is scheduled
         release_at : 0 .. MaxTime + ReleaseAfter, modified : Usages \cup {Nothing}]
Code == [u : Usages \cup {Nothing}, mods : SUBSET Mods]

ListenersTypeOK ==
    /\ kb.slots \in [1 .. Slots -> Slot]
    /\ kb.caps \in BOOLEAN
    /\ kb.last_keycode_pressed \in Code /\ kb.current_keycode_pressed \in Code
    /\ kb.keys \in SUBSET (Letters \cup Others)   \* in the report
    /\ kb.counts \in [Held -> Nat]                \* explicit modifiers, held layers
    /\ kb.implicit \in SUBSET Mods
    /\ kb.seen \in Code                           \* the host's last new key, and its modifiers
    /\ <<keymap, flags>> \in Builds /\ keys_down \in SUBSET ListenerKeys
    /\ now \in Time /\ last \in 0 .. now /\ key_events \in 0 .. MaxKeyEvents

NoCode == [u |-> Nothing, mods |-> {}]
FreeSlot == [position |-> Nothing, u |-> Nothing, started |-> FALSE, timer |-> FALSE,
             release_at |-> 0, modified |-> Nothing]
Explicit(s) == {m \in Mods : s.counts[m] > 0}

(***************************************************************************)
(* The end of the chain: key_repeat, caps_word and the HID listener.       *)
(***************************************************************************)
\* mutant of Hid: a modifier is a flag, not a count
HidFlag(s, e) ==
    LET n == IF e.u \in Mods THEN [s EXCEPT !.counts[e.u] = IF e.down THEN 1 ELSE 0]
             ELSE [s EXCEPT !.keys = IF e.down THEN @ \cup {e.u} ELSE @ \ {e.u}]
    IN  IF e.down
        THEN [n EXCEPT !.implicit = e.mods, !.seen = [u |-> e.u, mods |-> Explicit(n) \cup e.mods]]
        ELSE [n EXCEPT !.implicit = {}]
\* mutant of Hid: releasing what is not pressed counts down as well
HidBelowZero(s, e) ==
    LET n == IF e.u \in Mods THEN [s EXCEPT !.counts[e.u] = IF e.down THEN @ + 1 ELSE @ - 1]
             ELSE [s EXCEPT !.keys = IF e.down THEN @ \cup {e.u} ELSE @ \ {e.u}]
    IN  IF e.down
        THEN [n EXCEPT !.implicit = e.mods, !.seen = [u |-> e.u, mods |-> Explicit(n) \cup e.mods]]
        ELSE [n EXCEPT !.implicit = {}]
Hid(s, e) ==
    LET n == IF e.u \in Mods THEN [s EXCEPT !.counts[e.u] = IF e.down THEN @ + 1
                                                            ELSE IF @ > 0 THEN @ - 1 ELSE 0]
             ELSE [s EXCEPT !.keys = IF e.down THEN @ \cup {e.u} ELSE @ \ {e.u}]
    IN  IF e.down
        THEN [n EXCEPT !.implicit = e.mods, !.seen = [u |-> e.u, mods |-> Explicit(n) \cup e.mods]]
        ELSE [n EXCEPT !.implicit = {}]

Repeat(s, e) ==
    IF e.down THEN [s EXCEPT !.last_keycode_pressed = [u |-> e.u, mods |-> e.mods \cup Explicit(s)]]
    ELSE s

Enhanced(s, e) == IF s.caps /\ e.down /\ e.u \in Letters
                  THEN [e EXCEPT !.mods = @ \cup CapsMods] ELSE e
Caps(s, e) == [s EXCEPT !.caps = @ /\ (e.down => e.u \in Letters \cup Mods)]

\* mutant of After: key_repeat listens in front of caps_word
AfterRepeatFirst(s, e) == LET f == Enhanced(s, e) IN Hid(Caps(Repeat(s, e), f), f)
\* ZMK_EVENT_RAISE_AFTER(.., behavior_sticky_key), or the event bubbling on
After(s, e) == LET f == Enhanced(s, e) IN Hid(Repeat(Caps(s, f), f), f)

(***************************************************************************)
(* Sticky keys.  An event: [u, mods (implicit_modifiers), down, ts].       *)
(***************************************************************************)
RECURSIVE Raise(_, _), Visit(_, _, _), ReleaseSticky(_, _, _)

\* zmk_behavior_invoke_binding of a key press or a momentary layer
InvokeBinding(s, u, dn, ts) ==
    IF u \in Layers THEN [s EXCEPT !.counts[u] = IF dn THEN 1 ELSE 0]
    ELSE Raise(s, [u |-> u, mods |-> {}, down |-> dn, ts |-> ts])

ReleaseSticky(s, i, ts) ==
    InvokeBinding([s EXCEPT !.slots[i].position = Nothing], s.slots[i].u, FALSE, ts)

OnTimeout(s, i) ==
    IF "lazy" \in flags THEN [s EXCEPT !.slots[i].position = Nothing]
    ELSE ReleaseSticky(s, i, s.slots[i].release_at)

StopTimer(s, i) == [s EXCEPT !.slots[i].timer = FALSE]

\* mutant of Visit: the overdue timer is not noticed
VisitLate(acc, i, e) ==
    LET s == acc.s
        k == s.slots[i]
        t == StopTimer(s, i)
    IN  CASE k.position = Nothing \/ (k.u = e.u /\ e.mods = {}) -> acc
          [] e.down /\ (("ignore_modifiers" \in flags /\ e.u \in Mods) \/ k.modified # Nothing) -> acc
          [] e.down -> [s |-> [t EXCEPT !.slots[i].modified = e.u],
                        press |-> IF "lazy" \in flags THEN Append(acc.press, i) ELSE acc.press,
                        release |-> IF k.started /\ "quick_release" \in flags
                                    THEN Append(acc.release, i) ELSE acc.release]
          [] ~e.down /\ k.started /\ k.modified = e.u -> [acc EXCEPT !.s = t, !.release = Append(@, i)]
          [] OTHER -> acc
\* One turn of the listener's loop over the slots; acc.press and acc.release are
\* sticky_keys_to_press_before_reraise and sticky_keys_to_release_after_reraise.
Visit(acc, i, e) ==
    LET s == acc.s
        k == s.slots[i]
        t == StopTimer(s, i)
    IN  CASE k.position = Nothing -> acc
          [] k.u = e.u /\ e.mods = {} -> acc
          [] e.down /\ "ignore_modifiers" \in flags /\ e.u \in Mods -> acc
          [] e.down /\ k.modified # Nothing -> acc
          [] e.down /\ k.release_at # 0 /\ e.ts > k.release_at -> [acc EXCEPT !.s = OnTimeout(t, i)]
          [] e.down ->
               [s |-> [t EXCEPT !.slots[i].modified = e.u],
                press |-> IF "lazy" \in flags THEN Append(acc.press, i) ELSE acc.press,
                release |-> IF k.started /\ "quick_release" \in flags
                            THEN Append(acc.release, i) ELSE acc.release]
          [] ~e.down /\ k.started /\ k.modified = e.u ->
               [acc EXCEPT !.s = t, !.release = Append(@, i)]
          [] OTHER -> acc

\* mutant of Raise: the sticky keys are released before the event is raised again
RaiseAfterRelease(s, e) ==
    LET v == FoldLeft(LAMBDA acc, i : Visit(acc, i, e), [s |-> s, press |-> <<>>, release |-> <<>>],
                      [i \in 1 .. Slots |-> i])
        pressed == FoldLeft(LAMBDA t, i : InvokeBinding(t, t.slots[i].u, TRUE, e.ts), v.s, v.press)
    IN  After(FoldLeft(LAMBDA t, i : ReleaseSticky(t, i, e.ts), pressed, v.release), e)
\* mutant of Raise: a captured event is raised again behind the caps word
RaiseAtHid(s, e) ==
    LET v == FoldLeft(LAMBDA acc, i : Visit(acc, i, e), [s |-> s, press |-> <<>>, release |-> <<>>],
                      [i \in 1 .. Slots |-> i])
        pressed == FoldLeft(LAMBDA t, i : InvokeBinding(t, t.slots[i].u, TRUE, e.ts), v.s, v.press)
        seen == IF v.release = <<>> THEN After(pressed, e) ELSE Hid(Repeat(pressed, e), e)
    IN  FoldLeft(LAMBDA t, i : ReleaseSticky(t, i, e.ts), seen, v.release)
Raise(s, e) ==
    LET v == FoldLeft(LAMBDA acc, i : Visit(acc, i, e), [s |-> s, press |-> <<>>, release |-> <<>>],
                      [i \in 1 .. Slots |-> i])
        pressed == FoldLeft(LAMBDA t, i : InvokeBinding(t, t.slots[i].u, TRUE, e.ts), v.s, v.press)
    IN  FoldLeft(LAMBDA t, i : ReleaseSticky(t, i, e.ts), After(pressed, e), v.release)

FindSticky(s, k, u) == {i \in 1 .. Slots : s.slots[i].position = k /\ s.slots[i].u = u}

StickyPressed(s, k, u, ts) ==
    LET found == FindSticky(s, k, u)
        t == IF found = {} THEN s ELSE LET i == CHOOSE i \in found : TRUE
                                       IN  ReleaseSticky(StopTimer(s, i), i, ts)
        free == {i \in 1 .. Slots : t.slots[i].position = Nothing}
        i == CHOOSE i \in free : \A j \in free : i <= j
        stored == [t EXCEPT !.slots[i] = [FreeSlot EXCEPT !.position = k, !.u = u]]
    IN  IF free = {} THEN t
        ELSE IF "lazy" \in flags THEN stored ELSE InvokeBinding(stored, u, TRUE, ts)

\* mutant of StickyReleased: the key that was modified meanwhile is not looked at
StickyReleasedAlways(s, k, u, ts) ==
    LET found == FindSticky(s, k, u)
        i == CHOOSE i \in found : \A j \in found : i <= j
    IN  IF found = {} THEN s
        ELSE [s EXCEPT !.slots[i].started = TRUE, !.slots[i].release_at = ts + ReleaseAfter,
                       !.slots[i].timer = ts + ReleaseAfter > now]
StickyReleased(s, k, u, ts) ==
    LET found == FindSticky(s, k, u)
        i == CHOOSE i \in found : \A j \in found : i <= j
    IN  IF found = {} THEN s
        ELSE IF s.slots[i].modified # Nothing THEN ReleaseSticky(s, i, ts)
        ELSE [s EXCEPT !.slots[i].started = TRUE, !.slots[i].release_at = ts + ReleaseAfter,
                       !.slots[i].timer = ts + ReleaseAfter > now]

(***************************************************************************)
(* The other behaviors.                                                    *)
(***************************************************************************)
CapsWordPressed(s) == [s EXCEPT !.caps = ~@]

RepeatPressed(s) ==
    LET c == s.last_keycode_pressed
    IN  IF c.u = Nothing THEN s
        ELSE Raise([s EXCEPT !.current_keycode_pressed = c],
                   [u |-> c.u, mods |-> c.mods, down |-> TRUE, ts |-> now])
RepeatReleased(s) ==
    LET c == s.current_keycode_pressed
    IN  IF c.u = Nothing THEN s
        ELSE Raise(s, [u |-> c.u, mods |-> c.mods, down |-> FALSE, ts |-> now])

\* FLIP: zmk_hid_is_pressed
TogglePressed(s, u, ts) == InvokeBinding(s, u, u \notin s.keys \cup Explicit(s), ts)

Do(s, k, dn, ts) ==
    LET b == keymap[k]
    IN  CASE b.b = "kp" -> InvokeBinding(s, b.u, dn, ts)
          [] b.b = "sk" -> IF dn THEN StickyPressed(s, k, b.u, ts) ELSE StickyReleased(s, k, b.u, ts)
          [] b.b = "caps_word" -> IF dn THEN CapsWordPressed(s) ELSE s
          [] b.b = "key_repeat" -> IF dn THEN RepeatPressed(s) ELSE RepeatReleased(s)
          [] b.b = "toggle" -> IF dn THEN TogglePressed(s, b.u, ts) ELSE s

ListenersInit ==
    /\ \E b \in Builds : keymap = b[1] /\ flags = b[2]
    /\ kb = [slots |-> [i \in 1 .. Slots |-> FreeSlot], caps |-> FALSE,
             last_keycode_pressed |-> NoCode, current_keycode_pressed |-> NoCode,
             keys |-> {}, counts |-> [m \in Held |-> 0], implicit |-> {}, seen |-> NoCode]
    /\ keys_down = {} /\ now = 0 /\ last = 0 /\ key_events = 0

\* A key event reaches its behavior, at most MaxLag after it happened: a hold-tap
\* that was undecided held it back.
KeyEvent(k, dn) ==
    /\ key_events < MaxKeyEvents
    /\ dn # (k \in keys_down)
    /\ \E ts \in {t \in last .. now : t + MaxLag >= now} :
         /\ kb' = Do(kb, k, dn, ts)
         /\ last' = ts
    /\ keys_down' = IF dn THEN keys_down \cup {k} ELSE keys_down \ {k}
    /\ key_events' = key_events + 1
    /\ UNCHANGED <<keymap, flags, now>>

\* behavior_sticky_key_timer_handler
TimerHandler(i) ==
    /\ kb.slots[i].timer /\ now >= kb.slots[i].release_at
    /\ kb' = LET t == StopTimer(kb, i)
             IN  IF t.slots[i].position = Nothing THEN t ELSE OnTimeout(t, i)
    /\ UNCHANGED <<keymap, flags, keys_down, now, last, key_events>>

ListenersTick == now < MaxTime /\ now' = now + 1 /\ UNCHANGED <<keymap, flags, kb, keys_down, last, key_events>>

ListenersNext == \/ \E k \in ListenerKeys, dn \in BOOLEAN : KeyEvent(k, dn)
                 \/ \E i \in 1 .. Slots : TimerHandler(i)
                 \/ ListenersTick

ListenersSpec == ListenersInit /\ [][ListenersNext]_listeners_vars
-----------------------------------------------------------------------------
(***************************************************************************)
(* Properties.                                                             *)
(***************************************************************************)

Used(i) == kb.slots[i].position # Nothing
\* The behavior of a sticky key is down: at once, or for a lazy one around its key.
IsPressed(i) == Used(i) /\ ("lazy" \in flags => kb.slots[i].modified # Nothing)

\* No slot is lost: a sticky key that is not free is still held, or its timer runs,
\* or the key that it modifies is down, or its time had passed when it was released
\* and the next key frees it.
SlotAccounted ==
    \A i \in 1 .. Slots : Used(i) =>
        LET k == kb.slots[i] IN
        \/ k.position \in keys_down /\ ~k.started
        \/ k.timer /\ k.modified = Nothing
        \/ k.modified \in kb.keys \cup Explicit(kb) /\ ~(k.started /\ "quick_release" \in flags)
        \/ k.started /\ k.modified = Nothing /\ k.release_at <= now

HeldFor(m) == {k \in keys_down : \/ keymap[k] = [b |-> "kp", u |-> m]
                                 \/ keymap[k].b = "key_repeat" /\ kb.current_keycode_pressed.u = m}

\* A modifier is down exactly as often as sticky keys, held keys and the repeat key
\* ask for it: stacked sticky keys release each other without losing a count.
Balanced ==
    \A m \in Mods :
        kb.counts[m] = Cardinality({i \in 1 .. Slots : IsPressed(i) /\ kb.slots[i].u = m})
                       + Cardinality(HeldFor(m))

\* The sticky keys that the next key is to be modified by
Armed == {i \in 1 .. Slots : Used(i) /\ kb.slots[i].modified = Nothing}
InTime(i, ts) == kb.slots[i].release_at = 0 \/ ts <= kb.slots[i].release_at
Types(k) == keymap[k].b = "kp" /\ keymap[k].u \notin Mods

\* A key is seen by the host under all modifiers that were armed before it, also when
\* the sticky keys are lazy, are released by the same key, or release each other.
StickyModifies(k) ==
    Types(k) =>
        /\ kb'.seen.u = keymap[k].u
        /\ {kb.slots[i].u : i \in {j \in Armed : InTime(j, last')}} \cap Mods \subseteq kb'.seen.mods

\* A key that comes after the time of a sticky key is not modified by it, even if the
\* timer has not run yet.
OverdueDoesNotModify(k) ==
    Types(k) /\ ~kb.caps /\ (\A i \in 1 .. Slots : Used(i) => i \in Armed /\ ~InTime(i, last'))
        => kb'.seen.mods = {m \in Mods : HeldFor(m) # {}}

\* While the caps word is on, letters are seen with its modifiers, whoever raises
\* them; a key that is not part of a word ends it.
CapsWord(k) ==
    LET raised == IF keymap[k].b = "key_repeat" THEN kb.last_keycode_pressed.u ELSE keymap[k].u
    IN  (kb.caps /\ keymap[k].b \in {"kp", "key_repeat"}) =>
        /\ raised \in Letters => CapsMods \subseteq kb'.seen.mods
        /\ kb'.caps = (raised \notin Others)

\* The repeat key shows the host the key it last saw, with the modifiers it saw it with,
\* though the sticky keys and the caps word that gave it those are gone.
RepeatsWhatWasSeen(k) ==
    keymap[k].b = "key_repeat" /\ kb.seen.u # Nothing =>
        kb'.seen.u = kb.seen.u /\ kb.seen.mods \subseteq kb'.seen.mods

\* Sticky keys and modifiers are accounted for; and what the host sees of a key are the
\* modifiers of the sticky keys, the caps word and the repeat key.
StickyAccounted == ListenersTypeOK /\ SlotAccounted /\ Balanced
SeenWithModifiers ==
    [][\A k \in keys_down' \ keys_down :
          StickyModifies(k) /\ OverdueDoesNotModify(k) /\ CapsWord(k) /\ RepeatsWhatWasSeen(k)]_listeners_vars
=============================================================================

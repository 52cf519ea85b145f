--------------------------------- MODULE Hid ---------------------------------
(***************************************************************************)
(* The HID state of the keyboard: what it tells a host is pressed.         *)
(* src/app/src/hid.c keeps the reports and the modifier counts,            *)
(* src/app/src/hid_listener.c updates them for every key code and sends    *)
(* them on, behavior_mod_morph.c masks modifiers.                          *)
(*                                                                         *)
(* All of it runs on the system work queue, one key code at a time.  The   *)
(* state is one record; a handler is a composition of the functions it     *)
(* calls, and `out' collects the reports that it sends, in order.          *)
(***************************************************************************)
EXTENDS Naturals, Sequences, FiniteSets

CONSTANTS
    Mods, Keys, Media,     \* usages: modifiers and keys of the key page, consumer page
    Unsupported,           \* consumer usages above ZMK_HID_CONSUMER_MAX_USAGE
    Nothing,               \* 0: no usage, or no behavior pressed
    KeySlots, MediaSlots,  \* CONFIG_ZMK_HID_{KEYBOARD,CONSUMER}_REPORT_SIZE
    SeparateModRelease,    \* CONFIG_ZMK_HID_SEPARATE_MOD_RELEASE_REPORT
    Bind,     \* key press behaviors: position -> [usage, mods], the encoded key code
    Morph,    \* mod-morphs: name -> [normal, morph, mods, masked]
    MorphOf   \* position -> the mod-morph it is bound to

Usages == Mods \cup Keys \cup Media
\* A key code asks for a modifier once: no keymap has LS(LSHIFT).
Binding == {b \in [usage : Usages, mods : SUBSET Mods] : b.usage \notin b.mods}
Positions == DOMAIN Bind \cup DOMAIN MorphOf
Sources == DOMAIN Bind \cup DOMAIN Morph

ASSUME HidAssumption ==
    /\ Nothing \notin Usages /\ Nothing \notin Binding /\ Unsupported \subseteq Media
    /\ Mods \cap Keys = {} /\ Mods \cap Media = {} /\ Keys \cap Media = {}
    /\ KeySlots \in Nat /\ MediaSlots \in Nat /\ SeparateModRelease \in BOOLEAN
    /\ Bind \in [DOMAIN Bind -> Binding]
    /\ Morph \in [DOMAIN Morph -> [normal : Binding, morph : Binding,
                                   mods : SUBSET Mods, masked : SUBSET Mods]]
    /\ MorphOf \in [DOMAIN MorphOf -> DOMAIN Morph]
    /\ DOMAIN Bind \cap DOMAIN Morph = {} /\ DOMAIN Bind \cap DOMAIN MorphOf = {}
    /\ IsFiniteSet(Sources)

VARIABLES
    hid,    \* see HidState
    held,   \* what each source has pressed: its key code, if its key is down, or
            \* the pressed_binding of a mod-morph
    down    \* positions that are down

vars == <<hid, held, down>>

Page(u) == IF u \in Media THEN "media" ELSE "key"
\* zmk_keycode_state_changed_from_encoded
Explicit(b) == IF b.usage \in Mods THEN b.mods ELSE {}
Implicit(b) == IF b.usage \in Mods THEN {} ELSE b.mods

Report == [mods : SUBSET Mods, keys : [1 .. KeySlots -> Keys \cup {Nothing}],
           media : [1 .. MediaSlots -> Media \cup {Nothing}]]
HidState == [counts : [Mods -> Nat], explicit : SUBSET Mods, implicit : SUBSET Mods,
             masked : SUBSET Mods, report : Report, out : Seq({"key", "media"} \X Report)]

Blank == [mods |-> {}, keys |-> [i \in 1 .. KeySlots |-> Nothing],
          media |-> [i \in 1 .. MediaSlots |-> Nothing]]
-----------------------------------------------------------------------------
(***************************************************************************)
(* hid.c                                                                   *)
(***************************************************************************)
\* SET_MODIFIERS(explicit_modifiers)
SetModifiers(h) == [h EXCEPT !.report.mods = (h.explicit \ h.masked) \cup h.implicit]

\* zmk_hid_register_mods
RegisterMods(h, S) ==
    IF S = {} THEN h
    ELSE SetModifiers([h EXCEPT !.counts = [m \in Mods |-> IF m \in S THEN @[m] + 1 ELSE @[m]],
                                !.explicit = @ \cup S])

\* mutant of UnregisterMods: the modifier is released whatever its count
UnregisterMods_Uncounted(h, S) ==
    IF S = {} THEN h
    ELSE SetModifiers([h EXCEPT
             !.counts = [m \in Mods |-> IF m \in S /\ @[m] > 0 THEN @[m] - 1 ELSE @[m]],
             !.explicit = @ \ S])
\* zmk_hid_unregister_mods; a modifier whose count is zero is refused
UnregisterMods(h, S) ==
    IF \A m \in S : h.counts[m] = 0 THEN h
    ELSE SetModifiers([h EXCEPT
             !.counts = [m \in Mods |-> IF m \in S /\ @[m] > 0 THEN @[m] - 1 ELSE @[m]],
             !.explicit = @ \ {m \in S : h.counts[m] = 1}])

\* mutant of SetImplicit: the report is not brought up to date
SetImplicit_Quiet(h, S) == [h EXCEPT !.implicit = S]
SetImplicit(h, S) == SetModifiers([h EXCEPT !.implicit = S])
\* zmk_hid_masked_modifiers_set, zmk_hid_masked_modifiers_clear
SetMasked(h, S) == SetModifiers([h EXCEPT !.masked = S])

\* mutant of Select: a full report grows
Select_Grows(slots, u) ==
    IF \A i \in DOMAIN slots : slots[i] # Nothing THEN Append(slots, u)
    ELSE [i \in DOMAIN slots |->
             IF slots[i] = Nothing /\ \A j \in DOMAIN slots : j < i => slots[j] # Nothing
             THEN u ELSE slots[i]]
\* TOGGLE_KEYBOARD, TOGGLE_CONSUMER: the first free entry is taken, if any; every entry
\* that matches is freed
Select(slots, u) ==
    [i \in DOMAIN slots |->
        IF slots[i] = Nothing /\ \A j \in DOMAIN slots : j < i => slots[j] # Nothing
        THEN u ELSE slots[i]]
Deselect(slots, u) == [i \in DOMAIN slots |-> IF slots[i] = u THEN Nothing ELSE slots[i]]
In(slots, u) == \E i \in DOMAIN slots : slots[i] = u

\* zmk_hid_press, zmk_hid_release, zmk_hid_is_pressed
HidPress(h, u) ==
    CASE u \in Mods -> RegisterMods(h, {u})
      [] u \in Keys -> [h EXCEPT !.report.keys = Select(@, u)]
      [] OTHER -> [h EXCEPT !.report.media = Select(@, u)]
HidRelease(h, u) ==
    CASE u \in Mods -> UnregisterMods(h, {u})
      [] u \in Keys -> [h EXCEPT !.report.keys = Deselect(@, u)]
      [] OTHER -> [h EXCEPT !.report.media = Deselect(@, u)]
IsPressed(h, u) == In(h.report.keys, u) \/ In(h.report.media, u)

\* zmk_hid_keyboard_clear, zmk_hid_consumer_clear; the counts and modifiers stay
ClearReports(h) == [h EXCEPT !.report = Blank]
-----------------------------------------------------------------------------
(***************************************************************************)
(* hid_listener.c                                                          *)
(***************************************************************************)
\* zmk_endpoint_send_report
Send(h, page) == [h EXCEPT !.out = Append(@, <<page, h.report>>)]

\* the report of modifiers that changed for the sake of a usage on another page: h
\* before, g after
SendMods(h, g, u) ==
    IF Page(u) # "key" /\ h.report.mods # g.report.mods THEN Send(g, "key") ELSE g

\* mutant of Pressed: no release before the press of a usage that is already pressed
Pressed_NoPreRelease(h, b) ==
    LET r == HidPress(h, b.usage)
        s == SetImplicit(RegisterMods(r, Explicit(b)), Implicit(b))
    IN  IF b.usage \in Unsupported THEN h ELSE Send(SendMods(r, s, b.usage), Page(b.usage))
\* hid_listener_keycode_pressed
Pressed(h, b) ==
    LET u == b.usage
        q == IF u \notin Mods /\ IsPressed(h, u) THEN Send(HidRelease(h, u), Page(u)) ELSE h
        r == HidPress(q, u)
        s == SetImplicit(RegisterMods(r, Explicit(b)), Implicit(b))
    IN  IF u \in Unsupported THEN q ELSE Send(SendMods(r, s, u), Page(u))

\* mutant of Released: the modifiers go before the key
Released_ModsFirst(h, b) ==
    LET u == b.usage
        s == SetImplicit(UnregisterMods(h, Explicit(b)), {})
        t == Send(s, Page(u))
    IN  IF u \in Mods /\ h.counts[u] = 0 THEN h
        ELSE Send(SendMods(h, HidRelease(t, u), u), Page(u))
\* mutant of Released: the implicit modifiers stay
Released_ImplicitStays(h, b) ==
    LET u == b.usage
    IN  IF u \in Mods /\ h.counts[u] = 0 THEN h
        ELSE Send(UnregisterMods(HidRelease(h, u), Explicit(b)), Page(u))
\* hid_listener_keycode_released
Released(h, b) ==
    LET u == b.usage
        q == HidRelease(h, u)
        r == IF SeparateModRelease THEN Send(q, Page(u)) ELSE q
        s == SetImplicit(UnregisterMods(r, Explicit(b)), {})
    IN  IF u \in Mods /\ h.counts[u] = 0 THEN h
        ELSE Send(SendMods(r, s, u), Page(u))
-----------------------------------------------------------------------------
(***************************************************************************)
(* The keys.                                                               *)
(***************************************************************************)
\* a handler starts with nothing sent
Now == [hid EXCEPT !.out = <<>>]

\* behavior_key_press.c
KeyDown(p) ==
    /\ p \in DOMAIN Bind
    /\ hid' = Pressed(Now, Bind[p])
    /\ held' = [held EXCEPT ![p] = Bind[p]]

KeyUp(p) ==
    /\ p \in DOMAIN Bind
    /\ hid' = Released(Now, Bind[p])
    /\ held' = [held EXCEPT ![p] = Nothing]

\* on_mod_morph_binding_pressed
MorphDown(p) ==
    /\ p \in DOMAIN MorphOf
    /\ LET m == MorphOf[p]
           morphs == hid.explicit \cap Morph[m].mods # {}
           b == IF morphs THEN Morph[m].morph ELSE Morph[m].normal
       IN  IF held[m] # Nothing
           THEN hid' = Now /\ UNCHANGED held
           ELSE /\ hid' = Pressed(IF morphs THEN SetMasked(Now, Morph[m].masked) ELSE Now, b)
                /\ held' = [held EXCEPT ![m] = b]

\* on_mod_morph_binding_released
MorphUp(p) ==
    /\ p \in DOMAIN MorphOf
    /\ LET m == MorphOf[p]
       IN  IF held[m] = Nothing
           THEN hid' = Now /\ UNCHANGED held
           ELSE /\ hid' = SetMasked(Released(Now, held[m]), {})
                /\ held' = [held EXCEPT ![m] = Nothing]

PressKey(p) == /\ p \notin down /\ down' = down \cup {p}
               /\ KeyDown(p) \/ MorphDown(p)
ReleaseKey(p) == /\ p \in down /\ down' = down \ {p}
                 /\ KeyUp(p) \/ MorphUp(p)

\* zmk_endpoint_clear_reports, when the endpoint changes (see Endpoints)
Clear == /\ hid' = Send(Send(ClearReports(Now), "key"), "media")
         /\ UNCHANGED <<held, down>>

Init == /\ hid = [counts |-> [m \in Mods |-> 0], explicit |-> {}, implicit |-> {},
                  masked |-> {}, report |-> Blank, out |-> <<>>]
        /\ held = [s \in Sources |-> Nothing]
        /\ down = {}

Next == (\E p \in Positions : PressKey(p) \/ ReleaseKey(p)) \/ Clear

Spec == Init /\ [][Next]_vars
-----------------------------------------------------------------------------
(***************************************************************************)
(* Properties.                                                             *)
(***************************************************************************)
TypeOK == /\ hid \in HidState
          /\ held \in [Sources -> Binding \cup {Nothing}]
          /\ down \subseteq Positions

\* The sources that have modifier m pressed as such.
AskFor(m) == {s \in Sources : held[s] # Nothing
                                /\ (held[s].usage = m \/ m \in Explicit(held[s]))}

\* Modifiers are counted: a modifier is down exactly as long as some key that is held
\* asks for it, in whatever order keys sharing it are pressed and released, and even
\* across a change of endpoint.
ModCounted == \A m \in Mods : /\ hid.counts[m] = Cardinality(AskFor(m))
                              /\ m \in hid.explicit <=> AskFor(m) # {}

\* A usage is reported pressed only while a key holds it, and in one entry of the report,
\* so that nothing is stuck for the host once all keys are up.
NoStuckUsage ==
    /\ \A u \in Keys \cup Media : IsPressed(hid, u) => \E s \in Sources : held[s] # Nothing
                                                                    /\ held[s].usage = u
    /\ \A i, j \in 1 .. KeySlots : hid.report.keys[i] = hid.report.keys[j] /\ i # j
                                      => hid.report.keys[i] = Nothing

\* With every source released, no modifier is reported either.
NoStuckModifier == (\A s \in Sources : held[s] = Nothing) => hid.report.mods = {}

\* The report says what the modifiers are, unless it was cleared and no key has moved since.
ModsReported == \/ hid.report.mods = (hid.explicit \ hid.masked) \cup hid.implicit
                \/ hid.report = Blank

\* what a report shows of keys and consumer usages
UsagesIn(r) == {u \in Keys \cup Media : In(r.keys, u) \/ In(r.media, u)}
\* the reports that a host sees in a step, the one before it first: none of them that is
\* followed by fewer modifiers shows a usage that the step takes away
KeyGoesFirst ==
    LET seen == <<hid.report>> \o [i \in DOMAIN hid'.out |-> hid'.out[i][2]]
    IN  SeparateModRelease /\ down' # down =>
          \A i \in 1 .. Len(seen) - 1 :
              seen[i].mods \ seen[i + 1].mods # {}
                => UsagesIn(seen[i]) \subseteq UsagesIn(hid'.report)

\* With separate reports for the release of modifiers, a host sees a modifier go up only
\* after the keys that go up with it: "fix the issue of some programs recognizing the
\* implicit_mod release before the actual key release" (hid_listener.c).
KeyBeforeModifiers == [][KeyGoesFirst]_vars

\* What the host has been told is what is held, and nothing is held for good.
ReportsFollow == TypeOK /\ NoStuckUsage /\ NoStuckModifier /\ ModsReported
=============================================================================

--------------------------- MODULE Endpoints_proofs ---------------------------
(***************************************************************************)
(* Proofs about Hid and Endpoints, for every set of usages, every report   *)
(* size, every keymap of key presses and mod-morphs, every set of profiles *)
(* and every queue size.                                                   *)
(*                                                                         *)
(* First Hid alone: nothing stays down, and keys go before modifiers.      *)
(* Then its hosts: one that is not selected has nothing pressed.  That     *)
(* argument is about what each page of each host will show once the        *)
(* reports that are queued for it have been sent.                          *)
(***************************************************************************)
EXTENDS Endpoints, FiniteSetTheorems, WellFoundedInduction, TLAPS

\* What a held key code asks of modifier m.
Asks(b, m) == b.usage = m \/ m \in Explicit(b)
One(b, m) == IF Asks(b, m) THEN 1 ELSE 0

\* The fields that the modifier functions leave alone.
SameCounts(g, h) == g.counts = h.counts /\ g.explicit = h.explicit
-----------------------------------------------------------------------------
(* The functions of hid.c *)

\* SetModifiers writes the report's modifiers only.
LEMMA SetModifiersEffect ==
    ASSUME NEW h \in HidState
    PROVE  SetModifiers(h) \in HidState /\ SameCounts(SetModifiers(h), h)
BY DEF SetModifiers, HidState, Report, SameCounts

\* Registering counts each modifier once and makes it explicit.
LEMMA RegisterEffect ==
    ASSUME NEW h \in HidState, NEW S \in SUBSET Mods
    PROVE  /\ RegisterMods(h, S) \in HidState
           /\ RegisterMods(h, S).explicit = h.explicit \cup S
           /\ \A m \in Mods : RegisterMods(h, S).counts[m] = h.counts[m] + (IF m \in S THEN 1 ELSE 0)
<1> DEFINE c == [m \in Mods |-> IF m \in S THEN h.counts[m] + 1 ELSE h.counts[m]]
           g == [h EXCEPT !.counts = c, !.explicit = @ \cup S]
<1>0. h.counts \in [Mods -> Nat] /\ h.explicit \in SUBSET Mods BY DEF HidState
<1>1. /\ c \in [Mods -> Nat]
      /\ \A m \in Mods : c[m] = h.counts[m] + (IF m \in S THEN 1 ELSE 0)
  BY <1>0
<1>2. CASE S = {} BY <1>0, <1>2 DEF RegisterMods
<1>3. CASE S # {}
  <2>1. RegisterMods(h, S) = SetModifiers(g) BY <1>3 DEF RegisterMods
  <2> HIDE DEF c
  <2>2. g \in HidState /\ g.counts = c /\ g.explicit = h.explicit \cup S
    BY <1>0, <1>1 DEF HidState
  <2> HIDE DEF g
  <2> QED BY <1>1, <2>1, <2>2, SetModifiersEffect DEF SameCounts
<1> QED BY <1>2, <1>3

\* Unregistering modifiers that are counted takes one off each count, and those whose count
\* was one are no longer explicit.
LEMMA UnregisterEffect ==
    ASSUME NEW h \in HidState, NEW S \in SUBSET Mods, \A m \in S : h.counts[m] > 0
    PROVE  /\ UnregisterMods(h, S) \in HidState
           /\ UnregisterMods(h, S).explicit = h.explicit \ {m \in S : h.counts[m] = 1}
           /\ \A m \in Mods :
                UnregisterMods(h, S).counts[m] = h.counts[m] - (IF m \in S THEN 1 ELSE 0)
<1> DEFINE c == [m \in Mods |-> IF m \in S /\ h.counts[m] > 0 THEN h.counts[m] - 1
                                ELSE h.counts[m]]
           e == h.explicit \ {m \in S : h.counts[m] = 1}
           g == [h EXCEPT !.counts = c, !.explicit = e]
<1>0. h.counts \in [Mods -> Nat] /\ h.explicit \in SUBSET Mods BY DEF HidState
<1>1. /\ c \in [Mods -> Nat] /\ e \in SUBSET Mods
      /\ \A m \in Mods : c[m] = h.counts[m] - (IF m \in S THEN 1 ELSE 0)
  BY <1>0
<1>2. CASE S = {}
  <2>1. UnregisterMods(h, S) = h BY <1>2 DEF UnregisterMods
  <2> QED BY <1>0, <1>2, <2>1
<1>3. CASE S # {}
  <2>1. ~(\A m \in S : h.counts[m] = 0) BY <1>0, <1>3
  <2>2. UnregisterMods(h, S) = SetModifiers(g) BY <2>1 DEF UnregisterMods
  <2> HIDE DEF c, e
  <2>3. g \in HidState /\ g.counts = c /\ g.explicit = e BY <1>1 DEF HidState
  <2> HIDE DEF g
  <2>4. /\ UnregisterMods(h, S) \in HidState
        /\ UnregisterMods(h, S).explicit = e /\ UnregisterMods(h, S).counts = c
    BY <2>2, <2>3, SetModifiersEffect DEF SameCounts
  <2> QED BY <1>1, <2>4 DEF e
<1> QED BY <1>2, <1>3

\* Implicit and masked modifiers are not counted.
LEMMA ImplicitMaskedEffect ==
    ASSUME NEW h \in HidState, NEW S \in SUBSET Mods
    PROVE  /\ SetImplicit(h, S) \in HidState /\ SameCounts(SetImplicit(h, S), h)
           /\ SetMasked(h, S) \in HidState /\ SameCounts(SetMasked(h, S), h)
<1> DEFINE g == [h EXCEPT !.implicit = S]  k == [h EXCEPT !.masked = S]
<1>1. g \in HidState /\ SameCounts(g, h) /\ k \in HidState /\ SameCounts(k, h)
  BY DEF HidState, SameCounts
<1>2. SetImplicit(h, S) = SetModifiers(g) /\ SetMasked(h, S) = SetModifiers(k)
  BY DEF SetImplicit, SetMasked
<1> HIDE DEF g, k
<1> QED BY <1>1, <1>2, SetModifiersEffect DEF SameCounts

\* A report keeps its size and its kind of entries.
LEMMA SlotsType ==
    ASSUME NEW n \in Nat, NEW U, NEW slots \in [1 .. n -> U], NEW u \in U, Nothing \in U
    PROVE  Select(slots, u) \in [1 .. n -> U] /\ Deselect(slots, u) \in [1 .. n -> U]
BY DEF Select, Deselect

\* Pressing a usage counts it if it is a modifier, and counts nothing else.
LEMMA PressEffect ==
    ASSUME NEW h \in HidState, NEW u \in Usages
    PROVE  /\ HidPress(h, u) \in HidState
           /\ u \in Mods => /\ HidPress(h, u).explicit = h.explicit \cup {u}
                            /\ \A m \in Mods : HidPress(h, u).counts[m]
                                                 = h.counts[m] + (IF m = u THEN 1 ELSE 0)
           /\ u \notin Mods => SameCounts(HidPress(h, u), h)
<1>1. CASE u \in Mods
  <2>1. HidPress(h, u) = RegisterMods(h, {u}) /\ {u} \in SUBSET Mods
    BY <1>1, HidAssumption DEF HidPress
  <2> QED BY <1>1, <2>1, RegisterEffect
<1>2. CASE u \in Keys
  <2>1. u \notin Mods BY <1>2, HidAssumption
  <2>2. Select(h.report.keys, u) \in [1 .. KeySlots -> Keys \cup {Nothing}]
    BY <1>2, SlotsType, HidAssumption DEF HidState, Report
  <2> QED BY <1>2, <2>1, <2>2 DEF HidPress, HidState, Report, SameCounts
<1>3. CASE u \in Media
  <2>1. u \notin Mods /\ u \notin Keys BY <1>3, HidAssumption
  <2>2. Select(h.report.media, u) \in [1 .. MediaSlots -> Media \cup {Nothing}]
    BY <1>3, SlotsType, HidAssumption DEF HidState, Report
  <2> QED BY <2>1, <2>2 DEF HidPress, HidState, Report, SameCounts
<1> QED BY <1>1, <1>2, <1>3 DEF Usages

\* Releasing takes the count of a modifier back, and counts nothing else.
LEMMA ReleaseEffect ==
    ASSUME NEW h \in HidState, NEW u \in Usages, u \in Mods => h.counts[u] > 0
    PROVE  /\ HidRelease(h, u) \in HidState
           /\ u \in Mods =>
                /\ HidRelease(h, u).explicit = h.explicit \ {m \in {u} : h.counts[m] = 1}
                /\ \A m \in Mods : HidRelease(h, u).counts[m]
                                     = h.counts[m] - (IF m = u THEN 1 ELSE 0)
           /\ u \notin Mods => SameCounts(HidRelease(h, u), h)
<1>1. CASE u \in Mods
  <2>1. HidRelease(h, u) = UnregisterMods(h, {u}) /\ {u} \in SUBSET Mods
    BY <1>1, HidAssumption DEF HidRelease
  <2>2. \A m \in {u} : h.counts[m] > 0 BY <1>1
  <2>3. /\ UnregisterMods(h, {u}) \in HidState
        /\ UnregisterMods(h, {u}).explicit = h.explicit \ {m \in {u} : h.counts[m] = 1}
        /\ \A m \in Mods :
             UnregisterMods(h, {u}).counts[m] = h.counts[m] - (IF m \in {u} THEN 1 ELSE 0)
    BY <2>1, <2>2, UnregisterEffect
  <2> QED BY <1>1, <2>1, <2>3
<1>2. CASE u \in Keys
  <2>1. u \notin Mods BY <1>2, HidAssumption
  <2>2. Deselect(h.report.keys, u) \in [1 .. KeySlots -> Keys \cup {Nothing}]
    BY <1>2, SlotsType, HidAssumption DEF HidState, Report
  <2> QED BY <1>2, <2>1, <2>2 DEF HidRelease, HidState, Report, SameCounts
<1>3. CASE u \in Media
  <2>1. u \notin Mods /\ u \notin Keys BY <1>3, HidAssumption
  <2>2. Deselect(h.report.media, u) \in [1 .. MediaSlots -> Media \cup {Nothing}]
    BY <1>3, SlotsType, HidAssumption DEF HidState, Report
  <2> QED BY <2>1, <2>2 DEF HidRelease, HidState, Report, SameCounts
<1> QED BY <1>1, <1>2, <1>3 DEF Usages
-----------------------------------------------------------------------------
(* The handlers of hid_listener.c *)

\* Sending only appends to what has been sent.
LEMMA SendEffect ==
    ASSUME NEW h \in HidState, NEW page \in {"key", "media"}
    PROVE  Send(h, page) \in HidState /\ SameCounts(Send(h, page), h)
<1> DEFINE x == <<page, h.report>>
           o == Append(h.out, x)
<1>1. x \in {"key", "media"} \X Report /\ h.out \in Seq({"key", "media"} \X Report)
  BY DEF HidState
<1>2. Send(h, page) = [h EXCEPT !.out = o] BY DEF Send, HidState
<1> HIDE DEF x
<1>3. o \in Seq({"key", "media"} \X Report) BY <1>1
<1> HIDE DEF o
<1> QED BY <1>2, <1>3 DEF HidState, SameCounts

LEMMA SendModsEffect ==
    ASSUME NEW h \in HidState, NEW g \in HidState, NEW u
    PROVE  SendMods(h, g, u) \in HidState /\ SameCounts(SendMods(h, g, u), g)
BY SendEffect DEF SendMods, SameCounts

\* A press counts exactly the modifiers that the key code asks for, once each.
LEMMA PressedEffect ==
    ASSUME NEW h \in HidState, NEW b \in Binding
    PROVE  /\ Pressed(h, b) \in HidState
           /\ Pressed(h, b).explicit = h.explicit \cup {m \in Mods : Asks(b, m)}
           /\ \A m \in Mods : Pressed(h, b).counts[m] = h.counts[m] + One(b, m)
<1> DEFINE u == b.usage
           q == IF u \notin Mods /\ IsPressed(h, u) THEN Send(HidRelease(h, u), Page(u)) ELSE h
           r == HidPress(q, u)
           t == RegisterMods(r, Explicit(b))
           s == SetImplicit(t, Implicit(b))
           g == SendMods(r, s, u)
<1>0. /\ u \in Usages /\ Page(u) \in {"key", "media"} /\ u \notin b.mods
      /\ Explicit(b) \in SUBSET Mods /\ Implicit(b) \in SUBSET Mods
      /\ u \notin Mods => Explicit(b) = {}
  BY DEF Binding, Page, Explicit, Implicit
<1>1. q \in HidState /\ SameCounts(q, h)
  <2>1. CASE u \notin Mods /\ IsPressed(h, u)
    <3>1. HidRelease(h, u) \in HidState /\ SameCounts(HidRelease(h, u), h)
      BY <1>0, <2>1, ReleaseEffect
    <3> QED BY <1>0, <2>1, <3>1, SendEffect DEF SameCounts
  <2>2. CASE ~(u \notin Mods /\ IsPressed(h, u)) BY <2>2 DEF SameCounts
  <2> QED BY <2>1, <2>2
<1>2. Pressed(h, b) = IF u \in Unsupported THEN q ELSE Send(g, Page(u))
  BY DEF Pressed
<1> HIDE DEF u, q
<1>3. CASE u \in Unsupported
  <2>1. \A m \in Mods : ~Asks(b, m)
    BY <1>0, <1>3, HidAssumption DEF Asks, u
  <2> QED BY <1>1, <1>2, <1>3, <2>1 DEF SameCounts, One, HidState
<1>4. CASE u \notin Unsupported
  <2>1. /\ r \in HidState
        /\ r.explicit = h.explicit \cup {m \in Mods : m = u}
        /\ \A m \in Mods : r.counts[m] = h.counts[m] + (IF m = u THEN 1 ELSE 0)
    <3>1. CASE u \in Mods
      <4>1. /\ r \in HidState /\ r.explicit = q.explicit \cup {u}
            /\ \A m \in Mods : r.counts[m] = q.counts[m] + (IF m = u THEN 1 ELSE 0)
        BY <1>0, <1>1, <3>1, PressEffect
      <4> QED BY <1>1, <3>1, <4>1 DEF SameCounts
    <3>2. CASE u \notin Mods
      <4>1. r \in HidState /\ SameCounts(r, q) BY <1>0, <1>1, <3>2, PressEffect
      <4> QED BY <1>1, <3>2, <4>1 DEF SameCounts, HidState
    <3> QED BY <3>1, <3>2
  <2> HIDE DEF r
  <2>2. /\ t \in HidState
        /\ t.explicit = r.explicit \cup Explicit(b)
        /\ \A m \in Mods : t.counts[m] = r.counts[m] + (IF m \in Explicit(b) THEN 1 ELSE 0)
    BY <1>0, <2>1, RegisterEffect
  <2> HIDE DEF t
  <2>3. s \in HidState /\ SameCounts(s, t) BY <1>0, <2>2, ImplicitMaskedEffect
  <2> HIDE DEF s
  <2>4. g \in HidState /\ SameCounts(g, s) BY <2>1, <2>3, SendModsEffect
  <2> HIDE DEF g
  <2>5. Send(g, Page(u)) \in HidState /\ SameCounts(Send(g, Page(u)), t)
    BY <1>0, <2>3, <2>4, SendEffect DEF SameCounts
  <2>6. \A m \in Mods : One(b, m) = (IF m = u THEN 1 ELSE 0) + (IF m \in Explicit(b) THEN 1 ELSE 0)
    BY <1>0 DEF One, Asks, Explicit, u
  <2>7. {m \in Mods : Asks(b, m)} = {m \in Mods : m = u} \cup Explicit(b)
    BY <1>0 DEF Asks, u
  <2>8. \A m \in Mods : t.counts[m] = h.counts[m] + One(b, m)
    <3>1. h.counts \in [Mods -> Nat] BY DEF HidState
    <3> QED BY <2>1, <2>2, <2>6, <3>1
  <2> QED BY <1>2, <1>4, <2>1, <2>2, <2>5, <2>7, <2>8 DEF SameCounts
<1> QED BY <1>3, <1>4

\* A release takes exactly those counts back, provided that they are there.
LEMMA ReleasedEffect ==
    ASSUME NEW h \in HidState, NEW b \in Binding,
           \A m \in Mods : Asks(b, m) => h.counts[m] > 0
    PROVE  /\ Released(h, b) \in HidState
           /\ Released(h, b).explicit = h.explicit \ {m \in Mods : Asks(b, m) /\ h.counts[m] = 1}
           /\ \A m \in Mods : Released(h, b).counts[m] = h.counts[m] - One(b, m)
<1> DEFINE u == b.usage
           q == HidRelease(h, u)
           r == IF SeparateModRelease THEN Send(q, Page(u)) ELSE q
           t == UnregisterMods(r, Explicit(b))
           s == SetImplicit(t, {})
           g == SendMods(r, s, u)
<1>0. /\ u \in Usages /\ Page(u) \in {"key", "media"} /\ u \notin b.mods
      /\ Explicit(b) \in SUBSET Mods /\ u \notin Explicit(b)
      /\ h.counts \in [Mods -> Nat]
  BY DEF Binding, Page, Explicit, HidState
<1>1. u \in Mods => h.counts[u] > 0 BY DEF Asks
<1>2. Released(h, b) = Send(g, Page(u)) BY <1>0, <1>1 DEF Released
<1>3. \A m \in Explicit(b) : h.counts[m] > 0 BY <1>0 DEF Asks
<1>a. \A m \in Mods : Asks(b, m) <=> m = u \/ m \in Explicit(b) BY DEF Asks
<1> HIDE DEF u
<1>4. /\ q \in HidState
      /\ q.explicit = h.explicit \ {m \in Mods : m = u /\ h.counts[m] = 1}
      /\ \A m \in Mods : q.counts[m] = h.counts[m] - (IF m = u THEN 1 ELSE 0)
  <2>1. CASE u \in Mods
    <3>1. /\ q \in HidState /\ q.explicit = h.explicit \ {m \in {u} : h.counts[m] = 1}
          /\ \A m \in Mods : q.counts[m] = h.counts[m] - (IF m = u THEN 1 ELSE 0)
      BY <1>0, <1>1, <2>1, ReleaseEffect
    <3> QED BY <2>1, <3>1
  <2>2. CASE u \notin Mods
    <3>1. q \in HidState /\ SameCounts(q, h) BY <1>0, <1>1, <2>2, ReleaseEffect
    <3> QED BY <1>0, <2>2, <3>1 DEF SameCounts
  <2> QED BY <2>1, <2>2
<1> HIDE DEF q
<1>5. r \in HidState /\ SameCounts(r, q) BY <1>0, <1>4, SendEffect DEF SameCounts
<1> HIDE DEF r
<1>6. \A m \in Explicit(b) : r.counts[m] = h.counts[m] /\ r.counts[m] > 0
  BY <1>0, <1>3, <1>4, <1>5 DEF SameCounts
<1>7. /\ t \in HidState
      /\ t.explicit = r.explicit \ {m \in Explicit(b) : r.counts[m] = 1}
      /\ \A m \in Mods : t.counts[m] = r.counts[m] - (IF m \in Explicit(b) THEN 1 ELSE 0)
  BY <1>0, <1>5, <1>6, UnregisterEffect
<1> HIDE DEF t
<1>8. s \in HidState /\ SameCounts(s, t) BY <1>7, ImplicitMaskedEffect
<1> HIDE DEF s
<1>9. g \in HidState /\ SameCounts(g, s) BY <1>5, <1>8, SendModsEffect
<1> HIDE DEF g
<1>10. Send(g, Page(u)) \in HidState /\ SameCounts(Send(g, Page(u)), t)
  BY <1>0, <1>8, <1>9, SendEffect DEF SameCounts
<1>11. \A m \in Mods : t.counts[m] = h.counts[m] - One(b, m)
  BY <1>0, <1>a, <1>4, <1>5, <1>7 DEF SameCounts, One
<1>12. t.explicit = h.explicit \ {m \in Mods : Asks(b, m) /\ h.counts[m] = 1}
  BY <1>0, <1>a, <1>4, <1>5, <1>6, <1>7 DEF SameCounts
<1> QED BY <1>2, <1>10, <1>11, <1>12 DEF SameCounts
-----------------------------------------------------------------------------
(* The keys *)

\* The sources that ask for m when held is f.
AskIn(f, m) == {s \in Sources : f[s] # Nothing /\ Asks(f[s], m)}

\* ModCounted, of a HID state and what the sources hold.
Counted(h, f) == \A m \in Mods : /\ h.counts[m] = Cardinality(AskIn(f, m))
                                 /\ m \in h.explicit <=> AskIn(f, m) # {}

LEMMA CountedIsModCounted == ModCounted <=> Counted(hid, held)
BY DEF ModCounted, Counted, AskFor, AskIn, Asks

LEMMA AskFinite == \A f, m : IsFiniteSet(AskIn(f, m))
BY FS_Subset, HidAssumption DEF AskIn

\* A source that takes a key code up adds itself to those that ask for its modifiers.
LEMMA CountedPressed ==
    ASSUME NEW h \in HidState, NEW f \in [Sources -> Binding \cup {Nothing}], Counted(h, f),
           NEW s \in Sources, f[s] = Nothing, NEW b \in Binding
    PROVE  Pressed(h, b) \in HidState /\ Counted(Pressed(h, b), [f EXCEPT ![s] = b])
<1> DEFINE g == Pressed(h, b)
           F == [f EXCEPT ![s] = b]
<1>1. /\ g \in HidState
      /\ g.explicit = h.explicit \cup {m \in Mods : Asks(b, m)}
      /\ \A m \in Mods : g.counts[m] = h.counts[m] + One(b, m)
  BY PressedEffect
<1> HIDE DEF g
<1>2. ASSUME NEW m \in Mods
      PROVE  g.counts[m] = Cardinality(AskIn(F, m)) /\ (m \in g.explicit <=> AskIn(F, m) # {})
  <2>1. s \notin AskIn(f, m) /\ IsFiniteSet(AskIn(f, m)) BY AskFinite DEF AskIn
  <2>2. CASE Asks(b, m)
    <3>1. AskIn(F, m) = AskIn(f, m) \cup {s} BY <2>2, HidAssumption DEF AskIn
    <3>2. Cardinality(AskIn(F, m)) = Cardinality(AskIn(f, m)) + 1
      BY <2>1, <3>1, FS_AddElement
    <3>3. AskIn(F, m) # {} /\ m \in g.explicit BY <1>1, <2>2, <3>1
    <3> QED BY <1>1, <2>2, <3>2, <3>3 DEF Counted, One
  <2>3. CASE ~Asks(b, m)
    <3>1. AskIn(F, m) = AskIn(f, m) BY <2>3 DEF AskIn
    <3>2. g.counts[m] = h.counts[m] BY <1>1, <2>3 DEF One, HidState
    <3> QED BY <1>1, <2>3, <3>1, <3>2 DEF Counted
  <2> QED BY <2>2, <2>3
<1> QED BY <1>1, <1>2 DEF Counted, g

\* What a source holds is counted.
LEMMA HeldIsCounted ==
    ASSUME NEW h \in HidState, NEW f, Counted(h, f), NEW s \in Sources, f[s] # Nothing
    PROVE  \A m \in Mods : Asks(f[s], m) => h.counts[m] > 0
<1> SUFFICES ASSUME NEW m \in Mods, Asks(f[s], m) PROVE h.counts[m] > 0 OBVIOUS
<1>1. AskIn(f, m) # {} BY DEF AskIn
<1>2. h.counts[m] = Cardinality(AskIn(f, m)) /\ h.counts[m] \in Nat BY DEF Counted, HidState
<1> QED BY <1>1, <1>2, AskFinite, FS_EmptySet

\* A source that lets its key code go takes itself away again.
LEMMA CountedReleased ==
    ASSUME NEW h \in HidState, NEW f \in [Sources -> Binding \cup {Nothing}], Counted(h, f),
           NEW s \in Sources, f[s] # Nothing
    PROVE  Released(h, f[s]) \in HidState /\ Counted(Released(h, f[s]), [f EXCEPT ![s] = Nothing])
<1> DEFINE b == f[s]
           g == Released(h, b)
           F == [f EXCEPT ![s] = Nothing]
<1>0. b \in Binding OBVIOUS
<1>1. ASSUME NEW m \in Mods
      PROVE  /\ Asks(b, m) <=> s \in AskIn(f, m)
             /\ IsFiniteSet(AskIn(f, m)) /\ AskIn(F, m) = AskIn(f, m) \ {s}
             /\ h.counts[m] = Cardinality(AskIn(f, m)) /\ h.counts[m] \in Nat
             /\ m \in h.explicit <=> AskIn(f, m) # {}
  BY <1>1, AskFinite DEF AskIn, Counted, HidState
<1>2. \A m \in Mods : Asks(b, m) => h.counts[m] > 0
  BY HeldIsCounted
<1>3. /\ g \in HidState
      /\ g.explicit = h.explicit \ {m \in Mods : Asks(b, m) /\ h.counts[m] = 1}
      /\ \A m \in Mods : g.counts[m] = h.counts[m] - One(b, m)
  BY <1>0, <1>2, ReleasedEffect
<1> HIDE DEF g, b
<1>4. ASSUME NEW m \in Mods
      PROVE  g.counts[m] = Cardinality(AskIn(F, m)) /\ (m \in g.explicit <=> AskIn(F, m) # {})
  <2>1. CASE Asks(b, m)
    <3>1. Cardinality(AskIn(F, m)) = h.counts[m] - 1
      BY <1>1, <2>1, FS_RemoveElement
    <3>2. IsFiniteSet(AskIn(F, m)) BY <1>1, FS_Subset
    <3>3. AskIn(F, m) # {} <=> h.counts[m] # 1 BY <1>1, <3>1, <3>2, FS_EmptySet
    <3>4. m \in h.explicit BY <1>1, <2>1
    <3> QED BY <1>3, <2>1, <3>1, <3>3, <3>4 DEF One
  <2>2. CASE ~Asks(b, m)
    <3>1. AskIn(F, m) = AskIn(f, m) BY <1>1, <2>2
    <3>2. g.counts[m] = h.counts[m] BY <1>1, <1>3, <2>2 DEF One
    <3> QED BY <1>1, <1>3, <2>2, <3>1, <3>2
  <2> QED BY <2>1, <2>2
<1> QED BY <1>3, <1>4 DEF Counted, g, b
-----------------------------------------------------------------------------
(* The invariant *)

\* A key press behavior holds its key code exactly while its position is down, so that a
\* press finds it free and a release finds what it pressed.
KeysHold == \A p \in DOMAIN Bind : held[p] = IF p \in down THEN Bind[p] ELSE Nothing

IInv == TypeOK /\ Counted(hid, held) /\ KeysHold

LEMMA NowEffect == hid \in HidState => Now \in HidState /\ SameCounts(Now, hid)
<1> SUFFICES ASSUME hid \in HidState PROVE Now \in HidState /\ SameCounts(Now, hid) OBVIOUS
<1>1. <<>> \in Seq({"key", "media"} \X Report) OBVIOUS
<1> QED BY <1>1 DEF Now, HidState, SameCounts

LEMMA CountedFrame ==
    ASSUME NEW h, NEW g, NEW f, SameCounts(g, h), Counted(h, f)
    PROVE  Counted(g, f)
BY DEF SameCounts, Counted

LEMMA InitIInv == Init => IInv
<1> SUFFICES ASSUME Init PROVE IInv OBVIOUS
<1>1. Blank \in Report BY DEF Blank, Report
<1>2. hid \in HidState
  <2>1. <<>> \in Seq({"key", "media"} \X Report) OBVIOUS
  <2> QED BY <1>1, <2>1 DEF Init, HidState
<1>3. \A m : AskIn(held, m) = {} BY DEF Init, AskIn
<1>4. Counted(hid, held) BY <1>3, FS_EmptySet DEF Init, Counted
<1> QED BY <1>2, <1>4 DEF Init, IInv, TypeOK, KeysHold, Sources

LEMMA NextIInv == IInv /\ [Next]_vars => IInv'
<1> SUFFICES ASSUME IInv, [Next]_vars PROVE IInv' OBVIOUS
<1>1. /\ hid \in HidState /\ held \in [Sources -> Binding \cup {Nothing}]
      /\ down \in SUBSET Positions /\ Counted(hid, held) /\ KeysHold
      /\ Now \in HidState /\ Counted(Now, held)
  BY NowEffect, CountedFrame DEF IInv, TypeOK
<1>2. ASSUME NEW p \in Positions, p \notin down, down' = down \cup {p}, KeyDown(p) PROVE IInv'
  <2>1. p \in Sources /\ p \in DOMAIN Bind /\ held[p] = Nothing /\ Bind[p] \in Binding
    BY <1>1, <1>2, HidAssumption DEF KeyDown, KeysHold, Sources
  <2>2. hid' \in HidState /\ Counted(hid', held')
    BY <1>1, <1>2, <2>1, CountedPressed DEF KeyDown
  <2>3. KeysHold' BY <1>1, <1>2, <2>1 DEF KeyDown, KeysHold, Sources
  <2>4. held' \in [Sources -> Binding \cup {Nothing}] BY <1>1, <1>2, <2>1 DEF KeyDown
  <2> QED BY <1>1, <1>2, <2>2, <2>3, <2>4 DEF IInv, TypeOK
<1>3. ASSUME NEW p \in Positions, p \in down, down' = down \ {p}, KeyUp(p) PROVE IInv'
  <2>1. /\ p \in Sources /\ p \in DOMAIN Bind /\ held[p] = Bind[p] /\ held[p] # Nothing
    BY <1>1, <1>3, HidAssumption DEF KeyUp, KeysHold, Sources
  <2>2. hid' \in HidState /\ Counted(hid', held')
    BY <1>1, <1>3, <2>1, CountedReleased DEF KeyUp
  <2>3. KeysHold' BY <1>1, <1>3, <2>1 DEF KeyUp, KeysHold, Sources
  <2>4. held' \in [Sources -> Binding \cup {Nothing}] BY <1>1, <1>3, <2>1 DEF KeyUp
  <2> QED BY <1>1, <1>3, <2>2, <2>3, <2>4 DEF IInv, TypeOK
<1>4. ASSUME NEW p \in Positions, down' \in SUBSET Positions, p \in DOMAIN MorphOf,
             down' = down \cup {p} \/ down' = down \ {p},
             NEW m \in DOMAIN Morph, hid' \in HidState, Counted(hid', held'),
             NEW x \in Binding \cup {Nothing}, held' = held \/ held' = [held EXCEPT ![m] = x]
      PROVE  IInv'
  <2>1. m \in Sources /\ m \notin DOMAIN Bind /\ p \notin DOMAIN Bind
    BY <1>4, HidAssumption DEF Sources
  <2>2. KeysHold'
    <3>1. \A s \in DOMAIN Bind : held'[s] = held[s] /\ (s \in down' <=> s \in down)
      BY <1>1, <1>4, <2>1 DEF Sources
    <3> QED BY <1>1, <3>1 DEF KeysHold
  <2>3. held' \in [Sources -> Binding \cup {Nothing}] BY <1>1, <1>4, <2>1
  <2> QED BY <1>4, <2>2, <2>3 DEF IInv, TypeOK
<1>5. ASSUME NEW p \in Positions, p \notin down, down' = down \cup {p}, MorphDown(p) PROVE IInv'
  <2> DEFINE m == MorphOf[p]
             morphs == hid.explicit \cap Morph[m].mods # {}
             b == IF morphs THEN Morph[m].morph ELSE Morph[m].normal
             h == IF morphs THEN SetMasked(Now, Morph[m].masked) ELSE Now
  <2>1. /\ p \in DOMAIN MorphOf /\ m \in DOMAIN Morph /\ m \in Sources /\ b \in Binding
        /\ Morph[m].masked \in SUBSET Mods
    BY <1>5, HidAssumption DEF MorphDown, Sources
  <2>2. h \in HidState /\ Counted(h, held)
    BY <1>1, <2>1, ImplicitMaskedEffect, CountedFrame
  <2>3. CASE held[m] # Nothing
    <3>1. hid' = Now /\ held' = held BY <1>5, <2>3 DEF MorphDown
    <3> QED BY <1>1, <1>4, <1>5, <2>1, <3>1
  <2>4. CASE held[m] = Nothing
    <3>1. hid' = Pressed(h, b) /\ held' = [held EXCEPT ![m] = b] BY <1>5, <2>4 DEF MorphDown
    <3> HIDE DEF h, b, m
    <3>2. hid' \in HidState /\ Counted(hid', held')
      BY <1>1, <2>1, <2>2, <2>4, <3>1, CountedPressed
    <3> QED BY <1>1, <1>4, <1>5, <2>1, <3>1, <3>2
  <2> QED BY <2>3, <2>4
<1>6. ASSUME NEW p \in Positions, p \in down, down' = down \ {p}, MorphUp(p) PROVE IInv'
  <2> DEFINE m == MorphOf[p]
  <2>1. p \in DOMAIN MorphOf /\ m \in DOMAIN Morph /\ m \in Sources
    BY <1>6, HidAssumption DEF MorphUp, Sources
  <2>2. CASE held[m] = Nothing
    <3>1. hid' = Now /\ held' = held BY <1>6, <2>2 DEF MorphUp
    <3> QED BY <1>1, <1>4, <1>6, <2>1, <3>1
  <2>3. CASE held[m] # Nothing
    <3>1. hid' = SetMasked(Released(Now, held[m]), {}) /\ held' = [held EXCEPT ![m] = Nothing]
      BY <1>6, <2>3 DEF MorphUp
    <3> HIDE DEF m
    <3>2. Released(Now, held[m]) \in HidState /\ Counted(Released(Now, held[m]), held')
      BY <1>1, <2>1, <2>3, <3>1, CountedReleased
    <3>3. hid' \in HidState /\ Counted(hid', held')
      BY <3>1, <3>2, ImplicitMaskedEffect, CountedFrame
    <3> QED BY <1>1, <1>4, <1>6, <2>1, <3>1, <3>3
  <2> QED BY <2>2, <2>3
<1>7. ASSUME Clear PROVE IInv'
  <2> DEFINE g == [Now EXCEPT !.report = Blank]
  <2>1. g \in HidState /\ SameCounts(g, Now)
    BY <1>1 DEF Blank, Report, HidState, SameCounts
  <2>2. hid' = Send(Send(g, "key"), "media") /\ held' = held /\ down' = down
    BY <1>7 DEF Clear, ClearReports
  <2> HIDE DEF g
  <2>3. hid' \in HidState /\ SameCounts(hid', Now)
    <3>1. Send(g, "key") \in HidState /\ SameCounts(Send(g, "key"), g) BY <2>1, SendEffect
    <3> QED BY <2>1, <2>2, <3>1, SendEffect DEF SameCounts
  <2> QED BY <1>1, <2>2, <2>3, CountedFrame DEF IInv, TypeOK, KeysHold
<1>8. CASE UNCHANGED vars
  BY <1>8 DEF IInv, TypeOK, KeysHold, Counted, AskIn, vars
<1> QED BY <1>2, <1>3, <1>5, <1>6, <1>7, <1>8 DEF Next, PressKey, ReleaseKey

THEOREM Invariance == Spec => []IInv
BY InitIInv, NextIInv, PTL DEF Spec

\* The HID state and what the keys hold keep their types.
THEOREM TypeCorrect == Spec => []TypeOK
BY Invariance, PTL DEF IInv

\* A modifier is down exactly as long as a key that asks for it is held (hid.c's explicit
\* modifier counts), whatever keys share it and in whatever order they come and go.
THEOREM ModifiersCounted == Spec => []ModCounted
<1>1. IInv => ModCounted BY CountedIsModCounted DEF IInv
<1> QED BY Invariance, <1>1, PTL
-----------------------------------------------------------------------------
(* What the reports say *)

\* A nonempty set of natural numbers has a least one.
LEMMA Least ==
    ASSUME NEW T \in SUBSET Nat, T # {}
    PROVE  \E x \in T : \A y \in T : x <= y
<1> DEFINE R == {ss \in Nat \X Nat : ss[1] < ss[2]}
<1>1. IsWellFoundedOn(R, Nat) BY NatLessThanWellFounded DEF OpToRel
<1>2. \A x, y \in Nat : y < x => <<y, x>> \in R OBVIOUS
<1> HIDE DEF R
<1>3. PICK x \in T : \A y \in T : ~(<<y, x>> \in R) BY <1>1, WFMin
<1>4. \A y \in T : ~(y < x) BY <1>2, <1>3
<1> QED BY <1>4

\* No usage has two entries.
Single(slots) == \A i, j \in DOMAIN slots : slots[i] = slots[j] /\ i # j => slots[i] = Nothing

\* A usage that has no entry gets the first free one, and nothing else changes.
LEMMA SelectSlots ==
    ASSUME NEW n \in Nat, NEW slots, DOMAIN slots = 1 .. n, Single(slots),
           NEW u, u # Nothing, ~In(slots, u)
    PROVE  /\ Single(Select(slots, u))
           /\ \A w : In(Select(slots, u), w) => w = u \/ In(slots, w)
           /\ \A w : w # Nothing /\ In(slots, w) => In(Select(slots, u), w)
           /\ In(slots, Nothing) => In(Select(slots, u), u)
<1> DEFINE g == Select(slots, u)
           First(i) == slots[i] = Nothing /\ \A j \in 1 .. n : j < i => slots[j] # Nothing
<1>1. DOMAIN g = 1 .. n /\ \A i \in 1 .. n : g[i] = IF First(i) THEN u ELSE slots[i]
  BY DEF Select
<1>2. \A i, j \in 1 .. n : First(i) /\ First(j) => i = j OBVIOUS
<1>3. \A i \in 1 .. n : slots[i] # u BY DEF In
<1>4. In(slots, Nothing) => \E i \in 1 .. n : First(i)
  <2> SUFFICES ASSUME In(slots, Nothing) PROVE \E i \in 1 .. n : First(i) OBVIOUS
  <2> DEFINE T == {i \in 1 .. n : slots[i] = Nothing}
  <2>1. T \in SUBSET Nat /\ T # {} BY DEF In
  <2>2. PICK i \in T : \A j \in T : i <= j BY <2>1, Least
  <2> QED BY <2>2
<1>5. \A i \in 1 .. n : First(i) => slots[i] = Nothing OBVIOUS
<1> HIDE DEF g, First
<1>6. Single(g) BY <1>1, <1>2, <1>3, <1>5 DEF Single
<1>7. \A w : In(g, w) => w = u \/ In(slots, w) BY <1>1 DEF In
<1>8. \A w : w # Nothing /\ In(slots, w) => In(g, w) BY <1>1, <1>5 DEF In
<1>9. In(slots, Nothing) => In(g, u) BY <1>1, <1>4 DEF In
<1> QED BY <1>6, <1>7, <1>8, <1>9 DEF g

\* A usage that is let go has no entry, and the others keep theirs.
LEMMA DeselectSlots ==
    ASSUME NEW n \in Nat, NEW slots, DOMAIN slots = 1 .. n, Single(slots), NEW u, u # Nothing
    PROVE  /\ Single(Deselect(slots, u))
           /\ \A w : w # Nothing => (In(Deselect(slots, u), w) <=> w # u /\ In(slots, w))
           /\ In(slots, u) => In(Deselect(slots, u), Nothing)
<1>1. /\ DOMAIN Deselect(slots, u) = 1 .. n
      /\ \A i \in 1 .. n : Deselect(slots, u)[i] = IF slots[i] = u THEN Nothing ELSE slots[i]
  BY DEF Deselect
<1> QED BY <1>1 DEF Single, In

\* What a report shows of keys and consumer usages, and what the modifiers should be.
Shows(h) == UsagesIn(h.report)
SameSlots(g, h) == g.report.keys = h.report.keys /\ g.report.media = h.report.media
ModsOf(h) == (h.explicit \ h.masked) \cup h.implicit
Current(h) == h.report.mods = ModsOf(h)

\* The entries of a report are in order, and none is a usage that the report cannot hold.
Sound(h) == /\ Single(h.report.keys) /\ Single(h.report.media)
            /\ Shows(h) \cap Unsupported = {}

LEMMA ShowsTheSame ==
    ASSUME NEW g, NEW h, SameSlots(g, h)
    PROVE  Shows(g) = Shows(h) /\ (Sound(h) => Sound(g))
BY DEF SameSlots, Shows, Sound, UsagesIn

\* g differs from h by its modifiers only, and has sent no more.
ModsOnly(g, h) == SameSlots(g, h) /\ g.out = h.out

LEMMA QuietMods ==
    ASSUME NEW h \in HidState, NEW S \in SUBSET Mods
    PROVE  /\ ModsOnly(RegisterMods(h, S), h)
           /\ ModsOnly(UnregisterMods(h, S), h)
           /\ ModsOnly(SetImplicit(h, S), h) /\ Current(SetImplicit(h, S))
           /\ SetImplicit(h, S).implicit = S
           /\ ModsOnly(SetMasked(h, S), h) /\ Current(SetMasked(h, S))
           /\ SetMasked(h, S).implicit = h.implicit
<1>1. ASSUME NEW c, NEW e
      PROVE  ModsOnly(SetModifiers([h EXCEPT !.counts = c, !.explicit = e]), h)
  BY DEF SetModifiers, HidState, Report, ModsOnly, SameSlots
<1>2. ModsOnly(h, h) BY DEF ModsOnly, SameSlots
<1>3. ModsOnly(RegisterMods(h, S), h)
  <2> DEFINE c == [m \in Mods |-> IF m \in S THEN h.counts[m] + 1 ELSE h.counts[m]]
             e == h.explicit \cup S
  <2>1. RegisterMods(h, S) = IF S = {} THEN h
                             ELSE SetModifiers([h EXCEPT !.counts = c, !.explicit = e])
    BY DEF RegisterMods, HidState
  <2> HIDE DEF c, e
  <2> QED BY <1>1, <1>2, <2>1
<1>4. ModsOnly(UnregisterMods(h, S), h)
  <2> DEFINE c == [m \in Mods |-> IF m \in S /\ h.counts[m] > 0 THEN h.counts[m] - 1
                                  ELSE h.counts[m]]
             e == h.explicit \ {m \in S : h.counts[m] = 1}
  <2>1. UnregisterMods(h, S) = IF \A m \in S : h.counts[m] = 0 THEN h
                               ELSE SetModifiers([h EXCEPT !.counts = c, !.explicit = e])
    BY DEF UnregisterMods, HidState
  <2> HIDE DEF c, e
  <2> QED BY <1>1, <1>2, <2>1
<1>5. /\ ModsOnly(SetImplicit(h, S), h) /\ Current(SetImplicit(h, S))
      /\ SetImplicit(h, S).implicit = S
  BY DEF SetImplicit, SetModifiers, HidState, Report, ModsOnly, SameSlots, Current, ModsOf
<1>6. /\ ModsOnly(SetMasked(h, S), h) /\ Current(SetMasked(h, S))
      /\ SetMasked(h, S).implicit = h.implicit
  BY DEF SetMasked, SetModifiers, HidState, Report, ModsOnly, SameSlots, Current, ModsOf
<1> QED BY <1>3, <1>4, <1>5, <1>6

\* A usage in the key page is never in the entries of the other, and the reverse.
LEMMA OwnSlots ==
    ASSUME NEW h \in HidState
    PROVE  /\ DOMAIN h.report.keys = 1 .. KeySlots /\ DOMAIN h.report.media = 1 .. MediaSlots
           /\ \A w : In(h.report.keys, w) => w \in Keys \cup {Nothing}
           /\ \A w : In(h.report.media, w) => w \in Media \cup {Nothing}
BY DEF HidState, Report, In

\* A press adds its usage, if there is room, and takes none away.
LEMMA PressShows ==
    ASSUME NEW h \in HidState, Sound(h), NEW u \in Usages \ Unsupported, u \notin Shows(h)
    PROVE  LET g == HidPress(h, u)
           IN  /\ Sound(g) /\ g.out = h.out
               /\ Shows(h) \subseteq Shows(g) /\ Shows(g) \subseteq Shows(h) \cup {u}
               /\ u \in Keys /\ In(h.report.keys, Nothing) => u \in Shows(g)
               /\ u \in Media /\ In(h.report.media, Nothing) => u \in Shows(g)
<1> DEFINE g == HidPress(h, u)
<1>0. /\ Nothing \notin Usages /\ Keys \cap Mods = {} /\ Media \cap Mods = {}
      /\ Keys \cap Media = {} /\ KeySlots \in Nat /\ MediaSlots \in Nat
  BY HidAssumption
<1>1. CASE u \in Mods
  <2>1. g = RegisterMods(h, {u}) /\ {u} \in SUBSET Mods BY <1>0, <1>1 DEF HidPress
  <2>2. ModsOnly(g, h) BY <2>1, QuietMods
  <2> QED BY <1>0, <1>1, <2>2, ShowsTheSame DEF ModsOnly
<1>2. CASE u \in Keys
  <2> DEFINE k == Select(h.report.keys, u)
  <2>1. g = [h EXCEPT !.report.keys = k] BY <1>0, <1>2 DEF HidPress
  <2>2. ~In(h.report.keys, u) BY <1>2 DEF Shows, UsagesIn
  <2>3. /\ Single(k) /\ \A w : In(k, w) => w = u \/ In(h.report.keys, w)
        /\ \A w : w # Nothing /\ In(h.report.keys, w) => In(k, w)
        /\ In(h.report.keys, Nothing) => In(k, u)
    BY <1>0, <1>2, <2>2, OwnSlots, SelectSlots DEF Sound, Usages
  <2> HIDE DEF k
  <2>4. g.report.keys = k /\ g.report.media = h.report.media /\ g.out = h.out
    BY <2>1 DEF HidState, Report
  <2> HIDE DEF g
  <2>5. Shows(h) \subseteq Shows(g) /\ Shows(g) \subseteq Shows(h) \cup {u}
    BY <1>0, <2>3, <2>4 DEF Shows, UsagesIn, Usages
  <2>6. In(h.report.keys, Nothing) => u \in Shows(g)
    BY <1>2, <2>3, <2>4 DEF Shows, UsagesIn
  <2> QED BY <1>0, <1>2, <2>3, <2>4, <2>5, <2>6 DEF Sound, g
<1>3. CASE u \in Media
  <2> DEFINE k == Select(h.report.media, u)
  <2>1. g = [h EXCEPT !.report.media = k] BY <1>0, <1>3 DEF HidPress
  <2>2. ~In(h.report.media, u) BY <1>3 DEF Shows, UsagesIn
  <2>3. /\ Single(k) /\ \A w : In(k, w) => w = u \/ In(h.report.media, w)
        /\ \A w : w # Nothing /\ In(h.report.media, w) => In(k, w)
        /\ In(h.report.media, Nothing) => In(k, u)
    BY <1>0, <1>3, <2>2, OwnSlots, SelectSlots DEF Sound, Usages
  <2> HIDE DEF k
  <2>4. g.report.media = k /\ g.report.keys = h.report.keys /\ g.out = h.out
    BY <2>1 DEF HidState, Report
  <2> HIDE DEF g
  <2>5. Shows(h) \subseteq Shows(g) /\ Shows(g) \subseteq Shows(h) \cup {u}
    BY <1>0, <2>3, <2>4 DEF Shows, UsagesIn, Usages
  <2>6. In(h.report.media, Nothing) => u \in Shows(g)
    BY <1>3, <2>3, <2>4 DEF Shows, UsagesIn
  <2> QED BY <1>0, <1>3, <2>3, <2>4, <2>5, <2>6 DEF Sound, g
<1> QED BY <1>1, <1>2, <1>3 DEF Usages

\* A release takes its usage away, and nothing else; the modifiers of the report change only
\* with a modifier.
LEMMA ReleaseShows ==
    ASSUME NEW h \in HidState, Sound(h), NEW u \in Usages
    PROVE  LET g == HidRelease(h, u)
           IN  /\ Sound(g) /\ g.out = h.out /\ Shows(g) = Shows(h) \ {u}
               /\ u \notin Mods => g.report.mods = h.report.mods
               /\ u \in Keys /\ In(h.report.keys, u) => In(g.report.keys, Nothing)
               /\ u \in Media /\ In(h.report.media, u) => In(g.report.media, Nothing)
<1> DEFINE g == HidRelease(h, u)
<1>0. /\ Nothing \notin Usages /\ Keys \cap Mods = {} /\ Media \cap Mods = {}
      /\ Keys \cap Media = {} /\ KeySlots \in Nat /\ MediaSlots \in Nat
  BY HidAssumption
<1>1. CASE u \in Mods
  <2>1. g = UnregisterMods(h, {u}) /\ {u} \in SUBSET Mods BY <1>0, <1>1 DEF HidRelease
  <2>2. ModsOnly(g, h) BY <2>1, QuietMods
  <2>3. u \notin Shows(h) BY <1>0, <1>1 DEF Shows, UsagesIn
  <2> QED BY <1>0, <1>1, <2>2, <2>3, ShowsTheSame DEF ModsOnly
<1>2. CASE u \in Keys
  <2> DEFINE k == Deselect(h.report.keys, u)
  <2>1. g = [h EXCEPT !.report.keys = k] BY <1>0, <1>2 DEF HidRelease
  <2>3. /\ Single(k)
        /\ \A w : w # Nothing => (In(k, w) <=> w # u /\ In(h.report.keys, w))
        /\ In(h.report.keys, u) => In(k, Nothing)
    BY <1>0, <1>2, OwnSlots, DeselectSlots DEF Sound, Usages
  <2> HIDE DEF k
  <2>4. /\ g.report.keys = k /\ g.report.media = h.report.media /\ g.out = h.out
        /\ g.report.mods = h.report.mods
    BY <2>1 DEF HidState, Report
  <2>5. ~In(h.report.media, u) BY <1>0, <1>2, OwnSlots DEF Usages
  <2> HIDE DEF g
  <2>6. Shows(g) = Shows(h) \ {u}
    BY <1>0, <2>3, <2>4, <2>5 DEF Shows, UsagesIn, Usages
  <2> QED BY <1>0, <1>2, <2>3, <2>4, <2>6 DEF Sound, g
<1>3. CASE u \in Media
  <2> DEFINE k == Deselect(h.report.media, u)
  <2>1. g = [h EXCEPT !.report.media = k] BY <1>0, <1>3 DEF HidRelease
  <2>3. /\ Single(k)
        /\ \A w : w # Nothing => (In(k, w) <=> w # u /\ In(h.report.media, w))
        /\ In(h.report.media, u) => In(k, Nothing)
    BY <1>0, <1>3, OwnSlots, DeselectSlots DEF Sound, Usages
  <2> HIDE DEF k
  <2>4. /\ g.report.media = k /\ g.report.keys = h.report.keys /\ g.out = h.out
        /\ g.report.mods = h.report.mods
    BY <2>1 DEF HidState, Report
  <2>5. ~In(h.report.keys, u) BY <1>0, <1>3, OwnSlots DEF Usages
  <2> HIDE DEF g
  <2>6. Shows(g) = Shows(h) \ {u}
    BY <1>0, <2>3, <2>4, <2>5 DEF Shows, UsagesIn, Usages
  <2> QED BY <1>0, <1>3, <2>3, <2>4, <2>6 DEF Sound, g
<1> QED BY <1>1, <1>2, <1>3 DEF Usages
-----------------------------------------------------------------------------
(* What the handlers of hid_listener.c tell *)

\* All reports that have been sent show usages among U.
ToldIn(h, U) == \A i \in 1 .. Len(h.out) : UsagesIn(h.out[i][2]) \subseteq U
\* The first report that has been sent.
ToldFirst(h, r) == Len(h.out) > 0 /\ h.out[1][2] = r

LEMMA SendTells ==
    ASSUME NEW h \in HidState, NEW page \in {"key", "media"}
    PROVE  LET g == Send(h, page)
           IN  /\ g.report = h.report /\ SameSlots(g, h) /\ g.implicit = h.implicit
               /\ Current(h) => Current(g)
               /\ \A U : ToldIn(h, U) /\ Shows(h) \subseteq U => ToldIn(g, U)
               /\ \A r : ToldFirst(h, r) => ToldFirst(g, r)
               /\ h.out = <<>> => ToldFirst(g, h.report)
<1> DEFINE x == <<page, h.report>>
           o == Append(h.out, x)
           g == Send(h, page)
<1>1. h.out \in Seq({"key", "media"} \X Report) /\ x[2] = h.report /\ x \in {"key", "media"} \X Report
  BY DEF HidState
<1>2. /\ g.report = h.report /\ SameSlots(g, h) /\ g.implicit = h.implicit
      /\ g.explicit = h.explicit /\ g.masked = h.masked /\ g.out = o
  BY DEF Send, HidState, SameSlots
<1> HIDE DEF g, x
<1>3. /\ Len(o) = Len(h.out) + 1 /\ Len(h.out) \in Nat
      /\ \A i \in 1 .. Len(o) : o[i] = IF i = Len(o) THEN x ELSE h.out[i]
  BY <1>1
<1>4. h.out = <<>> => Len(h.out) = 0 OBVIOUS
<1> HIDE DEF o
<1>5. \A U : ToldIn(h, U) /\ Shows(h) \subseteq U => ToldIn(g, U)
  <2> SUFFICES ASSUME NEW U, ToldIn(h, U), Shows(h) \subseteq U,
                      NEW i \in 1 .. Len(o)
               PROVE  UsagesIn(o[i][2]) \subseteq U
    BY <1>2 DEF ToldIn
  <2>1. CASE i = Len(o) BY <1>1, <1>3, <2>1 DEF Shows
  <2>2. CASE i # Len(o)
    <3>1. i \in 1 .. Len(h.out) /\ o[i] = h.out[i] BY <1>3, <2>2
    <3> QED BY <3>1 DEF ToldIn
  <2> QED BY <2>1, <2>2
<1>6. \A r : ToldFirst(h, r) => ToldFirst(g, r)
  BY <1>2, <1>3 DEF ToldFirst
<1>7. h.out = <<>> => ToldFirst(g, h.report)
  BY <1>1, <1>2, <1>3, <1>4 DEF ToldFirst
<1>8. Current(h) => Current(g) BY <1>2 DEF Current, ModsOf
<1> QED BY <1>2, <1>5, <1>6, <1>7, <1>8 DEF g

\* The same of the report of modifiers that may go before the handler's own.
LEMMA SendModsTells ==
    ASSUME NEW h \in HidState, NEW g \in HidState, NEW u
    PROVE  LET k == SendMods(h, g, u)
           IN  /\ k.report = g.report /\ SameSlots(k, g) /\ k.implicit = g.implicit
               /\ Current(g) => Current(k)
               /\ \A U : ToldIn(g, U) /\ Shows(g) \subseteq U => ToldIn(k, U)
               /\ \A r : ToldFirst(g, r) => ToldFirst(k, r)
BY SendTells DEF SendMods, SameSlots

LEMMA ShowsIsPressed == \A h, u : u \in Keys \cup Media => (IsPressed(h, u) <=> u \in Shows(h))
BY DEF IsPressed, Shows, UsagesIn

\* A press shows what was shown before, and perhaps its own usage; every report that it
\* sends shows some of that.
LEMMA PressedTells ==
    ASSUME NEW h \in HidState, NEW b \in Binding, Sound(h), h.out = <<>>
    PROVE  LET g == Pressed(h, b)
           IN  /\ Sound(g) /\ Shows(h) \subseteq Shows(g)
               /\ Shows(g) \subseteq Shows(h) \cup {b.usage}
               /\ Current(g) \/ g = h
               /\ ToldIn(g, Shows(g))
<1> DEFINE u == b.usage
           again == u \notin Mods /\ IsPressed(h, u)
           l == HidRelease(h, u)
           q == IF again THEN Send(l, Page(u)) ELSE h
           r == HidPress(q, u)
           t == RegisterMods(r, Explicit(b))
           s == SetImplicit(t, Implicit(b))
           k == SendMods(r, s, u)
           g == Send(k, Page(u))
<1>0. /\ u \in Usages /\ Page(u) \in {"key", "media"} /\ Shows(h) \subseteq Keys \cup Media
      /\ Explicit(b) \in SUBSET Mods /\ Implicit(b) \in SUBSET Mods
      /\ Keys \cap Mods = {} /\ Media \cap Mods = {} /\ Keys \cap Media = {}
      /\ Unsupported \subseteq Media
  BY HidAssumption DEF Binding, Page, Explicit, Implicit, Shows, UsagesIn
<1>1. Pressed(h, b) = IF u \in Unsupported THEN q ELSE g BY DEF Pressed
<1>2. again <=> u \in Shows(h) BY <1>0, ShowsIsPressed DEF Usages
<1>3. ToldIn(h, Shows(h)) BY DEF ToldIn
<1> HIDE DEF u, again
<1>4. CASE u \in Unsupported
  <2>1. q = h BY <1>2, <1>4 DEF Sound
  <2> QED BY <1>1, <1>3, <1>4, <2>1 DEF u
<1>5. CASE u \notin Unsupported
  <2>1. /\ q \in HidState /\ Sound(q) /\ Shows(q) = Shows(h) \ {u}
        /\ ToldIn(q, Shows(h) \ {u})
        /\ u \in Shows(h) => \/ u \in Keys /\ In(q.report.keys, Nothing)
                             \/ u \in Media /\ In(q.report.media, Nothing)
    <3>1. CASE again
      <4>1. u \notin Mods /\ u \in Shows(h) BY <1>2, <3>1 DEF again
      <4>2. l \in HidState BY <1>0, <4>1, ReleaseEffect
      <4>3. /\ Sound(l) /\ l.out = <<>> /\ Shows(l) = Shows(h) \ {u}
            /\ u \in Keys /\ In(h.report.keys, u) => In(l.report.keys, Nothing)
            /\ u \in Media /\ In(h.report.media, u) => In(l.report.media, Nothing)
        BY <1>0, ReleaseShows
      <4>4. \/ In(h.report.keys, u) /\ u \in Keys
            \/ In(h.report.media, u) /\ u \in Media
        <5>1. u # Nothing BY <1>0, HidAssumption
        <5> QED BY <4>1, <5>1, OwnSlots DEF Shows, UsagesIn
      <4> HIDE DEF l
      <4>5. ToldIn(l, Shows(l)) BY <4>3 DEF ToldIn
      <4>6. /\ Send(l, Page(u)) \in HidState /\ SameSlots(Send(l, Page(u)), l)
            /\ ToldIn(Send(l, Page(u)), Shows(l))
        BY <1>0, <4>2, <4>5, SendEffect, SendTells
      <4>7. q = Send(l, Page(u)) BY <3>1
      <4> QED BY <4>3, <4>4, <4>6, <4>7, ShowsTheSame DEF SameSlots
    <3>2. CASE ~again
      <4>1. q = h BY <3>2
      <4> QED BY <1>2, <1>3, <3>2, <4>1
    <3> QED BY <3>1, <3>2
  <2> HIDE DEF q
  <2>2. /\ r \in HidState /\ Sound(r) /\ ToldIn(r, Shows(h) \ {u})
        /\ Shows(h) \subseteq Shows(r) /\ Shows(r) \subseteq Shows(h) \cup {u}
    <3>1. r \in HidState BY <1>0, <2>1, PressEffect
    <3>2. /\ Sound(r) /\ r.out = q.out
          /\ Shows(q) \subseteq Shows(r) /\ Shows(r) \subseteq Shows(q) \cup {u}
          /\ u \in Keys /\ In(q.report.keys, Nothing) => u \in Shows(r)
          /\ u \in Media /\ In(q.report.media, Nothing) => u \in Shows(r)
      BY <1>0, <1>5, <2>1, PressShows
    <3> QED BY <2>1, <3>1, <3>2 DEF ToldIn
  <2> HIDE DEF r
  <2>3. t \in HidState /\ ModsOnly(t, r) BY <1>0, <2>2, RegisterEffect, QuietMods
  <2> HIDE DEF t
  <2>4. s \in HidState /\ ModsOnly(s, t) /\ Current(s)
    BY <1>0, <2>3, ImplicitMaskedEffect, QuietMods
  <2> HIDE DEF s
  <2>5. Shows(s) = Shows(r) /\ Sound(s) /\ ToldIn(s, Shows(s))
    <3>1. Shows(s) = Shows(r) /\ Sound(s)
      BY <2>2, <2>3, <2>4, ShowsTheSame DEF ModsOnly
    <3>2. s.out = r.out BY <2>3, <2>4 DEF ModsOnly
    <3> QED BY <2>2, <3>1, <3>2 DEF ToldIn
  <2>6. k \in HidState /\ SameSlots(k, s) /\ Current(k) /\ ToldIn(k, Shows(s))
    BY <2>2, <2>4, <2>5, SendModsEffect, SendModsTells
  <2> HIDE DEF k
  <2>7. Shows(k) = Shows(s) /\ Sound(k) BY <2>5, <2>6, ShowsTheSame
  <2>8. SameSlots(g, k) /\ Current(g) /\ ToldIn(g, Shows(s))
    BY <1>0, <2>6, <2>7, SendTells
  <2> HIDE DEF g
  <2>9. Shows(g) = Shows(s) /\ Sound(g) BY <2>7, <2>8, ShowsTheSame
  <2> QED BY <1>1, <1>5, <2>2, <2>5, <2>8, <2>9 DEF u
<1> QED BY <1>4, <1>5

\* A release takes its usage away; every report that it sends shows what is left; and with
\* separate reports the first of them has the modifiers as they were, unless the release is
\* of a modifier and no key goes up.
LEMMA ReleasedTells ==
    ASSUME NEW h \in HidState, NEW b \in Binding, Sound(h), h.out = <<>>,
           \A m \in Mods : Asks(b, m) => h.counts[m] > 0
    PROVE  LET g == Released(h, b)
           IN  /\ Sound(g) /\ Shows(g) = Shows(h) \ {b.usage}
               /\ Current(g) /\ g.implicit = {}
               /\ ToldIn(g, Shows(g))
               /\ SeparateModRelease =>
                    \E r : ToldFirst(g, r) /\ (r.mods = h.report.mods \/ Shows(g) = Shows(h))
<1> DEFINE u == b.usage
           q == HidRelease(h, u)
           r == IF SeparateModRelease THEN Send(q, Page(u)) ELSE q
           t == UnregisterMods(r, Explicit(b))
           s == SetImplicit(t, {})
           k == SendMods(r, s, u)
           g == Send(k, Page(u))
<1>0. /\ u \in Usages /\ Page(u) \in {"key", "media"} /\ Explicit(b) \in SUBSET Mods
      /\ {} \in SUBSET Mods /\ Keys \cap Mods = {} /\ Media \cap Mods = {}
      /\ Shows(h) \subseteq Keys \cup Media /\ h.counts \in [Mods -> Nat]
      /\ u \notin Explicit(b)
  BY HidAssumption DEF Binding, Page, Explicit, Shows, UsagesIn, HidState
<1>1. u \in Mods => h.counts[u] > 0 BY DEF Asks
<1>2. Released(h, b) = g BY <1>0, <1>1 DEF Released
<1>3. \A m \in Explicit(b) : h.counts[m] > 0 BY <1>0 DEF Asks
<1> HIDE DEF u
<1>4. /\ q \in HidState /\ Sound(q) /\ q.out = <<>> /\ Shows(q) = Shows(h) \ {u}
      /\ u \notin Mods => q.report.mods = h.report.mods
      /\ \A m \in Explicit(b) : q.counts[m] > 0
  <2>1. q \in HidState BY <1>0, <1>1, ReleaseEffect
  <2>2. \A m \in Explicit(b) : q.counts[m] = h.counts[m]
    <3>1. CASE u \in Mods
      <4>1. \A m \in Mods : q.counts[m] = h.counts[m] - (IF m = u THEN 1 ELSE 0)
        BY <1>0, <1>1, <3>1, ReleaseEffect
      <4> QED BY <1>0, <4>1
    <3>2. CASE u \notin Mods
      <4>1. SameCounts(q, h) BY <1>0, <1>1, <3>2, ReleaseEffect
      <4> QED BY <4>1 DEF SameCounts
    <3> QED BY <3>1, <3>2
  <2> QED BY <1>0, <1>3, <2>1, <2>2, ReleaseShows
<1> HIDE DEF q
<1>5. /\ r \in HidState /\ Sound(r) /\ ToldIn(r, Shows(q)) /\ Shows(r) = Shows(q)
      /\ \A m \in Explicit(b) : r.counts[m] > 0
      /\ SeparateModRelease => ToldFirst(r, q.report)
  <2>0. ToldIn(q, Shows(q)) BY <1>4 DEF ToldIn
  <2>1. CASE SeparateModRelease
    <3>1. r = Send(q, Page(u)) BY <2>1
    <3> HIDE DEF r
    <3>2. /\ r \in HidState /\ SameCounts(r, q) /\ SameSlots(r, q) /\ ToldIn(r, Shows(q))
          /\ ToldFirst(r, q.report)
      BY <1>0, <1>4, <2>0, <3>1, SendEffect, SendTells
    <3> QED BY <1>4, <3>2, ShowsTheSame DEF SameCounts
  <2>2. CASE ~SeparateModRelease
    <3>1. r = q BY <2>2
    <3> QED BY <1>4, <2>0, <2>2, <3>1
  <2> QED BY <2>1, <2>2
<1> HIDE DEF r
<1>6. t \in HidState /\ ModsOnly(t, r) BY <1>0, <1>5, UnregisterEffect, QuietMods
<1> HIDE DEF t
<1>7. s \in HidState /\ ModsOnly(s, t) /\ Current(s) /\ s.implicit = {}
  BY <1>0, <1>6, ImplicitMaskedEffect, QuietMods
<1> HIDE DEF s
<1>8. /\ Shows(s) = Shows(q) /\ Sound(s) /\ ToldIn(s, Shows(q))
      /\ SeparateModRelease => ToldFirst(s, q.report)
  <2>1. Shows(s) = Shows(r) /\ Sound(s)
    BY <1>5, <1>6, <1>7, ShowsTheSame DEF ModsOnly
  <2>2. s.out = r.out BY <1>6, <1>7 DEF ModsOnly
  <2> QED BY <1>5, <2>1, <2>2 DEF ToldIn, ToldFirst
<1>9. /\ k \in HidState /\ SameSlots(k, s) /\ Current(k) /\ k.implicit = {}
      /\ ToldIn(k, Shows(q))
      /\ SeparateModRelease => ToldFirst(k, q.report)
  BY <1>5, <1>7, <1>8, SendModsEffect, SendModsTells
<1> HIDE DEF k
<1>10. Shows(k) = Shows(q) /\ Sound(k) BY <1>8, <1>9, ShowsTheSame
<1>11. /\ SameSlots(g, k) /\ Current(g) /\ g.implicit = {}
       /\ ToldIn(g, Shows(q))
       /\ SeparateModRelease => ToldFirst(g, q.report)
  BY <1>0, <1>9, <1>10, SendTells
<1> HIDE DEF g
<1>12. Shows(g) = Shows(q) /\ Sound(g) BY <1>10, <1>11, ShowsTheSame
<1>13. u \in Mods => Shows(q) = Shows(h) BY <1>0, <1>4
<1>14. SeparateModRelease =>
         ToldFirst(g, q.report) /\ (q.report.mods = h.report.mods \/ Shows(g) = Shows(h))
  BY <1>4, <1>11, <1>12, <1>13
<1> QED BY <1>2, <1>4, <1>11, <1>12, <1>14 DEF u
-----------------------------------------------------------------------------
(* The reports follow the keys *)

\* The steps that matter: a source takes up a key code, with the modifiers of a mod-morph
\* masked or not, or lets it go.
TakesUp(s, b, h) ==
    /\ held[s] = Nothing /\ held' = [held EXCEPT ![s] = b] /\ hid' = Pressed(h, b)
    /\ h = Now \/ \E S \in SUBSET Mods : h = SetMasked(Now, S)
LetsGo(s) ==
    /\ held[s] # Nothing /\ held' = [held EXCEPT ![s] = Nothing]
    /\ LET g == Released(Now, held[s]) IN hid' = g \/ hid' = SetMasked(g, {})

LEMMA StepCases ==
    ASSUME IInv, [Next]_vars
    PROVE  \/ \E s \in Sources, b \in Binding : \E h : TakesUp(s, b, h)
           \/ \E s \in Sources : LetsGo(s)
           \/ hid' = Now /\ held' = held
           \/ Clear
           \/ UNCHANGED vars
<1>1. ASSUME NEW p \in Positions, p \notin down, KeyDown(p)
      PROVE  \E s \in Sources, b \in Binding : \E h : TakesUp(s, b, h)
  <2>1. p \in Sources /\ p \in DOMAIN Bind /\ held[p] = Nothing /\ Bind[p] \in Binding
    BY <1>1, HidAssumption DEF KeyDown, IInv, KeysHold, Sources
  <2>2. TakesUp(p, Bind[p], Now) BY <1>1, <2>1 DEF KeyDown, TakesUp
  <2> QED BY <2>1, <2>2
<1>2. ASSUME NEW p \in Positions, p \in down, KeyUp(p)
      PROVE  \E s \in Sources : LetsGo(s)
  <2>1. p \in Sources /\ p \in DOMAIN Bind /\ held[p] = Bind[p] /\ held[p] # Nothing
    BY <1>2, HidAssumption DEF KeyUp, IInv, KeysHold, Sources
  <2>2. LetsGo(p) BY <1>2, <2>1 DEF KeyUp, LetsGo
  <2> QED BY <2>1, <2>2
<1>3. ASSUME NEW p \in Positions, MorphDown(p)
      PROVE  \/ \E s \in Sources, b \in Binding : \E h : TakesUp(s, b, h)
             \/ hid' = Now /\ held' = held
  <2> DEFINE m == MorphOf[p]
             morphs == hid.explicit \cap Morph[m].mods # {}
             b == IF morphs THEN Morph[m].morph ELSE Morph[m].normal
             h == IF morphs THEN SetMasked(Now, Morph[m].masked) ELSE Now
  <2>1. /\ m \in DOMAIN Morph /\ m \in Sources /\ b \in Binding
        /\ Morph[m].masked \in SUBSET Mods
    BY <1>3, HidAssumption DEF MorphDown, Sources
  <2>2. CASE held[m] # Nothing BY <1>3, <2>2 DEF MorphDown
  <2>3. CASE held[m] = Nothing
    <3>1. hid' = Pressed(h, b) /\ held' = [held EXCEPT ![m] = b] BY <1>3, <2>3 DEF MorphDown
    <3>2. h = Now \/ \E S \in SUBSET Mods : h = SetMasked(Now, S) BY <2>1
    <3> HIDE DEF h, b, m
    <3>3. TakesUp(m, b, h) BY <2>3, <3>1, <3>2 DEF TakesUp
    <3> QED BY <2>1, <3>3
  <2> QED BY <2>2, <2>3
<1>4. ASSUME NEW p \in Positions, MorphUp(p)
      PROVE  (\E s \in Sources : LetsGo(s)) \/ (hid' = Now /\ held' = held)
  <2> DEFINE m == MorphOf[p]
  <2>1. m \in Sources BY <1>4, HidAssumption DEF MorphUp, Sources
  <2>2. CASE held[m] = Nothing BY <1>4, <2>2 DEF MorphUp
  <2>3. CASE held[m] # Nothing
    <3>1. LetsGo(m) BY <1>4, <2>3 DEF MorphUp, LetsGo
    <3> QED BY <2>1, <3>1
  <2> QED BY <2>2, <2>3
<1> QED BY <1>1, <1>2, <1>3, <1>4 DEF Next, PressKey, ReleaseKey

\* Every usage that is shown is one that a source holds, no implicit modifier outlives the
\* keys, and the report's modifiers are those of the state unless the report was cleared.
Reported(h, f) ==
    /\ Sound(h)
    /\ \A u \in Shows(h) : \E s \in Sources : f[s] # Nothing /\ f[s].usage = u
    /\ (\A s \in Sources : f[s] = Nothing) => h.implicit = {}
    /\ Current(h) \/ h.report = Blank

RInv == IInv /\ Reported(hid, held)

LEMMA NowReported ==
    ASSUME hid \in HidState, NEW f, Reported(hid, f)
    PROVE  /\ Reported(Now, f) /\ Now.out = <<>> /\ Now.report = hid.report
           /\ Shows(Now) = Shows(hid)
<1>1. /\ Now.report = hid.report /\ Now.out = <<>> /\ Now.implicit = hid.implicit
      /\ Now.explicit = hid.explicit /\ Now.masked = hid.masked
  BY DEF Now, HidState
<1> QED BY <1>1 DEF Reported, Sound, Shows, Current, ModsOf

LEMMA MaskedReported ==
    ASSUME NEW h \in HidState, NEW S \in SUBSET Mods, NEW f, Reported(h, f)
    PROVE  Reported(SetMasked(h, S), f) /\ Shows(SetMasked(h, S)) = Shows(h)
BY QuietMods, ShowsTheSame DEF ModsOnly, Reported

\* What holds of the state in which a key code is taken up.
LEMMA BeforePress ==
    ASSUME RInv, NEW s, NEW b, NEW h, TakesUp(s, b, h)
    PROVE  /\ h \in HidState /\ Reported(h, held) /\ h.out = <<>>
           /\ Shows(h) = Shows(hid)
<1>1. /\ Now \in HidState /\ Reported(Now, held) /\ Now.out = <<>> /\ Shows(Now) = Shows(hid)
  BY NowEffect, NowReported DEF RInv, IInv, TypeOK
<1>2. CASE h = Now BY <1>1, <1>2
<1>3. ASSUME NEW S \in SUBSET Mods, h = SetMasked(Now, S)
      PROVE  /\ h \in HidState /\ Reported(h, held) /\ h.out = <<>>
             /\ Shows(h) = Shows(hid)
  BY <1>1, <1>3, ImplicitMaskedEffect, MaskedReported, QuietMods DEF ModsOnly
<1> QED BY <1>2, <1>3 DEF TakesUp

\* What holds of the state in which a key code is let go.
LEMMA BeforeRelease ==
    ASSUME RInv, NEW s \in Sources, LetsGo(s)
    PROVE  /\ Now \in HidState /\ Reported(Now, held) /\ Now.out = <<>>
           /\ Shows(Now) = Shows(hid) /\ Now.report = hid.report
           /\ held[s] \in Binding
           /\ \A m \in Mods : Asks(held[s], m) => Now.counts[m] > 0
<1>1. /\ Now \in HidState /\ Reported(Now, held) /\ Now.out = <<>> /\ Shows(Now) = Shows(hid)
      /\ Now.report = hid.report
  BY NowEffect, NowReported DEF RInv, IInv, TypeOK
<1>2. Counted(Now, held) BY NowEffect, CountedFrame DEF RInv, IInv, TypeOK
<1>3. held[s] \in Binding /\ held[s] # Nothing BY DEF LetsGo, RInv, IInv, TypeOK
<1> QED BY <1>1, <1>2, <1>3, HeldIsCounted

LEMMA InitRInv == Init => RInv
<1> SUFFICES ASSUME Init PROVE RInv OBVIOUS
<1>1. hid.report = Blank /\ hid.implicit = {} BY DEF Init
<1>2. Shows(hid) = {} /\ Single(Blank.keys) /\ Single(Blank.media)
  BY <1>1, HidAssumption DEF Shows, UsagesIn, In, Blank, Single, Usages
<1> QED BY <1>1, <1>2, InitIInv DEF RInv, Reported, Sound

LEMMA NextRInv == RInv /\ [Next]_vars => RInv'
<1> SUFFICES ASSUME RInv, [Next]_vars PROVE RInv' OBVIOUS
<1>1. IInv /\ IInv' /\ held \in [Sources -> Binding \cup {Nothing}]
  BY NextIInv DEF RInv, IInv, TypeOK
<1>2. ASSUME NEW s \in Sources, NEW b \in Binding, NEW h, TakesUp(s, b, h)
      PROVE  Reported(hid', held')
  <2>1. h \in HidState /\ Reported(h, held) /\ h.out = <<>> BY <1>2, BeforePress
  <2>2. held[s] = Nothing /\ held' = [held EXCEPT ![s] = b] /\ hid' = Pressed(h, b)
    BY <1>2 DEF TakesUp
  <2>3. /\ Sound(hid') /\ Shows(hid') \subseteq Shows(h) \cup {b.usage}
        /\ Current(hid') \/ hid' = h
    BY <2>1, <2>2, PressedTells DEF Reported
  <2>4. held'[s] # Nothing /\ held'[s].usage = b.usage
    BY <1>1, <2>2, HidAssumption
  <2>5. \A u \in Shows(hid') : \E x \in Sources : held'[x] # Nothing /\ held'[x].usage = u
    <3> SUFFICES ASSUME NEW u \in Shows(hid')
                 PROVE  \E x \in Sources : held'[x] # Nothing /\ held'[x].usage = u
      OBVIOUS
    <3>1. CASE u = b.usage BY <2>4, <3>1
    <3>2. CASE u # b.usage
      <4>1. PICK x \in Sources : held[x] # Nothing /\ held[x].usage = u
        BY <2>1, <2>3, <3>2 DEF Reported
      <4>2. x # s BY <2>2, <4>1
      <4>3. held'[x] = held[x] BY <1>1, <2>2, <4>2
      <4> QED BY <4>1, <4>3
    <3> QED BY <3>1, <3>2
  <2> QED BY <2>1, <2>3, <2>4, <2>5 DEF Reported
<1>3. ASSUME NEW s \in Sources, LetsGo(s) PROVE Reported(hid', held')
  <2> DEFINE g == Released(Now, held[s])
  <2>1. /\ Now \in HidState /\ Reported(Now, held) /\ Now.out = <<>> /\ held[s] \in Binding
        /\ \A m \in Mods : Asks(held[s], m) => Now.counts[m] > 0
    BY <1>3, BeforeRelease
  <2>2. /\ held' = [held EXCEPT ![s] = Nothing]
        /\ hid' = g \/ hid' = SetMasked(g, {})
    BY <1>3 DEF LetsGo
  <2>3. g \in HidState BY <2>1, ReleasedEffect
  <2>4. /\ Sound(g) /\ Shows(g) = Shows(Now) \ {held[s].usage} /\ Current(g) /\ g.implicit = {}
    BY <2>1, ReleasedTells DEF Reported
  <2> HIDE DEF g
  <2>5. Reported(g, held')
    <3> SUFFICES ASSUME NEW u \in Shows(g)
                 PROVE  \E x \in Sources : held'[x] # Nothing /\ held'[x].usage = u
      BY <2>4 DEF Reported
    <3>1. PICK x \in Sources : held[x] # Nothing /\ held[x].usage = u
      BY <2>1, <2>4 DEF Reported
    <3>2. x # s BY <2>4, <3>1
    <3>3. held'[x] = held[x] BY <1>1, <2>2, <3>2
    <3> QED BY <3>1, <3>3
  <2>6. Reported(SetMasked(g, {}), held') BY <2>3, <2>5, MaskedReported
  <2> QED BY <2>2, <2>5, <2>6
<1>4. ASSUME hid' = Now, held' = held PROVE Reported(hid', held')
  BY <1>4, NowReported DEF RInv, IInv, TypeOK
<1>5. ASSUME Clear PROVE Reported(hid', held')
  <2> DEFINE g == [Now EXCEPT !.report = Blank]
  <2>1. g \in HidState /\ g.report = Blank /\ g.implicit = hid.implicit
    BY <1>1, NowEffect DEF Blank, Report, HidState, IInv, TypeOK, Now
  <2>2. hid' = Send(Send(g, "key"), "media") /\ held' = held
    BY <1>5 DEF Clear, ClearReports
  <2> HIDE DEF g
  <2>3. hid'.report = Blank /\ hid'.implicit = hid.implicit
    <3>1. Send(g, "key") \in HidState BY <2>1, SendEffect
    <3> QED BY <2>1, <2>2, <3>1, SendTells
  <2>4. Shows(hid') = {} /\ Single(Blank.keys) /\ Single(Blank.media)
    BY <2>3, HidAssumption DEF Shows, UsagesIn, In, Blank, Single, Usages
  <2> QED BY <2>2, <2>3, <2>4 DEF RInv, Reported, Sound
<1>6. ASSUME UNCHANGED vars PROVE Reported(hid', held') BY <1>6 DEF vars, RInv
<1>7. Reported(hid', held') BY <1>1, <1>2, <1>3, <1>4, <1>5, <1>6, StepCases
<1> QED BY <1>1, <1>7 DEF RInv

\* A usage is reported only while a key holds it and in one entry only, no modifier is
\* reported once all keys are up, and the modifiers reported are those that the state says,
\* whatever keys and mod-morphs overlap and whenever the endpoint changes.
THEOREM ReportsFollowTheKeys == Spec => []ReportsFollow
<1>1. RInv => ReportsFollow
  <2> SUFFICES ASSUME RInv PROVE ReportsFollow OBVIOUS
  <2>1. TypeOK /\ Counted(hid, held) /\ Reported(hid, held) BY DEF RInv, IInv
  <2>2. NoStuckUsage
    <3>1. DOMAIN hid.report.keys = 1 .. KeySlots BY <2>1, OwnSlots DEF TypeOK
    <3> QED BY <2>1, <3>1, ShowsIsPressed DEF NoStuckUsage, Reported, Sound, Single
  <2>3. ModsReported BY <2>1 DEF ModsReported, Reported, Current, ModsOf
  <2>4. NoStuckModifier
    <3> SUFFICES ASSUME \A s \in Sources : held[s] = Nothing PROVE hid.report.mods = {}
      BY DEF NoStuckModifier
    <3>1. \A m \in Mods : AskIn(held, m) = {} BY DEF AskIn
    <3>2. hid.explicit = {} BY <2>1, <3>1 DEF Counted, TypeOK, HidState
    <3>3. hid.implicit = {} BY <2>1 DEF Reported
    <3> QED BY <2>3, <3>2, <3>3 DEF ModsReported, Blank
  <2> QED BY <2>1, <2>2, <2>3, <2>4 DEF ReportsFollow
<1> QED BY InitRInv, NextRInv, <1>1, PTL DEF Spec

\* The reports that a host has seen by the end of a step, as KeyGoesFirst lines them up.
LEMMA SeenReports ==
    ASSUME NEW g \in HidState, NEW r
    PROVE  LET seen == <<r>> \o [i \in DOMAIN g.out |-> g.out[i][2]]
           IN  /\ Len(seen) = Len(g.out) + 1 /\ seen[1] = r
               /\ \A i \in 1 .. Len(g.out) : seen[i + 1] = g.out[i][2]
<1> DEFINE o == [i \in DOMAIN g.out |-> g.out[i][2]]
<1>1. g.out \in Seq({"key", "media"} \X Report) BY DEF HidState
<1>2. DOMAIN g.out = 1 .. Len(g.out) /\ Len(g.out) \in Nat BY <1>1
<1>3. \A i \in 1 .. Len(g.out) : g.out[i] \in {"key", "media"} \X Report BY <1>1
<1>4. o \in Seq(Report) /\ Len(o) = Len(g.out) /\ \A i \in 1 .. Len(g.out) : o[i] = g.out[i][2]
  <2>1. \A i \in 1 .. Len(g.out) : g.out[i][2] \in Report BY <1>3
  <2> QED BY <1>2, <2>1
<1>5. <<r>> \in Seq({r}) /\ Len(<<r>>) = 1 /\ <<r>>[1] = r OBVIOUS
<1> HIDE DEF o
<1>6. o \in Seq(Report \cup {r}) /\ <<r>> \in Seq(Report \cup {r})
  <2>1. \A i \in 1 .. Len(o) : o[i] \in Report BY <1>4
  <2> QED BY <1>4, <2>1
<1>7. LET seen == <<r>> \o o
      IN  /\ Len(seen) = Len(o) + 1 /\ seen[1] = r
          /\ \A i \in 1 .. Len(o) : seen[i + 1] = o[i]
  BY <1>5, <1>6
<1> QED BY <1>4, <1>7 DEF o

LEMMA KeyGoesFirstStep == RInv /\ [Next]_vars => [KeyGoesFirst]_vars
<1> SUFFICES ASSUME RInv, [Next]_vars, SeparateModRelease, down' # down PROVE KeyGoesFirst
  BY DEF KeyGoesFirst
<1> DEFINE seen == <<hid.report>> \o [i \in DOMAIN hid'.out |-> hid'.out[i][2]]
<1>1. IInv /\ hid \in HidState /\ hid' \in HidState
  BY NextIInv DEF RInv, IInv, TypeOK
<1>2. /\ Len(seen) = Len(hid'.out) + 1 /\ seen[1] = hid.report /\ Len(hid'.out) \in Nat
      /\ \A i \in 1 .. Len(hid'.out) : seen[i + 1] = hid'.out[i][2]
  BY <1>1, SeenReports DEF HidState
<1>3. KeyGoesFirst <=>
        \A i \in 1 .. Len(seen) - 1 :
            seen[i].mods \ seen[i + 1].mods # {} => UsagesIn(seen[i]) \subseteq Shows(hid')
  BY DEF KeyGoesFirst, Shows
<1> HIDE DEF seen
<1>4. ASSUME ToldIn(hid', Shows(hid')),
             Len(hid'.out) > 0 => seen[1].mods = seen[2].mods
                                    \/ UsagesIn(seen[1]) \subseteq Shows(hid')
      PROVE  KeyGoesFirst
  <2> SUFFICES ASSUME NEW i \in 1 .. Len(seen) - 1, seen[i].mods \ seen[i + 1].mods # {}
               PROVE  UsagesIn(seen[i]) \subseteq Shows(hid')
    BY <1>3
  <2>1. CASE i = 1 BY <1>2, <1>4, <2>1
  <2>2. CASE i # 1
    <3>1. i - 1 \in 1 .. Len(hid'.out) /\ (i - 1) + 1 = i BY <1>2, <2>2
    <3>2. seen[i] = hid'.out[i - 1][2] BY <1>2, <3>1
    <3> QED BY <1>4, <3>1, <3>2 DEF ToldIn
  <2> QED BY <2>1, <2>2
<1>5. ASSUME NEW s \in Sources, NEW b \in Binding, NEW h, TakesUp(s, b, h) PROVE KeyGoesFirst
  <2>1. h \in HidState /\ Reported(h, held) /\ h.out = <<>> /\ Shows(h) = Shows(hid)
    BY <1>5, BeforePress
  <2>2. hid' = Pressed(h, b) BY <1>5 DEF TakesUp
  <2>3. Shows(hid) \subseteq Shows(hid') /\ ToldIn(hid', Shows(hid'))
    BY <2>1, <2>2, PressedTells DEF Reported
  <2> QED BY <1>2, <1>4, <2>3 DEF Shows
<1>6. ASSUME NEW s \in Sources, LetsGo(s) PROVE KeyGoesFirst
  <2> DEFINE g == Released(Now, held[s])
  <2>1. /\ Now \in HidState /\ Reported(Now, held) /\ Now.out = <<>> /\ held[s] \in Binding
        /\ \A m \in Mods : Asks(held[s], m) => Now.counts[m] > 0
        /\ Shows(Now) = Shows(hid) /\ Now.report = hid.report
    BY <1>6, BeforeRelease
  <2>2. hid' = g \/ hid' = SetMasked(g, {}) BY <1>6 DEF LetsGo
  <2>3. g \in HidState BY <2>1, ReleasedEffect
  <2>4. /\ ToldIn(g, Shows(g))
        /\ \E r : ToldFirst(g, r) /\ (r.mods = hid.report.mods \/ Shows(g) = Shows(hid))
    BY <2>1, ReleasedTells DEF Reported
  <2> HIDE DEF g
  <2>5. Shows(hid') = Shows(g) /\ hid'.out = g.out
    BY <2>2, <2>3, QuietMods, ShowsTheSame DEF ModsOnly
  <2>6. PICK r : /\ Len(hid'.out) > 0 /\ hid'.out[1][2] = r
                 /\ r.mods = hid.report.mods \/ Shows(hid') = Shows(hid)
    BY <2>4, <2>5 DEF ToldFirst
  <2>7. seen[2] = r
    <3>1. 1 \in 1 .. Len(hid'.out) /\ 1 + 1 = 2 BY <1>2, <2>6
    <3> QED BY <1>2, <2>6, <3>1
  <2>8. ToldIn(hid', Shows(hid')) BY <2>4, <2>5 DEF ToldIn
  <2> QED BY <1>2, <1>4, <2>6, <2>7, <2>8 DEF Shows
<1>7. CASE hid' = Now
  <2>1. hid'.out = <<>> BY <1>1, <1>7 DEF Now, HidState
  <2>2. Len(hid'.out) = 0 BY <2>1
  <2> QED BY <1>2, <1>3, <2>2
<1>8. CASE Clear BY <1>8 DEF Clear
<1>9. CASE UNCHANGED vars BY <1>9 DEF vars
<1> QED BY <1>1, <1>5, <1>6, <1>7, <1>8, <1>9, StepCases

\* With CONFIG_ZMK_HID_SEPARATE_MOD_RELEASE_REPORT, a host never sees a modifier go up while
\* it is still shown a key that goes up with it (hid_listener.c).
THEOREM KeysGoFirst == Spec => KeyBeforeModifiers
<1>1. RInv /\ [Next]_vars => [KeyGoesFirst]_vars BY KeyGoesFirstStep
<1> QED BY InitRInv, NextRInv, <1>1, PTL DEF Spec, KeyBeforeModifiers

-----------------------------------------------------------------------------
(* Endpoints: what the pages of the hosts show *)


Pages == {"key", "media"}

\* What a page of a report shows, and what it may show: the modifiers of the state too, for
\* the report's are cleared, and masked, without being sent.
KeysOf(r) == {u \in Keys \cup Media : In(r.keys, u)}
MediaOf(r) == {u \in Keys \cup Media : In(r.media, u)}
Content(page, r) == IF page = "key" THEN r.mods \cup KeysOf(r) ELSE MediaOf(r)
Allowed(page, h) == Content(page, h.report) \cup (IF page = "key" THEN h.explicit ELSE {})

\* What a page that showed A shows after one report, and after those of one handler.
After(page, sent, A) == IF sent[1] = page THEN Content(page, sent[2]) ELSE A
Final(page, out, A) ==
    LET a == IF Len(out) > 0 THEN After(page, out[1], A) ELSE A
        b == IF Len(out) > 1 THEN After(page, out[2], a) ELSE a
    IN  IF Len(out) > 2 THEN After(page, out[3], b) ELSE b

\* With at most n reports sent, page shows no more than it may, if it showed A before.
Says(h, n, page, A) == Len(h.out) <= n /\ Final(page, h.out, A) \subseteq Allowed(page, h)
-----------------------------------------------------------------------------
(* What the handlers of Hid tell, page by page *)

LEMMA BlankShowsNothing == Blank \in Report /\ \A page : Content(page, Blank) = {}
<1>1. Blank \in Report BY DEF Blank, Report
<1>2. KeysOf(Blank) = {} /\ MediaOf(Blank) = {} /\ Blank.mods = {}
  BY HidAssumption DEF KeysOf, MediaOf, Blank, In, Usages
<1> QED BY <1>1, <1>2 DEF Content

\* A report that is sent is one that may be, and the other page is not told anything.
LEMMA SendSays ==
    ASSUME NEW h \in HidState, NEW n \in 0 .. 2, Len(h.out) <= n, NEW p \in Pages, NEW A
    PROVE  LET g == Send(h, p)
           IN  /\ g \in HidState /\ Says(g, n + 1, p, A)
               /\ \A page \in Pages : Says(h, n, page, A) => Says(g, n + 1, page, A)
<1> DEFINE g == Send(h, p)
           x == <<p, h.report>>
<1>1. /\ g \in HidState /\ g.report = h.report /\ g.explicit = h.explicit
      /\ g.out = Append(h.out, x)
  BY SendEffect DEF Send, HidState, Pages, SameCounts
<1>2. h.out \in Seq(Pages \X Report) /\ x \in Pages \X Report BY DEF HidState, Pages
<1>3. /\ Len(g.out) = Len(h.out) + 1 /\ Len(h.out) \in Nat
      /\ g.out[Len(h.out) + 1] = x /\ \A i \in 1 .. Len(h.out) : g.out[i] = h.out[i]
  BY <1>1, <1>2
<1>4. \A page \in Pages : Final(page, g.out, A) = After(page, x, Final(page, h.out, A))
  <2> SUFFICES ASSUME NEW page \in Pages
               PROVE  Final(page, g.out, A) = After(page, x, Final(page, h.out, A))
    OBVIOUS
  <2> DEFINE k == Len(h.out)
  <2>0. k \in Nat BY <1>3
  <2>1. k <= n /\ n \in Nat /\ n <= 2 OBVIOUS
  <2> HIDE DEF k
  <2>a. k = 0 \/ k = 1 \/ k = 2 BY <2>0, <2>1
  <2> USE DEF k
  <2>2. CASE Len(h.out) = 0 BY <1>3, <2>2 DEF Final
  <2>3. CASE Len(h.out) = 1
    <3>1. g.out[1] = h.out[1] /\ g.out[2] = x BY <1>3, <2>3
    <3> QED BY <1>3, <2>3, <3>1 DEF Final
  <2>4. CASE Len(h.out) = 2
    <3>1. g.out[1] = h.out[1] /\ g.out[2] = h.out[2] /\ g.out[3] = x BY <1>3, <2>4
    <3> QED BY <1>3, <2>4, <3>1 DEF Final
  <2> QED BY <2>a, <2>2, <2>3, <2>4
<1>5. \A page \in Pages : Allowed(page, g) = Allowed(page, h) BY <1>1 DEF Allowed
<1>6. x[1] = p /\ x[2] = h.report OBVIOUS
<1> HIDE DEF g, x
<1>7. Says(g, n + 1, p, A)
  BY <1>1, <1>3, <1>4, <1>5, <1>6 DEF Says, After, Allowed
<1>8. \A page \in Pages : Says(h, n, page, A) => Says(g, n + 1, page, A)
  <2> SUFFICES ASSUME NEW page \in Pages, Says(h, n, page, A), page # p
               PROVE  Says(g, n + 1, page, A)
    BY <1>7
  <2>1. Final(page, g.out, A) = Final(page, h.out, A) BY <1>4, <1>6 DEF After
  <2> QED BY <1>3, <1>5, <2>1 DEF Says
<1> QED BY <1>1, <1>7, <1>8 DEF g

\* What sends nothing and takes nothing from what a page may show.
LEMMA SaysFrame ==
    ASSUME NEW h, NEW g, NEW n, NEW page, NEW A, Says(h, n, page, A), g.out = h.out,
           Allowed(page, h) \subseteq Allowed(page, g)
    PROVE  Says(g, n, page, A)
BY DEF Says

\* A press or release is about one page.
LEMMA OtherPage ==
    ASSUME NEW h \in HidState, NEW u \in Usages, NEW page \in Pages
    PROVE  /\ HidPress(h, u).out = h.out /\ HidRelease(h, u).out = h.out
           /\ page # Page(u) => /\ Allowed(page, HidPress(h, u)) = Allowed(page, h)
                                /\ Allowed(page, HidRelease(h, u)) = Allowed(page, h)
<1>0. Mods \cap Keys = {} /\ Mods \cap Media = {} /\ Keys \cap Media = {} BY HidAssumption
<1>1. CASE u \in Mods
  <2>1. HidPress(h, u) = RegisterMods(h, {u}) /\ HidRelease(h, u) = UnregisterMods(h, {u})
    BY <1>0, <1>1 DEF HidPress, HidRelease
  <2>2. ModsOnly(RegisterMods(h, {u}), h) /\ ModsOnly(UnregisterMods(h, {u}), h)
    BY <1>1, QuietMods
  <2>3. page # Page(u) => page = "media" BY <1>0, <1>1 DEF Page, Pages
  <2> QED BY <2>1, <2>2, <2>3 DEF ModsOnly, SameSlots, Allowed, Content, MediaOf
<1>2. CASE u \in Keys
  <2>1. /\ HidPress(h, u) = [h EXCEPT !.report.keys = Select(@, u)]
        /\ HidRelease(h, u) = [h EXCEPT !.report.keys = Deselect(@, u)]
    BY <1>0, <1>2 DEF HidPress, HidRelease
  <2>2. /\ HidPress(h, u).out = h.out /\ HidRelease(h, u).out = h.out
        /\ HidPress(h, u).report.media = h.report.media
        /\ HidRelease(h, u).report.media = h.report.media
    BY <2>1 DEF HidState, Report
  <2>3. page # Page(u) => page = "media" BY <1>0, <1>2 DEF Page, Pages
  <2> QED BY <2>2, <2>3 DEF Allowed, Content, MediaOf
<1>3. CASE u \in Media
  <2>1. /\ HidPress(h, u) = [h EXCEPT !.report.media = Select(@, u)]
        /\ HidRelease(h, u) = [h EXCEPT !.report.media = Deselect(@, u)]
    BY <1>0, <1>3 DEF HidPress, HidRelease
  <2>2. \A g \in {HidPress(h, u), HidRelease(h, u)} :
            /\ g.out = h.out /\ g.explicit = h.explicit
            /\ g.report.keys = h.report.keys /\ g.report.mods = h.report.mods
    BY <2>1 DEF HidState, Report
  <2>3. page # Page(u) => page = "key" BY <1>3 DEF Page, Pages
  <2> QED BY <2>2, <2>3 DEF Allowed, Content, KeysOf
<1> QED BY <1>1, <1>2, <1>3 DEF Usages

\* So does telling of the modifiers that change for the sake of a usage on the other page.
LEMMA SendModsSays ==
    ASSUME NEW r \in HidState, NEW s \in HidState, NEW u \in Usages, Page(u) \in Pages,
           NEW A, NEW page \in Pages, page # Page(u) => Says(r, 1, page, A),
           Len(r.out) <= 1, s.out = r.out, s.report.media = r.report.media,
           s.report.keys = r.report.keys, Page(u) # "key" => s.explicit = r.explicit
    PROVE  LET g == SendMods(r, s, u)
           IN  g \in HidState /\ Len(g.out) <= 2 /\ (page # Page(u) => Says(g, 2, page, A))
<1> DEFINE g == SendMods(r, s, u)
<1>1. Len(s.out) <= 1 /\ 1 \in 0 .. 2 /\ 1 + 1 = 2 OBVIOUS
<1>2. CASE Page(u) # "key" /\ r.report.mods # s.report.mods
  <2>1. g = Send(s, "key") BY <1>2 DEF SendMods
  <2>2. g \in HidState /\ Says(g, 1 + 1, "key", A) BY <1>1, <2>1, SendSays DEF Pages
  <2>3. page # Page(u) => page = "key" BY <1>2 DEF Pages
  <2> QED BY <1>1, <2>2, <2>3 DEF Says
<1>3. CASE ~(Page(u) # "key" /\ r.report.mods # s.report.mods)
  <2>1. g = s BY <1>3 DEF SendMods
  <2>2. ASSUME page # Page(u) PROVE Allowed(page, s) = Allowed(page, r)
    <3>1. CASE page = "media" BY <3>1 DEF Allowed, Content, MediaOf
    <3>2. CASE page = "key" BY <1>3, <2>2, <3>2 DEF Allowed, Content, KeysOf
    <3> QED BY <3>1, <3>2 DEF Pages
  <2>3. page # Page(u) => Says(s, 1, page, A) BY <2>2, SaysFrame
  <2>4. Len(s.out) \in Nat BY DEF HidState
  <2>5. Len(s.out) <= 2 BY <1>1, <2>4
  <2>6. page # Page(u) => Says(s, 2, page, A) BY <2>3, <2>5 DEF Says
  <2> QED BY <2>1, <2>5, <2>6
<1> QED BY <1>2, <1>3

\* What a press tells of a page: no more than the page may show, if it showed no more before.
LEMMA PressedSays ==
    ASSUME NEW h \in HidState, h.out = <<>>, NEW b \in Binding,
           NEW A, NEW page \in Pages, A \subseteq Allowed(page, h)
    PROVE  Says(Pressed(h, b), 3, page, A)
<1> DEFINE u == b.usage
           q == IF u \notin Mods /\ IsPressed(h, u) THEN Send(HidRelease(h, u), Page(u)) ELSE h
           r == HidPress(q, u)
           t == RegisterMods(r, Explicit(b))
           s == SetImplicit(t, Implicit(b))
           g == SendMods(r, s, u)
<1>0. /\ u \in Usages /\ Page(u) \in Pages
      /\ Explicit(b) \in SUBSET Mods /\ Implicit(b) \in SUBSET Mods
      /\ u \notin Mods => Explicit(b) = {}
      /\ u \in Mods => Page(u) = "key"
  BY HidAssumption DEF Binding, Page, Pages, Explicit, Implicit
<1>1. Says(h, 0, page, A)
  <2>1. Len(h.out) = 0 OBVIOUS
  <2> QED BY <2>1 DEF Says, Final
<1>2. q \in HidState /\ Len(q.out) <= 1 /\ Says(q, 1, page, A)
  <2>0. Len(h.out) = 0 OBVIOUS
  <2>1. CASE ~(u \notin Mods /\ IsPressed(h, u)) BY <1>1, <2>0, <2>1 DEF Says
  <2>2. CASE u \notin Mods /\ IsPressed(h, u)
    <3>1. /\ HidRelease(h, u) \in HidState /\ Len(HidRelease(h, u).out) <= 0
          /\ page # Page(u) => Says(HidRelease(h, u), 0, page, A)
      BY <1>0, <1>1, <2>0, <2>2, ReleaseEffect, OtherPage, SaysFrame
    <3>2. /\ Send(HidRelease(h, u), Page(u)) \in HidState
          /\ Says(Send(HidRelease(h, u), Page(u)), 0 + 1, page, A)
      <4>1. 0 \in 0 .. 2 OBVIOUS
      <4> QED BY <1>0, <3>1, <4>1, SendSays
    <3> QED BY <2>2, <3>2 DEF Says
  <2> QED BY <2>1, <2>2
<1> HIDE DEF q
<1>3. /\ r \in HidState /\ r.out = q.out
      /\ page # Page(u) => Says(r, 1, page, A)
  BY <1>0, <1>2, PressEffect, OtherPage, SaysFrame
<1> HIDE DEF r
<1>4. /\ t \in HidState /\ t.out = r.out /\ t.report.media = r.report.media
      /\ t.report.keys = r.report.keys
      /\ u \notin Mods => t = r
  BY <1>0, <1>3, RegisterEffect, QuietMods DEF ModsOnly, SameSlots, RegisterMods
<1> HIDE DEF t
<1>5. /\ s \in HidState /\ s.out = r.out /\ s.report.media = r.report.media
      /\ s.report.keys = r.report.keys /\ s.explicit = t.explicit
  BY <1>0, <1>4, ImplicitMaskedEffect, QuietMods DEF ModsOnly, SameSlots, SameCounts
<1> HIDE DEF s
<1>6. g \in HidState /\ Len(g.out) <= 2 /\ (page # Page(u) => Says(g, 2, page, A))
  <2>1. Len(r.out) <= 1 BY <1>2, <1>3
  <2>2. Page(u) # "key" => s.explicit = r.explicit BY <1>0, <1>4, <1>5
  <2> QED BY <1>0, <1>3, <1>5, <2>1, <2>2, SendModsSays
<1> HIDE DEF g
<1>7. Says(Send(g, Page(u)), 3, page, A)
  <2>1. 2 \in 0 .. 2 /\ 2 + 1 = 3 OBVIOUS
  <2>2. Says(Send(g, Page(u)), 2 + 1, page, A) BY <1>0, <1>6, <2>1, SendSays
  <2> QED BY <2>1, <2>2
<1>8. Says(q, 3, page, A)
  <2>1. Len(q.out) <= 1 => Len(q.out) <= 3 BY <1>2 DEF HidState
  <2> QED BY <1>2, <2>1 DEF Says
<1>9. Pressed(h, b) = IF u \in Unsupported THEN q ELSE Send(g, Page(u))
  BY DEF Pressed, q, r, t, s, g
<1> QED BY <1>7, <1>8, <1>9

\* So does a release.
LEMMA ReleasedSays ==
    ASSUME NEW h \in HidState, h.out = <<>>, NEW b \in Binding,
           \A m \in Mods : Asks(b, m) => h.counts[m] > 0,
           NEW A, NEW page \in Pages, A \subseteq Allowed(page, h)
    PROVE  Says(Released(h, b), 3, page, A)
<1> DEFINE u == b.usage
           q == HidRelease(h, u)
           r == IF SeparateModRelease THEN Send(q, Page(u)) ELSE q
           t == UnregisterMods(r, Explicit(b))
           s == SetImplicit(t, {})
           g == SendMods(r, s, u)
<1>0. /\ u \in Usages /\ Page(u) \in Pages
      /\ Explicit(b) \in SUBSET Mods /\ u \notin Explicit(b)
      /\ u \notin Mods => Explicit(b) = {}
      /\ u \in Mods => Page(u) = "key"
      /\ u \in Mods => h.counts[u] > 0
      /\ h.counts \in [Mods -> Nat]
      /\ \A m \in Explicit(b) : h.counts[m] > 0
  BY HidAssumption DEF Binding, Page, Pages, Explicit, Asks, HidState
<1>1. Says(h, 0, page, A) /\ Len(h.out) = 0
  <2>1. Len(h.out) = 0 OBVIOUS
  <2> QED BY <2>1 DEF Says, Final
<1>2. /\ q \in HidState /\ q.out = h.out
      /\ page # Page(u) => Says(q, 0, page, A)
      /\ \A m \in Explicit(b) : q.counts[m] > 0
  <2>1. /\ q \in HidState
        /\ u \in Mods => \A m \in Mods : q.counts[m] = h.counts[m] - (IF m = u THEN 1 ELSE 0)
        /\ u \notin Mods => SameCounts(q, h)
    BY <1>0, ReleaseEffect
  <2>2. q.out = h.out /\ (page # Page(u) => Says(q, 0, page, A))
    BY <1>0, <1>1, OtherPage, SaysFrame
  <2>3. ASSUME NEW m \in Explicit(b) PROVE q.counts[m] = h.counts[m]
    <3>1. u \in Mods /\ m \in Mods /\ m # u BY <1>0, <2>3
    <3> QED BY <1>0, <2>1, <3>1
  <2> QED BY <1>0, <2>1, <2>2, <2>3
<1> HIDE DEF q
<1>3. /\ r \in HidState /\ Len(r.out) <= 1
      /\ page # Page(u) => Says(r, 1, page, A)
      /\ \A m \in Explicit(b) : r.counts[m] > 0
  <2>0. Len(q.out) <= 0 /\ 0 \in 0 .. 2 /\ 0 + 1 = 1 BY <1>1, <1>2
  <2>1. CASE SeparateModRelease
    <3>1. /\ r \in HidState /\ Says(r, 0 + 1, Page(u), A)
          /\ page # Page(u) => Says(r, 0 + 1, page, A)
      BY <1>0, <1>2, <2>0, <2>1, SendSays
    <3>2. r.counts = q.counts BY <1>0, <1>2, <2>1, SendEffect DEF SameCounts, Pages
    <3> QED BY <1>2, <2>0, <3>1, <3>2 DEF Says
  <2>2. CASE ~SeparateModRelease
    <3>1. r = q BY <2>2
    <3>2. Len(q.out) = 0 BY <1>1, <1>2
    <3>3. Says(q, 0, page, A) => Says(q, 1, page, A) BY <3>2 DEF Says
    <3> HIDE DEF r
    <3> QED BY <1>2, <3>1, <3>2, <3>3
  <2> QED BY <2>1, <2>2
<1> HIDE DEF r
<1>4. /\ t \in HidState /\ t.out = r.out /\ t.report.media = r.report.media
      /\ t.report.keys = r.report.keys
      /\ u \notin Mods => t = r
  BY <1>0, <1>3, UnregisterEffect, QuietMods DEF ModsOnly, SameSlots, UnregisterMods
<1> HIDE DEF t
<1>5. /\ s \in HidState /\ s.out = r.out /\ s.report.media = r.report.media
      /\ s.report.keys = r.report.keys /\ s.explicit = t.explicit
  BY <1>0, <1>4, ImplicitMaskedEffect, QuietMods DEF ModsOnly, SameSlots, SameCounts
<1> HIDE DEF s
<1>6. g \in HidState /\ Len(g.out) <= 2 /\ (page # Page(u) => Says(g, 2, page, A))
  <2>1. Page(u) # "key" => s.explicit = r.explicit BY <1>0, <1>4, <1>5
  <2> QED BY <1>0, <1>3, <1>5, <2>1, SendModsSays
<1> HIDE DEF g
<1>7. 2 \in 0 .. 2 /\ 2 + 1 = 3 OBVIOUS
<1>8. Says(Send(g, Page(u)), 2 + 1, page, A) BY <1>0, <1>6, <1>7, SendSays
<1>9. Released(h, b) = Send(g, Page(u)) BY <1>0 DEF Released, q, r, t, s, g
<1> QED BY <1>7, <1>8, <1>9

\* What a mod-morph masks is not taken from what a page may show.
LEMMA MaskedAllows ==
    ASSUME NEW h \in HidState, NEW S \in SUBSET Mods, Current(h) \/ h.report = Blank,
           NEW page \in Pages
    PROVE  /\ SetMasked(h, S) \in HidState /\ SetMasked(h, S).out = h.out
           /\ Allowed(page, h) \subseteq Allowed(page, SetMasked(h, S))
<1> DEFINE g == SetMasked(h, S)
<1>1. /\ g \in HidState /\ g.out = h.out /\ g.explicit = h.explicit
      /\ g.report.keys = h.report.keys /\ g.report.media = h.report.media
  BY ImplicitMaskedEffect, QuietMods DEF ModsOnly, SameSlots, SameCounts
<1>2. g.report.mods = (h.explicit \ S) \cup h.implicit
  BY DEF SetMasked, SetModifiers, HidState, Report
<1> HIDE DEF g
<1>3. h.report.mods \subseteq h.explicit \cup g.report.mods
  BY <1>2 DEF Current, ModsOf, Blank
<1>4. KeysOf(g.report) = KeysOf(h.report) /\ MediaOf(g.report) = MediaOf(h.report)
  BY <1>1 DEF KeysOf, MediaOf
<1>5. Allowed(page, h) \subseteq Allowed(page, g)
  BY <1>1, <1>3, <1>4 DEF Allowed, Content
<1> QED BY <1>1, <1>5 DEF g

\* What a key that is pressed or released tells of a page.
LEMMA KeystrokeSays ==
    ASSUME RInv, NEW p \in Positions, PressKey(p) \/ ReleaseKey(p),
           NEW A, NEW page \in Pages, A \subseteq Allowed(page, hid)
    PROVE  Says(hid', 3, page, A)
<1>1. /\ hid \in HidState /\ Now \in HidState /\ Now.out = <<>> /\ Now.report = hid.report
      /\ Allowed(page, Now) = Allowed(page, hid) /\ (Current(Now) \/ Now.report = Blank)
  <2>1. hid \in HidState /\ Reported(hid, held) BY DEF RInv, IInv, TypeOK
  <2>2. Now \in HidState /\ Reported(Now, held) /\ Now.out = <<>> /\ Now.report = hid.report
    BY <2>1, NowEffect, NowReported
  <2>3. Now.explicit = hid.explicit BY <2>1, NowEffect DEF SameCounts
  <2> QED BY <2>1, <2>2, <2>3 DEF Allowed, Reported
<1>2. ASSUME NEW s \in Sources, NEW b \in Binding, NEW h, TakesUp(s, b, h)
      PROVE  Says(hid', 3, page, A)
  <2>1. h \in HidState /\ h.out = <<>> /\ A \subseteq Allowed(page, h)
    <3>1. CASE h = Now BY <1>1, <3>1
    <3>2. ASSUME NEW S \in SUBSET Mods, h = SetMasked(Now, S)
          PROVE  h \in HidState /\ h.out = <<>> /\ A \subseteq Allowed(page, h)
      BY <1>1, <3>2, MaskedAllows
    <3> QED BY <1>2, <3>1, <3>2 DEF TakesUp
  <2>2. hid' = Pressed(h, b) BY <1>2 DEF TakesUp
  <2> QED BY <2>1, <2>2, PressedSays
<1>3. ASSUME NEW s \in Sources, LetsGo(s) PROVE Says(hid', 3, page, A)
  <2> DEFINE g == Released(Now, held[s])
  <2>1. /\ held[s] \in Binding /\ \A m \in Mods : Asks(held[s], m) => Now.counts[m] > 0
        /\ Reported(Now, held)
    BY <1>3, BeforeRelease
  <2>2. g \in HidState /\ Says(g, 3, page, A) BY <1>1, <2>1, ReleasedEffect, ReleasedSays
  <2>3. Current(g) BY <1>1, <2>1, ReleasedTells DEF Reported
  <2>4. hid' = g \/ hid' = SetMasked(g, {}) BY <1>3 DEF LetsGo
  <2> HIDE DEF g
  <2>5. Says(SetMasked(g, {}), 3, page, A) BY <2>2, <2>3, MaskedAllows, SaysFrame
  <2> QED BY <2>2, <2>4, <2>5
<1>4. ASSUME hid' = Now PROVE Says(hid', 3, page, A)
  <2>1. Len(Now.out) = 0 /\ 0 <= 3 BY <1>1
  <2>2. Final(page, Now.out, A) = A BY <2>1 DEF Final
  <2>3. Says(Now, 3, page, A) BY <1>1, <2>1, <2>2 DEF Says
  <2> QED BY <1>4, <2>3
<1>5. down' # down /\ [Next]_vars BY DEF PressKey, ReleaseKey, Next
<1>6. ~Clear /\ ~UNCHANGED vars /\ IInv BY <1>5 DEF Clear, vars, RInv
<1> QED BY <1>2, <1>3, <1>4, <1>5, <1>6, StepCases

\* Clearing the reports tells both pages that they show nothing.
LEMMA ClearSays ==
    ASSUME hid \in HidState, Clear
    PROVE  /\ Len(hid'.out) = 2
           /\ hid'.out[1] = <<"key", Blank>> /\ hid'.out[2] = <<"media", Blank>>
           /\ \A A : \A page \in Pages : Final(page, hid'.out, A) = {}
<1> DEFINE g == ClearReports(Now)
<1>1. Now \in HidState /\ Now.out = <<>> 
  <2>1. Now.out = <<>> BY DEF Now, HidState
  <2> QED BY <2>1, NowEffect
<1>2. g \in HidState /\ g.report = Blank /\ g.out = <<>>
  BY <1>1, BlankShowsNothing DEF ClearReports, HidState
<1> HIDE DEF g
<1>3. hid' = Send(Send(g, "key"), "media") BY DEF Clear, g
<1>4. Send(g, "key").out = Append(g.out, <<"key", Blank>>) /\ Send(g, "key").report = Blank
  BY <1>2 DEF Send, HidState
<1>5. Send(g, "key") \in HidState BY <1>2, SendEffect
<1>6. hid'.out = Append(Append(g.out, <<"key", Blank>>), <<"media", Blank>>)
  BY <1>3, <1>4, <1>5 DEF Send, HidState
<1>7. g.out \in Seq(Pages \X Report) /\ Len(g.out) = 0 BY <1>2 DEF HidState, Pages
<1>8. /\ Len(hid'.out) = 2 /\ hid'.out[1] = <<"key", Blank>> /\ hid'.out[2] = <<"media", Blank>>
  BY <1>6, <1>7, BlankShowsNothing DEF Pages
<1>9. \A A : \A page \in Pages : Final(page, hid'.out, A) = {}
  BY <1>8, BlankShowsNothing DEF Final, After, Pages
<1> QED BY <1>8, <1>9
-----------------------------------------------------------------------------
(* What the hosts and the queues are told *)

LEMMA ToldContent ==
    ASSUME NEW v \in Report, NEW sent \in Pages \X Report, NEW page \in Pages
    PROVE  /\ Told(v, sent[1], sent[2]) \in Report
           /\ Content(page, Told(v, sent[1], sent[2])) = After(page, sent, Content(page, v))
<1> DEFINE r == sent[2]
           w == Told(v, sent[1], r)
<1>1. sent[1] \in Pages /\ r \in Report OBVIOUS
<1> HIDE DEF r
<1>2. CASE sent[1] = "key"
  <2>1. /\ w \in Report /\ w.mods = r.mods /\ w.keys = r.keys /\ w.media = v.media
    BY <1>1, <1>2 DEF Told, Report
  <2>2. KeysOf(w) = KeysOf(r) /\ MediaOf(w) = MediaOf(v) BY <2>1 DEF KeysOf, MediaOf
  <2> QED BY <1>2, <2>1, <2>2 DEF Content, After, Pages, r
<1>3. CASE sent[1] = "media"
  <2>1. /\ w \in Report /\ w.mods = v.mods /\ w.keys = v.keys /\ w.media = r.media
    BY <1>1, <1>3 DEF Told, Report
  <2>2. KeysOf(w) = KeysOf(v) /\ MediaOf(w) = MediaOf(r) BY <2>1 DEF KeysOf, MediaOf
  <2> QED BY <1>3, <2>1, <2>2 DEF Content, After, Pages, r
<1> QED BY <1>1, <1>2, <1>3 DEF Pages

\* A host that is told the reports of a handler shows what they say.
LEMMA ToldAllContent ==
    ASSUME NEW v \in Report, NEW out \in Seq(Pages \X Report), NEW page \in Pages
    PROVE  /\ ToldAll(v, out) \in Report
           /\ Content(page, ToldAll(v, out)) = Final(page, out, Content(page, v))
<1> DEFINE w == IF Len(out) > 0 THEN Told(v, out[1][1], out[1][2]) ELSE v
           x == IF Len(out) > 1 THEN Told(w, out[2][1], out[2][2]) ELSE w
           y == IF Len(out) > 2 THEN Told(x, out[3][1], out[3][2]) ELSE x
           a == IF Len(out) > 0 THEN After(page, out[1], Content(page, v)) ELSE Content(page, v)
           b == IF Len(out) > 1 THEN After(page, out[2], a) ELSE a
           c == IF Len(out) > 2 THEN After(page, out[3], b) ELSE b
<1>1. /\ Len(out) > 0 => out[1] \in Pages \X Report
      /\ Len(out) > 1 => out[2] \in Pages \X Report
      /\ Len(out) > 2 => out[3] \in Pages \X Report
  OBVIOUS
<1>2. w \in Report /\ Content(page, w) = a BY <1>1, ToldContent
<1> HIDE DEF w, a
<1>3. x \in Report /\ Content(page, x) = b BY <1>1, <1>2, ToldContent
<1> HIDE DEF x, b
<1>4. y \in Report /\ Content(page, y) = c BY <1>1, <1>3, ToldContent
<1>5. ToldAll(v, out) = y /\ Final(page, out, Content(page, v)) = c
  BY DEF ToldAll, Final, w, x, y, a, b, c
<1> QED BY <1>4, <1>5

\* What the host of a queue will show once the queue is empty, if it shows v now.
LastIn(q, v) == IF q = <<>> THEN v ELSE q[Len(q)][2]
Queue(page) == {q \in Seq({page} \X Report) : Len(q) <= QueueSize}

\* A report that is queued becomes the last one, even if the first one is lost.
LEMMA PutContent ==
    ASSUME NEW page \in Pages, NEW q \in Queue(page), NEW sent \in Pages \X Report, NEW v
    PROVE  /\ Put(q, page, sent) \in Queue(page)
           /\ Content(page, LastIn(Put(q, page, sent), v))
                = After(page, sent, Content(page, LastIn(q, v)))
<1>1. CASE sent[1] # page BY <1>1 DEF Put, After
<1>2. CASE sent[1] = page
  <2> DEFINE t == IF Len(q) < QueueSize THEN q ELSE Tail(q)
             p == Append(t, sent)
  <2>0. sent \in {page} \X Report /\ QueueSize \in Nat /\ QueueSize > 0
    BY <1>2, EndpointsAssumption
  <2>1. t \in Seq({page} \X Report) /\ Len(t) < QueueSize
    <3>1. q \in Seq({page} \X Report) /\ Len(q) \in Nat /\ Len(q) <= QueueSize BY DEF Queue
    <3>2. CASE Len(q) < QueueSize BY <3>1, <3>2
    <3>3. CASE ~(Len(q) < QueueSize)
      <4>1. q # <<>> BY <2>0, <3>3
      <4>2. Tail(q) \in Seq({page} \X Report) /\ Len(Tail(q)) = Len(q) - 1 BY <3>1, <4>1
      <4> QED BY <2>0, <3>1, <3>3, <4>2
    <3> QED BY <3>2, <3>3
  <2> HIDE DEF t
  <2>2. p \in Seq({page} \X Report) /\ Len(p) = Len(t) + 1 /\ Len(t) \in Nat /\ p[Len(p)] = sent
    BY <2>0, <2>1
  <2>3. Put(q, page, sent) = p BY <1>2 DEF Put, t
  <2>4. Len(p) > 0 /\ Len(p) <= QueueSize BY <2>0, <2>1, <2>2
  <2>5. p # <<>>
    <3>1. Len(<<>>) = 0 OBVIOUS
    <3> QED BY <2>4, <3>1
  <2> HIDE DEF p
  <2> QED BY <1>2, <2>2, <2>3, <2>4, <2>5 DEF Queue, LastIn, After
<1> QED BY <1>1, <1>2

LEMMA PutAllContent ==
    ASSUME NEW page \in Pages, NEW q \in Queue(page), NEW out \in Seq(Pages \X Report), NEW v,
           Len(out) <= 3
    PROVE  /\ PutAll(q, page, out) \in Queue(page)
           /\ Content(page, LastIn(PutAll(q, page, out), v))
                = Final(page, out, Content(page, LastIn(q, v)))
           /\ (\A i \in DOMAIN out : out[i][1] # page) => PutAll(q, page, out) = q
<1> DEFINE A == Content(page, LastIn(q, v))
           w == IF Len(out) > 0 THEN Put(q, page, out[1]) ELSE q
           x == IF Len(out) > 1 THEN Put(w, page, out[2]) ELSE w
           y == IF Len(out) > 2 THEN Put(x, page, out[3]) ELSE x
           a == IF Len(out) > 0 THEN After(page, out[1], A) ELSE A
           b == IF Len(out) > 1 THEN After(page, out[2], a) ELSE a
           c == IF Len(out) > 2 THEN After(page, out[3], b) ELSE b
<1>1. /\ Len(out) > 0 => out[1] \in Pages \X Report /\ 1 \in DOMAIN out
      /\ Len(out) > 1 => out[2] \in Pages \X Report /\ 2 \in DOMAIN out
      /\ Len(out) > 2 => out[3] \in Pages \X Report /\ 3 \in DOMAIN out
  OBVIOUS
<1>2. /\ w \in Queue(page) /\ Content(page, LastIn(w, v)) = a
      /\ (\A i \in DOMAIN out : out[i][1] # page) => w = q
  <2>1. (\A i \in DOMAIN out : out[i][1] # page) => w = q BY <1>1 DEF Put
  <2> QED BY <1>1, <2>1, PutContent
<1> HIDE DEF w, a
<1>3. /\ x \in Queue(page) /\ Content(page, LastIn(x, v)) = b
      /\ (\A i \in DOMAIN out : out[i][1] # page) => x = q
  <2>1. (\A i \in DOMAIN out : out[i][1] # page) => x = w BY <1>1 DEF Put
  <2> QED BY <1>1, <1>2, <2>1, PutContent
<1> HIDE DEF x, b
<1>4. /\ y \in Queue(page) /\ Content(page, LastIn(y, v)) = c
      /\ (\A i \in DOMAIN out : out[i][1] # page) => y = q
  <2>1. (\A i \in DOMAIN out : out[i][1] # page) => y = x BY <1>1 DEF Put
  <2> QED BY <1>1, <1>3, <2>1, PutContent
<1>5. PutAll(q, page, out) = y /\ Final(page, out, A) = c
  BY DEF PutAll, Final, w, x, y, a, b, c
<1> HIDE DEF y, c, A
<1>6. Content(page, LastIn(q, v)) = A BY DEF A
<1> QED BY <1>4, <1>5, <1>6
-----------------------------------------------------------------------------
(* The invariant *)

\* A mod-morph has a key code pressed only while one of its positions is down.
MorphsHold == \A m \in DOMAIN Morph :
                  held[m] # Nothing => \E p \in down : p \in DOMAIN MorphOf /\ MorphOf[p] = m

Typed ==
    /\ preferred \in Transports /\ current \in Endpoint /\ usb \in UsbStates
    /\ connected \subseteq Profiles /\ active \in Profiles
    /\ usb_work \in BOOLEAN /\ ble_work \in BOOLEAN /\ surprised \in BOOLEAN
    /\ hog_work \subseteq Pages /\ hog_running \subseteq Pages
    /\ DOMAIN queue = Pages /\ queue = [page \in Pages |-> queue[page]]
    /\ \A page \in Pages : queue[page] \in Queue(page)
    /\ view \in [Hosts -> Report]

\* The endpoint is the one to be selected, but for changes yet to be noticed; it is never a
\* profile other than the active one.
Selects ==
    /\ ~usb_work /\ ~ble_work => current = Selected(preferred, usb, connected, active)
    /\ current \in Profiles => current = active

\* USB shows what it may while it is selected, and nothing otherwise.
UsbFollows(page) ==
    Content(page, view["usb"])
        \subseteq (IF usb = "on" /\ current = "usb" THEN Allowed(page, hid) ELSE {})
\* The hosts of other profiles show nothing, nor does one that is gone.
OthersFollow(page) ==
    \A h \in Profiles : h # active \/ h \notin connected => Content(page, view[h]) = {}
\* The host of the active profile will show what it may if it is selected, and nothing
\* otherwise, once its queue is empty.
ActiveFollows(page) ==
    Content(page, LastIn(queue[page], view[active]))
        \subseteq (IF current = active THEN Allowed(page, hid) ELSE {})
\* What is left in a queue with no work submitted for it matters to no host.
Drained(page) ==
    queue[page] = <<>> \/ page \in hog_work \cup hog_running \/ Content(page, view[active]) = {}

PageFollows(page) ==
    UsbFollows(page) /\ OthersFollow(page) /\ ActiveFollows(page) /\ Drained(page)

EInv == /\ RInv /\ MorphsHold /\ Typed /\ Selects
        /\ ~surprised => \A page \in Pages : PageFollows(page)

\* With no key down, nothing may be shown.
LEMMA AllUp ==
    ASSUME RInv, MorphsHold, down = {}, NEW page \in Pages
    PROVE  Allowed(page, hid) = {}
<1>1. \A s \in Sources : held[s] = Nothing
  BY DEF Sources, MorphsHold, RInv, IInv, KeysHold
<1>2. Reported(hid, held) /\ Counted(hid, held) /\ hid \in HidState BY DEF RInv, IInv, TypeOK
<1>3. Shows(hid) = {} /\ hid.implicit = {} BY <1>1, <1>2 DEF Reported
<1>4. hid.explicit = {}
  <2>1. \A m \in Mods : AskIn(held, m) = {} BY <1>1 DEF AskIn
  <2> QED BY <1>2, <2>1 DEF Counted, HidState
<1>5. hid.report.mods = {} BY <1>2, <1>3, <1>4 DEF Reported, Current, ModsOf, Blank
<1>6. KeysOf(hid.report) = {} /\ MediaOf(hid.report) = {}
  BY <1>3 DEF Shows, UsagesIn, KeysOf, MediaOf
<1> QED BY <1>4, <1>5, <1>6 DEF Allowed, Content

\* A mod-morph that has no key code pressed has none when its position goes up.
LEMMA MorphsStep ==
    ASSUME RInv, MorphsHold, NEW p \in Positions, PressKey(p) \/ ReleaseKey(p)
    PROVE  MorphsHold'
<1>0. held \in [Sources -> Binding \cup {Nothing}] BY DEF RInv, IInv, TypeOK
<1>1. CASE p \in DOMAIN Bind
  <2>1. p \notin DOMAIN MorphOf /\ p \notin DOMAIN Morph BY <1>1, HidAssumption
  <2>2. /\ \A m \in DOMAIN Morph : held'[m] = held[m]
        /\ \A x \in down : x # p => x \in down'
    BY <1>0, <2>1 DEF PressKey, ReleaseKey, KeyDown, KeyUp, MorphDown, MorphUp, Sources
  <2>3. \A x \in down : x \in DOMAIN MorphOf => x \in down' BY <2>1, <2>2
  <2> QED BY <2>2, <2>3 DEF MorphsHold
<1>2. CASE p \notin DOMAIN Bind /\ PressKey(p)
  <2>1. /\ MorphDown(p) /\ p \in DOMAIN MorphOf /\ down' = down \cup {p}
        /\ \A m \in DOMAIN Morph : m # MorphOf[p] => held'[m] = held[m]
    BY <1>0, <1>2 DEF PressKey, KeyDown, MorphDown, Sources
  <2> QED BY <2>1 DEF MorphsHold
<1>3. CASE p \notin DOMAIN Bind /\ ReleaseKey(p)
  <2>1. MorphUp(p) /\ p \in DOMAIN MorphOf /\ down' = down \ {p}
    BY <1>3 DEF ReleaseKey, KeyUp, MorphUp
  <2>2. MorphOf[p] \in DOMAIN Morph BY <2>1, HidAssumption
  <2>3. /\ held'[MorphOf[p]] = Nothing
        /\ \A m \in DOMAIN Morph : m # MorphOf[p] => held'[m] = held[m]
    BY <1>0, <2>1, <2>2 DEF MorphUp, Sources
  <2>4. ASSUME NEW m \in DOMAIN Morph, held'[m] # Nothing
        PROVE  \E x \in down' : x \in DOMAIN MorphOf /\ MorphOf[x] = m
    <3>1. m # MorphOf[p] /\ held[m] # Nothing BY <2>3, <2>4
    <3>2. PICK x \in down : x \in DOMAIN MorphOf /\ MorphOf[x] = m BY <3>1 DEF MorphsHold
    <3>3. x # p BY <3>1, <3>2
    <3> QED BY <2>1, <3>2, <3>3
  <2> QED BY <2>4 DEF MorphsHold
<1> QED BY <1>1, <1>2, <1>3
-----------------------------------------------------------------------------
(* The steps *)

\* What becomes of the hosts and the queues when the reports of a handler are delivered.
Delivered(page, to, out) ==
    /\ queue'[page] \in Queue(page)
    /\ queue'[page] = queue[page] \/ page \in hog_work'
    /\ Content(page, view'["usb"]) =
         IF to = "usb" /\ usb = "on" THEN Final(page, out, Content(page, view["usb"]))
         ELSE Content(page, view["usb"])
    /\ \A v : Content(page, LastIn(queue'[page], v)) =
         IF to \in Profiles THEN Final(page, out, Content(page, LastIn(queue[page], v)))
         ELSE Content(page, LastIn(queue[page], v))

LEMMA DeliverEffect ==
    ASSUME Typed, NEW to \in Endpoint, NEW out \in Seq(Pages \X Report), Len(out) <= 3,
           Deliver(to, out)
    PROVE  /\ view' \in [Hosts -> Report] /\ \A h \in Profiles : view'[h] = view[h]
           /\ DOMAIN queue' = Pages /\ queue' = [page \in Pages |-> queue'[page]]
           /\ hog_work' \subseteq Pages /\ hog_work \subseteq hog_work'
           /\ \A page \in Pages : Delivered(page, to, out)
<1>0. "usb" \notin Profiles /\ "usb" \in Hosts /\ Profiles \subseteq Hosts
  BY EndpointsAssumption DEF Hosts
<1>1. CASE to = "usb"
  <2>1. /\ queue' = queue /\ hog_work' = hog_work
        /\ view' = IF usb = "on" THEN [view EXCEPT !["usb"] = ToldAll(@, out)] ELSE view
    BY <1>0, <1>1 DEF Deliver
  <2>2. ToldAll(view["usb"], out) \in Report BY <1>0, ToldAllContent DEF Typed, Pages
  <2>3. /\ view' \in [Hosts -> Report] /\ \A h \in Profiles : view'[h] = view[h]
        /\ view'["usb"] = IF usb = "on" THEN ToldAll(view["usb"], out) ELSE view["usb"]
    BY <1>0, <2>1, <2>2 DEF Typed
  <2>4. \A page \in Pages : Content(page, ToldAll(view["usb"], out))
                              = Final(page, out, Content(page, view["usb"]))
    BY <1>0, ToldAllContent DEF Typed
  <2> QED BY <1>0, <1>1, <2>1, <2>3, <2>4 DEF Typed, Delivered
<1>2. CASE to \in Profiles
  <2>0. to # "usb" BY <1>0, <1>2
  <2>1. /\ view' = view /\ queue' = [page \in Pages |-> PutAll(queue[page], page, out)]
        /\ hog_work' = hog_work \cup {out[i][1] : i \in DOMAIN out}
    BY <1>0, <1>2, <2>0 DEF Deliver, Typed
  <2>2. hog_work' \subseteq Pages /\ hog_work \subseteq hog_work'
    <3>1. \A i \in DOMAIN out : out[i][1] \in Pages OBVIOUS
    <3> QED BY <2>1, <3>1 DEF Typed
  <2>3. ASSUME NEW page \in Pages
        PROVE  /\ queue'[page] \in Queue(page)
               /\ queue'[page] = queue[page] \/ page \in hog_work'
               /\ \A v : Content(page, LastIn(queue'[page], v))
                           = Final(page, out, Content(page, LastIn(queue[page], v)))
    <3>1. queue'[page] = PutAll(queue[page], page, out) /\ queue[page] \in Queue(page)
      BY <2>1 DEF Typed
    <3>2. queue'[page] = queue[page] \/ page \in hog_work'
      <4>1. CASE \E i \in DOMAIN out : out[i][1] = page BY <2>1, <4>1
      <4>2. CASE \A i \in DOMAIN out : out[i][1] # page
        <5>1. PutAll(queue[page], page, out) = queue[page]
          BY <3>1, <4>2, PutAllContent
        <5> QED BY <3>1, <5>1
      <4> QED BY <4>1, <4>2
    <3> QED BY <3>1, <3>2, PutAllContent
  <2> QED BY <1>2, <2>0, <2>1, <2>2, <2>3 DEF Typed, Delivered
<1>3. CASE to # "usb" /\ to \notin Profiles
  <2>1. UNCHANGED <<queue, hog_work, view>> BY <1>3 DEF Deliver
  <2> QED BY <1>3, <2>1 DEF Typed, Delivered
<1> QED BY <1>1, <1>2, <1>3

\* A key that moves: the selected host is told what it may show, and no other is told.
LEMMA KeystrokeFollows ==
    ASSUME EInv, NEW p \in Positions, Keystroke(p)
    PROVE  /\ Typed' /\ Selects'
           /\ ~surprised' => \A page \in Pages : PageFollows(page)'
<1>1. /\ PressKey(p) \/ ReleaseKey(p)
      /\ Deliver(current, hid'.out)
      /\ UNCHANGED <<preferred, current, usb, connected, active, usb_work, ble_work,
                     hog_running, surprised>>
  BY DEF Keystroke
<1>2. RInv /\ Typed /\ Selects /\ (~surprised => \A page \in Pages : PageFollows(page)) BY DEF EInv
<1>3. hid' \in HidState
  <2>1. [Next]_vars BY <1>1 DEF Next
  <2> QED BY <1>2, <2>1, NextRInv DEF RInv, IInv, TypeOK
<1>4. hid'.out \in Seq(Pages \X Report) /\ Len(hid'.out) <= 3
  <2>1. "key" \in Pages BY DEF Pages
  <2>2. Says(hid', 3, "key", {}) BY <1>1, <1>2, <2>1, KeystrokeSays
  <2> QED BY <1>3, <2>2 DEF Says, HidState, Pages
<1>5. current \in Endpoint BY <1>2 DEF Typed
<1>6. /\ view' \in [Hosts -> Report] /\ \A h \in Profiles : view'[h] = view[h]
      /\ DOMAIN queue' = Pages /\ queue' = [page \in Pages |-> queue'[page]]
      /\ hog_work' \subseteq Pages /\ hog_work \subseteq hog_work'
      /\ \A page \in Pages : Delivered(page, current, hid'.out)
  BY <1>1, <1>2, <1>4, <1>5, DeliverEffect
<1>7. Typed' BY <1>1, <1>2, <1>6 DEF Typed, Delivered
<1>8. Selects' BY <1>1, <1>2 DEF Selects
<1>9. ASSUME ~surprised', NEW page \in Pages PROVE PageFollows(page)'
  <2>1. /\ UsbFollows(page) /\ OthersFollow(page) /\ ActiveFollows(page) /\ Drained(page)
        /\ active \in Profiles
    BY <1>1, <1>2, <1>9 DEF PageFollows, Typed
  <2>2. Delivered(page, current, hid'.out) BY <1>6
  <2>3. \A A : A \subseteq Allowed(page, hid)
                 => Final(page, hid'.out, A) \subseteq Allowed(page, hid')
    BY <1>1, <1>2, KeystrokeSays DEF Says
  <2>4. UsbFollows(page)' BY <1>1, <2>1, <2>2, <2>3 DEF UsbFollows, Delivered
  <2>5. OthersFollow(page)' BY <1>1, <1>6, <2>1 DEF OthersFollow
  <2>6. ActiveFollows(page)'
    <3>1. view'[active] = view[active] BY <1>6, <2>1
    <3>2. current \in Profiles => current = active BY <1>2 DEF Selects
    <3> QED BY <1>1, <2>1, <2>2, <2>3, <3>1, <3>2 DEF ActiveFollows, Delivered
  <2>7. Drained(page)' BY <1>1, <1>6, <2>1, <2>2 DEF Drained, Delivered
  <2> QED BY <2>4, <2>5, <2>6, <2>7 DEF PageFollows
<1> QED BY <1>7, <1>8, <1>9

\* A change of endpoint while the active profile stays, or while nothing is under way: the
\* old endpoint is told that nothing is pressed before another is selected.
LEMMA UpdateFollows ==
    ASSUME EInv, NEW pref \in Transports, NEW act \in Profiles, Update(pref, act),
           preferred' = pref, active' = act, surprised' = (surprised \/ (act # active /\ Underway)),
           UNCHANGED <<usb, connected, hog_running>>,
           usb_work' \in BOOLEAN, ble_work' \in BOOLEAN
    PROVE  /\ Typed' /\ Selects'
           /\ ~surprised' => \A page \in Pages : PageFollows(page)'
<1> DEFINE new == Selected(pref, usb, connected, act)
<1>0. "usb" \notin Profiles /\ "none" \notin Profiles
  BY EndpointsAssumption DEF Hosts
<1>1. /\ RInv /\ MorphsHold /\ Typed /\ Selects
      /\ ~surprised => \A page \in Pages : PageFollows(page)
      /\ hid \in HidState
  BY DEF EInv, RInv, IInv, TypeOK
<1>2. new \in {"usb", "none", act} BY DEF Selected
<1>3. current' = new BY DEF Update
<1>4. Selects' BY <1>0, <1>2, <1>3 DEF Selects
<1> HIDE DEF new
<1>5. /\ current' \in Endpoint /\ current \in Endpoint /\ active \in Profiles
  BY <1>1, <1>2, <1>3 DEF Endpoint, Typed
\* what holds of a page before the step, if the step surprises nobody
<1>6. ASSUME ~surprised', NEW page \in Pages
      PROVE  /\ UsbFollows(page) /\ OthersFollow(page) /\ ActiveFollows(page) /\ Drained(page)
             /\ act # active => /\ queue[page] = <<>> /\ Allowed(page, hid) = {}
                                /\ Content(page, view[active]) = {}
                                /\ Content(page, view[act]) = {}
  <2>1. UsbFollows(page) /\ OthersFollow(page) /\ ActiveFollows(page) /\ Drained(page)
    BY <1>1, <1>6 DEF PageFollows
  <2>2. CASE act # active
    <3>1. ~Underway BY <1>6, <2>2
    <3>2. down = {} /\ queue[page] = <<>> BY <1>1, <3>1 DEF Underway, Typed
    <3>3. Allowed(page, hid) = {} BY <1>1, <3>2, AllUp
    <3>4. LastIn(queue[page], view[active]) = view[active] BY <3>2 DEF LastIn
    <3>5. Content(page, view[active]) = {} BY <2>1, <3>3, <3>4 DEF ActiveFollows
    <3>6. Content(page, view[act]) = {} BY <2>1, <2>2 DEF OthersFollow
    <3> QED BY <2>1, <3>2, <3>3, <3>5, <3>6
  <2> QED BY <2>1, <2>2
<1>7. CASE new = current
  <2>1. UNCHANGED <<hid, queue, hog_work, view>> /\ current' = current
    BY <1>3, <1>7 DEF Update, vars, new
  <2>2. Typed' BY <1>1, <1>5, <2>1 DEF Typed
  <2>3. ASSUME ~surprised', NEW page \in Pages PROVE PageFollows(page)'
    <3>1. UsbFollows(page) /\ OthersFollow(page) /\ ActiveFollows(page) /\ Drained(page)
      BY <1>6, <2>3
    <3>2. UsbFollows(page)' BY <2>1, <3>1 DEF UsbFollows
    <3>3. CASE act = active
      BY <2>1, <3>1, <3>2, <3>3 DEF OthersFollow, ActiveFollows, Drained, PageFollows
    <3>4. CASE act # active
      <4>1. /\ queue[page] = <<>> /\ Content(page, view[active]) = {}
            /\ Content(page, view[act]) = {}
        BY <1>6, <2>3, <3>4
      <4>2. queue'[page] = <<>> /\ LastIn(queue'[page], view'[act]) = view[act]
        BY <2>1, <4>1 DEF LastIn
      <4>3. OthersFollow(page)' BY <2>1, <3>1, <4>1 DEF OthersFollow
      <4>4. ActiveFollows(page)' BY <4>1, <4>2 DEF ActiveFollows
      <4>5. Drained(page)' BY <4>2 DEF Drained
      <4> QED BY <3>2, <4>3, <4>4, <4>5 DEF PageFollows
    <3> QED BY <3>3, <3>4
  <2> QED BY <1>4, <2>2, <2>3
<1>8. CASE new # current
  <2>1. Clear /\ Deliver(current, hid'.out) BY <1>8 DEF Update, new
  <2>2. hid' \in HidState
    <3>1. [Next]_vars BY <2>1 DEF Next
    <3> QED BY <1>1, <3>1, NextRInv DEF RInv, IInv, TypeOK
  <2>3. /\ hid'.out \in Seq(Pages \X Report) /\ Len(hid'.out) <= 3
        /\ \A A : \A page \in Pages : Final(page, hid'.out, A) = {}
    <3>1. hid'.out \in Seq(Pages \X Report) BY <2>2 DEF HidState, Pages
    <3>2. Len(hid'.out) = 2 /\ \A A : \A page \in Pages : Final(page, hid'.out, A) = {}
      BY <1>1, <2>1, ClearSays
    <3>3. Len(hid'.out) <= 3 BY <3>2
    <3> QED BY <3>1, <3>2, <3>3
  <2>a. /\ view' \in [Hosts -> Report] /\ \A h \in Profiles : view'[h] = view[h]
        /\ DOMAIN queue' = Pages /\ queue' = [page \in Pages |-> queue'[page]]
        /\ hog_work' \subseteq Pages /\ hog_work \subseteq hog_work'
        /\ \A page \in Pages : Delivered(page, current, hid'.out)
    BY <1>1, <1>5, <2>1, <2>3, DeliverEffect
  <2>4. ASSUME NEW page \in Pages
        PROVE  /\ queue'[page] \in Queue(page)
               /\ queue'[page] = queue[page] \/ page \in hog_work'
               /\ Content(page, view'["usb"]) =
                    IF current = "usb" /\ usb = "on" THEN {} ELSE Content(page, view["usb"])
               /\ \A v : Content(page, LastIn(queue'[page], v)) =
                    IF current \in Profiles THEN {} ELSE Content(page, LastIn(queue[page], v))
    <3>1. Delivered(page, current, hid'.out) /\ \A A : Final(page, hid'.out, A) = {}
      BY <2>3, <2>a
    <3>2. \A v : Content(page, LastIn(queue'[page], v)) =
            IF current \in Profiles THEN {} ELSE Content(page, LastIn(queue[page], v))
      <4> SUFFICES ASSUME NEW v
                   PROVE  Content(page, LastIn(queue'[page], v)) =
                            IF current \in Profiles THEN {}
                            ELSE Content(page, LastIn(queue[page], v))
        OBVIOUS
      <4>1. Final(page, hid'.out, Content(page, LastIn(queue[page], v))) = {} BY <3>1
      <4> QED BY <3>1, <4>1 DEF Delivered
    <3>3. Final(page, hid'.out, Content(page, view["usb"])) = {} BY <3>1
    <3> QED BY <3>1, <3>2, <3>3 DEF Delivered
  <2>5. Typed' BY <1>1, <1>5, <2>4, <2>a DEF Typed
  <2>6. ASSUME ~surprised', NEW page \in Pages PROVE PageFollows(page)'
    <3>1. UsbFollows(page) /\ OthersFollow(page) /\ ActiveFollows(page) /\ Drained(page)
      BY <1>6, <2>6
    <3>2. act # active => /\ queue[page] = <<>> /\ Content(page, view[active]) = {}
                          /\ Content(page, view[act]) = {}
      BY <1>6, <2>6
    <3>3. UsbFollows(page)' BY <1>3, <1>8, <2>4, <3>1 DEF UsbFollows
    <3>4. OthersFollow(page)' BY <2>a, <3>1, <3>2 DEF OthersFollow
    <3>5. Content(page, LastIn(queue[page], view[act])) = {} \/ current \in Profiles
      <4>1. CASE act = active
        <5>1. current \notin Profiles => current # active BY <1>5
        <5> QED BY <3>1, <4>1, <5>1 DEF ActiveFollows
      <4>2. CASE act # active BY <3>2, <4>2 DEF LastIn
      <4> QED BY <4>1, <4>2
    <3>6. ActiveFollows(page)'
      <4>1. view'[act] = view[act] BY <2>a
      <4> QED BY <2>4, <3>5, <4>1 DEF ActiveFollows
    <3>7. Drained(page)'
      <4>1. view'[act] = view[act] /\ view'[active] = view[active] BY <1>5, <2>a
      <4>2. CASE queue'[page] = queue[page]
        BY <2>a, <3>1, <3>2, <4>1, <4>2 DEF Drained
      <4>3. CASE page \in hog_work' BY <4>3 DEF Drained
      <4> QED BY <2>4, <4>2, <4>3
    <3> QED BY <3>3, <3>4, <3>6, <3>7 DEF PageFollows
  <2> QED BY <1>4, <2>5, <2>6
<1> QED BY <1>7, <1>8

LEMMA EmptyIsEmpty == ASSUME NEW S, NEW t \in Seq(S) PROVE t = <<>> <=> Len(t) = 0
OBVIOUS

\* The last of a sequence stays the last, as long as there is one.
LEMMA TailLast ==
    ASSUME NEW S, NEW q \in Seq(S), q # <<>>
    PROVE  /\ Tail(q) \in Seq(S) /\ Len(Tail(q)) <= Len(q) /\ Head(q) \in S
           /\ Tail(q) = <<>> => q[Len(q)] = Head(q)
           /\ Tail(q) # <<>> => Tail(q)[Len(Tail(q))] = q[Len(q)]
<1> DEFINE t == Tail(q)
           n == Len(q)
           k == Len(t)
<1>1. /\ t \in Seq(S) /\ Head(q) = q[1] /\ n \in Nat /\ k \in Nat /\ k = n - 1
      /\ \A i \in 1 .. k : t[i] = q[i + 1]
      /\ Head(q) \in S
  OBVIOUS
<1>2. t \in Seq(S) BY <1>1
<1>3. t = <<>> <=> k = 0 BY <1>2, EmptyIsEmpty
<1> HIDE DEF t, n, k
<1>4. k <= n BY <1>1
<1>5. k = 0 => n = 1 BY <1>1
<1>6. k # 0 => t[k] = q[n]
  <2> SUFFICES ASSUME k # 0 PROVE t[k] = q[n] OBVIOUS
  <2>1. k \in 1 .. k /\ k + 1 = n BY <1>1
  <2> QED BY <1>1, <2>1
<1> QED BY <1>1, <1>3, <1>4, <1>5, <1>6 DEF t, n, k

\* A round of the HOG thread: what is sent next is not yet the last, or is as it was to be.
LEMMA HogSendFollows ==
    ASSUME EInv, NEW p \in Pages, HogSend(p)
    PROVE  /\ Typed' /\ Selects'
           /\ ~surprised' => \A page \in Pages : PageFollows(page)'
<1> DEFINE q == queue[p]
           first == Head(q)
           told == Told(view[active], p, first[2])
<1>1. /\ Typed /\ Selects /\ (~surprised => \A page \in Pages : PageFollows(page))
      /\ UNCHANGED <<vars, preferred, current, usb, connected, active, usb_work, ble_work,
                     surprised>>
  BY DEF EInv, HogSend
<1>2. /\ "usb" \notin Profiles /\ "usb" \in Hosts /\ Profiles \subseteq Hosts
      /\ active \in Profiles /\ active \in Hosts /\ active # "usb" /\ view[active] \in Report
  BY <1>1, EndpointsAssumption DEF Hosts, Typed
<1>3. Selects' BY <1>1 DEF Selects
<1>4. /\ hog_work' = IF p \in hog_running THEN hog_work ELSE hog_work \ {p}
      /\ hog_work' \subseteq Pages
  BY <1>1 DEF HogSend, Typed
<1>5. \A page \in Pages : page # p /\ page \in hog_work => page \in hog_work' BY <1>4
<1>6. CASE q = <<>>
  <2>1. hog_running' = hog_running \ {p} /\ UNCHANGED <<queue, view>> BY <1>6 DEF HogSend
  <2>2. Typed' BY <1>1, <1>4, <2>1 DEF Typed
  <2>3. ASSUME ~surprised', NEW page \in Pages PROVE PageFollows(page)'
    <3>1. UsbFollows(page) /\ OthersFollow(page) /\ ActiveFollows(page) /\ Drained(page)
      BY <1>1, <2>3 DEF PageFollows
    <3>2. UsbFollows(page)' /\ OthersFollow(page)' /\ ActiveFollows(page)'
      BY <1>1, <2>1, <3>1 DEF vars, UsbFollows, OthersFollow, ActiveFollows
    <3>3. Drained(page)' BY <1>1, <1>5, <1>6, <2>1, <3>1 DEF Drained
    <3> QED BY <3>2, <3>3 DEF PageFollows
  <2> QED BY <1>3, <2>2, <2>3
<1>7. CASE q # <<>>
  <2>0. q \in Seq({p} \X Report) /\ Len(q) <= QueueSize /\ Len(q) \in Nat /\ QueueSize \in Nat
    BY <1>1, EndpointsAssumption DEF Typed, Queue
  <2>1. /\ Tail(q) \in Seq({p} \X Report) /\ Len(Tail(q)) <= Len(q) /\ first \in {p} \X Report
        /\ Tail(q) = <<>> => q[Len(q)] = first
        /\ Tail(q) # <<>> => Tail(q)[Len(Tail(q))] = q[Len(q)]
    BY <1>7, <2>0, TailLast
  <2>2. first[2] \in Report BY <2>1
  <2>3. Tail(q) \in Queue(p)
    <3>1. Len(Tail(q)) \in Nat BY <2>1
    <3>2. Len(Tail(q)) <= QueueSize BY <2>0, <2>1, <3>1
    <3> QED BY <2>1, <3>2 DEF Queue
  <2>4. queue' = [queue EXCEPT ![p] = Tail(@)] BY <1>7 DEF HogSend
  <2>5. /\ queue'[p] = Tail(q) /\ \A page \in Pages : page # p => queue'[page] = queue[page]
        /\ DOMAIN queue' = Pages /\ queue' = [page \in Pages |-> queue'[page]]
    BY <1>1, <2>4 DEF Typed
  \* the last report stays the last, as long as there is one
  <2>6. /\ Tail(q) = <<>> => \A v : LastIn(q, v) = first[2]
        /\ Tail(q) # <<>> => \A v, w : LastIn(Tail(q), v) = LastIn(q, w)
    BY <1>7, <2>1 DEF LastIn
  <2> HIDE DEF first
  <2>7. /\ told \in Report
        /\ \A page \in Pages : Content(page, told) =
             IF page = p THEN Content(page, first[2]) ELSE Content(page, view[active])
    <3>1. <<p, first[2]>> \in Pages \X Report BY <2>2
    <3>2. told = Told(view[active], <<p, first[2]>>[1], <<p, first[2]>>[2]) OBVIOUS
    <3> HIDE DEF told
    <3> QED BY <1>2, <3>1, <3>2, ToldContent DEF After
  <2> HIDE DEF told
  <2>8. CASE active \in connected
    <3>1. view' = [view EXCEPT ![active] = told] /\ hog_running' = hog_running \cup {p}
      BY <1>7, <2>8 DEF HogSend, told, first
    <3>2. /\ view' \in [Hosts -> Report] /\ view'[active] = told /\ view'["usb"] = view["usb"]
          /\ \A h \in Profiles : h # active => view'[h] = view[h]
      BY <1>1, <1>2, <2>7, <3>1 DEF Typed
    <3>3. Typed' BY <1>1, <1>4, <2>3, <2>5, <3>1, <3>2 DEF Typed
    <3>4. ASSUME ~surprised', NEW page \in Pages PROVE PageFollows(page)'
      <4>1. UsbFollows(page) /\ OthersFollow(page) /\ ActiveFollows(page) /\ Drained(page)
        BY <1>1, <3>4 DEF PageFollows
      <4>2. UsbFollows(page)' BY <1>1, <3>2, <4>1 DEF vars, UsbFollows
      <4>3. OthersFollow(page)' BY <1>1, <2>8, <3>2, <4>1 DEF OthersFollow
      <4>4. Content(page, LastIn(queue'[page], told))
              = Content(page, LastIn(queue[page], view[active]))
        <5>1. CASE page # p BY <2>5, <2>7, <5>1 DEF LastIn
        <5>2. CASE page = p /\ Tail(q) = <<>>
          <6>1. LastIn(queue'[page], told) = told BY <2>5, <5>2 DEF LastIn
          <6> QED BY <2>6, <2>7, <5>2, <6>1
        <5>3. CASE page = p /\ Tail(q) # <<>> BY <2>5, <2>6, <5>3
        <5> QED BY <5>1, <5>2, <5>3
      <4>5. ActiveFollows(page)' BY <1>1, <3>2, <4>1, <4>4 DEF vars, ActiveFollows
      <4>6. Drained(page)'
        <5>1. CASE page = p BY <3>1, <5>1 DEF Drained
        <5>2. CASE page # p BY <1>1, <1>5, <2>5, <2>7, <3>1, <3>2, <4>1, <5>2 DEF Drained
        <5> QED BY <5>1, <5>2
      <4> QED BY <4>2, <4>3, <4>5, <4>6 DEF PageFollows
    <3> QED BY <1>3, <3>3, <3>4
  <2>9. CASE active \notin connected
    <3>1. view' = view /\ hog_running' = hog_running \ {p} BY <1>7, <2>9 DEF HogSend
    <3>2. Typed' BY <1>1, <1>4, <2>3, <2>5, <3>1 DEF Typed
    <3>3. ASSUME ~surprised', NEW page \in Pages PROVE PageFollows(page)'
      <4>1. UsbFollows(page) /\ OthersFollow(page) /\ ActiveFollows(page) /\ Drained(page)
        BY <1>1, <3>3 DEF PageFollows
      <4>2. UsbFollows(page)' /\ OthersFollow(page)'
        BY <1>1, <3>1, <4>1 DEF vars, UsbFollows, OthersFollow
      <4>3. Content(page, view[active]) = {} BY <1>2, <2>9, <4>1 DEF OthersFollow
      <4>4. Drained(page)' BY <1>1, <3>1, <4>3 DEF Drained
      <4>5. ActiveFollows(page)'
        <5>1. CASE page # p BY <1>1, <2>5, <3>1, <4>1, <5>1 DEF vars, ActiveFollows
        <5>2. CASE page = p /\ Tail(q) = <<>>
          <6>1. LastIn(queue'[page], view'[active']) = view[active]
            BY <1>1, <2>5, <3>1, <5>2 DEF LastIn
          <6> QED BY <4>3, <6>1 DEF ActiveFollows
        <5>3. CASE page = p /\ Tail(q) # <<>>
          <6>1. LastIn(queue'[page], view'[active']) = LastIn(queue[page], view[active])
            BY <2>5, <2>6, <5>3
          <6> QED BY <1>1, <4>1, <6>1 DEF vars, ActiveFollows
        <5> QED BY <5>1, <5>2, <5>3
      <4> QED BY <4>2, <4>4, <4>5 DEF PageFollows
    <3> QED BY <1>3, <3>2, <3>3
  <2> QED BY <2>8, <2>9
<1> QED BY <1>6, <1>7

\* USB that comes and goes: a host that is unplugged shows nothing.
LEMMA UsbStatusFollows ==
    ASSUME EInv, NEW s \in UsbStates, UsbStatus(s)
    PROVE  /\ Typed' /\ Selects'
           /\ ~surprised' => \A page \in Pages : PageFollows(page)'
<1>1. /\ RInv /\ MorphsHold /\ Typed /\ Selects
      /\ ~surprised => \A page \in Pages : PageFollows(page)
      /\ usb' = s /\ s # usb /\ (s = "suspended" => usb = "on") /\ usb_work' = TRUE
      /\ surprised' = (surprised \/ (s = "suspended" /\ Underway))
      /\ view' = IF s = "off" THEN [view EXCEPT !["usb"] = Blank] ELSE view
      /\ UNCHANGED <<vars, preferred, current, connected, active, ble_work, queue,
                     hog_work, hog_running>>
  BY DEF EInv, UsbStatus
<1>2. "usb" \in Hosts /\ "usb" \notin Profiles /\ Profiles \subseteq Hosts
  BY EndpointsAssumption DEF Hosts
<1>3. /\ view' \in [Hosts -> Report] /\ \A h \in Profiles : view'[h] = view[h]
      /\ view'["usb"] = IF s = "off" THEN Blank ELSE view["usb"]
  BY <1>1, <1>2, BlankShowsNothing DEF Typed
<1>4. surprised' \in BOOLEAN BY <1>1 DEF Typed
<1>5. Typed' BY <1>1, <1>3, <1>4 DEF Typed
<1>6. Selects' BY <1>1 DEF Selects
<1>7. ASSUME ~surprised', NEW page \in Pages PROVE PageFollows(page)'
  <2>1. UsbFollows(page) /\ OthersFollow(page) /\ ActiveFollows(page) /\ Drained(page)
    BY <1>1, <1>7 DEF PageFollows
  <2>2. active \in Profiles /\ view'[active] = view[active] BY <1>1, <1>3 DEF Typed
  <2>3. OthersFollow(page)' BY <1>1, <1>3, <2>1 DEF OthersFollow
  <2>4. ActiveFollows(page)' BY <1>1, <2>1, <2>2 DEF vars, ActiveFollows
  <2>5. Drained(page)' BY <1>1, <2>1, <2>2 DEF Drained
  <2>6. Content(page, view'["usb"]) = {}
    <3>1. CASE s = "off" BY <1>3, <3>1, BlankShowsNothing
    <3>2. CASE s = "suspended"
      <4>1. down = {} BY <1>1, <1>7, <3>2 DEF Underway
      <4>2. Allowed(page, hid) = {} BY <1>1, <4>1, AllUp
      <4> QED BY <1>3, <2>1, <3>2, <4>2 DEF UsbFollows
    <3>3. CASE s = "on" BY <1>1, <1>3, <2>1, <3>3 DEF UsbFollows
    <3> QED BY <3>1, <3>2, <3>3, EndpointsAssumption
  <2>7. UsbFollows(page)' BY <2>6 DEF UsbFollows
  <2> QED BY <2>3, <2>4, <2>5, <2>7 DEF PageFollows
<1> QED BY <1>5, <1>6, <1>7

\* Hosts of profiles that come and go: a host that comes shows nothing.
LEMMA ConnectionFollows ==
    ASSUME EInv, NEW i \in Profiles, Connection(i)
    PROVE  /\ Typed' /\ Selects'
           /\ ~surprised' => \A page \in Pages : PageFollows(page)'
<1>1. /\ Typed /\ Selects
      /\ ~surprised => \A page \in Pages : PageFollows(page)
      /\ connected' = IF i \in connected THEN connected \ {i} ELSE connected \cup {i}
      /\ ble_work' = (ble_work \/ i = active)
      /\ view' = [view EXCEPT ![i] = Blank]
      /\ UNCHANGED <<vars, preferred, current, usb, active, usb_work, queue,
                     hog_work, hog_running, surprised>>
  BY DEF EInv, Connection
<1>2. /\ "usb" \in Hosts /\ "usb" \notin Profiles /\ Profiles \subseteq Hosts
      /\ active \in Profiles
  BY <1>1, EndpointsAssumption DEF Hosts, Typed
<1>3. /\ view' \in [Hosts -> Report] /\ view'[i] = Blank
      /\ \A h \in Hosts : h # i => view'[h] = view[h]
  BY <1>1, <1>2, BlankShowsNothing DEF Typed
<1>4. Typed'
  <2>1. ble_work' \in BOOLEAN /\ connected' \subseteq Profiles BY <1>1 DEF Typed
  <2> QED BY <1>1, <1>3, <2>1 DEF Typed
<1>5. Selects'
  <2>1. i # active => (active \in connected' <=> active \in connected) BY <1>1
  <2>2. ~ble_work' => i # active /\ ~ble_work BY <1>1
  <2>3. ~usb_work' /\ ~ble_work' => current' = Selected(preferred', usb', connected', active')
    BY <1>1, <2>1, <2>2 DEF Selects, Selected
  <2> QED BY <1>1, <2>3 DEF Selects
<1>6. ASSUME ~surprised', NEW page \in Pages PROVE PageFollows(page)'
  <2>1. UsbFollows(page) /\ OthersFollow(page) /\ ActiveFollows(page) /\ Drained(page)
    BY <1>1, <1>6 DEF PageFollows
  <2>2. UsbFollows(page)'
    <3>1. view'["usb"] = view["usb"] BY <1>2, <1>3
    <3> QED BY <1>1, <2>1, <3>1 DEF vars, UsbFollows
  <2>3. OthersFollow(page)'
    <3> SUFFICES ASSUME NEW h \in Profiles, h # active \/ h \notin connected'
                 PROVE  Content(page, view'[h]) = {}
      BY <1>1 DEF OthersFollow
    <3>1. CASE h = i BY <1>3, <3>1, BlankShowsNothing
    <3>2. CASE h # i BY <1>1, <1>2, <1>3, <2>1, <3>2 DEF OthersFollow
    <3> QED BY <3>1, <3>2
  <2>4. Content(page, view'[active]) = {} \/ view'[active] = view[active]
    BY <1>2, <1>3, BlankShowsNothing
  <2>5. Drained(page)' BY <1>1, <2>1, <2>4 DEF Drained
  <2>6. ActiveFollows(page)'
    <3>1. CASE queue[page] = <<>>
      <4>1. /\ LastIn(queue[page], view[active]) = view[active]
            /\ LastIn(queue'[page], view'[active']) = view'[active]
        BY <1>1, <3>1 DEF LastIn
      <4> QED BY <1>1, <2>1, <2>4, <4>1 DEF vars, ActiveFollows
    <3>2. CASE queue[page] # <<>>
      <4>1. LastIn(queue'[page], view'[active']) = LastIn(queue[page], view[active])
        BY <1>1, <3>2 DEF LastIn
      <4> QED BY <1>1, <2>1, <4>1 DEF vars, ActiveFollows
    <3> QED BY <3>1, <3>2
  <2> QED BY <2>2, <2>3, <2>5, <2>6 DEF PageFollows
<1> QED BY <1>4, <1>5, <1>6
-----------------------------------------------------------------------------
LEMMA InitEInv == EndpointsInit => EInv
<1> SUFFICES ASSUME EndpointsInit PROVE EInv OBVIOUS
<1>1. RInv BY InitRInv DEF EndpointsInit
<1>2. MorphsHold BY DEF EndpointsInit, Init, MorphsHold, Sources
<1>3. Typed
  <2>1. queue = [page \in Pages |-> <<>>] BY DEF EndpointsInit, Pages
  <2>2. \A page \in Pages : queue[page] = <<>> BY <2>1
  <2>3. \A page \in Pages : <<>> \in Queue(page)
    <3>1. Len(<<>>) = 0 /\ \A page : <<>> \in Seq({page} \X Report) OBVIOUS
    <3>2. 0 <= QueueSize BY EndpointsAssumption
    <3> QED BY <3>1, <3>2 DEF Queue
  <2>4. DOMAIN queue = Pages /\ queue = [page \in Pages |-> queue[page]] BY <2>1, <2>2
  <2>5. view \in [Hosts -> Report] BY BlankShowsNothing DEF EndpointsInit
  <2> QED BY <2>2, <2>3, <2>4, <2>5, EndpointsAssumption
    DEF EndpointsInit, Typed, Transports, Endpoint, Pages
<1>4. Selects BY EndpointsAssumption DEF EndpointsInit, Selects, Selected, Hosts
<1>5. ASSUME NEW page \in Pages PROVE PageFollows(page)
  <2>1. queue[page] = <<>> BY <1>5 DEF EndpointsInit, Pages
  <2>2. \A h \in Hosts : Content(page, view[h]) = {} BY BlankShowsNothing DEF EndpointsInit
  <2>3. active \in Profiles BY DEF EndpointsInit
  <2> QED BY <2>1, <2>2, <2>3
    DEF PageFollows, UsbFollows, OthersFollow, ActiveFollows, Drained, LastIn, Hosts
<1> QED BY <1>1, <1>2, <1>3, <1>4, <1>5 DEF EInv

\* Every step of the endpoints is one of Hid, or leaves its state alone.
LEMMA HidSteps == EndpointsNext => [Next]_vars
BY DEF EndpointsNext, Keystroke, HogSend, SetPreferred, SelectProfile, Connection, UsbStatus,
       UsbChanged, BleChanged, Update, Next

LEMMA NextEInv == EInv /\ [EndpointsNext]_all_vars => EInv'
<1> SUFFICES ASSUME EInv, [EndpointsNext]_all_vars PROVE EInv' OBVIOUS
<1>1. RInv /\ MorphsHold /\ Typed /\ active \in Profiles /\ preferred \in Transports
      /\ usb_work \in BOOLEAN /\ ble_work \in BOOLEAN /\ surprised \in BOOLEAN
  BY DEF EInv, Typed
<1>2. RInv' BY <1>1, HidSteps, NextRInv DEF all_vars
<1> DEFINE Settled == /\ MorphsHold' /\ Typed' /\ Selects'
                      /\ ~surprised' => \A page \in Pages : PageFollows(page)'
<1>3. ASSUME held' = held, down' = down PROVE MorphsHold' BY <1>1, <1>3 DEF MorphsHold
<1>4. ASSUME NEW p \in Positions, Keystroke(p) PROVE Settled
  BY <1>1, <1>4, MorphsStep, KeystrokeFollows DEF Keystroke
<1>5. ASSUME NEW page \in {"key", "media"}, HogSend(page) PROVE Settled
  BY <1>3, <1>5, HogSendFollows DEF Pages, HogSend, vars
<1>6. ASSUME NEW pref, NEW act, Update(pref, act) PROVE MorphsHold'
  BY <1>3, <1>6 DEF Update, Clear, vars
<1>a. ASSUME surprised' = surprised
      PROVE  surprised' = (surprised \/ (active # active /\ Underway))
  BY <1>1, <1>a
<1>7. ASSUME NEW t \in Transports, SetPreferred(t) PROVE Settled
  BY <1>1, <1>6, <1>7, <1>a, UpdateFollows DEF SetPreferred
<1>8. ASSUME NEW i \in Profiles, SelectProfile(i) PROVE Settled
  BY <1>1, <1>6, <1>8, UpdateFollows DEF SelectProfile
<1>9. ASSUME NEW i \in Profiles, Connection(i) PROVE Settled
  BY <1>3, <1>9, ConnectionFollows DEF Connection, vars
<1>10. ASSUME NEW s \in UsbStates, UsbStatus(s) PROVE Settled
  BY <1>3, <1>10, UsbStatusFollows DEF UsbStatus, vars
<1>11. ASSUME UsbChanged PROVE Settled
  BY <1>1, <1>6, <1>11, <1>a, UpdateFollows DEF UsbChanged
<1>12. ASSUME BleChanged PROVE Settled
  BY <1>1, <1>6, <1>12, <1>a, UpdateFollows DEF BleChanged
<1>13. ASSUME UNCHANGED all_vars PROVE Settled
  <2>1. /\ UNCHANGED <<hid, held, down, preferred, current, usb, connected, active, usb_work>>
        /\ UNCHANGED <<ble_work, queue, hog_work, hog_running, view, surprised>>
    BY <1>13 DEF all_vars, endpoint_vars, vars
  <2>2. MorphsHold' BY <1>3, <2>1
  <2>3. Typed' BY <1>1, <2>1 DEF Typed
  <2>4. Selects' BY <2>1 DEF EInv, Selects
  <2>5. ASSUME ~surprised', NEW page \in Pages PROVE PageFollows(page)'
    <3>1. PageFollows(page) BY <2>1, <2>5 DEF EInv
    <3> QED BY <2>1, <3>1 DEF PageFollows, UsbFollows, OthersFollow, ActiveFollows, Drained
  <2> QED BY <2>2, <2>3, <2>4, <2>5
<1> HIDE DEF Settled
<1>14. Settled
  BY <1>4, <1>5, <1>7, <1>8, <1>9, <1>10, <1>11, <1>12, <1>13 DEF EndpointsNext
<1> QED BY <1>2, <1>14 DEF EInv, Settled

THEOREM EndpointsInvariance == EndpointsSpec => []EInv
BY InitEInv, NextEInv, PTL DEF EndpointsSpec

\* The endpoints do to the HID state what its specification allows, so that all that is
\* proved of Hid holds of the keyboard with its endpoints (endpoints.c calls hid.c).
THEOREM EndpointsImplementHid == EndpointsSpec => Spec
<1>1. EndpointsInit => Init BY DEF EndpointsInit
<1>2. [EndpointsNext]_all_vars => [Next]_vars BY HidSteps DEF all_vars
<1> QED BY <1>1, <1>2, PTL DEF EndpointsSpec, Spec

\* Once nothing is under way, no host but the selected one has a key of this keyboard
\* pressed, the selected one has none that the keyboard does not hold, and it is the one to
\* be selected (endpoints.c, hog.c), however far behind the HOG thread is and whatever is
\* lost from its queues, unless a profile was switched or USB suspended with a key down.
THEOREM HostsAreReleased == EndpointsSpec => []EndpointsReleased
<1>1. EInv => EndpointsReleased
  <2> SUFFICES ASSUME EInv PROVE EndpointsReleased OBVIOUS
  <2>1. /\ TypeOK /\ Typed /\ Selects
        /\ ~surprised => \A page \in Pages : PageFollows(page)
    BY DEF EInv, RInv, IInv
  <2>2. EndpointsTypeOK
    <3>1. \A page \in Pages : Len(queue[page]) <= QueueSize BY <2>1 DEF Typed, Queue
    <3> QED BY <2>1, <3>1 DEF EndpointsTypeOK, Typed, Pages
  <2>3. SelectedIsReady BY <2>1 DEF SelectedIsReady, Selects, Quiet
  <2>4. \A r : Holds(r) = Content("key", r) \cup Content("media", r)
    <3>1. \A r : UsagesIn(r) = KeysOf(r) \cup MediaOf(r) BY DEF UsagesIn, KeysOf, MediaOf
    <3> QED BY <3>1 DEF Holds, Content
  <2>5. ASSUME Quiet, ~surprised, NEW page \in Pages
        PROVE  /\ \A h \in Hosts \ {current} : Content(page, view[h]) = {}
               /\ current # "none" => Content(page, view[current]) \subseteq Allowed(page, hid)
    <3>1. UsbFollows(page) /\ OthersFollow(page) /\ ActiveFollows(page) /\ Drained(page)
      BY <2>1, <2>5 DEF PageFollows
    <3>2. Content(page, view[active])
            \subseteq (IF current = active THEN Allowed(page, hid) ELSE {})
      BY <2>5, <3>1 DEF Quiet, Drained, ActiveFollows, LastIn
    <3>3. Content(page, view["usb"])
            \subseteq (IF current = "usb" THEN Allowed(page, hid) ELSE {})
      BY <3>1 DEF UsbFollows
    <3>4. /\ current \in {"none", "usb"} \cup Profiles
          /\ current \in Profiles => current = active
      BY <2>1 DEF Typed, Selects, Endpoint
    <3>5. \A h \in Hosts \ {current} : Content(page, view[h]) = {}
      BY <3>1, <3>2, <3>3 DEF OthersFollow, Hosts
    <3> QED BY <3>2, <3>3, <3>4, <3>5
  <2>6. OldEndpointReleasedUnlessSurprised
    BY <2>4, <2>5 DEF OldEndpointReleasedUnlessSurprised, OldEndpointReleased, Pages
  <2>7. NothingStuck
    <3> SUFFICES ASSUME Quiet, ~surprised, current # "none", NEW u \in UsagesIn(view[current])
                 PROVE  u \in UsagesIn(hid.report)
      BY DEF NothingStuck
    <3>1. u \in Keys \cup Media /\ u \notin Mods BY HidAssumption DEF UsagesIn
    <3>2. \A page \in Pages : Content(page, view[current]) \subseteq Allowed(page, hid) BY <2>5
    <3>3. u \in Allowed("key", hid) \cup Allowed("media", hid)
      BY <2>4, <3>2 DEF Holds, Pages
    <3>4. hid.explicit \subseteq Mods /\ hid.report.mods \subseteq Mods
      BY <2>1 DEF TypeOK, HidState, Report
    <3> QED BY <3>1, <3>3, <3>4 DEF Allowed, Content, KeysOf, MediaOf, UsagesIn
  <2> QED BY <2>2, <2>3, <2>6, <2>7 DEF EndpointsReleased
<1> QED BY EndpointsInvariance, <1>1, PTL
=============================================================================

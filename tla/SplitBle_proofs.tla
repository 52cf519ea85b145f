-------------------------- MODULE SplitBle_proofs --------------------------
(***************************************************************************)
(* The two sides of a split keyboard.  SplitBle: the central never stops   *)
(* looking for a peripheral it misses; its copies of the keys, and what it *)
(* raises of them, follow the peripherals.  SplitGatt: the central and the *)
(* halves agree on what they share, and discovery confuses no devices.     *)
(* For any number of peripherals and slots, any tables of characteristics, *)
(* any sizes of the queues and any bounds.                                 *)
(***************************************************************************)
EXTENDS SplitBle, SplitGatt, SequenceTheorems, FunctionTheorems, FiniteSetTheorems,
        WellFoundedInduction, TLAPS

\* What KeepsLooking needs of the types.
SlotTypes ==
    /\ state \in [Slots -> {"open", "connecting", "connected"}]
    /\ active \in {"ble", "wired"} /\ scanning \in BOOLEAN

Looking == SlotTypes /\ KeepsLooking

\* A slot leaves another state for `s': the other slots keep theirs.
LEMMA OneSlot ==
    ASSUME SlotTypes, NEW i \in Slots, NEW s \in {"open", "connecting", "connected"},
           state' = [state EXCEPT ![i] = s]
    PROVE  /\ state' \in [Slots -> {"open", "connecting", "connected"}]
           /\ state'[i] = s
           /\ \A j \in Slots \ {i} : state'[j] = state[j]
BY DEF SlotTypes

\* start_scanning, called with the slots as they have become, restores KeepsLooking.
LEMMA ScanRestored ==
    ASSUME Looking, state' \in [Slots -> {"open", "connecting", "connected"}],
           StartScanning(active, state'), active' = active
    PROVE  Looking'
BY DEF Looking, SlotTypes, KeepsLooking, Connecting, StartScanning

\* So does the choice of a transport, which starts or stops the scan.
LEMMA Choice ==
    ASSUME Looking, SelectTransport, state' = state
    PROVE  Looking'
<1> DEFINE best == IF wired THEN "wired" ELSE "ble"
<1>1. CASE best = active
    BY <1>1 DEF SelectTransport, Looking, SlotTypes, KeepsLooking, Connecting
<1>2. CASE best # active /\ best = "ble"
    BY <1>2 DEF SelectTransport, Looking, SlotTypes, KeepsLooking, Connecting, StartScanning
<1>3. CASE best # active /\ best = "wired"
    BY <1>3 DEF SelectTransport, Looking, SlotTypes, KeepsLooking, Connecting
<1> QED BY <1>1, <1>2, <1>3

\* A step that leaves the slots, the scan and the transport alone.
LEMMA NotLooking ==
    ASSUME Looking, UNCHANGED <<state, scanning, active>>
    PROVE  Looking'
BY DEF Looking, SlotTypes, KeepsLooking, Connecting

LEMMA LookingInductive == Looking /\ [Next]_vars => Looking'
<1> SUFFICES ASSUME Looking, [Next]_vars PROVE Looking'
    OBVIOUS
<1> USE DEF slot_vars, work_vars, link_vars
<1>1. ASSUME NEW p \in Peripherals,
             \/ \E k \in Positions : Stroke(p, k)
             \/ Boot(p) \/ SendState(p) \/ Advertise(p) \/ AdvTimeout(p)
             \/ Loss(p) \/ HangUp(p)
      PROVE  Looking'
    BY <1>1, NotLooking DEF Stroke, Boot, SendState, Advertise, AdvTimeout, Loss, HangUp, Dropped
<1>2. ASSUME NEW p \in Peripherals, Found(p) PROVE Looking'
    <2>1. PICK i \in Slots : state' = [state EXCEPT ![i] = "connecting"]
        <3>1. SlotFor(p) \subseteq Slots
            BY DEF SlotFor
        <3> QED BY <1>2, <3>1 DEF Found
    <2>2. SlotTypes
        BY DEF Looking
    <2>3. state' \in [Slots -> {"open", "connecting", "connected"}] /\ state'[i] = "connecting"
        BY <2>1, <2>2, OneSlot
    <2>4. scanning' = FALSE /\ active' = active
        BY <1>2 DEF Found
    <2> QED BY <2>2, <2>3, <2>4 DEF Looking, SlotTypes, KeepsLooking, Connecting
<1>3. ASSUME NEW p \in Peripherals, FoundInVain(p) PROVE Looking'
    BY <1>3, NotLooking DEF FoundInVain
<1>4. ASSUME NEW i \in Slots, Connected(i) PROVE Looking'
    <2>1. /\ state' = [state EXCEPT ![i] = "connected"]
          /\ StartScanning(active, state') /\ active' = active
        BY <1>4 DEF Connected
    <2>2. SlotTypes
        BY DEF Looking
    <2> QED BY <2>1, <2>2, OneSlot, ScanRestored
<1>5. ASSUME NEW i \in Slots, ConnectionFailed(i) \/ Disconnected(i) PROVE Looking'
    <2>1. /\ state' = [state EXCEPT ![i] = "open"]
          /\ StartScanning(active, state') /\ active' = active
        BY <1>5 DEF ConnectionFailed, Disconnected, ReleaseSlot
    <2>2. SlotTypes
        BY DEF Looking
    <2> QED BY <2>1, <2>2, OneSlot, ScanRestored
<1>6. ASSUME NEW i \in Slots,
             Discovered(i) \/ Secured(i) \/ Notified(i) \/ WriteLayout(i)
      PROVE  Looking'
    BY <1>6, NotLooking DEF Discovered, Secured, Notified, WriteLayout
<1>7. ASSUME Raise \/ TellLayout \/ Plug \/ \E l \in Layouts : SelectLayout(l) PROVE Looking'
    BY <1>7, NotLooking DEF Raise, TellLayout, Plug, SelectLayout
<1>8. ASSUME BleStatus \/ WiredStatus PROVE Looking'
    <2>1. state' = state
        BY <1>8 DEF BleStatus, WiredStatus
    <2>2. SelectTransport \/ UNCHANGED <<state, scanning, active>>
        BY <1>8, <2>1 DEF BleStatus, WiredStatus
    <2> QED BY <2>1, <2>2, Choice, NotLooking
<1>9. ASSUME UNCHANGED vars PROVE Looking'
    BY <1>9, NotLooking DEF vars
<1> QED BY <1>1, <1>2, <1>3, <1>4, <1>5, <1>6, <1>7, <1>8, <1>9 DEF Next

(***************************************************************************)
(* While Bluetooth is the active transport and a slot is open, the central *)
(* scans, or is connecting and will scan again when that ends; and it      *)
(* scans only while Bluetooth is active (start_scanning, stop_scanning,    *)
(* split_central_bt_set_enabled).                                          *)
(***************************************************************************)
THEOREM CentralKeepsLooking == Spec => []KeepsLooking
<1>1. Init => Looking
    BY DEF Init, Looking, SlotTypes, KeepsLooking
<1>2. Looking => KeepsLooking
    BY DEF Looking
<1> QED BY <1>1, <1>2, LookingInductive, PTL DEF Spec
-----------------------------------------------------------------------------
(* Sequences: the last element that is in T is in G; or there is none in T, *)
(* and `otherwise' holds.  How many elements are in T.                      *)
NoneIn(s, T) == \A n \in DOMAIN s : s[n] \notin T
LastIn(s, T, G) ==
    \E n \in DOMAIN s : s[n] \in T /\ s[n] \in G /\ \A m \in DOMAIN s : m > n => s[m] \notin T
LastOr(s, T, G, otherwise) == LastIn(s, T, G) \/ (NoneIn(s, T) /\ otherwise)
Places(s, T) == {n \in DOMAIN s : s[n] \in T}
CountIn(s, T) == Cardinality(Places(s, T))

LEMMA EmptyHasNone == ASSUME NEW T PROVE NoneIn(<<>>, T) /\ CountIn(<<>>, T) = 0
BY FS_EmptySet DEF NoneIn, CountIn, Places

LEMMA CountType ==
    ASSUME NEW S, NEW s \in Seq(S), NEW T
    PROVE  /\ IsFiniteSet(Places(s, T)) /\ CountIn(s, T) \in Nat
           /\ (CountIn(s, T) = 0 => NoneIn(s, T))
<1>1. Len(s) \in Nat /\ DOMAIN s = 1 .. Len(s)
    BY LenProperties
<1>2. IsFiniteSet(1 .. Len(s))
    BY <1>1, FS_Interval
<1>3. IsFiniteSet(Places(s, T))
    BY <1>1, <1>2, FS_Subset DEF Places
<1> QED BY <1>3, FS_CardinalityType, FS_EmptySet DEF CountIn, NoneIn, Places

\* A message is put at the end.
LEMMA AppendLast ==
    ASSUME NEW S, NEW s \in Seq(S), NEW x \in S, NEW T, NEW G
    PROVE  /\ x \in T /\ x \in G => LastIn(Append(s, x), T, G)
           /\ x \notin T /\ LastIn(s, T, G) => LastIn(Append(s, x), T, G)
           /\ x \notin T /\ NoneIn(s, T) => NoneIn(Append(s, x), T)
<1> DEFINE t == Append(s, x)
<1>1. /\ Len(s) \in Nat /\ DOMAIN s = 1 .. Len(s) /\ DOMAIN t = 1 .. Len(s) + 1
      /\ t[Len(s) + 1] = x /\ \A n \in DOMAIN s : t[n] = s[n]
    BY LenProperties
<1> HIDE DEF t
<1>2. \A n \in DOMAIN t : n \in DOMAIN s \/ n = Len(s) + 1
    BY <1>1
<1>3. ASSUME x \in T, x \in G PROVE LastIn(t, T, G)
    <2>1. Len(s) + 1 \in DOMAIN t /\ \A m \in DOMAIN t : ~(m > Len(s) + 1)
        BY <1>1
    <2> QED BY <1>1, <1>3, <2>1 DEF LastIn
<1>4. ASSUME x \notin T, LastIn(s, T, G) PROVE LastIn(t, T, G)
    <2>1. PICK n \in DOMAIN s : s[n] \in T /\ s[n] \in G /\ \A m \in DOMAIN s : m > n => s[m] \notin T
        BY <1>4 DEF LastIn
    <2>2. n \in DOMAIN t /\ t[n] = s[n]
        BY <1>1
    <2>3. \A m \in DOMAIN t : m > n => t[m] \notin T
        BY <1>1, <1>2, <1>4, <2>1
    <2> QED BY <2>1, <2>2, <2>3 DEF LastIn
<1>5. ASSUME x \notin T, NoneIn(s, T) PROVE NoneIn(t, T)
    BY <1>1, <1>2, <1>5 DEF NoneIn
<1> QED BY <1>3, <1>4, <1>5 DEF t

LEMMA AppendCount ==
    ASSUME NEW S, NEW s \in Seq(S), NEW x \in S, NEW T
    PROVE  CountIn(Append(s, x), T) = IF x \in T THEN CountIn(s, T) + 1 ELSE CountIn(s, T)
<1> DEFINE t == Append(s, x)
<1>1. /\ Len(s) \in Nat /\ DOMAIN s = 1 .. Len(s) /\ DOMAIN t = 1 .. Len(s) + 1
      /\ t[Len(s) + 1] = x /\ \A n \in DOMAIN s : t[n] = s[n]
    BY LenProperties
<1> HIDE DEF t
<1>2. Len(s) + 1 \notin Places(s, T)
    BY <1>1 DEF Places
<1>3. IsFiniteSet(Places(s, T))
    BY CountType
<1>4. CASE x \in T
    <2>1. Places(t, T) = Places(s, T) \cup {Len(s) + 1}
        BY <1>1, <1>4 DEF Places
    <2> QED BY <1>2, <1>3, <1>4, <2>1, FS_AddElement DEF CountIn, t
<1>5. CASE x \notin T
    <2>1. Places(t, T) = Places(s, T)
        BY <1>1, <1>5 DEF Places
    <2> QED BY <1>5, <2>1 DEF CountIn, t
<1> QED BY <1>4, <1>5

\* The first message is taken.
LEMMA TailLast ==
    ASSUME NEW S, NEW s \in Seq(S), s # <<>>, NEW T, NEW G
    PROVE  /\ NoneIn(s, T) => NoneIn(Tail(s), T) /\ Head(s) \notin T
           /\ Head(s) \notin T /\ NoneIn(Tail(s), T) => NoneIn(s, T)
           /\ LastIn(s, T, G) => \/ LastIn(Tail(s), T, G)
                                 \/ (NoneIn(Tail(s), T) /\ Head(s) \in T /\ Head(s) \in G)
<1>1. /\ Len(s) \in Nat \ {0} /\ DOMAIN s = 1 .. Len(s) /\ Head(s) = s[1]
      /\ DOMAIN Tail(s) = 1 .. Len(s) - 1 /\ \A n \in DOMAIN Tail(s) : Tail(s)[n] = s[n + 1]
    <2>1. Len(s) \in Nat \ {0} /\ DOMAIN s = 1 .. Len(s)
        BY LenProperties, EmptySeq
    <2>2. Tail(s) \in Seq(S) /\ Len(Tail(s)) = Len(s) - 1
          /\ \A i \in 1 .. Len(Tail(s)) : Tail(s)[i] = s[i+1]
        BY HeadTailProperties
    <2>3. DOMAIN Tail(s) = 1 .. Len(s) - 1
        BY <2>2, LenProperties
    <2> QED BY <2>1, <2>2, <2>3
<1> DEFINE t == Tail(s)
<1>2. \A n \in DOMAIN s : n = 1 \/ (n - 1 \in DOMAIN t /\ t[n - 1] = s[n])
    BY <1>1
<1>3. \A n \in DOMAIN t : n + 1 \in DOMAIN s /\ t[n] = s[n + 1]
    BY <1>1
<1>4. ASSUME NoneIn(s, T) PROVE NoneIn(t, T) /\ Head(s) \notin T
    <2>1. 1 \in DOMAIN s
        BY <1>1
    <2> QED BY <1>1, <1>3, <1>4, <2>1 DEF NoneIn
<1>5. ASSUME Head(s) \notin T, NoneIn(t, T) PROVE NoneIn(s, T)
    BY <1>1, <1>2, <1>5 DEF NoneIn
<1>6. ASSUME LastIn(s, T, G)
      PROVE  LastIn(t, T, G) \/ (NoneIn(t, T) /\ Head(s) \in T /\ Head(s) \in G)
    <2>1. PICK n \in DOMAIN s : s[n] \in T /\ s[n] \in G /\ \A m \in DOMAIN s : m > n => s[m] \notin T
        BY <1>6 DEF LastIn
    <2>2. CASE n = 1
        <3>1. \A m \in DOMAIN t : m + 1 > n
            BY <1>1, <2>2
        <3> QED BY <1>1, <1>3, <2>1, <2>2, <3>1 DEF NoneIn
    <2>3. CASE n # 1
        <3>1. n - 1 \in DOMAIN t /\ t[n - 1] = s[n]
            BY <1>2, <2>3
        <3>2. \A m \in DOMAIN t : m > n - 1 => m + 1 > n
            BY <1>1
        <3> QED BY <1>3, <2>1, <3>1, <3>2 DEF LastIn
    <2> QED BY <2>2, <2>3
<1> QED BY <1>4, <1>5, <1>6

LEMMA TailCount ==
    ASSUME NEW S, NEW s \in Seq(S), s # <<>>, NEW T
    PROVE  CountIn(Tail(s), T) = IF Head(s) \in T THEN CountIn(s, T) - 1 ELSE CountIn(s, T)
<1>1. /\ Len(s) \in Nat \ {0} /\ DOMAIN s = 1 .. Len(s) /\ Head(s) = s[1]
      /\ DOMAIN Tail(s) = 1 .. Len(s) - 1 /\ \A n \in DOMAIN Tail(s) : Tail(s)[n] = s[n + 1]
    <2>1. Len(s) \in Nat \ {0} /\ DOMAIN s = 1 .. Len(s)
        BY LenProperties, EmptySeq
    <2>2. Tail(s) \in Seq(S) /\ Len(Tail(s)) = Len(s) - 1
          /\ \A i \in 1 .. Len(Tail(s)) : Tail(s)[i] = s[i+1]
        BY HeadTailProperties
    <2>3. DOMAIN Tail(s) = 1 .. Len(s) - 1
        BY <2>2, LenProperties
    <2> QED BY <2>1, <2>2, <2>3
<1> DEFINE t == Tail(s)
           A == Places(t, T)
           B == Places(s, T) \ {1}
           f == [n \in A |-> n + 1]
<1>2. IsFiniteSet(Places(s, T)) /\ Cardinality(Places(s, T)) \in Nat
    BY CountType DEF CountIn
<1>3. IsFiniteSet(B) /\ Cardinality(B) = IF 1 \in Places(s, T) THEN CountIn(s, T) - 1 ELSE CountIn(s, T)
    BY <1>2, FS_RemoveElement DEF CountIn
<1>4. 1 \in Places(s, T) <=> Head(s) \in T
    BY <1>1 DEF Places
<1>5. IsFiniteSet(A)
    BY CountType, HeadTailProperties
<1>6. f \in Bijection(A, B)
    <2>1. A \subseteq Nat /\ \A n \in A : n + 1 \in B
        BY <1>1 DEF Places
    <2>2. \A b \in B : b - 1 \in A /\ f[b - 1] = b
        BY <1>1 DEF Places
    <2>3. f \in [A -> B] /\ \A a, c \in A : f[a] = f[c] => a = c
        BY <2>1
    <2>4. \A b \in B : \E a \in A : f[a] = b
        BY <2>2
    <2> HIDE DEF A, B, f
    <2> QED BY <2>3, <2>4, Fun_IsBij
<1> HIDE DEF A, B, f, t
<1>7. ExistsBijection(A, B)
    BY <1>6, Fun_ExistsBij
<1>8. Cardinality(A) = Cardinality(B)
    BY <1>5, <1>7, FS_Bijection
<1> QED BY <1>3, <1>4, <1>8 DEF CountIn, A, t

\* Several messages are put at the end.
LEMMA ConcatNone ==
    ASSUME NEW S, NEW s \in Seq(S), NEW t \in Seq(S), NEW T
    PROVE  NoneIn(s \o t, T) <=> NoneIn(s, T) /\ NoneIn(t, T)
<1>1. /\ Len(s) \in Nat /\ DOMAIN s = 1 .. Len(s) /\ Len(t) \in Nat /\ DOMAIN t = 1 .. Len(t)
      /\ DOMAIN (s \o t) = 1 .. Len(s) + Len(t)
      /\ \A n \in 1 .. Len(s) + Len(t) : (s \o t)[n] = IF n <= Len(s) THEN s[n] ELSE t[n - Len(s)]
    BY LenProperties, ConcatProperties
<1> DEFINE u == s \o t
<1>2. \A n \in DOMAIN s : n \in DOMAIN u /\ u[n] = s[n]
    BY <1>1
<1>3. \A n \in DOMAIN t : n + Len(s) \in DOMAIN u /\ u[n + Len(s)] = t[n]
    BY <1>1
<1>4. \A n \in DOMAIN u : (n \in DOMAIN s /\ u[n] = s[n]) \/ (n - Len(s) \in DOMAIN t /\ u[n] = t[n - Len(s)])
    BY <1>1
<1> HIDE DEF u
<1>5. NoneIn(u, T) <=> NoneIn(s, T) /\ NoneIn(t, T)
    BY <1>2, <1>3, <1>4 DEF NoneIn
<1> QED BY <1>5 DEF u

LEMMA ConcatLast ==
    ASSUME NEW S, NEW s \in Seq(S), NEW t \in Seq(S), NEW T, NEW G, LastIn(s, T, G), NoneIn(t, T)
    PROVE  LastIn(s \o t, T, G)
<1>1. /\ Len(s) \in Nat /\ DOMAIN s = 1 .. Len(s) /\ Len(t) \in Nat /\ DOMAIN t = 1 .. Len(t)
      /\ DOMAIN (s \o t) = 1 .. Len(s) + Len(t)
      /\ \A n \in 1 .. Len(s) + Len(t) : (s \o t)[n] = IF n <= Len(s) THEN s[n] ELSE t[n - Len(s)]
    BY LenProperties, ConcatProperties
<1> DEFINE u == s \o t
<1>2. \A n \in DOMAIN s : n \in DOMAIN u /\ u[n] = s[n]
    BY <1>1
<1>3. \A n \in DOMAIN u : (n \in DOMAIN s /\ u[n] = s[n]) \/ (n - Len(s) \in DOMAIN t /\ u[n] = t[n - Len(s)])
    BY <1>1
<1> HIDE DEF u
<1>4. PICK n \in DOMAIN s : s[n] \in T /\ s[n] \in G /\ \A m \in DOMAIN s : m > n => s[m] \notin T
    BY DEF LastIn
<1>5. \A m \in DOMAIN u : m > n => u[m] \notin T
    BY <1>3, <1>4 DEF NoneIn
<1>6. LastIn(u, T, G)
    BY <1>2, <1>4, <1>5 DEF LastIn
<1> QED BY <1>6 DEF u

\* A set of natural numbers has a first element.
LEMMA FirstOf ==
    ASSUME NEW S \in SUBSET Nat, NEW k \in S
    PROVE  \E n \in S : \A m \in S : n <= m
<1>1. IsWellFoundedOn(OpToRel(<, Nat), Nat)
    BY NatLessThanWellFounded
<1>2. PICK n \in S : \A m \in S : ~(<<m, n>> \in OpToRel(<, Nat))
    BY <1>1, WFMin
<1>3. \A m \in S : ~(m < n)
    BY <1>2 DEF OpToRel
<1> QED BY <1>3
-----------------------------------------------------------------------------
(* Types of SplitGatt.                                                       *)
ModeSet == {"none", "service", "chrc", "ccc", "cpf", "done"}
InputSlot == [conn : GattHalves \cup {NoHalf}, value : Nat, ccc : Nat, reg : Nat,
              subscribed : BOOLEAN]
HeardFrom(sources) == [source : sources, kind : {"turn", "batt", "input"}, level : 0 .. 3,
                       reg : Nat, chr : Nat]
Heard == HeardFrom(GattHalves \cup {Stranger})
Ordered == [dest : GattHalves, kind : {"leds", "run"}, key : SUBSET GattHalves, value : {0, 1},
            chr : {0}]
Written == [kind : {"ccc", "read", "leds", "run"}, chr : Nat, key : SUBSET GattHalves,
            value : {0, 1}]

CentralShape ==
    /\ build \in Builds
    /\ gatt_state \in [GattHalves -> {"open", "connected"}]
    /\ handles \in [GattHalves -> SUBSET (Kinds \ {"input"})]
    /\ cursor \in [GattHalves -> [mode : ModeSet, at : Nat]]
    /\ \A p \in GattHalves : cursor[p].at \in DOMAIN Table(p)
    /\ slots \in [InputSlots -> InputSlot]
EventShape ==
    /\ gatt_events \in Seq(Heard) /\ Len(gatt_events) <= GattEventQueue
    /\ levels \in [GattHalves -> 0 .. 3] /\ proxy \in [GattHalves -> 0 .. 3]
CommandShape ==
    /\ commands \in Seq(Ordered) /\ Len(commands) <= CommandQueue /\ todo \in Seq(Ordered)
    /\ lights \in [Endpoints -> {0, 1}] /\ gatt_selected \in Endpoints
    /\ pressed \subseteq SUBSET GattHalves
HalfShape ==
    /\ charge \in [GattHalves -> 1 .. 3] /\ turns \in [GattHalves -> 0 .. SensorQueue]
    /\ hid_lights \in [GattHalves -> {0, 1}] /\ shown \in [GattHalves -> {0, 1}]
    /\ show_work \in [GattHalves -> BOOLEAN] /\ held \in [GattHalves -> SUBSET SUBSET GattHalves]
AirShape ==
    /\ up = [p \in GattHalves |-> up[p]] /\ down = [p \in GattHalves |-> down[p]]
    /\ \A p \in GattHalves : up[p] \in Seq(HeardFrom({p})) /\ down[p] \in Seq(Written)
HistoryShape ==
    /\ turned \in [GattHalves -> Nat] /\ counted \in [GattHalves -> Nat] /\ owed \subseteq GattHalves
\* A half without a connection is not known, and nothing is on its way to it or from it.
Gone(p) == handles[p] = {} /\ cursor[p].mode = "none" /\ up[p] = <<>> /\ down[p] = <<>>
PhaseShape ==
    \A p \in GattHalves : IF gatt_state[p] = "open" THEN Gone(p) ELSE cursor[p].mode # "none"

Shape == /\ CentralShape /\ EventShape /\ CommandShape /\ HalfShape /\ AirShape /\ HistoryShape
         /\ PhaseShape

\* Messages.
LEMMA TurnedType ==
    ASSUME NEW p \in GattHalves
    PROVE  /\ Turned(p) \in HeardFrom({p}) /\ Turned(p) \in Heard
           /\ Turned(p).kind = "turn" /\ Turned(p).source = p
<1>1. Turned(p) = [source |-> p, kind |-> "turn", level |-> 0, reg |-> 0, chr |-> 0]
    BY DEF Turned, Rec
<1> QED BY <1>1 DEF HeardFrom, Heard

LEMMA LevelType ==
    ASSUME NEW p \in GattHalves, NEW l \in 0 .. 3
    PROVE  /\ Level(p, l) \in HeardFrom({p}) /\ Level(p, l) \in Heard
           /\ Level(p, l).kind = "batt" /\ Level(p, l).source = p /\ Level(p, l).level = l
<1>1. Level(p, l) = [source |-> p, kind |-> "batt", level |-> l, reg |-> 0, chr |-> 0]
    BY DEF Level, Rec
<1> QED BY <1>1 DEF HeardFrom, Heard

LEMMA MovedType ==
    ASSUME NEW p \in GattHalves, NEW k \in Nat, NEW r \in Nat
    PROVE  /\ Moved(p, k, r) \in HeardFrom({p}) /\ Moved(p, k, r) \in Heard
           /\ Moved(p, k, r).kind = "input" /\ Moved(p, k, r).source = p
           /\ Moved(p, k, r).chr = k /\ Moved(p, k, r).reg = r
<1>1. Rec("input", p) = [source |-> p, kind |-> "input", level |-> 0, reg |-> 0, chr |-> 0]
    BY DEF Rec
<1>2. Rec("input", p) \in HeardFrom({p}) /\ Rec("input", p).kind = "input"
    BY <1>1 DEF HeardFrom
<1> HIDE DEF Rec
<1>3. /\ Moved(p, k, r) \in HeardFrom({p}) /\ Moved(p, k, r).kind = "input"
      /\ Moved(p, k, r).source = p /\ Moved(p, k, r).chr = k /\ Moved(p, k, r).reg = r
    BY <1>2 DEF Moved, HeardFrom
<1> QED BY <1>3 DEF HeardFrom, Heard

LEMMA StrangerType ==
    /\ Level(Stranger, 0) \in Heard /\ Level(Stranger, 0).kind = "batt"
    /\ Level(Stranger, 0).source = Stranger
BY DEF Level, Rec, HeardFrom, Heard

LEMMA PutLastType ==
    ASSUME EventShape, NEW ev \in Heard
    PROVE  PutLast(ev) \in Seq(Heard) /\ Len(PutLast(ev)) <= GattEventQueue
<1>1. Len(gatt_events) \in Nat /\ GattEventQueue \in Nat
    BY LenProperties, GattAssumption DEF EventShape
<1>2. Append(gatt_events, ev) \in Seq(Heard) /\ Len(Append(gatt_events, ev)) = Len(gatt_events) + 1
    BY DEF EventShape
<1> QED BY <1>1, <1>2 DEF PutLast, EventShape

\* The elements of a set in their order: each of them once.
LEMMA AscendingIsARow ==
    ASSUME NEW halves \in SUBSET Nat, IsFiniteSet(halves)
    PROVE  /\ Ascending(halves) \in Seq(halves)
           /\ DOMAIN Ascending(halves) = 1 .. Cardinality(halves)
           /\ \A p \in halves : \E n \in DOMAIN Ascending(halves) :
                /\ Ascending(halves)[n] = p
                /\ \A m \in DOMAIN Ascending(halves) : Ascending(halves)[m] = p => m = n
<1> DEFINE Below(p) == {q \in halves : q < p}
           N == Cardinality(halves)
           rank == [p \in halves |-> Cardinality(Below(p)) + 1]
<1>1. IsFiniteSet(halves) /\ N \in Nat /\ halves \subseteq Nat
    BY FS_CardinalityType
<1>2. \A p \in halves : IsFiniteSet(Below(p)) /\ Cardinality(Below(p)) \in Nat
    BY <1>1, FS_Subset, FS_CardinalityType
<1>3. \A p \in halves : rank[p] \in 1 .. N
    <2> SUFFICES ASSUME NEW p \in halves PROVE rank[p] \in 1 .. N
        OBVIOUS
    <2>1. Below(p) \in SUBSET (halves \ {p})
        BY <1>1
    <2>2. IsFiniteSet(halves \ {p}) /\ Cardinality(halves \ {p}) = N - 1
        BY <1>1, FS_RemoveElement
    <2>3. Cardinality(Below(p)) <= N - 1
        BY <2>1, <2>2, FS_Subset
    <2> QED BY <1>1, <1>2, <2>3
<1>4. ASSUME NEW p \in halves, NEW q \in halves, p < q PROVE rank[p] < rank[q]
    <2>1. Below(p) \cup {p} \in SUBSET Below(q) /\ p \notin Below(p)
        <3>1. p \in Nat /\ q \in Nat /\ \A r \in halves : r \in Nat
            BY <1>1
        <3>2. \A r \in Below(p) : r \in Below(q)
            BY <1>4, <3>1
        <3>3. p \in Below(q) /\ p \notin Below(p)
            BY <1>4, <3>1
        <3> QED BY <3>2, <3>3
    <2>2. Cardinality(Below(p) \cup {p}) = Cardinality(Below(p)) + 1
        BY <1>2, <2>1, FS_AddElement
    <2>3. Cardinality(Below(p)) + 1 <= Cardinality(Below(q))
        BY <1>2, <2>1, <2>2, FS_Subset
    <2> QED BY <1>2, <2>3
<1>5. \A p, q \in halves : rank[p] = rank[q] => p = q
    <2> SUFFICES ASSUME NEW p \in halves, NEW q \in halves, rank[p] = rank[q], p # q PROVE FALSE
        OBVIOUS
    <2>1. rank[p] \in Nat /\ rank[q] \in Nat
        BY <1>3
    <2>2. p < q \/ q < p
        BY <1>1
    <2>3. rank[p] < rank[q] \/ rank[q] < rank[p]
        BY <1>4, <2>2
    <2> HIDE DEF rank
    <2> QED BY <2>1, <2>3
<1>6. rank \in Surjection(halves, 1 .. N)
    <2>1. rank \in [halves -> 1 .. N]
        BY <1>3
    <2>2. IsFiniteSet(1 .. N) /\ Cardinality(1 .. N) = N
        BY <1>1, FS_Interval
    <2> HIDE DEF rank, N
    <2>3. rank \in Injection(halves, 1 .. N)
        BY <1>5, <2>1, Fun_IsInj
    <2> QED BY <2>2, <2>3, FS_Injection DEF N
<1>7. \A n \in 1 .. N : \E p \in halves : rank[p] = n
    <2> HIDE DEF rank, N
    <2> QED BY <1>6, Fun_SurjectionProperties
<1>8. \A n \in 1 .. N : Ascending(halves)[n] \in halves /\ rank[Ascending(halves)[n]] = n
    <2> SUFFICES ASSUME NEW n \in 1 .. N
                 PROVE  Ascending(halves)[n] \in halves /\ rank[Ascending(halves)[n]] = n
        OBVIOUS
    <2>1. \E p \in halves : Cardinality({q \in halves : q < p}) = n - 1
        <3>1. PICK p \in halves : rank[p] = n
            BY <1>7
        <3>2. Cardinality(Below(p)) \in Nat /\ Cardinality(Below(p)) + 1 = n
            BY <1>2, <3>1
        <3>3. Cardinality(Below(p)) = n - 1
            BY <1>1, <3>2
        <3> QED BY <3>3
    <2>2. Ascending(halves)[n] = CHOOSE p \in halves : Cardinality({q \in halves : q < p}) = n - 1
        BY DEF Ascending
    <2>3. /\ Ascending(halves)[n] \in halves
          /\ Cardinality({q \in halves : q < Ascending(halves)[n]}) = n - 1
        BY <2>1, <2>2
    <2> QED BY <1>1, <2>3
<1>9. DOMAIN Ascending(halves) = 1 .. N
    BY DEF Ascending
<1>10. Ascending(halves) \in Seq(halves)
    <2>1. Ascending(halves) \in [1 .. N -> halves]
        BY <1>8 DEF Ascending
    <2> QED BY <1>1, <2>1
<1> HIDE DEF rank, N
<1>11. ASSUME NEW p \in halves
       PROVE  /\ rank[p] \in DOMAIN Ascending(halves) /\ Ascending(halves)[rank[p]] = p
              /\ \A m \in DOMAIN Ascending(halves) : Ascending(halves)[m] = p => m = rank[p]
    <2>1. rank[p] \in 1 .. N /\ DOMAIN Ascending(halves) = 1 .. N
        BY <1>3, <1>9
    <2>2. Ascending(halves)[rank[p]] \in halves /\ rank[Ascending(halves)[rank[p]]] = rank[p]
        BY <1>8, <2>1
    <2>3. Ascending(halves)[rank[p]] = p
        BY <1>5, <2>2
    <2>4. \A m \in DOMAIN Ascending(halves) : Ascending(halves)[m] = p => m = rank[p]
        BY <1>8, <2>1
    <2> QED BY <2>1, <2>3, <2>4
<1> QED BY <1>9, <1>10, <1>11 DEF N

LEMMA TableFacts ==
    ASSUME build \in Builds, NEW p \in GattHalves
    PROVE  /\ Len(Table(p)) \in Nat \ {0} /\ DOMAIN Table(p) = 1 .. Len(Table(p))
           /\ \A k \in DOMAIN Table(p) : Table(p)[k].kind \in Kinds /\ Table(p)[k].reg \in Nat
           /\ build.inputs \in Nat
<1>1. build.table \in [GattHalves -> Seq([kind : Kinds, reg : Nat]) \ {<<>>}] /\ build.inputs \in Nat
    BY GattAssumption
<1>2. Table(p) \in Seq([kind : Kinds, reg : Nat]) /\ Table(p) # <<>>
    BY <1>1 DEF Table
<1>3. Len(Table(p)) \in Nat \ {0} /\ DOMAIN Table(p) = 1 .. Len(Table(p))
    BY <1>2, LenProperties, EmptySeq
<1>4. \A k \in DOMAIN Table(p) : Table(p)[k] \in [kind : Kinds, reg : Nat]
    BY <1>2, <1>3, ElementOfSeq
<1> QED BY <1>1, <1>3, <1>4

\* What the actions of discovery do to the cursor.
LEMMA GoOnFacts ==
    ASSUME CentralShape, NEW p \in GattHalves, NEW mode \in {"chrc", "ccc", "cpf"}, GoOn(p, mode)
    PROVE  /\ cursor' \in [GattHalves -> [mode : ModeSet, at : Nat]]
           /\ \A q \in GattHalves \ {p} : cursor'[q] = cursor[q]
           /\ cursor'[p].at \in DOMAIN Table(p) /\ cursor'[p].mode \in {mode, "done"}
           /\ cursor'[p] = Cursor("done", 1)
              \/ cursor'[p] = Cursor(mode, IF mode = "chrc" THEN cursor[p].at + 1 ELSE cursor[p].at)
           /\ cursor'[p] = Cursor("done", 1) =>
                \/ Complete(handles'[p], slots')
                \/ (IF mode = "chrc" THEN cursor[p].at + 1 ELSE cursor[p].at) > Len(Table(p))
<1> DEFINE next == IF mode = "chrc" THEN cursor[p].at + 1 ELSE cursor[p].at
           new  == IF Complete(handles'[p], slots') \/ next > Len(Table(p))
                   THEN Cursor("done", 1) ELSE Cursor(mode, next)
<1>1. cursor' = [cursor EXCEPT ![p] = new]
    BY DEF GoOn
<1>2. cursor \in [GattHalves -> [mode : ModeSet, at : Nat]] /\ cursor[p].at \in DOMAIN Table(p)
    BY DEF CentralShape
<1>3. Len(Table(p)) \in Nat \ {0} /\ DOMAIN Table(p) = 1 .. Len(Table(p))
    BY TableFacts DEF CentralShape
<1>4. next \in Nat \ {0}
    BY <1>2, <1>3
<1>5. CASE Complete(handles'[p], slots') \/ next > Len(Table(p))
    <2>1. cursor' = [cursor EXCEPT ![p] = Cursor("done", 1)]
        BY <1>1, <1>5
    <2>2. Cursor("done", 1) \in [mode : ModeSet, at : Nat] /\ Cursor("done", 1).at = 1
          /\ Cursor("done", 1).mode = "done"
        BY DEF Cursor, ModeSet
    <2>3. /\ cursor' \in [GattHalves -> [mode : ModeSet, at : Nat]]
          /\ \A q \in GattHalves \ {p} : cursor'[q] = cursor[q]
          /\ cursor'[p] = Cursor("done", 1)
        BY <1>2, <2>1, <2>2
    <2> QED BY <1>3, <1>5, <2>2, <2>3
<1>6. CASE ~(Complete(handles'[p], slots') \/ next > Len(Table(p)))
    <2>1. cursor' = [cursor EXCEPT ![p] = Cursor(mode, next)]
        BY <1>1, <1>6
    <2>2. Cursor(mode, next) \in [mode : ModeSet, at : Nat] /\ Cursor(mode, next).at = next
          /\ Cursor(mode, next).mode = mode
        BY <1>4 DEF Cursor, ModeSet
    <2>3. /\ cursor' \in [GattHalves -> [mode : ModeSet, at : Nat]]
          /\ \A q \in GattHalves \ {p} : cursor'[q] = cursor[q]
          /\ cursor'[p] = Cursor(mode, next)
        BY <1>2, <2>1, <2>2
    <2>4. next \in DOMAIN Table(p)
        BY <1>3, <1>4, <1>6
    <2>5. cursor'[p] # Cursor("done", 1)
        <3>1. Cursor("done", 1).mode = "done"
            BY DEF Cursor
        <3> QED BY <2>2, <2>3, <3>1
    <2> QED BY <2>2, <2>3, <2>4, <2>5
<1> QED BY <1>5, <1>6

\* The requests that discovery sends.
LEMMA RequestTypes ==
    ASSUME CentralShape, NEW p \in GattHalves, NEW requests \in Requests(p)
    PROVE  requests \in Seq(Written)
<1>1. cursor[p].at \in Nat
    BY DEF CentralShape
<1> DEFINE ccc == [kind |-> "ccc", chr |-> cursor[p].at, key |-> {}, value |-> 0]
           read == [ccc EXCEPT !.kind = "read"]
<1>2. ccc \in Written
    BY <1>1 DEF Written
<1>3. read \in Written
    <2> HIDE DEF ccc
    <2> QED BY <1>2 DEF Written
<1>4. requests \in {<<ccc>>, <<ccc, read>>, <<read, ccc>>, <<>>}
    BY DEF Requests
<1> HIDE DEF ccc, read
<1>5. <<ccc>> \in Seq(Written) /\ <<>> \in Seq(Written)
    BY <1>2
<1>6. <<ccc, read>> \in Seq(Written)
    BY <1>2, <1>3
<1>7. <<read, ccc>> \in Seq(Written)
    BY <1>2, <1>3
<1> QED BY <1>4, <1>5, <1>6, <1>7, Zenon

LEMMA ShapeInit == GattInit => Shape
<1> SUFFICES ASSUME GattInit PROVE Shape
    OBVIOUS
<1>1. CentralShape
    <2>1. \A p \in GattHalves : cursor[p] = Cursor("none", 1)
        BY DEF GattInit
    <2>2. cursor \in [GattHalves -> [mode : ModeSet, at : Nat]] /\ \A p \in GattHalves : cursor[p].at = 1
        BY <2>1 DEF GattInit, Cursor, ModeSet
    <2>3. \A p \in GattHalves : cursor[p].at \in DOMAIN Table(p)
        BY <2>2, TableFacts DEF GattInit
    <2>4. slots \in [InputSlots -> InputSlot]
        BY DEF GattInit, InputSlot, EmptySlot
    <2> QED BY <2>2, <2>3, <2>4 DEF CentralShape, GattInit
<1>2. EventShape
    <2>1. Len(<<>>) <= GattEventQueue
        BY GattAssumption, EmptySeq
    <2> QED BY <2>1, EmptySeq DEF GattInit, EventShape
<1>3. CommandShape
    <2>1. Len(<<>>) <= CommandQueue
        BY GattAssumption, EmptySeq
    <2> QED BY <2>1, EmptySeq DEF GattInit, CommandShape, Endpoints
<1>4. HalfShape
    BY GattAssumption DEF GattInit, HalfShape
<1>5. AirShape
    BY EmptySeq DEF GattInit, AirShape
<1>6. HistoryShape
    BY DEF GattInit, HistoryShape
<1>7. PhaseShape
    BY DEF GattInit, PhaseShape, Gone, Cursor
<1> QED BY <1>1, <1>2, <1>3, <1>4, <1>5, <1>6, <1>7 DEF Shape

\* What a step leaves alone keeps its type.
LEMMA KeptShapes ==
    ASSUME Shape
    PROVE  /\ UNCHANGED <<build, gatt_state, handles, cursor, slots>> => CentralShape'
           /\ UNCHANGED <<gatt_events, levels, proxy>> => EventShape'
           /\ UNCHANGED <<commands, todo, lights, gatt_selected, pressed>> => CommandShape'
           /\ UNCHANGED <<charge, turns, hid_lights, shown, show_work, held>> => HalfShape'
           /\ UNCHANGED <<up, down>> => AirShape'
           /\ UNCHANGED <<turned, counted, owed>> => HistoryShape'
           /\ UNCHANGED <<gatt_state, handles, cursor, up, down>> => PhaseShape'
<1>1. UNCHANGED <<build, gatt_state, handles, cursor, slots>> => CentralShape'
    BY DEF Shape, CentralShape, Table, InputSlots
<1>2. UNCHANGED <<gatt_events, levels, proxy>> => EventShape'
    BY DEF Shape, EventShape
<1>3. UNCHANGED <<commands, todo, lights, gatt_selected, pressed>> => CommandShape'
    BY DEF Shape, CommandShape
<1>4. UNCHANGED <<charge, turns, hid_lights, shown, show_work, held>> => HalfShape'
    BY DEF Shape, HalfShape
<1>5. UNCHANGED <<up, down>> => AirShape'
    BY DEF Shape, AirShape
<1>6. UNCHANGED <<turned, counted, owed>> => HistoryShape'
    BY DEF Shape, HistoryShape
<1>7. UNCHANGED <<gatt_state, handles, cursor, up, down>> => PhaseShape'
    BY DEF Shape, PhaseShape, Gone
<1> QED BY <1>1, <1>2, <1>3, <1>4, <1>5, <1>6, <1>7

\* What is on the air of one half changes while it is connected.
LEMMA AirOfOne ==
    ASSUME Shape, NEW p \in GattHalves, gatt_state[p] = "connected",
           NEW u, up' = [up EXCEPT ![p] = u], u \in Seq(HeardFrom({p})),
           NEW d, down' = [down EXCEPT ![p] = d], d \in Seq(Written)
    PROVE  /\ AirShape' /\ up'[p] = u /\ down'[p] = d
           /\ UNCHANGED <<gatt_state, handles, cursor>> => PhaseShape'
<1>0. /\ up = [q \in GattHalves |-> up[q]] /\ down = [q \in GattHalves |-> down[q]]
    BY DEF Shape, AirShape
<1>1. /\ up' = [q \in GattHalves |-> up'[q]] /\ down' = [q \in GattHalves |-> down'[q]]
      /\ up'[p] = u /\ down'[p] = d
      /\ \A q \in GattHalves \ {p} : up'[q] = up[q] /\ down'[q] = down[q]
    BY <1>0
<1>2. AirShape'
    BY <1>1 DEF Shape, AirShape
<1>3. ASSUME UNCHANGED <<gatt_state, handles, cursor>> PROVE PhaseShape'
    <2> SUFFICES ASSUME NEW q \in GattHalves
                 PROVE  (IF gatt_state[q] = "open" THEN Gone(q) ELSE cursor[q].mode # "none")'
        BY DEF PhaseShape
    <2>1. CASE q = p
        BY <1>3, <2>1 DEF Shape, PhaseShape
    <2>2. CASE q # p
        BY <1>1, <1>3, <2>2 DEF Shape, PhaseShape, Gone
    <2> QED BY <2>1, <2>2
<1> QED BY <1>1, <1>2, <1>3

LEMMA ConnectedIfOnAir ==
    ASSUME Shape, NEW p \in GattHalves, up[p] # <<>> \/ down[p] # <<>> \/ cursor[p].mode # "none"
    PROVE  gatt_state[p] = "connected"
BY DEF Shape, PhaseShape, Gone, CentralShape

\* Nothing happens to what is on the air.
LEMMA AirIsSame ==
    ASSUME Shape, NEW p \in GattHalves
    PROVE  /\ up' = up => up' = [up EXCEPT ![p] = up[p]]
           /\ down' = down => down' = [down EXCEPT ![p] = down[p]]
           /\ up[p] \in Seq(HeardFrom({p})) /\ down[p] \in Seq(Written)
BY DEF Shape, AirShape

\* A movement is reported of one of the pointing devices.
LEMMA MovesOne ==
    ASSUME Shape, NEW p \in GattHalves, NEW k \in IndexOf(p, "input"), Move(p, k)
    PROVE  \E j \in IndexOf(p, "input") : up' = [up EXCEPT ![p] = Append(up[p], Moved(p, j, 0))]
<1> DEFINE same == {j \in IndexOf(p, "input") : Table(p)[j].reg = Table(p)[k].reg}
<1>1. up' = [up EXCEPT ![p] = Append(up[p], Moved(p, Min(same), 0))]
    BY DEF Move, Send
<1>2. same \in SUBSET Nat /\ k \in same
    BY TableFacts DEF IndexOf, Shape, CentralShape
<1>3. \E n \in same : \A m \in same : n <= m
    <2> HIDE DEF same
    <2> QED BY <1>2, FirstOf
<1>4. Min(same) \in same
    <2> HIDE DEF same
    <2> QED BY <1>3 DEF Min
<1> QED BY <1>1, <1>4

LEMMA ShapeHalves ==
    ASSUME Shape, NEW p \in GattHalves,
           \/ Turn(p) \/ SendTurn(p) \/ Drain(p) \/ Asked(p) \/ RunBehavior(p)
           \/ UpdateIndicators(p) \/ ShowLights(p)
           \/ \E k \in IndexOf(p, "input") : Move(p, k)
    PROVE  Shape'
<1> USE DEF central_vars, event_vars, command_vars, half_vars, history_vars
<1>0. /\ turns \in [GattHalves -> 0 .. SensorQueue] /\ charge \in [GattHalves -> 1 .. 3]
      /\ SensorQueue \in Nat \ {0} /\ turned \in [GattHalves -> Nat]
    BY GattAssumption DEF Shape, HalfShape, HistoryShape
<1>1. CASE Turn(p)
    <2>1. turns' \in [GattHalves -> 0 .. SensorQueue] /\ turned' \in [GattHalves -> Nat]
        BY <1>0, <1>1 DEF Turn
    <2>2. HalfShape' /\ HistoryShape'
        BY <1>1, <2>1 DEF Turn, Shape, HalfShape, HistoryShape
    <2>3. UNCHANGED <<build, central_vars, gatt_events, levels, proxy, command_vars, up, down>>
        BY <1>1 DEF Turn
    <2> QED BY <2>2, <2>3, KeptShapes DEF Shape
<1>2. CASE SendTurn(p)
    <2>1. turns' \in [GattHalves -> 0 .. SensorQueue]
        BY <1>0, <1>2 DEF SendTurn
    <2>2. HalfShape'
        BY <1>2, <2>1 DEF SendTurn, Shape, HalfShape
    <2>3. UNCHANGED <<build, central_vars, gatt_events, levels, proxy, command_vars, down,
                      turned, counted, owed>>
        BY <1>2 DEF SendTurn
    <2>4. CASE Enabled(p, "sensor")
        <3>1. up' = [up EXCEPT ![p] = Append(up[p], Turned(p))] /\ gatt_state[p] = "connected"
            BY <1>2, <2>4 DEF SendTurn, Send, Enabled
        <3>2. Append(up[p], Turned(p)) \in Seq(HeardFrom({p}))
            BY TurnedType, AirIsSame
        <3>3. AirShape' /\ PhaseShape'
            BY <2>3, <3>1, <3>2, AirOfOne, AirIsSame
        <3> QED BY <2>2, <2>3, <3>3, KeptShapes DEF Shape
    <2>5. CASE ~Enabled(p, "sensor")
        <3>1. up' = up
            BY <1>2, <2>5 DEF SendTurn
        <3> QED BY <2>2, <2>3, <3>1, KeptShapes DEF Shape
    <2> QED BY <2>4, <2>5
<1>3. CASE Drain(p)
    <2>1. charge[p] - 1 \in 1 .. 3 /\ charge' = [charge EXCEPT ![p] = charge[p] - 1]
        BY <1>0, <1>3 DEF Drain
    <2>2. HalfShape'
        <3>1. charge' \in [GattHalves -> 1 .. 3]
            BY <1>0, <2>1
        <3> QED BY <1>3, <3>1 DEF Drain, Shape, HalfShape
    <2>3. UNCHANGED <<build, central_vars, gatt_events, levels, proxy, command_vars, down,
                      turned, counted, owed>>
        BY <1>3 DEF Drain
    <2>4. CASE Enabled(p, "batt")
        <3>1. /\ up' = [up EXCEPT ![p] = Append(up[p], Level(p, charge[p] - 1))]
              /\ gatt_state[p] = "connected"
            BY <1>3, <2>4 DEF Drain, Send, Enabled
        <3>2. Append(up[p], Level(p, charge[p] - 1)) \in Seq(HeardFrom({p}))
            <4>1. charge[p] - 1 \in 0 .. 3
                BY <2>1
            <4> QED BY <4>1, LevelType, AirIsSame
        <3>3. AirShape' /\ PhaseShape'
            BY <2>3, <3>1, <3>2, AirOfOne, AirIsSame
        <3> QED BY <2>2, <2>3, <3>3, KeptShapes DEF Shape
    <2>5. CASE ~Enabled(p, "batt")
        <3>1. up' = up
            BY <1>3, <2>5 DEF Drain
        <3> QED BY <2>2, <2>3, <3>1, KeptShapes DEF Shape
    <2> QED BY <2>4, <2>5
<1>4. CASE Asked(p) \/ RunBehavior(p) \/ UpdateIndicators(p)
    <2>1. /\ down[p] # <<>> /\ down' = [down EXCEPT ![p] = Tail(down[p])]
          /\ UNCHANGED <<build, central_vars, gatt_events, levels, proxy, command_vars,
                         turned, counted, owed>>
        BY <1>4 DEF Asked, RunBehavior, UpdateIndicators, Arrives
    <2>2. Tail(down[p]) \in Seq(Written) /\ Head(down[p]) \in Written /\ gatt_state[p] = "connected"
        BY <2>1, AirIsSame, HeadTailProperties, ConnectedIfOnAir
    <2>3. up' = up \/ up' = [up EXCEPT ![p] = Append(up[p], Level(p, charge[p]))]
        BY <1>4 DEF Asked, RunBehavior, UpdateIndicators, Send
    <2>4. Append(up[p], Level(p, charge[p])) \in Seq(HeardFrom({p}))
        <3>1. charge[p] \in 0 .. 3
            BY <1>0
        <3> QED BY <3>1, LevelType, AirIsSame
    <2>5. AirShape' /\ PhaseShape'
        BY <2>1, <2>2, <2>3, <2>4, AirOfOne, AirIsSame
    <2>6. HalfShape'
        <3>1. CASE Asked(p)
            BY <3>1, KeptShapes DEF Asked
        <3>2. CASE RunBehavior(p)
            <4>1. Head(down[p]).key \in SUBSET GattHalves
                BY <2>2 DEF Written
            <4>2. held' \in [GattHalves -> SUBSET SUBSET GattHalves]
                BY <3>2, <4>1 DEF RunBehavior, Shape, HalfShape
            <4> QED BY <3>2, <4>2 DEF RunBehavior, Shape, HalfShape
        <3>3. CASE UpdateIndicators(p)
            <4>1. Head(down[p]).value \in {0, 1}
                BY <2>2 DEF Written
            <4>2. /\ hid_lights' \in [GattHalves -> {0, 1}]
                  /\ show_work' \in [GattHalves -> BOOLEAN]
                BY <3>3, <4>1 DEF UpdateIndicators, Shape, HalfShape
            <4> QED BY <3>3, <4>2 DEF UpdateIndicators, Shape, HalfShape
        <3> QED BY <1>4, <3>1, <3>2, <3>3
    <2> QED BY <2>1, <2>5, <2>6, KeptShapes DEF Shape
<1>5. CASE ShowLights(p)
    <2>1. shown' \in [GattHalves -> {0, 1}] /\ show_work' \in [GattHalves -> BOOLEAN]
        BY <1>5 DEF ShowLights, Shape, HalfShape
    <2>2. HalfShape'
        BY <1>5, <2>1 DEF ShowLights, Shape, HalfShape
    <2> QED BY <1>5, <2>2, KeptShapes DEF Shape, ShowLights
<1>6. ASSUME NEW k \in IndexOf(p, "input"), Move(p, k) PROVE Shape'
    <2>1. /\ gatt_state[p] = "connected"
          /\ UNCHANGED <<build, central_vars, event_vars, command_vars, half_vars, down, history_vars>>
        BY <1>6 DEF Move, Send
    <2>2. PICK j \in IndexOf(p, "input") : up' = [up EXCEPT ![p] = Append(up[p], Moved(p, j, 0))]
        BY <1>6, MovesOne
    <2>3. j \in Nat
        BY <2>2, TableFacts DEF IndexOf, Shape, CentralShape
    <2>4. Append(up[p], Moved(p, j, 0)) \in Seq(HeardFrom({p}))
        BY <2>3, MovedType, AirIsSame
    <2>5. AirShape' /\ PhaseShape'
        BY <2>1, <2>2, <2>4, AirOfOne, AirIsSame
    <2> QED BY <2>1, <2>5, KeptShapes DEF Shape
<1> QED BY <1>1, <1>2, <1>3, <1>4, <1>5, <1>6

LEMMA CharacteristicType ==
    ASSUME CentralShape, NEW p \in GattHalves
    PROVE  Here(p).kind \in Kinds /\ Here(p).reg \in Nat /\ cursor[p].at \in Nat \ {0}
BY TableFacts DEF CentralShape, Here

\* Discovery: what it does to the slots and to what is on the air is of its types.
LEMMA ShapeDiscovery ==
    ASSUME Shape, NEW p \in GattHalves,
           \/ GattConnected(p) \/ FindService(p) \/ FindCharacteristic(p) \/ FindInput(p)
           \/ FindCcc(p) \/ FindCpf(p)
    PROVE  Shape'
<1> USE DEF central_vars, event_vars, command_vars, half_vars, history_vars
<1>0. /\ CentralShape /\ PhaseShape /\ slots \in [InputSlots -> InputSlot] /\ cursor[p].at \in Nat \ {0}
      /\ cursor \in [GattHalves -> [mode : ModeSet, at : Nat]]
      /\ handles \in [GattHalves -> SUBSET (Kinds \ {"input"})]
      /\ \A q \in GattHalves : cursor[q].at \in DOMAIN Table(q)
    BY CharacteristicType DEF Shape, CentralShape
<1>1. ASSUME NEW mode \in {"service", "chrc"},
             cursor' = [cursor EXCEPT ![p] = Cursor(mode, 1)],
             gatt_state' \in [GattHalves -> {"open", "connected"}], gatt_state'[p] = "connected",
             \A q \in GattHalves \ {p} : gatt_state'[q] = gatt_state[q],
             UNCHANGED <<build, handles, slots, gatt_events, levels, proxy, command_vars, half_vars, up, down,
                         turned, counted, owed>>
      PROVE  Shape'
    <2>1. Cursor(mode, 1) \in [mode : ModeSet, at : Nat] /\ Cursor(mode, 1).at = 1
          /\ Cursor(mode, 1).mode # "none"
        BY DEF Cursor, ModeSet
    <2>2. /\ cursor' \in [GattHalves -> [mode : ModeSet, at : Nat]] /\ cursor'[p] = Cursor(mode, 1)
          /\ \A q \in GattHalves \ {p} : cursor'[q] = cursor[q]
        BY <1>0, <1>1, <2>1
    <2>3. 1 \in DOMAIN Table(p)
        BY <1>0, TableFacts DEF CentralShape
    <2>4. CentralShape'
        BY <1>0, <1>1, <2>1, <2>2, <2>3 DEF CentralShape, Table, InputSlots
    <2>5. PhaseShape'
        BY <1>0, <1>1, <2>1, <2>2 DEF PhaseShape, Gone
    <2> QED BY <1>1, <2>4, <2>5, KeptShapes DEF Shape
<1>2. CASE GattConnected(p)
    <2>1. handles[p] = {}
        BY <1>0, <1>2 DEF GattConnected, PhaseShape, Gone
    <2>2. cursor' = [cursor EXCEPT ![p] = Cursor("service", 1)]
        BY <1>2, <2>1 DEF GattConnected
    <2>3. gatt_state' \in [GattHalves -> {"open", "connected"}] /\ gatt_state'[p] = "connected"
          /\ \A q \in GattHalves \ {p} : gatt_state'[q] = gatt_state[q]
        BY <1>0, <1>2 DEF GattConnected, CentralShape
    <2> QED BY <1>1, <1>2, <2>2, <2>3 DEF GattConnected
<1>3. CASE FindService(p)
    <2>1. gatt_state \in [GattHalves -> {"open", "connected"}] /\ gatt_state[p] = "connected"
        BY <1>0, <1>3 DEF FindService, Discovering, CentralShape
    <2> QED BY <1>1, <1>3, <2>1 DEF FindService
<1>4. ASSUME gatt_state[p] = "connected", NEW mode \in {"chrc", "ccc", "cpf"}, GoOn(p, mode),
             handles' \in [GattHalves -> SUBSET (Kinds \ {"input"})],
             \A q \in GattHalves \ {p} : handles'[q] = handles[q],
             slots' \in [InputSlots -> InputSlot],
             NEW d \in Seq(Written), down' = [down EXCEPT ![p] = d],
             UNCHANGED <<build, gatt_state, gatt_events, levels, proxy, command_vars, half_vars, up,
                         turned, counted, owed>>
      PROVE  Shape'
    <2>1. /\ cursor' \in [GattHalves -> [mode : ModeSet, at : Nat]]
          /\ \A q \in GattHalves \ {p} : cursor'[q] = cursor[q]
          /\ cursor'[p].at \in DOMAIN Table(p) /\ cursor'[p].mode # "none"
        BY <1>0, <1>4, GoOnFacts
    <2>2. CentralShape'
        BY <1>0, <1>4, <2>1 DEF CentralShape, Table, InputSlots
    <2>3. AirShape' /\ up' = [up EXCEPT ![p] = up[p]] /\ down'[p] = d
        BY <1>4, AirOfOne, AirIsSame
    <2>4. \A q \in GattHalves \ {p} : down'[q] = down[q] /\ up'[q] = up[q]
        BY <1>4 DEF Shape, AirShape
    <2>5. PhaseShape'
        BY <1>0, <1>4, <2>1, <2>4 DEF PhaseShape, Gone
    <2> QED BY <1>4, <2>2, <2>3, <2>5, KeptShapes DEF Shape
<1>5. CASE FindCharacteristic(p)
    <2>1. PICK requests \in Requests(p) : down' = [down EXCEPT ![p] = down[p] \o requests]
        BY <1>5 DEF FindCharacteristic
    <2>2. down[p] \o requests \in Seq(Written)
        BY <1>0, RequestTypes, AirIsSame, ConcatProperties
    <2>3. /\ handles' \in [GattHalves -> SUBSET (Kinds \ {"input"})]
          /\ \A q \in GattHalves \ {p} : handles'[q] = handles[q]
        BY <1>0, <1>5, CharacteristicType DEF FindCharacteristic
    <2> QED BY <1>0, <1>4, <1>5, <2>1, <2>2, <2>3 DEF FindCharacteristic, Discovering
<1>6. \A i \in InputSlots : slots[i] \in InputSlot
    BY <1>0
<1>7. CASE FindInput(p)
    <2>1. slots' \in [InputSlots -> InputSlot]
        <3>1. CASE OpenSlot = {}
            BY <1>0, <1>7, <3>1 DEF FindInput
        <3>2. CASE OpenSlot # {}
            <4>1. PICK i \in OpenSlot : slots' = Reserved(i, p, cursor[p].at)
                BY <1>7, <3>2 DEF FindInput
            <4>2. i \in InputSlots
                BY DEF OpenSlot, FirstSlot
            <4>3. [slots[i] EXCEPT !.conn = p, !.value = cursor[p].at, !.ccc = 0, !.reg = 0] \in InputSlot
                BY <1>0, <1>6, <4>2 DEF InputSlot
            <4>4. slots' = [slots EXCEPT ![i] = [slots[i] EXCEPT !.conn = p, !.value = cursor[p].at,
                                                                 !.ccc = 0, !.reg = 0]]
                BY <1>0, <4>1, <4>2 DEF Reserved
            <4> QED BY <1>0, <4>2, <4>3, <4>4
        <3> QED BY <3>1, <3>2
    <2>2. down' = [down EXCEPT ![p] = down[p]] /\ down[p] \in Seq(Written)
        BY <1>7, AirIsSame DEF FindInput
    <2>3. PICK mode \in {"chrc", "ccc", "cpf"} : GoOn(p, mode)
        BY <1>7 DEF FindInput
    <2> QED BY <1>0, <1>4, <1>7, <2>1, <2>2, <2>3 DEF FindInput, Discovering
<1>8. CASE FindCcc(p)
    <2>1. slots' \in [InputSlots -> InputSlot]
        <3>1. CASE PendingSlot(p) = {}
            BY <1>0, <1>8, <3>1 DEF FindCcc
        <3>2. CASE PendingSlot(p) # {}
            <4>1. PICK i \in PendingSlot(p) : slots' = [slots EXCEPT ![i].ccc = cursor[p].at]
                BY <1>8, <3>2 DEF FindCcc
            <4>2. i \in InputSlots
                BY DEF PendingSlot, FirstSlot
            <4>3. [slots[i] EXCEPT !.ccc = cursor[p].at] \in InputSlot
                BY <1>0, <1>6, <4>2 DEF InputSlot
            <4> QED BY <1>0, <4>1, <4>2, <4>3
        <3> QED BY <3>1, <3>2
    <2>2. down' = [down EXCEPT ![p] = down[p]] /\ down[p] \in Seq(Written)
        BY <1>8, AirIsSame DEF FindCcc
    <2>3. PICK mode \in {"chrc", "ccc", "cpf"} : GoOn(p, mode)
        BY <1>8 DEF FindCcc
    <2> QED BY <1>0, <1>4, <1>8, <2>1, <2>2, <2>3 DEF FindCcc, Discovering
<1>9. CASE FindCpf(p)
    <2> DEFINE ask(i) == [kind |-> "ccc", chr |-> slots[i].ccc, key |-> {}, value |-> 0]
    <2>1. /\ slots' \in [InputSlots -> InputSlot]
          /\ \E d \in Seq(Written) : down' = [down EXCEPT ![p] = d]
        <3>0. down[p] \in Seq(Written) /\ down = [down EXCEPT ![p] = down[p]]
            BY AirIsSame DEF Shape, AirShape
        <3>1. CASE PendingSlot(p) = {}
            BY <1>0, <1>9, <3>0, <3>1 DEF FindCpf
        <3>2. CASE PendingSlot(p) # {}
            <4>1. PICK i \in PendingSlot(p) :
                    /\ slots' = [slots EXCEPT ![i].reg = Here(p).reg, ![i].subscribed = TRUE]
                    /\ down' = IF slots[i].subscribed THEN down
                               ELSE [down EXCEPT ![p] = Append(down[p], ask(i))]
                BY <1>9, <3>2 DEF FindCpf
            <4>2. i \in InputSlots
                BY DEF PendingSlot, FirstSlot
            <4>3. [slots[i] EXCEPT !.reg = Here(p).reg, !.subscribed = TRUE] \in InputSlot
                BY <1>0, <1>6, <4>2, CharacteristicType DEF InputSlot
            <4>4. slots' = [slots EXCEPT ![i] = [slots[i] EXCEPT !.reg = Here(p).reg, !.subscribed = TRUE]]
                BY <1>0, <4>1, <4>2
            <4>5. slots' \in [InputSlots -> InputSlot]
                BY <1>0, <4>2, <4>3, <4>4
            <4>6. ask(i) \in Written
                BY <1>6, <4>2 DEF Written, InputSlot
            <4>7. Append(down[p], ask(i)) \in Seq(Written)
                BY <3>0, <4>6
            <4> HIDE DEF ask
            <4> QED BY <3>0, <4>1, <4>5, <4>7
        <3> QED BY <3>1, <3>2
    <2>2. PICK d \in Seq(Written) : down' = [down EXCEPT ![p] = d]
        BY <2>1
    <2> QED BY <1>0, <1>4, <1>9, <2>1, <2>2 DEF FindCpf, AfterInput, Discovering
<1> QED BY <1>2, <1>3, <1>5, <1>7, <1>8, <1>9

\* The connection of a half goes: Lose, which GattLoss and Restart begin with.
LEMMA ShapeLose ==
    ASSUME Shape, NEW p \in GattHalves, Lose(p)
    PROVE  /\ CentralShape' /\ EventShape' /\ CommandShape' /\ AirShape' /\ HistoryShape' /\ PhaseShape'
           /\ handles'[p] = {} /\ gatt_state'[p] = "open" /\ up'[p] = <<>> /\ down'[p] = <<>>
           /\ \A q \in GattHalves \ {p} :
                /\ gatt_state'[q] = gatt_state[q] /\ handles'[q] = handles[q] /\ cursor'[q] = cursor[q]
                /\ up'[q] = up[q] /\ down'[q] = down[q]
<1> USE DEF central_vars, event_vars, command_vars, half_vars, history_vars
<1>0. /\ gatt_state \in [GattHalves -> {"open", "connected"}]
      /\ handles \in [GattHalves -> SUBSET (Kinds \ {"input"})]
      /\ cursor \in [GattHalves -> [mode : ModeSet, at : Nat]]
      /\ \A q \in GattHalves : cursor[q].at \in DOMAIN Table(q)
      /\ slots \in [InputSlots -> InputSlot] /\ build \in Builds /\ build' = build
      /\ up = [q \in GattHalves |-> up[q]] /\ down = [q \in GattHalves |-> down[q]]
    BY DEF Shape, CentralShape, AirShape, Lose
<1>1. Released(Unsubscribed(handles[p])) = {}
    BY <1>0 DEF Released, Unsubscribed, Kinds
<1>2. /\ handles' \in [GattHalves -> SUBSET (Kinds \ {"input"})] /\ handles'[p] = {}
      /\ gatt_state' \in [GattHalves -> {"open", "connected"}] /\ gatt_state'[p] = "open"
      /\ up' = [q \in GattHalves |-> up'[q]] /\ down' = [q \in GattHalves |-> down'[q]]
      /\ up'[p] = <<>> /\ down'[p] = <<>>
      /\ \A q \in GattHalves \ {p} :
           /\ gatt_state'[q] = gatt_state[q] /\ handles'[q] = handles[q] /\ cursor'[q] = cursor[q]
           /\ up'[q] = up[q] /\ down'[q] = down[q]
    <2>1. handles' = [handles EXCEPT ![p] = {}]
        BY <1>1 DEF Lose
    <2> QED BY <1>0, <2>1 DEF Lose
<1>3. Cursor("none", 1) \in [mode : ModeSet, at : Nat] /\ Cursor("none", 1).at = 1
      /\ Cursor("none", 1).mode = "none"
    BY DEF Cursor, ModeSet
<1>4. cursor' \in [GattHalves -> [mode : ModeSet, at : Nat]] /\ cursor'[p] = Cursor("none", 1)
    BY <1>0, <1>3 DEF Lose
<1>5. \A q \in GattHalves : cursor'[q].at \in DOMAIN Table(q)
    <2>1. 1 \in DOMAIN Table(p)
        BY <1>0, TableFacts
    <2> QED BY <1>0, <1>2, <1>3, <1>4, <2>1
<1>6. slots' \in [InputSlots -> InputSlot]
    <2>1. slots' = [i \in InputSlots |->
                     IF slots[i].conn = p
                     THEN [slots[i] EXCEPT !.conn = NoHalf, !.value = 0, !.subscribed = FALSE]
                     ELSE slots[i]]
        BY DEF Lose, ReleasedInputs
    <2>2. \A i \in InputSlots :
            [slots[i] EXCEPT !.conn = NoHalf, !.value = 0, !.subscribed = FALSE] \in InputSlot
        BY <1>0 DEF InputSlot
    <2> QED BY <1>0, <2>1, <2>2
<1>7. CentralShape'
    BY <1>0, <1>2, <1>4, <1>5, <1>6 DEF CentralShape, Table, InputSlots
<1>8. EventShape'
    <2>1. LastLevel(p) \in Seq(Heard) /\ Len(LastLevel(p)) <= GattEventQueue
        <3>0. 0 \in 0 .. 3
            OBVIOUS
        <3>1. Level(p, 0) \in Heard
            BY <3>0, LevelType
        <3>2. EventShape
            BY DEF Shape
        <3> QED BY <3>1, <3>2, PutLastType DEF LastLevel, EventShape
    <2> QED BY <2>1 DEF Lose, Shape, EventShape
<1>9. AirShape'
    BY <1>2, EmptySeq DEF Shape, AirShape
<1>10. HistoryShape'
    BY DEF Lose, Shape, HistoryShape
<1>11. CommandShape'
    BY KeptShapes DEF Lose
<1>12. PhaseShape'
    BY <1>2, <1>3, <1>4 DEF Shape, PhaseShape, Gone
<1> QED BY <1>2, <1>7, <1>8, <1>9, <1>10, <1>11, <1>12

LEMMA ShapeLink ==
    ASSUME Shape,
           \/ HostConnected \/ HostDisconnected
           \/ \E p \in GattHalves : GattLoss(p) \/ Restart(p)
    PROVE  Shape'
<1> USE DEF central_vars, event_vars, command_vars, half_vars, history_vars
<1>1. CASE HostConnected
    <2>1. EventShape'
        BY <1>1 DEF HostConnected, Shape, EventShape
    <2> QED BY <1>1, <2>1, KeptShapes DEF HostConnected, Shape
<1>2. CASE HostDisconnected
    <2>1. LastLevel(Stranger) \in Seq(Heard) /\ Len(LastLevel(Stranger)) <= GattEventQueue
        <3>1. EventShape
            BY DEF Shape
        <3> QED BY <3>1, StrangerType, PutLastType DEF LastLevel, EventShape
    <2>2. EventShape'
        BY <1>2, <2>1 DEF HostDisconnected, Shape, EventShape
    <2> QED BY <1>2, <2>2, KeptShapes DEF HostDisconnected, Shape
<1>3. ASSUME NEW p \in GattHalves, GattLoss(p) \/ Restart(p) PROVE Shape'
    <2>1. Lose(p)
        BY <1>3 DEF GattLoss, Restart
    <2>2. HalfShape'
        <3>1. CASE GattLoss(p)
            BY <3>1, KeptShapes DEF GattLoss
        <3>2. CASE Restart(p)
            <4>0. 0 \in 0 .. SensorQueue
                BY GattAssumption
            <4>1. /\ turns' \in [GattHalves -> 0 .. SensorQueue]
                  /\ hid_lights' \in [GattHalves -> {0, 1}] /\ shown' \in [GattHalves -> {0, 1}]
                  /\ show_work' \in [GattHalves -> BOOLEAN]
                BY <3>2, <4>0 DEF Restart, Shape, HalfShape
            <4>2. held' \in [GattHalves -> SUBSET SUBSET GattHalves] /\ charge' \in [GattHalves -> 1 .. 3]
                BY <3>2 DEF Restart, Shape, HalfShape
            <4> QED BY <4>1, <4>2 DEF HalfShape
        <3> QED BY <1>3, <3>1, <3>2
    <2> QED BY <2>1, <2>2, ShapeLose DEF Shape
<1> QED BY <1>1, <1>2, <1>3

\* What a half tells the central.
LEMMA ShapeEvents ==
    ASSUME Shape, RaiseSensor \/ RaiseInput \/ RaiseLevel \/ \E p \in GattHalves : GattNotified(p)
    PROVE  Shape'
<1> USE DEF central_vars, event_vars, command_vars, half_vars, history_vars
<1>0. EventShape
    BY DEF Shape
<1>1. ASSUME NEW p \in GattHalves, GattNotified(p) PROVE Shape'
    <2>1. /\ up[p] # <<>> /\ up' = [up EXCEPT ![p] = Tail(up[p])]
          /\ UNCHANGED <<build, central_vars, levels, proxy, command_vars, half_vars, down,
                         turned, counted, owed>>
        BY <1>1 DEF GattNotified
    <2>2. Tail(up[p]) \in Seq(HeardFrom({p})) /\ Head(up[p]) \in HeardFrom({p})
          /\ gatt_state[p] = "connected"
        BY <2>1, AirIsSame, HeadTailProperties, ConnectedIfOnAir
    <2>3. AirShape' /\ PhaseShape'
        BY <2>1, <2>2, AirOfOne, AirIsSame
    <2>4. gatt_events' \in Seq(Heard) /\ Len(gatt_events') <= GattEventQueue
        <3>1. CASE SensorNotified(p)
            BY <1>0, <3>1, TurnedType, PutLastType DEF SensorNotified
        <3>2. CASE LevelNotified(p)
            <4>1. Head(up[p]) \in Heard
                BY <2>2 DEF Heard, HeardFrom
            <4> QED BY <1>0, <3>2, <4>1, PutLastType DEF LevelNotified
        <3>3. CASE InputNotified(p)
            <4> DEFINE x == Head(up[p])
            <4>1. \/ gatt_events' = gatt_events
                  \/ \E i \in InputSlots : gatt_events' = PutLast(Moved(p, x.chr, slots[i].reg))
                BY <3>3 DEF InputNotified
            <4>2. ASSUME NEW i \in InputSlots, gatt_events' = PutLast(Moved(p, x.chr, slots[i].reg))
                  PROVE  gatt_events' \in Seq(Heard) /\ Len(gatt_events') <= GattEventQueue
                <5>1. x.chr \in Nat /\ slots[i].reg \in Nat
                    BY <2>2 DEF HeardFrom, Shape, CentralShape, InputSlot
                <5>2. Moved(p, x.chr, slots[i].reg) \in Heard
                    BY <5>1, MovedType
                <5> QED BY <1>0, <4>2, <5>2, PutLastType
            <4>3. CASE gatt_events' = gatt_events
                BY <1>0, <4>3 DEF EventShape
            <4> HIDE DEF x
            <4> QED BY <4>1, <4>2, <4>3
        <3> QED BY <1>1, <3>1, <3>2, <3>3 DEF GattNotified
    <2>5. EventShape'
        BY <1>0, <2>1, <2>4 DEF EventShape
    <2> QED BY <2>1, <2>3, <2>5, KeptShapes DEF Shape
<1>2. ASSUME gatt_events # <<>>, gatt_events' = Tail(gatt_events)
      PROVE  /\ gatt_events' \in Seq(Heard) /\ Len(gatt_events') <= GattEventQueue
             /\ Head(gatt_events) \in Heard
    <2>1. /\ Tail(gatt_events) \in Seq(Heard) /\ Len(Tail(gatt_events)) = Len(gatt_events) - 1
          /\ Head(gatt_events) \in Heard
        BY <1>0, <1>2, HeadTailProperties DEF EventShape
    <2>2. Len(gatt_events) \in Nat /\ Len(gatt_events) <= GattEventQueue /\ GattEventQueue \in Nat
        BY <1>0, LenProperties, GattAssumption DEF EventShape
    <2> QED BY <1>2, <2>1, <2>2
<1>3. CASE RaiseSensor
    <2>1. EventShape'
        BY <1>0, <1>2, <1>3 DEF EventShape, RaiseSensor, NextEvent
    <2>2. HistoryShape'
        <3>1. counted' \in [GattHalves -> Nat]
            <4> DEFINE p == Head(gatt_events).source
            <4>1. counted' = [counted EXCEPT ![p] = counted[p] + 1] /\ counted \in [GattHalves -> Nat]
                BY <1>3 DEF RaiseSensor, Shape, HistoryShape
            <4> HIDE DEF p
            <4>2. CASE p \in GattHalves
                BY <4>1, <4>2
            <4>3. CASE p \notin GattHalves
                BY <4>1, <4>3
            <4> QED BY <4>2, <4>3
        <3> QED BY <1>3, <3>1 DEF RaiseSensor, Shape, HistoryShape
    <2> QED BY <1>3, <2>1, <2>2, KeptShapes DEF RaiseSensor, Shape
<1>4. CASE RaiseInput
    <2>1. EventShape'
        BY <1>0, <1>2, <1>4 DEF EventShape, RaiseInput, NextEvent
    <2> QED BY <1>4, <2>1, KeptShapes DEF RaiseInput, Shape
<1>5. CASE RaiseLevel
    <2>1. Head(gatt_events).level \in 0 .. 3
        BY <1>2, <1>5 DEF RaiseLevel, NextEvent, Heard, HeardFrom
    <2>2. levels' \in [GattHalves -> 0 .. 3] /\ proxy' \in [GattHalves -> 0 .. 3]
        BY <1>0, <1>5, <2>1 DEF EventShape, RaiseLevel
    <2>3. EventShape'
        BY <1>0, <1>2, <1>5, <2>2 DEF EventShape, RaiseLevel, NextEvent
    <2> QED BY <1>5, <2>3, KeptShapes DEF RaiseLevel, Shape
<1> QED BY <1>1, <1>3, <1>4, <1>5

\* A command for each half of a set.
RowOf(halves, kind, key, value) ==
    [n \in DOMAIN Ascending(halves) |-> Command(Ascending(halves)[n], kind, key, value)]
IsRowOf(row, halves, kind, key, value) ==
           /\ row \in Seq(Ordered)
           /\ \A n \in DOMAIN row : row[n].dest \in halves /\ row[n].kind = kind /\ row[n].key = key
                                    /\ row[n].value = value
           /\ \A p \in halves : \E n \in DOMAIN row :
                row[n].dest = p /\ \A m \in DOMAIN row : row[m].dest = p => m = n

LEMMA AscendingCommands ==
    ASSUME NEW halves \in SUBSET GattHalves, NEW kind \in {"leds", "run"}, NEW key \in SUBSET GattHalves,
           NEW value \in {0, 1}
    PROVE  IsRowOf(RowOf(halves, kind, key, value), halves, kind, key, value)
<1> DEFINE A == Ascending(halves)
           row == RowOf(halves, kind, key, value)
<1>1. /\ A \in Seq(halves) /\ DOMAIN A = 1 .. Cardinality(halves)
      /\ \A p \in halves : \E n \in DOMAIN A : A[n] = p /\ \A m \in DOMAIN A : A[m] = p => m = n
    <2>1. halves \in SUBSET Nat /\ IsFiniteSet(halves)
        BY FS_Subset, GattAssumption
    <2> QED BY <2>1, AscendingIsARow
<1>2. Cardinality(halves) \in Nat
    BY FS_Subset, FS_CardinalityType, GattAssumption
<1>3. \A n \in DOMAIN A : A[n] \in halves
    <2> HIDE DEF A
    <2>1. DOMAIN A = 1 .. Len(A)
        BY <1>1, LenProperties
    <2> QED BY <1>1, <2>1, ElementOfSeq
<1>4. \A n \in DOMAIN A : row[n] = Command(A[n], kind, key, value)
    BY DEF RowOf
<1>5. \A p \in halves : /\ Command(p, kind, key, value) \in Ordered /\ Command(p, kind, key, value).dest = p
                        /\ Command(p, kind, key, value).kind = kind
                        /\ Command(p, kind, key, value).key = key
                        /\ Command(p, kind, key, value).value = value
    BY DEF Command, Ordered
<1>6. DOMAIN row = DOMAIN A
    BY DEF RowOf
<1>7. row = [n \in 1 .. Cardinality(halves) |-> row[n]]
    BY <1>1 DEF RowOf
<1> HIDE DEF A, row
<1>8. \A n \in DOMAIN row : /\ row[n] \in Ordered /\ row[n].dest = A[n] /\ row[n].kind = kind /\ row[n].key = key
                            /\ row[n].value = value /\ A[n] \in halves
    BY <1>3, <1>4, <1>5, <1>6
<1>9. row \in Seq(Ordered)
    <2>1. row \in [1 .. Cardinality(halves) -> Ordered]
        BY <1>1, <1>6, <1>7, <1>8
    <2> QED BY <1>2, <2>1
<1>10. \A p \in halves : \E n \in DOMAIN row :
                row[n].dest = p /\ \A m \in DOMAIN row : row[m].dest = p => m = n
    BY <1>1, <1>6, <1>8
<1> QED BY <1>8, <1>9, <1>10 DEF IsRowOf, row

\* The commands to tell the lights, and to run a behavior.
LEMMA ToldTheLights ==
    ASSUME NEW value \in {0, 1}, Tell(value)
    PROVE  IsRowOf(todo', Available, "leds", {}, value) /\ owed' \subseteq Available
<1>1. todo' = RowOf(Available, "leds", {}, value) /\ owed' \subseteq Available
    BY DEF Tell, RowOf
<1>2. Available \in SUBSET GattHalves /\ {} \in SUBSET GattHalves
    BY DEF Available
<1>3. IsRowOf(RowOf(Available, "leds", {}, value), Available, "leds", {}, value)
    BY <1>2, AscendingCommands
<1> QED BY <1>1, <1>3

LEMMA InvokedOnHalves ==
    ASSUME NEW key \in SUBSET GattHalves, NEW on \in BOOLEAN, Invoke(key, on)
    PROVE  IsRowOf(todo', key, "run", key, IF on THEN 1 ELSE 0)
<1> DEFINE value == IF on THEN 1 ELSE 0
<1>1. todo' = RowOf(key, "run", key, value)
    BY DEF Invoke, RowOf
<1>2. value \in {0, 1}
    OBVIOUS
<1>3. IsRowOf(RowOf(key, "run", key, value), key, "run", key, value)
    <2> HIDE DEF value
    <2> QED BY <1>2, AscendingCommands
<1> QED BY <1>1, <1>3

LEMMA ShapeCommands ==
    ASSUME Shape,
           \/ LedsChanged \/ PutCommand \/ Overtaken \/ RunCommand \/ DropCommand
           \/ \E key \in SUBSET GattHalves : Press(key)
           \/ \E e \in Endpoints : SelectEndpoint(e) \/ \E value \in {0, 1} : HostLights(e, value)
    PROVE  Shape'
<1> USE DEF central_vars, event_vars, command_vars, half_vars, history_vars
<1>0. /\ commands \in Seq(Ordered) /\ todo \in Seq(Ordered) /\ Len(commands) <= CommandQueue
      /\ Len(commands) \in Nat /\ CommandQueue \in Nat \ {0}
      /\ lights \in [Endpoints -> {0, 1}] /\ gatt_selected \in Endpoints /\ pressed \subseteq SUBSET GattHalves
    BY LenProperties, GattAssumption DEF Shape, CommandShape
<1>1. ASSUME commands # <<>>
      PROVE  /\ Tail(commands) \in Seq(Ordered) /\ Len(Tail(commands)) = Len(commands) - 1
             /\ Head(commands) \in Ordered /\ Head(commands).dest \in GattHalves
    <2>1. /\ Tail(commands) \in Seq(Ordered) /\ Len(Tail(commands)) = Len(commands) - 1
          /\ Head(commands) \in Ordered
        BY <1>0, <1>1, HeadTailProperties
    <2> QED BY <2>1 DEF Ordered
<1>2. ASSUME todo # <<>> PROVE Tail(todo) \in Seq(Ordered) /\ Head(todo) \in Ordered
    BY <1>0, <1>2, HeadTailProperties
<1>3. CASE LedsChanged
    <2>1. lights[gatt_selected] \in {0, 1} /\ Tell(lights[gatt_selected])
        BY <1>0, <1>3 DEF LedsChanged
    <2>2. todo' \in Seq(Ordered) /\ owed' \subseteq GattHalves
        BY <2>1, ToldTheLights DEF Available, IsRowOf
    <2>3. CommandShape' /\ HistoryShape'
        BY <1>0, <1>3, <2>2 DEF LedsChanged, CommandShape, Shape, HistoryShape
    <2> QED BY <1>3, <2>3, KeptShapes DEF LedsChanged, Shape
<1>4. ASSUME NEW e \in Endpoints, SelectEndpoint(e) PROVE Shape'
    <2>1. lights[e] \in {0, 1} /\ Tell(lights[e])
        BY <1>0, <1>4 DEF SelectEndpoint
    <2>2. todo' \in Seq(Ordered) /\ owed' \subseteq GattHalves
        BY <2>1, ToldTheLights DEF Available, IsRowOf
    <2>3. CommandShape' /\ HistoryShape'
        BY <1>0, <1>4, <2>2 DEF SelectEndpoint, CommandShape, Shape, HistoryShape
    <2> QED BY <1>4, <2>3, KeptShapes DEF SelectEndpoint, Shape
<1>5. ASSUME NEW e \in Endpoints, NEW value \in {0, 1}, HostLights(e, value) PROVE Shape'
    <2>1. CommandShape'
        BY <1>0, <1>5 DEF HostLights, CommandShape
    <2> QED BY <1>5, <2>1, KeptShapes DEF HostLights, Shape
<1>6. ASSUME NEW key \in SUBSET GattHalves, Press(key) PROVE Shape'
    <2>1. todo' \in Seq(Ordered)
        BY <1>6, InvokedOnHalves DEF Press, IsRowOf
    <2>2. pressed' \subseteq SUBSET GattHalves
        BY <1>0, <1>6 DEF Press, SymDiff
    <2>3. CommandShape'
        BY <1>0, <1>6, <2>1, <2>2 DEF Press, CommandShape
    <2> QED BY <1>6, <2>3, KeptShapes DEF Press, Shape
<1>7. CASE PutCommand
    <2>1. commands' \in Seq(Ordered) /\ Len(commands') = Len(commands) + 1 /\ todo' \in Seq(Ordered)
          /\ Len(commands) < CommandQueue
        BY <1>0, <1>2, <1>7 DEF PutCommand
    <2>2. CommandShape'
        BY <1>0, <1>7, <2>1 DEF PutCommand, CommandShape
    <2> QED BY <1>7, <2>2, KeptShapes DEF PutCommand, Shape
<1>8. ASSUME NEW c, NEW later PROVE StillOwed(c, later) \subseteq owed
    BY DEF StillOwed
<1>9. CASE Overtaken
    <2>0. commands # <<>>
        BY <1>0, <1>9, EmptySeq DEF Overtaken
    <2>1. commands' \in Seq(Ordered) /\ Len(commands') = Len(commands) - 1 + 1 /\ todo' \in Seq(Ordered)
        BY <1>0, <1>1, <1>2, <1>9, <2>0 DEF Overtaken
    <2>2. CommandShape'
        BY <1>0, <1>9, <2>1 DEF Overtaken, CommandShape
    <2>3. HistoryShape'
        BY <1>8, <1>9 DEF Overtaken, Shape, HistoryShape
    <2> QED BY <1>9, <2>2, <2>3, KeptShapes DEF Overtaken, Shape
<1>10. CASE DropCommand
    <2>1. CommandShape'
        BY <1>0, <1>1, <1>10 DEF DropCommand, CommandShape
    <2>2. HistoryShape'
        BY <1>8, <1>10 DEF DropCommand, Shape, HistoryShape
    <2> QED BY <1>10, <2>1, <2>2, KeptShapes DEF DropCommand, Shape
<1>11. CASE RunCommand
    <2> DEFINE c == Head(commands)
               w == [kind |-> c.kind, chr |-> 0, key |-> c.key, value |-> c.value]
    <2>1. /\ c \in Ordered /\ c.dest \in GattHalves /\ gatt_state[c.dest] = "connected"
          /\ down' = [down EXCEPT ![c.dest] = Append(down[c.dest], w)] /\ up' = up
        BY <1>1, <1>11 DEF RunCommand, CanRun
    <2>2. w \in Written
        BY <2>1 DEF Ordered, Written
    <2> HIDE DEF c, w
    <2>3. Append(down[c.dest], w) \in Seq(Written)
        <3>1. down[c.dest] \in Seq(Written)
            BY <2>1, AirIsSame
        <3> QED BY <2>2, <3>1
    <2>4. AirShape' /\ (UNCHANGED <<gatt_state, handles, cursor>> => PhaseShape')
        BY <2>1, <2>3, AirOfOne, AirIsSame
    <2>5. CommandShape'
        BY <1>0, <1>1, <1>11 DEF RunCommand, CommandShape
    <2> QED BY <1>11, <2>4, <2>5, KeptShapes DEF RunCommand, Shape
<1> QED BY <1>3, <1>4, <1>5, <1>6, <1>7, <1>9, <1>10, <1>11

LEMMA ShapeStep == Shape /\ [GattNext]_gatt_vars => Shape'
<1> SUFFICES ASSUME Shape, [GattNext]_gatt_vars PROVE Shape'
    OBVIOUS
<1>1. CASE UNCHANGED gatt_vars
    <2>1. UNCHANGED <<build, gatt_state, handles, cursor, slots, gatt_events, levels, proxy,
                      commands, todo, lights, gatt_selected, pressed, charge, turns, hid_lights, shown,
                      show_work, held, up, down, turned, counted, owed>>
        BY <1>1 DEF gatt_vars, central_vars, event_vars, command_vars, half_vars, history_vars
    <2> QED BY <2>1, KeptShapes DEF Shape
<1>2. CASE GattNext
    <2>1. \A p \in GattHalves : {p} \in SUBSET GattHalves
        OBVIOUS
    <2> QED BY <1>2, <2>1, ShapeHalves, ShapeDiscovery, ShapeLink, ShapeEvents, ShapeCommands
            DEF GattNext, Internal
<1> QED BY <1>1, <1>2
-----------------------------------------------------------------------------
(* Detents: those that have been counted, that are underway, and all.       *)
TurnsOf(p) == {x \in Heard : x.kind = "turn" /\ x.source = p}
Underway(p) == counted[p] + CountIn(gatt_events, TurnsOf(p)) + CountIn(up[p], TurnsOf(p)) + turns[p]
Balanced(p) == Underway(p) <= turned[p] /\ (<<p, "turn">> \in gatt_lost \/ Underway(p) = turned[p])
TurnsKept == \A p \in GattHalves : Balanced(p)

LEMMA CountTypes ==
    ASSUME Shape, NEW p \in GattHalves
    PROVE  /\ counted[p] \in Nat /\ turned[p] \in Nat /\ turns[p] \in Nat
           /\ CountIn(gatt_events, TurnsOf(p)) \in Nat /\ CountIn(up[p], TurnsOf(p)) \in Nat
<1>1. gatt_events \in Seq(Heard) /\ up[p] \in Seq(HeardFrom({p}))
    BY DEF Shape, EventShape, AirShape
<1>2. turns[p] \in Nat
    <2>1. turns[p] \in 0 .. SensorQueue /\ SensorQueue \in Nat
        BY GattAssumption DEF Shape, HalfShape
    <2> QED BY <2>1
<1> QED BY <1>1, <1>2, CountType DEF Shape, HistoryShape

\* A step that changes none of the numbers, or that forgets a detent and says so.
LEMMA StillBalanced ==
    ASSUME Shape, NEW p \in GattHalves, Balanced(p), gatt_lost \subseteq gatt_lost',
           CountIn(gatt_events', TurnsOf(p)) = CountIn(gatt_events, TurnsOf(p)),
           CountIn(up'[p], TurnsOf(p)) = CountIn(up[p], TurnsOf(p)),
           turns'[p] = turns[p], counted'[p] = counted[p], turned'[p] = turned[p]
    PROVE  Balanced(p)'
<1>1. Underway(p)' = Underway(p)
    BY DEF Underway, TurnsOf, Heard, HeardFrom
<1> QED BY <1>1 DEF Balanced

\* Something else is put into the queue of events, or nothing.
LEMMA CountPut ==
    ASSUME Shape, NEW ev \in Heard, NEW T
    PROVE  /\ ev \notin T => CountIn(PutLast(ev), T) = CountIn(gatt_events, T)
           /\ \/ Refused(ev) # {} /\ CountIn(PutLast(ev), T) = CountIn(gatt_events, T)
              \/ Refused(ev) = {} /\ (ev \in T => CountIn(PutLast(ev), T) = CountIn(gatt_events, T) + 1)
           /\ Refused(ev) \in {{}, {<<ev.source, ev.kind>>}}
<1>1. gatt_events \in Seq(Heard)
    BY DEF Shape, EventShape
<1>2. CountIn(gatt_events, T) \in Nat
    BY <1>1, CountType
<1>3. CASE Len(gatt_events) < GattEventQueue
    <2>1. PutLast(ev) = Append(gatt_events, ev) /\ Refused(ev) = {}
        BY <1>3 DEF PutLast, Refused
    <2>2. CountIn(Append(gatt_events, ev), T) = IF ev \in T THEN CountIn(gatt_events, T) + 1
                                                ELSE CountIn(gatt_events, T)
        BY <1>1, AppendCount
    <2> QED BY <2>1, <2>2
<1>4. CASE ~(Len(gatt_events) < GattEventQueue)
    <2>1. PutLast(ev) = gatt_events /\ Refused(ev) = {<<ev.source, ev.kind>>}
        BY <1>4 DEF PutLast, Refused
    <2>2. Refused(ev) # {}
        BY <2>1
    <2> QED BY <1>2, <2>1, <2>2
<1> QED BY <1>3, <1>4

LEMMA CountsInit == GattInit => TurnsKept
<1> SUFFICES ASSUME GattInit, NEW p \in GattHalves PROVE Balanced(p)
    BY DEF TurnsKept
<1>1. CountIn(gatt_events, TurnsOf(p)) = 0 /\ CountIn(up[p], TurnsOf(p)) = 0
    BY EmptyHasNone DEF GattInit
<1>2. counted[p] = 0 /\ turns[p] = 0 /\ turned[p] = 0
    BY DEF GattInit
<1> QED BY <1>1, <1>2 DEF Balanced, Underway

LEMMA CountsHalves ==
    ASSUME Shape, TurnsKept, NEW p \in GattHalves, NEW q \in GattHalves,
           \/ Turn(p) \/ SendTurn(p) \/ Drain(p) \/ Asked(p)
           \/ \E k \in IndexOf(p, "input") : Move(p, k)
    PROVE  Balanced(q)'
<1> USE DEF central_vars, event_vars, command_vars, half_vars, history_vars
<1>0. /\ turns \in [GattHalves -> 0 .. SensorQueue] /\ SensorQueue \in Nat
      /\ turned \in [GattHalves -> Nat] /\ Balanced(q) /\ up = [r \in GattHalves |-> up[r]]
      /\ up[p] \in Seq(HeardFrom({p}))
    BY GattAssumption DEF Shape, HalfShape, HistoryShape, TurnsKept, AirShape
<1>1. CASE Turn(p)
    <2>1. /\ turned' = [turned EXCEPT ![p] = turned[p] + 1] /\ UNCHANGED <<gatt_events, up, counted>>
          /\ \A r \in GattHalves \ {p} : turns'[r] = turns[r]
        BY <1>0, <1>1 DEF Turn
    <2>2. /\ turns[p] < SensorQueue => turns'[p] = turns[p] + 1 /\ gatt_lost' = gatt_lost
          /\ ~(turns[p] < SensorQueue) => turns'[p] = turns[p] /\ gatt_lost' = gatt_lost \cup {<<p, "turn">>}
        BY <1>0, <1>1 DEF Turn
    <2>3. CASE q # p
        <3>1. turned'[q] = turned[q] /\ turns'[q] = turns[q] /\ gatt_lost \subseteq gatt_lost'
            BY <1>0, <2>1, <2>2, <2>3
        <3> QED BY <1>0, <2>1, <3>1, StillBalanced
    <2>4. CASE q = p
        <3>1. turned'[p] = turned[p] + 1
            BY <1>0, <2>1
        <3> DEFINE a == counted[p]
                   b == CountIn(gatt_events, TurnsOf(p))
                   c == CountIn(up[p], TurnsOf(p))
        <3>2. a \in Nat /\ b \in Nat /\ c \in Nat /\ turns[p] \in Nat /\ turned[p] \in Nat
            BY CountTypes
        <3>3. Underway(p) = a + b + c + turns[p] /\ Underway(p)' = a + b + c + turns'[p]
            BY <2>1 DEF Underway, TurnsOf, Heard, HeardFrom
        <3> HIDE DEF a, b, c
        <3> QED BY <1>0, <2>2, <2>4, <3>1, <3>2, <3>3 DEF Balanced
    <2> QED BY <2>3, <2>4
<1>2. ASSUME NEW x \in HeardFrom({p}), x \notin TurnsOf(q), up' = [up EXCEPT ![p] = Append(up[p], x)],
             UNCHANGED <<gatt_events, turned, counted, turns>>, gatt_lost \subseteq gatt_lost'
      PROVE  Balanced(q)'
    <2>1. CountIn(Append(up[p], x), TurnsOf(q)) = CountIn(up[p], TurnsOf(q))
        BY <1>0, <1>2, AppendCount
    <2>2. CountIn(up'[q], TurnsOf(q)) = CountIn(up[q], TurnsOf(q))
        <3>1. CASE q = p
            <4>1. up'[p] = Append(up[p], x)
                BY <1>0, <1>2
            <4> QED BY <2>1, <3>1, <4>1
        <3>2. CASE q # p
            BY <1>0, <1>2, <3>2
        <3> QED BY <3>1, <3>2
    <2> QED BY <1>0, <1>2, <2>2, StillBalanced
<1>3. CASE SendTurn(p)
    <2>1. /\ turns' = [turns EXCEPT ![p] = turns[p] - 1] /\ UNCHANGED <<gatt_events, counted, turned>>
        BY <1>0, <1>3 DEF SendTurn
    <2>2. \/ /\ up' = [up EXCEPT ![p] = Append(up[p], Turned(p))] /\ gatt_lost' = gatt_lost
          \/ /\ up' = up /\ gatt_lost' = gatt_lost \cup {<<p, "turn">>}
        BY <1>3 DEF SendTurn, Send
    <2>3. CASE q # p
        <3>1. turned'[q] = turned[q] /\ turns'[q] = turns[q] /\ up'[q] = up[q] /\ gatt_lost \subseteq gatt_lost'
            BY <1>0, <2>1, <2>2, <2>3
        <3> QED BY <1>0, <2>1, <3>1, StillBalanced
    <2>4. CASE q = p
        <3>1. turns'[p] = turns[p] - 1
            BY <1>0, <2>1
        <3> DEFINE a == counted[p]
                   b == CountIn(gatt_events, TurnsOf(p))
                   c == CountIn(up[p], TurnsOf(p))
                   d == CountIn(up'[p], TurnsOf(p))
        <3>2. a \in Nat /\ b \in Nat /\ c \in Nat /\ turns[p] \in Nat /\ turned[p] \in Nat
            BY CountTypes
        <3>3. Underway(p) = a + b + c + turns[p] /\ Underway(p)' = a + b + d + turns'[p]
            BY <2>1 DEF Underway, TurnsOf, Heard, HeardFrom
        <3>4. \/ d = c + 1 /\ gatt_lost' = gatt_lost
              \/ d = c /\ gatt_lost' = gatt_lost \cup {<<p, "turn">>}
            <4>1. ASSUME up' = [up EXCEPT ![p] = Append(up[p], Turned(p))], gatt_lost' = gatt_lost
                  PROVE  d = c + 1 /\ gatt_lost' = gatt_lost
                <5>1. up'[p] = Append(up[p], Turned(p))
                    BY <1>0, <4>1
                <5>2. Turned(p) \in TurnsOf(p) /\ Turned(p) \in HeardFrom({p})
                    BY TurnedType DEF TurnsOf
                <5> QED BY <1>0, <4>1, <5>1, <5>2, AppendCount
            <4> QED BY <2>2, <4>1
        <3>5. \/ Underway(p)' = Underway(p) /\ gatt_lost' = gatt_lost
              \/ /\ Underway(p)' <= Underway(p) /\ gatt_lost' = gatt_lost \cup {<<p, "turn">>}
                 /\ Underway(p)' \in Int /\ Underway(p) \in Int
            <4> HIDE DEF a, b, c, d
            <4> QED BY <3>1, <3>2, <3>3, <3>4
        <3>6. turned'[p] = turned[p]
            BY <2>1
        <3> HIDE DEF a, b, c, d
        <3> QED BY <1>0, <2>4, <3>2, <3>5, <3>6 DEF Balanced
    <2> QED BY <2>3, <2>4
<1>4. ASSUME NEW l \in 0 .. 3 PROVE Level(p, l) \in HeardFrom({p}) /\ Level(p, l) \notin TurnsOf(q)
    BY <1>4, LevelType DEF TurnsOf
<1>5. CASE Drain(p)
    <2>1. charge[p] - 1 \in 0 .. 3
        <3>1. charge[p] \in 1 .. 3
            BY DEF Shape, HalfShape
        <3> QED BY <3>1
    <2>2. \/ up' = up
          \/ up' = [up EXCEPT ![p] = Append(up[p], Level(p, charge[p] - 1))]
        BY <1>5 DEF Drain, Send
    <2>3. UNCHANGED <<gatt_events, turned, counted, turns>> /\ gatt_lost \subseteq gatt_lost'
        BY <1>5 DEF Drain
    <2> QED BY <1>0, <1>2, <1>4, <2>1, <2>2, <2>3, StillBalanced
<1>6. CASE Asked(p)
    <2>1. charge[p] \in 0 .. 3
        <3>1. charge[p] \in 1 .. 3
            BY DEF Shape, HalfShape
        <3> QED BY <3>1
    <2>2. \/ up' = up
          \/ up' = [up EXCEPT ![p] = Append(up[p], Level(p, charge[p]))]
        BY <1>6 DEF Asked, Send
    <2>3. UNCHANGED <<gatt_events, turned, counted, turns>> /\ gatt_lost \subseteq gatt_lost'
        BY <1>6 DEF Asked
    <2> QED BY <1>0, <1>2, <1>4, <2>1, <2>2, <2>3, StillBalanced
<1>7. ASSUME NEW k \in IndexOf(p, "input"), Move(p, k) PROVE Balanced(q)'
    <2>1. PICK j \in IndexOf(p, "input") : up' = [up EXCEPT ![p] = Append(up[p], Moved(p, j, 0))]
        BY <1>7, MovesOne
    <2>2. j \in Nat
        BY TableFacts DEF IndexOf, Shape, CentralShape
    <2>3. Moved(p, j, 0) \in HeardFrom({p}) /\ Moved(p, j, 0) \notin TurnsOf(q)
        BY <2>2, MovedType DEF TurnsOf
    <2>4. UNCHANGED <<gatt_events, turned, counted, turns, gatt_lost>>
        BY <1>7 DEF Move
    <2> QED BY <1>2, <2>1, <2>3, <2>4
<1> QED BY <1>1, <1>3, <1>5, <1>6, <1>7

LEMMA CountsLink ==
    ASSUME Shape, TurnsKept, NEW q \in GattHalves,
           HostDisconnected \/ \E p \in GattHalves : GattLoss(p) \/ Restart(p)
    PROVE  Balanced(q)'
<1> USE DEF central_vars, event_vars, command_vars, half_vars, history_vars
<1>0. Balanced(q) /\ 0 \in 0 .. 3
    BY DEF TurnsKept
<1>1. CASE HostDisconnected
    <2>1. Level(Stranger, 0) \notin TurnsOf(q)
        BY StrangerType DEF TurnsOf
    <2>2. CountIn(LastLevel(Stranger), TurnsOf(q)) = CountIn(gatt_events, TurnsOf(q))
        BY <2>1, CountPut, StrangerType DEF LastLevel
    <2> QED BY <1>0, <1>1, <2>2, StillBalanced DEF HostDisconnected
<1>2. ASSUME NEW p \in GattHalves, GattLoss(p) \/ Restart(p) PROVE Balanced(q)'
    <2>1. /\ Lose(p) /\ gatt_lost \cup InFlight(p) \subseteq gatt_lost'
          /\ UNCHANGED <<counted, turned>> /\ \A r \in GattHalves \ {p} : turns'[r] = turns[r]
          /\ (turns'[p] = turns[p] \/ (turns'[p] = 0 /\ <<p, "turn">> \in gatt_lost'))
        <3>1. Lose(p) /\ gatt_lost \cup InFlight(p) \subseteq gatt_lost' /\ UNCHANGED <<counted, turned>>
            BY <1>2 DEF GattLoss, Restart, Lose
        <3>2. CASE GattLoss(p)
            BY <3>1, <3>2 DEF GattLoss
        <3>3. CASE Restart(p)
            <4>1. turns' = [turns EXCEPT ![p] = 0] /\ <<p, "turn">> \in gatt_lost'
                BY <3>3 DEF Restart
            <4>2. turns \in [GattHalves -> 0 .. SensorQueue]
                BY DEF Shape, HalfShape
            <4> QED BY <3>1, <4>1, <4>2
        <3> QED BY <1>2, <3>2, <3>3
    <2>2. /\ up'[p] = <<>> /\ \A r \in GattHalves \ {p} : up'[r] = up[r]
        BY <2>1, ShapeLose
    <2>3. CountIn(gatt_events', TurnsOf(q)) = CountIn(gatt_events, TurnsOf(q))
        <3>1. Level(p, 0) \in Heard /\ Level(p, 0) \notin TurnsOf(q)
            BY <1>0, LevelType DEF TurnsOf
        <3>2. CountIn(LastLevel(p), TurnsOf(q)) = CountIn(gatt_events, TurnsOf(q))
            BY <3>1, CountPut DEF LastLevel
        <3> QED BY <2>1, <3>2 DEF Lose
    <2>4. CASE q # p
        <3>1. up'[q] = up[q] /\ turns'[q] = turns[q]
            BY <2>1, <2>2, <2>4
        <3> QED BY <1>0, <2>1, <2>3, <3>1, StillBalanced
    <2>5. CASE q = p
        <3> DEFINE a == counted[p]
                   b == CountIn(gatt_events, TurnsOf(p))
                   c == CountIn(up[p], TurnsOf(p))
        <3>1. a \in Nat /\ b \in Nat /\ c \in Nat /\ turns[p] \in Nat /\ turned[p] \in Nat
            BY CountTypes
        <3>2. CountIn(up'[p], TurnsOf(p)) = 0
            BY <2>2, EmptyHasNone
        <3>3. Underway(p) = a + b + c + turns[p] /\ Underway(p)' = a + b + 0 + turns'[p]
            BY <2>1, <2>3, <2>5, <3>2 DEF Underway, TurnsOf, Heard, HeardFrom
        <3>4. c = 0 \/ <<p, "turn">> \in gatt_lost'
            <4>1. CASE NoneIn(up[p], TurnsOf(p))
                <5>1. Places(up[p], TurnsOf(p)) = {}
                    BY <4>1 DEF NoneIn, Places
                <5> QED BY <5>1, FS_EmptySet DEF CountIn
            <4>2. CASE ~NoneIn(up[p], TurnsOf(p))
                <5>1. PICK n \in DOMAIN up[p] : up[p][n].kind = "turn"
                    BY <4>2 DEF NoneIn, TurnsOf
                <5>2. up[p][n] \in Range(up[p])
                    BY DEF Range
                <5>3. <<p, "turn">> \in InFlight(p)
                    BY <5>1, <5>2 DEF InFlight
                <5> QED BY <2>1, <5>3
            <4> QED BY <4>1, <4>2
        <3> HIDE DEF a, b, c
        <3>5. Underway(p)' <= Underway(p) /\ Underway(p)' \in Int /\ Underway(p) \in Int
              /\ (Underway(p)' = Underway(p) \/ <<p, "turn">> \in gatt_lost')
            BY <2>1, <3>1, <3>3, <3>4
        <3>6. turned'[p] = turned[p] /\ gatt_lost \subseteq gatt_lost'
            BY <2>1
        <3> QED BY <1>0, <2>5, <3>1, <3>5, <3>6 DEF Balanced
    <2> QED BY <2>4, <2>5
<1> QED BY <1>1, <1>2

LEMMA CountsEvents ==
    ASSUME Shape, TurnsKept, NEW q \in GattHalves,
           RaiseSensor \/ RaiseInput \/ RaiseLevel \/ \E p \in GattHalves : GattNotified(p)
    PROVE  Balanced(q)'
<1> USE DEF central_vars, event_vars, command_vars, half_vars, history_vars
<1>0. Balanced(q) /\ gatt_events \in Seq(Heard)
    BY DEF TurnsKept, Shape, EventShape
<1> DEFINE a == counted[q]
           b == CountIn(gatt_events, TurnsOf(q))
           c == CountIn(up[q], TurnsOf(q))
<1>1. a \in Nat /\ b \in Nat /\ c \in Nat /\ turns[q] \in Nat /\ turned[q] \in Nat
    BY CountTypes
<1>2. Underway(q) = a + b + c + turns[q]
    BY DEF Underway
<1>3. ASSUME NEW p \in GattHalves, GattNotified(p) PROVE Balanced(q)'
    <2>0. /\ up[p] # <<>> /\ up' = [up EXCEPT ![p] = Tail(up[p])]
          /\ UNCHANGED <<counted, turned, turns>>
        BY <1>3 DEF GattNotified
    <2>1. /\ up = [r \in GattHalves |-> up[r]] /\ up[p] \in Seq(HeardFrom({p}))
          /\ Head(up[p]) \in HeardFrom({p})
        BY <2>0, HeadTailProperties DEF Shape, AirShape
    <2>2. Head(up[p]) \in Heard /\ Head(up[p]).source = p
        BY <2>1 DEF Heard, HeardFrom
    <2>3. up'[p] = Tail(up[p]) /\ \A r \in GattHalves \ {p} : up'[r] = up[r]
        BY <2>0, <2>1
    <2>4. CountIn(Tail(up[p]), TurnsOf(q)) = IF Head(up[p]) \in TurnsOf(q) THEN CountIn(up[p], TurnsOf(q)) - 1
                                             ELSE CountIn(up[p], TurnsOf(q))
        BY <2>0, <2>1, TailCount
    <2>5. CASE Head(up[p]).kind = "turn" /\ q = p
        <3>1. gatt_events' = PutLast(Turned(p)) /\ gatt_lost' = gatt_lost \cup Refused(Turned(p))
            BY <1>3, <2>5 DEF GattNotified, SensorNotified, LevelNotified, InputNotified
        <3>2. /\ Turned(p) \in TurnsOf(p) /\ Turned(p) \in Heard /\ Turned(p).source = p
              /\ Turned(p).kind = "turn"
            BY TurnedType DEF TurnsOf
        <3>3. \/ CountIn(gatt_events', TurnsOf(p)) = b + 1 /\ gatt_lost' = gatt_lost
              \/ CountIn(gatt_events', TurnsOf(p)) = b /\ gatt_lost' = gatt_lost \cup {<<p, "turn">>}
            BY <2>5, <3>1, <3>2, CountPut
        <3>4. CountIn(up'[p], TurnsOf(p)) = c - 1
            BY <2>2, <2>3, <2>4, <2>5 DEF TurnsOf
        <3>5. Underway(q)' = a + CountIn(gatt_events', TurnsOf(p)) + (c - 1) + turns[q]
            BY <2>0, <2>5, <3>4 DEF Underway, TurnsOf, Heard, HeardFrom
        <3> HIDE DEF a, b, c
        <3>6. \/ Underway(q)' = Underway(q) /\ gatt_lost' = gatt_lost
              \/ /\ Underway(q)' <= Underway(q) /\ gatt_lost' = gatt_lost \cup {<<p, "turn">>}
                 /\ Underway(q)' \in Int /\ Underway(q) \in Int
            BY <1>1, <1>2, <3>3, <3>5
        <3>7. turned'[q] = turned[q]
            BY <2>0
        <3> QED BY <1>0, <1>1, <2>5, <3>6, <3>7 DEF Balanced
    <2>6. CASE ~(Head(up[p]).kind = "turn" /\ q = p)
        <3>1. Head(up[p]) \notin TurnsOf(q)
            BY <2>2, <2>6 DEF TurnsOf
        <3>2. CountIn(up'[q], TurnsOf(q)) = CountIn(up[q], TurnsOf(q))
            BY <2>3, <2>4, <3>1
        <3>3. CountIn(gatt_events', TurnsOf(q)) = CountIn(gatt_events, TurnsOf(q))
            <4>1. CASE SensorNotified(p)
                <5>1. Turned(p) \in Heard /\ Turned(p) \notin TurnsOf(q)
                    BY <2>6, <4>1, TurnedType DEF TurnsOf, SensorNotified
                <5> QED BY <4>1, <5>1, CountPut DEF SensorNotified
            <4>2. CASE LevelNotified(p)
                BY <2>2, <3>1, <4>2, CountPut DEF LevelNotified
            <4>3. CASE InputNotified(p)
                <5>1. gatt_events' = gatt_events
                      \/ \E i \in InputSlots : gatt_events' = PutLast(Moved(p, Head(up[p]).chr, slots[i].reg))
                    BY <4>3 DEF InputNotified
                <5>2. \A i \in InputSlots : /\ Moved(p, Head(up[p]).chr, slots[i].reg) \in Heard
                                            /\ Moved(p, Head(up[p]).chr, slots[i].reg) \notin TurnsOf(q)
                    <6> SUFFICES ASSUME NEW i \in InputSlots
                                 PROVE  /\ Moved(p, Head(up[p]).chr, slots[i].reg) \in Heard
                                        /\ Moved(p, Head(up[p]).chr, slots[i].reg) \notin TurnsOf(q)
                        OBVIOUS
                    <6>1. Head(up[p]).chr \in Nat /\ slots[i].reg \in Nat
                        BY <2>1 DEF HeardFrom, Shape, CentralShape, InputSlot
                    <6> QED BY <6>1, MovedType DEF TurnsOf
                <5> QED BY <5>1, <5>2, CountPut
            <4> QED BY <1>3, <4>1, <4>2, <4>3 DEF GattNotified
        <3>4. gatt_lost \subseteq gatt_lost'
            BY <1>3 DEF GattNotified, SensorNotified, LevelNotified, InputNotified
        <3> QED BY <1>0, <2>0, <3>2, <3>3, <3>4, StillBalanced
    <2> QED BY <2>5, <2>6
<1>4. ASSUME NEW kind, NextEvent(kind)
      PROVE  /\ CountIn(gatt_events', TurnsOf(q)) = IF Head(gatt_events) \in TurnsOf(q) THEN b - 1 ELSE b
             /\ Head(gatt_events) \in Heard
    <2>1. gatt_events # <<>> /\ gatt_events' = Tail(gatt_events)
        BY <1>4 DEF NextEvent
    <2> QED BY <1>0, <2>1, TailCount, HeadTailProperties
<1>5. CASE RaiseInput \/ RaiseLevel
    <2>1. PICK kind \in {"input", "batt"} : NextEvent(kind)
        BY <1>5 DEF RaiseInput, RaiseLevel
    <2>2. Head(gatt_events) \notin TurnsOf(q)
        BY <2>1 DEF NextEvent, TurnsOf
    <2>3. UNCHANGED <<up, counted, turned, turns, gatt_lost>>
        BY <1>5 DEF RaiseInput, RaiseLevel
    <2> QED BY <1>0, <1>4, <2>1, <2>2, <2>3, StillBalanced
<1>6. CASE RaiseSensor
    <2> DEFINE p == Head(gatt_events).source
    <2>1. /\ NextEvent("turn") /\ UNCHANGED <<up, turned, turns, gatt_lost>>
          /\ counted' = [counted EXCEPT ![p] = counted[p] + 1] /\ counted \in [GattHalves -> Nat]
        BY <1>6 DEF RaiseSensor, Shape, HistoryShape
    <2>2. Head(gatt_events) \in TurnsOf(q) <=> p = q
        BY <1>4, <2>1 DEF NextEvent, TurnsOf
    <2> HIDE DEF p
    <2>3. CASE p = q
        <3>1. counted'[q] = a + 1 /\ CountIn(gatt_events', TurnsOf(q)) = b - 1
            BY <1>4, <2>1, <2>2, <2>3
        <3>2. Underway(q)' = (a + 1) + (b - 1) + c + turns[q]
            BY <2>1, <3>1 DEF Underway, TurnsOf, Heard, HeardFrom
        <3> HIDE DEF a, b, c
        <3>3. Underway(q)' = Underway(q)
            BY <1>1, <1>2, <3>2
        <3> QED BY <1>0, <2>1, <3>3 DEF Balanced
    <2>4. CASE p # q
        <3>1. counted'[q] = counted[q] /\ CountIn(gatt_events', TurnsOf(q)) = b
            BY <1>4, <2>1, <2>2, <2>4
        <3> QED BY <1>0, <2>1, <3>1, StillBalanced
    <2> QED BY <2>3, <2>4
<1> QED BY <1>3, <1>5, <1>6

\* The other steps leave all of the numbers alone.
LEMMA CountsElsewhere ==
    ASSUME Shape, TurnsKept, NEW q \in GattHalves, gatt_lost \subseteq gatt_lost',
           UNCHANGED <<counted, turned, turns, up, gatt_events>>
    PROVE  Balanced(q)'
BY StillBalanced DEF TurnsKept

LEMMA CountsStep == Shape /\ TurnsKept /\ [GattNext]_gatt_vars => TurnsKept'
<1> SUFFICES ASSUME Shape, TurnsKept, [GattNext]_gatt_vars, NEW q \in GattHalves PROVE Balanced(q)'
    BY DEF TurnsKept
<1> USE DEF central_vars, event_vars, command_vars, half_vars, history_vars
<1>1. CASE UNCHANGED gatt_vars
    BY <1>1, CountsElsewhere DEF gatt_vars
<1>2. ASSUME NEW p \in GattHalves,
             \/ GattConnected(p) \/ FindService(p) \/ FindCharacteristic(p) \/ FindInput(p)
             \/ FindCcc(p) \/ FindCpf(p) \/ RunBehavior(p) \/ UpdateIndicators(p) \/ ShowLights(p)
      PROVE  Balanced(q)'
    BY <1>2, CountsElsewhere DEF GattConnected, FindService, FindCharacteristic, FindInput, FindCcc,
       FindCpf, RunBehavior, UpdateIndicators, ShowLights
<1>3. ASSUME \/ HostConnected \/ LedsChanged \/ PutCommand \/ Overtaken \/ RunCommand \/ DropCommand
             \/ \E key \in SUBSET GattHalves : Press(key)
             \/ \E e \in Endpoints : SelectEndpoint(e) \/ \E value \in {0, 1} : HostLights(e, value)
      PROVE  Balanced(q)'
    BY <1>3, CountsElsewhere DEF HostConnected, LedsChanged, PutCommand, Overtaken, RunCommand,
       DropCommand, Press, SelectEndpoint, HostLights
<1>4. CASE GattNext
    <2>1. GattHalves \in SUBSET GattHalves /\ \A p \in GattHalves : {p} \in SUBSET GattHalves
        OBVIOUS
    <2> QED BY <1>2, <1>3, <1>4, <2>1, CountsHalves, CountsLink, CountsEvents DEF GattNext, Internal
<1> QED BY <1>1, <1>4
-----------------------------------------------------------------------------
(* What discovery has left behind, it has found.                            *)
Passed(p, k) == cursor[p].mode = "done" \/ k < cursor[p].at
FoundBehind(p) ==
    /\ cursor[p].mode \in {"ccc", "cpf"} => Here(p).kind = "input"
    /\ gatt_state[p] = "connected" =>
        \A k \in DOMAIN Table(p) : Passed(p, k) /\ Table(p)[k].kind # "input" => Table(p)[k].kind \in handles[p]
KindsFound == \A p \in GattHalves : FoundBehind(p)

\* Where the cursor is after a step of discovery.
LEMMA PassedNext ==
    ASSUME CentralShape, NEW p \in GattHalves, NEW mode \in {"chrc", "ccc", "cpf"}, GoOn(p, mode),
           cursor[p].mode # "done", NEW k \in DOMAIN Table(p)
    PROVE  /\ Passed(p, k)' => \/ Passed(p, k) \/ (mode = "chrc" /\ k = cursor[p].at)
                               \/ Complete(handles'[p], slots')
                               \/ (mode # "chrc" /\ cursor[p].at > Len(Table(p)))
           /\ mode # "chrc" /\ ~Complete(handles'[p], slots') =>
                cursor'[p].mode = mode /\ cursor'[p].at = cursor[p].at /\ (Passed(p, k)' <=> Passed(p, k))
           /\ Passed(p, k) => Passed(p, k)'
           /\ mode = "chrc" => (k = cursor[p].at => Passed(p, k)') /\ cursor'[p].mode \in {"chrc", "done"}
<1> DEFINE next == IF mode = "chrc" THEN cursor[p].at + 1 ELSE cursor[p].at
<1>0. k \in Nat /\ k <= Len(Table(p)) /\ Len(Table(p)) \in Nat /\ cursor[p].at \in Nat
      /\ cursor[p].at <= Len(Table(p))
    BY TableFacts DEF CentralShape
<1>1. /\ cursor'[p] = Cursor("done", 1) \/ cursor'[p] = Cursor(mode, next)
      /\ cursor'[p] = Cursor("done", 1) => Complete(handles'[p], slots') \/ next > Len(Table(p))
    BY GoOnFacts
<1>2. /\ Cursor("done", 1).mode = "done" /\ Cursor(mode, next).mode = mode /\ Cursor(mode, next).at = next
      /\ Cursor("done", 1).at = 1
    BY DEF Cursor
<1>3. next \in Nat /\ (mode # "chrc" => next = cursor[p].at) /\ (mode = "chrc" => next = cursor[p].at + 1)
    BY <1>0
<1> HIDE DEF next
<1>4. CASE cursor'[p] = Cursor("done", 1)
    BY <1>0, <1>1, <1>2, <1>3, <1>4 DEF Passed
<1>5. CASE cursor'[p] = Cursor(mode, next)
    <2>1. cursor'[p].mode = mode /\ cursor'[p].at = next /\ mode # "done"
        BY <1>2, <1>5
    <2>2. /\ Passed(p, k)' <=> k < next
          /\ Passed(p, k) <=> k < cursor[p].at
        BY <2>1 DEF Passed
    <2>3. CASE mode = "chrc"
        <3>1. k < next <=> k < cursor[p].at \/ k = cursor[p].at
            BY <1>0, <1>3, <2>3
        <3>2. cursor[p].at < next
            BY <1>0, <1>3, <2>3
        <3> QED BY <2>1, <2>2, <2>3, <3>1, <3>2
    <2>4. CASE mode # "chrc"
        BY <1>3, <2>1, <2>2, <2>4
    <2> QED BY <2>3, <2>4
<1> QED BY <1>1, <1>4, <1>5

\* All of the kinds have been found.
LEMMA CompleteHasKinds ==
    ASSUME build \in Builds, NEW p \in GattHalves, NEW h, NEW ss, Complete(h, ss), NEW k \in DOMAIN Table(p),
           Table(p)[k].kind # "input"
    PROVE  Table(p)[k].kind \in h
<1>1. Table(p)[k].kind \in Kinds
    BY TableFacts
<1>2. Len(Table(p)) \in Nat /\ DOMAIN Table(p) = 1 .. Len(Table(p))
    BY TableFacts
<1>3. Table(p)[k] \in Range(Table(p))
    BY DEF Range
<1>4. Has(Table(p)[k].kind)
    BY <1>3 DEF Has
<1> QED BY <1>1, <1>4 DEF Complete, Kinds

\* The halves whose discovery stands where it stood.
LEMMA FoundStays ==
    ASSUME NEW q \in GattHalves, FoundBehind(q), gatt_state'[q] = gatt_state[q], cursor'[q] = cursor[q],
           handles[q] \subseteq handles'[q], build' = build
    PROVE  FoundBehind(q)'
<1>1. Here(q)' = Here(q) /\ \A k \in DOMAIN Table(q) : Passed(q, k)' <=> Passed(q, k)
    BY DEF Here, Passed, Table
<1>2. Table(q)' = Table(q)
    BY DEF Table
<1> QED BY <1>1, <1>2 DEF FoundBehind

LEMMA FoundStep == Shape /\ KindsFound /\ [GattNext]_gatt_vars => KindsFound'
<1> SUFFICES ASSUME Shape, KindsFound, [GattNext]_gatt_vars, NEW q \in GattHalves PROVE FoundBehind(q)'
    BY DEF KindsFound
<1> USE DEF central_vars, event_vars, command_vars, half_vars, history_vars
<1>0. /\ CentralShape /\ FoundBehind(q) /\ build \in Builds
      /\ gatt_state \in [GattHalves -> {"open", "connected"}]
      /\ handles \in [GattHalves -> SUBSET (Kinds \ {"input"})]
      /\ cursor \in [GattHalves -> [mode : ModeSet, at : Nat]]
    BY DEF Shape, KindsFound, CentralShape
<1>1. CASE UNCHANGED <<build, gatt_state, handles, cursor>>
    BY <1>0, <1>1, FoundStays
<1>2. ASSUME NEW p \in GattHalves, NEW mode \in {"service", "chrc"}, cursor' = [cursor EXCEPT ![p] = Cursor(mode, 1)],
             UNCHANGED <<build, handles>>, \A r \in GattHalves \ {p} : gatt_state'[r] = gatt_state[r]
      PROVE  FoundBehind(q)'
    <2>1. CASE q = p
        <3>1. cursor'[q].mode = mode /\ cursor'[q].at = 1
            BY <1>0, <1>2, <2>1 DEF Cursor
        <3>2. \A k \in DOMAIN Table(q) : k \in Nat /\ k >= 1
            BY <1>0, TableFacts
        <3>3. \A k \in DOMAIN Table(q) : ~(Passed(q, k)')
            BY <3>1, <3>2 DEF Passed
        <3> QED BY <1>2, <3>1, <3>3 DEF FoundBehind, Table
    <2>2. CASE q # p
        <3>1. cursor'[q] = cursor[q] /\ gatt_state'[q] = gatt_state[q]
            BY <1>0, <1>2, <2>2
        <3> QED BY <1>0, <1>2, <3>1, FoundStays
    <2> QED BY <2>1, <2>2
<1>3. ASSUME NEW p \in GattHalves, GattConnected(p) \/ FindService(p) PROVE FoundBehind(q)'
    <2>1. CASE GattConnected(p)
        <3>1. handles[p] = {}
            BY <2>1 DEF Shape, PhaseShape, Gone, GattConnected
        <3>2. cursor' = [cursor EXCEPT ![p] = Cursor("service", 1)]
            BY <2>1, <3>1 DEF GattConnected
        <3>3. \A r \in GattHalves \ {p} : gatt_state'[r] = gatt_state[r]
            BY <1>0, <2>1 DEF GattConnected
        <3> QED BY <1>2, <2>1, <3>2, <3>3 DEF GattConnected
    <2>2. CASE FindService(p)
        BY <1>2, <2>2 DEF FindService
    <2> QED BY <1>3, <2>1, <2>2
<1>4. ASSUME NEW p \in GattHalves, NEW mode \in {"chrc", "ccc", "cpf"}, GoOn(p, mode), cursor[p].mode # "done",
             UNCHANGED <<build, gatt_state>>, handles[p] \subseteq handles'[p],
             \A r \in GattHalves \ {p} : handles'[r] = handles[r],
             Here(p).kind = "input" \/ (mode = "chrc" /\ Here(p).kind \in handles'[p])
      PROVE  FoundBehind(q)'
    <2>1. CASE q = p
        <3>6. ASSUME cursor'[p].mode \in {"ccc", "cpf"} PROVE Here(p)'.kind = "input"
            <4>1. cursor'[p].mode = mode \/ cursor'[p].mode = "done"
                BY <1>0, <1>4, GoOnFacts
            <4>2. /\ cursor'[p] = Cursor("done", 1)
                     \/ cursor'[p] = Cursor(mode, IF mode = "chrc" THEN cursor[p].at + 1 ELSE cursor[p].at)
                  /\ Cursor("done", 1).mode = "done"
                  /\ \A n : Cursor(mode, n).at = n
                BY <1>0, <1>4, GoOnFacts DEF Cursor
            <4>3. mode # "chrc" /\ cursor'[p].at = cursor[p].at
                BY <3>6, <4>1, <4>2
            <4> QED BY <1>4, <4>3 DEF Here, Table
        <3> SUFFICES ASSUME gatt_state[p] = "connected", NEW k \in DOMAIN Table(p), Passed(p, k)', Table(p)[k].kind # "input"
                     PROVE  Table(p)[k].kind \in handles'[p]
            BY <1>4, <2>1, <3>6 DEF FoundBehind, Table
        <3>1. \/ Passed(p, k) \/ (mode = "chrc" /\ k = cursor[p].at)
              \/ Complete(handles'[p], slots') \/ cursor[p].at > Len(Table(p))
            BY <1>0, <1>4, PassedNext
        <3>2. ~(cursor[p].at > Len(Table(p)))
            <4>1. cursor[p].at \in DOMAIN Table(p)
                BY <1>0 DEF CentralShape
            <4> QED BY <1>0, <4>1, TableFacts
        <3>3. CASE Passed(p, k)
            BY <1>0, <1>4, <2>1, <3>3 DEF FoundBehind
        <3>4. CASE mode = "chrc" /\ k = cursor[p].at
            BY <1>4, <3>4 DEF Here
        <3>5. CASE Complete(handles'[p], slots')
            BY <1>0, <3>5, CompleteHasKinds
        <3> QED BY <3>1, <3>2, <3>3, <3>4, <3>5
    <2>2. CASE q # p
        <3>1. cursor'[q] = cursor[q] /\ handles'[q] = handles[q]
            BY <1>0, <1>4, <2>2, GoOnFacts
        <3> QED BY <1>0, <1>4, <3>1, FoundStays
    <2> QED BY <2>1, <2>2
<1>5. ASSUME NEW p \in GattHalves, FindCharacteristic(p) PROVE FoundBehind(q)'
    <2>1. /\ GoOn(p, "chrc") /\ UNCHANGED <<build, gatt_state>> /\ cursor[p].mode # "done"
          /\ handles' = [handles EXCEPT ![p] = handles[p] \cup {Here(p).kind}]
        BY <1>5 DEF FindCharacteristic, Discovering
    <2>2. /\ handles[p] \subseteq handles'[p] /\ Here(p).kind \in handles'[p]
          /\ \A r \in GattHalves \ {p} : handles'[r] = handles[r]
        BY <1>0, <2>1
    <2> QED BY <1>4, <2>1, <2>2
<1>6. ASSUME NEW p \in GattHalves, FindInput(p) \/ FindCcc(p) \/ FindCpf(p) PROVE FoundBehind(q)'
    <2>1. PICK mode \in {"chrc", "ccc", "cpf"} : GoOn(p, mode)
        BY <1>6 DEF FindInput, FindCcc, FindCpf, AfterInput
    <2>2. UNCHANGED <<build, gatt_state, handles>> /\ cursor[p].mode # "done" /\ Here(p).kind = "input"
        BY <1>0, <1>6 DEF FindInput, FindCcc, FindCpf, Discovering, FoundBehind, KindsFound
    <2> QED BY <1>4, <2>1, <2>2
<1>7. ASSUME NEW p \in GattHalves, Lose(p) PROVE FoundBehind(q)'
    <2>1. /\ gatt_state'[p] = "open" /\ build' = build
          /\ \A r \in GattHalves \ {p} : gatt_state'[r] = gatt_state[r] /\ handles'[r] = handles[r] /\ cursor'[r] = cursor[r]
        BY <1>7, ShapeLose DEF Lose
    <2>2. CASE q = p
        <3>1. cursor'[q].mode = "none"
            BY <1>0, <1>7, <2>2 DEF Lose, Cursor
        <3> QED BY <2>1, <2>2, <3>1 DEF FoundBehind
    <2>3. CASE q # p
        BY <1>0, <2>1, <2>3, FoundStays
    <2> QED BY <2>2, <2>3
<1>8. ASSUME NEW p \in GattHalves,
             \/ Turn(p) \/ SendTurn(p) \/ Drain(p) \/ Asked(p) \/ RunBehavior(p) \/ UpdateIndicators(p)
             \/ ShowLights(p) \/ GattNotified(p) \/ \E k \in IndexOf(p, "input") : Move(p, k)
      PROVE  FoundBehind(q)'
    <2>1. UNCHANGED <<build, gatt_state, handles, cursor>>
        BY <1>8 DEF Turn, SendTurn, Drain, Asked, RunBehavior, UpdateIndicators, ShowLights, GattNotified, Move
    <2> QED BY <1>1, <2>1
<1>9. ASSUME \/ HostConnected \/ HostDisconnected \/ RaiseSensor \/ RaiseInput \/ RaiseLevel \/ LedsChanged
             \/ PutCommand \/ Overtaken \/ RunCommand \/ DropCommand \/ \E key \in SUBSET GattHalves : Press(key)
             \/ \E e \in Endpoints : SelectEndpoint(e) \/ \E value \in {0, 1} : HostLights(e, value)
      PROVE  FoundBehind(q)'
    <2>1. UNCHANGED <<build, gatt_state, handles, cursor>>
        BY <1>9 DEF HostConnected, HostDisconnected, RaiseSensor, RaiseInput, RaiseLevel, LedsChanged,
           PutCommand, Overtaken, RunCommand, DropCommand, Press, SelectEndpoint, HostLights
    <2> QED BY <1>1, <2>1
<1>10. CASE UNCHANGED gatt_vars
    BY <1>1, <1>10 DEF gatt_vars
<1>11. CASE GattNext
    <2>1. GattHalves \in SUBSET GattHalves /\ \A p \in GattHalves : {p} \in SUBSET GattHalves
        OBVIOUS
    <2>2. \A p \in GattHalves : GattLoss(p) \/ Restart(p) => Lose(p)
        BY DEF GattLoss, Restart
    <2> QED BY <1>3, <1>5, <1>6, <1>7, <1>8, <1>9, <1>11, <2>1, <2>2 DEF GattNext, Internal
<1> QED BY <1>10, <1>11
-----------------------------------------------------------------------------
(* Nothing that was lost is found again, and the keyboard stays what it is.  *)
LEMMA OnlyMoreIsLost == [GattNext]_gatt_vars => build' = build /\ gatt_lost \subseteq gatt_lost'
<1> SUFFICES ASSUME [GattNext]_gatt_vars PROVE build' = build /\ gatt_lost \subseteq gatt_lost'
    OBVIOUS
<1> USE DEF central_vars, event_vars, command_vars, half_vars, history_vars
<1>1. CASE UNCHANGED gatt_vars
    BY <1>1 DEF gatt_vars
<1>2. ASSUME NEW p \in GattHalves,
             \/ GattConnected(p) \/ FindService(p) \/ FindCharacteristic(p) \/ FindInput(p)
             \/ FindCcc(p) \/ FindCpf(p) \/ RunBehavior(p) \/ UpdateIndicators(p) \/ ShowLights(p)
             \/ Turn(p) \/ SendTurn(p) \/ Drain(p) \/ Asked(p) \/ \E k \in IndexOf(p, "input") : Move(p, k)
      PROVE  build' = build /\ gatt_lost \subseteq gatt_lost'
    BY <1>2 DEF GattConnected, FindService, FindCharacteristic, FindInput, FindCcc, FindCpf, RunBehavior,
       UpdateIndicators, ShowLights, Turn, SendTurn, Drain, Asked, Move
<1>3. ASSUME NEW p \in GattHalves, GattLoss(p) \/ Restart(p) \/ GattNotified(p)
      PROVE  build' = build /\ gatt_lost \subseteq gatt_lost'
    BY <1>3 DEF GattLoss, Restart, Lose, GattNotified, SensorNotified, LevelNotified, InputNotified
<1>4. ASSUME \/ HostConnected \/ HostDisconnected \/ RaiseSensor \/ RaiseInput \/ RaiseLevel
             \/ LedsChanged \/ PutCommand \/ Overtaken \/ RunCommand \/ DropCommand
             \/ \E key \in SUBSET GattHalves : Press(key)
             \/ \E e \in Endpoints : SelectEndpoint(e) \/ \E value \in {0, 1} : HostLights(e, value)
      PROVE  build' = build /\ gatt_lost \subseteq gatt_lost'
    BY <1>4 DEF HostConnected, HostDisconnected, RaiseSensor, RaiseInput, RaiseLevel, LedsChanged, PutCommand,
       Overtaken, RunCommand, DropCommand, Press, SelectEndpoint, HostLights
<1>5. CASE GattNext
    <2>1. GattHalves \in SUBSET GattHalves /\ \A p \in GattHalves : {p} \in SUBSET GattHalves
        OBVIOUS
    <2> QED BY <1>2, <1>3, <1>4, <1>5, <2>1 DEF GattNext, Internal
<1> QED BY <1>1, <1>5
-----------------------------------------------------------------------------
(* Charges: what was last said of one, on its way to the central.           *)
LevelsOf(p) == {x \in Heard : x.kind = "batt" /\ x.source = p}
WithLevel(l) == {x \in Heard : x.level = l}
HeardLast(s, p, l) == LastIn(s, LevelsOf(p), WithLevel(l))
NotHeard(s, p) == NoneIn(s, LevelsOf(p))
Comes(s, p, level, l) == HeardLast(s, p, l) \/ (NotHeard(s, p) /\ level = l)
Reads == {x \in Written : x.kind = "read"}
ChargeKnown(p) ==
    /\ gatt_state[p] = "open" => Comes(gatt_events, p, levels[p], 0)
    /\ gatt_state[p] = "connected" =>
        \/ "batt" \notin handles[p] \/ ~NoneIn(down[p], Reads)
        \/ HeardLast(up[p], p, charge[p])
        \/ NotHeard(up[p], p) /\ Comes(gatt_events, p, levels[p], charge[p])
ChargeRight(p) == IndexOf(p, "batt") = {} \/ <<p, "batt">> \in gatt_lost \/ ChargeKnown(p)
ChargesKept == (host => proxy = levels) /\ \A p \in GattHalves : ChargeRight(p)

LEMMA HeardAppend ==
    ASSUME NEW S \in SUBSET Heard, NEW s \in Seq(S), NEW x \in S, NEW p \in GattHalves, NEW l
    PROVE  /\ x.kind = "batt" /\ x.source = p /\ x.level = l => HeardLast(Append(s, x), p, l)
           /\ ~(x.kind = "batt" /\ x.source = p) =>
                /\ HeardLast(s, p, l) => HeardLast(Append(s, x), p, l)
                /\ NotHeard(s, p) => NotHeard(Append(s, x), p)
<1>1. x \in Heard
    OBVIOUS
<1>2. x \in LevelsOf(p) <=> (x.kind = "batt" /\ x.source = p)
    BY <1>1 DEF LevelsOf
<1>3. x \in WithLevel(l) <=> x.level = l
    BY <1>1 DEF WithLevel
<1> QED BY <1>2, <1>3, AppendLast DEF HeardLast, NotHeard

LEMMA HeardTail ==
    ASSUME NEW S \in SUBSET Heard, NEW s \in Seq(S), s # <<>>, NEW p \in GattHalves, NEW l
    PROVE  /\ NotHeard(s, p) => NotHeard(Tail(s), p) /\ ~(Head(s).kind = "batt" /\ Head(s).source = p)
           /\ HeardLast(s, p, l) =>
                \/ HeardLast(Tail(s), p, l)
                \/ NotHeard(Tail(s), p) /\ Head(s).kind = "batt" /\ Head(s).source = p /\ Head(s).level = l
<1>1. Head(s) \in Heard
    BY HeadTailProperties
<1>2. Head(s) \in LevelsOf(p) <=> (Head(s).kind = "batt" /\ Head(s).source = p)
    BY <1>1 DEF LevelsOf
<1>3. Head(s) \in WithLevel(l) <=> Head(s).level = l
    BY <1>1 DEF WithLevel
<1> QED BY <1>2, <1>3, TailLast DEF HeardLast, NotHeard

\* An event is put into the queue, or refused.
LEMMA HeardPut ==
    ASSUME Shape, NEW ev \in Heard, NEW p \in GattHalves, NEW l, NEW level
    PROVE  /\ ~(ev.kind = "batt" /\ ev.source = p) /\ Comes(gatt_events, p, level, l) => Comes(PutLast(ev), p, level, l)
           /\ ev.kind = "batt" /\ ev.source = p /\ ev.level = l =>
                HeardLast(PutLast(ev), p, l) \/ Refused(ev) = {<<p, "batt">>}
<1>1. gatt_events \in Seq(Heard) /\ Heard \in SUBSET Heard
    BY DEF Shape, EventShape
<1>2. CASE Len(gatt_events) < GattEventQueue
    <2>1. PutLast(ev) = Append(gatt_events, ev)
        BY <1>2 DEF PutLast
    <2> QED BY <1>1, <2>1, HeardAppend DEF Comes
<1>3. CASE ~(Len(gatt_events) < GattEventQueue)
    <2>1. PutLast(ev) = gatt_events /\ Refused(ev) = {<<ev.source, ev.kind>>}
        BY <1>3 DEF PutLast, Refused
    <2> QED BY <2>1
<1> QED BY <1>2, <1>3

\* The next event is raised.
LEMMA HeardNext ==
    ASSUME Shape, NEW kind, NextEvent(kind), NEW p \in GattHalves, NEW l, NEW level, NEW later,
           Comes(gatt_events, p, level, l),
           IF kind = "batt" /\ Head(gatt_events).source = p THEN later = Head(gatt_events).level ELSE later = level
    PROVE  Comes(gatt_events', p, later, l)
<1>1. /\ gatt_events \in Seq(Heard) /\ Heard \in SUBSET Heard /\ gatt_events # <<>>
      /\ gatt_events' = Tail(gatt_events) /\ Head(gatt_events).kind = kind
    BY DEF Shape, EventShape, NextEvent
<1> QED BY <1>1, HeardTail DEF Comes

LEMMA ChargeStays ==
    ASSUME NEW q \in GattHalves, ChargeRight(q), build' = build, gatt_lost \subseteq gatt_lost',
           gatt_state'[q] = gatt_state[q], handles'[q] = handles[q], charge'[q] = charge[q], levels'[q] = levels[q],
           gatt_events' = gatt_events, up'[q] = up[q], down'[q] = down[q]
    PROVE  ChargeRight(q)'
<1>1. IndexOf(q, "batt")' = IndexOf(q, "batt")
    BY DEF IndexOf, Table
<1>2. ASSUME ChargeKnown(q) PROVE ChargeKnown(q)'
    BY <1>2 DEF ChargeKnown
<1> QED BY <1>1, <1>2 DEF ChargeRight

LEMMA AirFacts ==
    ASSUME Shape, NEW p \in GattHalves
    PROVE  /\ gatt_events \in Seq(Heard) /\ up = [r \in GattHalves |-> up[r]] /\ down = [r \in GattHalves |-> down[r]]
           /\ up[p] \in Seq(HeardFrom({p})) /\ down[p] \in Seq(Written) /\ HeardFrom({p}) \in SUBSET Heard
           /\ charge \in [GattHalves -> 1 .. 3] /\ charge[p] \in 0 .. 3 /\ levels[p] \in 0 .. 3
           /\ gatt_state[p] \in {"open", "connected"}
<1>1. HeardFrom({p}) \in SUBSET Heard
    BY DEF HeardFrom, Heard
<1>2. charge \in [GattHalves -> 1 .. 3] /\ charge[p] \in 0 .. 3
    <2>1. charge \in [GattHalves -> 1 .. 3]
        BY DEF Shape, HalfShape
    <2>2. charge[p] \in 1 .. 3
        BY <2>1
    <2> QED BY <2>1, <2>2
<1> QED BY <1>1, <1>2 DEF Shape, EventShape, AirShape, CentralShape

\* What a half sends.
LEMMA ChargeSent ==
    ASSUME Shape, NEW p \in GattHalves, NEW q \in GattHalves, ChargeRight(q),
           build' = build, gatt_lost \subseteq gatt_lost', UNCHANGED <<gatt_state, handles, levels, gatt_events, down>>,
           NEW x \in HeardFrom({p}), up' = [up EXCEPT ![p] = Append(up[p], x)],
           \A r \in GattHalves \ {p} : charge'[r] = charge[r],
           IF x.kind = "batt" THEN x.level = charge'[p] ELSE charge' = charge
    PROVE  ChargeRight(q)'
<1>1. /\ up'[p] = Append(up[p], x) /\ \A r \in GattHalves \ {p} : up'[r] = up[r]
      /\ HeardFrom({p}) \in SUBSET Heard /\ up[p] \in Seq(HeardFrom({p})) /\ x.source = p
    BY AirFacts DEF HeardFrom
<1>2. CASE q # p
    <2>1. up'[q] = up[q] /\ charge'[q] = charge[q]
        BY <1>1, <1>2
    <2> QED BY <2>1, ChargeStays
<1>3. CASE q = p
    <2>1. IndexOf(p, "batt")' = IndexOf(p, "batt")
        BY DEF IndexOf, Table
    <2>2. ASSUME ChargeKnown(p) PROVE ChargeKnown(p)'
        <3>1. CASE x.kind = "batt"
            <4>1. HeardLast(Append(up[p], x), p, charge'[p])
                BY <1>1, <3>1, HeardAppend
            <4> QED BY <1>1, <2>2, <4>1 DEF ChargeKnown
        <3>2. CASE x.kind # "batt"
            <4> DEFINE S == HeardFrom({p})
            <4>3. S \in SUBSET Heard /\ up[p] \in Seq(S) /\ x \in S /\ ~(x.kind = "batt" /\ x.source = p)
                BY <1>1, <3>2
            <4> HIDE DEF S
            <4>1. /\ HeardLast(up[p], p, charge[p]) => HeardLast(up'[p], p, charge[p])
                  /\ NotHeard(up[p], p) => NotHeard(up'[p], p)
                BY <1>1, <4>3, HeardAppend
            <4>2. charge' = charge
                BY <3>2
            <4> QED BY <2>2, <4>1, <4>2 DEF ChargeKnown
        <3> QED BY <3>1, <3>2
    <2> QED BY <1>3, <2>1, <2>2 DEF ChargeRight
<1> QED BY <1>2, <1>3

LEMMA ChargeHalves ==
    ASSUME Shape, NEW p \in GattHalves, NEW q \in GattHalves, ChargeRight(q),
           build' = build, gatt_lost \subseteq gatt_lost',
           SendTurn(p) \/ Drain(p) \/ Asked(p) \/ RunBehavior(p) \/ UpdateIndicators(p)
           \/ \E k \in IndexOf(p, "input") : Move(p, k)
    PROVE  ChargeRight(q)'
<1> USE DEF central_vars, event_vars, command_vars, half_vars, history_vars
<1>0. /\ charge \in [GattHalves -> 1 .. 3] /\ charge[p] \in 0 .. 3 /\ charge[p] \in 1 .. 3
      /\ down[p] \in Seq(Written) /\ down = [r \in GattHalves |-> down[r]]
      /\ up[p] \in Seq(HeardFrom({p})) /\ HeardFrom({p}) \in SUBSET Heard /\ up = [r \in GattHalves |-> up[r]]
    <2>1. charge[p] \in 1 .. 3
        BY DEF Shape, HalfShape
    <2> QED BY <2>1, AirFacts
<1>1. CASE SendTurn(p)
    <2>1. CASE Enabled(p, "sensor")
        <3>1. up' = [up EXCEPT ![p] = Append(up[p], Turned(p))]
              /\ UNCHANGED <<gatt_state, handles, levels, gatt_events, down, charge>>
            BY <1>1, <2>1 DEF SendTurn, Send
        <3>2. Turned(p) \in HeardFrom({p}) /\ Turned(p).kind = "turn"
            BY TurnedType
        <3> QED BY <3>1, <3>2, ChargeSent
    <2>2. CASE ~Enabled(p, "sensor")
        BY <1>1, <2>2, ChargeStays DEF SendTurn
    <2> QED BY <2>1, <2>2
<1>2. ASSUME NEW k \in IndexOf(p, "input"), Move(p, k) PROVE ChargeRight(q)'
    <2>1. PICK j \in IndexOf(p, "input") : up' = [up EXCEPT ![p] = Append(up[p], Moved(p, j, 0))]
        BY <1>2, MovesOne
    <2>2. j \in Nat
        BY TableFacts DEF IndexOf, Shape, CentralShape
    <2>3. Moved(p, j, 0) \in HeardFrom({p}) /\ Moved(p, j, 0).kind = "input"
        BY <2>2, MovedType
    <2>4. UNCHANGED <<gatt_state, handles, levels, gatt_events, down, charge>>
        BY <1>2 DEF Move
    <2> QED BY <2>1, <2>3, <2>4, ChargeSent
<1>3. CASE Drain(p)
    <2>1. /\ charge'[p] = charge[p] - 1 /\ \A r \in GattHalves \ {p} : charge'[r] = charge[r]
          /\ UNCHANGED <<gatt_state, handles, levels, gatt_events, down>>
        BY <1>0, <1>3 DEF Drain
    <2>2. CASE Enabled(p, "batt")
        <3>1. charge[p] - 1 \in 0 .. 3
            BY <1>0
        <3>2. Level(p, charge[p] - 1) \in HeardFrom({p}) /\ Level(p, charge[p] - 1).level = charge[p] - 1
              /\ Level(p, charge[p] - 1).kind = "batt"
            BY <3>1, LevelType
        <3>3. up' = [up EXCEPT ![p] = Append(up[p], Level(p, charge[p] - 1))]
            BY <1>3, <2>2 DEF Drain, Send
        <3> QED BY <2>1, <3>2, <3>3, ChargeSent
    <2>3. CASE ~Enabled(p, "batt")
        <3>1. /\ up' = up
              /\ gatt_lost' = IF "batt" \in handles[p] /\ \A x \in Range(down[p]) : x.kind # "read"
                              THEN gatt_lost \cup {<<p, "batt">>} ELSE gatt_lost
            BY <1>3, <2>3 DEF Drain
        <3>2. CASE q # p
            BY <2>1, <3>1, <3>2, ChargeStays
        <3>3. CASE q = p
            <4>1. IndexOf(p, "batt")' = IndexOf(p, "batt")
                BY DEF IndexOf, Table
            <4>2. ASSUME ChargeKnown(p), <<p, "batt">> \notin gatt_lost' PROVE ChargeKnown(p)'
                <5>1. CASE "batt" \notin handles[p]
                    BY <2>1, <4>2, <5>1 DEF ChargeKnown
                <5>2. CASE "batt" \in handles[p]
                    <6>1. PICK x \in Range(down[p]) : x.kind = "read"
                        BY <3>1, <4>2, <5>2
                    <6>2. PICK n \in DOMAIN down[p] : x = down[p][n]
                        BY DEF Range
                    <6>3. x \in Written
                        <7>1. DOMAIN down[p] = 1 .. Len(down[p])
                            BY <1>0, LenProperties
                        <7> QED BY <1>0, <6>2, <7>1, ElementOfSeq
                    <6>4. ~NoneIn(down[p], Reads)
                        BY <6>1, <6>2, <6>3 DEF NoneIn, Reads
                    <6> QED BY <2>1, <4>2, <6>4 DEF ChargeKnown
                <5> QED BY <5>1, <5>2
            <4> QED BY <3>3, <4>1, <4>2 DEF ChargeRight
        <3> QED BY <3>2, <3>3
    <2> QED BY <2>2, <2>3
<1>4. CASE Asked(p) \/ RunBehavior(p) \/ UpdateIndicators(p)
    <2>1. /\ down[p] # <<>> /\ down' = [down EXCEPT ![p] = Tail(down[p])]
          /\ UNCHANGED <<gatt_state, handles, levels, gatt_events, charge>>
        BY <1>4 DEF Asked, RunBehavior, UpdateIndicators, Arrives
    <2>2. /\ down'[p] = Tail(down[p]) /\ \A r \in GattHalves \ {p} : down'[r] = down[r]
          /\ Head(down[p]) \in Written
        BY <1>0, <2>1, HeadTailProperties
    <2>3. \/ /\ Head(down[p]).kind = "read" /\ up' = [up EXCEPT ![p] = Append(up[p], Level(p, charge[p]))]
          \/ Head(down[p]).kind # "read" /\ up' = up
        BY <1>4 DEF Asked, RunBehavior, UpdateIndicators, Arrives, Send
    <2>4. CASE q # p
        <3>1. up'[q] = up[q] /\ down'[q] = down[q]
            BY <1>0, <2>2, <2>3, <2>4
        <3> QED BY <2>1, <3>1, ChargeStays
    <2>5. CASE q = p
        <3>1. IndexOf(p, "batt")' = IndexOf(p, "batt")
            BY DEF IndexOf, Table
        <3>2. ASSUME ChargeKnown(p) PROVE ChargeKnown(p)'
            <4>1. gatt_state[p] = "connected"
                BY <2>1, ConnectedIfOnAir
            <4>2. CASE Head(down[p]).kind = "read"
                <5>1. up'[p] = Append(up[p], Level(p, charge[p]))
                    BY <1>0, <2>3, <4>2
                <5>2. /\ Level(p, charge[p]) \in HeardFrom({p}) /\ Level(p, charge[p]).kind = "batt"
                      /\ Level(p, charge[p]).source = p /\ Level(p, charge[p]).level = charge[p]
                    BY <1>0, LevelType
                <5>3. HeardLast(up'[p], p, charge[p])
                    BY <1>0, <5>1, <5>2, HeardAppend
                <5> QED BY <2>1, <4>1, <5>3 DEF ChargeKnown
            <4>3. CASE Head(down[p]).kind # "read"
                <5>1. Head(down[p]) \notin Reads
                    BY <4>3 DEF Reads
                <5>2. NoneIn(Tail(down[p]), Reads) => NoneIn(down[p], Reads)
                    BY <1>0, <2>1, <5>1, TailLast
                <5> QED BY <2>1, <2>2, <2>3, <3>2, <4>1, <4>3, <5>2 DEF ChargeKnown
            <4> QED BY <4>2, <4>3
        <3> QED BY <2>5, <3>1, <3>2 DEF ChargeRight
    <2> QED BY <2>4, <2>5
<1> QED BY <1>1, <1>2, <1>3, <1>4

\* What the central asks of a half.
LEMMA ChargeAsked ==
    ASSUME Shape, NEW p \in GattHalves, NEW q \in GattHalves, ChargeRight(q), build' = build,
           gatt_lost \subseteq gatt_lost', UNCHANGED <<gatt_state, levels, gatt_events, up, charge>>,
           \A r \in GattHalves \ {p} : handles'[r] = handles[r] /\ down'[r] = down[r],
           ~NoneIn(down[p], Reads) => ~NoneIn(down'[p], Reads),
           "batt" \in handles'[p] => "batt" \in handles[p] \/ ~NoneIn(down'[p], Reads)
    PROVE  ChargeRight(q)'
<1>1. CASE q # p
    BY <1>1, ChargeStays
<1>2. CASE q = p
    <2>1. IndexOf(p, "batt")' = IndexOf(p, "batt")
        BY DEF IndexOf, Table
    <2>2. ASSUME ChargeKnown(p) PROVE ChargeKnown(p)'
        <3>1. Reads' = Reads
            BY DEF Reads, Written
        <3> QED BY <2>2, <3>1 DEF ChargeKnown
    <2> QED BY <1>2, <2>1, <2>2 DEF ChargeRight
<1> QED BY <1>1, <1>2

LEMMA ChargeDiscovery ==
    ASSUME Shape, NEW p \in GattHalves, NEW q \in GattHalves, ChargeRight(q),
           build' = build, gatt_lost \subseteq gatt_lost',
           GattConnected(p) \/ FindCharacteristic(p) \/ FindCpf(p)
    PROVE  ChargeRight(q)'
<1> USE DEF central_vars, event_vars, command_vars, half_vars, history_vars
<1>0. /\ down[p] \in Seq(Written) /\ down = [r \in GattHalves |-> down[r]]
      /\ handles \in [GattHalves -> SUBSET (Kinds \ {"input"})] /\ slots \in [InputSlots -> InputSlot]
      /\ gatt_state \in [GattHalves -> {"open", "connected"}] /\ cursor[p].at \in Nat
    BY AirFacts DEF Shape, CentralShape
<1>1. CASE GattConnected(p)
    <2>1. /\ gatt_state'[p] = "connected" /\ \A r \in GattHalves \ {p} : gatt_state'[r] = gatt_state[r]
          /\ handles[p] = {} /\ UNCHANGED <<handles, levels, gatt_events, up, down, charge>>
        BY <1>0, <1>1 DEF GattConnected, Shape, PhaseShape, Gone
    <2>2. CASE q # p
        BY <2>1, <2>2, ChargeStays
    <2>3. CASE q = p
        BY <2>1, <2>3 DEF ChargeRight, ChargeKnown
    <2> QED BY <2>2, <2>3
<1>2. CASE FindCharacteristic(p)
    <2>1. PICK requests \in Requests(p) : down' = [down EXCEPT ![p] = down[p] \o requests]
        BY <1>2 DEF FindCharacteristic
    <2>2. requests \in Seq(Written)
        BY RequestTypes DEF Shape
    <2>3. /\ down'[p] = down[p] \o requests /\ \A r \in GattHalves \ {p} : down'[r] = down[r]
        BY <1>0, <2>1
    <2>4. NoneIn(down'[p], Reads) => NoneIn(down[p], Reads) /\ NoneIn(requests, Reads)
        BY <1>0, <2>2, <2>3, ConcatNone
    <2>5. Here(p).kind = "batt" => ~NoneIn(requests, Reads)
        <3> DEFINE ccc == [kind |-> "ccc", chr |-> cursor[p].at, key |-> {}, value |-> 0]
                   read == [ccc EXCEPT !.kind = "read"]
        <3>1. read \in Reads
            BY <1>0 DEF Reads, Written
        <3>2. Here(p).kind = "batt" => requests \in {<<ccc, read>>, <<read, ccc>>}
            BY <2>1 DEF Requests
        <3> HIDE DEF ccc, read
        <3>3. ASSUME requests = <<ccc, read>> PROVE ~NoneIn(requests, Reads)
            <4>1. 2 \in DOMAIN requests /\ requests[2] = read
                BY <3>3
            <4> QED BY <3>1, <4>1 DEF NoneIn
        <3>4. ASSUME requests = <<read, ccc>> PROVE ~NoneIn(requests, Reads)
            <4>1. 1 \in DOMAIN requests /\ requests[1] = read
                BY <3>4
            <4> QED BY <3>1, <4>1 DEF NoneIn
        <3> QED BY <3>2, <3>3, <3>4
    <2>6. /\ handles'[p] = handles[p] \cup {Here(p).kind} /\ \A r \in GattHalves \ {p} : handles'[r] = handles[r]
          /\ UNCHANGED <<gatt_state, levels, gatt_events, up, charge>>
        BY <1>0, <1>2 DEF FindCharacteristic
    <2> QED BY <2>3, <2>4, <2>5, <2>6, ChargeAsked
<1>3. CASE FindCpf(p)
    <2>1. UNCHANGED <<handles, gatt_state, levels, gatt_events, up, charge>>
        BY <1>3 DEF FindCpf
    <2>2. \/ down' = down
          \/ \E x \in Written : down' = [down EXCEPT ![p] = Append(down[p], x)] /\ x.kind = "ccc"
        <3> DEFINE ask(i) == [kind |-> "ccc", chr |-> slots[i].ccc, key |-> {}, value |-> 0]
        <3>1. \/ down' = down
              \/ \E i \in InputSlots : down' = [down EXCEPT ![p] = Append(down[p], ask(i))]
            BY <1>3 DEF FindCpf, PendingSlot, FirstSlot
        <3>2. \A i \in InputSlots : ask(i) \in Written /\ ask(i).kind = "ccc"
            BY <1>0 DEF Written, InputSlot
        <3> HIDE DEF ask
        <3> QED BY <3>1, <3>2
    <2>3. /\ \A r \in GattHalves \ {p} : down'[r] = down[r]
          /\ down'[p] = down[p] \/ \E x \in Written : down'[p] = Append(down[p], x) /\ x.kind = "ccc"
        BY <1>0, <2>2
    <2>4. NoneIn(down'[p], Reads) => NoneIn(down[p], Reads)
        <3>1. ASSUME NEW x \in Written, down'[p] = Append(down[p], x)
              PROVE  NoneIn(down'[p], Reads) => NoneIn(down[p], Reads)
            <4>1. <<x>> \in Seq(Written) /\ Append(down[p], x) = down[p] \o <<x>>
                BY <1>0, AppendIsConcat
            <4> QED BY <1>0, <3>1, <4>1, ConcatNone
        <3> QED BY <2>3, <3>1
    <2> QED BY <2>1, <2>3, <2>4, ChargeAsked
<1> QED BY <1>1, <1>2, <1>3

LEMMA ChargeLink ==
    ASSUME Shape, NEW q \in GattHalves, ChargeRight(q), build' = build, gatt_lost \subseteq gatt_lost',
           HostDisconnected \/ \E p \in GattHalves : GattLoss(p) \/ Restart(p)
    PROVE  ChargeRight(q)'
<1> USE DEF central_vars, event_vars, command_vars, half_vars, history_vars
<1>0. 0 \in 0 .. 3 /\ Stranger \notin GattHalves
    BY GattAssumption
<1>1. IndexOf(q, "batt")' = IndexOf(q, "batt")
    BY DEF IndexOf, Table
<1>2. CASE HostDisconnected
    <2>1. UNCHANGED <<gatt_state, handles, levels, up, down, charge>>
        BY <1>2 DEF HostDisconnected
    <2>2. \A l : Comes(gatt_events, q, levels[q], l) => Comes(gatt_events', q, levels[q], l)
        <3> SUFFICES ASSUME NEW l, Comes(gatt_events, q, levels[q], l) PROVE Comes(gatt_events', q, levels[q], l)
            OBVIOUS
        <3>1. Comes(PutLast(Level(Stranger, 0)), q, levels[q], l)
            BY <1>0, StrangerType, HeardPut
        <3> QED BY <1>2, <3>1 DEF HostDisconnected, LastLevel
    <2>3. ASSUME ChargeKnown(q) PROVE ChargeKnown(q)'
        BY <2>1, <2>2, <2>3 DEF ChargeKnown
    <2> QED BY <1>1, <2>3 DEF ChargeRight
<1>3. ASSUME NEW p \in GattHalves, GattLoss(p) \/ Restart(p) PROVE ChargeRight(q)'
    <2>1. /\ Lose(p) /\ charge' = charge
          /\ (Has("batt") => Refused(Level(p, 0)) \subseteq gatt_lost')
        BY <1>3 DEF GattLoss, Restart
    <2>2. /\ gatt_state'[p] = "open" /\ levels' = levels /\ gatt_events' = LastLevel(p)
          /\ \A r \in GattHalves \ {p} : /\ gatt_state'[r] = gatt_state[r] /\ handles'[r] = handles[r]
                                         /\ up'[r] = up[r] /\ down'[r] = down[r]
        BY <2>1, ShapeLose DEF Lose
    <2>3. /\ Level(p, 0) \in Heard /\ Level(p, 0).kind = "batt" /\ Level(p, 0).source = p /\ Level(p, 0).level = 0
        BY <1>0, LevelType
    <2>4. CASE q # p
        <3>1. \A l : Comes(gatt_events, q, levels[q], l) => Comes(gatt_events', q, levels[q], l)
            <4> SUFFICES ASSUME NEW l, Comes(gatt_events, q, levels[q], l) PROVE Comes(gatt_events', q, levels[q], l)
                OBVIOUS
            <4>1. Comes(PutLast(Level(p, 0)), q, levels[q], l)
                BY <2>3, <2>4, HeardPut
            <4> QED BY <2>2, <4>1 DEF LastLevel
        <3>2. ASSUME ChargeKnown(q) PROVE ChargeKnown(q)'
            BY <2>1, <2>2, <2>4, <3>1, <3>2 DEF ChargeKnown
        <3> QED BY <1>1, <3>2 DEF ChargeRight
    <2>5. CASE q = p
        <3>1. ASSUME IndexOf(p, "batt") # {} PROVE Has("batt")
            <4>1. PICK k \in DOMAIN Table(p) : Table(p)[k].kind = "batt"
                BY <3>1 DEF IndexOf
            <4>2. Table(p)[k] \in Range(Table(p))
                BY DEF Range
            <4> QED BY <4>1, <4>2 DEF Has
        <3>2. ASSUME IndexOf(p, "batt") # {}, <<p, "batt">> \notin gatt_lost' PROVE ChargeKnown(p)'
            <4>1. gatt_events' = PutLast(Level(p, 0)) /\ Refused(Level(p, 0)) \subseteq gatt_lost'
                BY <2>1, <2>2, <3>1, <3>2 DEF LastLevel
            <4>2. HeardLast(gatt_events', p, 0)
                BY <2>3, <3>2, <4>1, HeardPut
            <4> QED BY <2>2, <4>2 DEF ChargeKnown, Comes
        <3> QED BY <1>1, <2>5, <3>2 DEF ChargeRight
    <2> QED BY <2>4, <2>5
<1> QED BY <1>2, <1>3

OfDevice(p) == {x \in Heard : x.kind = "input" /\ x.source = p}
LEMMA MovedOfDevice ==
    ASSUME NEW p \in GattHalves, NEW k \in Nat, NEW r \in Nat
    PROVE  Moved(p, k, r) \in OfDevice(p)
<1>1. Moved(p, k, r) \in HeardFrom({p}) /\ Moved(p, k, r) \in Heard
    BY MovedType
<1>2. Moved(p, k, r).source = p
    BY <1>1 DEF HeardFrom
<1>3. Rec("input", p) = [source |-> p, kind |-> "input", level |-> 0, reg |-> 0, chr |-> 0]
    BY DEF Rec
<1>4. Moved(p, k, r).kind = "input"
    BY <1>3 DEF Moved
<1> QED BY <1>1, <1>2, <1>4 DEF OfDevice

LEMMA ChargeEvents ==
    ASSUME Shape, NEW q \in GattHalves, ChargeRight(q), build' = build, gatt_lost \subseteq gatt_lost',
           RaiseSensor \/ RaiseInput \/ RaiseLevel \/ \E p \in GattHalves : GattNotified(p)
    PROVE  ChargeRight(q)'
<1> USE DEF central_vars, event_vars, command_vars, half_vars, history_vars
<1>1. IndexOf(q, "batt")' = IndexOf(q, "batt")
    BY DEF IndexOf, Table
<1>2. CASE RaiseSensor \/ RaiseInput \/ RaiseLevel
    <2>1. UNCHANGED <<gatt_state, handles, up, down, charge>>
        BY <1>2 DEF RaiseSensor, RaiseInput, RaiseLevel
    <2>2. PICK kind \in {"turn", "input", "batt"} :
            /\ NextEvent(kind)
            /\ levels'[q] = IF kind = "batt" /\ Head(gatt_events).source = q THEN Head(gatt_events).level ELSE levels[q]
        <3>1. CASE RaiseSensor \/ RaiseInput
            BY <3>1 DEF RaiseSensor, RaiseInput
        <3>2. CASE RaiseLevel
            BY <3>2 DEF RaiseLevel
        <3> QED BY <1>2, <3>1, <3>2
    <2>3. \A l : Comes(gatt_events, q, levels[q], l) => Comes(gatt_events', q, levels'[q], l)
        BY <2>2, HeardNext
    <2>4. ASSUME ChargeKnown(q) PROVE ChargeKnown(q)'
        BY <2>1, <2>3, <2>4 DEF ChargeKnown
    <2> QED BY <1>1, <2>4 DEF ChargeRight
<1>3. ASSUME NEW p \in GattHalves, GattNotified(p) PROVE ChargeRight(q)'
    <2> DEFINE x == Head(up[p])
    <2>1. /\ up[p] # <<>> /\ up' = [up EXCEPT ![p] = Tail(up[p])]
          /\ UNCHANGED <<gatt_state, handles, levels, down, charge>>
        BY <1>3 DEF GattNotified
    <2>2. /\ up'[p] = Tail(up[p]) /\ \A r \in GattHalves \ {p} : up'[r] = up[r]
          /\ x \in HeardFrom({p}) /\ x \in Heard /\ x.source = p /\ up[p] \in Seq(HeardFrom({p}))
          /\ HeardFrom({p}) \in SUBSET Heard
        <3>1. x \in HeardFrom({p}) /\ HeardFrom({p}) \in SUBSET Heard
            BY <2>1, AirFacts, HeadTailProperties
        <3>2. x.source = p
            BY <3>1 DEF HeardFrom
        <3> QED BY <2>1, <3>1, <3>2, AirFacts
    <2>3. \/ gatt_events' = gatt_events /\ x.kind # "batt"
          \/ \E ev \in Heard : /\ gatt_events' = PutLast(ev) /\ ev.source = p
                               /\ ev.kind = "batt" \/ x.kind = "batt" => ev = x /\ Refused(x) \subseteq gatt_lost'
        <3>1. CASE SensorNotified(p)
            <4>1. Turned(p) \in Heard /\ Turned(p).kind = "turn" /\ Turned(p).source = p
                BY TurnedType
            <4> QED BY <3>1, <4>1 DEF SensorNotified
        <3>2. CASE LevelNotified(p)
            BY <2>2, <3>2 DEF LevelNotified
        <3>3. CASE InputNotified(p)
            <4>1. x.kind = "input" /\ (\/ gatt_events' = gatt_events
                                       \/ \E i \in InputSlots : gatt_events' = PutLast(Moved(p, x.chr, slots[i].reg)))
                BY <3>3 DEF InputNotified
            <4>2. \A i \in InputSlots : Moved(p, x.chr, slots[i].reg) \in OfDevice(p)
                <5> SUFFICES ASSUME NEW i \in InputSlots PROVE Moved(p, x.chr, slots[i].reg) \in OfDevice(p)
                    OBVIOUS
                <5>1. x.chr \in Nat /\ slots[i].reg \in Nat
                    BY <2>2 DEF HeardFrom, Shape, CentralShape, InputSlot
                <5> QED BY <5>1, MovedOfDevice
            <4>3. \A ev \in OfDevice(p) : ev \in Heard /\ ev.kind = "input" /\ ev.source = p
                BY DEF OfDevice
            <4> QED BY <4>1, <4>2, <4>3
        <3> QED BY <1>3, <3>1, <3>2, <3>3 DEF GattNotified
    <2> HIDE DEF x
    <2>4. ASSUME NEW l, Comes(gatt_events, q, levels[q], l), q # p \/ x.kind # "batt"
          PROVE  Comes(gatt_events', q, levels[q], l)
        <3>1. ASSUME NEW ev \in Heard, gatt_events' = PutLast(ev), ev.source = p,
                     ev.kind = "batt" \/ x.kind = "batt" => ev = x
              PROVE  Comes(gatt_events', q, levels[q], l)
            BY <2>4, <3>1, HeardPut
        <3> QED BY <2>3, <2>4, <3>1
    <2>5. CASE q # p
        <3>1. ASSUME ChargeKnown(q) PROVE ChargeKnown(q)'
            BY <2>1, <2>2, <2>4, <2>5, <3>1 DEF ChargeKnown
        <3> QED BY <1>1, <3>1 DEF ChargeRight
    <2>6. CASE q = p
        <3>1. ASSUME ChargeKnown(p), <<p, "batt">> \notin gatt_lost' PROVE ChargeKnown(p)'
            <4>0. gatt_state[p] = "connected"
                BY <2>1, ConnectedIfOnAir
            <4>1. /\ NotHeard(up[p], p) => NotHeard(up'[p], p) /\ ~(x.kind = "batt")
                  /\ HeardLast(up[p], p, charge[p]) =>
                        \/ HeardLast(up'[p], p, charge[p])
                        \/ NotHeard(up'[p], p) /\ x.kind = "batt" /\ x.level = charge[p]
                <5> DEFINE S == HeardFrom({p})
                           l == charge[p]
                <5>1. S \in SUBSET Heard /\ up[p] \in Seq(S) /\ up[p] # <<>>
                    BY <2>1, <2>2
                <5> HIDE DEF S, l
                <5>2. /\ NotHeard(up[p], p) => NotHeard(Tail(up[p]), p) /\ ~(x.kind = "batt" /\ x.source = p)
                      /\ HeardLast(up[p], p, l) =>
                        \/ HeardLast(Tail(up[p]), p, l)
                        \/ NotHeard(Tail(up[p]), p) /\ x.kind = "batt" /\ x.source = p /\ x.level = l
                    BY <5>1, HeardTail DEF x
                <5> QED BY <2>2, <5>2 DEF l
            <4>2. ASSUME x.kind = "batt", x.level = charge[p] PROVE HeardLast(gatt_events', p, charge[p])
                <5>1. gatt_events' = PutLast(x) /\ Refused(x) \subseteq gatt_lost'
                    BY <2>3, <4>2
                <5> QED BY <2>2, <3>1, <4>2, <5>1, HeardPut
            <4>3. CASE NotHeard(up[p], p) /\ Comes(gatt_events, p, levels[p], charge[p])
                <5>1. Comes(gatt_events', p, levels[p], charge[p]) /\ NotHeard(up'[p], p)
                    BY <2>4, <2>6, <4>1, <4>3
                <5> QED BY <2>1, <4>0, <5>1 DEF ChargeKnown
            <4>4. CASE HeardLast(up[p], p, charge[p])
                BY <2>1, <4>0, <4>1, <4>2, <4>4 DEF ChargeKnown, Comes
            <4>5. CASE "batt" \notin handles[p] \/ ~NoneIn(down[p], Reads)
                BY <2>1, <4>0, <4>5 DEF ChargeKnown
            <4> QED BY <3>1, <4>0, <4>3, <4>4, <4>5 DEF ChargeKnown
        <3> QED BY <1>1, <2>6, <3>1 DEF ChargeRight
    <2> QED BY <2>5, <2>6
<1> QED BY <1>2, <1>3

LEMMA ChargesStep == Shape /\ ChargesKept /\ [GattNext]_gatt_vars => ChargesKept'
<1> SUFFICES ASSUME Shape, ChargesKept, [GattNext]_gatt_vars PROVE ChargesKept'
    OBVIOUS
<1> USE DEF central_vars, event_vars, command_vars, half_vars, history_vars
<1>0. build' = build /\ gatt_lost \subseteq gatt_lost' /\ \A q \in GattHalves : ChargeRight(q)
    BY OnlyMoreIsLost DEF ChargesKept
<1>1. ASSUME UNCHANGED <<gatt_state, handles, levels, charge, gatt_events, up, down>>, NEW q \in GattHalves
      PROVE  ChargeRight(q)'
    BY <1>0, <1>1, ChargeStays
<1>2. ASSUME NEW p \in GattHalves,
             FindService(p) \/ FindInput(p) \/ FindCcc(p) \/ Turn(p) \/ ShowLights(p)
      PROVE  UNCHANGED <<gatt_state, handles, levels, charge, gatt_events, up, down, host, proxy>>
    BY <1>2 DEF FindService, FindInput, FindCcc, Turn, ShowLights
<1>3. ASSUME \/ LedsChanged \/ PutCommand \/ Overtaken \/ DropCommand
             \/ \E key \in SUBSET GattHalves : Press(key)
             \/ \E e \in Endpoints : SelectEndpoint(e) \/ \E value \in {0, 1} : HostLights(e, value)
      PROVE  UNCHANGED <<gatt_state, handles, levels, charge, gatt_events, up, down, host, proxy>>
    BY <1>3 DEF LedsChanged, PutCommand, Overtaken, DropCommand, Press, SelectEndpoint, HostLights
<1>4. ASSUME RunCommand, NEW q \in GattHalves PROVE ChargeRight(q)'
    <2> DEFINE c == Head(commands)
               p == c.dest
               x == [kind |-> c.kind, chr |-> 0, key |-> c.key, value |-> c.value]
    <2>1. /\ commands \in Seq(Ordered) /\ commands # <<>>
          /\ down' = [down EXCEPT ![p] = Append(down[p], x)]
          /\ UNCHANGED <<gatt_state, handles, levels, charge, gatt_events, up>>
        BY <1>4 DEF RunCommand, Shape, CommandShape
    <2>2. c \in Ordered
        BY <2>1, HeadTailProperties
    <2>3. p \in GattHalves /\ x \in Written
        BY <2>2 DEF Ordered, Written
    <2> HIDE DEF c, p, x
    <2>4. down[p] \in Seq(Written) /\ down = [r \in GattHalves |-> down[r]]
        BY <2>3, AirFacts
    <2>5. down'[p] = Append(down[p], x) /\ \A r \in GattHalves \ {p} : down'[r] = down[r]
        BY <2>1, <2>3, <2>4
    <2>6. NoneIn(down'[p], Reads) => NoneIn(down[p], Reads)
        <3>1. <<x>> \in Seq(Written) /\ Append(down[p], x) = down[p] \o <<x>>
            BY <2>3, <2>4, AppendIsConcat
        <3> QED BY <2>4, <2>5, <3>1, ConcatNone
    <2> QED BY <1>0, <2>1, <2>3, <2>5, <2>6, ChargeAsked
<1>5. ASSUME NEW q \in GattHalves PROVE ChargeRight(q)'
    <2>1. CASE UNCHANGED gatt_vars
        BY <1>1, <2>1 DEF gatt_vars
    <2>2. CASE GattNext
        <3>1. GattHalves \in SUBSET GattHalves /\ \A p \in GattHalves : {p} \in SUBSET GattHalves
            OBVIOUS
        <3>2. CASE HostConnected
            BY <1>1, <3>2 DEF HostConnected
        <3> QED BY <1>0, <1>1, <1>2, <1>3, <1>4, <2>2, <3>1, <3>2, ChargeHalves, ChargeDiscovery, ChargeLink,
                   ChargeEvents DEF GattNext, Internal
    <2> QED BY <2>1, <2>2
<1>6. ASSUME host' PROVE proxy' = levels'
    <2>1. CASE RaiseLevel
        <3> DEFINE ev == Head(gatt_events)
        <3>1. gatt_events \in Seq(Heard) /\ gatt_events # <<>>
            BY <2>1 DEF Shape, EventShape, RaiseLevel, NextEvent
        <3>2. ev \in Heard
            BY <3>1, HeadTailProperties
        <3>3. ev.source \in GattHalves \cup {Stranger} /\ Stranger \notin GattHalves
            BY <3>2, GattAssumption DEF Heard, HeardFrom
        <3> HIDE DEF ev
        <3>4. /\ levels' = [q \in GattHalves |-> IF q = ev.source THEN ev.level ELSE levels[q]]
              /\ proxy' = IF host /\ ev.source # Stranger THEN [proxy EXCEPT ![ev.source] = ev.level] ELSE proxy
              /\ host /\ proxy = levels /\ levels \in [GattHalves -> 0 .. 3]
            BY <1>6, <2>1 DEF RaiseLevel, ChargesKept, Shape, EventShape, ev
        <3>5. CASE ev.source = Stranger
            BY <3>3, <3>4, <3>5
        <3>6. CASE ev.source \in GattHalves
            BY <3>3, <3>4, <3>6
        <3> QED BY <3>3, <3>5, <3>6
    <2>2. CASE HostConnected
        BY <2>2 DEF HostConnected
    <2>3. CASE HostDisconnected
        BY <1>6, <2>3 DEF HostDisconnected
    <2>4. ASSUME UNCHANGED <<host, proxy, levels>> PROVE proxy' = levels'
        BY <1>6, <2>4 DEF ChargesKept
    <2>5. CASE UNCHANGED gatt_vars
        BY <2>4, <2>5 DEF gatt_vars
    <2>6. ASSUME NEW p \in GattHalves,
                 \/ GattConnected(p) \/ FindCharacteristic(p) \/ FindCpf(p) \/ RunBehavior(p) \/ UpdateIndicators(p)
                 \/ SendTurn(p) \/ Drain(p) \/ Asked(p) \/ GattNotified(p) \/ GattLoss(p) \/ Restart(p)
                 \/ \E k \in IndexOf(p, "input") : Move(p, k)
          PROVE  UNCHANGED <<host, proxy, levels>>
        BY <2>6 DEF GattConnected, FindCharacteristic, FindCpf, RunBehavior, UpdateIndicators, SendTurn, Drain,
           Asked, GattNotified, GattLoss, Restart, Lose, Move
    <2>7. CASE RaiseSensor \/ RaiseInput \/ RunCommand
        BY <2>4, <2>7 DEF RaiseSensor, RaiseInput, RunCommand
    <2>8. CASE GattNext
        <3>1. GattHalves \in SUBSET GattHalves /\ \A p \in GattHalves : {p} \in SUBSET GattHalves
            OBVIOUS
        <3>2. ASSUME UNCHANGED <<gatt_state, handles, levels, charge, gatt_events, up, down, host, proxy>>
              PROVE  proxy' = levels'
            BY <2>4, <3>2
        <3>3. ASSUME NEW p \in GattHalves,
                     \/ FindService(p) \/ FindInput(p) \/ FindCcc(p) \/ Turn(p) \/ ShowLights(p)
                     \/ GattConnected(p) \/ FindCharacteristic(p) \/ FindCpf(p) \/ RunBehavior(p) \/ UpdateIndicators(p)
                     \/ SendTurn(p) \/ Drain(p) \/ Asked(p) \/ GattNotified(p) \/ GattLoss(p) \/ Restart(p)
                     \/ \E k \in IndexOf(p, "input") : Move(p, k)
              PROVE  proxy' = levels'
            BY <1>2, <2>4, <2>6, <3>2, <3>3
        <3>4. ASSUME \/ LedsChanged \/ PutCommand \/ Overtaken \/ DropCommand
                     \/ \E key \in SUBSET GattHalves : Press(key)
                     \/ \E e \in Endpoints : SelectEndpoint(e) \/ \E value \in {0, 1} : HostLights(e, value)
              PROVE  proxy' = levels'
            BY <1>3, <3>2, <3>4
        <3> QED BY <2>1, <2>2, <2>3, <2>7, <2>8, <3>1, <3>3, <3>4 DEF GattNext, Internal
    <2> QED BY <2>5, <2>8
<1> QED BY <1>5, <1>6 DEF ChargesKept

LEMMA ChargesInit == GattInit => ChargesKept
<1> SUFFICES ASSUME GattInit PROVE ChargesKept
    OBVIOUS
<1>1. ~host
    BY DEF GattInit
<1>2. ASSUME NEW p \in GattHalves PROVE ChargeKnown(p)
    <2>1. gatt_events = <<>> /\ levels[p] = 0 /\ gatt_state[p] = "open"
        BY DEF GattInit
    <2>2. NotHeard(gatt_events, p)
        BY <2>1, EmptyHasNone DEF NotHeard
    <2> QED BY <2>1, <2>2 DEF ChargeKnown, Comes
<1> QED BY <1>1, <1>2 DEF ChargesKept, ChargeRight
-----------------------------------------------------------------------------
(* Commands: what the last of a kind says, of those that the work queue is  *)
(* about to put (t), of those in the queue (c), and of those on the air (d);*)
(* T has the commands of the kind, U how they are written to the half, and  *)
(* `known' is what the half has been told before.                           *)
Orders(v) == {c \in Ordered : c.value = v}
Writes(v) == {w \in Written : w.value = v}
Arriving(d, U, known, v) == LastIn(d, U, Writes(v)) \/ (NoneIn(d, U) /\ known = v)
Reaches(t, c, d, T, U, known, v) ==
    \/ LastIn(t, T, Orders(v))
    \/ NoneIn(t, T) /\ (LastIn(c, T, Orders(v)) \/ (NoneIn(c, T) /\ Arriving(d, U, known, v)))

\* A command is put into the queue.
LEMMA PutReaches ==
    ASSUME NEW t \in Seq(Ordered), t # <<>>, NEW c \in Seq(Ordered), NEW d, NEW T, NEW U, NEW known, NEW v,
           Reaches(t, c, d, T, U, known, v)
    PROVE  Reaches(Tail(t), Append(c, Head(t)), d, T, U, known, v)
<1> DEFINE G == Orders(v)
           x == Head(t)
<1>1. x \in Ordered
    BY HeadTailProperties
<1>2. /\ NoneIn(t, T) => NoneIn(Tail(t), T) /\ x \notin T
      /\ LastIn(t, T, G) => LastIn(Tail(t), T, G) \/ (NoneIn(Tail(t), T) /\ x \in T /\ x \in G)
    BY TailLast
<1>3. /\ x \in T /\ x \in G => LastIn(Append(c, x), T, G)
      /\ x \notin T /\ LastIn(c, T, G) => LastIn(Append(c, x), T, G)
      /\ x \notin T /\ NoneIn(c, T) => NoneIn(Append(c, x), T)
    <2> HIDE DEF G, x
    <2> QED BY <1>1, AppendLast
<1> QED BY <1>2, <1>3 DEF Reaches

\* The first command is dropped, and is none of these or not the last of them.
LEMMA DropReaches ==
    ASSUME NEW t \in Seq(Ordered), NEW c \in Seq(Ordered), c # <<>>, NEW d, NEW T, NEW U, NEW known, NEW v,
           Reaches(t, c, d, T, U, known, v), Head(c) \notin T \/ ~NoneIn(Tail(c) \o t, T)
    PROVE  Reaches(t, Tail(c), d, T, U, known, v)
<1> DEFINE G == Orders(v)
<1>1. Tail(c) \in Seq(Ordered)
    BY HeadTailProperties
<1>2. /\ NoneIn(c, T) => NoneIn(Tail(c), T) /\ Head(c) \notin T
      /\ LastIn(c, T, G) => LastIn(Tail(c), T, G) \/ (NoneIn(Tail(c), T) /\ Head(c) \in T /\ Head(c) \in G)
    BY TailLast
<1>3. NoneIn(Tail(c) \o t, T) <=> NoneIn(Tail(c), T) /\ NoneIn(t, T)
    BY <1>1, ConcatNone
<1> QED BY <1>2, <1>3 DEF Reaches

\* The first command is written to the half.
LEMMA RunReaches ==
    ASSUME NEW t \in Seq(Ordered), NEW c \in Seq(Ordered), c # <<>>, NEW d \in Seq(Written), NEW w \in Written,
           NEW T, NEW U, NEW known, NEW v, Reaches(t, c, d, T, U, known, v),
           Head(c) \in T <=> w \in U, w.value = Head(c).value
    PROVE  Reaches(t, Tail(c), Append(d, w), T, U, known, v)
<1> DEFINE G == Orders(v)
           H == Writes(v)
<1>1. /\ NoneIn(c, T) => NoneIn(Tail(c), T) /\ Head(c) \notin T
      /\ LastIn(c, T, G) => LastIn(Tail(c), T, G) \/ (NoneIn(Tail(c), T) /\ Head(c) \in T /\ Head(c) \in G)
    BY TailLast
<1>2. Head(c) \in G => w \in H
    BY DEF Orders, Writes
<1>3. /\ w \in U /\ w \in H => LastIn(Append(d, w), U, H)
      /\ w \notin U /\ LastIn(d, U, H) => LastIn(Append(d, w), U, H)
      /\ w \notin U /\ NoneIn(d, U) => NoneIn(Append(d, w), U)
    <2> HIDE DEF H
    <2> QED BY AppendLast
<1> HIDE DEF G, H
<1>4. LastIn(c, T, G) => LastIn(Tail(c), T, G) \/ (NoneIn(Tail(c), T) /\ LastIn(Append(d, w), U, H))
    BY <1>1, <1>2, <1>3
<1>5. NoneIn(c, T) => /\ NoneIn(Tail(c), T)
                      /\ LastIn(d, U, H) => LastIn(Append(d, w), U, H)
                      /\ NoneIn(d, U) => NoneIn(Append(d, w), U)
    BY <1>1, <1>3
<1> QED BY <1>4, <1>5 DEF Reaches, Arriving, G, H

\* The half gets the first that is written to it.
LEMMA ArriveReaches ==
    ASSUME NEW t, NEW c, NEW d \in Seq(Written), d # <<>>, NEW T, NEW U, NEW known, NEW later, NEW v,
           Reaches(t, c, d, T, U, known, v),
           later = IF Head(d) \in U THEN Head(d).value ELSE known
    PROVE  Reaches(t, c, Tail(d), T, U, later, v)
<1> DEFINE H == Writes(v)
<1>1. /\ NoneIn(d, U) => NoneIn(Tail(d), U) /\ Head(d) \notin U
      /\ LastIn(d, U, H) => LastIn(Tail(d), U, H) \/ (NoneIn(Tail(d), U) /\ Head(d) \in U /\ Head(d) \in H)
    BY TailLast
<1>2. Head(d) \in H => Head(d).value = v
    BY DEF Writes
<1> QED BY <1>1, <1>2 DEF Reaches, Arriving

\* Something else is written to the half.
LEMMA ConcatReaches ==
    ASSUME NEW t, NEW c, NEW d \in Seq(Written), NEW T, NEW U, NEW known, NEW v,
           Reaches(t, c, d, T, U, known, v), NEW e \in Seq(Written), NoneIn(e, U)
    PROVE  Reaches(t, c, d \o e, T, U, known, v)
<1>1. NoneIn(d, U) => NoneIn(d \o e, U)
    BY ConcatNone
<1>2. LastIn(d, U, Writes(v)) => LastIn(d \o e, U, Writes(v))
    BY ConcatLast
<1> QED BY <1>1, <1>2 DEF Reaches, Arriving

\* The connection goes, with nothing of these on the air.
LEMMA ClearReaches ==
    ASSUME NEW t, NEW c, NEW d, NEW T, NEW U, NEW known, NEW v, Reaches(t, c, d, T, U, known, v), NoneIn(d, U)
    PROVE  Reaches(t, c, <<>>, T, U, known, v)
<1>1. NoneIn(<<>>, U)
    BY EmptyHasNone
<1>2. ~LastIn(d, U, Writes(v))
    BY DEF LastIn, NoneIn
<1> QED BY <1>1, <1>2 DEF Reaches, Arriving

\* Commands for each half of a set are about to be put.
LEMMA RowReaches ==
    ASSUME NEW row, NEW halves, NEW kind, NEW key, NEW value, IsRowOf(row, halves, kind, key, value),
           NEW p \in halves, NEW T,
           \A x \in Ordered : ((x.kind = kind /\ x.dest = p /\ x.key = key) => x \in T),
           \A x \in Ordered : x \in T => x.dest = p
    PROVE  LastIn(row, T, Orders(value))
<1>1. PICK n \in DOMAIN row : row[n].dest = p /\ \A m \in DOMAIN row : row[m].dest = p => m = n
    BY DEF IsRowOf
<1>2. /\ row \in Seq(Ordered) /\ DOMAIN row = 1 .. Len(row) /\ Len(row) \in Nat
      /\ \A m \in DOMAIN row : row[m].kind = kind /\ row[m].key = key /\ row[m].value = value
    BY LenProperties DEF IsRowOf
<1>3. \A m \in DOMAIN row : row[m] \in Ordered
    BY <1>2, ElementOfSeq
<1> DEFINE x == row[n]
<1>6. x \in Ordered /\ x.kind = kind /\ x.key = key /\ x.dest = p /\ x.value = value
    BY <1>1, <1>2, <1>3
<1> HIDE DEF x
<1>7. x \in T
    BY <1>6
<1>8. x \in Orders(value)
    BY <1>6 DEF Orders
<1>4. row[n] \in T /\ row[n] \in Orders(value)
    BY <1>7, <1>8 DEF x
<1>5. \A m \in DOMAIN row : m > n => row[m] \notin T
    BY <1>1, <1>2, <1>3
<1> QED BY <1>4, <1>5 DEF LastIn

\* Commands of another kind are about to be put.
LEMMA RowElsewhere ==
    ASSUME NEW row, NEW halves, NEW kind, NEW key, NEW value, IsRowOf(row, halves, kind, key, value), NEW T,
           \A x \in Ordered : x \in T => x.kind # kind \/ x.dest \notin halves \/ x.key # key
    PROVE  NoneIn(row, T)
<1>1. /\ row \in Seq(Ordered) /\ DOMAIN row = 1 .. Len(row) /\ Len(row) \in Nat
      /\ \A m \in DOMAIN row : row[m].dest \in halves /\ row[m].kind = kind /\ row[m].key = key
    BY LenProperties DEF IsRowOf
<1>2. \A m \in DOMAIN row : row[m] \in Ordered
    BY <1>1, ElementOfSeq
<1> QED BY <1>1, <1>2 DEF NoneIn

\* T and U are about half p, and are the same commands before and after they are written.
Matches(p, T, U) ==
    /\ \A x \in Ordered : x \in T => x.dest = p
    /\ \A x \in Ordered, w \in Written :
        x.dest = p /\ w.kind = x.kind /\ w.key = x.key /\ w.value = x.value => (x \in T <=> w \in U)
    /\ \A w \in Written : w \in U => w.kind \in {"leds", "run"}
StillComes(p, T, U, known, v) == Reaches(todo', commands', down'[p], T, U, known, v)

\* The halves whose air does not change, and those that something else is asked of.
LEMMA AskedReaches ==
    ASSUME Shape, NEW p \in GattHalves, NEW q \in GattHalves, NEW T, NEW U, NEW known, NEW v, Matches(p, T, U),
           Reaches(todo, commands, down[p], T, U, known, v), FindCharacteristic(q) \/ FindCpf(q) \/ Asked(q)
    PROVE  StillComes(p, T, U, known, v)
<1> USE DEF central_vars, event_vars, command_vars, half_vars, history_vars
<1>0. /\ down[p] \in Seq(Written) /\ down = [r \in GattHalves |-> down[r]] /\ down[q] \in Seq(Written)
      /\ UNCHANGED <<todo, commands>>
    BY AirFacts DEF FindCharacteristic, FindCpf, Asked
<1>1. ASSUME p # q, NEW d, down' = [down EXCEPT ![q] = d] PROVE StillComes(p, T, U, known, v)
    <2>1. down'[p] = down[p]
        BY <1>0, <1>1
    <2> QED BY <1>0, <2>1 DEF StillComes
<1>2. ASSUME NEW e \in Seq(Written), down' = [down EXCEPT ![q] = down[q] \o e], NoneIn(e, U)
      PROVE  StillComes(p, T, U, known, v)
    <2>1. CASE p = q
        <3>1. down'[p] = down[p] \o e
            BY <1>0, <1>2, <2>1
        <3>2. Reaches(todo, commands, down[p] \o e, T, U, known, v)
            BY <1>0, <1>2, ConcatReaches
        <3> QED BY <1>0, <3>1, <3>2 DEF StillComes
    <2>2. CASE p # q
        BY <1>1, <1>2, <2>2
    <2> QED BY <2>1, <2>2
<1>3. CASE FindCharacteristic(q)
    <2>1. PICK requests \in Requests(q) : down' = [down EXCEPT ![q] = down[q] \o requests]
        BY <1>3 DEF FindCharacteristic
    <2>2. requests \in Seq(Written)
        BY RequestTypes DEF Shape
    <2>3. \A n \in DOMAIN requests : requests[n] \in Written /\ requests[n].kind \in {"ccc", "read"}
        <3> DEFINE ccc == [kind |-> "ccc", chr |-> cursor[q].at, key |-> {}, value |-> 0]
                   read == [ccc EXCEPT !.kind = "read"]
        <3>1. ccc.kind = "ccc" /\ read.kind = "read"
            OBVIOUS
        <3>2. requests \in {<<ccc>>, <<ccc, read>>, <<read, ccc>>, <<>>}
            BY DEF Requests
        <3> HIDE DEF ccc, read
        <3>3. \A n \in DOMAIN requests : requests[n] \in {ccc, read}
            <4>1. CASE requests = <<ccc>>
                BY <4>1
            <4>2. CASE requests = <<ccc, read>>
                BY <4>2
            <4>3. CASE requests = <<read, ccc>>
                BY <4>3
            <4>4. CASE requests = <<>>
                BY <4>4
            <4> QED BY <3>2, <4>1, <4>2, <4>3, <4>4
        <3>4. \A n \in DOMAIN requests : requests[n] \in Written
            <4>1. DOMAIN requests = 1 .. Len(requests)
                BY <2>2, LenProperties
            <4> QED BY <2>2, <4>1, ElementOfSeq
        <3> QED BY <3>1, <3>3, <3>4
    <2>4. NoneIn(requests, U)
        BY <2>3 DEF NoneIn, Matches
    <2> QED BY <1>2, <2>1, <2>2, <2>4
<1>4. CASE FindCpf(q)
    <2>0. slots \in [InputSlots -> InputSlot]
        BY DEF Shape, CentralShape
    <2> DEFINE ask(i) == [kind |-> "ccc", chr |-> slots[i].ccc, key |-> {}, value |-> 0]
    <2>1. \/ down' = down
          \/ \E i \in InputSlots : down' = [down EXCEPT ![q] = Append(down[q], ask(i))]
        BY <1>4 DEF FindCpf, PendingSlot, FirstSlot
    <2>2. \A i \in InputSlots : ask(i) \in Written /\ ask(i).kind = "ccc"
        BY <2>0 DEF Written, InputSlot
    <2> HIDE DEF ask
    <2>3. ASSUME NEW x \in Written, x.kind = "ccc", down' = [down EXCEPT ![q] = Append(down[q], x)]
          PROVE  StillComes(p, T, U, known, v)
        <3>1. <<x>> \in Seq(Written) /\ Append(down[q], x) = down[q] \o <<x>>
            BY <1>0, AppendIsConcat
        <3>2. x \notin U
            BY <2>3 DEF Matches
        <3>3. NoneIn(<<x>>, U)
            BY <3>2 DEF NoneIn
        <3>4. down' = [down EXCEPT ![q] = down[q] \o <<x>>]
            BY <2>3, <3>1
        <3> QED BY <1>2, <3>1, <3>3, <3>4
    <2>4. CASE down' = down
        BY <1>0, <2>4 DEF StillComes
    <2> QED BY <2>1, <2>2, <2>3, <2>4
<1>5. CASE Asked(q)
    <2>1. /\ down[q] # <<>> /\ down' = [down EXCEPT ![q] = Tail(down[q])]
          /\ Head(down[q]).kind \in {"ccc", "read"}
        BY <1>5 DEF Asked, Arrives
    <2>2. CASE p = q
        <3>1. Head(down[p]) \in Written
            BY <1>0, <2>1, <2>2, HeadTailProperties
        <3>2. Head(down[p]) \notin U
            BY <2>1, <2>2, <3>1 DEF Matches
        <3>3. Reaches(todo, commands, Tail(down[p]), T, U, known, v)
            BY <1>0, <2>1, <2>2, <3>2, ArriveReaches
        <3>4. down'[p] = Tail(down[p])
            BY <1>0, <2>1, <2>2
        <3> QED BY <1>0, <3>3, <3>4 DEF StillComes
    <2>3. CASE p # q
        BY <1>1, <2>1, <2>3
    <2> QED BY <2>2, <2>3
<1> QED BY <1>3, <1>4, <1>5

\* The commands go through their queue.
LEMMA QueueReaches ==
    ASSUME Shape, NEW p \in GattHalves, NEW T, NEW U, NEW known, NEW v, Matches(p, T, U),
           Reaches(todo, commands, down[p], T, U, known, v),
           \/ PutCommand \/ RunCommand
           \/ /\ Overtaken \/ DropCommand
              /\ Head(commands) \notin T \/ ~NoneIn(Tail(commands) \o todo, T)
    PROVE  StillComes(p, T, U, known, v)
<1> USE DEF central_vars, event_vars, command_vars, half_vars, history_vars
<1>0. /\ down[p] \in Seq(Written) /\ down = [r \in GattHalves |-> down[r]]
      /\ todo \in Seq(Ordered) /\ commands \in Seq(Ordered)
    BY AirFacts DEF Shape, CommandShape
<1>1. CASE PutCommand
    <2>1. /\ todo # <<>> /\ todo' = Tail(todo) /\ commands' = Append(commands, Head(todo)) /\ down' = down
        BY <1>1 DEF PutCommand
    <2> QED BY <1>0, <2>1, PutReaches DEF StillComes
<1>2. ASSUME commands # <<>>, Head(commands) \notin T \/ ~NoneIn(Tail(commands) \o todo, T)
      PROVE  Reaches(todo, Tail(commands), down[p], T, U, known, v) /\ Tail(commands) \in Seq(Ordered)
    BY <1>0, <1>2, DropReaches, HeadTailProperties
<1>3. CASE Overtaken /\ (Head(commands) \notin T \/ ~NoneIn(Tail(commands) \o todo, T))
    <2>1. /\ todo # <<>> /\ todo' = Tail(todo) /\ commands' = Append(Tail(commands), Head(todo)) /\ down' = down
          /\ Len(commands) = CommandQueue
        BY <1>3 DEF Overtaken
    <2>2. commands # <<>>
        BY <2>1, GattAssumption, EmptySeq
    <2> QED BY <1>0, <1>2, <1>3, <2>1, <2>2, PutReaches DEF StillComes
<1>4. CASE DropCommand /\ (Head(commands) \notin T \/ ~NoneIn(Tail(commands) \o todo, T))
    <2>1. commands # <<>> /\ todo' = todo /\ commands' = Tail(commands) /\ down' = down
        BY <1>4 DEF DropCommand
    <2> QED BY <1>2, <1>4, <2>1 DEF StillComes
<1>5. CASE RunCommand
    <2> DEFINE c == Head(commands)
               w == [kind |-> c.kind, chr |-> 0, key |-> c.key, value |-> c.value]
    <2>1. /\ commands # <<>> /\ commands' = Tail(commands) /\ todo' = todo
          /\ down' = [down EXCEPT ![c.dest] = Append(down[c.dest], w)]
        BY <1>5 DEF RunCommand
    <2>2. c \in Ordered
        BY <1>0, <2>1, HeadTailProperties
    <2>3. w \in Written /\ w.kind = c.kind /\ w.key = c.key /\ w.value = c.value /\ c.dest \in GattHalves
        BY <2>2 DEF Ordered, Written
    <2>4. CASE c.dest = p
        <3>1. c \in T <=> w \in U
            BY <2>2, <2>3, <2>4 DEF Matches
        <3>2. down'[p] = Append(down[p], w)
            BY <1>0, <2>1, <2>4
        <3>3. Reaches(todo, Tail(commands), Append(down[p], w), T, U, known, v)
            <4> HIDE DEF w
            <4> QED BY <1>0, <2>1, <2>3, <3>1, RunReaches
        <3> QED BY <2>1, <3>2, <3>3 DEF StillComes
    <2>5. CASE c.dest # p
        <3>1. c \notin T
            BY <2>2, <2>5 DEF Matches
        <3>2. down'[p] = down[p]
            BY <1>0, <2>1, <2>5
        <3> QED BY <1>2, <2>1, <3>1, <3>2 DEF StillComes
    <2> QED BY <2>4, <2>5
<1> QED BY <1>1, <1>3, <1>4, <1>5
-----------------------------------------------------------------------------
(* The lights of the halves that must get to know them.                     *)
TellOf(p) == {x \in Ordered : x.kind = "leds" /\ x.dest = p}
TellAt == {w \in Written : w.kind = "leds"}
LightsOf(p, value) == Reaches(todo, commands, down[p], TellOf(p), TellAt, hid_lights[p], value)
LightsKept ==
    /\ \A p \in GattHalves : show_work[p] \/ shown[p] = hid_lights[p]
    /\ led_work \/ \A p \in owed : LightsOf(p, lights[gatt_selected])

LEMMA TellMatches == ASSUME NEW p \in GattHalves PROVE Matches(p, TellOf(p), TellAt)
<1>1. \A x \in Ordered : x \in TellOf(p) <=> (x.kind = "leds" /\ x.dest = p)
    BY DEF TellOf
<1>2. \A w \in Written : w \in TellAt <=> w.kind = "leds"
    BY DEF TellAt
<1> QED BY <1>1, <1>2 DEF Matches


\* They are told.
LEMMA LightsTold ==
    ASSUME Shape, NEW value \in {0, 1}, Tell(value), NEW p \in owed'
    PROVE  p \in GattHalves /\ Reaches(todo', commands', down'[p], TellOf(p), TellAt, hid_lights'[p], value)
<1>1. IsRowOf(todo', Available, "leds", {}, value) /\ p \in Available
    BY ToldTheLights
<1>2. p \in GattHalves
    BY <1>1 DEF Available
<1>3. \A x \in Ordered : (x.kind = "leds" /\ x.dest = p /\ x.key = {}) => x \in TellOf(p)
    BY DEF TellOf
<1>5. \A x \in Ordered : x \in TellOf(p) => x.dest = p
    BY DEF TellOf
<1>4. LastIn(todo', TellOf(p), Orders(value))
    BY <1>1, <1>3, <1>5, RowReaches
<1> QED BY <1>2, <1>4 DEF Reaches

\* The steps that tell nothing new.
LEMMA LightsStillCome ==
    ASSUME Shape, [GattNext]_gatt_vars, LightsKept, ~led_work', NEW p \in owed',
           ~LedsChanged, \A e \in Endpoints : ~SelectEndpoint(e)
    PROVE  /\ p \in GattHalves /\ lights'[gatt_selected'] = lights[gatt_selected]
           /\ Reaches(todo', commands', down'[p], TellOf(p), TellAt, hid_lights'[p], lights[gatt_selected])
<1> USE DEF central_vars, event_vars, command_vars, half_vars, history_vars
<1> DEFINE value == lights[gatt_selected]
           Goal == /\ p \in GattHalves /\ lights'[gatt_selected'] = value
                   /\ Reaches(todo', commands', down'[p], TellOf(p), TellAt, hid_lights'[p], value)
<1>0. owed \subseteq GattHalves
    BY DEF Shape, HistoryShape
<1>1. ASSUME ~led_work, p \in owed
      PROVE  /\ p \in GattHalves /\ LightsOf(p, value) /\ Matches(p, TellOf(p), TellAt)
             /\ Reaches(todo, commands, down[p], TellOf(p), TellAt, hid_lights[p], value)
    BY <1>0, <1>1, TellMatches DEF LightsKept, LightsOf
<1>2. ASSUME UNCHANGED <<todo, commands, down, hid_lights, led_work, owed, lights, gatt_selected>> PROVE Goal
    BY <1>1, <1>2
<1>3. ASSUME NEW q \in GattHalves,
             \/ GattConnected(q) \/ FindService(q) \/ FindInput(q) \/ FindCcc(q) \/ Turn(q) \/ SendTurn(q)
             \/ Drain(q) \/ ShowLights(q) \/ GattNotified(q) \/ \E k \in IndexOf(q, "input") : Move(q, k)
      PROVE  Goal
    <2>1. UNCHANGED <<todo, commands, down, hid_lights, led_work, owed, lights, gatt_selected>>
        BY <1>3 DEF GattConnected, FindService, FindInput, FindCcc, Turn, SendTurn, Drain, ShowLights, GattNotified,
           Move
    <2> QED BY <1>2, <2>1
<1>4. ASSUME UNCHANGED gatt_vars \/ HostConnected \/ HostDisconnected \/ RaiseSensor \/ RaiseInput \/ RaiseLevel
      PROVE  Goal
    <2>1. UNCHANGED <<todo, commands, down, hid_lights, led_work, owed, lights, gatt_selected>>
        BY <1>4 DEF gatt_vars, HostConnected, HostDisconnected, RaiseSensor, RaiseInput, RaiseLevel
    <2> QED BY <1>2, <2>1
<1>5. ASSUME NEW q \in GattHalves, FindCharacteristic(q) \/ FindCpf(q) \/ Asked(q) PROVE Goal
    <2>1. UNCHANGED <<hid_lights, led_work, owed, lights, gatt_selected>>
        BY <1>5 DEF FindCharacteristic, FindCpf, Asked
    <2>2. StillComes(p, TellOf(p), TellAt, hid_lights[p], value)
        BY <1>1, <1>5, <2>1, AskedReaches
    <2> QED BY <1>1, <2>1, <2>2 DEF StillComes
<1>6. ASSUME PutCommand \/ RunCommand PROVE Goal
    <2>1. UNCHANGED <<hid_lights, led_work, owed, lights, gatt_selected>>
        BY <1>6 DEF PutCommand, RunCommand
    <2>2. StillComes(p, TellOf(p), TellAt, hid_lights[p], value)
        BY <1>1, <1>6, <2>1, QueueReaches
    <2> QED BY <1>1, <2>1, <2>2 DEF StillComes
<1>7. ASSUME Overtaken \/ DropCommand PROVE Goal
    <2> DEFINE c == Head(commands)
               rest == Tail(commands) \o todo
    <2>1. /\ UNCHANGED <<hid_lights, led_work, lights, gatt_selected>> /\ owed' = StillOwed(c, rest)
        BY <1>7 DEF Overtaken, DropCommand
    <2>2. commands \in Seq(Ordered) /\ todo \in Seq(Ordered) /\ commands # <<>>
        <3>1. commands \in Seq(Ordered) /\ todo \in Seq(Ordered)
            BY DEF Shape, CommandShape
        <3>2. Len(commands) = CommandQueue \/ commands # <<>>
            BY <1>7 DEF Overtaken, DropCommand
        <3> QED BY <3>1, <3>2, GattAssumption, EmptySeq
    <2>3. rest \in Seq(Ordered) /\ c \in Ordered
        BY <2>2, HeadTailProperties, ConcatProperties
    <2> HIDE DEF c, rest
    <2>4. p \in owed /\ ~(c.kind = "leds" /\ c.dest = p /\ \A x \in Range(rest) : ~(x.kind = "leds" /\ x.dest = c.dest))
        BY <2>1 DEF StillOwed
    <2>5. c \notin TellOf(p) \/ ~NoneIn(rest, TellOf(p))
        <3>1. CASE ~(c.kind = "leds" /\ c.dest = p)
            BY <3>1 DEF TellOf
        <3>2. CASE c.kind = "leds" /\ c.dest = p
            <4>1. PICK x \in Range(rest) : x.kind = "leds" /\ x.dest = p
                BY <2>4, <3>2
            <4>2. PICK n \in DOMAIN rest : rest[n] = x
                BY DEF Range
            <4>3. x \in Ordered
                <5>1. DOMAIN rest = 1 .. Len(rest)
                    BY <2>3, LenProperties
                <5> QED BY <2>3, <4>2, <5>1, ElementOfSeq
            <4>4. x \in TellOf(p)
                BY <4>1, <4>3 DEF TellOf
            <4> QED BY <4>2, <4>4 DEF NoneIn
        <3> QED BY <3>1, <3>2
    <2>6. StillComes(p, TellOf(p), TellAt, hid_lights[p], value)
        BY <1>1, <1>7, <2>1, <2>4, <2>5, QueueReaches DEF c, rest
    <2> QED BY <1>1, <2>1, <2>4, <2>6 DEF StillComes
<1>8. ASSUME NEW q \in GattHalves, GattLoss(q) \/ Restart(q) PROVE Goal
    <2>1. /\ Lose(q) /\ UNCHANGED <<todo, commands, led_work, lights, gatt_selected>> /\ owed' = owed \ {q}
        BY <1>8 DEF GattLoss, Restart, Lose
    <2>2. hid_lights'[p] = hid_lights[p] /\ down'[p] = down[p]
        <3>1. p \in GattHalves \ {q}
            BY <1>0, <2>1
        <3>2. hid_lights' = hid_lights \/ hid_lights' = [hid_lights EXCEPT ![q] = 0]
            BY <1>8 DEF GattLoss, Restart
        <3>3. hid_lights \in [GattHalves -> {0, 1}]
            BY DEF Shape, HalfShape
        <3> QED BY <2>1, <3>1, <3>2, <3>3, ShapeLose
    <2> QED BY <1>1, <2>1, <2>2
<1>9. ASSUME NEW q \in GattHalves, RunBehavior(q) \/ UpdateIndicators(q) PROVE Goal
    <2>1. /\ UNCHANGED <<todo, commands, led_work, lights, gatt_selected, owed>>
          /\ down[q] # <<>> /\ down' = [down EXCEPT ![q] = Tail(down[q])]
          /\ \/ Head(down[q]).kind = "run" /\ hid_lights' = hid_lights
             \/ Head(down[q]).kind = "leds" /\ hid_lights' = [hid_lights EXCEPT ![q] = Head(down[q]).value]
        BY <1>9 DEF RunBehavior, UpdateIndicators, Arrives
    <2>2. /\ down = [r \in GattHalves |-> down[r]] /\ down[q] \in Seq(Written)
          /\ hid_lights \in [GattHalves -> {0, 1}] /\ p \in GattHalves
        BY <1>0, <2>1, AirFacts DEF Shape, HalfShape
    <2>3. CASE p = q
        <3>1. Head(down[p]) \in Written
            BY <2>1, <2>2, <2>3, HeadTailProperties
        <3>2. Head(down[p]) \in TellAt <=> Head(down[p]).kind = "leds"
            BY <3>1 DEF TellAt
        <3>3. hid_lights'[p] = IF Head(down[p]) \in TellAt THEN Head(down[p]).value ELSE hid_lights[p]
            BY <2>1, <2>2, <2>3, <3>2
        <3>4. Reaches(todo, commands, Tail(down[p]), TellOf(p), TellAt, hid_lights'[p], value)
            BY <1>1, <2>1, <2>2, <2>3, <3>3, ArriveReaches
        <3>5. down'[p] = Tail(down[p])
            BY <2>1, <2>2, <2>3
        <3> QED BY <2>1, <2>2, <3>4, <3>5
    <2>4. CASE p # q
        <3>1. down'[p] = down[p] /\ hid_lights'[p] = hid_lights[p]
            BY <2>1, <2>2, <2>4
        <3> QED BY <1>1, <2>1, <3>1
    <2> QED BY <2>3, <2>4
<1>10. ASSUME NEW key \in SUBSET GattHalves, Press(key) PROVE Goal
    <2>1. /\ todo = <<>> /\ UNCHANGED <<commands, down, hid_lights, led_work, lights, gatt_selected, owed>>
          /\ Invoke(key, key \notin pressed)
        BY <1>10 DEF Press, Free
    <2>2. IsRowOf(todo', key, "run", key, IF key \notin pressed THEN 1 ELSE 0)
        BY <2>1, InvokedOnHalves
    <2>3. NoneIn(todo', TellOf(p))
        <3>1. \A x \in Ordered : x \in TellOf(p) => x.kind # "run"
            BY DEF TellOf
        <3> QED BY <2>2, <3>1, RowElsewhere
    <2>4. NoneIn(todo, TellOf(p)) /\ ~LastIn(todo, TellOf(p), Orders(value))
        BY <2>1, EmptyHasNone DEF LastIn, NoneIn
    <2>5. LastIn(commands, TellOf(p), Orders(value))
          \/ (NoneIn(commands, TellOf(p)) /\ Arriving(down[p], TellAt, hid_lights[p], value))
        BY <1>1, <2>1, <2>4 DEF Reaches
    <2> QED BY <1>1, <2>1, <2>3, <2>5 DEF Reaches
<1>11. ASSUME NEW e \in Endpoints, NEW l \in {0, 1}, HostLights(e, l) PROVE Goal
    BY <1>11 DEF HostLights
<1>12. CASE GattNext
    <2>1. GattHalves \in SUBSET GattHalves /\ \A q \in GattHalves : {q} \in SUBSET GattHalves
        OBVIOUS
    <2> HIDE DEF Goal
    <2>2. Goal
        BY <1>3, <1>4, <1>5, <1>6, <1>7, <1>8, <1>9, <1>10, <1>11, <1>12, <2>1 DEF GattNext, Internal
    <2> QED BY <2>2 DEF Goal
<1> QED BY <1>4, <1>12

LEMMA LightsInit == GattInit => LightsKept
BY DEF GattInit, LightsKept

LEMMA LightsStep == Shape /\ LightsKept /\ [GattNext]_gatt_vars => LightsKept'
<1> SUFFICES ASSUME Shape, LightsKept, [GattNext]_gatt_vars PROVE LightsKept'
    OBVIOUS
<1> USE DEF central_vars, event_vars, command_vars, half_vars, history_vars
<1>1. ASSUME ~led_work', NEW p \in owed' PROVE LightsOf(p, lights[gatt_selected])'
    <2> SUFFICES Reaches(todo', commands', down'[p], TellOf(p), TellAt, hid_lights'[p], lights'[gatt_selected'])
        BY DEF LightsOf, TellOf, TellAt, Ordered, Written
    <2>0. lights \in [Endpoints -> {0, 1}] /\ gatt_selected \in Endpoints
        BY DEF Shape, CommandShape
    <2>1. CASE LedsChanged
        <3>1. Tell(lights[gatt_selected]) /\ UNCHANGED <<lights, gatt_selected>> /\ lights[gatt_selected] \in {0, 1}
            BY <2>0, <2>1 DEF LedsChanged
        <3> QED BY <1>1, <3>1, LightsTold
    <2>2. ASSUME NEW e \in Endpoints, SelectEndpoint(e)
          PROVE  Reaches(todo', commands', down'[p], TellOf(p), TellAt, hid_lights'[p], lights'[gatt_selected'])
        <3>1. Tell(lights[e]) /\ lights' = lights /\ gatt_selected' = e /\ lights[e] \in {0, 1}
            BY <2>0, <2>2 DEF SelectEndpoint
        <3> QED BY <1>1, <3>1, LightsTold
    <2>3. ASSUME ~LedsChanged, \A e \in Endpoints : ~SelectEndpoint(e)
          PROVE  Reaches(todo', commands', down'[p], TellOf(p), TellAt, hid_lights'[p], lights'[gatt_selected'])
        BY <1>1, <2>3, LightsStillCome
    <2> QED BY <2>1, <2>2, <2>3
<1>2. ASSUME NEW p \in GattHalves PROVE show_work'[p] \/ shown'[p] = hid_lights'[p]
    <2>0. /\ show_work \in [GattHalves -> BOOLEAN] /\ shown \in [GattHalves -> {0, 1}]
          /\ hid_lights \in [GattHalves -> {0, 1}] /\ (show_work[p] \/ shown[p] = hid_lights[p])
        BY DEF Shape, HalfShape, LightsKept
    <2>1. ASSUME NEW q \in GattHalves, ShowLights(q) PROVE show_work'[p] \/ shown'[p] = hid_lights'[p]
        BY <2>0, <2>1 DEF ShowLights
    <2>2. ASSUME NEW q \in GattHalves, UpdateIndicators(q) PROVE show_work'[p] \/ shown'[p] = hid_lights'[p]
        BY <2>0, <2>2 DEF UpdateIndicators
    <2>3. ASSUME NEW q \in GattHalves, Restart(q) PROVE show_work'[p] \/ shown'[p] = hid_lights'[p]
        BY <2>0, <2>3 DEF Restart
    <2>4. ASSUME UNCHANGED <<show_work, shown, hid_lights>> PROVE show_work'[p] \/ shown'[p] = hid_lights'[p]
        BY <2>0, <2>4
    <2>5. ASSUME NEW q \in GattHalves,
                 \/ GattConnected(q) \/ FindService(q) \/ FindCharacteristic(q) \/ FindInput(q) \/ FindCcc(q)
                 \/ FindCpf(q) \/ Turn(q) \/ SendTurn(q) \/ Drain(q) \/ Asked(q) \/ RunBehavior(q) \/ GattNotified(q)
                 \/ GattLoss(q) \/ \E k \in IndexOf(q, "input") : Move(q, k)
          PROVE  show_work'[p] \/ shown'[p] = hid_lights'[p]
        BY <2>0, <2>5 DEF GattConnected, FindService, FindCharacteristic, FindInput, FindCcc, FindCpf, Turn,
           SendTurn, Drain, Asked, RunBehavior, GattNotified, GattLoss, Move
    <2>6. ASSUME \/ HostConnected \/ HostDisconnected \/ RaiseSensor \/ RaiseInput \/ RaiseLevel
                 \/ LedsChanged \/ PutCommand \/ Overtaken \/ RunCommand \/ DropCommand
                 \/ \E key \in SUBSET GattHalves : Press(key)
                 \/ \E e \in Endpoints : SelectEndpoint(e) \/ \E value \in {0, 1} : HostLights(e, value)
          PROVE  show_work'[p] \/ shown'[p] = hid_lights'[p]
        BY <2>0, <2>6 DEF HostConnected, HostDisconnected, RaiseSensor, RaiseInput, RaiseLevel, LedsChanged,
           PutCommand, Overtaken, RunCommand, DropCommand, Press, SelectEndpoint, HostLights
    <2>7. CASE GattNext
        <3>1. GattHalves \in SUBSET GattHalves /\ \A q \in GattHalves : {q} \in SUBSET GattHalves
            OBVIOUS
        <3> QED BY <2>1, <2>2, <2>3, <2>5, <2>6, <2>7, <3>1 DEF GattNext, Internal
    <2>8. CASE UNCHANGED gatt_vars
        BY <2>4, <2>8 DEF gatt_vars
    <2> QED BY <2>7, <2>8
<1>3. (\A p \in GattHalves : show_work[p] \/ shown[p] = hid_lights[p])'
    BY <1>2
<1>4. (led_work \/ \A p \in owed : LightsOf(p, lights[gatt_selected]))'
    BY <1>1
<1> QED BY <1>3, <1>4 DEF LightsKept
-----------------------------------------------------------------------------
(* The behaviors that are pressed on a half.                                 *)
RunOf(p, key) == {x \in Ordered : x.kind = "run" /\ x.dest = p /\ x.key = key}
RunAt(key) == {w \in Written : w.kind = "run" /\ w.key = key}
Wanted(p, key) == IF key \in pressed /\ p \in key THEN 1 ELSE 0
HeldValue(p, key) == IF key \in held[p] THEN 1 ELSE 0
HeldRight(p, key) ==
    Reaches(todo, commands, down[p], RunOf(p, key), RunAt(key), HeldValue(p, key), Wanted(p, key))
HeldSoon(p) == <<p, "run">> \in gatt_lost \/ \A key \in SUBSET GattHalves : HeldRight(p, key)
HeldKept == \A p \in GattHalves : HeldSoon(p)

LEMMA RunMatches ==
    ASSUME NEW p \in GattHalves, NEW key PROVE Matches(p, RunOf(p, key), RunAt(key))
<1>1. \A x \in Ordered : x \in RunOf(p, key) <=> (x.kind = "run" /\ x.dest = p /\ x.key = key)
    BY DEF RunOf
<1>2. \A w \in Written : w \in RunAt(key) <=> (w.kind = "run" /\ w.key = key)
    BY DEF RunAt
<1> QED BY <1>1, <1>2 DEF Matches

LEMMA HeldInit == GattInit => HeldKept
<1> SUFFICES ASSUME GattInit, NEW p \in GattHalves, NEW key \in SUBSET GattHalves PROVE HeldRight(p, key)
    BY DEF HeldKept, HeldSoon
<1>1. todo = <<>> /\ commands = <<>> /\ down[p] = <<>> /\ HeldValue(p, key) = 0 /\ Wanted(p, key) = 0
    BY DEF GattInit, HeldValue, Wanted
<1>2. \A T : NoneIn(<<>>, T)
    BY EmptyHasNone
<1> QED BY <1>1, <1>2 DEF HeldRight, Reaches, Arriving

HeldNext(p, key) ==
    Reaches(todo', commands', down'[p], RunOf(p, key), RunAt(key), HeldValue(p, key)', Wanted(p, key)')

LEMMA HeldComes ==
    ASSUME Shape, HeldKept, [GattNext]_gatt_vars, NEW p \in GattHalves, NEW key \in SUBSET GattHalves,
           <<p, "run">> \notin gatt_lost'
    PROVE  HeldNext(p, key)
<1> USE DEF central_vars, event_vars, command_vars, half_vars, history_vars
<1>1. /\ Reaches(todo, commands, down[p], RunOf(p, key), RunAt(key), HeldValue(p, key), Wanted(p, key))
      /\ Matches(p, RunOf(p, key), RunAt(key)) /\ gatt_lost \subseteq gatt_lost'
    BY OnlyMoreIsLost, RunMatches DEF HeldKept, HeldSoon, HeldRight
<1>2. ASSUME UNCHANGED <<pressed, held>>, StillComes(p, RunOf(p, key), RunAt(key), HeldValue(p, key), Wanted(p, key))
      PROVE  HeldNext(p, key)
    <2>1. HeldValue(p, key)' = HeldValue(p, key) /\ Wanted(p, key)' = Wanted(p, key)
        BY <1>2 DEF HeldValue, Wanted
    <2> QED BY <1>2, <2>1 DEF StillComes, HeldNext
<1>3. ASSUME UNCHANGED <<todo, commands, down, held, pressed>> PROVE HeldNext(p, key)
    BY <1>1, <1>2, <1>3 DEF StillComes
<1>4. ASSUME NEW q \in GattHalves,
             \/ GattConnected(q) \/ FindService(q) \/ FindInput(q) \/ FindCcc(q) \/ Turn(q) \/ SendTurn(q)
             \/ Drain(q) \/ ShowLights(q) \/ GattNotified(q) \/ \E k \in IndexOf(q, "input") : Move(q, k)
      PROVE  HeldNext(p, key)
    <2>1. UNCHANGED <<todo, commands, down, held, pressed>>
        BY <1>4 DEF GattConnected, FindService, FindInput, FindCcc, Turn, SendTurn, Drain, ShowLights, GattNotified,
           Move
    <2> QED BY <1>3, <2>1
<1>5. ASSUME \/ UNCHANGED gatt_vars \/ HostConnected \/ HostDisconnected \/ RaiseSensor \/ RaiseInput \/ RaiseLevel
             \/ \E e \in Endpoints : \E value \in {0, 1} : HostLights(e, value)
      PROVE  HeldNext(p, key)
    <2>1. UNCHANGED <<todo, commands, down, held, pressed>>
        BY <1>5 DEF gatt_vars, HostConnected, HostDisconnected, RaiseSensor, RaiseInput, RaiseLevel, HostLights
    <2> QED BY <1>3, <2>1
<1>6. ASSUME NEW q \in GattHalves, FindCharacteristic(q) \/ FindCpf(q) \/ Asked(q) PROVE HeldNext(p, key)
    <2>1. UNCHANGED <<held, pressed>>
        BY <1>6 DEF FindCharacteristic, FindCpf, Asked
    <2> QED BY <1>1, <1>2, <1>6, <2>1, AskedReaches
<1>7. ASSUME PutCommand \/ RunCommand PROVE HeldNext(p, key)
    <2>1. UNCHANGED <<held, pressed>>
        BY <1>7 DEF PutCommand, RunCommand
    <2> QED BY <1>1, <1>2, <1>7, <2>1, QueueReaches
<1>8. ASSUME Overtaken \/ DropCommand PROVE HeldNext(p, key)
    <2>1. UNCHANGED <<held, pressed>> /\ <<Head(commands).dest, Head(commands).kind>> \in gatt_lost'
        BY <1>8 DEF Overtaken, DropCommand
    <2>2. Head(commands) \notin RunOf(p, key)
        BY <2>1 DEF RunOf
    <2> QED BY <1>1, <1>2, <1>8, <2>1, <2>2, QueueReaches
<1>9. ASSUME NEW q \in GattHalves, GattLoss(q) \/ Restart(q) PROVE HeldNext(p, key)
    <2>1. /\ Lose(q) /\ UNCHANGED <<todo, commands, pressed>> /\ InFlight(q) \subseteq gatt_lost'
          /\ held' = held \/ (held' = [held EXCEPT ![q] = {}] /\ <<q, "run">> \in gatt_lost')
        BY <1>9 DEF GattLoss, Restart, Lose
    <2>2. held'[p] = held[p]
        <3>1. held \in [GattHalves -> SUBSET SUBSET GattHalves]
            BY DEF Shape, HalfShape
        <3> QED BY <2>1, <3>1
    <2>3. HeldValue(p, key)' = HeldValue(p, key) /\ Wanted(p, key)' = Wanted(p, key)
        BY <2>1, <2>2 DEF HeldValue, Wanted
    <2>4. CASE p = q
        <3>1. NoneIn(down[p], RunAt(key))
            <4> SUFFICES ASSUME NEW n \in DOMAIN down[p], down[p][n] \in RunAt(key) PROVE FALSE
                BY DEF NoneIn
            <4>1. down[p][n].kind = "run" /\ down[p][n] \in Range(down[p])
                BY DEF RunAt, Range
            <4>2. <<p, "run">> \in InFlight(p)
                BY <4>1 DEF InFlight
            <4> QED BY <2>1, <2>4, <4>2
        <3>2. down'[p] = <<>>
            BY <2>1, <2>4, ShapeLose
        <3>3. Reaches(todo, commands, <<>>, RunOf(p, key), RunAt(key), HeldValue(p, key), Wanted(p, key))
            BY <1>1, <3>1, ClearReaches
        <3> QED BY <2>1, <2>3, <3>2, <3>3 DEF HeldNext
    <2>5. CASE p # q
        <3>1. down'[p] = down[p]
            BY <2>1, <2>5, ShapeLose
        <3> QED BY <1>1, <2>1, <2>3, <3>1 DEF HeldNext
    <2> QED BY <2>4, <2>5
<1>10. ASSUME NEW q \in GattHalves, RunBehavior(q) \/ UpdateIndicators(q) PROVE HeldNext(p, key)
    <2>1. /\ UNCHANGED <<todo, commands, pressed>>
          /\ down[q] # <<>> /\ down' = [down EXCEPT ![q] = Tail(down[q])]
          /\ \/ Head(down[q]).kind = "leds" /\ held' = held
             \/ /\ Head(down[q]).kind = "run"
                /\ held' = [held EXCEPT ![q] = IF Head(down[q]).value = 1 THEN held[q] \cup {Head(down[q]).key}
                                               ELSE held[q] \ {Head(down[q]).key}]
        BY <1>10 DEF RunBehavior, UpdateIndicators, Arrives
    <2>2. /\ down = [r \in GattHalves |-> down[r]] /\ down[q] \in Seq(Written)
          /\ held \in [GattHalves -> SUBSET SUBSET GattHalves]
        BY <2>1, AirFacts DEF Shape, HalfShape
    <2>3. Wanted(p, key)' = Wanted(p, key)
        BY <2>1 DEF Wanted
    <2>4. CASE p = q
        <3> DEFINE x == Head(down[p])
        <3>1. x \in Written
            BY <2>1, <2>2, <2>4, HeadTailProperties
        <3>2. x \in RunAt(key) <=> (x.kind = "run" /\ x.key = key)
            BY <3>1 DEF RunAt
        <3>3. x.value \in {0, 1}
            BY <3>1 DEF Written
        <3>4. \/ x.kind = "leds" /\ held'[p] = held[p]
              \/ x.kind = "run" /\ x.value = 1 /\ held'[p] = held[p] \cup {x.key}
              \/ x.kind = "run" /\ x.value # 1 /\ held'[p] = held[p] \ {x.key}
            BY <2>1, <2>2, <2>4
        <3> HIDE DEF x
        <3>5. HeldValue(p, key)' = IF x \in RunAt(key) THEN x.value ELSE HeldValue(p, key)
            BY <3>2, <3>3, <3>4 DEF HeldValue
        <3>6. Reaches(todo, commands, Tail(down[p]), RunOf(p, key), RunAt(key), HeldValue(p, key)', Wanted(p, key))
            BY <1>1, <2>1, <2>2, <2>4, <3>5, ArriveReaches DEF x
        <3>7. down'[p] = Tail(down[p])
            BY <2>1, <2>2, <2>4
        <3> QED BY <2>1, <2>3, <3>6, <3>7 DEF HeldNext
    <2>5. CASE p # q
        <3>1. down'[p] = down[p] /\ held'[p] = held[p]
            BY <2>1, <2>2, <2>5
        <3>2. HeldValue(p, key)' = HeldValue(p, key)
            BY <3>1 DEF HeldValue
        <3> QED BY <1>1, <2>1, <2>3, <3>1, <3>2 DEF HeldNext
    <2> QED BY <2>4, <2>5
<1>11. ASSUME todo = <<>>, NoneIn(todo', RunOf(p, key)), UNCHANGED <<commands, down, held>>,
              Wanted(p, key)' = Wanted(p, key)
       PROVE  HeldNext(p, key)
    <2>1. HeldValue(p, key)' = HeldValue(p, key)
        BY <1>11 DEF HeldValue
    <2>2. NoneIn(todo, RunOf(p, key)) /\ ~LastIn(todo, RunOf(p, key), Orders(Wanted(p, key)))
        BY <1>11, EmptyHasNone DEF LastIn, NoneIn
    <2> QED BY <1>1, <1>11, <2>1, <2>2 DEF Reaches, HeldNext
<1>12. ASSUME LedsChanged \/ \E e \in Endpoints : SelectEndpoint(e) PROVE HeldNext(p, key)
    <2>1. /\ todo = <<>> /\ UNCHANGED <<commands, down, held, pressed>>
          /\ \E value \in {0, 1} : Tell(value)
        <3>1. lights \in [Endpoints -> {0, 1}] /\ gatt_selected \in Endpoints
            BY DEF Shape, CommandShape
        <3> QED BY <1>12, <3>1 DEF LedsChanged, SelectEndpoint, Free
    <2>2. \E value \in {0, 1} : IsRowOf(todo', Available, "leds", {}, value)
        BY <2>1, ToldTheLights
    <2>3. \A x \in Ordered : x \in RunOf(p, key) => x.kind # "leds"
        BY DEF RunOf
    <2>4. NoneIn(todo', RunOf(p, key))
        BY <2>2, <2>3, RowElsewhere
    <2>5. Wanted(p, key)' = Wanted(p, key)
        BY <2>1 DEF Wanted
    <2> QED BY <1>11, <2>1, <2>4, <2>5
<1>13. ASSUME NEW k \in SUBSET GattHalves, Press(k) PROVE HeldNext(p, key)
    <2> DEFINE value == IF k \notin pressed THEN 1 ELSE 0
    <2>1. /\ todo = <<>> /\ UNCHANGED <<commands, down, held>> /\ Invoke(k, k \notin pressed)
          /\ pressed' = SymDiff(pressed, {k})
        BY <1>13 DEF Press, Free
    <2>2. IsRowOf(todo', k, "run", k, value)
        BY <2>1, InvokedOnHalves
    <2>3. pressed' = (pressed \cup {k}) \ (pressed \cap {k})
        BY <2>1 DEF SymDiff
    <2>4. \A x \in Ordered : x \in RunOf(p, key) <=> (x.kind = "run" /\ x.dest = p /\ x.key = key)
        BY DEF RunOf
    <2>5. CASE k = key /\ p \in key
        <3>1. Wanted(p, key)' = value
            BY <2>3, <2>5 DEF Wanted
        <3> HIDE DEF value
        <3>2. LastIn(todo', RunOf(p, key), Orders(value))
            BY <2>2, <2>4, <2>5, RowReaches
        <3> QED BY <3>1, <3>2 DEF HeldNext, Reaches
    <2>6. CASE ~(k = key /\ p \in key)
        <3>1. NoneIn(todo', RunOf(p, key))
            BY <2>2, <2>4, <2>6, RowElsewhere
        <3>2. Wanted(p, key)' = Wanted(p, key)
            BY <2>3, <2>6 DEF Wanted
        <3> QED BY <1>11, <2>1, <3>1, <3>2
    <2> QED BY <2>5, <2>6
<1>14. CASE GattNext
    <2>1. GattHalves \in SUBSET GattHalves /\ \A q \in GattHalves : {q} \in SUBSET GattHalves
        OBVIOUS
    <2> QED BY <1>4, <1>5, <1>6, <1>7, <1>8, <1>9, <1>10, <1>12, <1>13, <1>14, <2>1 DEF GattNext, Internal
<1> QED BY <1>5, <1>14

LEMMA HeldStep == Shape /\ HeldKept /\ [GattNext]_gatt_vars => HeldKept'
<1> SUFFICES ASSUME Shape, HeldKept, [GattNext]_gatt_vars, NEW p \in GattHalves PROVE HeldSoon(p)'
    BY DEF HeldKept
<1>1. ASSUME <<p, "run">> \notin gatt_lost', NEW key \in SUBSET GattHalves PROVE HeldRight(p, key)'
    <2>1. HeldNext(p, key)
        BY <1>1, HeldComes
    <2> QED BY <2>1 DEF HeldRight, HeldNext, RunOf, RunAt, Ordered, Written
<1> QED BY <1>1 DEF HeldSoon
-----------------------------------------------------------------------------
(* What both sides agree on, once nothing is on its way.                     *)
LEMMA FoundInit == GattInit => KindsFound
<1> SUFFICES ASSUME GattInit, NEW p \in GattHalves PROVE FoundBehind(p)
    BY DEF KindsFound
<1>1. gatt_state[p] = "open" /\ cursor[p].mode = "none"
    BY DEF GattInit, Cursor
<1> QED BY <1>1 DEF FoundBehind

AllKept == Shape /\ TurnsKept /\ KindsFound /\ ChargesKept /\ LightsKept /\ HeldKept

LEMMA AllKeptInit == GattInit => AllKept
BY ShapeInit, CountsInit, FoundInit, ChargesInit, LightsInit, HeldInit DEF AllKept

LEMMA AllKeptStep == AllKept /\ [GattNext]_gatt_vars => AllKept'
BY ShapeStep, CountsStep, FoundStep, ChargesStep, LightsStep, HeldStep DEF AllKept

\* What no message says has arrived.
LEMMA NothingOnItsWay ==
    ASSUME NEW T, NEW U, NEW known, NEW v
    PROVE  /\ ~LastIn(<<>>, T, U)
           /\ Reaches(<<>>, <<>>, <<>>, T, U, known, v) => known = v
<1>1. \A V, G : ~LastIn(<<>>, V, G)
    BY DEF LastIn
<1> QED BY <1>1 DEF Reaches, Arriving

LEMMA TurnsAgree == Shape /\ TurnsKept => TurnsCounted
<1> SUFFICES ASSUME Shape, TurnsKept, AtRest, NEW p \in GattHalves
             PROVE  <<p, "turn">> \in gatt_lost \/ counted[p] = turned[p]
    BY DEF TurnsCounted
<1>1. gatt_events = <<>> /\ up[p] = <<>> /\ turns[p] = 0 /\ counted[p] \in Nat /\ Balanced(p)
    BY DEF AtRest, TurnsKept, Shape, HistoryShape
<1>2. CountIn(gatt_events, TurnsOf(p)) = 0 /\ CountIn(up[p], TurnsOf(p)) = 0
    BY <1>1, EmptyHasNone
<1>3. Underway(p) = counted[p]
    BY <1>1, <1>2 DEF Underway
<1> QED BY <1>1, <1>3 DEF Balanced

LEMMA ChargesAgree == Shape /\ KindsFound /\ ChargesKept => HostKnowsTheCharge
<1> SUFFICES ASSUME Shape, KindsFound, ChargesKept, AtRest, host, NEW p \in GattHalves,
                    IndexOf(p, "batt") # {}, <<p, "batt">> \notin gatt_lost
             PROVE  proxy[p] = IF gatt_state[p] = "connected" THEN charge[p] ELSE 0
    BY DEF HostKnowsTheCharge
<1>1. /\ gatt_events = <<>> /\ up[p] = <<>> /\ down[p] = <<>>
      /\ proxy = levels /\ ChargeKnown(p) /\ FoundBehind(p)
      /\ gatt_state[p] \in {"open", "connected"}
      /\ gatt_state[p] = "connected" => cursor[p].mode = "done"
    BY DEF AtRest, ChargesKept, ChargeRight, KindsFound, Shape, CentralShape
<1>2. \A l : ~HeardLast(<<>>, p, l)
    BY NothingOnItsWay DEF HeardLast
<1>3. CASE gatt_state[p] = "open"
    BY <1>1, <1>2, <1>3 DEF ChargeKnown, Comes
<1>4. CASE gatt_state[p] = "connected"
    <2>1. PICK k \in DOMAIN Table(p) : Table(p)[k].kind = "batt"
        BY DEF IndexOf
    <2>2. "batt" \in handles[p]
        BY <1>1, <1>4, <2>1 DEF FoundBehind, Passed
    <2>3. NoneIn(down[p], Reads)
        BY <1>1, EmptyHasNone
    <2> QED BY <1>1, <1>2, <1>4, <2>2, <2>3 DEF ChargeKnown, Comes
<1> QED BY <1>1, <1>3, <1>4

LEMMA ShownAgree == Shape /\ LightsKept => LightsAgree
<1> SUFFICES ASSUME Shape, LightsKept, AtRest, NEW p \in owed PROVE shown[p] = lights[gatt_selected]
    BY DEF LightsAgree
<1>1. /\ todo = <<>> /\ commands = <<>> /\ ~led_work /\ p \in GattHalves /\ down[p] = <<>> /\ ~show_work[p]
    BY DEF AtRest, Shape, HistoryShape
<1>2. Reaches(<<>>, <<>>, <<>>, TellOf(p), TellAt, hid_lights[p], lights[gatt_selected])
    BY <1>1 DEF LightsKept, LightsOf
<1>3. hid_lights[p] = lights[gatt_selected]
    BY <1>2, NothingOnItsWay
<1> QED BY <1>1, <1>3 DEF LightsKept

LEMMA HeldAgree == Shape /\ HeldKept => HeldTogether
<1> SUFFICES ASSUME Shape, HeldKept, AtRest, NEW p \in GattHalves, <<p, "run">> \notin gatt_lost
             PROVE  held[p] = {key \in pressed : p \in key}
    BY DEF HeldTogether
<1>1. /\ todo = <<>> /\ commands = <<>> /\ down[p] = <<>>
      /\ pressed \subseteq SUBSET GattHalves /\ held[p] \subseteq SUBSET GattHalves
    BY DEF AtRest, Shape, CommandShape, HalfShape
<1>2. ASSUME NEW key \in SUBSET GattHalves PROVE key \in held[p] <=> (key \in pressed /\ p \in key)
    <2>1. Reaches(<<>>, <<>>, <<>>, RunOf(p, key), RunAt(key), HeldValue(p, key), Wanted(p, key))
        BY <1>1 DEF HeldKept, HeldSoon, HeldRight
    <2>2. HeldValue(p, key) = Wanted(p, key)
        BY <2>1, NothingOnItsWay
    <2> QED BY <2>2 DEF HeldValue, Wanted
<1> QED BY <1>1, <1>2

\* When nothing is on its way between the halves and the central any more, the two sides
\* agree: the host knows the charges, the halves show its lights and hold the behaviors that
\* are pressed, every detent was counted, but for what a full queue or a lost connection has
\* cost.  So it is for every number of halves, every table of characteristics, and every size
\* of the queues and of the air (split/bluetooth/central.c, service.c).
THEOREM HalvesAlwaysAgree == GattSpec => []BothSidesAgree
<1>1. GattInit => AllKept
    BY AllKeptInit
<1>2. AllKept /\ [GattNext]_gatt_vars => AllKept'
    BY AllKeptStep
<1>3. AllKept => BothSidesAgree
    BY TurnsAgree, ChargesAgree, ShownAgree, HeldAgree DEF AllKept, BothSidesAgree
<1> QED BY <1>1, <1>2, <1>3, PTL DEF GattSpec
-----------------------------------------------------------------------------
(* The slots of pointing devices.  A device with the number 0 never looks    *)
(* complete to input_slot_is_pending: only the last device of a half may     *)
(* have it (see the README).                                                 *)
Numbered ==
    \A b \in Builds, p \in GattHalves : \A k, l \in DOMAIN b.table[p] :
        k < l /\ b.table[p][k].kind = "input" /\ b.table[p][l].kind = "input" => b.table[p][k].reg # 0

\* A slot's device was found, or is the one that discovery is at.
Finished(i, p) ==
    /\ Passed(p, slots[i].value) /\ slots[i].subscribed /\ slots[i].ccc # 0
    /\ slots[i].reg = Table(p)[slots[i].value].reg
InHand(i, p) ==
    /\ cursor[p].mode \in {"ccc", "cpf"} /\ slots[i].value = cursor[p].at
    /\ slots[i].reg = 0 /\ ~slots[i].subscribed /\ (cursor[p].mode = "cpf" => slots[i].ccc # 0)
Serves(i, p) ==
    /\ gatt_state[p] = "connected" /\ slots[i].value \in IndexOf(p, "input")
    /\ Finished(i, p) \/ InHand(i, p)
SlotFits(i) ==
    \/ slots[i].conn = NoHalf /\ ~slots[i].subscribed
    \/ slots[i].conn \in GattHalves /\ Serves(i, slots[i].conn)
HasSlot(p, k) == \E i \in InputSlots : slots[i].conn = p /\ slots[i].value = k
AllInputs == UNION {{<<q, k>> : k \in IndexOf(q, "input")} : q \in GattHalves}
Enough == Cardinality(AllInputs) <= build.inputs
HalfFits(p) ==
    /\ cursor[p].mode = "service" => cursor[p].at = 1
    /\ cursor[p].mode \in {"ccc", "cpf"} => HasSlot(p, cursor[p].at)
    /\ Enough /\ gatt_state[p] = "connected" =>
        \A k \in IndexOf(p, "input") : Passed(p, k) => HasSlot(p, k)
SlotsDiffer ==
    \A i, j \in InputSlots :
        slots[i].conn # NoHalf /\ slots[i].conn = slots[j].conn /\ slots[i].value = slots[j].value => i = j
SlotsKept ==
    /\ \A i \in InputSlots : SlotFits(i)
    /\ SlotsDiffer
    /\ \A p \in GattHalves : HalfFits(p)

LEMMA InputsAreFinite == ASSUME build \in Builds PROVE IsFiniteSet(AllInputs)
<1> DEFINE Of(q) == {<<q, k>> : k \in IndexOf(q, "input")}
           S == {Of(q) : q \in GattHalves}
           f == [q \in GattHalves |-> Of(q)]
<1>1. IsFiniteSet(S)
    <2>1. f \in [GattHalves -> S] /\ \A s \in S : \E q \in GattHalves : f[q] = s
        OBVIOUS
    <2>2. f \in Surjection(GattHalves, S)
        <3> HIDE DEF f, S
        <3> QED BY <2>1, Fun_IsSurj
    <2>3. IsFiniteSet(GattHalves)
        BY GattAssumption
    <2> HIDE DEF f, S
    <2> QED BY <2>2, <2>3, FS_Surjection
<1>2. ASSUME NEW q \in GattHalves PROVE IsFiniteSet(Of(q))
    <2> DEFINE I == IndexOf(q, "input")
               g == [k \in I |-> <<q, k>>]
    <2>1. I \in SUBSET (1 .. Len(Table(q))) /\ Len(Table(q)) \in Nat
        BY TableFacts DEF IndexOf
    <2>2. IsFiniteSet(I)
        <3> HIDE DEF I
        <3>1. IsFiniteSet(1 .. Len(Table(q)))
            BY <2>1, FS_Interval
        <3> QED BY <2>1, <3>1, FS_Subset
    <2>3. g \in [I -> Of(q)] /\ \A s \in Of(q) : \E k \in I : g[k] = s
        OBVIOUS
    <2>4. g \in Surjection(I, Of(q))
        <3> HIDE DEF g, I, Of
        <3> QED BY <2>3, Fun_IsSurj
    <2> HIDE DEF g, I, Of
    <2> QED BY <2>2, <2>4, FS_Surjection
<1>3. \A T \in S : IsFiniteSet(T)
    BY <1>2
<1>4. IsFiniteSet(UNION S)
    <2> HIDE DEF S
    <2> QED BY <1>1, <1>3, FS_UNION
<1>5. AllInputs = UNION S
    BY DEF AllInputs
<1> QED BY <1>4, <1>5

\* When no slot is open, and there are enough of them, every device has one.
LEMMA NoneIsLeft ==
    ASSUME Shape, SlotsKept, Enough, \A i \in InputSlots : ~IsOpen(slots[i]),
           NEW p \in GattHalves, NEW k \in IndexOf(p, "input")
    PROVE  HasSlot(p, k)
<1> DEFINE Pair(i) == <<slots[i].conn, slots[i].value>>
           Taken == {Pair(i) : i \in InputSlots}
           f == [i \in InputSlots |-> Pair(i)]
<1>0. build \in Builds /\ build.inputs \in Nat
    BY TableFacts DEF Shape, CentralShape
<1>1. IsFiniteSet(InputSlots) /\ Cardinality(InputSlots) = build.inputs
    BY <1>0, FS_Interval DEF InputSlots
<1>2. \A i \in InputSlots : slots[i].conn \in GattHalves /\ slots[i].value \in IndexOf(slots[i].conn, "input")
    BY DEF SlotsKept, SlotFits, Serves, IsOpen
<1>3. Taken \in SUBSET AllInputs
    BY <1>2 DEF AllInputs
<1>4. f \in Bijection(InputSlots, Taken)
    <2>1. f \in [InputSlots -> Taken] /\ \A t \in Taken : \E i \in InputSlots : f[i] = t
        OBVIOUS
    <2>2. \A i, j \in InputSlots : f[i] = f[j] => i = j
        BY DEF SlotsKept, SlotsDiffer, IsOpen
    <2> HIDE DEF f, Taken
    <2> QED BY <2>1, <2>2, Fun_IsBij
<1>5. Cardinality(Taken) = build.inputs
    <2>1. ExistsBijection(InputSlots, Taken)
        <3> HIDE DEF f, Taken
        <3> QED BY <1>4, Fun_ExistsBij
    <2> HIDE DEF Taken
    <2> QED BY <1>1, <2>1, FS_Bijection
<1>6. IsFiniteSet(AllInputs) /\ Cardinality(AllInputs) \in Nat
    BY <1>0, InputsAreFinite, FS_CardinalityType
<1>7. Taken = AllInputs
    <2> HIDE DEF Taken
    <2>1. Cardinality(Taken) <= Cardinality(AllInputs)
        BY <1>3, <1>6, FS_Subset
    <2>2. Cardinality(AllInputs) = Cardinality(Taken)
        BY <1>0, <1>5, <1>6, <2>1 DEF Enough
    <2> QED BY <1>3, <1>6, <2>2, FS_Subset
<1>8. <<p, k>> \in AllInputs
    BY DEF AllInputs
<1> QED BY <1>7, <1>8 DEF HasSlot

\* What a step leaves alone.
LEMMA FitStays ==
    ASSUME NEW i \in InputSlots, SlotFits(i), build' = build, slots'[i] = slots[i],
           slots[i].conn # NoHalf => gatt_state'[slots[i].conn] = gatt_state[slots[i].conn]
                                     /\ cursor'[slots[i].conn] = cursor[slots[i].conn]
    PROVE  SlotFits(i)'
<1>1. CASE slots[i].conn = NoHalf /\ ~slots[i].subscribed
    BY <1>1 DEF SlotFits
<1>2. CASE slots[i].conn \in GattHalves /\ Serves(i, slots[i].conn)
    <2> DEFINE p == slots[i].conn
    <2>1. p # NoHalf
        BY <1>2, GattAssumption
    <2>2. gatt_state'[p] = gatt_state[p] /\ cursor'[p] = cursor[p] /\ Table(p)' = Table(p)
          /\ IndexOf(p, "input")' = IndexOf(p, "input")
        BY <2>1 DEF Table, IndexOf
    <2>3. slots'[i].conn = p
        OBVIOUS
    <2>4. Serves(i, p)'
        <3> HIDE DEF p
        <3>1. Serves(i, p)
            BY <1>2 DEF p
        <3>2. p' = p
            BY <2>3 DEF p
        <3> QED BY <2>2, <3>1, <3>2 DEF Serves, Finished, InHand, Passed
    <2> QED BY <1>2, <2>3, <2>4 DEF SlotFits
<1> QED BY <1>1, <1>2 DEF SlotFits

LEMMA HalfStays ==
    ASSUME NEW q \in GattHalves, HalfFits(q), build' = build, gatt_state'[q] = gatt_state[q], cursor'[q] = cursor[q],
           \A i \in InputSlots : slots[i].conn = q => slots'[i] = slots[i]
    PROVE  HalfFits(q)'
<1>1. \A k : HasSlot(q, k) => HasSlot(q, k)'
    BY DEF HasSlot, InputSlots
<1>2. (Enough' <=> Enough) /\ IndexOf(q, "input")' = IndexOf(q, "input")
    BY DEF Enough, AllInputs, IndexOf, Table
<1>3. \A k : Passed(q, k)' <=> Passed(q, k)
    BY DEF Passed
<1>4. HasSlot(q, cursor[q].at) => HasSlot(q, cursor[q].at)'
    BY DEF HasSlot, InputSlots
<1> QED BY <1>1, <1>2, <1>3, <1>4 DEF HalfFits

\* The slot that discovery is at is the only one that is pending.
LEMMA PendingIsInHand ==
    ASSUME Numbered, Shape, KindsFound, SlotsKept, NEW p \in GattHalves, gatt_state[p] = "connected",
           cursor[p].mode \in {"ccc", "cpf"}
    PROVE  \E i \in InputSlots :
            /\ PendingSlot(p) = {i} /\ slots[i].conn = p /\ InHand(i, p)
            /\ \A j \in InputSlots : j # i /\ slots[j].conn = p => Finished(j, p)
<1>0. /\ build \in Builds /\ cursor[p].at \in DOMAIN Table(p) /\ Here(p).kind = "input"
      /\ \A i \in InputSlots : slots[i].value \in Nat
      /\ Table(p) = build.table[p] /\ p # NoHalf
    BY GattAssumption DEF Shape, CentralShape, KindsFound, FoundBehind, InputSlot, Table
<1>1. PICK i \in InputSlots : slots[i].conn = p /\ slots[i].value = cursor[p].at
    BY DEF SlotsKept, HalfFits, HasSlot
<1>2. \A n \in DOMAIN Table(p) : n \in Nat \ {0}
    BY <1>0, TableFacts
<1>3. InHand(i, p)
    <2>1. ~Passed(p, cursor[p].at)
        BY <1>0, <1>2 DEF Passed
    <2>2. ~Finished(i, p)
        BY <1>1, <2>1 DEF Finished
    <2> QED BY <1>0, <1>1, <2>2 DEF SlotsKept, SlotFits, Serves
<1>4. ASSUME NEW j \in InputSlots, j # i, slots[j].conn = p PROVE Finished(j, p) /\ ~IsPending(slots[j])
    <2>1. Serves(j, p) /\ ~InHand(j, p)
        <3>1. slots[j].value # cursor[p].at
            BY <1>0, <1>1, <1>4 DEF SlotsKept, SlotsDiffer
        <3> QED BY <1>0, <1>4, <3>1 DEF SlotsKept, SlotFits, InHand
    <2>2. Finished(j, p) /\ slots[j].value \in IndexOf(p, "input")
        BY <2>1 DEF Serves
    <2>3. slots[j].value < cursor[p].at /\ slots[j].value \in DOMAIN Table(p) /\ Table(p)[slots[j].value].kind = "input"
        BY <2>2 DEF Finished, Passed, IndexOf
    <2>4. Table(p)[slots[j].value].reg # 0
        BY <1>0, <2>3 DEF Numbered, Here
    <2> QED BY <1>2, <2>2, <2>3, <2>4 DEF IsPending, Finished
<1>5. IsPending(slots[i])
    BY <1>0, <1>1, <1>3 DEF IsPending, InHand
<1>6. {j \in InputSlots : slots[j].conn = p /\ IsPending(slots[j])} = {i}
    BY <1>1, <1>4, <1>5
<1>7. i \in Nat
    BY <1>0, TableFacts DEF InputSlots
<1>8. PendingSlot(p) = {i}
    BY <1>6, <1>7 DEF PendingSlot, FirstSlot
<1> QED BY <1>1, <1>3, <1>4, <1>8
-----------------------------------------------------------------------------
(* How discovery fills the slots.                                            *)
LEMMA IsReserved ==
    ASSUME CentralShape, NEW p \in GattHalves, NEW i \in InputSlots, NEW k, slots' = Reserved(i, p, k)
    PROVE  /\ slots'[i].conn = p /\ slots'[i].value = k /\ slots'[i].ccc = 0 /\ slots'[i].reg = 0
           /\ slots'[i].subscribed = slots[i].subscribed
           /\ \A j \in InputSlots : j # i => slots'[j] = slots[j]
<1>1. slots \in [InputSlots -> InputSlot] /\ slots[i] \in InputSlot
    BY DEF CentralShape
<1> DEFINE new == [slots[i] EXCEPT !.conn = p, !.value = k, !.ccc = 0, !.reg = 0]
<1>2. slots' = [slots EXCEPT ![i] = new]
    BY <1>1 DEF Reserved
<1>3. new.conn = p /\ new.value = k /\ new.ccc = 0 /\ new.reg = 0 /\ new.subscribed = slots[i].subscribed
    BY <1>1 DEF InputSlot
<1> HIDE DEF new
<1> QED BY <1>1, <1>2, <1>3

LEMMA IsHandled ==
    ASSUME CentralShape, NEW i \in InputSlots, NEW h, slots' = [slots EXCEPT ![i].ccc = h]
    PROVE  /\ slots'[i].conn = slots[i].conn /\ slots'[i].value = slots[i].value /\ slots'[i].ccc = h
           /\ slots'[i].reg = slots[i].reg /\ slots'[i].subscribed = slots[i].subscribed
           /\ \A j \in InputSlots : j # i => slots'[j] = slots[j]
<1>1. slots \in [InputSlots -> InputSlot] /\ slots[i] \in InputSlot
    BY DEF CentralShape
<1> DEFINE new == [slots[i] EXCEPT !.ccc = h]
<1>2. slots' = [slots EXCEPT ![i] = new]
    BY <1>1
<1>3. /\ new.conn = slots[i].conn /\ new.value = slots[i].value /\ new.ccc = h /\ new.reg = slots[i].reg
      /\ new.subscribed = slots[i].subscribed
    BY <1>1 DEF InputSlot
<1> HIDE DEF new
<1> QED BY <1>1, <1>2, <1>3

LEMMA IsNumbered ==
    ASSUME CentralShape, NEW i \in InputSlots, NEW r,
           slots' = [slots EXCEPT ![i].reg = r, ![i].subscribed = TRUE]
    PROVE  /\ slots'[i].conn = slots[i].conn /\ slots'[i].value = slots[i].value /\ slots'[i].ccc = slots[i].ccc
           /\ slots'[i].reg = r /\ slots'[i].subscribed
           /\ \A j \in InputSlots : j # i => slots'[j] = slots[j]
<1>1. slots \in [InputSlots -> InputSlot] /\ slots[i] \in InputSlot
    BY DEF CentralShape
<1> DEFINE new == [slots[i] EXCEPT !.reg = r, !.subscribed = TRUE]
<1>2. slots' = [slots EXCEPT ![i] = new]
    BY <1>1
<1>3. /\ new.conn = slots[i].conn /\ new.value = slots[i].value /\ new.ccc = slots[i].ccc /\ new.reg = r
      /\ new.subscribed
    BY <1>1 DEF InputSlot
<1> HIDE DEF new
<1> QED BY <1>1, <1>2, <1>3

LEMMA IsReleased ==
    ASSUME CentralShape, NEW p \in GattHalves, slots' = ReleasedInputs(p), NEW i \in InputSlots
    PROVE  IF slots[i].conn = p THEN slots'[i].conn = NoHalf /\ ~slots'[i].subscribed ELSE slots'[i] = slots[i]
<1>1. slots[i] \in InputSlot
    BY DEF CentralShape
<1> DEFINE new == [slots[i] EXCEPT !.conn = NoHalf, !.value = 0, !.subscribed = FALSE]
<1>2. slots'[i] = IF slots[i].conn = p THEN new ELSE slots[i]
    BY DEF ReleasedInputs
<1>3. new.conn = NoHalf /\ ~new.subscribed
    BY <1>1 DEF InputSlot
<1> HIDE DEF new
<1> QED BY <1>2, <1>3

\* A step of discovery at a half leaves the slots of the others alone.
LEMMA OthersStay ==
    ASSUME Shape, SlotsKept, NEW p \in GattHalves, build' = build,
           \A q \in GattHalves \ {p} : gatt_state'[q] = gatt_state[q] /\ cursor'[q] = cursor[q],
           \A i \in InputSlots : slots[i].conn \in GattHalves \ {p} => slots'[i] = slots[i]
    PROVE  /\ \A i \in InputSlots : slots[i].conn \in GattHalves \ {p} => SlotFits(i)'
           /\ \A q \in GattHalves \ {p} : HalfFits(q)'
<1>1. \A q \in GattHalves \ {p} : \A i \in InputSlots : slots[i].conn = q => slots'[i] = slots[i]
    OBVIOUS
<1>2. \A q \in GattHalves \ {p} : HalfFits(q)'
    BY <1>1, HalfStays DEF SlotsKept
<1>3. \A i \in InputSlots : slots[i].conn \in GattHalves \ {p} => SlotFits(i)'
    BY FitStays DEF SlotsKept
<1> QED BY <1>2, <1>3

LEMMA NewKept ==
    ASSUME build' = build, \A i \in InputSlots : SlotFits(i)', \A p \in GattHalves : HalfFits(p)', SlotsDiffer'
    PROVE  SlotsKept'
<1>1. InputSlots' = InputSlots
    BY DEF InputSlots
<1>2. (\A i \in InputSlots : SlotFits(i))'
    BY <1>1
<1> QED BY <1>2 DEF SlotsKept

LEMMA SameDiffer ==
    ASSUME SlotsDiffer, build' = build,
           \A i \in InputSlots : slots'[i].conn = NoHalf
                                 \/ (slots'[i].conn = slots[i].conn /\ slots'[i].value = slots[i].value)
    PROVE  SlotsDiffer'
BY DEF SlotsDiffer, InputSlots

\* When discovery goes on behind a characteristic, and slots were only completed.
LEMMA WentOn ==
    ASSUME Shape, SlotsKept, NEW p \in GattHalves, GoOn(p, "chrc"), gatt_state[p] = "connected",
           cursor[p].mode # "done", UNCHANGED <<build, gatt_state>>, SlotsDiffer',
           \A i \in InputSlots : slots'[i].conn = slots[i].conn /\ slots'[i].value = slots[i].value,
           \A i \in InputSlots : slots[i].conn # p => slots'[i] = slots[i],
           \A i \in InputSlots : slots[i].conn = p => Serves(i, p) /\ (Serves(i, p) => Finished(i, p)'),
           Enough /\ cursor[p].at \in IndexOf(p, "input") => HasSlot(p, cursor[p].at)
    PROVE  SlotsKept'
<1>0. CentralShape /\ build \in Builds
    BY DEF Shape, CentralShape
<1>1. \A q \in GattHalves \ {p} : cursor'[q] = cursor[q]
    BY <1>0, GoOnFacts
<1>2. /\ \A i \in InputSlots : slots[i].conn \in GattHalves \ {p} => SlotFits(i)'
      /\ \A q \in GattHalves \ {p} : HalfFits(q)'
    BY <1>1, OthersStay
<1>3. ASSUME NEW i \in InputSlots PROVE SlotFits(i)'
    <2>1. CASE slots[i].conn = p
        <3>1. slots'[i].conn = p /\ slots'[i].value \in IndexOf(p, "input") /\ gatt_state'[p] = "connected"
            BY <2>1 DEF Serves
        <3>2. IndexOf(p, "input")' = IndexOf(p, "input")
            BY DEF IndexOf, Table
        <3>3. Finished(i, p)'
            BY <2>1
        <3>4. Serves(i, p)'
            BY <3>1, <3>2, <3>3 DEF Serves
        <3> QED BY <3>1, <3>4 DEF SlotFits
    <2>2. CASE slots[i].conn = NoHalf
        <3>1. slots'[i] = slots[i]
            BY <2>2, GattAssumption
        <3> QED BY <2>2, <3>1, FitStays DEF SlotsKept
    <2> QED BY <1>2, <2>1, <2>2 DEF SlotsKept, SlotFits
<1>4. HalfFits(p)'
    <2>1. cursor'[p].mode \in {"chrc", "done"}
        BY <1>0, GoOnFacts
    <2>2. ASSUME Enough, NEW k \in IndexOf(p, "input"), Passed(p, k)' PROVE HasSlot(p, k)
        <3>0. k \in DOMAIN Table(p)
            BY DEF IndexOf
        <3>1. Passed(p, k) \/ k = cursor[p].at \/ Complete(handles'[p], slots')
            BY <1>0, <2>2, <3>0, PassedNext
        <3>2. CASE Complete(handles'[p], slots')
            <4>1. \A i \in InputSlots : ~IsOpen(slots[i])
                BY <3>2 DEF Complete, IsOpen
            <4> QED BY <2>2, <4>1, NoneIsLeft
        <3>3. CASE Passed(p, k)
            BY <2>2, <3>3 DEF SlotsKept, HalfFits
        <3>4. CASE k = cursor[p].at
            BY <2>2, <3>4
        <3> QED BY <3>1, <3>2, <3>3, <3>4
    <2>3. (Enough' <=> Enough) /\ IndexOf(p, "input")' = IndexOf(p, "input")
        BY DEF Enough, AllInputs, IndexOf, Table
    <2>4. \A k : HasSlot(p, k) => HasSlot(p, k)'
        BY DEF HasSlot, InputSlots
    <2> QED BY <2>1, <2>2, <2>3, <2>4 DEF HalfFits
<1>5. \A q \in GattHalves : HalfFits(q)'
    BY <1>2, <1>4
<1> QED BY <1>3, <1>5, NewKept

\* When discovery goes to a descriptor of a device.
LEMMA WentInto ==
    ASSUME Shape, SlotsKept, NEW p \in GattHalves, NEW mode \in {"ccc", "cpf"}, GoOn(p, mode),
           gatt_state[p] = "connected", cursor[p].mode # "done", UNCHANGED <<build, gatt_state>>, SlotsDiffer',
           NEW i \in InputSlots, slots'[i].conn = p, slots'[i].value = cursor[p].at, slots'[i].reg = 0,
           ~slots'[i].subscribed, mode = "cpf" => slots'[i].ccc # 0, cursor[p].at \in IndexOf(p, "input"),
           slots[i].conn \in {p, NoHalf},
           slots[i].conn = p => slots[i].value = cursor[p].at,
           \A j \in InputSlots : j # i => slots'[j] = slots[j] /\ (slots[j].conn = p => Finished(j, p))
    PROVE  SlotsKept'
<1>0. CentralShape /\ p # NoHalf
    BY GattAssumption DEF Shape, CentralShape
<1>1. \A q \in GattHalves \ {p} : cursor'[q] = cursor[q]
    BY <1>0, GoOnFacts
<1>2. /\ \A j \in InputSlots : slots[j].conn \in GattHalves \ {p} => SlotFits(j)'
      /\ \A q \in GattHalves \ {p} : HalfFits(q)'
    <2>1. NoHalf \notin GattHalves
        BY GattAssumption
    <2> QED BY <1>1, <2>1, OthersStay
<1>3. ~Complete(handles'[p], slots')
    BY <1>0 DEF Complete, IsPending
<1>4. /\ cursor'[p].mode = mode /\ cursor'[p].at = cursor[p].at
      /\ \A k \in DOMAIN Table(p) : Passed(p, k)' <=> Passed(p, k)
    <2>1. cursor[p].at \in DOMAIN Table(p)
        BY <1>0 DEF CentralShape
    <2> QED BY <1>0, <1>3, <2>1, PassedNext
<1>5. IndexOf(p, "input")' = IndexOf(p, "input") /\ Table(p)' = Table(p)
    BY DEF IndexOf, Table
<1>6. InHand(i, p)' /\ Serves(i, p)' /\ SlotFits(i)'
    <2>1. InHand(i, p)'
        BY <1>4 DEF InHand
    <2>2. Serves(i, p)'
        BY <1>5, <2>1 DEF Serves
    <2> QED BY <2>1, <2>2 DEF SlotFits
<1>7. ASSUME NEW j \in InputSlots PROVE SlotFits(j)'
    <2>1. CASE j = i
        BY <1>6, <2>1
    <2>2. CASE j # i /\ slots[j].conn = p
        <3>1. slots[j].value \in DOMAIN Table(p) /\ slots[j].value \in IndexOf(p, "input")
            BY <1>0, <2>2 DEF SlotsKept, SlotFits, Serves, IndexOf
        <3>2. Finished(j, p) /\ slots'[j] = slots[j]
            BY <2>2
        <3>3. Finished(j, p)'
            BY <1>4, <1>5, <3>1, <3>2 DEF Finished
        <3>4. Serves(j, p)'
            BY <1>5, <3>1, <3>2, <3>3 DEF Serves
        <3> QED BY <2>2, <3>2, <3>4 DEF SlotFits
    <2>3. CASE j # i /\ slots[j].conn = NoHalf
        BY <2>3, FitStays DEF SlotsKept
    <2> QED BY <1>2, <2>1, <2>2, <2>3 DEF SlotsKept, SlotFits
<1>8. HalfFits(p)'
    <2>1. HasSlot(p, cursor[p].at)'
        BY <1>4 DEF HasSlot, InputSlots
    <2>2. \A k : HasSlot(p, k) => HasSlot(p, k)'
        <3>1. ASSUME NEW k, HasSlot(p, k) PROVE HasSlot(p, k)'
            <4>1. PICK j \in InputSlots : slots[j].conn = p /\ slots[j].value = k
                BY <3>1 DEF HasSlot
            <4>2. slots'[j].conn = p /\ slots'[j].value = k
                BY <4>1
            <4> QED BY <4>2 DEF HasSlot, InputSlots
        <3> QED BY <3>1
    <2>3. Enough' <=> Enough
        BY DEF Enough, AllInputs, IndexOf, Table
    <2>4. \A k \in IndexOf(p, "input") : k \in DOMAIN Table(p)
        BY DEF IndexOf
    <2> QED BY <1>4, <1>5, <2>1, <2>2, <2>3, <2>4 DEF SlotsKept, HalfFits
<1>9. \A q \in GattHalves : HalfFits(q)'
    BY <1>2, <1>8
<1> QED BY <1>7, <1>9, NewKept

LEMMA FinishedStays ==
    ASSUME CentralShape, NEW p \in GattHalves, GoOn(p, "chrc"), cursor[p].mode # "done", build' = build,
           NEW i \in InputSlots, slots'[i] = slots[i], slots[i].value \in DOMAIN Table(p), Finished(i, p)
    PROVE  Finished(i, p)'
<1> DEFINE k == slots[i].value
<1>1. slots'[i].value = k /\ Passed(p, k) /\ k \in DOMAIN Table(p)
    BY DEF Finished
<1>2. Passed(p, k) => Passed(p, k)'
    <2>1. \A n \in DOMAIN Table(p) : Passed(p, n) => cursor'[p].mode = "done" \/ n < cursor'[p].at
        BY PassedNext DEF Passed
    <2> HIDE DEF k
    <2> QED BY <1>1, <2>1 DEF k, Passed
<1>3. Table(p)' = Table(p)
    BY DEF Table
<1> QED BY <1>1, <1>2, <1>3 DEF Finished

\* The slots of a half whose discovery is between characteristics.
LEMMA AllAreFinished ==
    ASSUME Shape, SlotsKept, NEW p \in GattHalves, cursor[p].mode = "chrc", NEW i \in InputSlots, slots[i].conn = p
    PROVE  /\ Serves(i, p) /\ Finished(i, p) /\ slots[i].value \in DOMAIN Table(p)
           /\ slots[i].value # cursor[p].at
<1>1. Serves(i, p)
    BY GattAssumption DEF SlotsKept, SlotFits
<1>2. Finished(i, p) /\ slots[i].value \in DOMAIN Table(p)
    BY <1>1 DEF Serves, InHand, IndexOf
<1>3. slots[i].value < cursor[p].at /\ cursor[p].at \in Nat
    BY <1>2 DEF Finished, Passed, Shape, CentralShape
<1>4. slots[i].value # cursor[p].at
    BY <1>3
<1> QED BY <1>1, <1>2, <1>4

LEMMA SlotsDiscovery ==
    ASSUME Numbered, Shape, KindsFound, SlotsKept, NEW p \in GattHalves,
           FindCharacteristic(p) \/ FindInput(p) \/ FindCcc(p) \/ FindCpf(p)
    PROVE  SlotsKept'
<1>0. /\ CentralShape /\ SlotsDiffer /\ p # NoHalf /\ cursor[p].mode # "done" /\ gatt_state[p] = "connected"
      /\ UNCHANGED <<build, gatt_state>> /\ \A i \in InputSlots : i \in Nat
    BY GattAssumption DEF Shape, SlotsKept, FindCharacteristic, FindInput, FindCcc, FindCpf, Discovering, InputSlots
<1>1. ASSUME slots' = slots, cursor[p].mode = "chrc", GoOn(p, "chrc"),
             Enough /\ cursor[p].at \in IndexOf(p, "input") => HasSlot(p, cursor[p].at)
      PROVE  SlotsKept'
    <2>1. \A i \in InputSlots : slots[i].conn = p => Serves(i, p) /\ Finished(i, p)'
        <3> SUFFICES ASSUME NEW i \in InputSlots, slots[i].conn = p PROVE Serves(i, p) /\ Finished(i, p)'
            OBVIOUS
        <3>1. Serves(i, p) /\ Finished(i, p) /\ slots[i].value \in DOMAIN Table(p) /\ slots'[i] = slots[i]
            BY <1>1, AllAreFinished
        <3> QED BY <1>0, <1>1, <3>1, FinishedStays
    <2>2. SlotsDiffer'
        BY <1>0, <1>1, SameDiffer
    <2> QED BY <1>0, <1>1, <2>1, <2>2, WentOn
<1>2. CASE FindCharacteristic(p)
    <2>1. slots' = slots /\ cursor[p].mode = "chrc" /\ GoOn(p, "chrc") /\ cursor[p].at \notin IndexOf(p, "input")
        BY <1>2 DEF FindCharacteristic, Discovering, Here, IndexOf
    <2> QED BY <1>1, <2>1
<1>3. CASE FindInput(p)
    <2>0. cursor[p].mode = "chrc" /\ cursor[p].at \in IndexOf(p, "input")
        BY <1>0, <1>3 DEF FindInput, Discovering, Here, IndexOf, CentralShape
    <2>1. CASE OpenSlot = {}
        <3>1. \A i \in InputSlots : ~IsOpen(slots[i])
            <4> DEFINE S == {i \in InputSlots : IsOpen(slots[i])}
            <4>1. S \in SUBSET Nat /\ FirstSlot(S) = {}
                BY <1>0, <2>1 DEF OpenSlot
            <4> HIDE DEF S
            <4>2. S = {}
                BY <4>1, FirstOf DEF FirstSlot
            <4> QED BY <4>2 DEF S
        <3>2. Enough /\ cursor[p].at \in IndexOf(p, "input") => HasSlot(p, cursor[p].at)
            BY <3>1, NoneIsLeft
        <3>3. slots' = slots /\ GoOn(p, "chrc")
            BY <1>3, <2>1 DEF FindInput
        <3> QED BY <1>1, <2>0, <3>2, <3>3
    <2>2. CASE OpenSlot # {}
        <3>1. GoOn(p, "ccc") /\ \E i \in OpenSlot : slots' = Reserved(i, p, cursor[p].at)
            BY <1>3, <2>2 DEF FindInput
        <3>2. PICK i \in OpenSlot : slots' = Reserved(i, p, cursor[p].at)
            BY <3>1
        <3>3. i \in InputSlots /\ slots[i].conn = NoHalf
            BY DEF OpenSlot, FirstSlot, IsOpen
        <3>4. ~slots[i].subscribed
            BY <3>3, GattAssumption DEF SlotsKept, SlotFits
        <3>5. /\ slots'[i].conn = p /\ slots'[i].value = cursor[p].at /\ slots'[i].ccc = 0 /\ slots'[i].reg = 0
              /\ slots'[i].subscribed = slots[i].subscribed
              /\ \A j \in InputSlots : j # i => slots'[j] = slots[j]
            BY <1>0, <3>2, <3>3, IsReserved
        <3>6. \A j \in InputSlots : slots[j].conn = p => Finished(j, p) /\ slots[j].value # cursor[p].at
            BY <2>0, AllAreFinished
        <3>7. SlotsDiffer'
            BY <1>0, <3>3, <3>5, <3>6 DEF SlotsDiffer, InputSlots
        <3> QED BY <1>0, <2>0, <3>1, <3>3, <3>4, <3>5, <3>6, <3>7, WentInto
    <2> QED BY <2>1, <2>2
<1>4. ASSUME FindCcc(p) \/ FindCpf(p)
      PROVE  \E i \in InputSlots :
                /\ PendingSlot(p) = {i} /\ slots[i].conn = p /\ InHand(i, p)
                /\ \A j \in InputSlots : j # i /\ slots[j].conn = p => Finished(j, p)
    BY <1>0, <1>4, PendingIsInHand DEF FindCcc, FindCpf, Discovering
<1>5. CASE FindCcc(p)
    <2>1. PICK i \in InputSlots :
                /\ PendingSlot(p) = {i} /\ slots[i].conn = p /\ InHand(i, p)
                /\ \A j \in InputSlots : j # i /\ slots[j].conn = p => Finished(j, p)
        BY <1>4, <1>5
    <2>2. GoOn(p, "cpf") /\ slots' = [slots EXCEPT ![i].ccc = cursor[p].at]
        BY <1>5, <2>1 DEF FindCcc
    <2>3. /\ slots'[i].conn = slots[i].conn /\ slots'[i].value = slots[i].value /\ slots'[i].ccc = cursor[p].at
          /\ slots'[i].reg = slots[i].reg /\ slots'[i].subscribed = slots[i].subscribed
          /\ \A j \in InputSlots : j # i => slots'[j] = slots[j]
        BY <1>0, <2>2, IsHandled
    <2>4. SlotsDiffer'
        BY <1>0, <2>3, SameDiffer
    <2>5. cursor[p].at # 0 /\ cursor[p].at \in IndexOf(p, "input")
        BY <1>0, <1>5, CharacteristicType DEF FindCcc, Discovering, KindsFound, FoundBehind, Here, IndexOf,
           CentralShape
    <2> QED BY <1>0, <2>1, <2>2, <2>3, <2>4, <2>5, WentInto DEF InHand
<1>6. CASE FindCpf(p)
    <2>1. PICK i \in InputSlots :
                /\ PendingSlot(p) = {i} /\ slots[i].conn = p /\ InHand(i, p)
                /\ \A j \in InputSlots : j # i /\ slots[j].conn = p => Finished(j, p)
        BY <1>4, <1>6
    <2>2. GoOn(p, "chrc") /\ slots' = [slots EXCEPT ![i].reg = Here(p).reg, ![i].subscribed = TRUE]
        BY <1>6, <2>1 DEF FindCpf, AfterInput
    <2>3. /\ slots'[i].conn = slots[i].conn /\ slots'[i].value = slots[i].value /\ slots'[i].ccc = slots[i].ccc
          /\ slots'[i].reg = Here(p).reg /\ slots'[i].subscribed
          /\ \A j \in InputSlots : j # i => slots'[j] = slots[j]
        BY <1>0, <2>2, IsNumbered
    <2>4. SlotsDiffer'
        BY <1>0, <2>3, SameDiffer
    <2>5. /\ slots[i].value = cursor[p].at /\ slots[i].ccc # 0 /\ cursor[p].at \in DOMAIN Table(p)
        BY <1>0, <1>6, <2>1 DEF InHand, FindCpf, Discovering, CentralShape
    <2>6. Finished(i, p)'
        <3>1. cursor'[p].mode = "done" \/ cursor[p].at < cursor'[p].at
            BY <1>0, <2>2, <2>5, PassedNext DEF Passed
        <3>2. Table(p)' = Table(p) /\ slots'[i].value = cursor[p].at
            BY <1>0, <2>3, <2>5 DEF Table
        <3> QED BY <2>3, <2>5, <3>1, <3>2 DEF Finished, Passed, Here
    <2>7. \A j \in InputSlots : slots[j].conn = p => Serves(j, p) /\ Finished(j, p)'
        <3> SUFFICES ASSUME NEW j \in InputSlots, slots[j].conn = p PROVE Serves(j, p) /\ Finished(j, p)'
            OBVIOUS
        <3>1. Serves(j, p) /\ slots[j].value \in DOMAIN Table(p)
            BY <1>0 DEF SlotsKept, SlotFits, Serves, IndexOf
        <3>2. CASE j # i
            <4>1. Finished(j, p) /\ slots'[j] = slots[j]
                BY <2>1, <2>3, <3>2
            <4> QED BY <1>0, <2>2, <3>1, <4>1, FinishedStays
        <3> QED BY <2>6, <3>1, <3>2
    <2>8. HasSlot(p, cursor[p].at)
        BY <2>1, <2>5 DEF HasSlot
    <2>9. \A j \in InputSlots : slots'[j].conn = slots[j].conn /\ slots'[j].value = slots[j].value
        BY <2>3
    <2>10. \A j \in InputSlots : slots[j].conn # p => slots'[j] = slots[j]
        BY <2>1, <2>3
    <2> QED BY <1>0, <2>2, <2>4, <2>7, <2>8, <2>9, <2>10, WentOn
<1> QED BY <1>2, <1>3, <1>5, <1>6

\* Connections come and go.
LEMMA SlotsLink ==
    ASSUME Shape, SlotsKept, NEW p \in GattHalves, GattConnected(p) \/ FindService(p) \/ Lose(p)
    PROVE  SlotsKept'
<1>0. /\ CentralShape /\ SlotsDiffer /\ p # NoHalf /\ build' = build /\ NoHalf \notin GattHalves
      /\ gatt_state \in [GattHalves -> {"open", "connected"}]
      /\ cursor \in [GattHalves -> [mode : ModeSet, at : Nat]]
    BY GattAssumption DEF Shape, CentralShape, SlotsKept, GattConnected, FindService, Lose
<1>1. IndexOf(p, "input")' = IndexOf(p, "input") /\ (Enough' <=> Enough)
    BY <1>0 DEF IndexOf, Enough, AllInputs, Table
<1>2. ASSUME NEW mode \in {"service", "chrc"}, cursor' = [cursor EXCEPT ![p] = Cursor(mode, 1)],
             slots' = slots, \A q \in GattHalves \ {p} : gatt_state'[q] = gatt_state[q],
             \A i \in InputSlots : slots[i].conn # p
      PROVE  SlotsKept'
    <2>1. /\ cursor'[p].mode = mode /\ cursor'[p].at = 1
          /\ \A q \in GattHalves \ {p} : cursor'[q] = cursor[q]
        BY <1>0, <1>2 DEF Cursor
    <2>2. /\ \A i \in InputSlots : slots[i].conn \in GattHalves \ {p} => SlotFits(i)'
          /\ \A q \in GattHalves \ {p} : HalfFits(q)'
        BY <1>0, <1>2, <2>1, OthersStay
    <2>3. HalfFits(p)'
        <3>1. \A k \in IndexOf(p, "input") : k \in Nat /\ ~(k < 1)
            BY <1>0, TableFacts DEF IndexOf, CentralShape
        <3>2. \A k \in IndexOf(p, "input") : ~(Passed(p, k)')
            BY <2>1, <3>1 DEF Passed
        <3> QED BY <1>1, <2>1, <3>2 DEF HalfFits
    <2>4. ASSUME NEW i \in InputSlots PROVE SlotFits(i)'
        <3>1. CASE slots[i].conn = NoHalf
            BY <1>0, <1>2, <3>1, FitStays DEF SlotsKept
        <3> QED BY <1>2, <2>2, <3>1 DEF SlotsKept, SlotFits
    <2>5. SlotsDiffer'
        BY <1>0, <1>2, SameDiffer
    <2>6. \A q \in GattHalves : HalfFits(q)'
        BY <2>2, <2>3
    <2> QED BY <1>0, <2>4, <2>5, <2>6, NewKept
<1>3. CASE GattConnected(p)
    <2>1. handles[p] = {}
        BY <1>3 DEF Shape, PhaseShape, Gone, GattConnected
    <2>2. cursor' = [cursor EXCEPT ![p] = Cursor("service", 1)] /\ slots' = slots
        BY <1>3, <2>1 DEF GattConnected
    <2>3. \A q \in GattHalves \ {p} : gatt_state'[q] = gatt_state[q]
        BY <1>0, <1>3 DEF GattConnected
    <2>4. \A i \in InputSlots : slots[i].conn # p
        BY <1>0, <1>3 DEF GattConnected, SlotsKept, SlotFits, Serves
    <2> QED BY <1>2, <2>2, <2>3, <2>4
<1>4. CASE FindService(p)
    <2>1. cursor[p].mode = "service" /\ cursor[p].at = 1
        BY <1>4 DEF FindService, Discovering, SlotsKept, HalfFits
    <2>2. \A i \in InputSlots : slots[i].conn # p
        <3> SUFFICES ASSUME NEW i \in InputSlots, slots[i].conn = p PROVE FALSE
            OBVIOUS
        <3>1. Serves(i, p)
            BY <1>0 DEF SlotsKept, SlotFits
        <3>2. slots[i].value \in IndexOf(p, "input") /\ slots[i].value < 1
            BY <2>1, <3>1 DEF Serves, Finished, InHand, Passed
        <3>3. slots[i].value \in Nat /\ slots[i].value >= 1
            BY <1>0, <3>2, TableFacts DEF IndexOf, CentralShape
        <3> QED BY <3>2, <3>3
    <2> QED BY <1>2, <1>4, <2>2 DEF FindService
<1>5. CASE Lose(p)
    <2>1. /\ gatt_state'[p] = "open" /\ slots' = ReleasedInputs(p)
          /\ \A q \in GattHalves \ {p} : gatt_state'[q] = gatt_state[q] /\ cursor'[q] = cursor[q]
        BY <1>5, ShapeLose DEF Lose
    <2>2. cursor'[p].mode = "none"
        BY <1>0, <1>5 DEF Lose, Cursor
    <2>3. \A i \in InputSlots :
            IF slots[i].conn = p THEN slots'[i].conn = NoHalf /\ ~slots'[i].subscribed ELSE slots'[i] = slots[i]
        BY <1>0, <2>1, IsReleased
    <2>4. /\ \A i \in InputSlots : slots[i].conn \in GattHalves \ {p} => SlotFits(i)'
          /\ \A q \in GattHalves \ {p} : HalfFits(q)'
        BY <1>0, <2>1, <2>3, OthersStay
    <2>5. HalfFits(p)'
        BY <2>1, <2>2 DEF HalfFits
    <2>6. ASSUME NEW i \in InputSlots PROVE SlotFits(i)'
        <3>1. CASE slots[i].conn = p
            BY <2>3, <3>1 DEF SlotFits
        <3>2. CASE slots[i].conn = NoHalf
            BY <1>0, <2>3, <3>2, FitStays DEF SlotsKept
        <3> QED BY <2>4, <3>1, <3>2 DEF SlotsKept, SlotFits
    <2>7. SlotsDiffer'
        BY <1>0, <2>3, SameDiffer
    <2>8. \A q \in GattHalves : HalfFits(q)'
        BY <2>4, <2>5
    <2> QED BY <1>0, <2>6, <2>7, <2>8, NewKept
<1> QED BY <1>3, <1>4, <1>5

LEMMA SlotsInit == GattInit => SlotsKept
<1> SUFFICES ASSUME GattInit PROVE SlotsKept
    OBVIOUS
<1>1. \A i \in InputSlots : slots[i].conn = NoHalf /\ ~slots[i].subscribed
    BY DEF GattInit, EmptySlot
<1>2. \A p \in GattHalves : gatt_state[p] = "open" /\ cursor[p].mode = "none"
    BY DEF GattInit, Cursor
<1> QED BY <1>1, <1>2 DEF SlotsKept, SlotFits, SlotsDiffer, HalfFits

LEMMA SlotsStep == Numbered /\ Shape /\ KindsFound /\ SlotsKept /\ [GattNext]_gatt_vars => SlotsKept'
<1> SUFFICES ASSUME Numbered, Shape, KindsFound, SlotsKept, [GattNext]_gatt_vars PROVE SlotsKept'
    OBVIOUS
<1> USE DEF central_vars, event_vars, command_vars, half_vars, history_vars
<1>1. ASSUME UNCHANGED <<build, gatt_state, cursor, slots>> PROVE SlotsKept'
    <2>1. \A i \in InputSlots : SlotFits(i)'
        BY <1>1, FitStays DEF SlotsKept
    <2>2. \A q \in GattHalves : HalfFits(q)'
        BY <1>1, HalfStays DEF SlotsKept
    <2>3. SlotsDiffer'
        BY <1>1, SameDiffer DEF SlotsKept
    <2> QED BY <1>1, <2>1, <2>2, <2>3, NewKept
<1>2. ASSUME NEW p \in GattHalves,
             \/ Turn(p) \/ SendTurn(p) \/ Drain(p) \/ Asked(p) \/ RunBehavior(p) \/ UpdateIndicators(p)
             \/ ShowLights(p) \/ GattNotified(p) \/ \E k \in IndexOf(p, "input") : Move(p, k)
      PROVE  SlotsKept'
    <2>1. UNCHANGED <<build, gatt_state, cursor, slots>>
        BY <1>2 DEF Turn, SendTurn, Drain, Asked, RunBehavior, UpdateIndicators, ShowLights, GattNotified, Move
    <2> QED BY <1>1, <2>1
<1>3. ASSUME \/ HostConnected \/ HostDisconnected \/ RaiseSensor \/ RaiseInput \/ RaiseLevel \/ LedsChanged
             \/ PutCommand \/ Overtaken \/ RunCommand \/ DropCommand \/ \E key \in SUBSET GattHalves : Press(key)
             \/ \E e \in Endpoints : SelectEndpoint(e) \/ \E value \in {0, 1} : HostLights(e, value)
      PROVE  SlotsKept'
    <2>1. UNCHANGED <<build, gatt_state, cursor, slots>>
        BY <1>3 DEF HostConnected, HostDisconnected, RaiseSensor, RaiseInput, RaiseLevel, LedsChanged,
           PutCommand, Overtaken, RunCommand, DropCommand, Press, SelectEndpoint, HostLights
    <2> QED BY <1>1, <2>1
<1>4. ASSUME NEW p \in GattHalves,
             FindCharacteristic(p) \/ FindInput(p) \/ FindCcc(p) \/ FindCpf(p)
      PROVE  SlotsKept'
    BY <1>4, SlotsDiscovery
<1>5. ASSUME NEW p \in GattHalves, GattConnected(p) \/ FindService(p) \/ GattLoss(p) \/ Restart(p) PROVE SlotsKept'
    BY <1>5, SlotsLink DEF GattLoss, Restart
<1>6. CASE UNCHANGED gatt_vars
    BY <1>1, <1>6 DEF gatt_vars
<1>7. CASE GattNext
    <2>1. GattHalves \in SUBSET GattHalves /\ \A p \in GattHalves : {p} \in SUBSET GattHalves
        OBVIOUS
    <2> QED BY <1>2, <1>3, <1>4, <1>5, <1>7, <2>1 DEF GattNext, Internal
<1> QED BY <1>6, <1>7
-----------------------------------------------------------------------------
(* The numbers under which movements are raised.                             *)
OwnReg == {x \in Heard : x.kind = "input" => x.source \in GattHalves /\ x.reg = Table(x.source)[x.chr].reg}
RegsKept == gatt_events \in Seq(OwnReg) /\ UnderItsOwnReg

LEMMA OwnRegPut ==
    ASSUME gatt_events \in Seq(OwnReg), NEW ev \in OwnReg PROVE PutLast(ev) \in Seq(OwnReg)
<1>1. Append(gatt_events, ev) \in Seq(OwnReg)
    OBVIOUS
<1> QED BY <1>1 DEF PutLast

LEMMA MovedIsItsOwn ==
    ASSUME NEW p \in GattHalves, NEW k \in Nat, NEW r \in Nat, r = Table(p)[k].reg
    PROVE  Moved(p, k, r) \in OwnReg
<1> DEFINE ev == Moved(p, k, r)
<1>1. ev.source = p /\ ev.chr = k /\ ev.reg = r
    <2>1. Rec("input", p) = [source |-> p, kind |-> "input", level |-> 0, reg |-> 0, chr |-> 0]
        BY DEF Rec
    <2>2. Rec("input", p) \in HeardFrom({p})
        BY <2>1 DEF HeardFrom
    <2> HIDE DEF Rec
    <2> QED BY <2>2 DEF Moved, HeardFrom
<1>2. ev \in Heard
    BY MovedType
<1> HIDE DEF ev
<1>4. ev \in OwnReg
    BY <1>1, <1>2 DEF OwnReg
<1> QED BY <1>4 DEF ev

LEMMA OwnRegStays == build' = build => OwnReg' = OwnReg
BY DEF OwnReg, Heard, HeardFrom, Table

LEMMA RegsStay == ASSUME RegsKept, build' = build, seen' = seen, gatt_events' \in Seq(OwnReg) PROVE RegsKept'
<1>1. OwnReg' = OwnReg
    BY OwnRegStays
<1>2. UnderItsOwnReg'
    BY DEF RegsKept, UnderItsOwnReg, Table
<1> QED BY <1>1, <1>2 DEF RegsKept

LEMMA RegsInit == GattInit => RegsKept
BY EmptySeq DEF GattInit, RegsKept, UnderItsOwnReg

LEMMA RegsLink ==
    ASSUME Shape, RegsKept, build' = build, HostDisconnected \/ \E p \in GattHalves : Lose(p)
    PROVE  RegsKept'
<1>0. gatt_events \in Seq(OwnReg) /\ 0 \in 0 .. 3
    BY DEF RegsKept
<1>1. CASE HostDisconnected
    <2>1. Level(Stranger, 0) \in OwnReg
        BY StrangerType DEF OwnReg
    <2>2. LastLevel(Stranger) \in Seq(OwnReg)
        BY <1>0, <2>1, OwnRegPut DEF LastLevel
    <2> QED BY <1>1, <2>2, RegsStay DEF HostDisconnected, history_vars
<1>2. ASSUME NEW p \in GattHalves, Lose(p) PROVE RegsKept'
    <2>1. Level(p, 0) \in OwnReg
        BY <1>0, LevelType DEF OwnReg
    <2>2. LastLevel(p) \in Seq(OwnReg)
        BY <1>0, <2>1, OwnRegPut DEF LastLevel
    <2> QED BY <1>2, <2>2, RegsStay DEF Lose
<1> QED BY <1>1, <1>2

LEMMA RegsNotified ==
    ASSUME Shape, SlotsKept, RegsKept, NEW p \in GattHalves, GattNotified(p)
    PROVE  RegsKept'
<1>0. /\ gatt_events \in Seq(OwnReg) /\ build' = build /\ seen' = seen
      /\ up[p] # <<>> /\ up[p] \in Seq(HeardFrom({p})) /\ p # NoHalf
    BY GattAssumption DEF RegsKept, GattNotified, Shape, AirShape
<1> DEFINE x == Head(up[p])
<1>1. x \in HeardFrom({p}) /\ x \in Heard
    <2>1. x \in HeardFrom({p})
        BY <1>0, HeadTailProperties
    <2> QED BY <2>1 DEF Heard, HeardFrom
<1>2. CASE SensorNotified(p)
    <2>1. Turned(p) \in OwnReg
        BY TurnedType DEF OwnReg
    <2> QED BY <1>0, <1>2, <2>1, OwnRegPut, RegsStay DEF SensorNotified
<1>3. CASE LevelNotified(p)
    <2>1. x \in OwnReg /\ gatt_events' = PutLast(x)
        BY <1>1, <1>3 DEF LevelNotified, OwnReg
    <2> HIDE DEF x
    <2> QED BY <1>0, <2>1, OwnRegPut, RegsStay
<1>4. CASE InputNotified(p)
    <2> DEFINE subscribed == {i \in InputSlots : slots[i].conn = p /\ slots[i].subscribed /\ slots[i].value = x.chr}
    <2>1. CASE subscribed = {}
        BY <1>0, <1>4, <2>1, RegsStay DEF InputNotified
    <2>2. CASE subscribed # {}
        <3>1. PICK i \in subscribed : gatt_events' = PutLast(Moved(p, x.chr, slots[i].reg))
            BY <1>4, <2>2 DEF InputNotified
        <3>2. i \in InputSlots /\ slots[i].conn = p /\ slots[i].subscribed /\ slots[i].value = x.chr
            OBVIOUS
        <3>3. slots[i].reg = Table(p)[x.chr].reg
            BY <1>0, <3>2 DEF SlotsKept, SlotFits, Serves, Finished, InHand
        <3>4. x.chr \in Nat /\ slots[i].reg \in Nat
            BY <1>1, <3>2 DEF HeardFrom, Shape, CentralShape, InputSlot
        <3>5. Moved(p, x.chr, slots[i].reg) \in OwnReg
            <4> HIDE DEF x
            <4> QED BY <3>3, <3>4, MovedIsItsOwn
        <3> QED BY <1>0, <3>1, <3>5, OwnRegPut, RegsStay
    <2> QED BY <2>1, <2>2
<1> QED BY <1>2, <1>3, <1>4 DEF GattNotified

LEMMA RegsRaised ==
    ASSUME RegsKept, build' = build, RaiseSensor \/ RaiseInput \/ RaiseLevel
    PROVE  RegsKept'
<1>1. gatt_events \in Seq(OwnReg) /\ gatt_events # <<>> /\ gatt_events' = Tail(gatt_events)
    BY DEF RegsKept, RaiseSensor, RaiseInput, RaiseLevel, NextEvent
<1>2. Head(gatt_events) \in OwnReg /\ Tail(gatt_events) \in Seq(OwnReg)
    BY <1>1, HeadTailProperties
<1>3. CASE seen' = seen
    BY <1>1, <1>2, <1>3, RegsStay
<1>4. CASE RaiseInput
    <2> DEFINE x == Head(gatt_events)
               s == [source |-> x.source, chr |-> x.chr, reg |-> x.reg]
    <2>1. seen' = seen \cup {s} /\ x.kind = "input"
        BY <1>4 DEF RaiseInput, NextEvent
    <2>2. x.reg = Table(x.source)[x.chr].reg
        BY <1>2, <2>1 DEF OwnReg
    <2>3. s.reg = Table(s.source)[s.chr].reg
        BY <2>2
    <2> HIDE DEF s
    <2>4. UnderItsOwnReg'
        BY <2>1, <2>3 DEF UnderItsOwnReg, RegsKept, Table
    <2> QED BY <1>1, <1>2, <2>4, OwnRegStays DEF RegsKept
<1> QED BY <1>3, <1>4 DEF RaiseSensor, RaiseLevel, history_vars

LEMMA RegsStep == Shape /\ SlotsKept /\ RegsKept /\ [GattNext]_gatt_vars => RegsKept'
<1> SUFFICES ASSUME Shape, SlotsKept, RegsKept, [GattNext]_gatt_vars PROVE RegsKept'
    OBVIOUS
<1> USE DEF central_vars, event_vars, command_vars, half_vars, history_vars
<1>0. build' = build /\ gatt_events \in Seq(OwnReg)
    BY OnlyMoreIsLost DEF RegsKept
<1>1. ASSUME UNCHANGED <<gatt_events, seen>> PROVE RegsKept'
    BY <1>0, <1>1, RegsStay
<1>2. ASSUME NEW p \in GattHalves,
             \/ GattConnected(p) \/ FindService(p) \/ FindCharacteristic(p) \/ FindInput(p)
             \/ FindCcc(p) \/ FindCpf(p) \/ RunBehavior(p) \/ UpdateIndicators(p) \/ ShowLights(p)
             \/ Turn(p) \/ SendTurn(p) \/ Drain(p) \/ Asked(p) \/ \E k \in IndexOf(p, "input") : Move(p, k)
      PROVE  RegsKept'
    <2>1. UNCHANGED <<gatt_events, seen>>
        BY <1>2 DEF GattConnected, FindService, FindCharacteristic, FindInput, FindCcc, FindCpf, RunBehavior,
           UpdateIndicators, ShowLights, Turn, SendTurn, Drain, Asked, Move
    <2> QED BY <1>1, <2>1
<1>3. ASSUME \/ HostConnected \/ LedsChanged
             \/ PutCommand \/ Overtaken \/ RunCommand \/ DropCommand \/ \E key \in SUBSET GattHalves : Press(key)
             \/ \E e \in Endpoints : SelectEndpoint(e) \/ \E value \in {0, 1} : HostLights(e, value)
      PROVE  RegsKept'
    <2>1. UNCHANGED <<gatt_events, seen>>
        BY <1>3 DEF HostConnected, LedsChanged, PutCommand, Overtaken, RunCommand, DropCommand, Press,
           SelectEndpoint, HostLights
    <2> QED BY <1>1, <2>1
<1>4. CASE UNCHANGED gatt_vars
    BY <1>1, <1>4 DEF gatt_vars
<1>5. CASE GattNext
    <2>1. GattHalves \in SUBSET GattHalves /\ \A p \in GattHalves : {p} \in SUBSET GattHalves
        OBVIOUS
    <2>2. \A p \in GattHalves : GattLoss(p) \/ Restart(p) => Lose(p)
        BY DEF GattLoss, Restart
    <2> QED BY <1>0, <1>2, <1>3, <1>5, <2>1, <2>2, RegsLink, RegsNotified, RegsRaised DEF GattNext, Internal
<1> QED BY <1>4, <1>5

\* What discovery has ended with.
LEMMA AllIsFound == Shape /\ KindsFound /\ SlotsKept => FullyFound
<1> SUFFICES ASSUME Shape, KindsFound, SlotsKept, NEW p \in GattHalves,
                    gatt_state[p] = "connected", cursor[p].mode = "done"
             PROVE  /\ \A c \in Range(Table(p)) : c.kind # "input" => c.kind \in handles[p]
                    /\ Enough => \A k \in IndexOf(p, "input") :
                        \E i \in InputSlots : slots[i].conn = p /\ slots[i].value = k /\ slots[i].subscribed
    BY DEF FullyFound, Enough, AllInputs
<1>1. \A k : Passed(p, k)
    BY DEF Passed
<1>2. \A c \in Range(Table(p)) : c.kind # "input" => c.kind \in handles[p]
    BY <1>1 DEF KindsFound, FoundBehind, Range
<1>3. ASSUME Enough, NEW k \in IndexOf(p, "input")
      PROVE  \E i \in InputSlots : slots[i].conn = p /\ slots[i].value = k /\ slots[i].subscribed
    <2>1. PICK i \in InputSlots : slots[i].conn = p /\ slots[i].value = k
        BY <1>1, <1>3 DEF SlotsKept, HalfFits, HasSlot
    <2>2. slots[i].subscribed
        BY <2>1, GattAssumption DEF SlotsKept, SlotFits, Serves, Finished, InHand
    <2> QED BY <2>1, <2>2
<1> QED BY <1>2, <1>3

LEMMA GattTypes == Shape /\ TurnsKept => GattTypeOK
<1> SUFFICES ASSUME Shape, TurnsKept PROVE GattTypeOK
    OBVIOUS
<1>1. \A p \in GattHalves : counted[p] <= turned[p]
    <2> SUFFICES ASSUME NEW p \in GattHalves PROVE counted[p] <= turned[p]
        OBVIOUS
    <2> DEFINE a == counted[p]
               b == CountIn(gatt_events, TurnsOf(p))
               c == CountIn(up[p], TurnsOf(p))
               d == turns[p]
               e == turned[p]
    <2>1. a \in Nat /\ b \in Nat /\ c \in Nat /\ d \in Nat /\ e \in Nat
        BY CountTypes
    <2>2. a + b + c + d <= e
        BY DEF TurnsKept, Balanced, Underway
    <2> HIDE DEF a, b, c, d, e
    <2>3. a <= e
        BY <2>1, <2>2
    <2> QED BY <2>3 DEF a, e
<1>2. Len(gatt_events) <= GattEventQueue /\ Len(commands) <= CommandQueue /\ owed \subseteq GattHalves
    BY DEF Shape, EventShape, CommandShape, HistoryShape
<1>3. ASSUME NEW p \in GattHalves
      PROVE  /\ gatt_state[p] \in {"open", "connected"} /\ handles[p] \subseteq Kinds
             /\ cursor[p].at \in DOMAIN Table(p) /\ turns[p] \in 0 .. SensorQueue
             /\ cursor[p].mode \in {"none", "service", "chrc", "ccc", "cpf", "done"}
             /\ levels[p] \in 0 .. 3 /\ proxy[p] \in 0 .. 3
    BY DEF Shape, CentralShape, EventShape, HalfShape, ModeSet
<1>4. \A i \in InputSlots : slots[i].conn \in GattHalves \cup {NoHalf}
    BY DEF Shape, CentralShape, InputSlot
<1> QED BY <1>1, <1>2, <1>3, <1>4 DEF GattTypeOK

\* Discovery never confuses devices: whatever connections come and go while it is at work,
\* every device that is found has a slot of its own, its movements are raised under its own
\* number, and when discovery has ended all that a half has was found.  So it is for every
\* table of characteristics in which only the last device of a half may have the number 0
\* (split/bluetooth/central.c, split_central_chrc_discovery_func).
THEOREM DiscoveryIsRight == Numbered => (GattSpec => []DiscoveredRightly)
<1> SUFFICES ASSUME Numbered PROVE GattSpec => []DiscoveredRightly
    OBVIOUS
<1> DEFINE Inv == Shape /\ TurnsKept /\ KindsFound /\ SlotsKept /\ RegsKept
<1>1. GattInit => Inv
    BY ShapeInit, CountsInit, FoundInit, SlotsInit, RegsInit
<1>2. Inv /\ [GattNext]_gatt_vars => Inv'
    BY ShapeStep, CountsStep, FoundStep, SlotsStep, RegsStep
<1>3. Inv => DiscoveredRightly
    BY GattTypes, AllIsFound DEF RegsKept, DiscoveredRightly
<1> QED BY <1>1, <1>2, <1>3, PTL DEF GattSpec
-----------------------------------------------------------------------------
(* Types of SplitBle.                                                        *)
Shown == SUBSET Positions

PeripheralShape ==
    /\ keys \in [Peripherals -> Shown]
    /\ queue \in [Peripherals -> Seq(Shown)] /\ \A p \in Peripherals : Len(queue[p]) <= StateQueue
    /\ air \in [Peripherals -> Seq(Shown)] /\ \A p \in Peripherals : Len(air[p]) <= AirSize
    /\ attached \in [Peripherals -> BOOLEAN] /\ bonded \in [Peripherals -> BOOLEAN]
    /\ adv \in [Peripherals -> AdvStates] /\ layout \in [Peripherals -> Layouts]
    /\ stale \in [Peripherals -> BOOLEAN]

\* A slot that is not open has an address, its own; the handles are forgotten with the connection.
SlotShape ==
    /\ addrs \in [Slots -> Peripherals \cup {Nobody}]
    /\ state \in [Slots -> {"open", "connecting", "connected"}]
    /\ found \in [Slots -> 0 .. 3] /\ secured \in [Slots -> BOOLEAN]
    /\ mirror \in [Slots -> Shown] /\ raised \in [Slots -> Shown]
    /\ closing \subseteq Slots
    /\ \A i \in Slots : state[i] # "open" => addrs[i] \in Peripherals
    /\ \A i \in Slots : state[i] # "connected" => found[i] = 0
    /\ \A i, j \in Slots : addrs[i] \in Peripherals /\ addrs[i] = addrs[j] => i = j

QueueShape == events \in Seq(Event) /\ Len(events) <= EventQueue /\ lost \in BOOLEAN

WorkShape ==
    /\ scanning \in BOOLEAN
    /\ selected \in Layouts /\ layout_work \in BOOLEAN
    /\ pass \in [layout : Layouts, todo : SUBSET Slots]
    /\ active \in {"ble", "wired"} /\ wired \in BOOLEAN
    /\ wired_work \in BOOLEAN /\ ble_work \in BOOLEAN

BleShape == PeripheralShape /\ SlotShape /\ QueueShape /\ WorkShape

LEMMA BleTypes == BleShape => TypeOK
<1> SUFFICES ASSUME BleShape PROVE TypeOK
    OBVIOUS
<1>1. \A p \in Peripherals : /\ \A n \in DOMAIN queue[p] : queue[p][n] \subseteq Positions
                             /\ \A n \in DOMAIN air[p] : air[p][n] \subseteq Positions
    <2> SUFFICES ASSUME NEW p \in Peripherals
                 PROVE  /\ \A n \in DOMAIN queue[p] : queue[p][n] \in Shown
                        /\ \A n \in DOMAIN air[p] : air[p][n] \in Shown
        BY DEF Shown
    <2>1. queue[p] \in Seq(Shown) /\ air[p] \in Seq(Shown)
        BY DEF BleShape, PeripheralShape
    <2> QED BY <2>1, LenProperties, ElementOfSeq
<1>2. \A n \in DOMAIN events : events[n] \in Event
    BY LenProperties, ElementOfSeq DEF BleShape, QueueShape
<1> QED BY <1>1, <1>2 DEF BleShape, PeripheralShape, SlotShape, QueueShape, WorkShape, TypeOK, Shown

LEMMA BleShapeInit == Init => BleShape
<1> SUFFICES ASSUME Init PROVE BleShape
    OBVIOUS
<1>1. {} \in Shown /\ <<>> \in Seq(Shown) /\ <<>> \in Seq(Event) /\ Len(<<>>) = 0
    BY EmptySeq DEF Shown
<1>2. PeripheralShape
    BY <1>1, SplitAssumption DEF Init, PeripheralShape, AdvStates
<1>3. SlotShape
    BY <1>1, SplitAssumption DEF Init, SlotShape
<1>4. QueueShape
    <2>1. events = <<>> /\ lost = FALSE /\ EventQueue \in Nat
        BY SplitAssumption DEF Init
    <2>2. events \in Seq(Event) /\ lost \in BOOLEAN
        BY <1>1, <2>1
    <2>3. Len(events) <= EventQueue
        <3>1. Len(events) = 0
            BY <1>1, <2>1, Zenon
        <3> QED BY <2>1, <3>1
    <2> QED BY <2>2, <2>3 DEF QueueShape
<1>5. WorkShape
    BY SplitAssumption DEF Init, WorkShape
<1> QED BY <1>2, <1>3, <1>4, <1>5 DEF BleShape

LEMMA ShapeIsOfVars ==
    /\ PeripheralShape /\ UNCHANGED peripheral_vars => PeripheralShape'
    /\ SlotShape /\ UNCHANGED slot_vars => SlotShape'
    /\ QueueShape /\ UNCHANGED <<events, lost>> => QueueShape'
    /\ WorkShape /\ UNCHANGED <<scanning, work_vars>> => WorkShape'
BY DEF peripheral_vars, slot_vars, work_vars, PeripheralShape, SlotShape, QueueShape, WorkShape

\* send_position_state: the newest state is in the queue.
LEMMA QueuedState ==
    ASSUME NEW q \in Seq(Shown), Len(q) <= StateQueue, NEW s \in Shown
    PROVE  /\ Queued(q, s) \in Seq(Shown) /\ Len(Queued(q, s)) <= StateQueue
           /\ Queued(q, s) # <<>> /\ Queued(q, s)[Len(Queued(q, s))] = s
<1> DEFINE r == IF Len(q) < StateQueue THEN q ELSE Tail(q)
<1>1. StateQueue \in Nat \ {0} /\ Len(q) \in Nat
    BY SplitAssumption, LenProperties
<1>2. r \in Seq(Shown) /\ Len(r) < StateQueue
    <2>1. CASE Len(q) < StateQueue
        BY <2>1
    <2>2. CASE ~(Len(q) < StateQueue)
        <3>1. Len(q) = StateQueue /\ q # <<>>
            BY <1>1, <2>2, EmptySeq
        <3>2. Tail(q) \in Seq(Shown) /\ Len(Tail(q)) = Len(q) - 1
            BY <3>1, HeadTailProperties
        <3> QED BY <1>1, <2>2, <3>1, <3>2
    <2> QED BY <2>1, <2>2
<1>3. Queued(q, s) = Append(r, s)
    BY DEF Queued
<1> HIDE DEF r
<1>4. /\ Append(r, s) \in Seq(Shown) /\ Len(Append(r, s)) = Len(r) + 1
      /\ Append(r, s)[Len(r) + 1] = s /\ Len(r) \in Nat
    BY <1>2, AppendProperties, LenProperties
<1>5. Append(r, s) # <<>>
    BY <1>4, EmptySeq
<1> QED BY <1>1, <1>2, <1>3, <1>4, <1>5

\* k_msgq_put: when nothing is dropped, all of it is at the end of the queue.
LEMMA PutAll ==
    ASSUME QueueShape, NEW evs \in Seq(Event), Put(evs)
    PROVE  QueueShape' /\ (~lost' => ~lost /\ events' = events \o evs)
<1> DEFINE room == EventQueue - Len(events)
           n == IF Len(evs) <= room THEN Len(evs) ELSE room
<1>1. Len(evs) \in Nat /\ Len(events) \in Nat /\ EventQueue \in Nat /\ room \in Nat /\ n \in 0 .. Len(evs)
      /\ n <= room
    BY LenProperties, SplitAssumption DEF QueueShape
<1>2. events' = events \o SubSeq(evs, 1, n) /\ lost' = (lost \/ Len(evs) > room)
    BY DEF Put
<1>3. SubSeq(evs, 1, n) \in Seq(Event) /\ Len(SubSeq(evs, 1, n)) = n
    <2>1. \A m \in 1 .. n : evs[m] \in Event
        BY <1>1, ElementOfSeq
    <2> QED BY <1>1, <2>1, SubSeqProperties
<1>4. events' \in Seq(Event) /\ Len(events') = Len(events) + n
    BY <1>2, <1>3, ConcatProperties DEF QueueShape
<1>5. lost' \in BOOLEAN /\ (~lost' => ~lost /\ n = Len(evs))
    <2>1. (lost \/ Len(evs) > room) \in BOOLEAN
        OBVIOUS
    <2>2. ~(Len(evs) > room) => n = Len(evs)
        BY <1>1
    <2> HIDE DEF n, room
    <2> QED BY <1>2, <2>1, <2>2, Zenon
<1>6. SubSeq(evs, 1, Len(evs)) = evs
    BY SubSeqFull
<1> HIDE DEF room, n
<1>7. QueueShape'
    <2>1. Len(events') <= EventQueue
        BY <1>1, <1>4 DEF room
    <2> QED BY <1>4, <1>5, <2>1 DEF QueueShape
<1>8. ~lost' => ~lost /\ events' = events \o evs
    BY <1>2, <1>5, <1>6
<1> QED BY <1>7, <1>8

(* The events of a change from `old' to `new' of slot i: one for each        *)
(* position that differs, which says what it has become.                     *)
Differ(old, new) == SymDiff(old, new)
NewsOf(evs, i, old, new) ==
    /\ evs \in Seq(Event)
    /\ \A n \in DOMAIN evs : /\ evs[n].source = i /\ evs[n].position \in Differ(old, new)
                             /\ (evs[n].pressed <=> evs[n].position \in new)
    /\ \A k \in Differ(old, new) : \E n \in DOMAIN evs :
            evs[n].position = k /\ \A m \in DOMAIN evs : evs[m].position = k => m = n

NewsRow(i, old, new) ==
    [n \in 1 .. Cardinality(Differ(old, new)) |->
        [source |-> i, position |-> Ascending(Differ(old, new))[n],
         pressed |-> Ascending(Differ(old, new))[n] \in new]]

LEMMA RowIsNews ==
    ASSUME NEW i \in Slots, NEW old \in Shown, NEW new \in Shown
    PROVE  NewsOf(NewsRow(i, old, new), i, old, new)
<1> DEFINE D == Differ(old, new)
           A == Ascending(D)
           N == Cardinality(D)
           row == NewsRow(i, old, new)
<1>1. D \in SUBSET Positions /\ D \in SUBSET Nat /\ IsFiniteSet(D)
    <2>1. D \in SUBSET Positions
        BY DEF Shown, Differ, SymDiff
    <2> QED BY <2>1, FS_Subset, SplitAssumption
<1>2. N \in Nat
    BY <1>1, FS_CardinalityType
<1>3. /\ A \in Seq(D) /\ DOMAIN A = 1 .. N
      /\ \A k \in D : \E n \in DOMAIN A : A[n] = k /\ \A m \in DOMAIN A : A[m] = k => m = n
    BY <1>1, AscendingIsARow
<1>4. DOMAIN row = 1 .. N /\ \A n \in 1 .. N : row[n] = [source |-> i, position |-> A[n], pressed |-> A[n] \in new]
    BY DEF NewsRow
<1>5. row = [n \in 1 .. N |-> row[n]]
    BY <1>4 DEF NewsRow
<1> HIDE DEF A, N, row
<1>6. \A n \in 1 .. N : A[n] \in D
    <2>1. DOMAIN A = 1 .. Len(A)
        BY <1>3, LenProperties
    <2> QED BY <1>3, <2>1, ElementOfSeq
<1> HIDE DEF D
<1>7. \A n \in 1 .. N : /\ row[n] \in Event /\ row[n].source = i /\ row[n].position = A[n]
                        /\ (row[n].pressed <=> A[n] \in new)
    <2> SUFFICES ASSUME NEW n \in 1 .. N
                 PROVE  /\ row[n] \in Event /\ row[n].source = i /\ row[n].position = A[n]
                        /\ (row[n].pressed <=> A[n] \in new)
        OBVIOUS
    <2> DEFINE b == A[n] \in new
    <2>1. row[n] = [source |-> i, position |-> A[n], pressed |-> b]
        BY <1>4
    <2>2. A[n] \in Positions
        BY <1>1, <1>6
    <2>3. b \in BOOLEAN
        OBVIOUS
    <2> HIDE DEF b
    <2>4. row[n] \in Event /\ row[n].source = i /\ row[n].position = A[n] /\ row[n].pressed = b
        BY <2>1, <2>2, <2>3 DEF Event
    <2> QED BY <2>4, Zenon DEF b
<1>8. row \in Seq(Event)
    <2>1. row \in [1 .. N -> Event]
        BY <1>5, <1>7
    <2> QED BY <1>2, <2>1
<1>9. \A k \in D : \E n \in DOMAIN row :
            row[n].position = k /\ \A m \in DOMAIN row : row[m].position = k => m = n
    BY <1>3, <1>4, <1>7
<1>10. \A n \in DOMAIN row : /\ row[n].source = i /\ row[n].position \in D
                             /\ (row[n].pressed <=> row[n].position \in new)
    BY <1>4, <1>6, <1>7
<1> QED BY <1>8, <1>9, <1>10 DEF NewsOf, row, D

\* release_peripheral_slot: all that was down has been released.
LEMMA ReleasesAreNews ==
    ASSUME SlotShape, NEW i \in Slots
    PROVE  NewsOf(Releases(i), i, mirror[i], {})
<1>1. mirror[i] \in Shown /\ {} \in Shown
    BY DEF SlotShape, Shown
<1>2. Differ(mirror[i], {}) = mirror[i]
    BY DEF Differ, SymDiff
<1>3. InOrder(mirror[i]) = Ascending(mirror[i])
    BY DEF InOrder, Ascending
<1>4. \A n \in 1 .. Cardinality(mirror[i]) :
        [source |-> i, position |-> InOrder(mirror[i])[n], pressed |-> FALSE]
            = [source |-> i, position |-> Ascending(mirror[i])[n], pressed |-> Ascending(mirror[i])[n] \in {}]
    <2> SUFFICES ASSUME NEW n \in 1 .. Cardinality(mirror[i])
                 PROVE  [source |-> i, position |-> InOrder(mirror[i])[n], pressed |-> FALSE]
                            = [source |-> i, position |-> Ascending(mirror[i])[n],
                               pressed |-> Ascending(mirror[i])[n] \in {}]
        OBVIOUS
    <2>1. FALSE = (Ascending(mirror[i])[n] \in {})
        OBVIOUS
    <2> QED BY <1>3, <2>1, Zenon
<1>5. Releases(i) = NewsRow(i, mirror[i], {})
    BY <1>2, <1>4 DEF Releases, NewsRow
<1> QED BY <1>1, <1>5, RowIsNews

\* split_central_notify_func: what has changed.
LEMMA ChangesAreNews ==
    ASSUME SlotShape, NEW i \in Slots, NEW data \in Shown
    PROVE  LET changed == Changed(mirror[i], data)
           IN  NewsOf([n \in DOMAIN changed |->
                        [source |-> i, position |-> changed[n], pressed |-> changed[n] \in data]],
                      i, mirror[i], data)
<1> DEFINE changed == Changed(mirror[i], data)
<1>1. mirror[i] \in Shown
    BY DEF SlotShape
<1>2. changed = Ascending(Differ(mirror[i], data))
    BY DEF Changed, InOrder, Ascending, Differ
<1>3. DOMAIN changed = 1 .. Cardinality(Differ(mirror[i], data))
    BY <1>2 DEF Ascending
<1> HIDE DEF changed
<1>4. [n \in DOMAIN changed |->
        [source |-> i, position |-> changed[n], pressed |-> changed[n] \in data]] = NewsRow(i, mirror[i], data)
    BY <1>2, <1>3 DEF NewsRow
<1>5. NewsOf(NewsRow(i, mirror[i], data), i, mirror[i], data)
    BY <1>1, RowIsNews
<1> QED BY <1>4, <1>5 DEF changed
-----------------------------------------------------------------------------
(* The types, step by step.                                                  *)
LEMMA ShapeStroke ==
    ASSUME BleShape, NEW p \in Peripherals, NEW k \in Positions, Stroke(p, k)
    PROVE  BleShape'
<1>1. SlotShape' /\ QueueShape' /\ WorkShape'
    BY ShapeIsOfVars DEF BleShape, Stroke, link_vars, slot_vars, work_vars
<1>2. keys[p] \in Shown /\ queue[p] \in Seq(Shown) /\ Len(queue[p]) <= StateQueue
    BY DEF BleShape, PeripheralShape
<1>3. keys' = [keys EXCEPT ![p] = SymDiff(keys[p], {k})] /\ SymDiff(keys[p], {k}) \in Shown
    <2>1. SymDiff(keys[p], {k}) \in Shown
        BY <1>2 DEF Shown, SymDiff
    <2> QED BY <2>1 DEF Stroke
<1>4. keys' \in [Peripherals -> Shown] /\ keys'[p] \in Shown
    BY <1>3 DEF BleShape, PeripheralShape
<1>5. queue' = [queue EXCEPT ![p] = Queued(queue[p], keys'[p])]
    BY DEF Stroke
<1>6. Queued(queue[p], keys'[p]) \in Seq(Shown) /\ Len(Queued(queue[p], keys'[p])) <= StateQueue
    BY <1>2, <1>4, QueuedState
<1>7. queue' \in [Peripherals -> Seq(Shown)] /\ \A q \in Peripherals : Len(queue'[q]) <= StateQueue
    BY <1>5, <1>6 DEF BleShape, PeripheralShape
<1>8. UNCHANGED <<air, attached, bonded, adv, layout, stale>>
    BY DEF Stroke, link_vars
<1>9. PeripheralShape'
    BY <1>4, <1>7, <1>8 DEF BleShape, PeripheralShape
<1> QED BY <1>1, <1>9 DEF BleShape

LEMMA ShapeSendState ==
    ASSUME BleShape, NEW p \in Peripherals, SendState(p)
    PROVE  BleShape'
<1>1. SlotShape' /\ QueueShape' /\ WorkShape'
    BY ShapeIsOfVars DEF BleShape, SendState, work_vars, slot_vars
<1>2. /\ queue[p] \in Seq(Shown) /\ queue[p] # <<>> /\ Len(queue[p]) <= StateQueue
      /\ air[p] \in Seq(Shown) /\ Len(air[p]) <= AirSize
    BY DEF BleShape, PeripheralShape, SendState
<1>3. Head(queue[p]) \in Shown /\ Tail(queue[p]) \in Seq(Shown) /\ Len(Tail(queue[p])) = Len(queue[p]) - 1
    BY <1>2, HeadTailProperties
<1>4. Len(queue[p]) \in Nat /\ Len(air[p]) \in Nat /\ StateQueue \in Nat /\ AirSize \in Nat
    BY <1>2, LenProperties, SplitAssumption
<1>5. queue' = [queue EXCEPT ![p] = Tail(queue[p])]
    BY DEF SendState
<1>6. queue' \in [Peripherals -> Seq(Shown)] /\ \A q \in Peripherals : Len(queue'[q]) <= StateQueue
    <2>1. Len(Tail(queue[p])) <= StateQueue
        BY <1>2, <1>3, <1>4
    <2> QED BY <1>3, <1>5, <2>1 DEF BleShape, PeripheralShape
<1>7. stale' \in [Peripherals -> BOOLEAN]
    BY DEF BleShape, PeripheralShape, SendState
<1>8. air' \in [Peripherals -> Seq(Shown)] /\ \A q \in Peripherals : Len(air'[q]) <= AirSize
    <2>1. CASE air' = air
        BY <2>1 DEF BleShape, PeripheralShape
    <2>2. CASE Len(air[p]) < AirSize /\ air' = [air EXCEPT ![p] = Append(air[p], Head(queue[p]))]
        <3>1. Append(air[p], Head(queue[p])) \in Seq(Shown) /\ Len(Append(air[p], Head(queue[p]))) = Len(air[p]) + 1
            BY <1>2, <1>3, AppendProperties
        <3>2. Len(Append(air[p], Head(queue[p]))) <= AirSize
            BY <1>4, <2>2, <3>1
        <3> QED BY <2>2, <3>1, <3>2 DEF BleShape, PeripheralShape
    <2> QED BY <2>1, <2>2 DEF SendState
<1>9. UNCHANGED <<keys, attached, bonded, adv, layout>>
    BY DEF SendState
<1>10. PeripheralShape'
    BY <1>6, <1>7, <1>8, <1>9 DEF BleShape, PeripheralShape
<1> QED BY <1>1, <1>10 DEF BleShape

LEMMA ShapeHeard ==
    ASSUME BleShape, NEW p \in Peripherals, Advertise(p) \/ AdvTimeout(p)
    PROVE  BleShape'
<1>1. SlotShape' /\ QueueShape' /\ WorkShape'
    BY ShapeIsOfVars DEF BleShape, Advertise, AdvTimeout, slot_vars, work_vars
<1>2. adv' \in [Peripherals -> AdvStates]
    BY DEF BleShape, PeripheralShape, Advertise, AdvTimeout, AdvStates
<1>3. UNCHANGED <<keys, queue, attached, bonded, layout, air, stale>>
    BY DEF Advertise, AdvTimeout
<1>4. PeripheralShape'
    BY <1>2, <1>3 DEF BleShape, PeripheralShape
<1> QED BY <1>1, <1>4 DEF BleShape

LEMMA ShapeGone ==
    ASSUME BleShape, NEW p \in Peripherals, Dropped(p) \/ Boot(p)
    PROVE  BleShape'
<1>1. SlotShape' /\ QueueShape' /\ WorkShape'
    BY ShapeIsOfVars DEF BleShape, Dropped, Boot, slot_vars, work_vars
<1>2. /\ {} \in Shown /\ <<>> \in Seq(Shown) /\ Len(<<>>) = 0 /\ "submitted" \in AdvStates
      /\ StateQueue \in Nat /\ AirSize \in Nat /\ 0 \in Layouts
    BY EmptySeq, SplitAssumption DEF Shown, AdvStates
<1>3. /\ air' = [air EXCEPT ![p] = <<>>] /\ attached' = [attached EXCEPT ![p] = FALSE]
      /\ adv' = [adv EXCEPT ![p] = "submitted"] /\ bonded' = bonded
      /\ keys' = keys \/ keys' = [keys EXCEPT ![p] = {}]
      /\ queue' = queue \/ queue' = [queue EXCEPT ![p] = <<>>]
      /\ layout' = layout \/ layout' = [layout EXCEPT ![p] = 0]
      /\ stale' = stale \/ stale' = [stale EXCEPT ![p] = TRUE]
    BY DEF Dropped, Boot
<1>4. air' \in [Peripherals -> Seq(Shown)] /\ \A q \in Peripherals : Len(air'[q]) <= AirSize
    <2>1. air \in [Peripherals -> Seq(Shown)] /\ \A q \in Peripherals : Len(air[q]) <= AirSize
        BY DEF BleShape, PeripheralShape
    <2>2. air' \in [Peripherals -> Seq(Shown)] /\ \A q \in Peripherals : air'[q] = air[q] \/ air'[q] = <<>>
        BY <1>2, <1>3, <2>1
    <2> QED BY <1>2, <2>1, <2>2
<1>5. queue' \in [Peripherals -> Seq(Shown)] /\ \A q \in Peripherals : Len(queue'[q]) <= StateQueue
    <2>1. queue \in [Peripherals -> Seq(Shown)] /\ \A q \in Peripherals : Len(queue[q]) <= StateQueue
        BY DEF BleShape, PeripheralShape
    <2>2. queue' \in [Peripherals -> Seq(Shown)] /\ \A q \in Peripherals : queue'[q] = queue[q] \/ queue'[q] = <<>>
        BY <1>2, <1>3, <2>1
    <2> QED BY <1>2, <2>1, <2>2
<1>6. /\ keys' \in [Peripherals -> Shown] /\ attached' \in [Peripherals -> BOOLEAN]
      /\ bonded' \in [Peripherals -> BOOLEAN] /\ adv' \in [Peripherals -> AdvStates]
      /\ layout' \in [Peripherals -> Layouts] /\ stale' \in [Peripherals -> BOOLEAN]
    BY <1>2, <1>3 DEF BleShape, PeripheralShape
<1>7. PeripheralShape'
    BY <1>4, <1>5, <1>6 DEF PeripheralShape
<1> QED BY <1>1, <1>7 DEF BleShape

LEMMA ShapeFound ==
    ASSUME BleShape, NEW p \in Peripherals, Found(p) \/ FoundInVain(p)
    PROVE  BleShape'
<1>1. PeripheralShape' /\ QueueShape'
    BY ShapeIsOfVars DEF BleShape, Found, FoundInVain
<1>2. WorkShape'
    BY DEF BleShape, WorkShape, Found, FoundInVain, work_vars
<1>3. SlotFor(p) \subseteq Slots
    BY DEF SlotFor
<1>4. PICK i \in SlotFor(p) : /\ state[i] = "open" /\ addrs' = [addrs EXCEPT ![i] = p]
                              /\ state' = [state EXCEPT ![i] = "connecting"] \/ state' = state
    BY DEF Found, FoundInVain
<1>5. i \in Slots
    BY <1>3
<1>6. \A j \in Slots : addrs[j] = p => j = i
    <2>1. CASE \E j \in Slots : addrs[j] = p
        <3>1. addrs[i] = p
            BY <2>1 DEF SlotFor
        <3> QED BY <1>5, <3>1 DEF BleShape, SlotShape
    <2>2. CASE ~\E j \in Slots : addrs[j] = p
        BY <2>2
    <2> QED BY <2>1, <2>2
<1>7. UNCHANGED <<found, secured, mirror, raised, closing>>
    BY DEF Found, FoundInVain
<1>8. /\ addrs' \in [Slots -> Peripherals \cup {Nobody}] /\ addrs'[i] = p
      /\ \A j \in Slots \ {i} : addrs'[j] = addrs[j]
    BY <1>4, <1>5 DEF BleShape, SlotShape
<1>9. /\ state' \in [Slots -> {"open", "connecting", "connected"}] /\ state'[i] \in {"open", "connecting"}
      /\ \A j \in Slots \ {i} : state'[j] = state[j]
    BY <1>4, <1>5 DEF BleShape, SlotShape
<1>10. \A j \in Slots : state'[j] # "open" => addrs'[j] \in Peripherals
    BY <1>8, <1>9 DEF BleShape, SlotShape
<1>11. \A j \in Slots : state'[j] # "connected" => found'[j] = 0
    <2>1. found[i] = 0
        BY <1>4, <1>5 DEF BleShape, SlotShape
    <2> QED BY <1>7, <1>9, <2>1 DEF BleShape, SlotShape
<1>12. \A j, l \in Slots : addrs'[j] \in Peripherals /\ addrs'[j] = addrs'[l] => j = l
    BY <1>6, <1>8 DEF BleShape, SlotShape
<1>13. SlotShape'
    BY <1>7, <1>8, <1>9, <1>10, <1>11, <1>12 DEF BleShape, SlotShape
<1> QED BY <1>1, <1>2, <1>13 DEF BleShape

LEMMA ShapeConnected ==
    ASSUME BleShape, NEW i \in Slots, Connected(i)
    PROVE  BleShape'
<1>1. QueueShape'
    BY ShapeIsOfVars DEF BleShape, Connected
<1>2. WorkShape'
    BY DEF BleShape, WorkShape, Connected, StartScanning
<1>3. /\ state' = [state EXCEPT ![i] = "connected"] /\ state[i] = "connecting"
      /\ UNCHANGED <<addrs, found, secured, mirror, closing, raised>>
    BY DEF Connected
<1>4. SlotShape'
    BY <1>3 DEF BleShape, SlotShape
<1>5. /\ attached' \in [Peripherals -> BOOLEAN] /\ stale' \in [Peripherals -> BOOLEAN]
      /\ adv' \in [Peripherals -> AdvStates] /\ UNCHANGED <<keys, queue, bonded, layout, air>>
    BY DEF BleShape, PeripheralShape, Connected, AdvStates
<1>6. PeripheralShape'
    BY <1>5 DEF BleShape, PeripheralShape
<1> QED BY <1>1, <1>2, <1>4, <1>6 DEF BleShape

LEMMA ShapeReleased ==
    ASSUME BleShape, NEW i \in Slots, ConnectionFailed(i) \/ Disconnected(i)
    PROVE  BleShape'
<1>1. PeripheralShape'
    BY ShapeIsOfVars DEF BleShape, ConnectionFailed, Disconnected
<1>2. WorkShape'
    BY DEF BleShape, WorkShape, ConnectionFailed, Disconnected, StartScanning, work_vars
<1>3. ReleaseSlot(i) /\ UNCHANGED <<addrs, raised>>
    BY DEF ConnectionFailed, Disconnected
<1>4. QueueShape'
    <2>1. Releases(i) \in Seq(Event)
        BY ReleasesAreNews DEF BleShape, NewsOf
    <2> QED BY <1>3, <2>1, PutAll DEF BleShape, ReleaseSlot
<1>5. /\ state' = [state EXCEPT ![i] = "open"] /\ mirror' = [mirror EXCEPT ![i] = {}]
      /\ found' = [found EXCEPT ![i] = 0] /\ secured' = [secured EXCEPT ![i] = FALSE]
      /\ closing' = closing \ {i} /\ {} \in Shown
    BY <1>3 DEF ReleaseSlot, Shown
<1>6. /\ state' \in [Slots -> {"open", "connecting", "connected"}] /\ found' \in [Slots -> 0 .. 3]
      /\ mirror' \in [Slots -> Shown] /\ secured' \in [Slots -> BOOLEAN] /\ closing' \subseteq Slots
    BY <1>5 DEF BleShape, SlotShape
<1>7. SlotShape'
    BY <1>3, <1>5, <1>6 DEF BleShape, SlotShape
<1> QED BY <1>1, <1>2, <1>4, <1>7 DEF BleShape

LEMMA ShapeLearned ==
    ASSUME BleShape, NEW i \in Slots, Discovered(i) \/ Secured(i)
    PROVE  BleShape'
<1>1. QueueShape'
    BY ShapeIsOfVars DEF BleShape, Discovered, Secured
<1>2. WorkShape'
    BY DEF BleShape, WorkShape, Discovered, Secured
<1>3. PeripheralShape'
    BY DEF BleShape, PeripheralShape, Discovered, Secured, peripheral_vars
<1>4. SlotShape'
    <2>1. state[i] = "connected" /\ UNCHANGED <<addrs, state, mirror, raised, closing>>
        BY DEF Discovered, Secured
    <2>2. found' \in [Slots -> 0 .. 3] /\ secured' \in [Slots -> BOOLEAN]
        <3>1. ASSUME Discovered(i) PROVE found' \in [Slots -> 0 .. 3] /\ secured' = secured
            <4>1. found[i] + 1 \in 0 .. 3
                BY <3>1 DEF Discovered, BleShape, SlotShape
            <4> QED BY <3>1, <4>1 DEF Discovered, BleShape, SlotShape
        <3> QED BY <3>1 DEF Secured, BleShape, SlotShape
    <2>3. \A j \in Slots : j # i => found'[j] = found[j]
        BY DEF Discovered, Secured, BleShape, SlotShape
    <2> QED BY <2>1, <2>2, <2>3 DEF BleShape, SlotShape
<1> QED BY <1>1, <1>2, <1>3, <1>4 DEF BleShape

LEMMA ShapeNotified ==
    ASSUME BleShape, NEW i \in Slots, Notified(i)
    PROVE  /\ BleShape'
           /\ Head(air[addrs[i]]) \in Shown
           /\ addrs[i] \in Peripherals
<1>1. WorkShape'
    BY DEF BleShape, WorkShape, Notified, work_vars
<1>2. addrs[i] \in Peripherals /\ air[addrs[i]] # <<>> /\ air[addrs[i]] \in Seq(Shown) /\ Len(air[addrs[i]]) <= AirSize
    BY DEF BleShape, SlotShape, PeripheralShape, Notified
<1> DEFINE data == Head(air[addrs[i]])
           changed == Changed(mirror[i], data)
           evs == [n \in DOMAIN changed |->
                    [source |-> i, position |-> changed[n], pressed |-> changed[n] \in data]]
<1>3. data \in Shown /\ Tail(air[addrs[i]]) \in Seq(Shown) /\ Len(Tail(air[addrs[i]])) = Len(air[addrs[i]]) - 1
    BY <1>2, HeadTailProperties
<1>4. Put(evs) /\ mirror' = [mirror EXCEPT ![i] = data] /\ air' = [air EXCEPT ![addrs[i]] = Tail(air[addrs[i]])]
      /\ UNCHANGED <<keys, queue, attached, bonded, adv, layout, stale, addrs, state, found, secured, closing, raised>>
    BY DEF Notified
<1>5. evs \in Seq(Event)
    BY <1>3, ChangesAreNews DEF BleShape, NewsOf
<1> HIDE DEF evs, changed, data
<1>6. QueueShape'
    BY <1>4, <1>5, PutAll DEF BleShape
<1>7. SlotShape'
    BY <1>3, <1>4 DEF BleShape, SlotShape
<1>8. air' \in [Peripherals -> Seq(Shown)] /\ \A q \in Peripherals : Len(air'[q]) <= AirSize
    <2>1. Len(Tail(air[addrs[i]])) <= AirSize
        <3>1. Len(air[addrs[i]]) \in Nat /\ AirSize \in Nat
            BY <1>2, LenProperties, SplitAssumption
        <3> QED BY <1>2, <1>3, <3>1
    <2> QED BY <1>3, <1>4, <2>1 DEF BleShape, PeripheralShape
<1>9. PeripheralShape'
    BY <1>4, <1>8 DEF BleShape, PeripheralShape
<1> QED BY <1>1, <1>2, <1>3, <1>6, <1>7, <1>9 DEF BleShape, data

LEMMA ShapeRaise ==
    ASSUME BleShape, Raise
    PROVE  BleShape'
<1>1. PeripheralShape' /\ WorkShape'
    BY ShapeIsOfVars DEF BleShape, Raise
<1>2. events \in Seq(Event) /\ events # <<>> /\ Len(events) <= EventQueue
    BY DEF BleShape, QueueShape, Raise
<1> DEFINE ev == Head(events)
<1>3. ev \in Event /\ events' \in Seq(Event) /\ Len(events') = Len(events) - 1
    BY <1>2, HeadTailProperties DEF Raise
<1>4. QueueShape'
    <2>1. Len(events) \in Nat /\ EventQueue \in Nat
        BY <1>2, LenProperties, SplitAssumption
    <2>2. lost' \in BOOLEAN
        BY DEF Raise, BleShape, QueueShape
    <2>3. Len(events') <= EventQueue
        BY <1>2, <1>3, <2>1
    <2> QED BY <1>3, <2>2, <2>3 DEF QueueShape
<1>5. SlotShape'
    <2>1. ev.position \in Positions
        BY <1>3 DEF Event
    <2>2. raised' = raised \/ raised' = [raised EXCEPT ![ev.source] = raised[ev.source] \cup {ev.position}]
          \/ raised' = [raised EXCEPT ![ev.source] = raised[ev.source] \ {ev.position}]
        BY DEF Raise
    <2>3. ev.source \in Slots
        BY <1>3 DEF Event
    <2> HIDE DEF ev
    <2>4. raised[ev.source] \in Shown
        BY <2>3 DEF BleShape, SlotShape
    <2>5. raised' \in [Slots -> Shown]
        BY <2>1, <2>2, <2>4 DEF BleShape, SlotShape, Shown
    <2>6. UNCHANGED <<addrs, state, found, secured, mirror, closing>>
        BY DEF Raise
    <2> QED BY <2>5, <2>6 DEF BleShape, SlotShape
<1> QED BY <1>1, <1>4, <1>5 DEF BleShape

LEMMA ShapeCentral ==
    ASSUME BleShape,
           \/ TellLayout \/ BleStatus \/ WiredStatus \/ Plug
           \/ \E i \in Slots : WriteLayout(i)
           \/ \E l \in Layouts : SelectLayout(l)
    PROVE  BleShape'
<1>1. QueueShape'
    BY ShapeIsOfVars DEF BleShape, TellLayout, BleStatus, WiredStatus, Plug, WriteLayout, SelectLayout
<1>2. SlotShape'
    <2>1. closing' \subseteq Slots
        BY DEF BleShape, SlotShape, TellLayout, BleStatus, WiredStatus, Plug, WriteLayout, SelectLayout,
               SelectTransport, slot_vars
    <2>2. UNCHANGED <<addrs, state, found, secured, mirror, raised>>
        BY DEF TellLayout, BleStatus, WiredStatus, Plug, WriteLayout, SelectLayout, slot_vars
    <2> QED BY <2>1, <2>2 DEF BleShape, SlotShape
<1>3. PeripheralShape'
    <2>1. ASSUME NEW i \in Slots, WriteLayout(i) PROVE PeripheralShape'
        <3>1. layout' \in [Peripherals -> Layouts] /\ UNCHANGED <<keys, queue, attached, bonded, adv, air, stale>>
            BY <2>1 DEF BleShape, WorkShape, PeripheralShape, WriteLayout
        <3> QED BY <3>1 DEF BleShape, PeripheralShape
    <2>2. ASSUME UNCHANGED peripheral_vars PROVE PeripheralShape'
        BY <2>2, ShapeIsOfVars DEF BleShape
    <2> QED BY <2>1, <2>2 DEF TellLayout, BleStatus, WiredStatus, Plug, SelectLayout
<1>4. WorkShape'
    <2>1. ASSUME BleStatus \/ WiredStatus PROVE WorkShape'
        <3>1. active' \in {"ble", "wired"} /\ scanning' \in BOOLEAN
            <4>1. CASE UNCHANGED <<active, scanning, closing>>
                BY <4>1 DEF BleShape, WorkShape
            <4>2. CASE SelectTransport
                BY <4>2 DEF BleShape, WorkShape, SelectTransport, StartScanning
            <4> QED BY <2>1, <4>1, <4>2 DEF BleStatus, WiredStatus
        <3> QED BY <2>1, <3>1 DEF BleShape, WorkShape, BleStatus, WiredStatus
    <2>2. ASSUME TellLayout PROVE WorkShape'
        BY <2>2 DEF BleShape, WorkShape, TellLayout
    <2>3. ASSUME Plug PROVE WorkShape'
        BY <2>3 DEF BleShape, WorkShape, Plug
    <2>4. ASSUME NEW i \in Slots, WriteLayout(i) PROVE WorkShape'
        BY <2>4 DEF BleShape, WorkShape, WriteLayout
    <2>5. ASSUME NEW l \in Layouts, SelectLayout(l) PROVE WorkShape'
        BY <2>5 DEF BleShape, WorkShape, SelectLayout
    <2> QED BY <2>1, <2>2, <2>3, <2>4, <2>5
<1> QED BY <1>1, <1>2, <1>3, <1>4 DEF BleShape

LEMMA BleShapeStep == BleShape /\ [Next]_vars => BleShape'
<1> SUFFICES ASSUME BleShape, [Next]_vars PROVE BleShape'
    OBVIOUS
<1>1. ASSUME NEW p \in Peripherals, NEW k \in Positions, Stroke(p, k) PROVE BleShape'
    BY <1>1, ShapeStroke
<1>2. ASSUME NEW p \in Peripherals, Boot(p) \/ Loss(p) \/ HangUp(p) PROVE BleShape'
    BY <1>2, ShapeGone DEF Loss, HangUp
<1>3. ASSUME NEW p \in Peripherals, SendState(p) PROVE BleShape'
    BY <1>3, ShapeSendState
<1>4. ASSUME NEW p \in Peripherals, Advertise(p) \/ AdvTimeout(p) PROVE BleShape'
    BY <1>4, ShapeHeard
<1>5. ASSUME NEW p \in Peripherals, Found(p) \/ FoundInVain(p) PROVE BleShape'
    BY <1>5, ShapeFound
<1>6. ASSUME NEW i \in Slots, Connected(i) PROVE BleShape'
    BY <1>6, ShapeConnected
<1>7. ASSUME NEW i \in Slots, ConnectionFailed(i) \/ Disconnected(i) PROVE BleShape'
    BY <1>7, ShapeReleased
<1>8. ASSUME NEW i \in Slots, Discovered(i) \/ Secured(i) PROVE BleShape'
    BY <1>8, ShapeLearned
<1>9. ASSUME NEW i \in Slots, Notified(i) PROVE BleShape'
    BY <1>9, ShapeNotified
<1>10. ASSUME Raise PROVE BleShape'
    BY <1>10, ShapeRaise
<1>11. ASSUME \/ TellLayout \/ BleStatus \/ WiredStatus \/ Plug
              \/ \E i \in Slots : WriteLayout(i)
              \/ \E l \in Layouts : SelectLayout(l)
       PROVE  BleShape'
    BY <1>11, ShapeCentral
<1>12. ASSUME UNCHANGED vars PROVE BleShape'
    BY <1>12, ShapeIsOfVars DEF vars, BleShape
<1> QED BY <1>1, <1>2, <1>3, <1>4, <1>5, <1>6, <1>7, <1>8, <1>9, <1>10, <1>11, <1>12 DEF Next
-----------------------------------------------------------------------------
(* The newest state of a peripheral is the last in its queue; else, if one   *)
(* got through on this connection, the last on the air; else the central's   *)
(* copy.                                                                     *)
Newest(s) == s[Len(s)]
StateComes(p) ==
    /\ queue[p] # <<>> => Newest(queue[p]) = keys[p]
    /\ attached[p] /\ ~stale[p] /\ queue[p] = <<>> =>
        /\ air[p] # <<>> => Newest(air[p]) = keys[p]
        /\ air[p] = <<>> => \A i \in Slots : state[i] = "connected" /\ addrs[i] = p => mirror[i] = keys[p]
StatesKept == \A p \in Peripherals : StateComes(p)

LEMMA NewestOfTail ==
    ASSUME NEW S, NEW s \in Seq(S), s # <<>>
    PROVE  /\ Tail(s) # <<>> => Newest(Tail(s)) = Newest(s)
           /\ Tail(s) = <<>> => Head(s) = Newest(s)
<1>1. /\ Len(s) \in Nat \ {0} /\ Head(s) = s[1] /\ Tail(s) \in Seq(S) /\ Len(Tail(s)) = Len(s) - 1
      /\ \A n \in 1 .. Len(Tail(s)) : Tail(s)[n] = s[n + 1]
    BY HeadTailProperties, LenProperties, EmptySeq
<1>2. ASSUME Tail(s) # <<>> PROVE Newest(Tail(s)) = Newest(s)
    <2>1. Len(Tail(s)) \in Nat \ {0}
        BY <1>1, <1>2, EmptySeq, LenProperties
    <2>2. Tail(s)[Len(Tail(s))] = s[Len(Tail(s)) + 1] /\ Len(Tail(s)) + 1 = Len(s)
        BY <1>1, <2>1
    <2> QED BY <2>2 DEF Newest
<1>3. ASSUME Tail(s) = <<>> PROVE Head(s) = Newest(s)
    <2>1. Len(Tail(s)) = 0
        <3>1. Tail(s) \in Seq(S) /\ \A t \in Seq(S) : t = <<>> <=> Len(t) = 0
            BY <1>1, EmptySeq
        <3> QED BY <1>3, <3>1, Zenon
    <2>2. Len(s) = 1
        <3>1. Len(s) \in Nat /\ 0 = Len(s) - 1
            BY <1>1, <2>1, Zenon
        <3> QED BY <3>1
    <2> QED BY <1>1, <2>2 DEF Newest
<1> QED BY <1>2, <1>3

LEMMA StateStays ==
    ASSUME NEW p \in Peripherals, StateComes(p),
           /\ keys'[p] = keys[p] /\ queue'[p] = queue[p] /\ air'[p] = air[p]
           /\ attached'[p] = attached[p] /\ stale'[p] = stale[p],
           \A i \in Slots : state'[i] = "connected" /\ addrs'[i] = p =>
               state[i] = "connected" /\ addrs[i] = p /\ mirror'[i] = mirror[i]
    PROVE  StateComes(p)'
BY DEF StateComes

LEMMA StatesInit == Init => StatesKept
BY DEF Init, StatesKept, StateComes

LEMMA StatesPeripheral ==
    ASSUME BleShape, StatesKept, NEW p \in Peripherals,
           (\E k \in Positions : Stroke(p, k)) \/ SendState(p) \/ Dropped(p) \/ Boot(p)
    PROVE  StatesKept'
<1>1. StateComes(p) /\ p \in Peripherals
    BY DEF StatesKept
<1>2. UNCHANGED <<state, addrs, mirror>>
    BY DEF Stroke, SendState, Dropped, Boot, link_vars, slot_vars
<1>3. ASSUME NEW q \in Peripherals, q # p PROVE StateComes(q)'
    <2>1. /\ keys'[q] = keys[q] /\ queue'[q] = queue[q] /\ air'[q] = air[q]
          /\ attached'[q] = attached[q] /\ stale'[q] = stale[q]
        BY <1>3 DEF BleShape, PeripheralShape, Stroke, SendState, Dropped, Boot, link_vars
    <2>2. StateComes(q)
        BY DEF StatesKept
    <2> QED BY <1>2, <2>1, <2>2, StateStays
<1>4. ASSUME NEW k \in Positions, Stroke(p, k) PROVE StateComes(p)'
    <2>1. keys[p] \in Shown /\ queue[p] \in Seq(Shown) /\ Len(queue[p]) <= StateQueue
        BY DEF BleShape, PeripheralShape
    <2>2. keys'[p] = SymDiff(keys[p], {k}) /\ queue'[p] = Queued(queue[p], keys'[p])
        BY <1>4 DEF Stroke, BleShape, PeripheralShape
    <2>3. keys'[p] \in Shown
        BY <2>1, <2>2 DEF Shown, SymDiff
    <2>4. queue'[p] # <<>> /\ Newest(queue'[p]) = keys'[p]
        BY <2>1, <2>2, <2>3, QueuedState DEF Newest
    <2> QED BY <2>4 DEF StateComes
<1>5. ASSUME SendState(p) PROVE StateComes(p)'
    <2>1. queue[p] \in Seq(Shown) /\ queue[p] # <<>> /\ air[p] \in Seq(Shown) /\ Newest(queue[p]) = keys[p]
        BY <1>1, <1>5 DEF BleShape, PeripheralShape, SendState, StateComes
    <2>2. queue'[p] = Tail(queue[p]) /\ keys'[p] = keys[p] /\ Head(queue[p]) \in Shown
        BY <1>5, <2>1, HeadTailProperties DEF BleShape, PeripheralShape, SendState
    <2>3. CASE queue'[p] # <<>>
        BY <2>1, <2>2, <2>3, NewestOfTail DEF StateComes
    <2>4. CASE queue'[p] = <<>>
        <3>1. Head(queue[p]) = keys'[p]
            BY <2>1, <2>2, <2>4, NewestOfTail
        <3>2. stale'[p] = TRUE \/ air'[p] = Append(air[p], Head(queue[p]))
            BY <1>5 DEF BleShape, PeripheralShape, SendState
        <3>3. Append(air[p], Head(queue[p])) # <<>> /\ Newest(Append(air[p], Head(queue[p]))) = Head(queue[p])
            <4>1. /\ Append(air[p], Head(queue[p])) \in Seq(Shown)
                  /\ Len(Append(air[p], Head(queue[p]))) = Len(air[p]) + 1
                  /\ Append(air[p], Head(queue[p]))[Len(air[p]) + 1] = Head(queue[p]) /\ Len(air[p]) \in Nat
                BY <2>1, <2>2, AppendProperties, LenProperties
            <4> QED BY <4>1, EmptySeq DEF Newest
        <3> QED BY <2>4, <3>1, <3>2, <3>3 DEF StateComes
    <2> QED BY <2>3, <2>4
<1>6. ASSUME Dropped(p) PROVE StateComes(p)'
    <2>1. attached'[p] = FALSE /\ queue' = queue /\ keys' = keys
        BY <1>6 DEF Dropped, BleShape, PeripheralShape
    <2> QED BY <1>1, <2>1 DEF StateComes
<1>7. ASSUME Boot(p) PROVE StateComes(p)'
    <2>1. attached'[p] = FALSE /\ queue'[p] = <<>>
        BY <1>7 DEF Boot, BleShape, PeripheralShape
    <2> QED BY <2>1 DEF StateComes
<1>8. StateComes(p)'
    BY <1>4, <1>5, <1>6, <1>7
<1> QED BY <1>3, <1>8 DEF StatesKept

LEMMA StatesSlot ==
    ASSUME BleShape, StatesKept, NEW i \in Slots,
           Connected(i) \/ ConnectionFailed(i) \/ Disconnected(i)
    PROVE  StatesKept'
<1>1. UNCHANGED <<keys, queue, air, addrs>>
    BY DEF Connected, ConnectionFailed, Disconnected, peripheral_vars
<1>2. \A j \in Slots \ {i} : state'[j] = state[j] /\ mirror'[j] = mirror[j]
    BY DEF Connected, ConnectionFailed, Disconnected, ReleaseSlot, BleShape, SlotShape
<1> SUFFICES ASSUME NEW p \in Peripherals PROVE StateComes(p)'
    BY DEF StatesKept
<1>3. StateComes(p)
    BY DEF StatesKept
<1>4. CASE Connected(i) /\ addrs[i] = p
    <2>1. stale'[p] = TRUE
        BY <1>4 DEF Connected, BleShape, PeripheralShape
    <2> QED BY <1>1, <1>3, <2>1 DEF StateComes
<1>5. CASE ~(Connected(i) /\ addrs[i] = p)
    <2>1. attached'[p] = attached[p] /\ stale'[p] = stale[p]
        BY <1>5 DEF Connected, ConnectionFailed, Disconnected, peripheral_vars, BleShape, PeripheralShape
    <2>2. state'[i] # "connected" \/ addrs[i] # p
        BY <1>5 DEF ConnectionFailed, Disconnected, ReleaseSlot, BleShape, SlotShape
    <2>3. \A j \in Slots : state'[j] = "connected" /\ addrs'[j] = p =>
            state[j] = "connected" /\ addrs[j] = p /\ mirror'[j] = mirror[j]
        BY <1>1, <1>2, <2>2
    <2> QED BY <1>1, <1>3, <2>1, <2>3, StateStays
<1> QED BY <1>4, <1>5

LEMMA StatesNotified ==
    ASSUME BleShape, StatesKept, NEW i \in Slots, Notified(i)
    PROVE  StatesKept'
<1>1. UNCHANGED <<keys, queue, addrs, attached, stale, state>> /\ state[i] = "connected"
    BY DEF Notified
<1>2. /\ addrs[i] \in Peripherals /\ air[addrs[i]] \in Seq(Shown) /\ air[addrs[i]] # <<>>
      /\ air'[addrs[i]] = Tail(air[addrs[i]])
      /\ \A q \in Peripherals \ {addrs[i]} : air'[q] = air[q]
      /\ mirror'[i] = Head(air[addrs[i]]) /\ \A j \in Slots \ {i} : mirror'[j] = mirror[j]
    BY DEF Notified, BleShape, PeripheralShape, SlotShape
<1> SUFFICES ASSUME NEW p \in Peripherals PROVE StateComes(p)'
    BY DEF StatesKept
<1>3. StateComes(p)
    BY DEF StatesKept
<1>4. CASE p = addrs[i]
    <2>1. \A j \in Slots : addrs[j] = p => j = i
        BY <1>4 DEF BleShape, SlotShape
    <2>2. /\ Tail(air[p]) # <<>> => Newest(Tail(air[p])) = Newest(air[p])
          /\ Tail(air[p]) = <<>> => Head(air[p]) = Newest(air[p])
        BY <1>2, <1>4, NewestOfTail
    <2> QED BY <1>1, <1>2, <1>3, <1>4, <2>1, <2>2 DEF StateComes
<1>5. CASE p # addrs[i]
    <2>1. air'[p] = air[p]
        BY <1>2, <1>5
    <2>2. \A j \in Slots : addrs[j] = p => mirror'[j] = mirror[j]
        BY <1>2, <1>5
    <2> QED BY <1>1, <1>3, <2>1, <2>2, StateStays
<1> QED BY <1>4, <1>5

LEMMA StatesElsewhere ==
    ASSUME StatesKept, UNCHANGED <<keys, queue, air, attached, stale, mirror>>,
           \A i \in Slots : state'[i] = "connected" => state[i] = "connected" /\ addrs'[i] = addrs[i]
    PROVE  StatesKept'
BY StateStays DEF StatesKept

LEMMA StatesStep == BleShape /\ StatesKept /\ [Next]_vars => StatesKept'
<1> SUFFICES ASSUME BleShape, StatesKept, [Next]_vars PROVE StatesKept'
    OBVIOUS
<1>1. ASSUME NEW p \in Peripherals,
             (\E k \in Positions : Stroke(p, k)) \/ Boot(p) \/ SendState(p) \/ Loss(p) \/ HangUp(p)
      PROVE  StatesKept'
    BY <1>1, StatesPeripheral DEF Loss, HangUp
<1>2. ASSUME NEW p \in Peripherals, Advertise(p) \/ AdvTimeout(p) PROVE StatesKept'
    BY <1>2, StatesElsewhere DEF Advertise, AdvTimeout, slot_vars
<1>3. ASSUME NEW p \in Peripherals, Found(p) \/ FoundInVain(p) PROVE StatesKept'
    <2>1. UNCHANGED <<keys, queue, air, attached, stale, mirror>>
        BY <1>3 DEF Found, FoundInVain, peripheral_vars
    <2>2. PICK i \in Slots : /\ state[i] = "open" /\ addrs' = [addrs EXCEPT ![i] = p]
                             /\ state' = [state EXCEPT ![i] = "connecting"] \/ state' = state
        BY <1>3 DEF Found, FoundInVain, SlotFor
    <2>3. \A j \in Slots : state'[j] = "connected" => state[j] = "connected" /\ addrs'[j] = addrs[j]
        BY <2>2 DEF BleShape, SlotShape
    <2> QED BY <2>1, <2>3, StatesElsewhere
<1>4. ASSUME NEW i \in Slots, Connected(i) \/ ConnectionFailed(i) \/ Disconnected(i) PROVE StatesKept'
    BY <1>4, StatesSlot
<1>5. ASSUME NEW i \in Slots, Notified(i) PROVE StatesKept'
    BY <1>5, StatesNotified
<1>6. ASSUME NEW i \in Slots, Discovered(i) \/ Secured(i) \/ WriteLayout(i) PROVE StatesKept'
    <2>1. UNCHANGED <<keys, queue, air, attached, stale, mirror, state, addrs>>
        BY <1>6 DEF Discovered, Secured, WriteLayout, peripheral_vars, slot_vars
    <2> QED BY <2>1, StatesElsewhere
<1>7. ASSUME \/ Raise \/ TellLayout \/ BleStatus \/ WiredStatus \/ Plug
             \/ \E l \in Layouts : SelectLayout(l)
      PROVE  StatesKept'
    <2>1. UNCHANGED <<keys, queue, air, attached, stale, mirror, state, addrs>>
        BY <1>7 DEF Raise, TellLayout, BleStatus, WiredStatus, Plug, SelectLayout, peripheral_vars, slot_vars
    <2> QED BY <2>1, StatesElsewhere
<1>8. ASSUME UNCHANGED vars PROVE StatesKept'
    BY <1>8, StatesElsewhere DEF vars, peripheral_vars, slot_vars
<1> QED BY <1>1, <1>2, <1>3, <1>4, <1>5, <1>6, <1>7, <1>8 DEF Next
-----------------------------------------------------------------------------
(* The layout: a slot that can be told has that of the central, or will be   *)
(* told it by the pass in progress, or by the next one.                      *)
CanBeTold(i) == state[i] = "connected" /\ attached[addrs[i]] /\ found[i] = 3 /\ secured[i]
WillBeTold(i) ==
    layout_work \/ (i \in pass.todo /\ pass.layout = selected) \/ layout[addrs[i]] = selected
LayoutsKept ==
    /\ pass.todo # {} /\ pass.layout # selected => layout_work
    /\ \A i \in Slots : CanBeTold(i) => WillBeTold(i)

LEMMA LayoutsInit == Init => LayoutsKept
BY DEF Init, LayoutsKept, CanBeTold

LEMMA LayoutsElsewhere ==
    ASSUME LayoutsKept, UNCHANGED <<selected, pass>>, layout_work => layout_work',
           \A i \in Slots : CanBeTold(i)' =>
               layout_work' \/ (CanBeTold(i) /\ layout'[addrs'[i]] = layout[addrs[i]])
    PROVE  LayoutsKept'
BY DEF LayoutsKept, WillBeTold

LEMMA LayoutsStep == BleShape /\ LayoutsKept /\ [Next]_vars => LayoutsKept'
<1> SUFFICES ASSUME BleShape, LayoutsKept, [Next]_vars PROVE LayoutsKept'
    OBVIOUS
<1>1. ASSUME NEW p \in Peripherals,
             \/ \E k \in Positions : Stroke(p, k)
             \/ SendState(p) \/ Advertise(p) \/ AdvTimeout(p)
      PROVE  LayoutsKept'
    <2>1. UNCHANGED <<attached, layout, addrs, state, found, secured, selected, layout_work, pass>>
        BY <1>1 DEF Stroke, SendState, Advertise, AdvTimeout, link_vars, slot_vars, work_vars
    <2> QED BY <2>1, LayoutsElsewhere DEF CanBeTold
<1>2. ASSUME NEW p \in Peripherals, Boot(p) \/ Dropped(p) PROVE LayoutsKept'
    <2>1. UNCHANGED <<addrs, state, found, secured, selected, layout_work, pass>>
        BY <1>2 DEF Boot, Dropped, slot_vars, work_vars
    <2>2. /\ attached'[p] = FALSE
          /\ \A q \in Peripherals \ {p} : attached'[q] = attached[q] /\ layout'[q] = layout[q]
        BY <1>2 DEF Boot, Dropped, BleShape, PeripheralShape
    <2>3. \A i \in Slots : state[i] = "connected" => addrs[i] \in Peripherals
        BY DEF BleShape, SlotShape
    <2>4. \A i \in Slots : CanBeTold(i)' => CanBeTold(i) /\ layout'[addrs'[i]] = layout[addrs[i]]
        BY <2>1, <2>2, <2>3 DEF CanBeTold
    <2> QED BY <2>1, <2>4, LayoutsElsewhere
<1>3. ASSUME NEW p \in Peripherals, Found(p) \/ FoundInVain(p) PROVE LayoutsKept'
    <2>1. UNCHANGED <<attached, layout, found, secured, selected, layout_work, pass>>
        BY <1>3 DEF Found, FoundInVain, peripheral_vars, work_vars
    <2>2. PICK i \in Slots : /\ state[i] = "open" /\ addrs' = [addrs EXCEPT ![i] = p]
                             /\ state' = [state EXCEPT ![i] = "connecting"] \/ state' = state
        BY <1>3 DEF Found, FoundInVain, SlotFor
    <2>3. \A j \in Slots : state'[j] = "connected" => state[j] = "connected" /\ addrs'[j] = addrs[j]
        BY <2>2 DEF BleShape, SlotShape
    <2> QED BY <2>1, <2>3, LayoutsElsewhere DEF CanBeTold
<1>4. ASSUME NEW i \in Slots, Connected(i) PROVE LayoutsKept'
    <2>1. /\ UNCHANGED <<layout, addrs, found, secured, selected, layout_work, pass>>
          /\ found[i] = 0 /\ addrs[i] \in Peripherals
          /\ \A q \in Peripherals \ {addrs[i]} : attached'[q] = attached[q]
          /\ \A j \in Slots \ {i} : state'[j] = state[j]
        BY <1>4 DEF Connected, BleShape, SlotShape, PeripheralShape
    <2>2. \A j \in Slots : CanBeTold(j)' => CanBeTold(j)
        <3> SUFFICES ASSUME NEW j \in Slots, CanBeTold(j)' PROVE CanBeTold(j)
            OBVIOUS
        <3>1. j # i
            BY <2>1 DEF CanBeTold
        <3>2. state[j] = "connected"
            BY <2>1, <3>1 DEF CanBeTold
        <3>3. addrs[j] # addrs[i] /\ addrs[j] \in Peripherals
            BY <2>1, <3>1, <3>2 DEF BleShape, SlotShape
        <3> QED BY <2>1, <3>2, <3>3 DEF CanBeTold
    <2> QED BY <2>1, <2>2, LayoutsElsewhere
<1>5. ASSUME NEW i \in Slots, ConnectionFailed(i) \/ Disconnected(i) PROVE LayoutsKept'
    <2>1. /\ UNCHANGED <<attached, layout, addrs, selected, layout_work, pass>>
          /\ state'[i] = "open"
          /\ \A j \in Slots \ {i} : state'[j] = state[j] /\ found'[j] = found[j] /\ secured'[j] = secured[j]
        BY <1>5 DEF ConnectionFailed, Disconnected, ReleaseSlot, peripheral_vars, work_vars, BleShape, SlotShape
    <2>2. \A j \in Slots : CanBeTold(j)' => CanBeTold(j)
        BY <2>1 DEF CanBeTold
    <2> QED BY <2>1, <2>2, LayoutsElsewhere
<1>6. ASSUME NEW i \in Slots, Discovered(i) \/ Secured(i) PROVE LayoutsKept'
    <2>1. UNCHANGED <<attached, layout, addrs, state, selected, pass>>
        BY <1>6 DEF Discovered, Secured, peripheral_vars
    <2>2. layout_work => layout_work'
        BY <1>6 DEF Discovered, Secured
    <2>3. \A j \in Slots \ {i} : found'[j] = found[j] /\ secured'[j] = secured[j]
        BY <1>6 DEF Discovered, Secured, BleShape, SlotShape
    <2>4. found'[i] = 3 /\ secured'[i] => layout_work'
        BY <1>6 DEF Discovered, Secured, BleShape, SlotShape
    <2>5. \A j \in Slots : CanBeTold(j)' => layout_work' \/ CanBeTold(j)
        BY <2>1, <2>3, <2>4 DEF CanBeTold
    <2> QED BY <2>1, <2>2, <2>5, LayoutsElsewhere
<1>7. ASSUME NEW i \in Slots, Notified(i) PROVE LayoutsKept'
    <2>1. UNCHANGED <<attached, layout, addrs, state, found, secured, selected, layout_work, pass>>
        BY <1>7 DEF Notified, work_vars
    <2> QED BY <2>1, LayoutsElsewhere DEF CanBeTold
<1>8. ASSUME NEW i \in Slots, WriteLayout(i) PROVE LayoutsKept'
    <2>1. /\ UNCHANGED <<attached, addrs, state, found, secured, selected, layout_work>>
          /\ i \in pass.todo /\ pass'.layout = pass.layout /\ pass'.todo = pass.todo \ {i}
        BY <1>8 DEF WriteLayout, slot_vars, BleShape, WorkShape
    <2>2. layout' = IF CanBeTold(i) THEN [layout EXCEPT ![addrs[i]] = pass.layout] ELSE layout
        BY <1>8 DEF WriteLayout, CanBeTold
    <2>3. ASSUME NEW j \in Slots, CanBeTold(j)' PROVE WillBeTold(j)'
        <3>1. CanBeTold(j) /\ WillBeTold(j) /\ addrs[j] \in Peripherals
            BY <2>1, <2>3 DEF CanBeTold, LayoutsKept, BleShape, SlotShape
        <3>2. CASE j = i
            <4>1. layout'[addrs[i]] = pass.layout
                BY <2>2, <3>1, <3>2 DEF BleShape, PeripheralShape
            <4>2. layout_work \/ pass.layout = selected
                BY <2>1 DEF LayoutsKept
            <4> QED BY <2>1, <3>2, <4>1, <4>2 DEF WillBeTold
        <3>3. CASE j # i
            <4>1. addrs[j] # addrs[i]
                BY <3>1, <3>3 DEF BleShape, SlotShape
            <4>2. layout'[addrs[j]] = layout[addrs[j]]
                BY <2>2, <3>1, <4>1 DEF BleShape, PeripheralShape
            <4> QED BY <2>1, <3>1, <3>3, <4>2 DEF WillBeTold
        <3> QED BY <3>2, <3>3
    <2>4. pass'.todo # {} /\ pass'.layout # selected' => layout_work'
        BY <2>1 DEF LayoutsKept
    <2> QED BY <2>3, <2>4 DEF LayoutsKept
<1>9. ASSUME TellLayout PROVE LayoutsKept'
    <2>1. pass'.todo = Slots /\ pass'.layout = selected /\ selected' = selected
        BY <1>9 DEF TellLayout
    <2> QED BY <2>1 DEF LayoutsKept, WillBeTold
<1>10. ASSUME NEW l \in Layouts, SelectLayout(l) PROVE LayoutsKept'
    <2>1. layout_work'
        BY <1>10 DEF SelectLayout
    <2> QED BY <2>1 DEF LayoutsKept, WillBeTold
<1>11. ASSUME Raise \/ BleStatus \/ WiredStatus \/ Plug PROVE LayoutsKept'
    <2>1. UNCHANGED <<attached, layout, addrs, state, found, secured, selected, layout_work, pass>>
        BY <1>11 DEF Raise, BleStatus, WiredStatus, Plug, peripheral_vars, slot_vars, work_vars
    <2> QED BY <2>1, LayoutsElsewhere DEF CanBeTold
<1>12. ASSUME UNCHANGED vars PROVE LayoutsKept'
    <2>1. UNCHANGED <<attached, layout, addrs, state, found, secured, selected, layout_work, pass>>
        BY <1>12 DEF vars, peripheral_vars, slot_vars, work_vars
    <2> QED BY <2>1, LayoutsElsewhere DEF CanBeTold
<1> QED BY <1>1, <1>2, <1>3, <1>4, <1>5, <1>6, <1>7, <1>8, <1>9, <1>10, <1>11, <1>12 DEF Next, Loss, HangUp
-----------------------------------------------------------------------------
(* The events: of those about one position of one slot, each says the        *)
(* contrary of the one before, the first that of what has been raised; and   *)
(* the last says what is in the copy.                                        *)
About(i, k) == {ev \in Event : ev.source = i /\ ev.position = k}
Downs == {ev \in Event : ev.pressed}

Follows(s, T, first, last) ==
    /\ \A n \in DOMAIN s : s[n] \in T /\ (\A m \in DOMAIN s : m < n => s[m] \notin T) => (s[n] \in Downs <=> ~first)
    /\ \A m, n \in DOMAIN s :
            m < n /\ s[m] \in T /\ s[n] \in T /\ (\A l \in DOMAIN s : m < l /\ l < n => s[l] \notin T)
                => (s[n] \in Downs <=> s[m] \notin Downs)
    /\ NoneIn(s, T) => (first <=> last)
    /\ \A n \in DOMAIN s : s[n] \in T /\ (\A m \in DOMAIN s : n < m => s[m] \notin T) => (s[n] \in Downs <=> last)

EventsKept ==
    ~lost => \A i \in Slots, k \in Positions : Follows(events, About(i, k), k \in raised[i], k \in mirror[i])

LEMMA FollowsTail ==
    ASSUME NEW s \in Seq(Event), s # <<>>, NEW T, NEW first, NEW last, Follows(s, T, first, last)
    PROVE  /\ Head(s) \in T => (Head(s) \in Downs <=> ~first) /\ Follows(Tail(s), T, Head(s) \in Downs, last)
           /\ Head(s) \notin T => Follows(Tail(s), T, first, last)
<1> DEFINE t == Tail(s)
<1>1. /\ Len(s) \in Nat \ {0} /\ DOMAIN s = 1 .. Len(s) /\ Head(s) = s[1]
      /\ DOMAIN t = 1 .. Len(s) - 1 /\ \A n \in DOMAIN t : t[n] = s[n + 1]
    <2>1. Len(s) \in Nat \ {0} /\ DOMAIN s = 1 .. Len(s)
        BY LenProperties, EmptySeq
    <2>2. t \in Seq(Event) /\ Len(t) = Len(s) - 1 /\ Head(s) = s[1]
          /\ \A i \in 1 .. Len(t) : t[i] = s[i+1]
        BY HeadTailProperties
    <2>3. DOMAIN t = 1 .. Len(s) - 1
        BY <2>2, LenProperties
    <2> QED BY <2>1, <2>2, <2>3
<1>2. \A n \in DOMAIN s : n = 1 \/ (1 < n /\ n - 1 \in DOMAIN t /\ t[n - 1] = s[n])
    BY <1>1
<1>3. \A n \in DOMAIN t : n + 1 \in DOMAIN s /\ 1 < n + 1 /\ t[n] = s[n + 1]
    BY <1>1
<1>4. 1 \in DOMAIN s /\ (\A m \in DOMAIN s : ~(m < 1)) /\ DOMAIN s \subseteq Int /\ DOMAIN t \subseteq Int
    BY <1>1
<1> HIDE DEF t
<1>5. Head(s) \in T => (Head(s) \in Downs <=> ~first)
    BY <1>1, <1>4 DEF Follows
<1>6. \A m, n \in DOMAIN t :
            m < n /\ t[m] \in T /\ t[n] \in T /\ (\A l \in DOMAIN t : m < l /\ l < n => t[l] \notin T)
                => (t[n] \in Downs <=> t[m] \notin Downs)
    <2> SUFFICES ASSUME NEW m \in DOMAIN t, NEW n \in DOMAIN t, m < n, t[m] \in T, t[n] \in T,
                        \A l \in DOMAIN t : m < l /\ l < n => t[l] \notin T
                 PROVE  t[n] \in Downs <=> t[m] \notin Downs
        OBVIOUS
    <2>1. m + 1 \in DOMAIN s /\ n + 1 \in DOMAIN s /\ m + 1 < n + 1 /\ s[m + 1] = t[m] /\ s[n + 1] = t[n]
        BY <1>3, <1>4
    <2>2. \A l \in DOMAIN s : m + 1 < l /\ l < n + 1 => s[l] \notin T
        <3> SUFFICES ASSUME NEW l \in DOMAIN s, m + 1 < l, l < n + 1 PROVE s[l] \notin T
            OBVIOUS
        <3>1. l # 1 /\ m < l - 1 /\ l - 1 < n
            BY <1>1, <1>4
        <3> QED BY <1>2, <3>1
    <2> QED BY <2>1, <2>2 DEF Follows
<1>7. \A n \in DOMAIN t : t[n] \in T /\ (\A m \in DOMAIN t : n < m => t[m] \notin T) => (t[n] \in Downs <=> last)
    <2> SUFFICES ASSUME NEW n \in DOMAIN t, t[n] \in T, \A m \in DOMAIN t : n < m => t[m] \notin T
                 PROVE  t[n] \in Downs <=> last
        OBVIOUS
    <2>1. \A l \in DOMAIN s : n + 1 < l => s[l] \notin T
        <3> SUFFICES ASSUME NEW l \in DOMAIN s, n + 1 < l PROVE s[l] \notin T
            OBVIOUS
        <3>1. l # 1 /\ n < l - 1
            BY <1>1, <1>4
        <3> QED BY <1>2, <3>1
    <2>2. n + 1 \in DOMAIN s /\ s[n + 1] = t[n]
        BY <1>3
    <2> QED BY <2>1, <2>2 DEF Follows
<1>8. ASSUME Head(s) \in T PROVE Follows(t, T, Head(s) \in Downs, last)
    <2>1. ASSUME NEW n \in DOMAIN t, t[n] \in T, \A m \in DOMAIN t : m < n => t[m] \notin T
          PROVE  t[n] \in Downs <=> ~(Head(s) \in Downs)
        <3>1. \A l \in DOMAIN s : 1 < l /\ l < n + 1 => s[l] \notin T
            <4> SUFFICES ASSUME NEW l \in DOMAIN s, 1 < l, l < n + 1 PROVE s[l] \notin T
                OBVIOUS
            <4>1. l # 1 /\ l - 1 < n
                BY <1>1, <1>4
            <4> QED BY <1>2, <2>1, <4>1
        <3>2. n + 1 \in DOMAIN s /\ 1 < n + 1 /\ s[n + 1] = t[n]
            BY <1>3
        <3> QED BY <1>1, <1>4, <1>8, <2>1, <3>1, <3>2 DEF Follows
    <2>2. ASSUME NoneIn(t, T) PROVE Head(s) \in Downs <=> last
        <3>1. \A l \in DOMAIN s : 1 < l => s[l] \notin T
            BY <1>2, <1>4, <2>2 DEF NoneIn
        <3> QED BY <1>1, <1>4, <1>8, <3>1 DEF Follows
    <2> QED BY <1>6, <1>7, <2>1, <2>2 DEF Follows
<1>9. ASSUME Head(s) \notin T PROVE Follows(t, T, first, last)
    <2>1. ASSUME NEW n \in DOMAIN t, t[n] \in T, \A m \in DOMAIN t : m < n => t[m] \notin T
          PROVE  t[n] \in Downs <=> ~first
        <3>1. \A l \in DOMAIN s : l < n + 1 => s[l] \notin T
            <4> SUFFICES ASSUME NEW l \in DOMAIN s, l < n + 1 PROVE s[l] \notin T
                OBVIOUS
            <4>1. l # 1 => l - 1 < n
                BY <1>1, <1>4
            <4> QED BY <1>1, <1>2, <1>9, <2>1, <4>1
        <3>2. n + 1 \in DOMAIN s /\ s[n + 1] = t[n]
            BY <1>3
        <3> QED BY <2>1, <3>1, <3>2 DEF Follows
    <2>2. ASSUME NoneIn(t, T) PROVE first <=> last
        <3>1. NoneIn(s, T)
            BY <1>1, <1>2, <1>9, <2>2 DEF NoneIn
        <3> QED BY <3>1 DEF Follows
    <2> QED BY <1>6, <1>7, <2>1, <2>2 DEF Follows
<1> QED BY <1>5, <1>8, <1>9 DEF t

\* Events that are not about T, and one that is, are put.
LEMMA FollowsConcat ==
    ASSUME NEW s \in Seq(Event), NEW t \in Seq(Event), NEW T, NEW first, NEW last, Follows(s, T, first, last)
    PROVE  /\ NoneIn(t, T) => Follows(s \o t, T, first, last)
           /\ \A j \in DOMAIN t :
                t[j] \in T /\ (\A m \in DOMAIN t : t[m] \in T => m = j) /\ (t[j] \in Downs <=> ~last)
                    => Follows(s \o t, T, first, ~last)
<1> DEFINE u == s \o t
           L == Len(s)
<1>1. /\ L \in Nat /\ DOMAIN s = 1 .. L /\ Len(t) \in Nat /\ DOMAIN t = 1 .. Len(t)
      /\ DOMAIN u = 1 .. L + Len(t)
      /\ \A n \in 1 .. L + Len(t) : u[n] = IF n <= L THEN s[n] ELSE t[n - L]
    BY LenProperties, ConcatProperties
<1> HIDE DEF u, L
<1>2. \A n \in DOMAIN s : n \in DOMAIN u /\ u[n] = s[n] /\ n <= L
    BY <1>1
<1>3. \A n \in DOMAIN t : n + L \in DOMAIN u /\ u[n + L] = t[n] /\ \A m \in DOMAIN s : m < n + L
    BY <1>1
<1>4. \A n \in DOMAIN u : \/ n \in DOMAIN s /\ u[n] = s[n]
                          \/ n - L \in DOMAIN t /\ u[n] = t[n - L] /\ (n - L) + L = n /\ \A m \in DOMAIN s : m < n
    <2> SUFFICES ASSUME NEW n \in DOMAIN u, ~(n <= L)
                 PROVE  n - L \in DOMAIN t /\ u[n] = t[n - L] /\ (n - L) + L = n /\ \A m \in DOMAIN s : m < n
        BY <1>1
    <2>1. n \in 1 .. L + Len(t)
        BY <1>1
    <2>2. u[n] = t[n - L]
        BY <1>1, <2>1
    <2>3. n - L \in 1 .. Len(t) /\ (n - L) + L = n /\ \A m \in 1 .. L : m < n
        BY <1>1, <2>1
    <2> QED BY <1>1, <2>2, <2>3
<1>5. DOMAIN s \subseteq Int /\ DOMAIN t \subseteq Int /\ DOMAIN u \subseteq Int
    BY <1>1
<1>6. ASSUME NoneIn(t, T) PROVE Follows(u, T, first, last)
    <2>1. \A n \in DOMAIN u : u[n] \in T => n \in DOMAIN s /\ s[n] = u[n]
        BY <1>4, <1>6 DEF NoneIn
    <2>2. NoneIn(u, T) => NoneIn(s, T)
        BY <1>2 DEF NoneIn
    <2>3. \A n \in DOMAIN u : u[n] \in T /\ (\A m \in DOMAIN u : m < n => u[m] \notin T) => (u[n] \in Downs <=> ~first)
        BY <1>2, <2>1 DEF Follows
    <2>4. \A m, n \in DOMAIN u :
            m < n /\ u[m] \in T /\ u[n] \in T /\ (\A l \in DOMAIN u : m < l /\ l < n => u[l] \notin T)
                => (u[n] \in Downs <=> u[m] \notin Downs)
        BY <1>2, <2>1 DEF Follows
    <2>5. \A n \in DOMAIN u : u[n] \in T /\ (\A m \in DOMAIN u : n < m => u[m] \notin T) => (u[n] \in Downs <=> last)
        BY <1>2, <2>1 DEF Follows
    <2>6. NoneIn(s, T) => (first <=> last)
        BY DEF Follows
    <2> QED BY <2>2, <2>3, <2>4, <2>5, <2>6 DEF Follows
<1>7. ASSUME NEW j \in DOMAIN t, t[j] \in T, \A m \in DOMAIN t : t[m] \in T => m = j, t[j] \in Downs <=> ~last
      PROVE  Follows(u, T, first, ~last)
    <2> DEFINE J == j + L
    <2>1. J \in DOMAIN u /\ u[J] = t[j] /\ \A m \in DOMAIN s : m < J
        BY <1>3
    <2>2. \A n \in DOMAIN u : u[n] \in T => n = J \/ (n \in DOMAIN s /\ s[n] = u[n])
        BY <1>4, <1>7
    <2> HIDE DEF J
    <2>3. ~NoneIn(u, T)
        BY <1>7, <2>1 DEF NoneIn
    <2>4. ASSUME NEW n \in DOMAIN u, u[n] \in T, \A m \in DOMAIN u : m < n => u[m] \notin T
          PROVE  u[n] \in Downs <=> ~first
        <3>1. CASE n = J
            <4>1. NoneIn(s, T)
                BY <1>2, <2>1, <2>4, <3>1 DEF NoneIn
            <4>2. first <=> last
                BY <4>1 DEF Follows
            <4> QED BY <1>7, <2>1, <3>1, <4>2
        <3>2. CASE n \in DOMAIN s /\ s[n] = u[n]
            BY <1>2, <2>4, <3>2 DEF Follows
        <3> QED BY <2>2, <2>4, <3>1, <3>2
    <2>5. ASSUME NEW m \in DOMAIN u, NEW n \in DOMAIN u, m < n, u[m] \in T, u[n] \in T,
                 \A l \in DOMAIN u : m < l /\ l < n => u[l] \notin T
          PROVE  u[n] \in Downs <=> u[m] \notin Downs
        <3>1. m # J
            <4>1. n = J \/ n < J
                BY <2>1, <2>2, <2>5
            <4> QED BY <1>5, <2>1, <2>5, <4>1
        <3>2. m \in DOMAIN s /\ s[m] = u[m]
            BY <2>2, <2>5, <3>1
        <3>3. CASE n = J
            <4>1. \A l \in DOMAIN s : m < l => s[l] \notin T
                BY <1>2, <2>1, <2>5, <3>3
            <4>2. s[m] \in Downs <=> last
                BY <2>5, <3>2, <4>1 DEF Follows
            <4> QED BY <1>7, <2>1, <3>2, <3>3, <4>2
        <3>4. CASE n \in DOMAIN s /\ s[n] = u[n]
            <4>1. \A l \in DOMAIN s : m < l /\ l < n => s[l] \notin T
                BY <1>2, <2>5
            <4> QED BY <2>5, <3>2, <3>4, <4>1 DEF Follows
        <3> QED BY <2>2, <2>5, <3>3, <3>4
    <2>6. ASSUME NEW n \in DOMAIN u, u[n] \in T, \A m \in DOMAIN u : n < m => u[m] \notin T
          PROVE  u[n] \in Downs <=> ~last
        <3>1. n = J
            BY <1>7, <2>1, <2>2, <2>6
        <3> QED BY <1>7, <2>1, <3>1
    <2> QED BY <2>3, <2>4, <2>5, <2>6 DEF Follows
<1> QED BY <1>6, <1>7 DEF u

LEMMA FollowsSame ==
    ASSUME NEW s, NEW T, NEW first, NEW last, NEW first2, NEW last2,
           Follows(s, T, first, last), first <=> first2, last <=> last2
    PROVE  Follows(s, T, first2, last2)
BY DEF Follows

LEMMA EventsInit == Init => EventsKept
<1> SUFFICES ASSUME Init, NEW i \in Slots, NEW k \in Positions
             PROVE  Follows(events, About(i, k), k \in raised[i], k \in mirror[i])
    BY DEF EventsKept
<1>1. events = <<>> /\ raised[i] = {} /\ mirror[i] = {} /\ DOMAIN events = {}
    <2>1. events = <<>> /\ raised[i] = {} /\ mirror[i] = {}
        BY DEF Init
    <2>2. DOMAIN <<>> = {}
        OBVIOUS
    <2> QED BY <2>1, <2>2
<1> QED BY <1>1 DEF Follows

\* The callbacks of the Bluetooth thread put the events of a change.
LEMMA EventsPut ==
    ASSUME BleShape, EventsKept, NEW i \in Slots, NEW new \in Shown, NEW evs,
           NewsOf(evs, i, mirror[i], new), Put(evs), mirror' = [mirror EXCEPT ![i] = new], raised' = raised
    PROVE  EventsKept'
<1> SUFFICES ASSUME ~lost', NEW j \in Slots, NEW k \in Positions
             PROVE  Follows(events', About(j, k), k \in raised'[j], k \in mirror'[j])
    BY DEF EventsKept
<1>1. evs \in Seq(Event) /\ \A n \in DOMAIN evs : evs[n] \in Event
    <2>1. evs \in Seq(Event)
        BY DEF NewsOf
    <2> QED BY <2>1, LenProperties, ElementOfSeq
<1>2. ~lost /\ events' = events \o evs /\ events \in Seq(Event)
    BY <1>1, PutAll DEF BleShape, QueueShape
<1>3. Follows(events, About(j, k), k \in raised[j], k \in mirror[j])
    BY <1>2 DEF EventsKept
<1>4. mirror'[i] = new /\ (j # i => mirror'[j] = mirror[j])
    BY DEF BleShape, SlotShape
<1>5. \A n \in DOMAIN evs : /\ evs[n] \in About(j, k) <=> (j = i /\ evs[n].position = k)
                            /\ evs[n] \in Downs <=> evs[n].position \in new
    BY <1>1 DEF NewsOf, About, Downs
<1>6. CASE j = i /\ k \in Differ(mirror[i], new)
    <2>1. PICK n \in DOMAIN evs : evs[n].position = k /\ \A m \in DOMAIN evs : evs[m].position = k => m = n
        BY <1>6 DEF NewsOf
    <2>2. k \in new <=> ~(k \in mirror[i])
        BY <1>6 DEF Differ, SymDiff
    <2>3. evs[n] \in About(j, k) /\ (\A m \in DOMAIN evs : evs[m] \in About(j, k) => m = n)
          /\ (evs[n] \in Downs <=> ~(k \in mirror[j]))
        BY <1>5, <1>6, <2>1, <2>2
    <2>4. Follows(events \o evs, About(j, k), k \in raised[j], ~(k \in mirror[j]))
        <3> DEFINE T == About(j, k)
                   first == k \in raised[j]
                   last == k \in mirror[j]
        <3>1. Follows(events, T, first, last) /\ evs[n] \in T /\ (\A m \in DOMAIN evs : evs[m] \in T => m = n)
              /\ (evs[n] \in Downs <=> ~last)
            BY <1>3, <2>3
        <3> HIDE DEF T, first, last
        <3>2. Follows(events \o evs, T, first, ~last)
            BY <1>1, <1>2, <3>1, FollowsConcat
        <3> QED BY <3>2 DEF T, first, last
    <2>5. ~(k \in mirror[j]) <=> k \in mirror'[j]
        BY <1>4, <1>6, <2>2
    <2>6. k \in raised[j] <=> k \in raised'[j]
        OBVIOUS
    <2> QED BY <1>2, <2>4, <2>5, <2>6, FollowsSame
<1>7. CASE ~(j = i /\ k \in Differ(mirror[i], new))
    <2>1. NoneIn(evs, About(j, k))
        BY <1>5, <1>7 DEF NoneIn, NewsOf
    <2>2. Follows(events \o evs, About(j, k), k \in raised[j], k \in mirror[j])
        BY <1>1, <1>2, <1>3, <2>1, FollowsConcat
    <2>3. k \in mirror[j] <=> k \in mirror'[j]
        <3>1. CASE j # i
            BY <1>4, <3>1
        <3>2. CASE j = i
            <4>1. k \notin Differ(mirror[i], new)
                BY <1>7, <3>2
            <4>2. k \in new <=> k \in mirror[i]
                BY <4>1 DEF Differ, SymDiff
            <4> QED BY <1>4, <3>2, <4>2
        <3> QED BY <3>1, <3>2
    <2>4. k \in raised[j] <=> k \in raised'[j]
        OBVIOUS
    <2> QED BY <1>2, <2>2, <2>3, <2>4, FollowsSame
<1> QED BY <1>6, <1>7

\* The work queue raises an event, which says what was not so before.
LEMMA RaisedIsNew ==
    ASSUME BleShape, EventsKept, Raise
    PROVE  EventsKept' /\ NoRepeatedEvent
<1> DEFINE ev == Head(events)
<1>1. events \in Seq(Event) /\ events # <<>> /\ events' = Tail(events) /\ ev \in Event
    BY HeadTailProperties DEF BleShape, QueueShape, Raise
<1>2. ev.source \in Slots /\ ev.position \in Positions /\ ev.pressed \in BOOLEAN
    BY <1>1 DEF Event
<1>3. /\ mirror' = mirror
      /\ ~lost' => /\ ~lost
                   /\ raised' = [raised EXCEPT ![ev.source] =
                                    IF ev.pressed THEN @ \cup {ev.position} ELSE @ \ {ev.position}]
    BY DEF Raise
<1>4. ASSUME ~lost', NEW j \in Slots, NEW k \in Positions
      PROVE  /\ Follows(events', About(j, k), k \in raised'[j], k \in mirror'[j])
             /\ j = ev.source /\ k = ev.position => (k \in raised'[j] <=> ~(k \in raised[j]))
    <2>1. Follows(events, About(j, k), k \in raised[j], k \in mirror[j])
        BY <1>3, <1>4 DEF EventsKept
    <2>2. CASE j = ev.source /\ k = ev.position
        <3>1. ev \in About(j, k)
            BY <1>1, <2>2 DEF About
        <3>2. k \in raised'[j] <=> ev.pressed
            <4> HIDE DEF ev
            <4>1. raised'[j] = IF ev.pressed THEN raised[j] \cup {k} ELSE raised[j] \ {k}
                BY <1>3, <1>4, <2>2 DEF BleShape, SlotShape
            <4>2. CASE ev.pressed
                BY <4>1, <4>2
            <4>3. CASE ~ev.pressed
                BY <4>1, <4>3
            <4> QED BY <4>2, <4>3
        <3>3. ev.pressed <=> ev \in Downs
            BY <1>1 DEF Downs
        <3>4. (ev \in Downs <=> ~(k \in raised[j])) /\ Follows(Tail(events), About(j, k), ev \in Downs, k \in mirror[j])
            BY <1>1, <2>1, <3>1, FollowsTail
        <3>5. ev \in Downs <=> k \in raised'[j]
            BY <3>2, <3>3
        <3>6. Follows(Tail(events), About(j, k), k \in raised'[j], k \in mirror'[j])
            <4>1. k \in mirror[j] <=> k \in mirror'[j]
                BY <1>3
            <4> QED BY <3>4, <3>5, <4>1, FollowsSame
        <3> QED BY <1>1, <3>4, <3>5, <3>6
    <2>3. CASE ~(j = ev.source /\ k = ev.position)
        <3>1. ev \notin About(j, k)
            BY <2>3 DEF About
        <3>2. Follows(Tail(events), About(j, k), k \in raised[j], k \in mirror[j])
            BY <1>1, <2>1, <3>1, FollowsTail
        <3>3. k \in raised'[j] <=> k \in raised[j]
            <4> HIDE DEF ev
            <4>1. CASE j # ev.source
                BY <1>3, <1>4, <4>1 DEF BleShape, SlotShape
            <4>2. CASE j = ev.source
                <5>1. k # ev.position
                    BY <2>3, <4>2
                <5>2. raised'[j] = raised[j] \cup {ev.position} \/ raised'[j] = raised[j] \ {ev.position}
                    BY <1>2, <1>3, <1>4, <4>2 DEF BleShape, SlotShape
                <5> QED BY <5>1, <5>2
            <4> QED BY <4>1, <4>2
        <3>4. k \in mirror[j] <=> k \in mirror'[j]
            BY <1>3
        <3>5. Follows(Tail(events), About(j, k), k \in raised'[j], k \in mirror'[j])
            BY <3>2, <3>3, <3>4, FollowsSame
        <3> QED BY <1>1, <2>3, <3>5
    <2> QED BY <2>2, <2>3
<1>5. EventsKept'
    BY <1>4 DEF EventsKept
<1>6. ~lost' => raised' # raised
    <2> SUFFICES ASSUME ~lost' PROVE raised' # raised
        OBVIOUS
    <2>1. ev.position \in raised'[ev.source] <=> ~(ev.position \in raised[ev.source])
        BY <1>2, <1>4
    <2> QED BY <2>1
<1> QED BY <1>5, <1>6 DEF NoRepeatedEvent

LEMMA EventsStay ==
    ASSUME EventsKept, UNCHANGED <<events, raised, mirror, lost>>
    PROVE  EventsKept'
BY DEF EventsKept

LEMMA EventsStep == BleShape /\ EventsKept /\ [Next]_vars => EventsKept'
<1> SUFFICES ASSUME BleShape, EventsKept, [Next]_vars PROVE EventsKept'
    OBVIOUS
<1>1. ASSUME NEW p \in Peripherals,
             \/ \E k \in Positions : Stroke(p, k)
             \/ Boot(p) \/ SendState(p) \/ Advertise(p) \/ AdvTimeout(p) \/ Dropped(p)
             \/ Found(p) \/ FoundInVain(p)
      PROVE  EventsKept'
    BY <1>1, EventsStay DEF Stroke, Boot, SendState, Advertise, AdvTimeout, Dropped, Found, FoundInVain,
                            slot_vars, link_vars
<1>2. ASSUME NEW i \in Slots, Connected(i) \/ Discovered(i) \/ Secured(i) \/ WriteLayout(i) PROVE EventsKept'
    BY <1>2, EventsStay DEF Connected, Discovered, Secured, WriteLayout, slot_vars
<1>3. ASSUME NEW i \in Slots, ConnectionFailed(i) \/ Disconnected(i) PROVE EventsKept'
    <2>1. Put(Releases(i)) /\ mirror' = [mirror EXCEPT ![i] = {}] /\ raised' = raised /\ {} \in Shown
        BY <1>3 DEF ConnectionFailed, Disconnected, ReleaseSlot, Shown
    <2>2. NewsOf(Releases(i), i, mirror[i], {})
        BY ReleasesAreNews DEF BleShape
    <2> QED BY <2>1, <2>2, EventsPut
<1>4. ASSUME NEW i \in Slots, Notified(i) PROVE EventsKept'
    <2> DEFINE data == Head(air[addrs[i]])
               changed == Changed(mirror[i], data)
               evs == [n \in DOMAIN changed |->
                        [source |-> i, position |-> changed[n], pressed |-> changed[n] \in data]]
    <2>1. Put(evs) /\ mirror' = [mirror EXCEPT ![i] = data] /\ raised' = raised
        BY <1>4 DEF Notified
    <2>2. data \in Shown
        BY <1>4, ShapeNotified
    <2> HIDE DEF data
    <2>3. NewsOf(evs, i, mirror[i], data)
        BY <2>2, ChangesAreNews DEF BleShape
    <2> HIDE DEF evs
    <2> QED BY <2>1, <2>2, <2>3, EventsPut
<1>5. ASSUME Raise PROVE EventsKept'
    BY <1>5, RaisedIsNew
<1>6. ASSUME \/ TellLayout \/ BleStatus \/ WiredStatus \/ Plug
             \/ \E l \in Layouts : SelectLayout(l)
      PROVE  EventsKept'
    BY <1>6, EventsStay DEF TellLayout, BleStatus, WiredStatus, Plug, SelectLayout, slot_vars
<1>7. ASSUME UNCHANGED vars PROVE EventsKept'
    BY <1>7, EventsStay DEF vars, slot_vars
<1> QED BY <1>1, <1>2, <1>3, <1>4, <1>5, <1>6, <1>7 DEF Next, Loss, HangUp
-----------------------------------------------------------------------------
AllMirrored == BleShape /\ StatesKept /\ LayoutsKept /\ EventsKept

\* With the events that wait, what the keymap has been told is the copy.
LEMMA ToldIsMirror == BleShape /\ EventsKept => EventsAddUp
<1> SUFFICES ASSUME BleShape, EventsKept, ~lost, NEW i \in Slots PROVE Told(i) = mirror[i]
    BY DEF EventsAddUp
<1>1. events \in Seq(Event) /\ mirror[i] \subseteq Positions /\ raised[i] \subseteq Positions
    BY DEF BleShape, QueueShape, SlotShape, Shown
<1>2. Len(events) \in Nat /\ DOMAIN events = 1 .. Len(events) /\ \A n \in DOMAIN events : events[n] \in Event
    BY <1>1, LenProperties, ElementOfSeq
<1>3. ASSUME NEW k \in Positions PROVE k \in Told(i) <=> k \in mirror[i]
    <2> DEFINE about == {n \in DOMAIN events : events[n].source = i /\ events[n].position = k}
    <2>1. Follows(events, About(i, k), k \in raised[i], k \in mirror[i])
        BY DEF EventsKept
    <2>2. \A n \in DOMAIN events : n \in about <=> events[n] \in About(i, k)
        BY <1>2 DEF About
    <2>3. k \in Told(i) <=> IF about = {} THEN k \in raised[i] ELSE events[Max(about)].pressed
        BY DEF Told
    <2>4. about \subseteq DOMAIN events
        OBVIOUS
    <2> HIDE DEF about
    <2>5. CASE about = {}
        <3>1. NoneIn(events, About(i, k))
            BY <2>2, <2>5 DEF NoneIn
        <3>2. k \in raised[i] <=> k \in mirror[i]
            BY <2>1, <3>1 DEF Follows
        <3> QED BY <2>3, <2>5, <3>2
    <2>6. CASE about # {}
        <3> DEFINE n == Max(about)
        <3>1. n \in about /\ \A m \in about : n >= m
            <4>1. \E x \in about : \A y \in about : x >= y
                <5> DEFINE R == {x \in Nat : Len(events) - x \in about}
                <5>1. PICK a \in about : TRUE
                    BY <2>6
                <5>2. Len(events) - a \in R
                    BY <1>2, <2>4
                <5>3. R \in SUBSET Nat
                    OBVIOUS
                <5> HIDE DEF R
                <5>4. PICK r \in R : \A m \in R : r <= m
                    BY <5>2, <5>3, FirstOf
                <5>5. Len(events) - r \in about /\ r \in Nat
                    BY <5>4 DEF R
                <5>6. \A y \in about : Len(events) - y \in R
                    BY <1>2, <2>4 DEF R
                <5>7. \A y \in about : Len(events) - r >= y
                    BY <1>2, <2>4, <5>4, <5>5, <5>6
                <5> QED BY <5>5, <5>7
            <4>2. n = CHOOSE x \in about : \A y \in about : x >= y
                BY DEF Max
            <4> HIDE DEF n
            <4> QED BY <4>1, <4>2
        <3> HIDE DEF n
        <3>2. n \in DOMAIN events /\ events[n] \in About(i, k)
            BY <2>2, <2>4, <3>1
        <3>3. \A m \in DOMAIN events : n < m => events[m] \notin About(i, k)
            BY <1>2, <2>2, <3>1, <3>2
        <3>4. events[n] \in Downs <=> k \in mirror[i]
            BY <2>1, <3>2, <3>3 DEF Follows
        <3>5. events[n].pressed <=> events[n] \in Downs
            BY <1>2, <3>2 DEF Downs
        <3> QED BY <2>3, <2>6, <3>4, <3>5 DEF n
    <2> QED BY <2>5, <2>6
<1>4. Told(i) \subseteq Positions
    BY DEF Told
<1> QED BY <1>1, <1>3, <1>4

LEMMA CopiesFollow == BleShape /\ StatesKept => MirrorFollows
<1> SUFFICES ASSUME BleShape, StatesKept, NEW i \in Slots, state[i] = "connected", attached[addrs[i]],
                    ~stale[addrs[i]], queue[addrs[i]] = <<>>, air[addrs[i]] = <<>>
             PROVE  mirror[i] = keys[addrs[i]]
    BY DEF MirrorFollows
<1>1. addrs[i] \in Peripherals
    BY DEF BleShape, SlotShape
<1> QED BY <1>1 DEF StatesKept, StateComes

LEMMA LayoutsFollow == LayoutsKept => LayoutAgrees
BY DEF LayoutsKept, LayoutAgrees, CanBeTold, WillBeTold

(***************************************************************************)
(* Types; a peripheral that has nothing left to send has its keys in the   *)
(* central's copy; what the keymap is told adds up to the copies, so that  *)
(* a peripheral that is gone leaves nothing pressed; and with no work      *)
(* waiting every peripheral that can be told has the central's layout      *)
(* (send_position_state_callback, split_central_notify_func,               *)
(* release_peripheral_slot, update_peripherals_selected_physical_layout).  *)
(***************************************************************************)
THEOREM MirrorsAlwaysAgree == Spec => []MirrorsAgree
<1>1. Init => AllMirrored
    BY BleShapeInit, StatesInit, LayoutsInit, EventsInit DEF AllMirrored
<1>2. AllMirrored /\ [Next]_vars => AllMirrored'
    BY BleShapeStep, StatesStep, LayoutsStep, EventsStep DEF AllMirrored
<1>3. AllMirrored => MirrorsAgree
    BY BleTypes, CopiesFollow, ToldIsMirror, LayoutsFollow DEF AllMirrored, MirrorsAgree
<1> QED BY <1>1, <1>2, <1>3, PTL DEF Spec

(***************************************************************************)
(* Each event raised is new: no position is pressed twice or released      *)
(* twice, across connections, unless an event was dropped from the queue   *)
(* (peripheral_event_work_callback).                                       *)
(***************************************************************************)
THEOREM EventsAreNew == Spec => [][NoRepeatedEvent]_vars
<1>1. Init => BleShape /\ EventsKept
    BY BleShapeInit, EventsInit
<1>2. BleShape /\ EventsKept /\ [Next]_vars => (BleShape /\ EventsKept)' /\ [NoRepeatedEvent]_vars
    <2>1. BleShape /\ EventsKept /\ [Next]_vars => (BleShape /\ EventsKept)'
        BY BleShapeStep, EventsStep
    <2>2. BleShape /\ EventsKept => NoRepeatedEvent
        BY RaisedIsNew DEF NoRepeatedEvent
    <2> QED BY <2>1, <2>2
<1> QED BY <1>1, <1>2, PTL DEF Spec
=============================================================================

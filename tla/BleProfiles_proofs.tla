------------------------ MODULE BleProfiles_proofs ------------------------
(***************************************************************************)
(* Proofs about the Bluetooth profiles.                                    *)
(***************************************************************************)
EXTENDS BleProfiles, FiniteSetTheorems, SequenceTheorems, TLAPS

Works == {"adv", "raise", "saveActive", "savePreferred"}
Peers == [ProfileIndexes -> BleHosts \union {NoHost}]

BleState ==
    [build : Build,
     flash : [peer : Peers, active : ProfileIndexes,
              preferred : {"unset", "usb", "ble"}, v1 : {"unset"}],
     bonded : SUBSET BleHosts, peer : Peers, active : ProfileIndexes,
     preferred : {"usb", "ble"}, usb : BOOLEAN,
     current : [transport : BleTransports, profile : ProfileIndexes],
     adv : {"none", "conn"}, work : SUBSET Works, radio : BOOLEAN,
     conn : [BleHosts -> {"no", "up", "closing"}], pairing : [BleHosts -> {"no", "entry", "go"}],
     entry : BleHosts \union {NoHost}, ring : Seq(Digits), typed : Seq(Digits),
     sent : [digits : Seq(Digits), typed : Seq(Digits)]]

\* what neither advertising, nor the endpoint, nor the submission of work changes
Kept(s, t) ==
    /\ t.build = s.build /\ t.flash = s.flash /\ t.bonded = s.bonded /\ t.peer = s.peer
    /\ t.active = s.active /\ t.preferred = s.preferred /\ t.usb = s.usb /\ t.conn = s.conn
    /\ t.pairing = s.pairing /\ t.entry = s.entry /\ t.ring = s.ring /\ t.typed = s.typed
    /\ t.sent = s.sent
SameAdv(s, t) == t.adv = s.adv /\ t.radio = s.radio

LEMMA SubmitIs ==
    ASSUME NEW s \in BleState, NEW w \in Works
    PROVE  /\ Submit(s, w) \in BleState /\ Kept(s, Submit(s, w)) /\ SameAdv(s, Submit(s, w))
           /\ Submit(s, w).work = s.work \union {w} /\ Submit(s, w).current = s.current
BY DEF Submit, BleState, Kept, SameAdv

LEMMA StopIs ==
    ASSUME NEW s \in BleState
    PROVE  LET t == StopAdvertising(s)
           IN  /\ t \in BleState /\ Kept(s, t) /\ t.adv = "none" /\ t.radio = FALSE
               /\ t.work = s.work /\ t.current = s.current
BY DEF StopAdvertising, BleState, Kept

LEMMA UnpairIs ==
    ASSUME NEW s \in BleState, NEW h \in BleHosts
    PROVE  LET t == Unpair(s, h)
           IN  /\ t \in BleState /\ SameAdv(s, t) /\ t.work = s.work /\ t.current = s.current
               /\ t.bonded = s.bonded \ {h}
               /\ t.conn = [s.conn EXCEPT ![h] = IF @ = "up" THEN "closing" ELSE @]
               /\ t.build = s.build /\ t.flash = s.flash /\ t.peer = s.peer
               /\ t.active = s.active /\ t.preferred = s.preferred /\ t.usb = s.usb
               /\ t.pairing = s.pairing /\ t.entry = s.entry /\ t.ring = s.ring
               /\ t.typed = s.typed /\ t.sent = s.sent
BY DEF Unpair, BleState, SameAdv

LEMMA SetAddressIs ==
    ASSUME NEW s \in BleState, NEW i \in ProfileIndexes, NEW h \in BleHosts \union {NoHost}
    PROVE  LET t == SetProfileAddress(s, i, h)
           IN  /\ t \in BleState /\ SameAdv(s, t) /\ t.work = s.work \union {"raise"} /\ t.current = s.current
               /\ t.bonded = s.bonded /\ t.conn = s.conn /\ t.build = s.build
               /\ t.peer = [s.peer EXCEPT ![i] = h]
               /\ t.flash.peer = [s.flash.peer EXCEPT ![i] = h]
               /\ t.flash.active = s.flash.active /\ t.flash.preferred = s.flash.preferred
               /\ t.active = s.active /\ t.preferred = s.preferred /\ t.usb = s.usb
               /\ t.pairing = s.pairing /\ t.entry = s.entry /\ t.ring = s.ring
               /\ t.typed = s.typed /\ t.sent = s.sent
BY DEF SetProfileAddress, Submit, BleState, SameAdv, Works, Peers

LEMMA SelectIs ==
    ASSUME NEW s \in BleState, NEW i \in ProfileIndexes
    PROVE  LET t == [s EXCEPT !.active = i]
           IN  /\ t \in BleState /\ SameAdv(s, t) /\ t.work = s.work /\ t.current = s.current
               /\ t.bonded = s.bonded /\ t.conn = s.conn /\ t.build = s.build
               /\ t.peer = s.peer /\ t.flash = s.flash /\ t.active = i
               /\ t.preferred = s.preferred /\ t.usb = s.usb
               /\ t.pairing = s.pairing /\ t.entry = s.entry /\ t.ring = s.ring
               /\ t.typed = s.typed /\ t.sent = s.sent
BY DEF BleState, SameAdv

-----------------------------------------------------------------------------
(* Advertising and the endpoint. *)

Closing(s) == \E h \in BleHosts : s.conn[h] = "closing"

\* of advertising what every handler keeps
AdvPre(s) == (s.adv = "conn" <=> s.radio) /\ (s.radio => HasRoom(s))
\* and what it establishes, or leaves to work or to the end of a connection
AdvInv(s) ==
    /\ AdvPre(s)
    /\ "adv" \notin s.work /\ ~Closing(s) => (s.radio <=> Desired(s) = "conn" /\ HasRoom(s))

\* the connection of the active profile's host is being closed
HostLeaves(s) == ~IsOpen(s, s.active) /\ s.conn[s.peer[s.active]] = "closing"
EndInv(s) == "raise" \notin s.work /\ ~HostLeaves(s) => s.current = Instance(s, SelectedTransport(s))

LEMMA AdvertisingIs ==
    ASSUME NEW s \in BleState, AdvPre(s)
    PROVE  LET t == UpdateAdvertising(s)
           IN  /\ t \in BleState /\ Kept(s, t) /\ t.work = s.work /\ t.current = s.current
               /\ AdvPre(t) /\ (t.radio <=> Desired(t) = "conn" /\ HasRoom(t))
<1>1. \A t : Kept(s, t) => Desired(t) = Desired(s) /\ (HasRoom(t) <=> HasRoom(s))
  BY DEF Kept, Desired, HasRoom, IsOpen, IsConnected
<1>2. Desired(s) \in {"none", "conn"}
  BY DEF Desired
<1>3. CASE Desired(s) = "none" /\ s.adv = "conn"
  <2>1. UpdateAdvertising(s) = StopAdvertising(s)
    BY <1>3 DEF UpdateAdvertising
  <2> QED
    BY <2>1, <1>1, <1>3, StopIs DEF AdvPre
<1>4. CASE Desired(s) = "conn" /\ s.adv = "none"
  <2>1. UpdateAdvertising(s) = StartAdvertising(s)
    BY <1>4 DEF UpdateAdvertising
  <2>2. ~s.radio
    BY <1>4 DEF AdvPre
  <2>3. CASE HasRoom(s)
    <3> DEFINE t == [s EXCEPT !.adv = "conn", !.radio = TRUE]
    <3>1. UpdateAdvertising(s) = t
      BY <2>1, <2>2, <2>3 DEF StartAdvertising
    <3>2. t \in BleState /\ Kept(s, t) /\ t.work = s.work /\ t.current = s.current
          /\ t.adv = "conn" /\ t.radio = TRUE
      BY DEF BleState, Kept
    <3> HIDE DEF t
    <3> QED
      BY <3>1, <3>2, <1>1, <1>4, <2>3 DEF AdvPre
  <2>4. CASE ~HasRoom(s)
    <3>1. UpdateAdvertising(s) = s
      BY <2>1, <2>4 DEF StartAdvertising
    <3> QED
      BY <3>1, <2>2, <2>4 DEF AdvPre, Kept
  <2> QED
    BY <2>3, <2>4
<1>5. CASE ~(Desired(s) = "none" /\ s.adv = "conn") /\ ~(Desired(s) = "conn" /\ s.adv = "none")
  <2>1. UpdateAdvertising(s) = s
    BY <1>5 DEF UpdateAdvertising
  <2>2. s.adv \in {"none", "conn"} /\ s.radio \in BOOLEAN
    BY DEF BleState
  <2> QED
    BY <2>1, <2>2, <1>2, <1>5 DEF AdvPre, Kept
<1> QED
  BY <1>3, <1>4, <1>5

LEMMA InstanceType ==
    ASSUME NEW s \in BleState
    PROVE  Instance(s, SelectedTransport(s)) \in [transport : BleTransports, profile : ProfileIndexes]
<1> DEFINE ready == {t \in {"usb", "ble"} : IF t = "usb" THEN s.usb ELSE IsConnected(s, s.active)}
<1>1. ready # {} => (CHOOSE t \in ready : TRUE) \in ready
  OBVIOUS
<1>2. SelectedTransport(s) \in {"none", "usb", "ble"}
  <2>1. SelectedTransport(s) = IF s.preferred = "none" \/ ready = {} THEN "none"
                               ELSE IF s.preferred \in ready THEN s.preferred
                               ELSE CHOOSE t \in ready : TRUE
    BY DEF SelectedTransport
  <2>2. ready \subseteq {"usb", "ble"}
    OBVIOUS
  <2> HIDE DEF ready
  <2> QED
    BY <1>1, <2>1, <2>2
<1>3. 0 \in ProfileIndexes /\ s.active \in ProfileIndexes
  BY BleAssumption DEF ProfileIndexes, BleState
<1> QED
  BY <1>2, <1>3 DEF Instance, BleTransports

LEMMA SameInstance ==
    ASSUME NEW s, NEW t, t.usb = s.usb, t.preferred = s.preferred, t.active = s.active,
           IsConnected(t, t.active) <=> IsConnected(s, s.active)
    PROVE  Instance(t, SelectedTransport(t)) = Instance(s, SelectedTransport(s))
<1> DEFINE ready(x) == {y \in {"usb", "ble"} : IF y = "usb" THEN x.usb ELSE IsConnected(x, x.active)}
<1>1. ready(t) = ready(s)
  OBVIOUS
<1> DEFINE any(S) == CHOOSE y \in S : TRUE
<1>2. \A x : SelectedTransport(x) = IF x.preferred = "none" \/ ready(x) = {} THEN "none"
                                    ELSE IF x.preferred \in ready(x) THEN x.preferred
                                    ELSE any(ready(x))
  BY DEF SelectedTransport
<1> HIDE DEF ready, any
<1>3. SelectedTransport(t) = SelectedTransport(s)
  BY <1>1, <1>2
<1> QED
  BY <1>3 DEF Instance

LEMMA KeptInstance ==
    ASSUME NEW s, NEW t, Kept(s, t)
    PROVE  /\ Instance(t, SelectedTransport(t)) = Instance(s, SelectedTransport(s))
           /\ HostLeaves(t) <=> HostLeaves(s)
BY SameInstance DEF Kept, IsConnected, IsOpen, HostLeaves

LEMMA EndpointIs ==
    ASSUME NEW s \in BleState
    PROVE  LET t == UpdateEndpoint(s)
           IN  /\ t \in BleState /\ Kept(s, t) /\ SameAdv(s, t) /\ t.work = s.work
               /\ t.current = Instance(t, SelectedTransport(t))
<1> DEFINE c == Instance(s, SelectedTransport(s))
           t == [s EXCEPT !.current = c]
<1>1. c \in [transport : BleTransports, profile : ProfileIndexes]
  BY InstanceType
<1> HIDE DEF c
<1>2. t \in BleState /\ Kept(s, t) /\ SameAdv(s, t) /\ t.work = s.work /\ t.current = c
  BY <1>1 DEF BleState, Kept, SameAdv
<1>3. UpdateEndpoint(s) = t
  BY DEF UpdateEndpoint, c
<1> HIDE DEF t
<1> QED
  BY <1>2, <1>3, KeptInstance DEF c

-----------------------------------------------------------------------------
(***************************************************************************)
(* The inductive invariant.  Three parts are about what is kept by every   *)
(* change of advertising and endpoint, one about what is saved.            *)
(***************************************************************************)
Holds(s, h) == \E i \in ProfileIndexes : s.peer[i] = h
Bonds(s) == \A h \in s.bonded : Holds(s, h)

\* while bonds may not be overwritten nobody pairs who is bonded
OneEach(s) ==
    ~s.build.overwrite =>
        /\ \A h \in BleHosts : s.pairing[h] # "no" => h \notin s.bonded
        /\ ~s.build.clear =>
             \A i \in ProfileIndexes : s.peer[i] # NoHost =>
                 /\ s.peer[i] \in s.bonded
                 /\ \A j \in ProfileIndexes : s.peer[j] = s.peer[i] => i = j

Lesser(x, y) == IF x < y THEN x ELSE y
\* the last digits, as many as the buffer holds
LastOf(q) == SubSeq(q, Len(q) - Lesser(Len(q), PasskeyDigits) + 1, Len(q))
Passkey(s) == s.ring = LastOf(s.typed) /\ s.sent.digits = LastOf(s.sent.typed)

Addresses(s) ==
    /\ \A i \in ProfileIndexes : s.flash.peer[i] \in {NoHost, s.peer[i]}
    /\ ~s.build.clear => s.flash.peer = s.peer
Saved(s) ==
    /\ "saveActive" \notin s.work => s.flash.active = s.active
    /\ "savePreferred" \notin s.work =>
         s.preferred = IF s.flash.preferred = "unset" THEN "usb" ELSE s.flash.preferred

Pure(s) == Bonds(s) /\ OneEach(s) /\ Passkey(s) /\ Addresses(s)

BInv(s) == s \in BleState /\ Pure(s) /\ Saved(s) /\ EndInv(s) /\ AdvInv(s)
\* before advertising and the endpoint are updated
Before(s) == s \in BleState /\ Pure(s) /\ Saved(s) /\ AdvPre(s)

LEMMA KeptPure ==
    ASSUME NEW s, NEW t, Kept(s, t)
    PROVE  /\ Pure(s) => Pure(t)
           /\ Closing(t) <=> Closing(s)
           /\ Desired(t) = Desired(s) /\ (HasRoom(t) <=> HasRoom(s))
BY DEF Kept, Pure, Bonds, OneEach, Passkey, Addresses, Holds, Closing, Desired, HasRoom,
       IsOpen, IsConnected

LEMMA AfterAdvertising ==
    ASSUME NEW s, Before(s), EndInv(s)
    PROVE  BInv(UpdateAdvertising(s)) /\ UpdateAdvertising(s).peer = s.peer
<1> DEFINE t == UpdateAdvertising(s)
<1>1. /\ t \in BleState /\ Kept(s, t) /\ t.work = s.work /\ t.current = s.current
      /\ AdvPre(t) /\ (t.radio <=> Desired(t) = "conn" /\ HasRoom(t))
  BY AdvertisingIs DEF Before
<1> HIDE DEF t
<1>2. Pure(t) /\ t.peer = s.peer
  BY <1>1, KeptPure DEF Before, Kept
<1>3. Saved(t)
  BY <1>1 DEF Before, Saved, Kept
<1>4. EndInv(t)
  BY <1>1, KeptInstance DEF EndInv
<1>5. AdvInv(t)
  BY <1>1 DEF AdvInv
<1> QED
  BY <1>1, <1>2, <1>3, <1>4, <1>5 DEF BInv, t

LEMMA AfterBoth ==
    ASSUME NEW s, Before(s)
    PROVE  /\ BInv(UpdateEndpoint(UpdateAdvertising(s)))
           /\ UpdateEndpoint(UpdateAdvertising(s)).peer = s.peer
<1> DEFINE u == UpdateAdvertising(s)
           t == UpdateEndpoint(u)
<1>1. /\ u \in BleState /\ Kept(s, u) /\ u.work = s.work
      /\ AdvPre(u) /\ (u.radio <=> Desired(u) = "conn" /\ HasRoom(u))
  BY AdvertisingIs DEF Before
<1> HIDE DEF u
<1>2. /\ t \in BleState /\ Kept(u, t) /\ SameAdv(u, t) /\ t.work = u.work
      /\ t.current = Instance(t, SelectedTransport(t))
  BY <1>1, EndpointIs
<1> HIDE DEF t
<1>3. Kept(s, t)
  BY <1>1, <1>2 DEF Kept
<1>4. Pure(t) /\ t.peer = s.peer
  BY <1>3, KeptPure DEF Before, Kept
<1>5. Saved(t)
  BY <1>1, <1>2, <1>3 DEF Before, Saved, Kept
<1>6. EndInv(t)
  BY <1>2 DEF EndInv
<1>7. AdvInv(t)
  BY <1>1, <1>2, KeptPure DEF AdvInv, AdvPre, SameAdv
<1> QED
  BY <1>2, <1>4, <1>5, <1>6, <1>7 DEF BInv, t, u

LEMMA AfterEndpoint ==
    ASSUME NEW s, Before(s), AdvInv(s)
    PROVE  BInv(UpdateEndpoint(s)) /\ UpdateEndpoint(s).peer = s.peer
<1> DEFINE t == UpdateEndpoint(s)
<1>1. /\ t \in BleState /\ Kept(s, t) /\ SameAdv(s, t) /\ t.work = s.work
      /\ t.current = Instance(t, SelectedTransport(t))
  BY EndpointIs DEF Before
<1> HIDE DEF t
<1>2. Pure(t) /\ t.peer = s.peer
  BY <1>1, KeptPure DEF Before, Kept
<1>3. Saved(t)
  BY <1>1 DEF Before, Saved, Kept
<1>4. EndInv(t)
  BY <1>1 DEF EndInv
<1>5. AdvInv(t)
  BY <1>1, KeptPure DEF AdvInv, AdvPre, SameAdv
<1> QED
  BY <1>1, <1>2, <1>3, <1>4, <1>5 DEF BInv, t

\* as AfterAdvertising, for what is done after advertising has been updated
LEMMA Finish ==
    ASSUME NEW s, Before(s), NEW t \in BleState, Kept(s, t), EndInv(t), AdvInv(t),
           \A w \in {"saveActive", "savePreferred"} : w \in s.work => w \in t.work
    PROVE  BInv(t)
<1>1. Pure(t)
  BY KeptPure DEF Before
<1>2. Saved(t)
  BY DEF Before, Saved, Kept
<1> QED
  BY <1>1, <1>2 DEF BInv

-----------------------------------------------------------------------------
(***************************************************************************)
(* The commands.                                                           *)
(***************************************************************************)

\* A connection that ends makes room, one that is being closed does not.
LEMMA Room ==
    ASSUME NEW s \in BleState, NEW t \in BleState,
           \A h \in BleHosts : t.conn[h] # "no" => s.conn[h] # "no"
    PROVE  HasRoom(s) => HasRoom(t)
<1> DEFINE A == {h \in BleHosts : s.conn[h] # "no"}
           B == {h \in BleHosts : t.conn[h] # "no"}
<1>1. B \subseteq A /\ A \subseteq BleHosts
  OBVIOUS
<1>2. IsFiniteSet(A)
  BY BleAssumption, FS_Subset
<1>3. Cardinality(B) <= Cardinality(A) /\ Cardinality(A) \in Nat /\ Cardinality(B) \in Nat
  BY <1>1, <1>2, FS_Subset, FS_CardinalityType
<1>4. (HasRoom(s) <=> Cardinality(A) < MaxConn) /\ (HasRoom(t) <=> Cardinality(B) < MaxConn)
  BY DEF HasRoom
<1> HIDE DEF A, B
<1> QED
  BY <1>3, <1>4, BleAssumption

\* No profile goes from one host to another.
Keeps(s, t) ==
    \A i \in ProfileIndexes : s.peer[i] # NoHost /\ t.peer[i] # s.peer[i] => t.peer[i] = NoHost
\* The addresses stay or are removed.
Removes(s, t) == \A i \in ProfileIndexes : t.peer[i] \in {NoHost, s.peer[i]}

LEMMA ClearIs ==
    ASSUME NEW s, Before(s), EndInv(s), NEW i \in ProfileIndexes
    PROVE  LET t == ClearProfileBond(s, i)
           IN  Before(t) /\ EndInv(t) /\ Removes(s, t)
<1>1. s \in BleState
  BY DEF Before
<1>2. CASE IsOpen(s, i)
  BY <1>2 DEF ClearProfileBond, Removes
<1>3. CASE ~IsOpen(s, i)
  <2> DEFINE h == s.peer[i]
             u == Unpair(s, h)
             t == SetProfileAddress(u, i, NoHost)
  <2>1. h \in BleHosts
    BY <1>1, <1>3 DEF BleState, Peers, IsOpen
  <2>2. ClearProfileBond(s, i) = t
    BY <1>3 DEF ClearProfileBond
  <2> HIDE DEF h
  <2>3. /\ u \in BleState /\ SameAdv(s, u) /\ u.work = s.work /\ u.bonded = s.bonded \ {h}
        /\ u.conn = [s.conn EXCEPT ![h] = IF @ = "up" THEN "closing" ELSE @]
        /\ u.build = s.build /\ u.flash = s.flash /\ u.peer = s.peer
        /\ u.active = s.active /\ u.preferred = s.preferred
        /\ u.pairing = s.pairing /\ u.ring = s.ring /\ u.typed = s.typed /\ u.sent = s.sent
    BY <1>1, <2>1, UnpairIs
  <2> HIDE DEF u
  <2>4. /\ t \in BleState /\ SameAdv(u, t) /\ t.work = u.work \union {"raise"}
        /\ t.bonded = u.bonded /\ t.conn = u.conn /\ t.build = u.build
        /\ t.peer = [u.peer EXCEPT ![i] = NoHost]
        /\ t.flash.peer = [u.flash.peer EXCEPT ![i] = NoHost]
        /\ t.flash.active = u.flash.active /\ t.flash.preferred = u.flash.preferred
        /\ t.active = u.active /\ t.preferred = u.preferred
        /\ t.pairing = u.pairing /\ t.ring = u.ring /\ t.typed = u.typed /\ t.sent = u.sent
    BY <2>3, SetAddressIs
  <2> HIDE DEF t
  <2>5. s.peer \in Peers /\ s.flash.peer \in Peers
    BY <1>1 DEF BleState
  <2>6. \A j \in ProfileIndexes : t.peer[j] = IF j = i THEN NoHost ELSE s.peer[j]
    BY <2>3, <2>4, <2>5 DEF Peers
  <2>7. \A j \in ProfileIndexes : t.flash.peer[j] = IF j = i THEN NoHost ELSE s.flash.peer[j]
    BY <2>3, <2>4, <2>5 DEF Peers
  <2>8. Bonds(t)
    BY <2>3, <2>4, <2>6 DEF Before, Pure, Bonds, Holds, h
  <2>9. OneEach(t)
    <3>1. \A j \in ProfileIndexes : ~s.build.overwrite /\ ~s.build.clear /\ j # i => s.peer[j] # h \/ s.peer[j] = NoHost
      BY DEF Before, Pure, OneEach, h
    <3> QED
      BY <2>3, <2>4, <2>6, <3>1 DEF Before, Pure, OneEach
  <2>10. Passkey(t)
    BY <2>3, <2>4 DEF Before, Pure, Passkey
  <2>11. Addresses(t)
    <3>1. \A j \in ProfileIndexes : t.flash.peer[j] \in {NoHost, t.peer[j]}
      BY <2>6, <2>7 DEF Before, Pure, Addresses
    <3>2. ~s.build.clear => t.flash.peer = t.peer
      BY <2>3, <2>4 DEF Before, Pure, Addresses
    <3> QED
      BY <3>1, <3>2, <2>3, <2>4 DEF Addresses
  <2>12. Saved(t)
    BY <2>3, <2>4 DEF Before, Saved
  <2>13. AdvPre(t)
    <3>1. \A x \in BleHosts : t.conn[x] # "no" => s.conn[x] # "no"
      BY <1>1, <2>1, <2>3, <2>4 DEF BleState
    <3>2. HasRoom(s) => HasRoom(t)
      BY <1>1, <2>4, <3>1, Room
    <3> QED
      BY <2>3, <2>4, <3>2 DEF AdvPre, SameAdv, Before
  <2>14. EndInv(t)
    BY <2>4 DEF EndInv
  <2>15. Removes(s, t)
    BY <2>6 DEF Removes
  <2> QED
    BY <2>2, <2>4, <2>8, <2>9, <2>10, <2>11, <2>12, <2>13, <2>14, <2>15 DEF Before, Pure, t
<1> QED
  BY <1>2, <1>3

LEMMA ClearAllIs ==
    ASSUME NEW s, Before(s), EndInv(s)
    PROVE  LET t == ClearProfileBonds(s)
           IN  Before(t) /\ EndInv(t) /\ Removes(s, t)
<1> DEFINE taken == {i \in ProfileIndexes : ~IsOpen(s, i)}
           hosts == {s.peer[i] : i \in taken}
           conn == [h \in BleHosts |-> IF h \in hosts /\ s.conn[h] = "up" THEN "closing" ELSE s.conn[h]]
           peer == [i \in ProfileIndexes |-> NoHost]
           saved == [i \in ProfileIndexes |-> IF i \in taken THEN NoHost ELSE s.flash.peer[i]]
           work == IF taken = {} THEN s.work ELSE s.work \union {"raise"}
           t == [s EXCEPT !.bonded = @ \ hosts, !.conn = conn, !.peer = peer,
                          !.flash.peer = saved, !.work = work]
<1>1. s \in BleState
  BY DEF Before
<1>2. ClearProfileBonds(s) = t
  BY DEF ClearProfileBonds
<1>3. conn \in [BleHosts -> {"no", "up", "closing"}] /\ peer \in Peers /\ saved \in Peers
      /\ work \in SUBSET Works
  BY <1>1 DEF BleState, Peers, Works
<1>4. \A i \in ProfileIndexes : peer[i] = NoHost /\ saved[i] \in {NoHost, s.flash.peer[i]}
  OBVIOUS
<1>5. \A h \in BleHosts : conn[h] # "no" => s.conn[h] # "no"
  OBVIOUS
<1>6. \A h \in s.bonded : h \in hosts
  BY BleAssumption, <1>1 DEF Before, Pure, Bonds, Holds, IsOpen, BleState
<1>7. ~s.build.clear => saved = peer
  <2>1. ~s.build.clear => \A i \in ProfileIndexes : saved[i] = peer[i]
    BY DEF Before, Pure, Addresses, IsOpen
  <2> QED
    BY <2>1
<1>8. taken = {} => \A i \in ProfileIndexes : s.peer[i] = NoHost
  BY DEF IsOpen
<1>9. /\ "saveActive" \in work <=> "saveActive" \in s.work
      /\ "savePreferred" \in work <=> "savePreferred" \in s.work
      /\ "raise" \notin work => taken = {} /\ "raise" \notin s.work
  OBVIOUS
<1> HIDE DEF taken, conn, peer, saved, work, hosts
<1>10. /\ t \in BleState /\ SameAdv(s, t) /\ t.build = s.build /\ t.active = s.active
       /\ t.bonded = s.bonded \ hosts /\ t.conn = conn /\ t.peer = peer /\ t.flash.peer = saved
       /\ t.work = work /\ t.flash.active = s.flash.active /\ t.flash.preferred = s.flash.preferred
       /\ t.preferred = s.preferred /\ t.usb = s.usb /\ t.current = s.current
       /\ t.pairing = s.pairing /\ t.ring = s.ring /\ t.typed = s.typed /\ t.sent = s.sent
  BY <1>1, <1>3 DEF BleState, SameAdv
<1> HIDE DEF t
<1>11. Bonds(t) /\ t.bonded = {}
  BY <1>6, <1>10 DEF Bonds
<1>12. OneEach(t)
  BY <1>4, <1>10, <1>11 DEF OneEach
<1>13. Passkey(t)
  BY <1>10 DEF Before, Pure, Passkey
<1>14. Addresses(t)
  <2>1. \A i \in ProfileIndexes : t.flash.peer[i] \in {NoHost, t.peer[i]}
    BY <1>4, <1>7, <1>8, <1>10 DEF Before, Pure, Addresses, taken, saved, IsOpen
  <2> QED
    BY <2>1, <1>7, <1>10 DEF Addresses
<1>15. Saved(t)
  BY <1>9, <1>10 DEF Before, Saved
<1>16. AdvPre(t)
  <2>1. HasRoom(s) => HasRoom(t)
    BY <1>1, <1>5, <1>10, Room
  <2> QED
    BY <2>1, <1>10 DEF AdvPre, SameAdv, Before
<1>17. EndInv(t)
  <2>1. CASE "raise" \in work
    BY <2>1, <1>10 DEF EndInv
  <2>2. CASE "raise" \notin work
    <3>1. s.active \in ProfileIndexes
      BY <1>1 DEF BleState
    <3>2. s.peer[s.active] = NoHost /\ t.peer[t.active] = NoHost
      BY <2>2, <1>4, <1>8, <1>9, <1>10, <3>1
    <3>3. ~HostLeaves(s) /\ (IsConnected(t, t.active) <=> IsConnected(s, s.active))
      BY <3>2 DEF HostLeaves, IsConnected, IsOpen
    <3>4. Instance(t, SelectedTransport(t)) = Instance(s, SelectedTransport(s))
      BY <1>10, <3>3, SameInstance
    <3> QED
      BY <2>2, <1>9, <1>10, <3>3, <3>4 DEF EndInv
  <2> QED
    BY <2>1, <2>2
<1>18. Removes(s, t)
  BY <1>4, <1>10 DEF Removes
<1> QED
  BY <1>2, <1>10, <1>11, <1>12, <1>13, <1>14, <1>15, <1>16, <1>17, <1>18 DEF Before, Pure, t

\* A handler whose changes are none of these keeps what the invariant says.
LEMMA SamePure ==
    ASSUME NEW s, NEW t, Pure(s), t.build = s.build, t.flash.peer = s.flash.peer,
           t.bonded = s.bonded, t.peer = s.peer, t.pairing = s.pairing,
           t.ring = s.ring, t.typed = s.typed, t.sent = s.sent
    PROVE  Pure(t)
BY DEF Pure, Bonds, OneEach, Passkey, Addresses, Holds

LEMMA SelectKeeps ==
    ASSUME NEW s, NEW i \in Nat
    PROVE  LET t == BleSelectProfile(s, i)
           IN  /\ BInv(s) => BInv(t)
               /\ Before(s) /\ EndInv(s) => Before(t) /\ EndInv(t)
               /\ Before(s) => t.peer = s.peer
<1>1. CASE i >= Count \/ s.active = i
  BY <1>1 DEF BleSelectProfile
<1>2. CASE i < Count /\ s.active # i
  <2> DEFINE a == [s EXCEPT !.active = i]
             b == Submit(a, "saveActive")
  <2>1. BleSelectProfile(s, i) = UpdateEndpoint(UpdateAdvertising(b))
    BY <1>2, BleAssumption DEF BleSelectProfile
  <2>2. ASSUME Before(s)
        PROVE  Before(b) /\ b.peer = s.peer
    <3>1. s \in BleState /\ i \in ProfileIndexes
      BY <2>2, <1>2, BleAssumption DEF Before, ProfileIndexes
    <3>2. /\ a \in BleState /\ SameAdv(s, a) /\ a.work = s.work /\ a.conn = s.conn
          /\ a.bonded = s.bonded /\ a.build = s.build /\ a.peer = s.peer /\ a.flash = s.flash
          /\ a.preferred = s.preferred /\ a.pairing = s.pairing /\ a.ring = s.ring
          /\ a.typed = s.typed /\ a.sent = s.sent
      BY <3>1, SelectIs
    <3> HIDE DEF a
    <3>3. b \in BleState /\ Kept(a, b) /\ SameAdv(a, b) /\ b.work = a.work \union {"saveActive"}
      BY <3>2, SubmitIs DEF Works
    <3> HIDE DEF b
    <3>4. Pure(b)
      BY <2>2, <3>2, <3>3, SamePure DEF Before, Kept
    <3>5. Saved(b)
      BY <2>2, <3>2, <3>3 DEF Before, Saved, Kept
    <3>6. AdvPre(b)
      <4>1. HasRoom(s) => HasRoom(b)
        BY <3>2, <3>3 DEF HasRoom, Kept
      <4> QED
        BY <4>1, <2>2, <3>2, <3>3 DEF Before, AdvPre, SameAdv
    <3> QED
      BY <3>2, <3>3, <3>4, <3>5, <3>6 DEF Before, Kept
  <2> HIDE DEF b
  <2>3. BInv(s) => Before(s)
    BY DEF BInv, Before, AdvInv
  <2>4. \A t : BInv(t) => Before(t) /\ EndInv(t)
    BY DEF BInv, Before, AdvInv
  <2>5. Before(s) => /\ BInv(BleSelectProfile(s, i))
                     /\ BleSelectProfile(s, i).peer = s.peer
    BY <2>1, <2>2, AfterBoth
  <2> QED
    BY <2>3, <2>4, <2>5
<1> QED
  BY <1>1, <1>2, BleAssumption

LEMMA BInvIs ==
    ASSUME NEW s, BInv(s)
    PROVE  Before(s) /\ EndInv(s) /\ AdvInv(s) /\ s \in BleState
BY DEF BInv, Before, AdvInv

\* One connection changes its state: what that leaves of the invariant.
LEMMA ConnectionIs ==
    ASSUME NEW s, BInv(s), NEW h \in BleHosts, NEW c \in {"no", "closing"},
           s.conn[h] # "no", c = "no" \/ s.conn[h] = "up"
    PROVE  LET t == [s EXCEPT !.conn[h] = c]
           IN  /\ Before(t) /\ (c = "closing" => EndInv(t) /\ AdvInv(t))
               /\ (~IsActiveHost(s, h) => EndInv(t))
               /\ Pure(t) /\ SameAdv(s, t) /\ t.work = s.work /\ t.peer = s.peer
               /\ t.active = s.active
<1> DEFINE t == [s EXCEPT !.conn[h] = c]
<1>1. s \in BleState /\ Before(s) /\ EndInv(s) /\ AdvInv(s)
  BY BInvIs
<1>2. /\ t \in BleState /\ SameAdv(s, t) /\ t.work = s.work /\ t.current = s.current
      /\ t.conn = [s.conn EXCEPT ![h] = c] /\ t.build = s.build /\ t.flash = s.flash
      /\ t.bonded = s.bonded /\ t.peer = s.peer /\ t.active = s.active
      /\ t.preferred = s.preferred /\ t.usb = s.usb /\ t.pairing = s.pairing
      /\ t.ring = s.ring /\ t.typed = s.typed /\ t.sent = s.sent
  BY <1>1 DEF BleState, SameAdv
<1> HIDE DEF t
<1>3. s.conn \in [BleHosts -> {"no", "up", "closing"}]
  BY <1>1 DEF BleState
<1>4. t.conn[h] = c /\ \A x \in BleHosts \ {h} : t.conn[x] = s.conn[x]
  BY <1>2, <1>3
<1>5. Pure(t)
  BY <1>1, <1>2, SamePure DEF Before
<1>6. Saved(t)
  BY <1>1, <1>2 DEF Before, Saved
<1>7. AdvPre(t)
  <2>1. \A x \in BleHosts : t.conn[x] # "no" => s.conn[x] # "no"
    BY <1>4
  <2>2. HasRoom(s) => HasRoom(t)
    BY <1>1, <1>2, <2>1, Room
  <2> QED
    BY <2>2, <1>1, <1>2 DEF Before, AdvPre, SameAdv
<1>8. c = "closing" => AdvInv(t)
  BY <1>7, <1>4 DEF AdvInv, Closing
<1>9. s.active \in ProfileIndexes /\ s.peer \in Peers
  BY <1>1 DEF BleState
<1>10. s.peer[s.active] # h => (HostLeaves(t) <=> HostLeaves(s))
                               /\ (IsConnected(t, t.active) <=> IsConnected(s, s.active))
  BY <1>2, <1>4, <1>9 DEF HostLeaves, IsConnected, IsOpen, Peers
<1>11. s.peer[s.active] # h => EndInv(t)
  BY <1>1, <1>2, <1>10, SameInstance DEF EndInv
<1>12. s.peer[s.active] = h /\ c = "closing" => HostLeaves(t)
  BY <1>2, <1>4, BleAssumption DEF HostLeaves, IsOpen
<1> QED
  BY <1>1, <1>2, <1>5, <1>6, <1>7, <1>8, <1>11, <1>12 DEF Before, EndInv, IsActiveHost, t

LEMMA DisconnectKeeps ==
    ASSUME NEW s, BInv(s), NEW i \in Nat
    PROVE  BInv(DisconnectProfile(s, i)) /\ DisconnectProfile(s, i).peer = s.peer
<1>1. CASE i < Count /\ ~IsOpen(s, i) /\ s.conn[s.peer[i]] = "up"
  <2>1. s.peer[i] \in BleHosts
    BY <1>1, BInvIs, BleAssumption DEF BleState, Peers, IsOpen, ProfileIndexes
  <2> DEFINE t == [s EXCEPT !.conn[s.peer[i]] = "closing"]
  <2>2. Before(t) /\ EndInv(t) /\ AdvInv(t) /\ t.peer = s.peer
    BY <1>1, <2>1, ConnectionIs
  <2>3. DisconnectProfile(s, i) = t
    BY <1>1 DEF DisconnectProfile
  <2> HIDE DEF t
  <2> QED
    BY <2>2, <2>3 DEF BInv, Before
<1>2. CASE ~(i < Count /\ ~IsOpen(s, i) /\ s.conn[s.peer[i]] = "up")
  BY <1>2 DEF DisconnectProfile
<1> QED
  BY <1>1, <1>2

LEMMA PreferredKeeps ==
    ASSUME NEW s, BInv(s), NEW m \in {"usb", "ble"}
    PROVE  BInv(BleSetPreferred(s, m)) /\ BleSetPreferred(s, m).peer = s.peer
<1>1. CASE s.preferred = m
  BY <1>1 DEF BleSetPreferred
<1>2. CASE s.preferred # m
  <2> DEFINE a == [s EXCEPT !.preferred = m]
             b == Submit(a, "savePreferred")
  <2>1. s \in BleState /\ Before(s) /\ AdvInv(s)
    BY BInvIs
  <2>2. /\ a \in BleState /\ SameAdv(s, a) /\ a.work = s.work /\ a.build = s.build
        /\ a.flash = s.flash /\ a.bonded = s.bonded /\ a.peer = s.peer /\ a.active = s.active
        /\ a.conn = s.conn /\ a.pairing = s.pairing /\ a.ring = s.ring /\ a.typed = s.typed
        /\ a.sent = s.sent
    BY <2>1 DEF BleState, SameAdv
  <2> HIDE DEF a
  <2>3. b \in BleState /\ Kept(a, b) /\ SameAdv(a, b) /\ b.work = a.work \union {"savePreferred"}
    BY <2>2, SubmitIs DEF Works
  <2>4. BleSetPreferred(s, m) = UpdateEndpoint(b)
    BY <1>2 DEF BleSetPreferred, a
  <2> HIDE DEF b
  <2>5. Pure(b)
    BY <2>1, <2>2, <2>3, SamePure DEF Before, Kept
  <2>6. Saved(b)
    BY <2>1, <2>2, <2>3 DEF Before, Saved, Kept
  <2>7. Desired(b) = Desired(s) /\ (HasRoom(b) <=> HasRoom(s)) /\ (Closing(b) <=> Closing(s))
    BY <2>2, <2>3 DEF Desired, HasRoom, Closing, Kept, IsOpen, IsConnected
  <2>8. AdvInv(b)
    BY <2>1, <2>2, <2>3, <2>7 DEF AdvInv, AdvPre, SameAdv
  <2>9. Before(b) /\ AdvInv(b) /\ b.peer = s.peer
    BY <2>2, <2>3, <2>5, <2>6, <2>8 DEF Before, AdvInv, Kept
  <2> QED
    BY <2>4, <2>9, AfterEndpoint
<1> QED
  BY <1>1, <1>2

LEMMA RenameKeeps ==
    ASSUME NEW s, BInv(s)
    PROVE  BInv(SetDeviceName(s)) /\ SetDeviceName(s).peer = s.peer
<1>1. Before(s) /\ EndInv(s)
  BY BInvIs
<1>2. CASE s.adv = "conn"
  <2> DEFINE t == StopAdvertising(s)
  <2>1. /\ t \in BleState /\ Kept(s, t) /\ t.adv = "none" /\ t.radio = FALSE
        /\ t.work = s.work /\ t.current = s.current
    BY <1>1, StopIs DEF Before
  <2>2. SetDeviceName(s) = UpdateAdvertising(t)
    BY <1>2 DEF SetDeviceName
  <2> HIDE DEF t
  <2>3. Pure(t) /\ Saved(t) /\ AdvPre(t)
    BY <1>1, <2>1, KeptPure DEF Before, Saved, Kept, AdvPre
  <2>4. EndInv(t)
    BY <1>1, <2>1, KeptInstance DEF EndInv
  <2> QED
    BY <2>1, <2>2, <2>3, <2>4, AfterAdvertising DEF Before, Kept
<1>3. CASE s.adv # "conn"
  BY <1>1, <1>3, AfterAdvertising DEF SetDeviceName
<1> QED
  BY <1>2, <1>3

LEMMA InvokeKeeps ==
    ASSUME NEW s, BInv(s), NEW cmd \in Indexed \union Unindexed, NEW i \in Nat
    PROVE  BInv(Invoke(s, cmd, i)) /\ Keeps(s, Invoke(s, cmd, i))
<1>1. Before(s) /\ EndInv(s) /\ s \in BleState
  BY BInvIs
<1>2. s.active \in ProfileIndexes /\ s.active \in 0..Count - 1 /\ Count \in Nat \ {0}
  BY <1>1, BleAssumption DEF BleState, ProfileIndexes
<1>3. \A t, u : Removes(s, u) /\ t.peer = u.peer => Keeps(s, t)
  BY DEF Removes, Keeps
<1>4. \A t : t.peer = s.peer => Keeps(s, t)
  BY DEF Keeps
<1>5. CASE cmd = "clear"
  <2> DEFINE u == ClearProfileBond(s, s.active)
  <2>1. Before(u) /\ EndInv(u) /\ Removes(s, u)
    BY <1>1, <1>2, ClearIs
  <2>2. Invoke(s, cmd, i) = UpdateAdvertising(u)
    BY <1>5 DEF Invoke, ClearBonds
  <2> HIDE DEF u
  <2> QED
    BY <2>1, <2>2, <1>3, AfterAdvertising
<1>6. CASE cmd = "clearAll"
  <2> DEFINE u == ClearProfileBonds(s)
             v == BleSelectProfile(u, 0)
  <2>1. Before(u) /\ EndInv(u) /\ Removes(s, u)
    BY <1>1, ClearAllIs
  <2>2. Invoke(s, cmd, i) = UpdateAdvertising(v)
    BY <1>6 DEF Invoke, ClearAllBonds
  <2> HIDE DEF u
  <2>3. Before(v) /\ EndInv(v) /\ v.peer = u.peer
    BY <2>1, SelectKeeps
  <2> HIDE DEF v
  <2> QED
    BY <2>1, <2>2, <2>3, <1>3, AfterAdvertising
<1>7. \A k \in Nat : BInv(BleSelectProfile(s, k)) /\ BleSelectProfile(s, k).peer = s.peer
  BY <1>1, SelectKeeps
<1>8. CASE cmd = "next"
  <2>1. (s.active + 1) % Count \in Nat
    BY <1>2
  <2> QED
    BY <2>1, <1>4, <1>7, <1>8 DEF Invoke
<1>9. CASE cmd = "prev"
  <2>1. (s.active + Count - 1) % Count \in Nat
    BY <1>2
  <2> QED
    BY <2>1, <1>4, <1>7, <1>9 DEF Invoke
<1>10. CASE cmd = "select"
  BY <1>4, <1>7, <1>10 DEF Invoke
<1>11. CASE cmd = "disconnect"
  BY <1>4, <1>11, DisconnectKeeps DEF Invoke
<1>12. CASE cmd \in {"usb", "ble", "toggle"}
  <2>1. /\ cmd = "usb" => Invoke(s, cmd, i) = BleSetPreferred(s, "usb")
        /\ cmd = "ble" => Invoke(s, cmd, i) = BleSetPreferred(s, "ble")
        /\ cmd = "toggle" => Invoke(s, cmd, i) = BleSetPreferred(s, IF s.preferred = "usb" THEN "ble" ELSE "usb")
    BY DEF Invoke, Toggle
  <2> QED
    BY <2>1, <1>4, <1>12, PreferredKeeps
<1>13. CASE cmd = "rename"
  BY <1>4, <1>13, RenameKeeps DEF Invoke
<1> QED
  BY <1>5, <1>6, <1>8, <1>9, <1>10, <1>11, <1>12, <1>13 DEF Indexed, Unindexed

-----------------------------------------------------------------------------
(***************************************************************************)
(* The callbacks of connections.                                           *)
(***************************************************************************)

LEMMA ConnectedKeeps ==
    ASSUME NEW s, BInv(s), NEW h \in BleHosts, s.conn[h] = "no"
    PROVE  BInv(Connected(s, h)) /\ Connected(s, h).peer = s.peer
<1> DEFINE a == [s EXCEPT !.conn[h] = "up", !.radio = FALSE, !.adv = "none"]
           u == UpdateAdvertising(a)
           t == IF IsActiveHost(u, h) THEN Submit(u, "raise") ELSE u
<1>1. s \in BleState /\ Before(s) /\ EndInv(s)
  BY BInvIs
<1>2. /\ a \in BleState /\ a.radio = FALSE /\ a.adv = "none" /\ a.work = s.work
      /\ a.current = s.current /\ a.conn = [s.conn EXCEPT ![h] = "up"] /\ a.build = s.build
      /\ a.flash = s.flash /\ a.bonded = s.bonded /\ a.peer = s.peer /\ a.active = s.active
      /\ a.preferred = s.preferred /\ a.usb = s.usb /\ a.pairing = s.pairing
      /\ a.ring = s.ring /\ a.typed = s.typed /\ a.sent = s.sent
  BY <1>1 DEF BleState
<1> HIDE DEF a
<1>3. Before(a)
  <2>1. Pure(a)
    BY <1>1, <1>2, SamePure DEF Before
  <2>2. Saved(a) /\ AdvPre(a)
    BY <1>1, <1>2 DEF Before, Saved, AdvPre
  <2> QED
    BY <1>2, <2>1, <2>2 DEF Before
<1>4. /\ u \in BleState /\ Kept(a, u) /\ u.work = a.work /\ u.current = a.current
      /\ AdvPre(u) /\ (u.radio <=> Desired(u) = "conn" /\ HasRoom(u))
  BY <1>3, AdvertisingIs DEF Before
<1> HIDE DEF u
<1>5. CASE IsActiveHost(u, h)
  <2>1. /\ Submit(u, "raise") \in BleState /\ Kept(u, Submit(u, "raise"))
        /\ SameAdv(u, Submit(u, "raise")) /\ Submit(u, "raise").work = u.work \union {"raise"}
    BY <1>4, SubmitIs DEF Works
  <2>2. t = Submit(u, "raise")
    BY <1>5
  <2> HIDE DEF t
  <2>3. /\ t \in BleState /\ Kept(u, t) /\ SameAdv(u, t) /\ t.work = u.work \union {"raise"}
    BY <2>1, <2>2
  <2>4. Kept(a, t)
    BY <1>4, <2>3 DEF Kept
  <2>5. EndInv(t)
    BY <2>3 DEF EndInv
  <2>6. AdvInv(t)
    BY <1>4, <2>3, KeptPure DEF AdvInv, AdvPre, SameAdv
  <2>7. BInv(t)
    BY <1>3, <1>4, <2>3, <2>4, <2>5, <2>6, Finish
  <2> QED
    BY <1>2, <2>4, <2>7 DEF Connected, t, u, a, Kept
<1>6. CASE ~IsActiveHost(u, h)
  <2>1. s.peer[s.active] # h
    BY <1>2, <1>4, <1>6 DEF IsActiveHost, Kept
  <2>2. s.conn \in [BleHosts -> {"no", "up", "closing"}] /\ s.peer \in Peers /\ s.active \in ProfileIndexes
    BY <1>1 DEF BleState
  <2>3. /\ IsConnected(a, a.active) <=> IsConnected(s, s.active)
        /\ HostLeaves(a) <=> HostLeaves(s)
    BY <1>2, <2>1, <2>2 DEF IsConnected, IsOpen, HostLeaves, Peers
  <2>4. EndInv(a)
    BY <1>1, <1>2, <2>3, SameInstance DEF EndInv
  <2>5. BInv(u) /\ u.peer = s.peer
    BY <1>2, <1>3, <2>4, AfterAdvertising DEF u
  <2> QED
    BY <1>6, <2>5 DEF Connected, t, u, a
<1> QED
  BY <1>5, <1>6

LEMMA ConnectFailedKeeps ==
    ASSUME NEW s, BInv(s)
    PROVE  BInv(ConnectFailed(s)) /\ ConnectFailed(s).peer = s.peer
<1> DEFINE a == [s EXCEPT !.radio = FALSE, !.adv = "none"]
<1>1. s \in BleState /\ Before(s) /\ EndInv(s)
  BY BInvIs
<1>2. /\ a \in BleState /\ Kept(s, a) /\ a.radio = FALSE /\ a.adv = "none"
      /\ a.work = s.work /\ a.current = s.current
  BY <1>1 DEF BleState, Kept
<1>3. ConnectFailed(s) = UpdateAdvertising(a)
  BY DEF ConnectFailed
<1> HIDE DEF a
<1>4. Pure(a) /\ Saved(a) /\ AdvPre(a)
  BY <1>1, <1>2, KeptPure DEF Before, Saved, Kept, AdvPre
<1>5. EndInv(a)
  BY <1>1, <1>2, KeptInstance DEF EndInv
<1> QED
  BY <1>2, <1>3, <1>4, <1>5, AfterAdvertising DEF Before, Kept

-----------------------------------------------------------------------------
(***************************************************************************)
(* The callbacks of pairing and the entry of a passkey.                    *)
(***************************************************************************)

\* what the callbacks of pairing and the keys leave alone
SameBut(s, t) ==
    /\ t \in BleState /\ SameAdv(s, t) /\ t.work = s.work /\ t.current = s.current
    /\ t.conn = s.conn /\ t.build = s.build /\ t.flash = s.flash /\ t.peer = s.peer
    /\ t.active = s.active /\ t.preferred = s.preferred /\ t.usb = s.usb

LEMMA SameButKeeps ==
    ASSUME NEW s, BInv(s), NEW t, SameBut(s, t), Bonds(t), OneEach(t), Passkey(t)
    PROVE  BInv(t) /\ t.peer = s.peer
<1>1. Addresses(t) /\ Saved(t)
  BY DEF BInv, Pure, SameBut, Addresses, Saved
<1>2. /\ Closing(t) <=> Closing(s)
      /\ Desired(t) = Desired(s) /\ (HasRoom(t) <=> HasRoom(s))
      /\ HostLeaves(t) <=> HostLeaves(s)
      /\ IsConnected(t, t.active) <=> IsConnected(s, s.active)
  BY DEF SameBut, Closing, Desired, HasRoom, HostLeaves, IsOpen, IsConnected
<1>3. AdvInv(t)
  BY <1>2 DEF BInv, AdvInv, AdvPre, SameBut, SameAdv
<1>4. EndInv(t)
  BY <1>2, SameInstance DEF BInv, EndInv, SameBut
<1> QED
  BY <1>1, <1>3, <1>4 DEF BInv, Pure, SameBut

LEMMA LastOfEmpty == LastOf(<<>>) = <<>>
<1>1. Lesser(0, PasskeyDigits) = 0
  BY BleAssumption DEF Lesser
<1>2. Len(<<>>) = 0 /\ SubSeq(<<>>, 1, 0) = <<>>
  OBVIOUS
<1> QED
  BY <1>1, <1>2 DEF LastOf

\* A pairing ends, as far as the keyboard is concerned, or waits for its passkey.
LEMMA PairingIs ==
    ASSUME NEW s, BInv(s), NEW h \in BleHosts, NEW c \in {"no", "entry", "go"},
           c # "no" /\ ~s.build.overwrite => h \notin s.bonded
    PROVE  BInv([s EXCEPT !.pairing[h] = c]) /\ [s EXCEPT !.pairing[h] = c].peer = s.peer
<1> DEFINE t == [s EXCEPT !.pairing[h] = c]
<1>1. s \in BleState
  BY BInvIs
<1>2. /\ SameBut(s, t) /\ t.bonded = s.bonded /\ t.pairing = [s.pairing EXCEPT ![h] = c]
      /\ t.ring = s.ring /\ t.typed = s.typed /\ t.sent = s.sent
  BY <1>1 DEF SameBut, BleState, SameAdv
<1> HIDE DEF t
<1>3. s.pairing \in [BleHosts -> {"no", "entry", "go"}]
  BY <1>1 DEF BleState
<1>4. Bonds(t) /\ Passkey(t)
  BY <1>2 DEF BInv, Pure, Bonds, Passkey, Holds, SameBut
<1>5. OneEach(t)
  <2>1. \A x \in BleHosts : t.pairing[x] = IF x = h THEN c ELSE s.pairing[x]
    BY <1>2, <1>3
  <2> QED
    BY <1>2, <2>1 DEF BInv, Pure, OneEach, SameBut
<1> QED
  BY <1>2, <1>4, <1>5, SameButKeeps DEF t

\* An entry begins or is cancelled: nothing has been typed.
LEMMA EntryIs ==
    ASSUME NEW s, BInv(s), NEW e \in BleHosts \union {NoHost}
    PROVE  LET t == [s EXCEPT !.ring = <<>>, !.typed = <<>>, !.entry = e]
           IN  BInv(t) /\ t.peer = s.peer /\ t.conn = s.conn
<1> DEFINE none == <<>>
           t == [s EXCEPT !.ring = none, !.typed = none, !.entry = e]
<1>1. s \in BleState /\ none \in Seq(Digits)
  BY BInvIs
<1> HIDE DEF none
<1>2. /\ SameBut(s, t) /\ t.bonded = s.bonded /\ t.pairing = s.pairing
      /\ t.ring = none /\ t.typed = none /\ t.sent = s.sent
  BY <1>1 DEF SameBut, BleState, SameAdv
<1> HIDE DEF t
<1> USE DEF none
<1>3. Bonds(t) /\ OneEach(t) /\ Passkey(t)
  BY <1>2, LastOfEmpty DEF BInv, Pure, Bonds, OneEach, Passkey, Holds, SameBut
<1> QED
  BY <1>2, <1>3, SameButKeeps DEF t, SameBut

LEMMA CancelKeeps ==
    ASSUME NEW s, BInv(s)
    PROVE  BInv(AuthCancel(s)) /\ AuthCancel(s).peer = s.peer /\ AuthCancel(s).conn = s.conn
BY EntryIs DEF AuthCancel

LEMMA AcceptKeeps ==
    ASSUME NEW s, BInv(s), NEW h \in BleHosts, h \in s.bonded => s.build.overwrite
    PROVE  BInv(PairingAccept(s, h)) /\ PairingAccept(s, h).peer = s.peer
<1>1. CASE ~PairingAllowed(s, h)
  BY <1>1 DEF PairingAccept
<1>2. CASE PairingAllowed(s, h) /\ s.build.passkey
  <2> DEFINE u == [s EXCEPT !.pairing[h] = "entry"]
  <2>1. BInv(u) /\ u.peer = s.peer
    BY PairingIs
  <2>2. PairingAccept(s, h) = [u EXCEPT !.ring = <<>>, !.typed = <<>>, !.entry = h]
    BY <1>2 DEF PairingAccept, PasskeyEntry
  <2> HIDE DEF u
  <2>3. LET t == [u EXCEPT !.ring = <<>>, !.typed = <<>>, !.entry = h]
        IN  BInv(t) /\ t.peer = u.peer
    BY <2>1, EntryIs
  <2> QED
    BY <2>1, <2>2, <2>3
<1>3. CASE PairingAllowed(s, h) /\ ~s.build.passkey
  <2>1. PairingAccept(s, h) = [s EXCEPT !.pairing[h] = "go"]
    BY <1>3 DEF PairingAccept
  <2> QED
    BY <2>1, PairingIs
<1> QED
  BY <1>1, <1>2, <1>3

LEMMA DisconnectedKeeps ==
    ASSUME NEW s, BInv(s), NEW h \in BleHosts, s.conn[h] # "no"
    PROVE  BInv(Disconnected(s, h)) /\ Disconnected(s, h).peer = s.peer
<1> DEFINE p == [s EXCEPT !.pairing[h] = "no"]
           c == [p EXCEPT !.conn[h] = "no"]
           d == Submit(c, "adv")
<1>1. BInv(p) /\ p.peer = s.peer /\ p.conn[h] # "no" /\ p.active = s.active
  <2>1. p.conn = s.conn /\ p.active = s.active
    BY BInvIs DEF BleState
  <2> HIDE DEF p
  <2>2. BInv(p) /\ p.peer = s.peer
    BY PairingIs DEF p
  <2> QED
    BY <2>1, <2>2
<1>2. [s EXCEPT !.conn[h] = "no", !.pairing[h] = "no"] = c
  BY BInvIs DEF BleState
<1> HIDE DEF p
<1>3. /\ Before(c) /\ (~IsActiveHost(p, h) => EndInv(c)) /\ c.work = p.work
      /\ c.peer = p.peer /\ c.active = p.active
  BY <1>1, ConnectionIs
<1> HIDE DEF c
<1>4. /\ d \in BleState /\ Kept(c, d) /\ SameAdv(c, d)
      /\ d.work = c.work \union {"adv"} /\ d.current = c.current
  BY <1>3, SubmitIs DEF Before, Works
<1>5. Disconnected(s, h) = IF IsActiveHost(s, h) THEN Submit(d, "raise") ELSE d
  BY <1>2 DEF Disconnected
<1> HIDE DEF d
<1>6. AdvPre(d)
  BY <1>3, <1>4, KeptPure DEF Before, AdvPre, SameAdv
<1>7. AdvInv(d)
  BY <1>4, <1>6 DEF AdvInv
<1>8. CASE IsActiveHost(s, h)
  <2> DEFINE t == Submit(d, "raise")
  <2>1. /\ t \in BleState /\ Kept(d, t) /\ SameAdv(d, t) /\ t.work = d.work \union {"raise"}
    BY <1>4, SubmitIs DEF Works
  <2> HIDE DEF t
  <2>2. Kept(c, t)
    BY <1>4, <2>1 DEF Kept
  <2>3. EndInv(t)
    BY <2>1 DEF EndInv
  <2>4. AdvInv(t)
    BY <1>4, <1>6, <2>1, KeptPure DEF AdvInv, AdvPre, SameAdv
  <2>5. BInv(t)
    BY <1>3, <1>4, <2>1, <2>2, <2>3, <2>4, Finish
  <2>6. t.peer = s.peer
    BY <1>1, <1>3, <2>2 DEF Kept
  <2> QED
    BY <1>5, <1>8, <2>5, <2>6 DEF t
<1>9. CASE ~IsActiveHost(s, h)
  <2>1. EndInv(c)
    BY <1>1, <1>3, <1>9 DEF IsActiveHost
  <2>2. EndInv(d)
    BY <1>4, <2>1, KeptInstance DEF EndInv
  <2>3. BInv(d)
    BY <1>3, <1>4, <1>7, <2>2, Finish
  <2> QED
    BY <1>1, <1>3, <1>4, <1>5, <1>9, <2>3 DEF Kept
<1> QED
  BY <1>8, <1>9

LEMMA CompleteKeeps ==
    ASSUME NEW s, BInv(s), NEW h \in BleHosts, s.pairing[h] = "go"
    PROVE  LET t == PairingComplete([s EXCEPT !.pairing[h] = "no", !.bonded = @ \union {h}], h)
           IN  BInv(t) /\ Keeps(s, t)
<1> DEFINE a == [s EXCEPT !.pairing[h] = "no", !.bonded = @ \union {h}]
<1>1. s \in BleState /\ Before(s) /\ EndInv(s)
  BY BInvIs
<1>2. /\ a \in BleState /\ SameAdv(s, a) /\ a.work = s.work /\ a.current = s.current
      /\ a.conn = s.conn /\ a.build = s.build /\ a.flash = s.flash /\ a.peer = s.peer
      /\ a.active = s.active /\ a.preferred = s.preferred /\ a.usb = s.usb
      /\ a.bonded = s.bonded \union {h} /\ a.pairing = [s.pairing EXCEPT ![h] = "no"]
      /\ a.entry = s.entry /\ a.ring = s.ring /\ a.typed = s.typed /\ a.sent = s.sent
  BY <1>1 DEF BleState, SameAdv
<1> HIDE DEF a
<1>3. s.pairing \in [BleHosts -> {"no", "entry", "go"}] /\ s.peer \in Peers /\ s.flash.peer \in Peers
      /\ s.active \in ProfileIndexes
  BY <1>1 DEF BleState
<1>4. \A x \in BleHosts : a.pairing[x] = IF x = h THEN "no" ELSE s.pairing[x]
  BY <1>2, <1>3
<1>5. ~s.build.overwrite => h \notin s.bonded
  BY <1>1 DEF Before, Pure, OneEach
<1>6. PairingAllowed(a, h) <=> IsOpen(s, s.active) \/ (s.build.overwrite /\ IsActiveHost(s, h))
  BY <1>2 DEF PairingAllowed, IsOpen, IsActiveHost
<1>7. CASE ~PairingAllowed(a, h)
  <2> DEFINE t == Unpair(a, h)
  <2>1. /\ t \in BleState /\ SameAdv(a, t) /\ t.work = a.work /\ t.current = a.current
        /\ t.bonded = a.bonded \ {h}
        /\ t.conn = [a.conn EXCEPT ![h] = IF @ = "up" THEN "closing" ELSE @]
        /\ t.build = a.build /\ t.flash = a.flash /\ t.peer = a.peer
        /\ t.active = a.active /\ t.preferred = a.preferred /\ t.usb = a.usb
        /\ t.pairing = a.pairing /\ t.ring = a.ring /\ t.typed = a.typed /\ t.sent = a.sent
    BY <1>2, UnpairIs
  <2>2. PairingComplete(a, h) = t
    BY <1>7 DEF PairingComplete
  <2> HIDE DEF t
  <2>3. t.bonded = s.bonded \ {h}
    BY <1>2, <2>1
  <2>4. Bonds(t)
    BY <1>1, <1>2, <2>1, <2>3 DEF Before, Pure, Bonds, Holds
  <2>5. OneEach(t)
    BY <1>1, <1>2, <1>4, <1>5, <2>1, <2>3 DEF Before, Pure, OneEach
  <2>6. Passkey(t) /\ Addresses(t)
    BY <1>1, <1>2, <2>1 DEF Before, Pure, Passkey, Addresses
  <2>7. Saved(t)
    BY <1>1, <1>2, <2>1 DEF Before, Saved
  <2>8. s.conn \in [BleHosts -> {"no", "up", "closing"}]
    BY <1>1 DEF BleState
  <2>9. \A x \in BleHosts : t.conn[x] = IF x = h /\ s.conn[h] = "up" THEN "closing" ELSE s.conn[x]
    BY <1>2, <2>1, <2>8
  <2>10. HasRoom(s) => HasRoom(t)
    BY <1>1, <2>1, <2>9, Room
  <2>11. AdvPre(t)
    BY <1>1, <1>2, <2>1, <2>10 DEF Before, AdvPre, SameAdv
  <2>12. AdvInv(t)
    <3>1. CASE s.conn[h] = "up"
      BY <2>9, <2>11, <3>1 DEF AdvInv, Closing
    <3>2. CASE s.conn[h] # "up"
      <4>1. t.conn = s.conn
        BY <1>2, <2>1, <2>8, <3>2
      <4>2. Desired(t) = Desired(s) /\ (HasRoom(t) <=> HasRoom(s)) /\ (Closing(t) <=> Closing(s))
        BY <4>1, <1>2, <2>1 DEF Desired, HasRoom, Closing, IsOpen, IsConnected
      <4> QED
        BY <1>2, <2>1, <2>11, <4>2, BInvIs DEF AdvInv, SameAdv
    <3> QED
      BY <3>1, <3>2
  <2>13. EndInv(t)
    <3>1. CASE s.peer[s.active] = h /\ s.conn[h] = "up"
      BY <1>2, <2>1, <2>9, <3>1, BleAssumption DEF EndInv, HostLeaves, IsOpen
    <3>2. CASE ~(s.peer[s.active] = h /\ s.conn[h] = "up")
      <4>1. s.peer[s.active] \in BleHosts \/ s.peer[s.active] = NoHost
        BY <1>3 DEF Peers
      <4>2. /\ HostLeaves(t) <=> HostLeaves(s)
            /\ IsConnected(t, t.active) <=> IsConnected(s, s.active)
        BY <1>2, <2>1, <2>9, <3>2, <4>1 DEF HostLeaves, IsConnected, IsOpen
      <4> QED
        BY <1>1, <1>2, <2>1, <4>2, SameInstance DEF EndInv
    <3> QED
      BY <3>1, <3>2
  <2> QED
    BY <1>2, <2>1, <2>2, <2>4, <2>5, <2>6, <2>7, <2>12, <2>13 DEF BInv, Pure, Keeps, a
<1>8. CASE PairingAllowed(a, h)
  <2> DEFINE t == SetProfileAddress(a, a.active, h)
  <2>1. /\ t \in BleState /\ SameAdv(a, t) /\ t.work = a.work \union {"raise"}
        /\ t.bonded = a.bonded /\ t.conn = a.conn /\ t.build = a.build
        /\ t.peer = [a.peer EXCEPT ![a.active] = h]
        /\ t.flash.peer = [a.flash.peer EXCEPT ![a.active] = h]
        /\ t.flash.active = a.flash.active /\ t.flash.preferred = a.flash.preferred
        /\ t.active = a.active /\ t.preferred = a.preferred
        /\ t.pairing = a.pairing /\ t.ring = a.ring /\ t.typed = a.typed /\ t.sent = a.sent
    BY <1>2, <1>3, SetAddressIs
  <2>2. PairingComplete(a, h) = UpdateAdvertising(t)
    BY <1>8 DEF PairingComplete
  <2> HIDE DEF t
  <2>3. \A j \in ProfileIndexes : t.peer[j] = IF j = s.active THEN h ELSE s.peer[j]
    BY <1>2, <1>3, <2>1 DEF Peers
  <2>4. \A j \in ProfileIndexes : t.flash.peer[j] = IF j = s.active THEN h ELSE s.flash.peer[j]
    BY <1>2, <1>3, <2>1 DEF Peers
  <2>5. s.peer[s.active] = NoHost \/ (s.build.overwrite /\ s.peer[s.active] = h)
    BY <1>6, <1>8 DEF IsOpen, IsActiveHost
  <2>6. Bonds(t)
    <3>1. \A x \in s.bonded : x # NoHost /\ Holds(s, x)
      BY <1>1, BleAssumption DEF Before, Pure, Bonds, BleState
    <3>2. ASSUME NEW x \in t.bonded
          PROVE  Holds(t, x)
      <4>1. CASE x = h
        BY <1>3, <2>3, <4>1 DEF Holds
      <4>2. CASE x # h
        <5>1. PICK j \in ProfileIndexes : s.peer[j] = x
          BY <1>2, <2>1, <3>1, <4>2 DEF Holds
        <5>2. j # s.active
          BY <1>2, <2>1, <2>5, <3>1, <4>2, <5>1
        <5> QED
          BY <2>3, <5>1, <5>2 DEF Holds
      <4> QED
        BY <4>1, <4>2
    <3> QED
      BY <3>2 DEF Bonds
  <2>7. OneEach(t)
    <3>1. ~s.build.overwrite /\ ~s.build.clear => \A j \in ProfileIndexes : s.peer[j] # h
      BY <1>1, <1>5, BleAssumption DEF Before, Pure, OneEach
    <3>2. ~s.build.overwrite => \A x \in BleHosts : t.pairing[x] # "no" => x \notin t.bonded
      BY <1>1, <1>2, <1>4, <2>1 DEF Before, Pure, OneEach
    <3>3. ASSUME ~s.build.overwrite, ~s.build.clear, NEW j \in ProfileIndexes, t.peer[j] # NoHost
          PROVE  t.peer[j] \in t.bonded /\ \A l \in ProfileIndexes : t.peer[l] = t.peer[j] => j = l
      BY <1>1, <1>2, <2>1, <2>3, <3>1, <3>3 DEF Before, Pure, OneEach
    <3> QED
      BY <1>2, <2>1, <3>2, <3>3 DEF OneEach
  <2>8. Passkey(t)
    BY <1>1, <1>2, <2>1 DEF Before, Pure, Passkey
  <2>9. Addresses(t)
    <3>1. \A j \in ProfileIndexes : t.flash.peer[j] \in {NoHost, t.peer[j]}
      BY <1>1, <2>3, <2>4 DEF Before, Pure, Addresses
    <3>2. ~s.build.clear => t.flash.peer = t.peer
      BY <1>1, <1>2, <2>1 DEF Before, Pure, Addresses
    <3> QED
      BY <3>1, <3>2, <1>2, <2>1 DEF Addresses
  <2>10. Saved(t)
    BY <1>1, <1>2, <2>1 DEF Before, Saved
  <2>11. AdvPre(t)
    <3>1. HasRoom(s) => HasRoom(t)
      BY <1>2, <2>1 DEF HasRoom
    <3> QED
      BY <3>1, <1>1, <1>2, <2>1 DEF Before, AdvPre, SameAdv
  <2>12. EndInv(t)
    BY <2>1 DEF EndInv
  <2>13. BInv(UpdateAdvertising(t)) /\ UpdateAdvertising(t).peer = t.peer
    BY <2>1, <2>6, <2>7, <2>8, <2>9, <2>10, <2>11, <2>12, AfterAdvertising DEF Before, Pure
  <2>14. Keeps(s, t)
    BY <2>3, <2>5 DEF Keeps
  <2> QED
    BY <2>2, <2>13, <2>14 DEF a, Keeps
<1> QED
  BY <1>7, <1>8

\* The buffer of the last digits is what the code makes of a ring buffer.
LEMMA LastIs ==
    ASSUME NEW q \in Seq(Digits)
    PROVE  /\ LastOf(q) \in Seq(Digits) /\ Len(LastOf(q)) = Lesser(Len(q), PasskeyDigits)
           /\ \A i \in 1..Lesser(Len(q), PasskeyDigits) :
                LastOf(q)[i] = q[Len(q) - Lesser(Len(q), PasskeyDigits) + i]
<1> DEFINE n == Len(q)
           k == Lesser(n, PasskeyDigits)
<1>1. n \in Nat /\ k \in Nat /\ k <= n /\ PasskeyDigits \in Nat
  BY BleAssumption, LenProperties DEF Lesser
<1>2. \A i \in n - k + 1..n : q[i] \in Digits
  BY <1>1, ElementOfSeq
<1>3. LastOf(q) = SubSeq(q, n - k + 1, n)
  BY DEF LastOf
<1> HIDE DEF n, k
<1>4. n - k + 1 \in Int /\ n \in Int
  BY <1>1
<1>5. /\ SubSeq(q, n - k + 1, n) \in Seq(Digits)
      /\ Len(SubSeq(q, n - k + 1, n)) = IF n - k + 1 <= n THEN n - (n - k + 1) + 1 ELSE 0
      /\ \A i \in 1..n - (n - k + 1) + 1 : SubSeq(q, n - k + 1, n)[i] = q[n - k + 1 + i - 1]
  BY <1>2, <1>4, SubSeqProperties
<1>6. (IF n - k + 1 <= n THEN n - (n - k + 1) + 1 ELSE 0) = k /\ n - (n - k + 1) + 1 = k
  BY <1>1
<1>7. \A i \in 1..k : n - k + 1 + i - 1 = n - k + i
  BY <1>1
<1>8. Len(LastOf(q)) = k
  BY <1>3, <1>5, <1>6
<1>9. \A i \in 1..k : LastOf(q)[i] = q[n - k + i]
  BY <1>3, <1>5, <1>6, <1>7
<1> QED
  BY <1>3, <1>5, <1>8, <1>9 DEF n, k

LEMMA LastDigits ==
    ASSUME NEW q \in Seq(Digits), NEW d \in Digits
    PROVE  Append(IF Len(LastOf(q)) < PasskeyDigits THEN LastOf(q) ELSE Tail(LastOf(q)), d)
             = LastOf(Append(q, d))
<1> DEFINE n == Len(q)
           k == Lesser(n, PasskeyDigits)
           r == LastOf(q)
           a == Append(q, d)
           z == LastOf(a)
<1>1. n \in Nat /\ PasskeyDigits \in Nat \ {0}
  BY BleAssumption, LenProperties
<1>2. /\ a \in Seq(Digits) /\ Len(a) = n + 1
      /\ \A i \in 1..n : a[i] = q[i]
      /\ a[n + 1] = d
  BY AppendProperties
<1>3. r \in Seq(Digits) /\ Len(r) = k /\ \A i \in 1..k : r[i] = q[n - k + i]
  BY LastIs
<1> HIDE DEF r, a
<1>4. /\ z \in Seq(Digits) /\ Len(z) = Lesser(Len(a), PasskeyDigits)
      /\ \A i \in 1..Lesser(Len(a), PasskeyDigits) :
           z[i] = a[Len(a) - Lesser(Len(a), PasskeyDigits) + i]
  BY <1>2, LastIs
<1> HIDE DEF n, z
<1>5. CASE n < PasskeyDigits
  <2>1. k = n /\ Lesser(Len(a), PasskeyDigits) = n + 1 /\ Len(a) = n + 1
    BY <1>1, <1>2, <1>5 DEF Lesser
  <2> DEFINE y == Append(r, d)
  <2>2. y \in Seq(Digits) /\ Len(y) = n + 1 /\ (\A i \in 1..n : y[i] = r[i]) /\ y[n + 1] = d
    BY <1>3, <2>1, AppendProperties
  <2> HIDE DEF y
  <2>3. ASSUME NEW i \in 1..n + 1
        PROVE  y[i] = z[i]
    <3>1. z[i] = a[i]
      <4>1. n + 1 - (n + 1) + i = i
        BY <1>1
      <4> QED
        BY <1>4, <2>1, <4>1
    <3>2. CASE i = n + 1
      BY <1>2, <2>2, <3>1, <3>2
    <3>3. CASE i # n + 1
      <4>1. i \in 1..n /\ n - n + i = i
        BY <1>1, <3>3
      <4> QED
        BY <1>2, <1>3, <2>1, <2>2, <3>1, <4>1
    <3> QED
      BY <3>2, <3>3
  <2>4. y = z
    BY <1>4, <2>1, <2>2, <2>3, SeqEqual
  <2> QED
    BY <1>3, <1>5, <2>1, <2>4 DEF r, a, y, z
<1>6. CASE ~(n < PasskeyDigits)
  <2> DEFINE p == PasskeyDigits
             y == Append(Tail(r), d)
  <2>1. k = p /\ Lesser(Len(a), PasskeyDigits) = p /\ Len(a) = n + 1
    BY <1>1, <1>2, <1>6 DEF Lesser
  <2>2. r # <<>>
    BY <1>1, <1>3, <2>1, EmptySeq
  <2>3. Tail(r) \in Seq(Digits) /\ Len(Tail(r)) = p - 1 /\ \A i \in 1..p - 1 : Tail(r)[i] = r[i + 1]
    BY <1>3, <2>1, <2>2, HeadTailProperties
  <2>4. /\ y \in Seq(Digits) /\ Len(y) = Len(Tail(r)) + 1
        /\ \A i \in 1..Len(Tail(r)) : y[i] = Tail(r)[i]
        /\ y[Len(Tail(r)) + 1] = d
    BY <2>3, AppendProperties
  <2>5. p \in Nat /\ p - 1 + 1 = p
    BY <1>1
  <2> HIDE DEF y, p
  <2>6. Len(y) = p /\ (\A i \in 1..p - 1 : y[i] = r[i + 1]) /\ y[p] = d
    BY <2>3, <2>4, <2>5
  <2>7. ASSUME NEW i \in 1..p
        PROVE  y[i] = z[i]
    <3>1. z[i] = a[n + 1 - p + i]
      <4>1. i \in 1..Lesser(Len(a), PasskeyDigits)
        BY <2>1, <2>5
      <4>2. z[i] = a[Len(a) - Lesser(Len(a), PasskeyDigits) + i]
        BY <1>4, <4>1
      <4>3. Len(a) - Lesser(Len(a), PasskeyDigits) + i = n + 1 - p + i
        BY <1>1, <2>1, <2>5
      <4> QED
        BY <4>2, <4>3
    <3>2. CASE i = p
      <4>1. n + 1 - p + p = n + 1
        BY <1>1, <2>5
      <4> QED
        BY <1>2, <2>6, <3>1, <3>2, <4>1
    <3>3. CASE i # p
      <4>1. /\ i \in 1..p - 1 /\ i + 1 \in 1..p /\ n - p + (i + 1) = n + 1 - p + i
            /\ n + 1 - p + i \in 1..n
        BY <1>1, <1>6, <2>5, <3>3 DEF p
      <4>2. r[i + 1] = q[n - p + (i + 1)]
        BY <1>3, <2>1, <4>1
      <4> QED
        BY <1>2, <2>6, <3>1, <4>1, <4>2
    <3> QED
      BY <3>2, <3>3
  <2>8. y = z
    BY <1>4, <2>1, <2>4, <2>6, <2>7, SeqEqual
  <2> QED
    BY <1>3, <1>6, <2>1, <2>8 DEF r, a, y, z, p
<1> QED
  BY <1>5, <1>6

LEMMA DigitKeeps ==
    ASSUME NEW s, BInv(s), NEW d \in Digits
    PROVE  BInv(EnterDigit(s, d)) /\ EnterDigit(s, d).peer = s.peer
<1> DEFINE r == Append(IF Len(s.ring) < PasskeyDigits THEN s.ring ELSE Tail(s.ring), d)
           q == Append(s.typed, d)
           t == [s EXCEPT !.typed = q, !.ring = r]
<1>1. s \in BleState /\ s.typed \in Seq(Digits) /\ Passkey(s)
  BY BInvIs DEF BleState, BInv, Pure
<1>2. q \in Seq(Digits)
  BY <1>1, AppendProperties
<1>3. r = LastOf(q)
  <2>1. Append(IF Len(LastOf(s.typed)) < PasskeyDigits THEN LastOf(s.typed) ELSE Tail(LastOf(s.typed)), d)
          = LastOf(q)
    BY <1>1, LastDigits
  <2> QED
    BY <1>1, <2>1 DEF Passkey
<1>4. r \in Seq(Digits)
  BY <1>2, <1>3, LastIs
<1>5. EnterDigit(s, d) = t
  BY DEF EnterDigit
<1> HIDE DEF r, q
<1>6. /\ SameBut(s, t) /\ t.bonded = s.bonded /\ t.pairing = s.pairing
      /\ t.ring = r /\ t.typed = q /\ t.sent = s.sent
  BY <1>1, <1>2, <1>4 DEF SameBut, BleState, SameAdv
<1> HIDE DEF t
<1>7. Bonds(t) /\ OneEach(t) /\ Passkey(t)
  BY <1>1, <1>3, <1>6 DEF BInv, Pure, Bonds, OneEach, Passkey, Holds, SameBut
<1> QED
  BY <1>5, <1>6, <1>7, SameButKeeps

LEMMA SendKeeps ==
    ASSUME NEW s, BInv(s), s.entry # NoHost
    PROVE  BInv(SendPasskey(s)) /\ SendPasskey(s).peer = s.peer
<1> DEFINE h == s.entry
           c == IF s.pairing[h] = "entry" THEN "go" ELSE s.pairing[h]
           p == [s EXCEPT !.pairing[h] = c]
           a == [s EXCEPT !.sent = [digits |-> s.ring, typed |-> s.typed]]
<1>1. s \in BleState /\ h \in BleHosts /\ s.ring \in Seq(Digits) /\ s.typed \in Seq(Digits)
  BY BInvIs DEF BleState
<1>2. c \in {"no", "entry", "go"} /\ (c # "no" /\ ~s.build.overwrite => h \notin s.bonded)
  BY <1>1 DEF BInv, Pure, OneEach, BleState
<1>3. /\ SameBut(s, a) /\ a.bonded = s.bonded /\ a.pairing = s.pairing /\ a.entry = s.entry
      /\ a.ring = s.ring /\ a.typed = s.typed /\ a.sent = [digits |-> s.ring, typed |-> s.typed]
  BY <1>1 DEF SameBut, BleState, SameAdv
<1>4. BInv(a) /\ a.peer = s.peer
  <2> HIDE DEF a
  <2>1. Bonds(a) /\ OneEach(a) /\ Passkey(a)
    BY <1>3 DEF BInv, Pure, Bonds, OneEach, Passkey, Holds, SameBut
  <2> QED
    BY <1>3, <2>1, SameButKeeps
<1> DEFINE b == [a EXCEPT !.pairing[h] = c]
           none == <<>>
           t == [b EXCEPT !.ring = none, !.typed = none, !.entry = NoHost]
<1>5. SendPasskey(s) = t
  BY <1>1 DEF SendPasskey, BleState
<1> HIDE DEF a
<1>6. BInv(b) /\ b.peer = a.peer
  <2>1. c # "no" /\ ~a.build.overwrite => h \notin a.bonded
    BY <1>2, <1>3 DEF SameBut
  <2> HIDE DEF c
  <2> QED
    BY <1>1, <1>2, <1>4, <2>1, PairingIs
<1> HIDE DEF b
<1>7. BInv(t) /\ t.peer = b.peer
  BY <1>6, EntryIs
<1> QED
  BY <1>4, <1>5, <1>6, <1>7

-----------------------------------------------------------------------------
(***************************************************************************)
(* Work items, USB and the start.                                          *)
(***************************************************************************)

\* a work item is taken, or the state of USB changes
LEMMA WorkIs ==
    ASSUME NEW s, BInv(s), NEW w \in {"adv", "raise"}
    PROVE  LET t == [s EXCEPT !.work = @ \ {w}]
           IN  /\ Before(t) /\ t.peer = s.peer
               /\ (w = "adv" => EndInv(t)) /\ (w = "raise" => AdvInv(t))
<1> DEFINE t == [s EXCEPT !.work = @ \ {w}]
<1>1. s \in BleState /\ Before(s) /\ EndInv(s) /\ AdvInv(s)
  BY BInvIs
<1>2. /\ t \in BleState /\ Kept(s, t) /\ SameAdv(s, t) /\ t.work = s.work \ {w}
      /\ t.current = s.current
  BY <1>1 DEF BleState, Kept, SameAdv
<1> HIDE DEF t
<1>3. Pure(t) /\ Saved(t)
  BY <1>1, <1>2, KeptPure DEF Before, Saved, Kept
<1>4. AdvPre(t)
  BY <1>1, <1>2, KeptPure DEF Before, AdvPre, SameAdv
<1>5. w = "adv" => EndInv(t)
  BY <1>1, <1>2, KeptInstance DEF EndInv
<1>6. w = "raise" => AdvInv(t)
  BY <1>1, <1>2, <1>4, KeptPure DEF AdvInv, SameAdv
<1> QED
  BY <1>2, <1>3, <1>4, <1>5, <1>6 DEF Before, Kept, t

LEMMA WorkKeeps ==
    ASSUME NEW s, BInv(s)
    PROVE  /\ LET t == UpdateAdvertising([s EXCEPT !.work = @ \ {"adv"}])
              IN  BInv(t) /\ t.peer = s.peer
           /\ LET t == UpdateEndpoint([s EXCEPT !.work = @ \ {"raise"}])
              IN  BInv(t) /\ t.peer = s.peer
<1> DEFINE a == [s EXCEPT !.work = @ \ {"adv"}]
           b == [s EXCEPT !.work = @ \ {"raise"}]
<1>1. Before(a) /\ a.peer = s.peer /\ EndInv(a)
  BY WorkIs
<1>2. Before(b) /\ b.peer = s.peer /\ AdvInv(b)
  BY WorkIs
<1> HIDE DEF a, b
<1>3. BInv(UpdateAdvertising(a)) /\ UpdateAdvertising(a).peer = s.peer
  BY <1>1, AfterAdvertising
<1>4. BInv(UpdateEndpoint(b)) /\ UpdateEndpoint(b).peer = s.peer
  BY <1>2, AfterEndpoint
<1> QED
  BY <1>3, <1>4 DEF a, b

LEMMA UsbKeeps ==
    ASSUME NEW s, BInv(s)
    PROVE  LET t == UpdateEndpoint([s EXCEPT !.usb = ~@]) IN BInv(t) /\ t.peer = s.peer
<1> DEFINE a == [s EXCEPT !.usb = ~@]
<1>1. s \in BleState /\ Before(s) /\ AdvInv(s)
  BY BInvIs
<1>2. /\ a \in BleState /\ SameAdv(s, a) /\ a.work = s.work /\ a.conn = s.conn
      /\ a.build = s.build /\ a.flash = s.flash /\ a.bonded = s.bonded /\ a.peer = s.peer
      /\ a.active = s.active /\ a.preferred = s.preferred /\ a.pairing = s.pairing
      /\ a.ring = s.ring /\ a.typed = s.typed /\ a.sent = s.sent
  BY <1>1 DEF BleState, SameAdv
<1> HIDE DEF a
<1>3. Pure(a) /\ Saved(a)
  BY <1>1, <1>2, SamePure DEF Before, Saved
<1>4. Desired(a) = Desired(s) /\ (HasRoom(a) <=> HasRoom(s)) /\ (Closing(a) <=> Closing(s))
  BY <1>2 DEF Desired, HasRoom, Closing, IsOpen, IsConnected
<1>5. AdvInv(a)
  BY <1>1, <1>2, <1>4 DEF AdvInv, AdvPre, SameAdv
<1>6. Before(a)
  BY <1>2, <1>3, <1>5 DEF Before, AdvInv
<1>7. BInv(UpdateEndpoint(a)) /\ UpdateEndpoint(a).peer = s.peer
  BY <1>2, <1>5, <1>6, AfterEndpoint
<1> QED
  BY <1>7 DEF a

LEMMA SaveKeeps ==
    ASSUME NEW s, BInv(s)
    PROVE  /\ LET t == [s EXCEPT !.work = @ \ {"saveActive"}, !.flash.active = s.active]
              IN  BInv(t) /\ t.peer = s.peer
           /\ LET t == [s EXCEPT !.work = @ \ {"savePreferred"}, !.flash.preferred = s.preferred]
              IN  BInv(t) /\ t.peer = s.peer
<1> DEFINE Same(t) ==
             /\ t \in BleState /\ SameAdv(s, t) /\ t.current = s.current /\ t.conn = s.conn
             /\ t.build = s.build /\ t.bonded = s.bonded /\ t.peer = s.peer
             /\ t.active = s.active /\ t.preferred = s.preferred /\ t.usb = s.usb
             /\ t.pairing = s.pairing /\ t.ring = s.ring /\ t.typed = s.typed /\ t.sent = s.sent
             /\ t.flash.peer = s.flash.peer
             /\ "adv" \in t.work <=> "adv" \in s.work
             /\ "raise" \in t.work <=> "raise" \in s.work
           a == [s EXCEPT !.work = @ \ {"saveActive"}, !.flash.active = s.active]
           b == [s EXCEPT !.work = @ \ {"savePreferred"}, !.flash.preferred = s.preferred]
<1>1. s \in BleState
  BY BInvIs
<1>2. Same(a) /\ a.flash.active = s.active /\ a.flash.preferred = s.flash.preferred
      /\ a.work = s.work \ {"saveActive"}
  BY <1>1 DEF BleState, SameAdv
<1>3. Same(b) /\ b.flash.preferred = s.preferred /\ b.flash.active = s.flash.active
      /\ b.work = s.work \ {"savePreferred"}
  BY <1>1 DEF BleState, SameAdv
<1> HIDE DEF a, b
<1>4. ASSUME NEW t, Same(t), Saved(t)
      PROVE  BInv(t) /\ t.peer = s.peer
  <2>1. Pure(t)
    BY <1>4, SamePure DEF BInv
  <2>2. /\ Closing(t) <=> Closing(s)
        /\ Desired(t) = Desired(s) /\ (HasRoom(t) <=> HasRoom(s))
        /\ HostLeaves(t) <=> HostLeaves(s)
        /\ IsConnected(t, t.active) <=> IsConnected(s, s.active)
    BY <1>4 DEF Closing, Desired, HasRoom, HostLeaves, IsOpen, IsConnected
  <2>3. AdvInv(t)
    BY <1>4, <2>2 DEF BInv, AdvInv, AdvPre, SameAdv
  <2>4. EndInv(t)
    BY <1>4, <2>2, SameInstance DEF BInv, EndInv
  <2> QED
    BY <1>4, <2>1, <2>3, <2>4 DEF BInv
<1>5. Saved(a)
  BY <1>2 DEF BInv, Saved
<1>6. s.preferred \in {"usb", "ble"}
  BY <1>1 DEF BleState
<1>7. Saved(b)
  BY <1>3, <1>6 DEF BInv, Saved
<1> QED
  BY <1>2, <1>3, <1>4, <1>5, <1>7 DEF a, b

\* What is read from the settings must say this of the bonds, or forget them.
Restorable(build, peer, bonded) ==
    ~build.clear =>
        /\ \A h \in bonded : \E i \in ProfileIndexes : peer[i] = h
        /\ ~build.overwrite =>
             \A i \in ProfileIndexes : peer[i] # NoHost =>
                 peer[i] \in bonded /\ \A j \in ProfileIndexes : peer[j] = peer[i] => i = j

Settings == [peer : Peers, active : ProfileIndexes, preferred : {"unset", "usb", "ble"},
             v1 : {"unset", "usb", "ble"}]

LEMMA BootIs ==
    ASSUME NEW build \in Build, NEW flash \in Settings, NEW bonded \in SUBSET BleHosts,
           Restorable(build, flash.peer, bonded)
    PROVE  LET t == Boot(build, flash, bonded) IN BInv(t) /\ t.peer = flash.peer
<1> DEFINE none == <<>>
           chosen == IF flash.v1 # "unset" THEN flash.v1
                     ELSE IF flash.preferred # "unset" THEN flash.preferred ELSE "usb"
           off == [transport |-> "none", profile |-> 0]
           no == [h \in BleHosts |-> "no"]
           nobody == [i \in ProfileIndexes |-> NoHost]
           Ready(t, f) ==
             /\ t.build = build /\ t.peer = flash.peer /\ t.active = flash.active
             /\ t.preferred = chosen /\ t.usb = FALSE /\ t.current = off /\ t.adv = "none"
             /\ t.work = {} /\ t.radio = FALSE /\ t.conn = no /\ t.pairing = no
             /\ t.entry = NoHost /\ t.ring = none /\ t.typed = none
             /\ t.sent = [digits |-> none, typed |-> none]
             /\ t.flash.peer = f /\ t.flash.active = flash.active
             /\ t.preferred = IF t.flash.preferred = "unset" THEN "usb" ELSE t.flash.preferred
           r == Ram(build, flash, bonded)
           u == UpgradeV1(r)
           c == ClearOnStart(u)
<1>1. /\ chosen \in {"usb", "ble"} /\ off \in [transport : BleTransports, profile : ProfileIndexes]
      /\ no \in [BleHosts -> {"no"}] /\ nobody \in Peers /\ none \in Seq(Digits)
  BY BleAssumption DEF Settings, BleTransports, ProfileIndexes, Peers
<1>2. no \in [BleHosts -> {"no", "up", "closing"}] /\ no \in [BleHosts -> {"no", "entry", "go"}]
  OBVIOUS
<1>3. \A h \in BleHosts : no[h] = "no"
  OBVIOUS
<1>4. \A i \in ProfileIndexes : nobody[i] = NoHost
  OBVIOUS
<1>5. /\ flash.v1 # "unset" => chosen = flash.v1
      /\ flash.v1 = "unset" => chosen = IF flash.preferred = "unset" THEN "usb" ELSE flash.preferred
  OBVIOUS
<1>6. r = [build |-> build, flash |-> flash, bonded |-> bonded, peer |-> flash.peer,
           active |-> flash.active, preferred |-> chosen, usb |-> FALSE, current |-> off,
           adv |-> "none", work |-> {}, radio |-> FALSE, conn |-> no, pairing |-> no,
           entry |-> NoHost, ring |-> none, typed |-> none,
           sent |-> [digits |-> none, typed |-> none]]
  BY DEF Ram
<1> HIDE DEF none, chosen, off, no, nobody, r
<1>7. u \in BleState /\ Ready(u, flash.peer) /\ u.bonded = bonded
  <2>1. CASE flash.v1 = "unset"
    <3>1. u = r
      BY <1>6, <2>1 DEF UpgradeV1
    <3> HIDE DEF u
    <3> QED
      BY <1>1, <1>2, <1>5, <1>6, <2>1, <3>1 DEF BleState, Settings
  <2>2. CASE flash.v1 # "unset"
    <3>1. u = [r EXCEPT !.flash.v1 = "unset", !.flash.preferred = r.preferred]
      BY <1>6, <2>2 DEF UpgradeV1
    <3> HIDE DEF u
    <3> QED
      BY <1>1, <1>2, <1>5, <1>6, <2>2, <3>1 DEF BleState, Settings
  <2> QED
    BY <2>1, <2>2
<1> HIDE DEF u
<1>8. CASE ~build.clear
  <2>1. c = u
    BY <1>7, <1>8 DEF ClearOnStart
  <2> HIDE DEF c
  <2>2. Pure(c)
    BY <1>3, <1>7, <1>8, <2>1, LastOfEmpty
       DEF Pure, Bonds, Holds, OneEach, Passkey, Addresses, Restorable, none
  <2>3. Saved(c) /\ AdvPre(c)
    BY <1>7, <2>1 DEF Saved, AdvPre
  <2>4. Before(c) /\ c.peer = flash.peer
    BY <1>7, <2>1, <2>2, <2>3 DEF Before
  <2> QED
    BY <2>4, AfterBoth DEF Boot, c, u, r
<1>9. CASE build.clear
  <2>1. c = [u EXCEPT !.bonded = {}, !.flash.peer = nobody]
    BY <1>7, <1>9 DEF ClearOnStart, nobody
  <2> HIDE DEF c
  <2>2. c \in BleState /\ Ready(c, nobody) /\ c.bonded = {}
    BY <1>1, <1>7, <2>1 DEF BleState
  <2>3. Pure(c)
    BY <1>3, <1>4, <1>9, <2>2, LastOfEmpty
       DEF Pure, Bonds, Holds, OneEach, Passkey, Addresses, none
  <2>4. Saved(c) /\ AdvPre(c)
    BY <2>2 DEF Saved, AdvPre
  <2>5. Before(c) /\ c.peer = flash.peer
    BY <2>2, <2>3, <2>4 DEF Before
  <2> QED
    BY <2>5, AfterBoth DEF Boot, c, u, r
<1> QED
  BY <1>8, <1>9

LEMMA RestartKeeps ==
    ASSUME NEW s, BInv(s), NEW flash \in Settings, flash.peer = s.flash.peer
    PROVE  LET t == Boot(s.build, flash, s.bonded) IN BInv(t) /\ Keeps(s, t)
<1>1. s.build \in Build /\ s.bonded \in SUBSET BleHosts /\ NoHost \notin BleHosts
  BY BInvIs, BleAssumption DEF BleState
<1>2. Restorable(s.build, flash.peer, s.bonded)
  BY <1>1 DEF BInv, Pure, Bonds, Holds, OneEach, Addresses, Restorable
<1> DEFINE t == Boot(s.build, flash, s.bonded)
<1>3. BInv(t) /\ t.peer = flash.peer
  BY <1>1, <1>2, BootIs
<1> HIDE DEF t
<1>4. Keeps(s, t)
  BY <1>3 DEF BInv, Pure, Addresses, Keeps
<1> QED
  BY <1>3, <1>4 DEF t

-----------------------------------------------------------------------------
(***************************************************************************)
(* The theorems.                                                           *)
(***************************************************************************)

LEMMA InvariantSuffices == BInv(kb) => ProfilesAgree
<1> SUFFICES ASSUME BInv(kb) PROVE ProfilesAgree
  OBVIOUS
<1>1. kb \in BleState /\ Passkey(kb)
  BY DEF BInv, Pure
<1>2. Lesser(Len(kb.typed), PasskeyDigits) <= PasskeyDigits
  BY <1>1, BleAssumption, LenProperties DEF BleState, Lesser
<1>3. Len(kb.ring) <= PasskeyDigits
  BY <1>1, <1>2, LastIs DEF BleState, Passkey
<1>4. BleTypeOK
  BY <1>1, <1>3 DEF BleTypeOK, BleState, Peers, BleTransports, Works
<1>5. AdvertisesWhenNeeded
  <2>1. kb.radio \in BOOLEAN
    BY <1>1 DEF BleState
  <2> QED
    BY <2>1 DEF BInv, AdvInv, AdvPre, AdvertisesWhenNeeded, BleQuiet, Closing
<1>6. EndpointFollows
  <2>1. HostLeaves(kb) => \E h \in BleHosts : kb.conn[h] = "closing"
    BY <1>1 DEF HostLeaves, IsOpen, BleState, Peers
  <2> QED
    BY <2>1 DEF BInv, EndInv, EndpointFollows
<1>7. BondHasProfile /\ OneProfilePerHost
  BY DEF BInv, Pure, Bonds, Holds, OneEach, BondHasProfile, OneProfilePerHost, IsOpen
<1>8. PasskeyIsWhatWasTyped
  BY <1>1 DEF Passkey, PasskeyIsWhatWasTyped, LastOf, Lesser
<1>9. SettingsSaved
  BY DEF BInv, Pure, Addresses, Saved, SettingsSaved
<1> QED
  BY <1>4, <1>5, <1>6, <1>7, <1>8, <1>9 DEF ProfilesAgree

LEMMA BleInitial == BleInit => BInv(kb)
<1> SUFFICES ASSUME NEW build \in Builds,
                    kb = Boot(build, [peer |-> [i \in ProfileIndexes |-> NoHost], active |-> 0,
                                      preferred |-> "unset", v1 |-> build.v1], {})
             PROVE  BInv(kb)
  BY DEF BleInit
<1> DEFINE nobody == [i \in ProfileIndexes |-> NoHost]
           flash == [peer |-> nobody, active |-> 0, preferred |-> "unset", v1 |-> build.v1]
<1>1. build \in Build /\ build.v1 \in {"unset", "usb", "ble"}
  BY BleAssumption DEF Build
<1>2. nobody \in Peers /\ 0 \in ProfileIndexes /\ \A i \in ProfileIndexes : nobody[i] = NoHost
  BY BleAssumption DEF Peers, ProfileIndexes
<1> HIDE DEF nobody
<1>3. flash \in Settings /\ flash.peer = nobody
  BY <1>1, <1>2 DEF Settings
<1>4. kb = Boot(build, flash, {})
  BY DEF nobody
<1> HIDE DEF flash
<1>5. Restorable(build, flash.peer, {})
  BY <1>2, <1>3 DEF Restorable
<1> QED
  BY <1>1, <1>3, <1>4, <1>5, BootIs

LEMMA BleStep ==
    ASSUME BInv(kb), [BleNext]_ble_vars
    PROVE  BInv(kb)' /\ Keeps(kb, kb')
<1> USE DEF Keeps
<1>1. CASE Command
  <2>1. 0 \in Nat /\ \A i \in 0..Count : i \in Nat
    BY BleAssumption
  <2>2. PICK cmd \in Indexed \union Unindexed, i \in Nat : kb' = Invoke(kb, cmd, i)
    BY <1>1, <2>1 DEF Command
  <2> QED
    BY <2>2, InvokeKeeps
<1>2. CASE UsbChanges
  BY <1>2, UsbKeeps DEF UsbChanges
<1>3. CASE PressReturn
  BY <1>3, SendKeeps DEF PressReturn
<1>4. ASSUME NEW d \in Digits, TypeDigit(d)
      PROVE  BInv(kb)' /\ Keeps(kb, kb')
  BY <1>4, DigitKeeps DEF TypeDigit
<1>5. ASSUME NEW called \in BOOLEAN, PressEscape(called)
      PROVE  BInv(kb)' /\ Keeps(kb, kb')
  <2> DEFINE a == [kb EXCEPT !.pairing[kb.entry] = "no"]
  <2>1. kb.entry \in BleHosts
    BY <1>5, BInvIs DEF PressEscape, BleState
  <2>2. BInv(a) /\ a.peer = kb.peer
    BY <2>1, PairingIs
  <2>3. kb' = IF called THEN AuthCancel(a) ELSE a
    BY <1>5 DEF PressEscape
  <2> HIDE DEF a
  <2> QED
    BY <2>2, <2>3, CancelKeeps
<1>6. CASE HostFailsToConnect
  BY <1>6, ConnectFailedKeeps DEF HostFailsToConnect
<1>7. ASSUME NEW h \in BleHosts, HostConnects(h)
      PROVE  BInv(kb)' /\ Keeps(kb, kb')
  BY <1>7, ConnectedKeeps DEF HostConnects
<1>8. ASSUME NEW h \in BleHosts, PairingRequest(h)
      PROVE  BInv(kb)' /\ Keeps(kb, kb')
  BY <1>8, AcceptKeeps DEF PairingRequest
<1>9. ASSUME NEW h \in BleHosts, PairingDone(h)
      PROVE  BInv(kb)' /\ Keeps(kb, kb')
  BY <1>9, CompleteKeeps DEF PairingDone
<1>10. ASSUME NEW h \in BleHosts, NEW called \in BOOLEAN, LinkEnds(h, called)
       PROVE  BInv(kb)' /\ Keeps(kb, kb')
  <2> DEFINE a == IF called THEN AuthCancel(kb) ELSE kb
  <2>1. BInv(a) /\ a.peer = kb.peer /\ a.conn = kb.conn
    BY CancelKeeps
  <2>2. kb' = Disconnected(a, h) /\ kb.conn[h] # "no"
    BY <1>10 DEF LinkEnds
  <2> HIDE DEF a
  <2> QED
    BY <2>1, <2>2, DisconnectedKeeps
<1>11. ASSUME NEW h \in BleHosts, NEW called \in BOOLEAN, PairingFails(h, called)
       PROVE  BInv(kb)' /\ Keeps(kb, kb')
  <2> DEFINE a == [kb EXCEPT !.pairing[h] = "no"]
  <2>1. BInv(a) /\ a.peer = kb.peer
    BY PairingIs
  <2>2. kb' = IF called THEN AuthCancel(a) ELSE a
    BY <1>11 DEF PairingFails
  <2> HIDE DEF a
  <2> QED
    BY <2>1, <2>2, CancelKeeps
<1>12. CASE AdvertisingWork \/ RaiseWork
  BY <1>12, WorkKeeps DEF AdvertisingWork, RaiseWork
<1>13. CASE SaveActive \/ SavePreferred
  BY <1>13, SaveKeeps DEF SaveActive, SavePreferred
<1>14. CASE Restart \/ RestartInUpgrade
  <2>1. kb.flash \in Settings
    BY BInvIs DEF BleState, Settings
  <2>2. PICK flash \in Settings : flash.peer = kb.flash.peer /\ kb' = Boot(kb.build, flash, kb.bonded)
    <3>1. CASE Restart
      BY <2>1, <3>1 DEF Restart
    <3>2. CASE RestartInUpgrade
      <4> DEFINE f == [kb.flash EXCEPT !.preferred = "unset", !.v1 = "unset"]
      <4>1. f \in Settings /\ f.peer = kb.flash.peer
        BY <2>1 DEF Settings
      <4>2. kb' = Boot(kb.build, f, kb.bonded)
        BY <3>2 DEF RestartInUpgrade
      <4> HIDE DEF f
      <4> QED
        BY <4>1, <4>2
    <3> QED
      BY <1>14, <3>1, <3>2
  <2> QED
    BY <2>2, RestartKeeps
<1>15. CASE UNCHANGED ble_vars
  BY <1>15 DEF ble_vars
<1> QED
  BY <1>1, <1>2, <1>3, <1>4, <1>5, <1>6, <1>7, <1>8, <1>9, <1>10, <1>11, <1>12, <1>13, <1>14, <1>15
     DEF BleNext

LEMMA BleInvariant == BleSpec => []BInv(kb)
<1>1. BInv(kb) /\ [BleNext]_ble_vars => BInv(kb)'
  BY BleStep
<1> QED
  BY <1>1, BleInitial, PTL DEF BleSpec

(* Whatever order callbacks, commands, work items and restarts come in: the
   keyboard knows whether it advertises and, once the work is done, does so exactly
   when it should (ble.c, update_advertising); the endpoint is the one the
   connections and the preference select; every bond belongs to a profile; and
   the settings hold what a restart needs. *)
THEOREM ProfilesAlwaysAgree == BleSpec => []ProfilesAgree
BY BleInvariant, InvariantSuffices, PTL

(* No event gives the profile of one host to another: it is cleared in between,
   whichever profile is active when a pairing completes (ble.c, auth_pairing_complete). *)
THEOREM ProfilesAreNotTakenOver == BleSpec => NoTakeover
<1>1. BInv(kb) /\ [BleNext]_ble_vars
        => [\A i \in ProfileIndexes : kb.peer[i] # NoHost /\ kb'.peer[i] # kb.peer[i]
              => kb'.peer[i] = NoHost]_ble_vars
  BY BleStep DEF Keeps
<1> QED
  BY <1>1, BleInvariant, PTL DEF BleSpec, NoTakeover
===========================================================================

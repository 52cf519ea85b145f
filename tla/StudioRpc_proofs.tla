--------------------------- MODULE StudioRpc_proofs ---------------------------
(***************************************************************************)
(* Proofs about StudioRpc, for every size of the buffers, of an indication *)
(* and of a write: what the client of a serial port reads as a message is  *)
(* one that was sent whole, and Studio is unlocked for the transport that  *)
(* is selected only; and about Kscan, for all drivers, switches, layouts   *)
(* and debounce times: the keymap is told what the switches do.            *)
(*                                                                         *)
(* For StudioRpc the argument follows the client's framing along the       *)
(* bytes that are still in the buffer, up to what the writer is about to   *)
(* add.  For Kscan it follows, for each switch, who is told of it and the  *)
(* last event that is queued about it, through each driver that reads, is  *)
(* switched on or is switched off.                                         *)
(***************************************************************************)
EXTENDS StudioRpc, Kscan, SequenceTheorems, WellFoundedInduction, TLAPS

Writers == {"rpc", "sys"}
Byte == {"g", "e", "a", "r", "n", "c"} \union Special
Frame == {"idle", "data", "esc", "err", "eof"}
Client == [frame : Frame, got : Seq(Byte)]
Writer == [at : {"none", "lock", "body"}, left : Seq(Byte), esc : BOOLEAN, next : Seq(Byte)]
Job == {"notify", "endpoint", "profile", "unlock", "timeout"}
Fields == {"has", "rx", "tx", "frame", "got", "rxSem", "txIrq", "bt", "free", "air", "pending",
           "owner", "w", "queue", "ep", "sel", "conn", "unlocked", "client", "toSend", "via",
           "sent", "read", "asked", "served", "lost", "unlockedFor", "left"}

\* t differs from st in the fields F at most.
SameBut(st, t, F) == DOMAIN t = DOMAIN st /\ \A f \in DOMAIN st \ F : t[f] = st[f]
-----------------------------------------------------------------------------
(* The inductive invariant, of a state st of the transports *)

Typed(st) ==
    /\ DOMAIN st = Fields
    /\ st.has \subseteq {"usb", "ble"}
    /\ st.rx \in Seq(Byte) /\ st.tx \in Seq(Byte) /\ st.bt \in Seq(Byte) /\ st.toSend \in Seq(Byte)
    /\ Len(st.rx) <= RxSize /\ Len(st.tx) <= TxSize
    /\ st.frame \in Frame
    /\ st.sel \in st.has \union {"none"} /\ st.ep \in {"usb", "ble"}
    /\ st.owner \in {"none", "rpc", "sys"}
    /\ st.unlocked \in BOOLEAN /\ st.conn \in BOOLEAN /\ st.free \in BOOLEAN
    /\ st.left \in BOOLEAN /\ st.lost \in BOOLEAN
    /\ st.w \in [Writers -> Writer]
    /\ st.queue \in Seq(Job)
    /\ DOMAIN st.client = {"usb", "ble"}

\* Who writes holds the mutex, has a transport, and has begun without an escape.
Owned(st) ==
    \A a \in Writers :
        /\ st.w[a].at = "body" => st.owner = a /\ st.sel # "none"
        /\ st.w[a].at # "body" => ~st.w[a].esc

Locked(st) ==
    /\ st.unlocked /\ st.unlockedFor # "none" => st.sel = st.unlockedFor
    /\ st.left => ~st.conn
    /\ st.left /\ "profile" \notin Range(st.queue) => ~st.unlocked

\* Without Bluetooth nothing takes bytes but the serial port.
SerialOnly(st) ==
    st.has = {"usb"} => ~st.conn /\ st.free /\ "notify" \notin Range(st.queue)

\* The client in state c takes b and is in state d; if that ends a message it is one of S.
ClientStep(c, b, d, S) == d = ClientNext(c, b) /\ MessagesAt(c, b) \subseteq S
\* The bytes q take the client from c to d, and all messages among them are in S.
Leads(q, c, d, S) ==
    \E f \in [0 .. Len(q) -> Client] :
        /\ f[0] = c /\ f[Len(q)] = d
        /\ \A i \in 1 .. Len(q) : ClientStep(f[i - 1], q[i], f[i], S)

\* Where a message is left off by its writer, and so by the client.
Halfway(x, e, S) ==
    /\ e.frame = IF x.esc THEN "esc" ELSE "data"
    /\ e.got \o x.left \in S
    /\ x.esc => x.left # <<>>
EndsAs(st, e) ==
    /\ (\A a \in Writers : st.w[a].at # "body") => e = Fresh
    /\ \A a \in Writers : st.w[a].at = "body" => Halfway(st.w[a], e, st.sent)
Streams(st) ==
    st.has = {"usb"} /\ ~st.lost =>
        /\ \A m \in st.read : m[2] \in st.sent
        /\ \E e \in Client : Leads(st.tx, st.client["usb"], e, st.sent) /\ EndsAs(st, e)

StudioInv(st) == Typed(st) /\ Owned(st) /\ Locked(st) /\ SerialOnly(st) /\ Streams(st)
-----------------------------------------------------------------------------
(* Sequences and the chain of the client's states *)

LEMMA MessagesAreBytes ==
    /\ Byte # {} /\ Special \subseteq Byte
    /\ Get \in Seq(Byte) /\ Edit \in Seq(Byte) /\ Answer \in Seq(Byte)
    /\ RefusedRequest \in Seq(Byte) /\ Notice \in Seq(Byte) /\ Changed \in Seq(Byte)
BY DEF Byte, Special, SOF, EOF, ESC, Get, Edit, Answer, RefusedRequest, Notice, Changed

LEMMA ClientTyped ==
    ASSUME NEW c \in Client, NEW b \in Byte
    PROVE  ClientNext(c, b) \in Client /\ Fresh \in Client
<1>1. FrameNext(c.frame, b) \in Frame
  BY DEF Client, Frame, FrameNext, SOF, EOF, ESC
<1>2. c.got \in Seq(Byte) /\ Append(c.got, b) \in Seq(Byte) /\ <<>> \in Seq(Byte)
  BY DEF Client
<1>3. Fresh \in Client BY <1>2 DEF Fresh, Client, Frame
<1> QED BY <1>1, <1>2, <1>3 DEF ClientNext, Client

LEMMA LeadsNowhere ==
    ASSUME NEW c \in Client, NEW S
    PROVE  Leads(<<>>, c, c, S)
<1> DEFINE f == [i \in 0 .. 0 |-> c]
<1>1. f \in [0 .. 0 -> Client] /\ f[0] = c OBVIOUS
<1>2. Len(<<>>) = 0 /\ 1 .. 0 = {} OBVIOUS
<1> QED BY <1>1, <1>2 DEF Leads

LEMMA LeadsOn ==
    ASSUME NEW q \in Seq(Byte), NEW c, NEW d \in Client, NEW b \in Byte, NEW e, NEW S,
           Leads(q, c, d, S), ClientStep(d, b, e, S)
    PROVE  e \in Client /\ Leads(Append(q, b), c, e, S)
<1>0. e \in Client BY ClientTyped DEF ClientStep
<1> DEFINE n == Len(q)
           p == Append(q, b)
<1>1. n \in Nat /\ Len(p) = n + 1 /\ p[n + 1] = b /\ \A i \in 1 .. n : p[i] = q[i]
  OBVIOUS
<1>2. PICK f \in [0 .. n -> Client] :
        /\ f[0] = c /\ f[n] = d
        /\ \A i \in 1 .. n : ClientStep(f[i - 1], q[i], f[i], S)
  BY DEF Leads
<1> DEFINE g == [i \in 0 .. n + 1 |-> IF i = n + 1 THEN e ELSE f[i]]
<1> HIDE DEF n, p
<1>3. g \in [0 .. n + 1 -> Client] BY <1>0, <1>1, <1>2
<1>4. g[0] = c /\ g[n + 1] = e /\ g[n] = d BY <1>1, <1>2
<1>5. ASSUME NEW i \in 1 .. n + 1 PROVE ClientStep(g[i - 1], p[i], g[i], S)
  <2>1. CASE i = n + 1
    <3>1. i - 1 = n BY <1>1, <2>1
    <3> QED BY <1>1, <1>4, <2>1, <3>1
  <2>2. CASE i # n + 1
    <3>1. i \in 1 .. n /\ i - 1 \in 0 .. n /\ i - 1 # n + 1 BY <1>1, <2>2
    <3>2. g[i] = f[i] /\ g[i - 1] = f[i - 1] /\ p[i] = q[i] BY <1>1, <2>2, <3>1
    <3>3. ClientStep(f[i - 1], q[i], f[i], S) BY <1>2, <3>1
    <3> QED BY <3>2, <3>3
  <2> QED BY <2>1, <2>2
<1> HIDE DEF g
<1>6. Leads(p, c, e, S) BY <1>1, <1>3, <1>4, <1>5 DEF Leads
<1> QED BY <1>0, <1>6 DEF p

LEMMA LeadsFrom ==
    ASSUME NEW q \in Seq(Byte), q # <<>>, NEW c, NEW e, NEW S, Leads(q, c, e, S)
    PROVE  /\ c \in Client /\ ClientNext(c, Head(q)) \in Client
           /\ MessagesAt(c, Head(q)) \subseteq S
           /\ Leads(Tail(q), ClientNext(c, Head(q)), e, S)
<1> DEFINE n == Len(q)
           p == Tail(q)
           d == ClientNext(c, Head(q))
<1>1. /\ n \in Nat \ {0} /\ Head(q) = q[1] /\ Head(q) \in Byte
      /\ Len(p) = n - 1 /\ \A i \in 1 .. n - 1 : p[i] = q[i + 1]
  OBVIOUS
<1>2. PICK f \in [0 .. n -> Client] :
        /\ f[0] = c /\ f[n] = e
        /\ \A i \in 1 .. n : ClientStep(f[i - 1], q[i], f[i], S)
  BY DEF Leads
<1> HIDE DEF n, p
<1>3. c \in Client /\ f[1] = d /\ MessagesAt(c, Head(q)) \subseteq S
  <2>1. 0 \in 0 .. n /\ 1 \in 1 .. n /\ 1 - 1 = 0 BY <1>1
  <2>2. ClientStep(f[0], q[1], f[1], S) BY <1>2, <2>1
  <2> QED BY <1>1, <1>2, <2>1, <2>2 DEF ClientStep
<1> HIDE DEF d
<1> DEFINE g == [i \in 0 .. n - 1 |-> f[i + 1]]
<1>4. g \in [0 .. n - 1 -> Client] BY <1>1, <1>2
<1>5. g[0] = d /\ g[n - 1] = e
  <2>1. 0 \in 0 .. n - 1 /\ 0 + 1 = 1 /\ n - 1 \in 0 .. n - 1 /\ (n - 1) + 1 = n BY <1>1
  <2> QED BY <1>2, <1>3, <2>1
<1>6. ASSUME NEW i \in 1 .. n - 1 PROVE ClientStep(g[i - 1], p[i], g[i], S)
  <2>1. /\ i + 1 \in 1 .. n /\ (i + 1) - 1 = i /\ i \in 0 .. n - 1 /\ i - 1 \in 0 .. n - 1
        /\ (i - 1) + 1 = i
    BY <1>1
  <2>2. g[i - 1] = f[i] /\ g[i] = f[i + 1] /\ p[i] = q[i + 1] BY <1>1, <2>1
  <2>3. ClientStep(f[(i + 1) - 1], q[i + 1], f[i + 1], S) BY <1>2, <2>1
  <2> QED BY <2>1, <2>2, <2>3
<1> HIDE DEF g
<1>7. Leads(p, d, e, S) BY <1>1, <1>4, <1>5, <1>6 DEF Leads
<1>8. d \in Client BY <1>1, <1>3, ClientTyped DEF d
<1> QED BY <1>3, <1>7, <1>8 DEF d, p

LEMMA LeadsWiden ==
    ASSUME NEW q, NEW c, NEW e, NEW S, NEW T, S \subseteq T, Leads(q, c, e, S)
    PROVE  Leads(q, c, e, T)
<1>1. PICK f \in [0 .. Len(q) -> Client] :
        /\ f[0] = c /\ f[Len(q)] = e
        /\ \A i \in 1 .. Len(q) : ClientStep(f[i - 1], q[i], f[i], S)
  BY DEF Leads
<1>2. \A i \in 1 .. Len(q) : ClientStep(f[i - 1], q[i], f[i], T)
  BY <1>1 DEF ClientStep
<1> QED BY <1>1, <1>2 DEF Leads

-----------------------------------------------------------------------------
(* A claim: the slots are filled one by one *)

LEMMA AppendLast ==
    ASSUME NEW p \in Seq(Byte), NEW q \in Seq(Byte), NEW b \in Byte
    PROVE  Append(p \o q, b) = p \o Append(q, b) /\ p \o q \in Seq(Byte)
<1>1. /\ Append(p \o q, b) \in Seq(Byte) /\ p \o Append(q, b) \in Seq(Byte)
      /\ p \o q \in Seq(Byte)
  OBVIOUS
<1>2. Len(Append(p \o q, b)) = Len(p \o Append(q, b)) OBVIOUS
<1>3. \A i \in 1 .. Len(Append(p \o q, b)) : Append(p \o q, b)[i] = (p \o Append(q, b))[i]
  OBVIOUS
<1> QED BY <1>1, <1>2, <1>3, SeqEqual

LEMMA HeadMoves ==
    ASSUME NEW p \in Seq(Byte), NEW q \in Seq(Byte), q # <<>>
    PROVE  Append(p, Head(q)) \o Tail(q) = p \o q
<1> DEFINE x == Append(p, Head(q)) \o Tail(q)
<1>1. x \in Seq(Byte) /\ p \o q \in Seq(Byte) OBVIOUS
<1>2. Len(x) = Len(p \o q) OBVIOUS
<1>3. \A i \in 1 .. Len(x) : x[i] = (p \o q)[i] OBVIOUS
<1> QED BY <1>1, <1>2, <1>3, SeqEqual

LEMMA LeastNumber ==
    ASSUME NEW T, T \subseteq Nat, T # {}
    PROVE  \E m \in T : m = 0 \/ (m - 1 \in Nat /\ m - 1 \notin T)
<1> DEFINE R == {ss \in Nat \X Nat : ss[1] < ss[2]}
<1>1. IsWellFoundedOn(R, Nat) BY NatLessThanWellFounded DEF OpToRel
<1> HIDE DEF R
<1>2. PICK m \in T : \A y \in T : ~(<<y, m>> \in R) BY <1>1, WFMin
<1>3. m \in Nat OBVIOUS
<1>4. CASE m # 0
  <2>1. m - 1 \in Nat /\ m - 1 < m BY <1>3, <1>4
  <2>2. <<m - 1, m>> \in R BY <1>3, <2>1 DEF R
  <2> QED BY <1>2, <2>1, <2>2
<1> QED BY <1>4

\* The definition of a claim defines something.
LEMMA FilledExists ==
    ASSUME NEW x, NEW n \in Nat
    PROVE  \E f : f = [i \in 0 .. n |-> IF i = 0 THEN x ELSE FillSlot(f[i - 1])]
<1> DEFINE E(m) == \E f : f = [i \in 0 .. m |-> IF i = 0 THEN x ELSE FillSlot(f[i - 1])]
           T == {m \in Nat : ~E(m)}
<1>1. SUFFICES ASSUME T # {} PROVE FALSE OBVIOUS
<1>2. PICK m \in T : m = 0 \/ (m - 1 \in Nat /\ m - 1 \notin T) BY <1>1, LeastNumber
<1>3. m \in Nat /\ ~E(m) OBVIOUS
<1>4. CASE m = 0
  <2> DEFINE f == [i \in 0 .. m |-> x]
  <2>1. f = [i \in 0 .. m |-> IF i = 0 THEN x ELSE FillSlot(f[i - 1])] BY <1>4
  <2> HIDE DEF f
  <2>2. E(m) BY <2>1
  <2> QED BY <1>3, <2>2
<1>5. CASE m # 0
  <2>0. m - 1 \in Nat /\ E(m - 1) BY <1>2, <1>5
  <2>1. PICK g : g = [i \in 0 .. m - 1 |-> IF i = 0 THEN x ELSE FillSlot(g[i - 1])] BY <2>0
  <2> DEFINE f == [i \in 0 .. m |-> IF i = m THEN FillSlot(g[m - 1]) ELSE g[i]]
  <2>2. ASSUME NEW i \in 0 .. m PROVE f[i] = IF i = 0 THEN x ELSE FillSlot(f[i - 1])
    <3>1. CASE i = m
      <4>1. i # 0 /\ i - 1 = m - 1 /\ m - 1 \in 0 .. m /\ m - 1 # m BY <1>3, <1>5, <2>0, <3>1
      <4>2. f[i - 1] = g[m - 1] BY <4>1
      <4> HIDE <2>1
      <4> QED BY <3>1, <4>1, <4>2
    <3>2. CASE i # m
      <4>1. i \in 0 .. m - 1 BY <1>3, <2>0, <3>2
      <4>2. f[i] = g[i] BY <3>2
      <4>3. g[i] = IF i = 0 THEN x ELSE FillSlot(g[i - 1]) BY <2>1, <4>1
      <4>4. i # 0 => i - 1 \in 0 .. m /\ i - 1 # m BY <1>3, <3>2, <4>1
      <4>5. i # 0 => f[i - 1] = g[i - 1] BY <4>4
      <4> HIDE <2>1
      <4> QED BY <4>2, <4>3, <4>5
    <3> QED BY <3>1, <3>2
  <2>3. f = [i \in 0 .. m |-> f[i]] OBVIOUS
  <2> HIDE DEF f
  <2>4. f = [i \in 0 .. m |-> IF i = 0 THEN x ELSE FillSlot(f[i - 1])] BY <2>2, <2>3
  <2>5. E(m) BY <2>4
  <2> QED BY <1>3, <2>5
<1> QED BY <1>4, <1>5

\* What n slots have taken of a message of k bytes.
Claimed(y, n, k) ==
    /\ DOMAIN y = {"out", "left", "esc"}
    /\ y.out \in Seq(Byte) /\ y.left \in Seq(Byte) /\ y.esc \in BOOLEAN
    /\ Len(y.out) = n /\ Len(y.left) + n >= k

\* The client that takes q and what has been claimed is as far as the writer.
Follows(q, y, c, S) == \E e \in Client : Leads(q \o y.out, c, e, S) /\ Halfway(y, e, S)

LEMMA SlotFills ==
    ASSUME NEW y, NEW n \in Nat, NEW k \in Nat, Claimed(y, n, k), n < k,
           NEW q \in Seq(Byte), NEW c, NEW S
    PROVE  /\ Claimed(FillSlot(y), n + 1, k)
           /\ Follows(q, y, c, S) => Follows(q, FillSlot(y), c, S)
<1> DEFINE h == Head(y.left)
           z == FillSlot(y)
<1>1. y.left \in Seq(Byte) /\ y.left # <<>> /\ h \in Byte
  <2>1. Len(y.left) > 0 /\ y.left \in Seq(Byte)
    <3>1. Len(y.left) \in Nat /\ Len(y.left) + n >= k BY DEF Claimed
    <3> QED BY <3>1 DEF Claimed
  <2> QED BY <2>1
<1>2. /\ Tail(y.left) \in Seq(Byte) /\ Len(Tail(y.left)) = Len(y.left) - 1
      /\ Len(y.left) \in Nat /\ y.left = <<h>> \o Tail(y.left)
  BY <1>1
<1>3. y.out \in Seq(Byte) /\ \A b \in Byte : Append(y.out, b) \in Seq(Byte) /\ Len(Append(y.out, b)) = n + 1
  BY DEF Claimed
<1>4. ESC \in Byte BY DEF Byte, Special
<1> HIDE DEF h
<1>5. CASE h \in Special /\ ~y.esc
  <2>1. z = [y EXCEPT !.out = Append(@, ESC), !.esc = TRUE] BY <1>5 DEF FillSlot, h
  <2>2. z.out = Append(y.out, ESC) /\ z.left = y.left /\ z.esc = TRUE /\ DOMAIN z = {"out", "left", "esc"}
    BY <2>1 DEF Claimed
  <2> HIDE DEF z
  <2>3. Len(z.left) + (n + 1) >= k BY <1>2, <2>2 DEF Claimed
  <2>4. Claimed(z, n + 1, k) BY <1>1, <1>3, <1>4, <2>2, <2>3 DEF Claimed
  <2>5. ASSUME Follows(q, y, c, S) PROVE Follows(q, z, c, S)
    <3>1. PICK e \in Client : Leads(q \o y.out, c, e, S) /\ Halfway(y, e, S) BY <2>5 DEF Follows
    <3>2. e.frame = "data" /\ e.got \o y.left \in S BY <1>5, <3>1 DEF Halfway
    <3> DEFINE d == ClientNext(e, ESC)
    <3>3. d.frame = "esc" /\ d.got = e.got /\ MessagesAt(e, ESC) = {}
      BY <3>2 DEF ClientNext, MessagesAt, FrameNext, IsPayload, Special, SOF, EOF, ESC
    <3> HIDE DEF d
    <3>4. ClientStep(e, ESC, d, S) BY <3>3 DEF ClientStep, d
    <3>5. q \o y.out \in Seq(Byte) /\ Append(q \o y.out, ESC) = q \o z.out
      <4>1. q \o y.out \in Seq(Byte) /\ Append(q \o y.out, ESC) = q \o Append(y.out, ESC)
        BY <1>3, <1>4, AppendLast
      <4> QED BY <2>2, <4>1
    <3>6. d \in Client /\ Leads(q \o z.out, c, d, S) BY <1>4, <3>1, <3>4, <3>5, LeadsOn
    <3>7. Halfway(z, d, S) BY <1>1, <2>2, <3>2, <3>3 DEF Halfway
    <3> QED BY <3>6, <3>7 DEF Follows
  <2> QED BY <2>4, <2>5 DEF z
<1>6. CASE ~(h \in Special /\ ~y.esc)
  <2>1. z = [y EXCEPT !.out = Append(@, h), !.left = Tail(@), !.esc = FALSE] BY <1>6 DEF FillSlot, h
  <2>2. z.out = Append(y.out, h) /\ z.left = Tail(y.left) /\ z.esc = FALSE /\ DOMAIN z = {"out", "left", "esc"}
    BY <2>1 DEF Claimed
  <2> HIDE DEF z
  <2>3. Len(z.left) + (n + 1) >= k BY <1>2, <2>2 DEF Claimed
  <2>4. Claimed(z, n + 1, k) BY <1>1, <1>2, <1>3, <2>2, <2>3 DEF Claimed
  <2>5. ASSUME Follows(q, y, c, S) PROVE Follows(q, z, c, S)
    <3>1. PICK e \in Client : Leads(q \o y.out, c, e, S) /\ Halfway(y, e, S) BY <2>5 DEF Follows
    <3>2. e.frame = IF y.esc THEN "esc" ELSE "data" BY <3>1 DEF Halfway
    <3>3. e.got \o y.left \in S /\ e.got \in Seq(Byte) BY <3>1 DEF Halfway, Client
    <3> DEFINE d == ClientNext(e, h)
    <3>4. d.frame = "data" /\ d.got = Append(e.got, h) /\ MessagesAt(e, h) = {}
      <4>1. CASE y.esc
        BY <3>2, <4>1 DEF ClientNext, MessagesAt, FrameNext, IsPayload, Special, SOF, EOF, ESC
      <4>2. CASE ~y.esc
        <5>1. h \notin {SOF, EOF, ESC} BY <1>6, <4>2 DEF Special
        <5> QED BY <3>2, <4>2, <5>1 DEF ClientNext, MessagesAt, FrameNext, IsPayload, Special, SOF, EOF, ESC
      <4> QED BY <4>1, <4>2
    <3> HIDE DEF d
    <3>5. ClientStep(e, h, d, S) BY <3>4 DEF ClientStep, d
    <3>6. q \o y.out \in Seq(Byte) /\ Append(q \o y.out, h) = q \o z.out
      <4>1. q \o y.out \in Seq(Byte) /\ Append(q \o y.out, h) = q \o Append(y.out, h)
        BY <1>1, <1>3, AppendLast
      <4> QED BY <2>2, <4>1
    <3>7. d \in Client /\ Leads(q \o z.out, c, d, S) BY <1>1, <3>1, <3>5, <3>6, LeadsOn
    <3>8. d.got \o z.left = e.got \o y.left
      <4>1. Append(e.got, h) \o Tail(y.left) = e.got \o y.left BY <1>1, <3>3, HeadMoves DEF h
      <4> QED BY <2>2, <3>4, <4>1
    <3>9. Halfway(z, d, S) BY <2>2, <3>3, <3>4, <3>8 DEF Halfway
    <3> QED BY <3>7, <3>9 DEF Follows
  <2> QED BY <2>4, <2>5 DEF z
<1> QED BY <1>5, <1>6

LEMMA ClaimFills ==
    ASSUME NEW x, NEW k \in Nat, Claimed(x, 0, k), NEW n \in 0 .. k,
           NEW q \in Seq(Byte), NEW c, NEW S
    PROVE  /\ Claimed(Filled(x, n), n, k)
           /\ Follows(q, x, c, S) => Follows(q, Filled(x, n), c, S)
<1> DEFINE f == CHOOSE g : g = [i \in 0 .. n |-> IF i = 0 THEN x ELSE FillSlot(g[i - 1])]
           Good(i) == Claimed(f[i], i, k) /\ (Follows(q, x, c, S) => Follows(q, f[i], c, S))
           T == {i \in 0 .. n : ~Good(i)}
<1>0. n \in Nat /\ n <= k OBVIOUS
<1>1. f = [i \in 0 .. n |-> IF i = 0 THEN x ELSE FillSlot(f[i - 1])]
  <2> DEFINE P(g) == g = [i \in 0 .. n |-> IF i = 0 THEN x ELSE FillSlot(g[i - 1])]
  <2>1. \E g : P(g) BY <1>0, FilledExists
  <2> HIDE DEF P
  <2>2. P(CHOOSE g : P(g)) BY <2>1, Zenon
  <2> QED BY <2>2 DEF P
<1>2. Filled(x, n) = f[n] BY DEF Filled
<1> HIDE DEF f
<1>3. SUFFICES ASSUME T # {} PROVE FALSE
  <2>1. n \in 0 .. n BY <1>0
  <2> QED BY <1>2, <2>1
<1>4. T \subseteq Nat OBVIOUS
<1>5. PICK m \in T : m = 0 \/ (m - 1 \in Nat /\ m - 1 \notin T) BY <1>3, <1>4, LeastNumber
<1>6. m \in 0 .. n /\ ~Good(m) OBVIOUS
<1>7. m # 0
  <2>1. f[0] = x BY <1>0, <1>1
  <2> QED BY <1>6, <2>1
<1>8. m - 1 \in Nat /\ m - 1 \in 0 .. n /\ Good(m - 1) /\ m - 1 < k /\ (m - 1) + 1 = m
  <2>1. m - 1 \in Nat /\ m - 1 \in 0 .. n /\ m - 1 < k /\ (m - 1) + 1 = m BY <1>0, <1>6, <1>7
  <2>2. m - 1 \notin T BY <1>5, <1>7
  <2> QED BY <2>1, <2>2
<1>9. f[m] = FillSlot(f[m - 1]) BY <1>1, <1>6, <1>7
<1> HIDE <1>1
<1>10. /\ Claimed(FillSlot(f[m - 1]), (m - 1) + 1, k)
       /\ Follows(q, f[m - 1], c, S) => Follows(q, FillSlot(f[m - 1]), c, S)
  BY <1>8, SlotFills
<1> QED BY <1>6, <1>8, <1>9, <1>10

-----------------------------------------------------------------------------
(* What the functions of the model leave *)

\* More work may be queued, of the kinds J.
Queued(st, t, J) ==
    /\ t.queue \in Seq(Job)
    /\ Range(st.queue) \subseteq Range(t.queue) /\ Range(t.queue) \subseteq Range(st.queue) \union J

LEMMA SubmitEffect ==
    ASSUME NEW st, DOMAIN st = Fields, st.queue \in Seq(Job), NEW job \in Job
    PROVE  /\ SameBut(st, Submit(st, job), {"queue"}) /\ Queued(st, Submit(st, job), {job})
           /\ job \in Range(Submit(st, job).queue)
<1>1. CASE job \in Range(st.queue)
  <2>1. Submit(st, job) = st BY <1>1 DEF Submit
  <2> QED BY <1>1, <2>1 DEF SameBut, Queued
<1>2. CASE job \notin Range(st.queue)
  <2> DEFINE t == Submit(st, job)
             q == Append(st.queue, job)
  <2>1. t = [st EXCEPT !.queue = q] BY <1>2 DEF Submit
  <2>2. q \in Seq(Job) /\ Range(st.queue) \subseteq Range(q)
        /\ Range(q) \subseteq Range(st.queue) \union {job} /\ job \in Range(q)
    <3>1. /\ q \in Seq(Job) /\ Len(q) = Len(st.queue) + 1 /\ q[Len(q)] = job /\ Len(st.queue) \in Nat
          /\ \A i \in 1 .. Len(st.queue) : q[i] = st.queue[i]
          /\ DOMAIN q = 1 .. Len(q) /\ DOMAIN st.queue = 1 .. Len(st.queue)
      OBVIOUS
    <3> HIDE DEF q
    <3>2. Range(st.queue) \subseteq Range(q)
      <4>1. SUFFICES ASSUME NEW i \in 1 .. Len(st.queue) PROVE st.queue[i] \in Range(q) BY <3>1 DEF Range
      <4>2. i \in 1 .. Len(q) /\ q[i] = st.queue[i] BY <3>1
      <4> QED BY <3>1, <4>2 DEF Range
    <3>3. Range(q) \subseteq Range(st.queue) \union {job}
      <4>1. SUFFICES ASSUME NEW i \in 1 .. Len(q) PROVE q[i] \in Range(st.queue) \union {job} BY <3>1 DEF Range
      <4>2. CASE i = Len(q) BY <3>1, <4>2
      <4>3. CASE i # Len(q)
        <5>1. i \in 1 .. Len(st.queue) BY <3>1, <4>3
        <5> QED BY <3>1, <5>1 DEF Range
      <4> QED BY <4>2, <4>3
    <3>4. job \in Range(q)
      <4>1. Len(q) \in 1 .. Len(q) BY <3>1
      <4> QED BY <3>1, <4>1 DEF Range
    <3> QED BY <3>1, <3>2, <3>3, <3>4
  <2> HIDE DEF q
  <2>3. t.queue = q /\ SameBut(st, t, {"queue"}) BY <2>1 DEF SameBut, Fields
  <2> HIDE DEF t
  <2> QED BY <2>2, <2>3 DEF Queued, t
<1> QED BY <1>1, <1>2

LEMMA TxNotifyEffect ==
    ASSUME NEW st, DOMAIN st = Fields, st.queue \in Seq(Job), NEW n, NEW done \in BOOLEAN,
           st.sel \in {"usb", "ble"}
    PROVE  /\ SameBut(st, TxNotify(st, n, done), {"txIrq", "queue", "pending"})
           /\ Queued(st, TxNotify(st, n, done), IF st.sel = "ble" THEN {"notify"} ELSE {})
<1> DEFINE t == TxNotify(st, n, done)
<1>1. CASE st.sel = "usb"
  <2>1. t = [st EXCEPT !.txIrq = @ \/ done \/ 2 * Len(st.tx) > TxSize] BY <1>1 DEF TxNotify
  <2>2. t.queue = st.queue /\ SameBut(st, t, {"txIrq", "queue", "pending"}) BY <2>1 DEF SameBut, Fields
  <2> HIDE DEF t
  <2> QED BY <1>1, <2>2 DEF Queued, t
<1>2. CASE st.sel = "ble" /\ (done \/ st.pending + n > NotifySize)
  <2> DEFINE u == Submit(st, "notify")
  <2>1. t = [u EXCEPT !.pending = 0] BY <1>2 DEF TxNotify
  <2>2. SameBut(st, u, {"queue"}) /\ Queued(st, u, {"notify"}) BY SubmitEffect DEF Job
  <2> HIDE DEF u
  <2>3. t.queue = u.queue /\ SameBut(st, t, {"txIrq", "queue", "pending"}) BY <2>1, <2>2 DEF SameBut, Fields
  <2> HIDE DEF t
  <2> QED BY <1>2, <2>2, <2>3 DEF Queued, t
<1>3. CASE st.sel = "ble" /\ ~(done \/ st.pending + n > NotifySize)
  <2>1. t = [st EXCEPT !.pending = @ + n] BY <1>3 DEF TxNotify
  <2>2. t.queue = st.queue /\ SameBut(st, t, {"txIrq", "queue", "pending"}) BY <2>1 DEF SameBut, Fields
  <2> HIDE DEF t
  <2> QED BY <1>3, <2>2 DEF Queued, t
<1> QED BY <1>1, <1>2, <1>3

LEMMA PutEffect ==
    ASSUME NEW st, DOMAIN st = Fields, st.tx \in Seq(Byte), Len(st.tx) <= TxSize, st.lost \in BOOLEAN,
           NEW c \in Byte
    PROVE  /\ SameBut(st, PutBytes(st, c), {"tx", "lost"})
           /\ PutBytes(st, c).tx \in Seq(Byte) /\ Len(PutBytes(st, c).tx) <= TxSize
           /\ PutBytes(st, c).lost \in BOOLEAN
           /\ ~PutBytes(st, c).lost => ~st.lost /\ PutBytes(st, c).tx = Append(st.tx, c)
<1> DEFINE t == PutBytes(st, c)
           q == Append(st.tx, c)
<1>0. TxSize \in Nat /\ Len(st.tx) \in Nat BY StudioRpcAssumption
<1>1. CASE Len(st.tx) < TxSize
  <2>1. t = [st EXCEPT !.tx = q] BY <1>1 DEF PutBytes
  <2>2. q \in Seq(Byte) /\ Len(q) <= TxSize BY <1>0, <1>1
  <2> HIDE DEF q
  <2>3. t.tx = q /\ t.lost = st.lost /\ SameBut(st, t, {"tx", "lost"}) BY <2>1 DEF SameBut, Fields
  <2> HIDE DEF t
  <2> QED BY <2>2, <2>3 DEF t, q
<1>2. CASE ~(Len(st.tx) < TxSize)
  <2>1. t = [st EXCEPT !.lost = TRUE] BY <1>2 DEF PutBytes
  <2>2. t.tx = st.tx /\ t.lost = TRUE /\ SameBut(st, t, {"tx", "lost"}) BY <2>1 DEF SameBut, Fields
  <2> HIDE DEF t
  <2> QED BY <2>2 DEF t
<1> QED BY <1>1, <1>2

\* The writer a has begun a message or has none.
Idles(x) == x \in Writer /\ x.at # "body" /\ ~x.esc

LEMMA WritingIdles ==
    /\ Idles(NoWriter)
    /\ \A m, n \in Seq(Byte) : Idles(Writing(m, n))
BY DEF Idles, NoWriter, Writing, Writer

\* The writer a, and no other, has changed, and has nothing in the buffer.
Rests(st, t, a) == t.w = [st.w EXCEPT ![a] = t.w[a]] /\ Idles(t.w[a])

LEMMA DoneEffect ==
    ASSUME NEW st, DOMAIN st = Fields, st.w \in [Writers -> Writer], NEW a \in Writers
    PROVE  /\ Rests(st, Done(st, a), a) /\ Done(st, a).owner = "none"
           /\ SameBut(st, Done(st, a), {"owner", "w"})
<1> DEFINE x == IF st.w[a].next = <<>> THEN NoWriter ELSE Writing(st.w[a].next, <<>>)
           t == Done(st, a)
<1>1. Idles(x)
  <2>1. st.w[a].next \in Seq(Byte) /\ <<>> \in Seq(Byte) BY DEF Writer
  <2> QED BY <2>1, WritingIdles
<1> HIDE DEF x
<1>2. t = [st EXCEPT !.owner = "none", !.w[a] = x] BY DEF Done, x
<1>3. t.owner = "none" /\ t.w = [st.w EXCEPT ![a] = x] /\ SameBut(st, t, {"owner", "w"})
  BY <1>2 DEF SameBut, Fields
<1> HIDE DEF t
<1>4. t.w[a] = x BY <1>3
<1> QED BY <1>1, <1>3, <1>4 DEF Rests, t

-----------------------------------------------------------------------------
(* What is left alone *)

\* What the writers leave alone, and what they may change.
TypeSame(st, t) ==
    /\ DOMAIN t = Fields /\ t.has = st.has /\ t.rx = st.rx /\ t.bt = st.bt /\ t.toSend = st.toSend
    /\ t.frame = st.frame /\ t.sel = st.sel /\ t.ep = st.ep /\ t.unlocked = st.unlocked /\ t.conn = st.conn
    /\ t.free = st.free /\ t.left = st.left /\ t.client = st.client
TypeChanged(t) ==
    /\ t.tx \in Seq(Byte) /\ Len(t.tx) <= TxSize /\ t.owner \in {"none", "rpc", "sys"} /\ t.lost \in BOOLEAN
    /\ t.w \in [Writers -> Writer] /\ t.queue \in Seq(Job)

LEMMA TypedKept == ASSUME NEW st, NEW t, Typed(st), TypeSame(st, t), TypeChanged(t) PROVE Typed(t)
BY DEF Typed, TypeSame, TypeChanged

LockSame(st, t) ==
    /\ t.unlocked = st.unlocked /\ t.unlockedFor = st.unlockedFor /\ t.sel = st.sel
    /\ t.left = st.left /\ t.conn = st.conn
    /\ Range(st.queue) \subseteq Range(t.queue)

LEMMA LockedKept == ASSUME NEW st, NEW t, Locked(st), LockSame(st, t) PROVE Locked(t)
BY DEF Locked, LockSame

SerialSame(st, t) ==
    /\ t.has = st.has /\ t.conn = st.conn /\ t.free = st.free
    /\ Range(t.queue) \subseteq Range(st.queue) \union (Job \ {"notify"})

LEMMA SerialKept == ASSUME NEW st, NEW t, SerialOnly(st), SerialSame(st, t) PROVE SerialOnly(t)
BY DEF SerialOnly, SerialSame

StreamSame(st, t) ==
    /\ t.has = st.has /\ t.read = st.read /\ t.sent = st.sent /\ t.tx = st.tx /\ t.client = st.client
    /\ ~t.lost => ~st.lost
    /\ \A a \in Writers : /\ t.w[a].at = "body" <=> st.w[a].at = "body"
                          /\ t.w[a].at = "body" => t.w[a] = st.w[a]

LEMMA StreamKept == ASSUME NEW st, NEW t, Streams(st), StreamSame(st, t) PROVE Streams(t)
<1> SUFFICES ASSUME t.has = {"usb"}, ~t.lost
             PROVE  /\ \A m \in t.read : m[2] \in t.sent
                    /\ \E e \in Client : Leads(t.tx, t.client["usb"], e, t.sent) /\ EndsAs(t, e)
  BY DEF Streams
<1>1. \A m \in st.read : m[2] \in st.sent BY DEF Streams, StreamSame
<1>2. PICK e \in Client : Leads(st.tx, st.client["usb"], e, st.sent) /\ EndsAs(st, e)
  BY DEF Streams, StreamSame
<1>3. EndsAs(t, e) BY <1>2 DEF EndsAs, StreamSame
<1> QED BY <1>1, <1>2, <1>3 DEF StreamSame

\* A writer that rests does not disturb the other, nor the stream.
LEMMA RestKept ==
    ASSUME NEW st, NEW t, NEW a \in Writers, Rests(st, t, a), st.w \in [Writers -> Writer]
    PROVE  /\ t.w \in [Writers -> Writer] /\ t.w[a].at # "body" /\ ~t.w[a].esc
           /\ \A b \in Writers \ {a} : t.w[b] = st.w[b]
BY DEF Rests, Idles
-----------------------------------------------------------------------------
(* The writers *)

LEMMA LockTransportKeeps ==
    ASSUME StudioInv(r), NEW a \in Writers, LockTransport(a)
    PROVE  StudioInv(r')
<1>0. Typed(r) /\ Owned(r) /\ Locked(r) /\ SerialOnly(r) /\ Streams(r) BY DEF StudioInv
<1>1. r.w \in [Writers -> Writer] /\ DOMAIN r = Fields /\ r.w[a].at = "lock" /\ r.owner \in {"none", a}
  BY <1>0 DEF LockTransport, CanLock, Typed
<1>2. \A b \in Writers : r.w[b].at # "body" BY <1>0, <1>1 DEF Owned, Writers
<1>3. CASE r.sel = "none"
  <2> DEFINE t == Done(r, a)
  <2>1. r' = t BY <1>3 DEF LockTransport
  <2>2. Rests(r, t, a) /\ t.owner = "none" /\ SameBut(r, t, {"owner", "w"}) BY <1>1, DoneEffect
  <2>3. t.w \in [Writers -> Writer] /\ \A b \in Writers : t.w[b].at # "body" /\ ~t.w[b].esc
    BY <1>0, <1>1, <1>2, <2>2, RestKept DEF Owned
  <2> HIDE DEF t
  <2>4. Typed(t)
    <3>1. /\ t.has = r.has /\ t.rx = r.rx /\ t.tx = r.tx /\ t.bt = r.bt /\ t.toSend = r.toSend
          /\ t.frame = r.frame /\ t.sel = r.sel /\ t.ep = r.ep /\ t.unlocked = r.unlocked /\ t.conn = r.conn
          /\ t.free = r.free /\ t.left = r.left /\ t.lost = r.lost /\ t.queue = r.queue /\ t.client = r.client
      BY <1>0, <2>2 DEF SameBut, Fields, Typed
    <3>2. DOMAIN t = Fields BY <1>0, <2>2 DEF SameBut, Typed
    <3> QED BY <1>0, <2>2, <2>3, <3>2, <3>1 DEF Typed
  <2>5. Owned(t) BY <2>3 DEF Owned
  <2>6. LockSame(r, t) /\ SerialSame(r, t) BY <1>1, <2>2 DEF LockSame, SerialSame, SameBut, Fields
  <2>7. StreamSame(r, t) BY <1>1, <1>2, <2>2, <2>3 DEF StreamSame, SameBut, Fields
  <2> QED BY <1>0, <2>1, <2>4, <2>5, <2>6, <2>7, LockedKept, SerialKept, StreamKept DEF StudioInv
<1>4. CASE r.sel # "none"
  <2> DEFINE msg == r.w[a].left
             st == [r EXCEPT !.owner = a, !.w[a].at = "body", !.pending = 0, !.sent = @ \union {msg}]
             p == PutBytes(st, SOF)
             t == TxNotify(p, 1, FALSE)
  <2>1. r' = t BY <1>4 DEF LockTransport
  <2>2. /\ SameBut(r, st, {"owner", "w", "pending", "sent"}) /\ st.owner = a /\ st.sent = r.sent \union {msg}
        /\ st.w = [r.w EXCEPT ![a] = [r.w[a] EXCEPT !.at = "body"]]
    BY <1>1 DEF SameBut, Fields
  <2>3. SOF \in Byte BY DEF Byte, Special
  <2> HIDE DEF st
  <2>4. /\ st.w \in [Writers -> Writer] /\ st.w[a].at = "body" /\ st.w[a].left = msg
        /\ st.w[a].esc = FALSE /\ \A b \in Writers \ {a} : st.w[b] = r.w[b]
    BY <1>0, <1>1, <2>2 DEF Writer, Owned
  <2>5. /\ SameBut(st, p, {"tx", "lost"}) /\ p.tx \in Seq(Byte) /\ Len(p.tx) <= TxSize /\ p.lost \in BOOLEAN
        /\ ~p.lost => ~st.lost /\ p.tx = Append(st.tx, SOF)
    <3>1. DOMAIN st = Fields /\ st.tx \in Seq(Byte) /\ Len(st.tx) <= TxSize /\ st.lost \in BOOLEAN
      BY <1>0, <1>1, <2>2 DEF SameBut, Fields, Typed
    <3> QED BY <2>3, <3>1, PutEffect
  <2> HIDE DEF p
  <2>6. SameBut(p, t, {"txIrq", "queue", "pending"})
        /\ Queued(p, t, IF p.sel = "ble" THEN {"notify"} ELSE {})
    <3>1. r.sel \in {"usb", "ble"} /\ r.queue \in Seq(Job) BY <1>0, <1>4 DEF Typed
    <3>2. DOMAIN p = Fields /\ p.queue = r.queue /\ p.sel = r.sel
      BY <1>1, <2>2, <2>5 DEF SameBut, Fields
    <3> QED BY <3>1, <3>2, TxNotifyEffect
  <2> HIDE DEF t, msg
  <2>7. Typed(t) /\ Owned(t)
    <3>1. DOMAIN t = Fields /\ t.w = st.w /\ t.owner = a /\ t.tx = p.tx /\ t.lost = p.lost /\ t.sel = r.sel
      BY <1>1, <2>2, <2>5, <2>6 DEF SameBut, Fields
    <3>2. Typed(t)
      <4>1. TypeSame(r, t) BY <1>1, <2>2, <2>5, <2>6 DEF TypeSame, SameBut, Fields
      <4>2. TypeChanged(t) BY <2>4, <2>5, <2>6, <3>1 DEF TypeChanged, Queued, Writers
      <4> QED BY <1>0, <4>1, <4>2, TypedKept
    <3>3. Owned(t) BY <1>0, <1>2, <1>4, <2>4, <3>1 DEF Owned
    <3> QED BY <3>2, <3>3
  <2>8. LockSame(r, t) BY <1>1, <2>2, <2>5, <2>6 DEF LockSame, SameBut, Fields, Queued
  <2>9. SerialOnly(t)
    <3>1. t.has = r.has /\ t.conn = r.conn /\ t.free = r.free /\ p.queue = r.queue /\ p.sel = r.sel
      BY <1>1, <2>2, <2>5, <2>6 DEF SameBut, Fields
    <3>2. r.has = {"usb"} => p.sel # "ble" BY <1>0, <3>1 DEF Typed
    <3> QED BY <1>0, <2>6, <3>1, <3>2 DEF SerialOnly, Queued
  <2>10. Streams(t)
    <3>1. /\ t.has = r.has /\ t.lost = p.lost /\ t.read = r.read /\ t.sent = r.sent \union {msg}
          /\ t.tx = p.tx /\ t.client = r.client /\ t.w = st.w /\ st.lost = r.lost /\ st.tx = r.tx
      BY <1>1, <2>2, <2>5, <2>6 DEF SameBut, Fields
    <3>2. SUFFICES ASSUME r.has = {"usb"}, ~p.lost
                   PROVE  /\ \A m \in t.read : m[2] \in t.sent
                          /\ \E e \in Client : Leads(t.tx, t.client["usb"], e, t.sent) /\ EndsAs(t, e)
      BY <3>1 DEF Streams
    <3>3. \A m \in r.read : m[2] \in r.sent BY <1>0, <2>5, <3>1, <3>2 DEF Streams
    <3>4. PICK c \in Client : Leads(r.tx, r.client["usb"], c, r.sent) /\ EndsAs(r, c)
      BY <1>0, <2>5, <3>1, <3>2 DEF Streams
    <3>5. c = Fresh BY <1>2, <3>4 DEF EndsAs
    <3> DEFINE d == ClientNext(c, SOF)
    <3>6. d.frame = "data" /\ d.got = <<>> /\ ClientStep(c, SOF, d, t.sent)
      BY <3>5 DEF Fresh, ClientNext, MessagesAt, ClientStep, FrameNext, SOF, EOF, ESC
    <3> HIDE DEF d
    <3>7. r.tx \in Seq(Byte) /\ r.sent \subseteq t.sent BY <1>0, <3>1 DEF Typed
    <3>8. Leads(r.tx, r.client["usb"], c, t.sent) BY <3>4, <3>7, LeadsWiden
    <3>9. d \in Client /\ Leads(Append(r.tx, SOF), r.client["usb"], d, t.sent)
      BY <2>3, <3>6, <3>7, <3>8, LeadsOn
    <3>10. t.tx = Append(r.tx, SOF) BY <2>5, <3>1, <3>2
    <3>11. <<>> \o msg = msg /\ msg \in Seq(Byte) BY <1>1 DEF msg, Writer
    <3>12. Halfway(t.w[a], d, t.sent) BY <2>4, <3>1, <3>6, <3>11 DEF Halfway
    <3>13. EndsAs(t, d) BY <1>2, <2>4, <3>1, <3>12 DEF EndsAs
    <3> QED BY <3>1, <3>3, <3>9, <3>10, <3>13
  <2> QED BY <1>0, <2>1, <2>7, <2>8, <2>9, <2>10, LockedKept DEF StudioInv
<1> QED BY <1>3, <1>4

LEMMA WriteEndKeeps ==
    ASSUME StudioInv(r), NEW a \in Writers, WriteEnd(a)
    PROVE  StudioInv(r')
<1>0. Typed(r) /\ Owned(r) /\ Locked(r) /\ SerialOnly(r) /\ Streams(r) BY DEF StudioInv
<1>1. /\ r.w \in [Writers -> Writer] /\ DOMAIN r = Fields /\ r.w[a].at = "body" /\ r.w[a].left = <<>>
      /\ r.owner = a /\ r.sel \in {"usb", "ble"}
  BY <1>0 DEF WriteEnd, Typed, Owned
<1>2. \A b \in Writers \ {a} : r.w[b].at # "body" /\ ~r.w[b].esc BY <1>0, <1>1 DEF Owned
<1> DEFINE p == PutBytes(r, EOF)
           u == TxNotify(p, 1, TRUE)
           t == Done(u, a)
<1>3. r' = t BY DEF WriteEnd
<1>4. EOF \in Byte BY DEF Byte, Special
<1>5. /\ SameBut(r, p, {"tx", "lost"}) /\ p.tx \in Seq(Byte) /\ Len(p.tx) <= TxSize /\ p.lost \in BOOLEAN
      /\ ~p.lost => ~r.lost /\ p.tx = Append(r.tx, EOF)
  <2>1. DOMAIN r = Fields /\ r.tx \in Seq(Byte) /\ Len(r.tx) <= TxSize /\ r.lost \in BOOLEAN
    BY <1>0 DEF Typed
  <2> QED BY <1>4, <2>1, PutEffect
<1> HIDE DEF p
<1>6. SameBut(p, u, {"txIrq", "queue", "pending"})
      /\ Queued(p, u, IF p.sel = "ble" THEN {"notify"} ELSE {})
  <2>1. DOMAIN p = Fields /\ p.queue \in Seq(Job) /\ p.sel \in {"usb", "ble"}
    BY <1>0, <1>1, <1>5 DEF SameBut, Fields, Typed
  <2> QED BY <2>1, TxNotifyEffect
<1> HIDE DEF u
<1>7. DOMAIN u = Fields /\ u.w = r.w BY <1>1, <1>5, <1>6 DEF SameBut, Fields
<1>8. Rests(u, t, a) /\ t.owner = "none" /\ SameBut(u, t, {"owner", "w"}) BY <1>1, <1>7, DoneEffect
<1> HIDE DEF t
<1>9. t.w \in [Writers -> Writer] /\ \A b \in Writers : t.w[b].at # "body" /\ ~t.w[b].esc
  BY <1>1, <1>2, <1>7, <1>8, RestKept
<1>10. /\ DOMAIN t = Fields /\ t.tx = p.tx /\ t.lost = p.lost /\ t.queue = u.queue
       /\ p.queue = r.queue /\ p.sel = r.sel
       /\ \A f \in Fields \ {"tx", "lost", "txIrq", "queue", "pending", "owner", "w"} : t[f] = r[f]
  BY <1>1, <1>5, <1>6, <1>7, <1>8 DEF SameBut, Fields
<1>11. Typed(t)
  <2>1. TypeSame(r, t) BY <1>10 DEF TypeSame, Fields
  <2>2. TypeChanged(t) BY <1>5, <1>6, <1>8, <1>9, <1>10 DEF TypeChanged, Queued
  <2> QED BY <1>0, <2>1, <2>2, TypedKept
<1>12. Owned(t) BY <1>9 DEF Owned
<1>13. LockSame(r, t) BY <1>6, <1>10 DEF LockSame, Fields, Queued
<1>14. SerialOnly(t)
  <2>1. t.has = r.has /\ t.conn = r.conn /\ t.free = r.free BY <1>10 DEF Fields
  <2>2. r.has = {"usb"} => p.sel # "ble" BY <1>0, <1>10 DEF Typed
  <2> QED BY <1>0, <1>6, <1>10, <2>1, <2>2 DEF SerialOnly, Queued
<1>15. Streams(t)
  <2>1. t.has = r.has /\ t.read = r.read /\ t.sent = r.sent /\ t.client = r.client BY <1>10 DEF Fields
  <2>2. SUFFICES ASSUME r.has = {"usb"}, ~p.lost
                 PROVE  /\ \A m \in t.read : m[2] \in t.sent
                        /\ \E e \in Client : Leads(t.tx, t.client["usb"], e, t.sent) /\ EndsAs(t, e)
    BY <1>10, <2>1 DEF Streams
  <2>3. \A m \in r.read : m[2] \in r.sent BY <1>0, <1>5, <2>2 DEF Streams
  <2>4. PICK c \in Client : Leads(r.tx, r.client["usb"], c, r.sent) /\ EndsAs(r, c)
    BY <1>0, <1>5, <2>2 DEF Streams
  <2>5. Halfway(r.w[a], c, r.sent) BY <1>1, <2>4 DEF EndsAs
  <2>6. c.frame = "data" BY <1>1, <2>5 DEF Halfway
  <2>7. c.got \in r.sent
    <3>1. c.got \o <<>> \in r.sent BY <1>1, <2>5 DEF Halfway
    <3>2. c.got \in Seq(Byte) BY DEF Client
    <3>3. c.got \o <<>> = c.got BY <3>2
    <3> QED BY <3>1, <3>3
  <2>8. ClientStep(c, EOF, Fresh, r.sent)
    BY <2>6, <2>7 DEF ClientNext, MessagesAt, ClientStep, FrameNext, SOF, EOF, ESC
  <2>9. r.tx \in Seq(Byte) BY <1>0 DEF Typed
  <2>10. Fresh \in Client /\ Leads(Append(r.tx, EOF), r.client["usb"], Fresh, r.sent)
    BY <1>4, <2>4, <2>8, <2>9, LeadsOn
  <2>11. EndsAs(t, Fresh) BY <1>9 DEF EndsAs
  <2> QED BY <1>5, <1>10, <2>1, <2>2, <2>3, <2>10, <2>11
<1> QED BY <1>0, <1>3, <1>11, <1>12, <1>13, <1>14, <1>15, LockedKept DEF StudioInv

LEMMA WriteBodyKeeps ==
    ASSUME StudioInv(r), NEW a \in Writers, WriteBody(a)
    PROVE  StudioInv(r')
<1>0. Typed(r) /\ Owned(r) /\ Locked(r) /\ SerialOnly(r) /\ Streams(r) BY DEF StudioInv
<1> DEFINE k == Len(r.w[a].left)
           x0 == [out |-> <<>>, left |-> r.w[a].left, esc |-> r.w[a].esc]
<1>1. PICK n \in 1 .. k :
        /\ n <= TxSize - Len(r.tx)
        /\ LET x == Filled(x0, n)
           IN  r' = TxNotify([r EXCEPT !.tx = @ \o x.out, !.w[a].left = x.left,
                                       !.w[a].esc = x.esc], n, FALSE)
  BY DEF WriteBody
<1> DEFINE x == Filled(x0, n)
           st == [r EXCEPT !.tx = @ \o x.out, !.w[a].left = x.left, !.w[a].esc = x.esc]
           t == TxNotify(st, n, FALSE)
<1>2. r' = t BY <1>1
<1>3. /\ r.w \in [Writers -> Writer] /\ DOMAIN r = Fields /\ r.w[a].at = "body" /\ r.tx \in Seq(Byte)
      /\ r.w[a].left \in Seq(Byte) /\ r.w[a].esc \in BOOLEAN
      /\ r.owner = a /\ r.sel \in {"usb", "ble"} /\ r.queue \in Seq(Job)
  BY <1>0 DEF WriteBody, Typed, Owned, Writer
<1>4. \A b \in Writers \ {a} : r.w[b].at # "body" BY <1>0, <1>3 DEF Owned
<1>5. k \in Nat /\ n \in 0 .. k /\ Len(r.tx) \in Nat /\ TxSize \in Nat BY <1>3, StudioRpcAssumption
<1>6. Claimed(x0, 0, k)
  <2>1. <<>> \in Seq(Byte) /\ Len(<<>>) = 0 OBVIOUS
  <2> QED BY <1>3, <1>5, <2>1 DEF Claimed
<1> HIDE DEF k, x0
<1>7. /\ Claimed(x, n, k)
      /\ Follows(r.tx, x0, r.client["usb"], r.sent) => Follows(r.tx, x, r.client["usb"], r.sent)
  BY <1>3, <1>5, <1>6, ClaimFills
<1> HIDE DEF x
<1>8. x.out \in Seq(Byte) /\ x.left \in Seq(Byte) /\ x.esc \in BOOLEAN /\ Len(x.out) = n
  BY <1>7 DEF Claimed
<1> DEFINE q == r.tx \o x.out
<1>9. q \in Seq(Byte) /\ Len(q) <= TxSize
  <2>1. q \in Seq(Byte) /\ Len(q) = Len(r.tx) + Len(x.out) BY <1>3, <1>8, ConcatProperties
  <2> QED BY <1>1, <1>5, <1>8, <2>1
<1>10. /\ SameBut(r, st, {"tx", "w"}) /\ st.tx = q
       /\ st.w = [r.w EXCEPT ![a] = [r.w[a] EXCEPT !.left = x.left, !.esc = x.esc]]
  BY <1>3 DEF SameBut, Fields
<1> HIDE DEF st, q
<1>11. /\ st.w \in [Writers -> Writer] /\ st.w[a].at = "body" /\ st.w[a].left = x.left
       /\ st.w[a].esc = x.esc /\ \A b \in Writers \ {a} : st.w[b] = r.w[b]
  <2> DEFINE y == [r.w[a] EXCEPT !.left = x.left, !.esc = x.esc]
  <2>1. y \in Writer /\ y.at = "body" /\ y.left = x.left /\ y.esc = x.esc BY <1>3, <1>8 DEF Writer
  <2> HIDE DEF y
  <2>2. st.w = [r.w EXCEPT ![a] = y] BY <1>10 DEF y
  <2> QED BY <1>3, <2>1, <2>2
<1>12. DOMAIN st = Fields /\ st.queue = r.queue /\ st.sel = r.sel BY <1>3, <1>10 DEF SameBut, Fields
<1>13. SameBut(st, t, {"txIrq", "queue", "pending"})
       /\ Queued(st, t, IF st.sel = "ble" THEN {"notify"} ELSE {})
  BY <1>3, <1>12, TxNotifyEffect
<1> HIDE DEF t
<1>14. /\ DOMAIN t = Fields /\ t.w = st.w /\ t.tx = q
       /\ \A f \in Fields \ {"tx", "txIrq", "queue", "pending", "w"} : t[f] = r[f]
  BY <1>10, <1>12, <1>13 DEF SameBut, Fields
<1>15. Typed(t)
  <2>1. TypeSame(r, t) BY <1>14 DEF TypeSame, Fields
  <2>2. t.owner = r.owner /\ t.lost = r.lost BY <1>14 DEF Fields
  <2>3. TypeChanged(t) BY <1>0, <1>9, <1>11, <1>13, <1>14, <2>2 DEF TypeChanged, Queued, Typed
  <2> QED BY <1>0, <2>1, <2>3, TypedKept
<1>16. Owned(t)
  <2>1. t.owner = r.owner /\ t.sel = r.sel BY <1>14 DEF Fields
  <2> QED BY <1>0, <1>3, <1>4, <1>11, <1>14, <2>1 DEF Owned
<1>17. LockSame(r, t) BY <1>12, <1>13, <1>14 DEF LockSame, Fields, Queued
<1>18. SerialOnly(t)
  <2>1. t.has = r.has /\ t.conn = r.conn /\ t.free = r.free BY <1>14 DEF Fields
  <2>2. r.has = {"usb"} => st.sel # "ble" BY <1>0, <1>12 DEF Typed
  <2> QED BY <1>0, <1>12, <1>13, <2>1, <2>2 DEF SerialOnly, Queued
<1>19. Streams(t)
  <2>1. /\ t.has = r.has /\ t.read = r.read /\ t.sent = r.sent /\ t.client = r.client /\ t.lost = r.lost
    BY <1>14 DEF Fields
  <2>2. SUFFICES ASSUME r.has = {"usb"}, ~r.lost
                 PROVE  /\ \A m \in t.read : m[2] \in t.sent
                        /\ \E e \in Client : Leads(t.tx, t.client["usb"], e, t.sent) /\ EndsAs(t, e)
    BY <2>1 DEF Streams
  <2>3. \A m \in r.read : m[2] \in r.sent BY <1>0, <2>2 DEF Streams
  <2>4. PICK c \in Client : Leads(r.tx, r.client["usb"], c, r.sent) /\ EndsAs(r, c)
    BY <1>0, <2>2 DEF Streams
  <2>5. Halfway(r.w[a], c, r.sent) BY <1>3, <2>4 DEF EndsAs
  <2>6. r.tx \o x0.out = r.tx BY <1>3 DEF x0
  <2>7. Halfway(x0, c, r.sent) BY <2>5 DEF Halfway, x0
  <2>8. Follows(r.tx, x0, r.client["usb"], r.sent) BY <2>4, <2>6, <2>7 DEF Follows
  <2>9. PICK e \in Client : Leads(q, r.client["usb"], e, r.sent) /\ Halfway(x, e, r.sent)
    BY <1>7, <2>8 DEF Follows, q
  <2>10. Halfway(t.w[a], e, r.sent) BY <1>11, <1>14, <2>9 DEF Halfway
  <2>11. EndsAs(t, e) BY <1>4, <1>11, <1>14, <2>1, <2>10 DEF EndsAs
  <2> QED BY <1>14, <2>1, <2>3, <2>9, <2>11
<1> QED BY <1>0, <1>2, <1>15, <1>16, <1>17, <1>18, <1>19, LockedKept DEF StudioInv
-----------------------------------------------------------------------------
(* The serial port and the thread that reads *)

LEMMA SerialSendsKeeps ==
    ASSUME StudioInv(r), SerialSends
    PROVE  StudioInv(r')
<1>0. Typed(r) /\ Owned(r) /\ Locked(r) /\ SerialOnly(r) /\ Streams(r) BY DEF StudioInv
<1> DEFINE c == r.client["usb"]
           b == Head(r.tx)
           q == Tail(r.tx)
           M == {"usb"} \X MessagesAt(c, b)
<1>1. /\ DOMAIN r = Fields /\ r.tx \in Seq(Byte) /\ r.tx # <<>> /\ Len(r.tx) <= TxSize
      /\ DOMAIN r.client = {"usb", "ble"}
  BY <1>0 DEF Typed, SerialSends
<1>2. r' = [r EXCEPT !.client["usb"] = ClientNext(c, b), !.tx = q, !.read = @ \union M]
  BY DEF SerialSends
<1>3. q \in Seq(Byte) /\ Len(q) <= TxSize
  <2>1. q \in Seq(Byte) /\ Len(q) = Len(r.tx) - 1 /\ Len(r.tx) \in Nat BY <1>1
  <2>2. TxSize \in Nat BY StudioRpcAssumption
  <2> QED BY <1>1, <2>1, <2>2
<1> HIDE DEF q, M, b
<1>4. /\ r'.client = [r.client EXCEPT !["usb"] = ClientNext(c, b)] /\ r'.tx = q /\ r'.read = r.read \union M
      /\ SameBut(r, r', {"client", "tx", "read"})
  BY <1>1, <1>2 DEF SameBut, Fields
<1>5. DOMAIN r'.client = {"usb", "ble"} /\ r'.client["usb"] = ClientNext(c, b) BY <1>1, <1>4
<1> HIDE DEF c
<1>6. DOMAIN r' = Fields /\ \A f \in Fields \ {"client", "tx", "read"} : r'[f] = r[f]
  BY <1>1, <1>4 DEF SameBut
<1>7. Typed(r')
  <2>1. /\ r'.has = r.has /\ r'.rx = r.rx /\ r'.bt = r.bt /\ r'.toSend = r.toSend /\ r'.frame = r.frame
        /\ r'.sel = r.sel /\ r'.ep = r.ep /\ r'.owner = r.owner /\ r'.unlocked = r.unlocked /\ r'.conn = r.conn
        /\ r'.free = r.free /\ r'.left = r.left /\ r'.lost = r.lost /\ r'.w = r.w /\ r'.queue = r.queue
    BY <1>6 DEF Fields
  <2> QED BY <1>0, <1>3, <1>4, <1>5, <1>6, <2>1 DEF Typed
<1>8. Owned(r') BY <1>0, <1>6 DEF Owned, Fields
<1>9. LockSame(r, r') /\ SerialSame(r, r') BY <1>6 DEF LockSame, SerialSame, Fields
<1>10. Streams(r')
  <2>1. r'.has = r.has /\ r'.sent = r.sent /\ r'.lost = r.lost /\ r'.w = r.w BY <1>6 DEF Fields
  <2>2. SUFFICES ASSUME r.has = {"usb"}, ~r.lost
                 PROVE  /\ \A m \in r'.read : m[2] \in r'.sent
                        /\ \E e \in Client : Leads(r'.tx, r'.client["usb"], e, r'.sent) /\ EndsAs(r', e)
    BY <2>1 DEF Streams
  <2>3. \A m \in r.read : m[2] \in r.sent BY <1>0, <2>2 DEF Streams
  <2>4. PICK e \in Client : Leads(r.tx, c, e, r.sent) /\ EndsAs(r, e)
    BY <1>0, <2>2 DEF Streams, c
  <2>5. MessagesAt(c, b) \subseteq r.sent /\ Leads(q, ClientNext(c, b), e, r.sent)
    BY <1>1, <2>4, LeadsFrom DEF b, q
  <2>6. \A m \in M : m[2] \in r.sent BY <2>5 DEF M
  <2>7. EndsAs(r', e) BY <2>1, <2>4 DEF EndsAs
  <2> QED BY <1>4, <1>5, <2>1, <2>3, <2>5, <2>6, <2>7
<1> QED BY <1>0, <1>7, <1>8, <1>9, <1>10, LockedKept, SerialKept DEF StudioInv

\* A writer that rests, as RestKept has it, keeps who writes, and the stream.
LEMMA RestKeeps ==
    ASSUME NEW st, NEW t, NEW a \in Writers, Rests(st, t, a), st.w \in [Writers -> Writer],
           st.w[a].at # "body", Owned(st), t.owner = st.owner, t.sel = st.sel
    PROVE  /\ Owned(t) /\ t.w \in [Writers -> Writer]
           /\ \A b \in Writers : /\ t.w[b].at = "body" <=> st.w[b].at = "body"
                                 /\ t.w[b].at = "body" => t.w[b] = st.w[b]
<1>1. t.w \in [Writers -> Writer] /\ t.w[a].at # "body" /\ ~t.w[a].esc
  BY RestKept
<1>2. \A b \in Writers \ {a} : t.w[b] = st.w[b]
  BY RestKept
<1> QED BY <1>1, <1>2 DEF Owned

LEMMA ReadByteKeeps ==
    ASSUME StudioInv(r), ReadByte
    PROVE  StudioInv(r')
<1>0. Typed(r) /\ Owned(r) /\ Locked(r) /\ SerialOnly(r) /\ Streams(r) BY DEF StudioInv
<1> DEFINE c == Head(r.rx)
           q == Tail(r.rx)
           fr == FrameNext(r.frame, c)
           g == IF IsPayload(r.frame, c) THEN Append(r.got, c) ELSE r.got
           st == [r EXCEPT !.rx = q, !.frame = fr, !.got = g]
           t == Decode(r)
<1>1. /\ DOMAIN r = Fields /\ r.rx \in Seq(Byte) /\ r.rx # <<>> /\ Len(r.rx) <= RxSize /\ r.frame \in Frame
      /\ r.w \in [Writers -> Writer] /\ r.w["rpc"].at = "none" /\ "rpc" \in Writers
  BY <1>0 DEF Typed, ReadByte, Writers
<1>2. q \in Seq(Byte) /\ Len(q) <= RxSize
  <2>1. q \in Seq(Byte) /\ Len(q) = Len(r.rx) - 1 /\ Len(r.rx) \in Nat BY <1>1
  <2>2. RxSize \in Nat BY StudioRpcAssumption
  <2> QED BY <1>1, <2>1, <2>2
<1>3. fr \in Frame BY <1>1 DEF FrameNext, Frame, SOF, EOF, ESC
<1>4. r' = t BY DEF ReadByte
<1>5. \/ t = Served(st)
      \/ t = [st EXCEPT !.frame = "idle", !.got = <<>>]
      \/ t = st
  BY DEF Decode
<1> HIDE DEF q, fr, g, t
<1>6. SameBut(r, st, {"rx", "frame", "got"}) /\ st.rx = q /\ st.frame = fr /\ st.w = r.w /\ DOMAIN st = Fields
  BY <1>1 DEF SameBut, Fields
<1> HIDE DEF st
<1>7. Idles(r.w["rpc"]) /\ r.w = [r.w EXCEPT !["rpc"] = r.w["rpc"]] BY <1>0, <1>1 DEF Idles, Owned
<1>8. /\ SameBut(r, t, {"rx", "frame", "got", "served", "w"}) /\ t.rx = q /\ t.frame \in Frame
      /\ Rests(r, t, "rpc")
  <2>1. CASE t = Served(st)
    <3> DEFINE x == IF st.got = Edit /\ st.unlocked THEN Writing(Changed, Answer)
                    ELSE Writing(IF st.got = Edit THEN RefusedRequest ELSE Answer, <<>>)
    <3>1. Idles(x)
      <4>1. <<>> \in Seq(Byte) OBVIOUS
      <4> QED BY <4>1, MessagesAreBytes, WritingIdles
    <3>2. t = [st EXCEPT !.frame = "idle", !.got = <<>>, !.served = @ + 1, !.w["rpc"] = x]
      BY <2>1, <1>6 DEF Served, Fields
    <3> HIDE DEF x
    <3>3. /\ t.w = [st.w EXCEPT !["rpc"] = x] /\ t.frame = "idle" /\ t.rx = st.rx
          /\ SameBut(st, t, {"frame", "got", "served", "w"})
      BY <1>6, <3>2 DEF SameBut, Fields
    <3>4. t.w["rpc"] = x BY <1>1, <1>6, <3>3
    <3>5. SameBut(r, t, {"rx", "frame", "got", "served", "w"}) BY <1>6, <3>3 DEF SameBut
    <3>6. Rests(r, t, "rpc") BY <1>6, <3>1, <3>3, <3>4 DEF Rests
    <3> QED BY <1>6, <3>3, <3>5, <3>6 DEF Frame
  <2>2. CASE t = [st EXCEPT !.frame = "idle", !.got = <<>>]
    <3>1. t.w = st.w /\ t.frame = "idle" /\ t.rx = st.rx /\ SameBut(st, t, {"frame", "got"})
      BY <1>6, <2>2 DEF SameBut, Fields
    <3> HIDE <2>2
    <3>2. SameBut(r, t, {"rx", "frame", "got", "served", "w"}) BY <1>6, <3>1 DEF SameBut
    <3>3. Rests(r, t, "rpc") BY <1>6, <1>7, <3>1 DEF Rests
    <3> QED BY <1>6, <3>1, <3>2, <3>3 DEF Frame
  <2>3. CASE t = st
    <3>1. SameBut(r, t, {"rx", "frame", "got", "served", "w"}) BY <1>6, <2>3 DEF SameBut
    <3>2. Rests(r, t, "rpc") BY <1>6, <1>7, <2>3 DEF Rests
    <3> QED BY <1>3, <1>6, <2>3, <3>1, <3>2
  <2> QED BY <1>5, <2>1, <2>2, <2>3
<1>9. DOMAIN t = Fields /\ \A f \in Fields \ {"rx", "frame", "got", "served", "w"} : t[f] = r[f]
  BY <1>1, <1>8 DEF SameBut
<1>10. t.owner = r.owner /\ t.sel = r.sel /\ r.w["rpc"].at # "body" BY <1>1, <1>9 DEF Fields
<1>11. /\ Owned(t) /\ t.w \in [Writers -> Writer]
       /\ \A b \in Writers : /\ t.w[b].at = "body" <=> r.w[b].at = "body"
                             /\ t.w[b].at = "body" => t.w[b] = r.w[b]
  BY <1>0, <1>1, <1>8, <1>10, RestKeeps
<1>12. Typed(t)
  <2>1. /\ t.has = r.has /\ t.tx = r.tx /\ t.bt = r.bt /\ t.toSend = r.toSend /\ t.sel = r.sel
        /\ t.ep = r.ep /\ t.owner = r.owner /\ t.unlocked = r.unlocked /\ t.conn = r.conn /\ t.free = r.free
        /\ t.left = r.left /\ t.lost = r.lost /\ t.queue = r.queue /\ t.client = r.client
    BY <1>9 DEF Fields
  <2> QED BY <1>0, <1>2, <1>8, <1>9, <1>11, <2>1 DEF Typed
<1>13. LockSame(r, t) /\ SerialSame(r, t) BY <1>9 DEF LockSame, SerialSame, Fields
<1>14. StreamSame(r, t) BY <1>9, <1>11 DEF StreamSame, Fields
<1> QED BY <1>0, <1>4, <1>11, <1>12, <1>13, <1>14, LockedKept, SerialKept, StreamKept DEF StudioInv

\* What is moved from the host to the reader.
Moves(st, t) ==
    /\ SameBut(st, t, {"rx", "bt", "toSend", "rxSem", "via", "asked", "lost"})
    /\ t.rx \in Seq(Byte) /\ Len(t.rx) <= RxSize /\ t.bt \in Seq(Byte) /\ t.toSend \in Seq(Byte)
    /\ t.lost \in BOOLEAN /\ (~t.lost => ~st.lost)

LEMMA MovesKeeps ==
    ASSUME NEW st, NEW t, StudioInv(st), Moves(st, t)
    PROVE  StudioInv(t)
<1>0. Typed(st) /\ Owned(st) /\ Locked(st) /\ SerialOnly(st) /\ Streams(st) BY DEF StudioInv
<1>1. DOMAIN st = Fields BY <1>0 DEF Typed
<1>2. DOMAIN t = Fields
      /\ \A f \in Fields \ {"rx", "bt", "toSend", "rxSem", "via", "asked", "lost"} : t[f] = st[f]
  BY <1>1 DEF Moves, SameBut
<1>3. Typed(t)
  <2>1. /\ t.has = st.has /\ t.tx = st.tx /\ t.frame = st.frame /\ t.sel = st.sel /\ t.ep = st.ep
        /\ t.owner = st.owner /\ t.unlocked = st.unlocked /\ t.conn = st.conn /\ t.free = st.free /\ t.left = st.left
        /\ t.w = st.w /\ t.queue = st.queue /\ t.client = st.client
    BY <1>2 DEF Fields
  <2> QED BY <1>0, <1>2, <2>1 DEF Typed, Moves
<1>4. Owned(t) BY <1>0, <1>2 DEF Owned, Fields
<1>5. LockSame(st, t) /\ SerialSame(st, t) BY <1>2 DEF LockSame, SerialSame, Fields
<1>6. StreamSame(st, t) BY <1>2 DEF StreamSame, Fields, Moves
<1> QED BY <1>0, <1>3, <1>4, <1>5, <1>6, LockedKept, SerialKept, StreamKept DEF StudioInv

LEMMA PiecesAreBytes ==
    ASSUME NEW q \in Seq(Byte), NEW n \in 0 .. Len(q)
    PROVE  /\ SubSeq(q, 1, n) \in Seq(Byte) /\ Len(SubSeq(q, 1, n)) = n
           /\ SubSeq(q, n + 1, Len(q)) \in Seq(Byte)
OBVIOUS

LEMMA LesserOfTwo ==
    ASSUME NEW i \in Nat, NEW j \in Nat
    PROVE  Min({i, j}) \in Nat /\ Min({i, j}) <= i /\ Min({i, j}) <= j
<1> DEFINE P(m) == m \in {i, j} /\ \A y \in {i, j} : m <= y
<1>1. \E m : P(m)
  <2>1. CASE i <= j BY <2>1
  <2>2. CASE ~(i <= j) BY <2>2
  <2> QED BY <2>1, <2>2
<1>2. Min({i, j}) = CHOOSE m : P(m) BY DEF Min
<1> QED BY <1>1, <1>2

LEMMA InputMoves ==
    ASSUME StudioInv(r), WakeReader \/ SerialReceives \/ HostWrites \/ Copy \/ Ask
    PROVE  Moves(r, r')
<1>1. /\ DOMAIN r = Fields /\ r.rx \in Seq(Byte) /\ r.bt \in Seq(Byte) /\ r.toSend \in Seq(Byte)
      /\ Len(r.rx) <= RxSize /\ RxSize \in Nat /\ r.lost \in BOOLEAN /\ MaxWrite \in Nat
  BY StudioRpcAssumption DEF StudioInv, Typed
<1>2. CASE WakeReader
  <2>1. r' = [r EXCEPT !.rxSem = FALSE] BY <1>2 DEF WakeReader
  <2>2. /\ SameBut(r, r', {"rx", "bt", "toSend", "rxSem", "via", "asked", "lost"})
        /\ r'.rx = r.rx /\ r'.bt = r.bt /\ r'.toSend = r.toSend /\ r'.lost = r.lost
    BY <1>1, <2>1 DEF SameBut, Fields
  <2> QED BY <1>1, <2>2 DEF Moves
<1>3. CASE SerialReceives
  <2> DEFINE q == IF Len(r.rx) < RxSize THEN Append(r.rx, Head(r.toSend)) ELSE r.rx
             p == Tail(r.toSend)
             l == r.lost \/ Len(r.rx) = RxSize
  <2>1. r' = [r EXCEPT !.toSend = p, !.rxSem = TRUE, !.rx = q, !.lost = l] BY <1>3 DEF SerialReceives
  <2>2. p \in Seq(Byte) /\ Head(r.toSend) \in Byte
    <3>1. r.toSend # <<>> BY <1>3 DEF SerialReceives
    <3> QED BY <1>1, <3>1
  <2>3. q \in Seq(Byte) /\ Len(q) <= RxSize BY <1>1, <2>2
  <2>4. l \in BOOLEAN /\ (~l => ~r.lost) BY <1>1
  <2> HIDE DEF p, q, l
  <2>5. /\ SameBut(r, r', {"rx", "bt", "toSend", "rxSem", "via", "asked", "lost"})
        /\ r'.rx = q /\ r'.bt = r.bt /\ r'.toSend = p /\ r'.lost = l
    BY <1>1, <2>1 DEF SameBut, Fields
  <2> QED BY <1>1, <2>2, <2>3, <2>4, <2>5 DEF Moves
<1>4. CASE HostWrites
  <2>1. PICK n \in 1 .. Min({MaxWrite, Len(r.toSend)}) :
          r' = [r EXCEPT !.toSend = SubSeq(@, n + 1, Len(@)),
                         !.bt = IF r.sel = "ble" THEN SubSeq(r.toSend, 1, n) ELSE <<>>]
    BY <1>4 DEF HostWrites
  <2>2. n \in 0 .. Len(r.toSend)
    <3>1. Len(r.toSend) \in Nat BY <1>1
    <3>2. Min({MaxWrite, Len(r.toSend)}) \in Nat /\ Min({MaxWrite, Len(r.toSend)}) <= Len(r.toSend)
      BY <1>1, <3>1, LesserOfTwo
    <3> HIDE DEF Min
    <3> QED BY <3>1, <3>2
  <2> DEFINE p == SubSeq(r.toSend, n + 1, Len(r.toSend))
             q == IF r.sel = "ble" THEN SubSeq(r.toSend, 1, n) ELSE <<>>
  <2>3. p \in Seq(Byte) /\ q \in Seq(Byte)
    <3>1. <<>> \in Seq(Byte) OBVIOUS
    <3> QED BY <1>1, <2>2, <3>1, PiecesAreBytes
  <2> HIDE DEF p, q
  <2>4. r' = [r EXCEPT !.toSend = p, !.bt = q] BY <1>1, <2>1 DEF p, q, Fields
  <2>5. /\ SameBut(r, r', {"rx", "bt", "toSend", "rxSem", "via", "asked", "lost"})
        /\ r'.rx = r.rx /\ r'.bt = q /\ r'.toSend = p /\ r'.lost = r.lost
    BY <1>1, <2>4 DEF SameBut, Fields
  <2> QED BY <1>1, <2>3, <2>5 DEF Moves
<1>5. CASE Copy
  <2> DEFINE n == Min({RxSize - Len(r.rx), Len(r.bt)})
             q == r.rx \o SubSeq(r.bt, 1, n)
             p == SubSeq(r.bt, n + 1, Len(r.bt))
             b == r.rxSem \/ n = Len(r.bt)
  <2>1. r' = [r EXCEPT !.rx = q, !.bt = p, !.rxSem = b] BY <1>1, <1>5 DEF Copy, Fields
  <2>2. RxSize - Len(r.rx) \in Nat /\ Len(r.bt) \in Nat /\ Len(r.rx) \in Nat BY <1>1
  <2>3. n \in 0 .. Len(r.bt) /\ n <= RxSize - Len(r.rx)
    <3>1. n \in Nat /\ n <= Len(r.bt) /\ n <= RxSize - Len(r.rx) BY <2>2, LesserOfTwo
    <3> HIDE DEF n
    <3> QED BY <2>2, <3>1
  <2> HIDE DEF n
  <2>4. SubSeq(r.bt, 1, n) \in Seq(Byte) /\ Len(SubSeq(r.bt, 1, n)) = n /\ p \in Seq(Byte)
    BY <1>1, <2>3, PiecesAreBytes
  <2>5. q \in Seq(Byte) /\ Len(q) = Len(r.rx) + Len(SubSeq(r.bt, 1, n)) BY <1>1, <2>4, ConcatProperties
  <2>6. Len(q) <= RxSize
    <3>1. Len(q) = Len(r.rx) + n BY <2>4, <2>5
    <3>2. n \in Nat /\ n <= RxSize - Len(r.rx) BY <2>2, <2>3
    <3> HIDE DEF q
    <3> QED BY <1>1, <2>2, <3>1, <3>2
  <2> HIDE DEF p, q, b
  <2>7. /\ SameBut(r, r', {"rx", "bt", "toSend", "rxSem", "via", "asked", "lost"})
        /\ r'.rx = q /\ r'.bt = p /\ r'.toSend = r.toSend /\ r'.lost = r.lost
    BY <1>1, <2>1 DEF SameBut, Fields
  <2> QED BY <1>1, <2>4, <2>5, <2>6, <2>7 DEF Moves
<1>6. CASE Ask
  <2>1. PICK q \in Requests, t \in r.has :
          r' = [r EXCEPT !.toSend = <<SOF>> \o q \o <<EOF>>, !.via = t, !.asked = @ + 1]
    BY <1>6 DEF Ask
  <2> DEFINE p == <<SOF>> \o q \o <<EOF>>
  <2>2. p \in Seq(Byte)
    <3>1. q \in Seq(Byte) BY MessagesAreBytes DEF Requests
    <3>2. <<SOF>> \in Seq(Byte) /\ <<EOF>> \in Seq(Byte) BY DEF Byte, Special
    <3>3. <<SOF>> \o q \in Seq(Byte) BY <3>1, <3>2
    <3> QED BY <3>2, <3>3
  <2> HIDE DEF p
  <2>3. r' = [r EXCEPT !.toSend = p, !.via = t, !.asked = @ + 1] BY <2>1 DEF p
  <2>4. /\ SameBut(r, r', {"rx", "bt", "toSend", "rxSem", "via", "asked", "lost"})
        /\ r'.rx = r.rx /\ r'.bt = r.bt /\ r'.toSend = p /\ r'.lost = r.lost
    BY <1>1, <2>3 DEF SameBut, Fields
  <2> QED BY <1>1, <2>2, <2>4 DEF Moves
<1> QED BY <1>2, <1>3, <1>4, <1>5, <1>6

-----------------------------------------------------------------------------
(* The work queue *)

LEMMA FirstJob ==
    ASSUME NEW q \in Seq(Job), q # <<>>
    PROVE  /\ Tail(q) \in Seq(Job) /\ Head(q) \in Job /\ Head(q) \in Range(q)
           /\ Range(Tail(q)) \subseteq Range(q)
           /\ Range(q) \subseteq Range(Tail(q)) \union {Head(q)}
<1> DEFINE p == Tail(q)
           n == Len(q)
<1>1. /\ p \in Seq(Job) /\ Head(q) \in Job /\ Head(q) = q[1] /\ n \in Nat \ {0} /\ Len(p) = n - 1
      /\ \A i \in 1 .. n - 1 : p[i] = q[i + 1]
      /\ DOMAIN q = 1 .. n /\ DOMAIN p = 1 .. n - 1
  OBVIOUS
<1> HIDE DEF p, n
<1>2. Head(q) \in Range(q)
  <2>1. 1 \in 1 .. n BY <1>1
  <2> QED BY <1>1, <2>1 DEF Range
<1>3. Range(p) \subseteq Range(q)
  <2>1. SUFFICES ASSUME NEW i \in 1 .. n - 1 PROVE p[i] \in Range(q) BY <1>1 DEF Range
  <2>2. i + 1 \in 1 .. n BY <1>1
  <2> QED BY <1>1, <2>2 DEF Range
<1>4. Range(q) \subseteq Range(p) \union {Head(q)}
  <2>1. SUFFICES ASSUME NEW i \in 1 .. n PROVE q[i] \in Range(p) \union {Head(q)} BY <1>1 DEF Range
  <2>2. CASE i = 1 BY <1>1, <2>2
  <2>3. CASE i # 1
    <3>1. i - 1 \in 1 .. n - 1 /\ (i - 1) + 1 = i BY <1>1, <2>3
    <3>2. p[i - 1] = q[i] BY <1>1, <3>1
    <3> QED BY <1>1, <3>1, <3>2 DEF Range
  <2> QED BY <2>2, <2>3
<1> QED BY <1>1, <1>2, <1>3, <1>4 DEF p

\* The lock, at a change of the connection or of the lock itself.
LEMMA SetStateKeeps ==
    ASSUME NEW st, Typed(st), Owned(st), SerialOnly(st), Streams(st), st.w["sys"].at = "none",
           NEW b \in BOOLEAN,
           st.unlocked /\ st.unlockedFor # "none" => st.sel = st.unlockedFor, st.left => ~st.conn,
           ~b \/ (st.left /\ "profile" \notin Range(st.queue) => ~st.unlocked)
    PROVE  StudioInv(SetState(st, b))
<1> DEFINE t == SetState(st, b)
<1>1. DOMAIN st = Fields /\ st.w \in [Writers -> Writer] /\ "sys" \in Writers /\ st.w["sys"].at # "body"
  BY DEF Typed, Writers
<1>2. CASE st.unlocked = b
  <2>1. t = st BY <1>2 DEF SetState
  <2>2. Locked(st) BY <1>2 DEF Locked
  <2> QED BY <2>1, <2>2 DEF StudioInv
<1>3. CASE st.unlocked # b
  <2> DEFINE x == Writing(Notice, <<>>)
             u == IF b THEN st.sel ELSE st.unlockedFor
             l == st.left /\ ~b
  <2>1. t = [st EXCEPT !.unlocked = b, !.w["sys"] = x, !.unlockedFor = u, !.left = l]
    BY <1>1, <1>3 DEF SetState, Fields
  <2>2. Idles(x)
    <3>1. <<>> \in Seq(Byte) OBVIOUS
    <3> QED BY <3>1, MessagesAreBytes, WritingIdles
  <2>3. l \in BOOLEAN /\ st.left \in BOOLEAN /\ st.unlocked \in BOOLEAN BY DEF Typed
  <2> HIDE DEF x, t
  <2>4. /\ t.unlocked = b /\ t.unlockedFor = u /\ t.left = l /\ t.w = [st.w EXCEPT !["sys"] = x]
        /\ DOMAIN t = Fields
        /\ \A f \in Fields \ {"unlocked", "unlockedFor", "left", "w"} : t[f] = st[f]
    BY <1>1, <2>1 DEF Fields
  <2>5. Rests(st, t, "sys")
    <3>1. t.w["sys"] = x BY <1>1, <2>4
    <3> QED BY <2>2, <2>4, <3>1 DEF Rests
  <2>6. t.owner = st.owner /\ t.sel = st.sel BY <2>4 DEF Fields
  <2>7. /\ Owned(t) /\ t.w \in [Writers -> Writer]
        /\ \A c \in Writers : /\ t.w[c].at = "body" <=> st.w[c].at = "body"
                              /\ t.w[c].at = "body" => t.w[c] = st.w[c]
    BY <1>1, <2>5, <2>6, RestKeeps
  <2>8. Typed(t)
    <3>1. t.unlocked \in BOOLEAN /\ t.left \in BOOLEAN BY <2>3, <2>4
    <3>2. \A f \in Fields \ {"unlocked", "unlockedFor", "left", "w"} : t[f] = st[f] BY <2>4
    <3>3. DOMAIN t = Fields BY <2>4
    <3>4. /\ t.has = st.has /\ t.rx = st.rx /\ t.tx = st.tx /\ t.bt = st.bt /\ t.toSend = st.toSend
          /\ t.frame = st.frame /\ t.sel = st.sel /\ t.ep = st.ep /\ t.owner = st.owner
          /\ t.conn = st.conn /\ t.free = st.free /\ t.lost = st.lost
          /\ t.queue = st.queue /\ t.client = st.client
      BY <3>2 DEF Fields
    <3> HIDE DEF l, u
    <3> QED BY <2>7, <3>1, <3>3, <3>4 DEF Typed
  <2>9. SerialSame(st, t) BY <2>4 DEF SerialSame, Fields
  <2>10. StreamSame(st, t) BY <2>4, <2>7 DEF StreamSame, Fields
  <2>11. Locked(t)
    <3>1. t.queue = st.queue /\ t.conn = st.conn BY <2>4 DEF Fields
    <3> QED BY <1>3, <2>3, <2>4, <2>6, <3>1 DEF Locked
  <2> QED BY <2>7, <2>8, <2>9, <2>10, <2>11, SerialKept, StreamKept DEF StudioInv, t
<1> QED BY <1>2, <1>3

LEMMA NextJobKeeps ==
    ASSUME StudioInv(r), NextJob
    PROVE  StudioInv(r')
<1>0. Typed(r) /\ Owned(r) /\ Locked(r) /\ SerialOnly(r) /\ Streams(r) BY DEF StudioInv
<1> DEFINE job == Head(r.queue)
           q == Tail(r.queue)
           st == [r EXCEPT !.queue = q]
<1>1. /\ DOMAIN r = Fields /\ r.queue \in Seq(Job) /\ r.queue # <<>> /\ r.w["sys"].at = "none"
      /\ r.w \in [Writers -> Writer]
  BY <1>0 DEF Typed, NextJob
<1>2. r' = RunJob(st, job) BY DEF NextJob
<1>3. /\ q \in Seq(Job) /\ job \in Job /\ job \in Range(r.queue) /\ Range(q) \subseteq Range(r.queue)
      /\ Range(r.queue) \subseteq Range(q) \union {job}
  BY <1>1, FirstJob
<1>4. job = "endpoint" => r.owner \in {"none", "sys"} BY DEF NextJob, CanLock
<1> HIDE DEF q, job
<1>5. st.queue = q /\ DOMAIN st = Fields /\ \A f \in Fields \ {"queue"} : st[f] = r[f]
  BY <1>1 DEF Fields
<1> HIDE DEF st
<1>6. Typed(st)
  <2>1. /\ st.has = r.has /\ st.rx = r.rx /\ st.tx = r.tx /\ st.bt = r.bt /\ st.toSend = r.toSend
        /\ st.frame = r.frame /\ st.sel = r.sel /\ st.ep = r.ep /\ st.owner = r.owner /\ st.unlocked = r.unlocked
        /\ st.conn = r.conn /\ st.free = r.free /\ st.left = r.left /\ st.lost = r.lost /\ st.w = r.w
        /\ st.client = r.client
    BY <1>5 DEF Fields
  <2> QED BY <1>0, <1>3, <1>5, <2>1 DEF Typed
<1>7. Owned(st) BY <1>0, <1>5 DEF Owned, Fields
<1>8. SerialOnly(st) BY <1>0, <1>3, <1>5 DEF SerialOnly, Fields
<1>9. StreamSame(r, st) BY <1>5 DEF StreamSame, Fields
<1>10. Streams(st) BY <1>0, <1>9, StreamKept
<1>11. /\ st.unlocked = r.unlocked /\ st.unlockedFor = r.unlockedFor /\ st.sel = r.sel /\ st.left = r.left
       /\ st.conn = r.conn /\ st.w = r.w /\ st.owner = r.owner /\ st.free = r.free /\ st.has = r.has /\ st.tx = r.tx
  BY <1>5 DEF Fields
<1>12. /\ st.unlocked /\ st.unlockedFor # "none" => st.sel = st.unlockedFor
       /\ st.left => ~st.conn
  BY <1>0, <1>11 DEF Locked
<1>13. job # "profile" => Locked(st) BY <1>0, <1>3, <1>5, <1>11 DEF Locked
<1>14. CASE job = "notify"
  <2> DEFINE t == NotifyWork(st)
  <2>1. r' = t BY <1>2, <1>14 DEF RunJob
  <2>2. Locked(st) BY <1>13, <1>14
  <2>3. r.has # {"usb"} BY <1>0, <1>3, <1>14 DEF SerialOnly
  <2>4. /\ DOMAIN t = Fields /\ \A f \in Fields \ {"tx", "free", "air"} : t[f] = st[f]
        /\ t.tx \in Seq(Byte) /\ Len(t.tx) <= TxSize /\ t.free \in BOOLEAN
    <3>0. st.tx \in Seq(Byte) /\ Len(st.tx) <= TxSize /\ st.free \in BOOLEAN /\ TxSize \in Nat /\ Len(st.tx) \in Nat
      BY <1>6, StudioRpcAssumption DEF Typed
    <3>1. CASE ~st.conn
      <4>1. t = [st EXCEPT !.tx = <<>>] BY <3>1 DEF NotifyWork
      <4>2. <<>> \in Seq(Byte) /\ Len(<<>>) <= TxSize BY <3>0
      <4> QED BY <1>5, <3>0, <4>1, <4>2 DEF Fields
    <3>2. CASE st.conn /\ (st.tx = <<>> \/ ~st.free)
      <4>1. t = st BY <3>2 DEF NotifyWork
      <4> QED BY <1>5, <3>0, <4>1
    <3>3. CASE st.conn /\ ~(st.tx = <<>> \/ ~st.free)
      <4> DEFINE n == Min({NotifySize, Len(st.tx)})
                 p == SubSeq(st.tx, n + 1, Len(st.tx))
                 a == SubSeq(st.tx, 1, n)
      <4>1. t = [st EXCEPT !.free = FALSE, !.air = a, !.tx = p] BY <1>5, <3>3 DEF NotifyWork, Fields
      <4>2. n \in 0 .. Len(st.tx)
        <5>1. NotifySize \in Nat BY StudioRpcAssumption
        <5>2. n \in Nat /\ n <= Len(st.tx) BY <3>0, <5>1, LesserOfTwo
        <5> HIDE DEF n
        <5> QED BY <3>0, <5>2
      <4> HIDE DEF n
      <4>3. p \in Seq(Byte) /\ Len(p) <= Len(st.tx) BY <3>0, <4>2
      <4>4. Len(p) <= TxSize
        <5>1. Len(p) \in Nat BY <4>3
        <5> HIDE DEF p
        <5> QED BY <3>0, <4>3, <5>1
      <4> HIDE DEF p, a
      <4> QED BY <1>5, <4>1, <4>3, <4>4 DEF Fields
    <3> QED BY <3>1, <3>2, <3>3
  <2> HIDE DEF t
  <2>5. Typed(t)
    <3>1. /\ t.has = st.has /\ t.rx = st.rx /\ t.bt = st.bt /\ t.toSend = st.toSend /\ t.frame = st.frame
          /\ t.sel = st.sel /\ t.ep = st.ep /\ t.owner = st.owner /\ t.unlocked = st.unlocked
          /\ t.conn = st.conn /\ t.left = st.left /\ t.lost = st.lost /\ t.w = st.w
          /\ t.queue = st.queue /\ t.client = st.client
      BY <2>4 DEF Fields
    <3> QED BY <1>6, <2>4, <3>1 DEF Typed
  <2>6. Owned(t) BY <1>7, <2>4 DEF Owned, Fields
  <2>7. LockSame(st, t) BY <2>4 DEF LockSame, Fields
  <2>8. t.has = r.has BY <1>5, <2>4 DEF Fields
  <2>9. SerialOnly(t) /\ Streams(t) BY <2>3, <2>8 DEF SerialOnly, Streams
  <2> QED BY <2>1, <2>2, <2>5, <2>6, <2>7, <2>9, LockedKept DEF StudioInv
<1>15. CASE job = "endpoint"
  <2> DEFINE t == Refresh(st)
             l == st.unlocked /\ st.sel = "none"
             e == IF st.ep \in st.has THEN st.ep ELSE "none"
  <2>1. r' = t BY <1>2, <1>15 DEF RunJob
  <2>2. Locked(st) BY <1>13, <1>15
  <2>3. CASE st.sel = st.ep
    <3>1. t = st BY <2>3 DEF Refresh
    <3> QED BY <1>6, <1>7, <1>8, <1>10, <2>1, <2>2, <3>1 DEF StudioInv
  <2>4. CASE st.sel # st.ep
    <3>1. t = [st EXCEPT !.unlocked = l, !.sel = e] BY <1>5, <2>4 DEF Refresh, Fields
    <3>2. l \in BOOLEAN /\ e \in st.has \union {"none"} OBVIOUS
    <3>3. l => st.unlocked /\ st.sel = "none" OBVIOUS
    <3> HIDE DEF l, e, t
    <3>4. /\ t.unlocked = l /\ t.sel = e /\ DOMAIN t = Fields
          /\ \A f \in Fields \ {"unlocked", "sel"} : t[f] = st[f]
      BY <1>5, <3>1 DEF Fields
    <3>5. Typed(t)
      <4>1. /\ t.has = st.has /\ t.rx = st.rx /\ t.tx = st.tx /\ t.bt = st.bt /\ t.toSend = st.toSend
            /\ t.frame = st.frame /\ t.ep = st.ep /\ t.owner = st.owner /\ t.conn = st.conn /\ t.free = st.free
            /\ t.left = st.left /\ t.lost = st.lost /\ t.w = st.w /\ t.queue = st.queue /\ t.client = st.client
        BY <3>4 DEF Fields
      <4> QED BY <1>6, <3>2, <3>4, <4>1 DEF Typed
    <3>6. \A a \in Writers : st.w[a].at # "body" BY <1>1, <1>4, <1>7, <1>11, <1>15 DEF Owned, Writers
    <3>7. t.w = st.w /\ t.left = st.left /\ t.conn = st.conn /\ t.queue = st.queue /\ t.unlockedFor = st.unlockedFor
      BY <3>4 DEF Fields
    <3>8. Owned(t) BY <1>7, <3>6, <3>7 DEF Owned
    <3>9. Locked(t) BY <2>2, <3>3, <3>4, <3>7 DEF Locked
    <3>10. SerialSame(st, t) BY <3>4 DEF SerialSame, Fields
    <3>11. StreamSame(st, t) BY <3>4 DEF StreamSame, Fields
    <3> QED BY <1>8, <1>10, <2>1, <3>5, <3>8, <3>9, <3>10, <3>11, SerialKept, StreamKept DEF StudioInv
  <2> QED BY <2>3, <2>4
<1>16. CASE job = "profile"
  <2>1. r' = ProfileChanged(st) BY <1>2, <1>16 DEF RunJob
  <2>2. CASE st.conn
    <3>1. r' = st BY <2>1, <2>2 DEF ProfileChanged
    <3>2. Locked(st) BY <1>12, <2>2 DEF Locked
    <3> QED BY <1>6, <1>7, <1>8, <1>10, <3>1, <3>2 DEF StudioInv
  <2>3. CASE ~st.conn
    <3>1. r' = SetState(st, FALSE) BY <2>1, <2>3 DEF ProfileChanged
    <3> QED BY <1>1, <1>6, <1>7, <1>8, <1>10, <1>11, <1>12, <3>1, SetStateKeeps
  <2> QED BY <2>2, <2>3
<1>17. CASE job \in {"unlock", "timeout"}
  <2>1. \E b \in BOOLEAN : r' = SetState(st, b) BY <1>2, <1>17 DEF RunJob
  <2>2. st.left /\ "profile" \notin Range(st.queue) => ~st.unlocked BY <1>13, <1>17 DEF Locked
  <2> QED BY <1>1, <1>6, <1>7, <1>8, <1>10, <1>11, <1>12, <2>1, <2>2, SetStateKeeps
<1> QED BY <1>3, <1>14, <1>15, <1>16, <1>17 DEF Job
-----------------------------------------------------------------------------
(* Connections, the endpoint and what is confirmed *)

\* What the connection and its events change.
LinkFields == {"queue", "conn", "left", "free", "air", "client", "toSend", "ep", "read"}
LinkMoves(st, t) ==
    /\ DOMAIN t = Fields /\ \A f \in Fields \ LinkFields : t[f] = st[f]
    /\ t.queue \in Seq(Job) /\ t.conn \in BOOLEAN /\ t.left \in BOOLEAN /\ t.free \in BOOLEAN
    /\ DOMAIN t.client = {"usb", "ble"} /\ t.toSend \in Seq(Byte) /\ t.ep \in {"usb", "ble"}
    /\ Range(st.queue) \subseteq Range(t.queue)
    /\ t.left => ~t.conn /\ (st.left \/ "profile" \in Range(t.queue))
    /\ st.has = {"usb"} =>
         /\ ~t.conn /\ t.free /\ "notify" \notin Range(t.queue)
         /\ t.client = st.client /\ t.read = st.read

LEMMA LinkKeeps ==
    ASSUME NEW st, NEW t, StudioInv(st), LinkMoves(st, t)
    PROVE  StudioInv(t)
<1>0. Typed(st) /\ Owned(st) /\ Locked(st) /\ SerialOnly(st) /\ Streams(st) BY DEF StudioInv
<1>1. DOMAIN t = Fields /\ \A f \in Fields \ LinkFields : t[f] = st[f] BY DEF LinkMoves
<1>2. Typed(t)
  <2>1. /\ t.has = st.has /\ t.rx = st.rx /\ t.tx = st.tx /\ t.bt = st.bt /\ t.frame = st.frame
        /\ t.sel = st.sel /\ t.owner = st.owner /\ t.unlocked = st.unlocked /\ t.lost = st.lost
        /\ t.w = st.w
    BY <1>1 DEF Fields, LinkFields
  <2> QED BY <1>0, <1>1, <2>1 DEF Typed, LinkMoves
<1>3. /\ t.w = st.w /\ t.owner = st.owner /\ t.sel = st.sel /\ t.unlocked = st.unlocked
      /\ t.unlockedFor = st.unlockedFor /\ t.has = st.has /\ t.sent = st.sent /\ t.tx = st.tx /\ t.lost = st.lost
  BY <1>1 DEF Fields, LinkFields
<1>4. Owned(t) BY <1>0, <1>3 DEF Owned
<1>5. Locked(t) BY <1>0, <1>3 DEF Locked, LinkMoves
<1>6. SerialOnly(t) BY <1>3 DEF SerialOnly, LinkMoves
<1>7. Streams(t)
  <2>1. CASE st.has = {"usb"}
    <3>1. StreamSame(st, t) BY <1>3, <2>1 DEF StreamSame, LinkMoves
    <3> QED BY <1>0, <3>1, StreamKept
  <2>2. CASE st.has # {"usb"} BY <1>3, <2>2 DEF Streams
  <2> QED BY <2>1, <2>2
<1> QED BY <1>2, <1>4, <1>5, <1>6, <1>7 DEF StudioInv

LEMMA LinkStepsMove ==
    ASSUME StudioInv(r), Confirm \/ Connect \/ Disconnect \/ EndpointChanges
    PROVE  LinkMoves(r, r')
<1>0. Typed(r) /\ Locked(r) /\ SerialOnly(r) BY DEF StudioInv
<1>1. /\ DOMAIN r = Fields /\ r.queue \in Seq(Job) /\ r.toSend \in Seq(Byte) /\ r.ep \in {"usb", "ble"}
      /\ DOMAIN r.client = {"usb", "ble"} /\ {r.conn, r.free, r.left} \subseteq BOOLEAN
      /\ r.left => ~r.conn
      /\ <<>> \in Seq(Byte)
  BY <1>0 DEF Typed, Locked
<1>2. r.has = {"usb"} => ~r.conn /\ r.free /\ "notify" \notin Range(r.queue) BY <1>0 DEF SerialOnly
<1>3. CASE Confirm
  <2> DEFINE x == FoldLeft(TakeByte, [cl |-> r.client["ble"], read |-> {}], r.air)
             c == x.cl
             m == r.read \union ({"ble"} \X x.read)
             st == [r EXCEPT !.client["ble"] = c, !.read = m, !.free = TRUE, !.air = <<>>]
             t == Submit(st, "notify")
  <2>1. r' = t BY <1>3 DEF Confirm
  <2> HIDE DEF c, m, x
  <2>2. /\ st.queue = r.queue /\ st.conn = r.conn /\ st.left = r.left /\ st.free = TRUE /\ st.toSend = r.toSend
        /\ st.ep = r.ep /\ st.client = [r.client EXCEPT !["ble"] = c] /\ DOMAIN st = Fields
        /\ \A f \in Fields \ LinkFields : st[f] = r[f]
    BY <1>1 DEF Fields, LinkFields
  <2>3. DOMAIN st.client = {"usb", "ble"} BY <1>1, <2>2
  <2> HIDE DEF st
  <2>4. SameBut(st, t, {"queue"}) /\ Queued(st, t, {"notify"}) BY <1>1, <2>2, SubmitEffect DEF Job
  <2> HIDE DEF t
  <2>5. /\ t.conn = r.conn /\ t.left = r.left /\ t.free = TRUE /\ t.toSend = r.toSend /\ t.ep = r.ep
        /\ t.client = st.client /\ DOMAIN t = Fields /\ \A f \in Fields \ LinkFields : t[f] = r[f]
    BY <2>2, <2>4 DEF SameBut, Fields, LinkFields
  <2>6. r.has # {"usb"} BY <1>2, <1>3 DEF Confirm
  <2> QED BY <1>1, <2>1, <2>2, <2>3, <2>4, <2>5, <2>6 DEF LinkMoves, Queued
<1>4. CASE Connect
  <2> DEFINE z == IF r.via = "ble" THEN <<>> ELSE r.toSend
             st == [Cut(r) EXCEPT !.conn = TRUE, !.left = FALSE]
             t == Submit(st, "profile")
  <2>1. r' = t /\ "ble" \in r.has BY <1>4 DEF Connect, Linked
  <2>2. Cut(r) = [r EXCEPT !.client["ble"] = Fresh, !.toSend = z] BY <1>1 DEF Cut, Fields
  <2>3. z \in Seq(Byte) BY <1>1
  <2> HIDE DEF z
  <2>4. /\ st.queue = r.queue /\ st.conn = TRUE /\ st.left = FALSE /\ st.free = r.free /\ st.toSend = z
        /\ st.ep = r.ep /\ st.client = [r.client EXCEPT !["ble"] = Fresh] /\ DOMAIN st = Fields
        /\ \A f \in Fields \ LinkFields : st[f] = r[f]
    BY <1>1, <2>2 DEF Fields, LinkFields
  <2>5. DOMAIN st.client = {"usb", "ble"} BY <1>1, <2>4
  <2> HIDE DEF st
  <2>6. SameBut(st, t, {"queue"}) /\ Queued(st, t, {"profile"}) BY <1>1, <2>4, SubmitEffect DEF Job
  <2> HIDE DEF t
  <2>7. /\ t.conn = TRUE /\ t.left = FALSE /\ t.free = r.free /\ t.toSend = z /\ t.ep = r.ep
        /\ t.client = st.client /\ DOMAIN t = Fields /\ \A f \in Fields \ LinkFields : t[f] = r[f]
    BY <2>4, <2>6 DEF SameBut, Fields, LinkFields
  <2>8. r.has # {"usb"} BY <2>1
  <2> QED BY <1>1, <2>1, <2>3, <2>4, <2>5, <2>6, <2>7, <2>8 DEF LinkMoves, Queued
<1>5. CASE Disconnect
  <2> DEFINE z == IF r.via = "ble" THEN <<>> ELSE r.toSend
             st == [Cut(r) EXCEPT !.conn = FALSE, !.left = TRUE, !.free = TRUE, !.air = <<>>]
             u == IF r.free THEN st ELSE Submit(st, "notify")
             t == Submit(u, "profile")
  <2>1. r' = t /\ r.conn BY <1>5 DEF Disconnect, Linked
  <2>2. Cut(r) = [r EXCEPT !.client["ble"] = Fresh, !.toSend = z] BY <1>1 DEF Cut, Fields
  <2>3. z \in Seq(Byte) BY <1>1
  <2> HIDE DEF z
  <2>4. /\ st.queue = r.queue /\ st.conn = FALSE /\ st.left = TRUE /\ st.free = TRUE /\ st.toSend = z
        /\ st.ep = r.ep /\ st.client = [r.client EXCEPT !["ble"] = Fresh] /\ DOMAIN st = Fields
        /\ \A f \in Fields \ LinkFields : st[f] = r[f]
    BY <1>1, <2>2 DEF Fields, LinkFields
  <2>5. DOMAIN st.client = {"usb", "ble"} BY <1>1, <2>4
  <2> HIDE DEF st
  <2>6. SameBut(st, u, {"queue"}) /\ Queued(st, u, {"notify"})
    <3>1. CASE r.free
      <4>1. u = st BY <3>1
      <4> QED BY <1>1, <2>4, <4>1 DEF SameBut, Queued
    <3>2. CASE ~r.free BY <1>1, <2>4, <3>2, SubmitEffect DEF Job
    <3> QED BY <3>1, <3>2
  <2> HIDE DEF u
  <2>7. DOMAIN u = Fields /\ u.queue \in Seq(Job) BY <2>4, <2>6 DEF SameBut, Queued
  <2>8. SameBut(u, t, {"queue"}) /\ Queued(u, t, {"profile"}) /\ "profile" \in Range(t.queue)
    BY <2>7, SubmitEffect DEF Job
  <2> HIDE DEF t
  <2>9. /\ t.conn = FALSE /\ t.left = TRUE /\ t.free = TRUE /\ t.toSend = z /\ t.ep = r.ep
        /\ t.client = st.client /\ DOMAIN t = Fields /\ \A f \in Fields \ LinkFields : t[f] = r[f]
    BY <2>4, <2>6, <2>8 DEF SameBut, Fields, LinkFields
  <2>10. r.has # {"usb"} BY <1>2, <2>1
  <2> QED BY <1>1, <2>1, <2>3, <2>4, <2>5, <2>6, <2>8, <2>9, <2>10 DEF LinkMoves, Queued
<1>6. CASE EndpointChanges
  <2> DEFINE e == IF r.ep = "usb" THEN "ble" ELSE "usb"
             st == [r EXCEPT !.ep = e]
             t == Submit(st, "endpoint")
  <2>1. r' = t BY <1>1, <1>6 DEF EndpointChanges, Linked, Fields
  <2>2. e \in {"usb", "ble"} OBVIOUS
  <2> HIDE DEF e
  <2>3. st.ep = e /\ DOMAIN st = Fields /\ \A f \in Fields \ {"ep"} : st[f] = r[f] BY <1>1 DEF Fields
  <2> HIDE DEF st
  <2>4. SameBut(st, t, {"queue"}) /\ Queued(st, t, {"endpoint"})
    <3>1. st.queue \in Seq(Job) BY <1>1, <2>3 DEF Fields
    <3> QED BY <2>3, <3>1, SubmitEffect DEF Job
  <2> HIDE DEF t
  <2>5. t.ep = e /\ DOMAIN t = Fields /\ \A f \in Fields \ {"ep", "queue"} : t[f] = r[f]
    BY <2>3, <2>4 DEF SameBut, Fields
  <2>6. st.queue = r.queue BY <2>3 DEF Fields
  <2>7. /\ t.conn = r.conn /\ t.left = r.left /\ t.free = r.free /\ t.toSend = r.toSend /\ t.read = r.read
        /\ t.client = r.client /\ \A f \in Fields \ LinkFields : t[f] = r[f]
    BY <2>5 DEF Fields, LinkFields
  <2>8. /\ t.queue \in Seq(Job) /\ Range(r.queue) \subseteq Range(t.queue)
        /\ Range(t.queue) \subseteq Range(r.queue) \union {"endpoint"}
    BY <2>4, <2>6 DEF Queued
  <2> QED BY <1>1, <1>2, <2>1, <2>2, <2>5, <2>7, <2>8 DEF LinkMoves
<1> QED BY <1>3, <1>4, <1>5, <1>6

LEMMA LockChangesKeeps ==
    ASSUME StudioInv(r), LockChanges
    PROVE  StudioInv(r')
<1>0. Typed(r) /\ Owned(r) /\ Locked(r) /\ SerialOnly(r) /\ Streams(r) BY DEF StudioInv
<1>1. PICK job \in {"unlock", "timeout"} : r' = Submit(r, job) BY DEF LockChanges
<1>2. DOMAIN r = Fields /\ r.queue \in Seq(Job) BY <1>0 DEF Typed
<1>3. SameBut(r, r', {"queue"}) /\ Queued(r, r', {job}) BY <1>1, <1>2, SubmitEffect DEF Job
<1>4. DOMAIN r' = Fields /\ \A f \in Fields \ {"queue"} : r'[f] = r[f] BY <1>2, <1>3 DEF SameBut
<1>5. /\ r'.queue \in Seq(Job) /\ Range(r.queue) \subseteq Range(r'.queue)
      /\ Range(r'.queue) \subseteq Range(r.queue) \union {job}
  BY <1>3 DEF Queued
<1>6. Typed(r')
  <2>1. /\ r'.has = r.has /\ r'.rx = r.rx /\ r'.tx = r.tx /\ r'.bt = r.bt /\ r'.toSend = r.toSend
        /\ r'.frame = r.frame /\ r'.sel = r.sel /\ r'.ep = r.ep /\ r'.owner = r.owner /\ r'.unlocked = r.unlocked
        /\ r'.conn = r.conn /\ r'.free = r.free /\ r'.left = r.left /\ r'.lost = r.lost /\ r'.w = r.w
        /\ r'.client = r.client
    BY <1>4 DEF Fields
  <2> QED BY <1>0, <1>4, <1>5, <2>1 DEF Typed
<1>7. Owned(r') BY <1>0, <1>4 DEF Owned, Fields
<1>8. LockSame(r, r') /\ SerialSame(r, r') BY <1>4, <1>5 DEF LockSame, SerialSame, Fields, Job
<1>9. StreamSame(r, r') BY <1>4 DEF StreamSame, Fields
<1> QED BY <1>0, <1>6, <1>7, <1>8, <1>9, LockedKept, SerialKept, StreamKept DEF StudioInv
-----------------------------------------------------------------------------
(* The theorem *)

LEMMA StudioStarts == StudioInit => StudioInv(r)
<1> SUFFICES ASSUME StudioInit PROVE StudioInv(r) OBVIOUS
<1>1. PICK has \in StudioBuilds, ep \in {"usb", "ble"} :
        r = [has |-> has, rx |-> <<>>, tx |-> <<>>, frame |-> "idle", got |-> <<>>,
             rxSem |-> FALSE, txIrq |-> FALSE, bt |-> <<>>,
             free |-> TRUE, air |-> <<>>, pending |-> 0,
             owner |-> "none", w |-> [a \in {"rpc", "sys"} |-> NoWriter], queue |-> <<>>,
             ep |-> ep, sel |-> IF ep \in has THEN ep ELSE "none",
             conn |-> FALSE, unlocked |-> FALSE,
             client |-> [t \in {"usb", "ble"} |-> Fresh], toSend |-> <<>>, via |-> "usb",
             sent |-> {}, read |-> {}, asked |-> 0, served |-> 0, lost |-> FALSE,
             unlockedFor |-> ep, left |-> TRUE]
  BY DEF StudioInit
<1>2. /\ r.has = has /\ r.rx = <<>> /\ r.tx = <<>> /\ r.frame = "idle" /\ r.bt = <<>> /\ r.free = TRUE
      /\ r.owner = "none" /\ r.w = [a \in Writers |-> NoWriter] /\ r.queue = <<>> /\ r.ep = ep
      /\ r.sel = (IF ep \in has THEN ep ELSE "none") /\ r.conn = FALSE /\ r.unlocked = FALSE
      /\ r.client = [t \in {"usb", "ble"} |-> Fresh] /\ r.toSend = <<>> /\ r.sent = {} /\ r.read = {}
      /\ r.lost = FALSE /\ r.left = TRUE
  BY <1>1 DEF Writers
<1>3. DOMAIN r = Fields BY <1>1 DEF Fields
<1> HIDE <1>1
<1>4. /\ <<>> \in Seq(Byte) /\ <<>> \in Seq(Job) /\ Len(<<>>) = 0 /\ Range(<<>>) = {}
      /\ RxSize \in Nat /\ TxSize \in Nat /\ has \subseteq {"usb", "ble"}
  BY StudioRpcAssumption DEF Range
<1>5. Idles(NoWriter) BY WritingIdles
<1>6. Typed(r)
  <2>1. r.w \in [Writers -> Writer] /\ DOMAIN r.client = {"usb", "ble"} BY <1>2, <1>5 DEF Idles
  <2>2. /\ r.has \subseteq {"usb", "ble"} /\ r.sel \in r.has \union {"none"} /\ r.ep \in {"usb", "ble"}
        /\ r.frame \in Frame
    BY <1>2, <1>4 DEF Frame
  <2>3. Len(r.rx) <= RxSize /\ Len(r.tx) <= TxSize BY <1>2, <1>4
  <2> QED BY <1>2, <1>3, <1>4, <2>1, <2>2, <2>3 DEF Typed
<1>7. Owned(r) BY <1>2, <1>5 DEF Owned, Idles
<1>8. Locked(r) /\ SerialOnly(r) BY <1>2, <1>4 DEF Locked, SerialOnly
<1>9. Streams(r)
  <2>1. Fresh \in Client BY <1>4 DEF Fresh, Client, Frame
  <2>2. r.client["usb"] = Fresh BY <1>2
  <2>3. Leads(r.tx, r.client["usb"], Fresh, r.sent) BY <1>2, <2>1, <2>2, LeadsNowhere
  <2>4. EndsAs(r, Fresh) BY <1>2, <1>5 DEF EndsAs, Idles
  <2> QED BY <1>2, <2>1, <2>3, <2>4 DEF Streams
<1> QED BY <1>6, <1>7, <1>8, <1>9 DEF StudioInv

LEMMA StudioSteps == StudioInv(r) /\ [StudioNext]_studio_vars => StudioInv(r')
<1> SUFFICES ASSUME StudioInv(r), [StudioNext]_studio_vars PROVE StudioInv(r') OBVIOUS
<1>1. ASSUME NEW a \in Writers, LockTransport(a) \/ WriteBody(a) \/ WriteEnd(a) PROVE StudioInv(r')
  BY <1>1, LockTransportKeeps, WriteBodyKeeps, WriteEndKeeps
<1>2. CASE ReadByte BY <1>2, ReadByteKeeps
<1>3. CASE WakeReader \/ SerialReceives \/ HostWrites \/ Copy \/ Ask BY <1>3, InputMoves, MovesKeeps
<1>4. CASE NextJob BY <1>4, NextJobKeeps
<1>5. CASE SerialSends BY <1>5, SerialSendsKeeps
<1>6. CASE Confirm \/ Connect \/ Disconnect \/ EndpointChanges BY <1>6, LinkStepsMove, LinkKeeps
<1>7. CASE LockChanges BY <1>7, LockChangesKeeps
<1>8. CASE UNCHANGED studio_vars BY <1>8 DEF studio_vars
<1> QED BY <1>1, <1>2, <1>3, <1>4, <1>5, <1>6, <1>7, <1>8 DEF StudioNext, Writers

LEMMA StudioInvImplies == StudioInv(r) => TransportsAgree
<1> SUFFICES ASSUME StudioInv(r) PROVE TransportsAgree OBVIOUS
<1>0. Typed(r) /\ Owned(r) /\ Locked(r) /\ Streams(r) BY DEF StudioInv
<1>1. StudioTypeOK BY <1>0 DEF StudioTypeOK, Typed, Owned, Frame, Writers
<1>2. OnlyMessagesAreRead BY <1>0 DEF OnlyMessagesAreRead, Streams
<1>3. UnlockedForTransport /\ LockedAfterDisconnect
  BY <1>0 DEF UnlockedForTransport, LockedAfterDisconnect, Locked
<1> QED BY <1>1, <1>2, <1>3 DEF TransportsAgree

(* Whatever the size of the buffers, of an indication and of a write: the
   buffers never hold more than their size and who writes holds the mutex; over
   the serial port alone the client reads no message that was not sent whole, as
   long as no byte was lost; and Studio is unlocked for no other transport than
   the one it was unlocked for, nor after a disconnection (rpc.c, core.c,
   gatt_rpc_transport.c, uart_rpc_transport.c). *)
THEOREM TransportsAlwaysAgree == StudioSpec => []TransportsAgree
<1> DEFINE I == StudioInv(r)
<1>1. StudioInit => I BY StudioStarts
<1>2. I /\ [StudioNext]_studio_vars => I' BY StudioSteps
<1>3. I => TransportsAgree BY StudioInvImplies
<1> HIDE DEF I
<1> QED BY <1>1, <1>2, <1>3, PTL DEF StudioSpec

(***************************************************************************)
(* Kscan.  A step is taken apart into the drivers it moves: what each has  *)
(* read is reported one switch after the other (ReportTells), and a layout *)
(* is switched one driver after the other (InTurnMoves).  Between two      *)
(* steps every switch is told of: the positions or the queue's last event  *)
(* about it say what its driver holds it for (Coherent).                   *)
(***************************************************************************)

KeyState == [pressed : BOOLEAN, counter : Nat, changed : BOOLEAN, age : Nat]
Calls == {"none", "layout", "composite", "side"}
Modes == {"off", "irq", "scheduled"}
Scanner ==
    [active : Layouts, next : Layouts \union {-1}, queue : Seq(Switches \X BOOLEAN),
     positions : SUBSET Nat, side : SUBSET SideKeys, key : [Switches -> KeyState],
     mode : [Drivers -> Modes], on : [Debounced -> BOOLEAN], timer : [Demux -> BOOLEAN],
     cb : [Names -> Calls], sideOn : BOOLEAN, irq : BOOLEAN, irqPin : BOOLEAN, pm : BOOLEAN,
     press : Nat, release : Nat, crashed : BOOLEAN, dropped : BOOLEAN, moved : BOOLEAN,
     failed : BOOLEAN]

\* A driver is given the callback of what wraps it.
Called(st) ==
    \A d \in Drivers :
        /\ st.cb[d] = "composite" => d \in Range(Children[Composite]) /\ st.cb[Composite] # "none"
        /\ st.cb[d] = "side" => d = Inner

\* FaultFree, of a state st.
Clean(st) == ~st.dropped /\ ~st.failed /\ ~st.moved /\ ~st.crashed

\* The keymap knows, or the queue says last, what the switch k does.
Told(st, k) ==
    \/ /\ \A n \in DOMAIN st.queue : st.queue[n][1] # k
       /\ Transform[st.active][k] # -1 => (Transform[st.active][k] \in st.positions <=> st.key[k].pressed)
    \/ \E n \in DOMAIN st.queue :
         /\ st.queue[n] = <<k, st.key[k].pressed>>
         /\ \A m \in DOMAIN st.queue : m > n => st.queue[m][1] # k
QueueUnder(st) == \A n \in DOMAIN st.queue : Under(st.active, st.queue[n][1])
PlacesUnder(st) ==
    \A p \in st.positions : \E k \in Switches : Under(st.active, k) /\ p = Transform[st.active][k]
ToldBut(st, T) ==
    \A k \in Switches \ T : IF Under(st.active, k) THEN Told(st, k) ELSE ~st.key[k].pressed
RestBut(st, T) ==
    st.next # -1 => /\ st.queue = <<>> /\ st.positions = {}
                    /\ \A k \in Switches \ T : ~st.key[k].pressed
\* All but the switches T have been told of.
Coherent(st, T) == Clean(st) => QueueUnder(st) /\ PlacesUnder(st) /\ ToldBut(st, T) /\ RestBut(st, T)

\* What switching a driver on leaves alone, and what reporting does.
Same(st, st2) ==
    /\ st2.active = st.active /\ st2.next = st.next /\ st2.cb = st.cb
    /\ st2.sideOn = st.sideOn /\ st2.irq = st.irq /\ st2.irqPin = st.irqPin /\ st2.pm = st.pm
    /\ st2.press = st.press /\ st2.release = st.release /\ st2.failed = st.failed
Kept(st, st2) == Same(st, st2) /\ st2.on = st.on /\ st2.timer = st.timer
Fits(st) == st \in Scanner /\ Called(st) /\ Len(st.queue) <= QueueSize

-----------------------------------------------------------------------------
LEMMA Wiring ==
    /\ \A d \in Drivers : Wired[d] \in Seq(Switches) /\ SwitchesOf[d] = Range(Wired[d]) /\ SwitchesOf[d] \subseteq Switches
    /\ \A d \in Drivers : \A i \in 1..Len(Wired[d]) : Wired[d][i] \in SwitchesOf[d]
    /\ \A d \in Drivers : \A k \in SwitchesOf[d] : \E i \in 1..Len(Wired[d]) : Wired[d][i] = k
    /\ \A d \in Drivers : DriversUnder(d) = <<d>> /\ Range(<<d>>) = {d}
    /\ DriversUnder(Input) = <<>> /\ Range(<<>>) = {}
    /\ DriversUnder(Composite) = Children[Composite] /\ DriversUnder(Sideband) = Children[Sideband]
    /\ Children[Composite] \in Seq(Drivers) /\ Range(Children[Composite]) \subseteq Drivers
    /\ Inner \in Drivers /\ Range(Children[Sideband]) = {Inner}
<1>1. Wired \in [Drivers -> Seq(Switches)]
  BY KscanAssumption
<1>2. \A d \in Drivers : Wired[d] \in Seq(Switches) /\ SwitchesOf[d] = Range(Wired[d])
  BY <1>1 DEF SwitchesOf
<1>3. \A d \in Drivers : \A i \in 1..Len(Wired[d]) : Wired[d][i] \in SwitchesOf[d] /\ Wired[d][i] \in Switches
  BY <1>2 DEF Range
<1>4. \A d \in Drivers : \A k \in SwitchesOf[d] : \E i \in 1..Len(Wired[d]) : Wired[d][i] = k
  BY <1>2 DEF Range
<1>5. \A d \in Drivers : SwitchesOf[d] \subseteq Switches
  BY <1>3, <1>4
<1>6. Drivers \intersect {Input, Composite, Sideband} = {}
  BY KscanAssumption
<1>7. \A d \in Drivers : DriversUnder(d) = <<d>> /\ Range(<<d>>) = {d}
  BY <1>6 DEF DriversUnder, Range
<1>8. Input # Composite /\ Input # Sideband /\ Composite # Sideband
  BY KscanAssumption
<1>9. DriversUnder(Input) = <<>> /\ Range(<<>>) = {}
  BY <1>8 DEF DriversUnder, Range
<1>10. DriversUnder(Composite) = Children[Composite] /\ DriversUnder(Sideband) = Children[Sideband]
  BY <1>8 DEF DriversUnder
<1>11. Children \in [{Composite, Sideband} -> Seq(Drivers)] /\ Len(Children[Sideband]) = 1
  BY KscanAssumption
<1>12. Children[Composite] \in Seq(Drivers) /\ Children[Sideband] \in Seq(Drivers)
  BY <1>11
<1>13. Range(Children[Composite]) \subseteq Drivers
  BY <1>12 DEF Range
<1>14. Inner \in Drivers /\ Range(Children[Sideband]) = {Inner}
  <2>0. \A q \in Seq(Drivers) : Len(q) = 1 => DOMAIN q = 1..1 /\ q[1] \in Drivers
    OBVIOUS
  <2>1. DOMAIN Children[Sideband] = 1..1 /\ Children[Sideband][1] \in Drivers
    BY <1>11, <1>12, <2>0
  <2>2. DOMAIN Children[Sideband] = {1}
    BY <2>1
  <2> QED BY <2>1, <2>2 DEF Range, Inner
<1> QED BY <1>2, <1>3, <1>4, <1>5, <1>7, <1>9, <1>10, <1>12, <1>13, <1>14

\* Who calls back for d scans its switches.
LEMMA UnderWhat ==
    ASSUME NEW st, Called(st), NEW l \in Layouts, NEW d \in Drivers, NEW k \in SwitchesOf[d]
    PROVE  /\ KscanOf[l] = d => Under(l, k)
           /\ st.cb[d] = "composite" /\ KscanOf[l] = Composite => Under(l, k)
           /\ st.cb[d] = "side" /\ KscanOf[l] = Sideband => Under(l, k)
<1>1. k \notin InputKeys
  BY KscanAssumption
<1>2. ASSUME d \in Range(DriversUnder(KscanOf[l])) PROVE Under(l, k)
  BY <1>1, <1>2 DEF Under
<1>3. KscanOf[l] = d => d \in Range(DriversUnder(KscanOf[l]))
  BY Wiring
<1>4. st.cb[d] = "composite" /\ KscanOf[l] = Composite => d \in Range(DriversUnder(KscanOf[l]))
  BY Wiring DEF Called
<1>5. st.cb[d] = "side" /\ KscanOf[l] = Sideband => d \in Range(DriversUnder(KscanOf[l]))
  BY Wiring DEF Called
<1> QED BY <1>2, <1>3, <1>4, <1>5

\* What is in the queue and what the positions are say the same of the same switches.
LEMMA StillCoherent ==
    ASSUME NEW st, NEW st2, st2.active = st.active, st2.next = st.next, st2.queue = st.queue,
           st2.positions = st.positions, Clean(st2) => Clean(st), NEW T, NEW U, T \subseteq U,
           \A k \in Switches \ U : st2.key[k].pressed = st.key[k].pressed
    PROVE  Coherent(st, T) => Coherent(st2, U)
<1> SUFFICES ASSUME Coherent(st, T), Clean(st2)
             PROVE  QueueUnder(st2) /\ PlacesUnder(st2) /\ ToldBut(st2, U) /\ RestBut(st2, U)
  BY DEF Coherent
<1>1. QueueUnder(st) /\ PlacesUnder(st) /\ ToldBut(st, T) /\ RestBut(st, T)
  BY DEF Coherent
<1>2. QueueUnder(st2) /\ PlacesUnder(st2)
  BY <1>1 DEF QueueUnder, PlacesUnder
<1>3. RestBut(st2, U)
  BY <1>1 DEF RestBut
<1>4. ASSUME NEW k \in Switches \ U PROVE IF Under(st2.active, k) THEN Told(st2, k) ELSE ~st2.key[k].pressed
  <2>1. IF Under(st.active, k) THEN Told(st, k) ELSE ~st.key[k].pressed
    BY <1>1 DEF ToldBut
  <2>2. st2.key[k].pressed = st.key[k].pressed
    BY <1>4
  <2>3. Told(st, k) => Told(st2, k)
    BY <2>2 DEF Told
  <2> QED BY <2>1, <2>2, <2>3
<1>5. ToldBut(st2, U)
  BY <1>4 DEF ToldBut
<1> QED BY <1>2, <1>3, <1>5

LEMMA EnqueueTells ==
    ASSUME NEW st, Fits(st), NEW x, NEW k \in Switches, x = KscanOf[st.active] => Under(st.active, k), NEW T
    PROVE  /\ Fits(Enqueue(st, x, k)) /\ Kept(st, Enqueue(st, x, k))
           /\ Enqueue(st, x, k).key = st.key /\ Enqueue(st, x, k).mode = st.mode
           /\ Enqueue(st, x, k).crashed = st.crashed
           /\ Coherent(st, T) => Coherent(Enqueue(st, x, k), T \ {k})
<1> DEFINE e == <<k, st.key[k].pressed>>
           st2 == Enqueue(st, x, k)
<1>1. st \in Scanner /\ QueueSize \in Nat
  BY KscanAssumption DEF Fits
<1>2. e \in Switches \X BOOLEAN /\ st.queue \in Seq(Switches \X BOOLEAN) /\ st.next \in Layouts \union {-1}
  BY <1>1 DEF Scanner, KeyState
<1>3. Append(st.queue, e) \in Seq(Switches \X BOOLEAN) /\ Len(Append(st.queue, e)) = Len(st.queue) + 1
  BY <1>2
<1> HIDE DEF e
<1>4. CASE x # KscanOf[st.active]
  <2>1. st2 = [st EXCEPT !.moved = TRUE]
    BY <1>4 DEF Enqueue
  <2> HIDE DEF st2
  <2>2. st2 \in Scanner /\ Kept(st, st2) /\ st2.key = st.key /\ st2.mode = st.mode /\ st2.crashed = st.crashed
        /\ st2.queue = st.queue /\ st2.moved
    BY <1>1, <2>1 DEF Scanner, Kept, Same
  <2>3. Fits(st2) /\ Coherent(st2, T \ {k})
    BY <2>2 DEF Fits, Called, Kept, Same, Coherent, Clean
  <2> QED BY <2>2, <2>3 DEF st2
<1>5. CASE x = KscanOf[st.active] /\ ~(Len(st.queue) < QueueSize)
  <2>1. st2 = [st EXCEPT !.dropped = TRUE, !.moved = @ \/ st.next # -1]
    BY <1>5 DEF Enqueue
  <2> HIDE DEF st2
  <2>2. st2 \in Scanner /\ Kept(st, st2) /\ st2.key = st.key /\ st2.mode = st.mode /\ st2.crashed = st.crashed
        /\ st2.queue = st.queue /\ st2.dropped
    BY <1>1, <2>1 DEF Scanner, Kept, Same
  <2>3. Fits(st2) /\ Coherent(st2, T \ {k})
    BY <2>2 DEF Fits, Called, Kept, Same, Coherent, Clean
  <2> QED BY <2>2, <2>3 DEF st2
<1>6. CASE x = KscanOf[st.active] /\ Len(st.queue) < QueueSize
  <2>1. st2 = [st EXCEPT !.queue = Append(@, e), !.moved = @ \/ st.next # -1]
    BY <1>6 DEF Enqueue, e
  <2> HIDE DEF st2
  <2>2. st2 \in Scanner /\ Kept(st, st2) /\ st2.key = st.key /\ st2.mode = st.mode /\ st2.crashed = st.crashed
        /\ st2.queue = Append(st.queue, e) /\ st2.positions = st.positions /\ st2.dropped = st.dropped
        /\ st2.moved = (st.moved \/ st.next # -1)
    BY <1>1, <1>3, <2>1 DEF Scanner, Kept, Same
  <2>3. Len(st2.queue) <= QueueSize
    <3>1. Len(st.queue) \in Nat
      BY <1>2
    <3> QED BY <1>1, <1>3, <1>6, <2>2, <3>1
  <2>4. Fits(st2)
    BY <2>2, <2>3 DEF Fits, Called, Kept, Same
  <2>5. ASSUME Coherent(st, T), Clean(st2)
        PROVE  QueueUnder(st2) /\ PlacesUnder(st2) /\ ToldBut(st2, T \ {k}) /\ RestBut(st2, T \ {k})
    <3>1. Clean(st) /\ st.next = -1 /\ st2.next = -1 /\ st2.active = st.active
      BY <2>2, <2>5 DEF Clean, Kept, Same
    <3>2. QueueUnder(st) /\ PlacesUnder(st) /\ ToldBut(st, T)
      BY <2>5, <3>1 DEF Coherent
    <3> DEFINE q == st.queue
               N == Len(st.queue) + 1
    <3>3. /\ N \in Nat /\ DOMAIN q = 1..N - 1 /\ DOMAIN st2.queue = 1..N
          /\ N \in DOMAIN st2.queue /\ st2.queue[N] = e /\ \A n \in DOMAIN q : n \in DOMAIN st2.queue /\ st2.queue[n] = q[n] /\ n < N
          /\ \A n \in DOMAIN st2.queue : n = N \/ n \in DOMAIN q
      BY <1>2, <1>3, <2>2
    <3>4. e[1] = k /\ e = <<k, st2.key[k].pressed>>
      BY <2>2 DEF e
    <3> HIDE DEF q, N
    <3>5. QueueUnder(st2)
      BY <1>6, <3>1, <3>2, <3>3, <3>4 DEF QueueUnder, q
    <3>6. PlacesUnder(st2)
      BY <2>2, <3>1, <3>2 DEF PlacesUnder
    <3>7. ASSUME NEW j \in Switches \ (T \ {k})
          PROVE  IF Under(st2.active, j) THEN Told(st2, j) ELSE ~st2.key[j].pressed
      <4>1. CASE j = k
        <5>1. Under(st2.active, j)
          BY <1>6, <3>1, <4>1
        <5>2. \A m \in DOMAIN st2.queue : ~(m > N)
          BY <3>3
        <5>3. Told(st2, j)
          <6>1. N \in DOMAIN st2.queue /\ st2.queue[N] = <<j, st2.key[j].pressed>>
            BY <3>3, <3>4, <4>1
          <6> QED BY <5>2, <6>1 DEF Told
        <5> QED BY <5>1, <5>3
      <4>2. CASE j # k
        <5>1. IF Under(st.active, j) THEN Told(st, j) ELSE ~st.key[j].pressed
          BY <3>2, <4>2 DEF ToldBut
        <5>2. ASSUME Told(st, j) PROVE Told(st2, j)
          <6>1. CASE /\ \A n \in DOMAIN q : q[n][1] # j
                     /\ Transform[st.active][j] # -1 => (Transform[st.active][j] \in st.positions <=> st.key[j].pressed)
            <7>1. \A n \in DOMAIN st2.queue : st2.queue[n][1] # j
              BY <3>3, <3>4, <4>2, <6>1
            <7>2. Transform[st2.active][j] # -1 => (Transform[st2.active][j] \in st2.positions <=> st2.key[j].pressed)
              BY <2>2, <3>1, <6>1
            <7> QED BY <7>1, <7>2 DEF Told
          <6>2. CASE \E n \in DOMAIN q : /\ q[n] = <<j, st.key[j].pressed>>
                                         /\ \A m \in DOMAIN q : m > n => q[m][1] # j
            <7>1. PICK n \in DOMAIN q : /\ q[n] = <<j, st.key[j].pressed>>
                                        /\ \A m \in DOMAIN q : m > n => q[m][1] # j
              BY <6>2
            <7>2. n \in DOMAIN st2.queue /\ st2.queue[n] = <<j, st2.key[j].pressed>>
              BY <2>2, <3>3, <7>1
            <7>3. \A m \in DOMAIN st2.queue : m > n => st2.queue[m][1] # j
              BY <3>3, <3>4, <4>2, <7>1
            <7> QED BY <7>2, <7>3 DEF Told
          <6> QED BY <5>2, <6>1, <6>2 DEF Told, q
        <5> QED BY <2>2, <3>1, <5>1, <5>2
      <4> QED BY <4>1, <4>2
    <3>8. ToldBut(st2, T \ {k})
      BY <3>7 DEF ToldBut
    <3> QED BY <3>1, <3>5, <3>6, <3>8 DEF RestBut
  <2>6. Coherent(st, T) => Coherent(st2, T \ {k})
    BY <2>5 DEF Coherent
  <2> QED BY <2>2, <2>4, <2>6 DEF st2
<1> QED BY <1>4, <1>5, <1>6

LEMMA DeliverTells ==
    ASSUME NEW st, Fits(st), NEW d \in Drivers, NEW k \in SwitchesOf[d], NEW T
    PROVE  /\ Fits(Deliver(st, d, k)) /\ Kept(st, Deliver(st, d, k))
           /\ Deliver(st, d, k).key = st.key /\ Deliver(st, d, k).mode = st.mode
           /\ Deliver(st, d, k).crashed => st.crashed \/ st.cb[d] = "none"
           /\ Coherent(st, T) => Coherent(Deliver(st, d, k), T \ {k})
<1> DEFINE st2 == Deliver(st, d, k)
<1>1. st \in Scanner /\ Called(st) /\ k \in Switches /\ st.active \in Layouts /\ st.cb[d] \in Calls
  <2>1. k \in Switches
    BY Wiring
  <2>2. st \in Scanner /\ Called(st) /\ d \in Names
    BY DEF Fits, Names
  <2> QED BY <2>1, <2>2 DEF Scanner
<1>2. /\ KscanOf[st.active] = d => Under(st.active, k)
      /\ st.cb[d] = "composite" /\ KscanOf[st.active] = Composite => Under(st.active, k)
      /\ st.cb[d] = "side" /\ KscanOf[st.active] = Sideband => Under(st.active, k)
  BY <1>1, UnderWhat
<1>3. CASE st.cb[d] = "none"
  <2>1. st2 = [st EXCEPT !.crashed = TRUE]
    BY <1>3 DEF Deliver
  <2> HIDE DEF st2
  <2>2. st2 \in Scanner /\ Kept(st, st2) /\ st2.key = st.key /\ st2.mode = st.mode /\ st2.queue = st.queue /\ st2.crashed
    BY <1>1, <2>1 DEF Scanner, Kept, Same
  <2>3. Fits(st2) /\ Coherent(st2, T \ {k})
    BY <2>2 DEF Fits, Called, Kept, Same, Coherent, Clean
  <2> QED BY <1>3, <2>2, <2>3 DEF st2
<1>4. CASE st.cb[d] = "layout"
  <2>1. st2 = Enqueue(st, d, k)
    BY <1>4 DEF Deliver
  <2>2. d = KscanOf[st.active] => Under(st.active, k)
    BY <1>2
  <2> QED BY <1>1, <2>1, <2>2, EnqueueTells
<1>5. CASE st.cb[d] = "composite"
  <2>1. st2 = Enqueue(st, Composite, k)
    BY <1>1, <1>5 DEF Deliver, Called
  <2>2. Composite = KscanOf[st.active] => Under(st.active, k)
    BY <1>2, <1>5
  <2> QED BY <1>1, <2>1, <2>2, EnqueueTells
<1>6. CASE st.cb[d] = "side"
  <2> DEFINE s1 == [st EXCEPT !.side = IF k \notin SideKeys THEN @
                                       ELSE IF st.key[k].pressed THEN @ \union {k} ELSE @ \ {k}]
  <2>1. st2 = IF s1.sideOn /\ s1.cb[Sideband] # "none" THEN Enqueue(s1, Sideband, k)
            ELSE [s1 EXCEPT !.moved = TRUE]
    BY <1>6 DEF Deliver, SideCallback
  <2>2. /\ s1 \in Scanner /\ Kept(st, s1) /\ s1.key = st.key /\ s1.mode = st.mode /\ s1.queue = st.queue
        /\ s1.positions = st.positions /\ s1.crashed = st.crashed /\ s1.dropped = st.dropped
        /\ s1.moved = st.moved
    BY <1>1 DEF Scanner, Kept, Same
  <2> HIDE DEF s1
  <2>3. Fits(s1) /\ s1.active = st.active
    BY <2>2 DEF Fits, Called, Kept, Same
  <2>4. Coherent(st, T) => Coherent(s1, T)
    BY <2>2, <2>3, StillCoherent DEF Kept, Same, Clean
  <2>5. CASE s1.sideOn /\ s1.cb[Sideband] # "none"
    <3>1. Sideband = KscanOf[s1.active] => Under(s1.active, k)
      BY <1>2, <1>6, <2>3
    <3> DEFINE u == Enqueue(s1, Sideband, k)
    <3>2. /\ Fits(u) /\ Kept(s1, u) /\ u.key = s1.key /\ u.mode = s1.mode /\ u.crashed = s1.crashed
          /\ Coherent(s1, T) => Coherent(u, T \ {k})
      BY <1>1, <2>3, <3>1, EnqueueTells
    <3>3. st2 = u
      BY <2>1, <2>5
    <3> HIDE DEF st2, u
    <3>4. Kept(st, st2)
      BY <2>2, <3>2, <3>3 DEF Kept, Same
    <3> QED BY <2>2, <2>4, <3>2, <3>3, <3>4 DEF st2
  <2>6. CASE ~(s1.sideOn /\ s1.cb[Sideband] # "none")
    <3>1. st2 = [s1 EXCEPT !.moved = TRUE]
      BY <2>1, <2>6
    <3> HIDE DEF st2
    <3>2. st2 \in Scanner /\ Kept(s1, st2) /\ st2.key = s1.key /\ st2.mode = s1.mode /\ st2.queue = s1.queue
          /\ st2.moved /\ st2.crashed = s1.crashed
      BY <2>2, <3>1 DEF Scanner, Kept, Same
    <3>3. Kept(st, st2)
      BY <2>2, <3>2 DEF Kept, Same
    <3>4. Fits(st2) /\ Coherent(st2, T \ {k})
      BY <2>3, <3>2 DEF Fits, Called, Kept, Same, Coherent, Clean
    <3> QED BY <2>2, <3>2, <3>3, <3>4 DEF st2
  <2> QED BY <2>5, <2>6
<1> QED BY <1>1, <1>3, <1>4, <1>5, <1>6 DEF Calls

LEMMA LeastOf ==
    ASSUME NEW T, T \subseteq Nat, T # {}
    PROVE  \E m \in T : m = 0 \/ (m - 1 \in Nat /\ m - 1 \notin T)
<1> DEFINE R == {ss \in Nat \X Nat : ss[1] < ss[2]}
<1>1. IsWellFoundedOn(R, Nat) BY NatLessThanWellFounded DEF OpToRel
<1> HIDE DEF R
<1>2. PICK m \in T : \A y \in T : ~(<<y, m>> \in R) BY <1>1, WFMin
<1>3. m \in Nat OBVIOUS
<1>4. CASE m # 0
  <2>1. m - 1 \in Nat /\ m - 1 < m BY <1>3, <1>4
  <2>2. <<m - 1, m>> \in R BY <1>3, <2>1 DEF R
  <2> QED BY <1>2, <2>1, <2>2
<1> QED BY <1>4

\* The state after the first i of what has been read has been reported, out of the one before.
Telling(st, d, prev, i) == IF st.key[Wired[d][i]].changed THEN Deliver(prev, d, Wired[d][i]) ELSE prev

Tells(f, st, d, n) == f = [i \in 0 .. n |-> IF i = 0 THEN st ELSE Telling(st, d, f[i - 1], i)]

LEMMA ReportExists ==
    ASSUME NEW st, NEW d, NEW n \in Nat
    PROVE  \E f : Tells(f, st, d, n)
<1> DEFINE E(m) == \E f : f = [i \in 0 .. m |-> IF i = 0 THEN st ELSE Telling(st, d, f[i - 1], i)]
           T == {m \in Nat : ~E(m)}
<1>1. SUFFICES ASSUME T # {} PROVE FALSE BY DEF Tells
<1>2. PICK m \in T : m = 0 \/ (m - 1 \in Nat /\ m - 1 \notin T) BY <1>1, LeastOf
<1>3. m \in Nat /\ ~E(m) OBVIOUS
<1>4. CASE m = 0
  <2> DEFINE f == [i \in 0 .. m |-> st]
  <2>1. f = [i \in 0 .. m |-> IF i = 0 THEN st ELSE Telling(st, d, f[i - 1], i)] BY <1>4
  <2> HIDE DEF f
  <2>2. E(m) BY <2>1
  <2> QED BY <1>3, <2>2
<1>5. CASE m # 0
  <2>0. m - 1 \in Nat /\ E(m - 1) BY <1>2, <1>5
  <2>1. PICK g : g = [i \in 0 .. m - 1 |-> IF i = 0 THEN st ELSE Telling(st, d, g[i - 1], i)] BY <2>0
  <2> DEFINE f == [i \in 0 .. m |-> IF i = m THEN Telling(st, d, g[m - 1], m) ELSE g[i]]
  <2>2. ASSUME NEW i \in 0 .. m PROVE f[i] = IF i = 0 THEN st ELSE Telling(st, d, f[i - 1], i)
    <3>1. CASE i = m
      <4>1. i # 0 /\ i - 1 = m - 1 /\ m - 1 \in 0 .. m /\ m - 1 # m BY <1>3, <1>5, <2>0, <3>1
      <4>2. f[i - 1] = g[m - 1] BY <4>1
      <4> HIDE <2>1
      <4> QED BY <3>1, <4>1, <4>2
    <3>2. CASE i # m
      <4>1. i \in 0 .. m - 1 BY <1>3, <2>0, <3>2
      <4>2. f[i] = g[i] BY <3>2
      <4>3. g[i] = IF i = 0 THEN st ELSE Telling(st, d, g[i - 1], i) BY <2>1, <4>1
      <4>4. i # 0 => i - 1 \in 0 .. m /\ i - 1 # m BY <1>3, <3>2, <4>1
      <4>5. i # 0 => f[i - 1] = g[i - 1] BY <4>4
      <4> HIDE <2>1
      <4> QED BY <4>2, <4>3, <4>5
    <3> QED BY <3>1, <3>2
  <2>3. f = [i \in 0 .. m |-> f[i]] OBVIOUS
  <2> HIDE DEF f
  <2>4. f = [i \in 0 .. m |-> IF i = 0 THEN st ELSE Telling(st, d, f[i - 1], i)] BY <2>2, <2>3
  <2>5. E(m) BY <2>4
  <2> QED BY <1>3, <2>5
<1> QED BY <1>4, <1>5

LEMMA ReportTells ==
    ASSUME NEW st, Fits(st), NEW d \in Drivers, NEW n \in 0 .. Len(Wired[d]), NEW T,
           \A k \in T : st.key[k].changed /\ \E i \in 1 .. n : Wired[d][i] = k
    PROVE  /\ Fits(ReportSwitch(st, d, n)) /\ Kept(st, ReportSwitch(st, d, n))
           /\ ReportSwitch(st, d, n).key = st.key /\ ReportSwitch(st, d, n).mode = st.mode
           /\ ReportSwitch(st, d, n).crashed => st.crashed \/ st.cb[d] = "none"
           /\ (\A i \in 1 .. n : ~st.key[Wired[d][i]].changed) => ReportSwitch(st, d, n).crashed = st.crashed
           /\ Coherent(st, T) => Coherent(ReportSwitch(st, d, n), {})
<1> DEFINE f == CHOOSE g : g = [i \in 0 .. n |-> IF i = 0 THEN st ELSE Telling(st, d, g[i - 1], i)]
           First(i) == {Wired[d][j] : j \in 1 .. i}
           Quiet(i) == \A j \in 1 .. i : ~st.key[Wired[d][j]].changed
           Good(i) == /\ Fits(f[i]) /\ Kept(st, f[i]) /\ f[i].key = st.key /\ f[i].mode = st.mode
                      /\ f[i].crashed => st.crashed \/ st.cb[d] = "none"
                      /\ Quiet(i) => f[i].crashed = st.crashed
                      /\ Coherent(st, T) => Coherent(f[i], T \ First(i))
           B == {i \in 0 .. n : ~Good(i)}
<1>0. n \in Nat /\ \A i \in 1 .. n : Wired[d][i] \in SwitchesOf[d]
  <2>1. Len(Wired[d]) \in Nat BY Wiring
  <2> QED BY <2>1, Wiring
<1>1. f = [i \in 0 .. n |-> IF i = 0 THEN st ELSE Telling(st, d, f[i - 1], i)]
  <2> HIDE DEF f, First, Quiet, Good, B
  <2>1. \E g : Tells(g, st, d, n) BY <1>0, ReportExists
  <2>2. Tells(CHOOSE g : Tells(g, st, d, n), st, d, n) BY <2>1, Zenon
  <2>3. f = CHOOSE g : Tells(g, st, d, n) BY DEF f, Tells
  <2> QED BY <2>2, <2>3 DEF Tells
<1>2. ReportSwitch(st, d, n) = f[n] BY DEF ReportSwitch, Telling
<1> HIDE DEF f
<1>3. SUFFICES B = {}
  <2>1. Good(n)
    <3>1. n \in 0 .. n BY <1>0
    <3> HIDE DEF Good
    <3> QED BY <1>3, <3>1
  <2>2. T \ First(n) = {} OBVIOUS
  <2> QED BY <1>2, <2>1, <2>2
<1>4. SUFFICES ASSUME B # {} PROVE FALSE OBVIOUS
<1>5. PICK m \in B : m = 0 \/ (m - 1 \in Nat /\ m - 1 \notin B)
  <2>1. B \subseteq Nat BY <1>0
  <2> QED BY <1>4, <2>1, LeastOf
<1>6. m \in 0 .. n /\ ~Good(m) OBVIOUS
<1>7. m # 0
  <2>1. f[0] = st BY <1>0, <1>1
  <2>2. First(0) = {} OBVIOUS
  <2>3. T \ First(0) = T BY <2>2
  <2>4. Kept(st, st) BY DEF Kept, Same
  <2>5. Good(0) BY <2>1, <2>3, <2>4
  <2> QED BY <1>6, <2>5
<1>8. m - 1 \in 0 .. n /\ m \in 1 .. n /\ m \in Nat BY <1>0, <1>5, <1>6, <1>7
<1>9. Good(m - 1) BY <1>5, <1>7, <1>8
<1> DEFINE p == f[m - 1]
           k == Wired[d][m]
           st2 == f[m]
<1>10. st2 = Telling(st, d, p, m)
  BY <1>1, <1>6, <1>7
<1>11. First(m) = First(m - 1) \union {k}
  <2>1. \A j \in 1 .. m : j = m \/ j \in 1 .. m - 1 BY <1>8
  <2>2. m \in 1 .. m /\ \A j \in 1 .. m - 1 : j \in 1 .. m BY <1>8
  <2> QED BY <2>1, <2>2
<1>12. T \ First(m) = (T \ First(m - 1)) \ {k} BY <1>11
<1>13. Quiet(m) => Quiet(m - 1) /\ ~st.key[k].changed
  <2>1. m \in 1 .. m /\ \A j \in 1 .. m - 1 : j \in 1 .. m BY <1>8
  <2> QED BY <2>1
<1>14. /\ Fits(p) /\ Kept(st, p) /\ p.key = st.key /\ p.mode = st.mode
       /\ p.crashed => st.crashed \/ st.cb[d] = "none"
       /\ Quiet(m - 1) => p.crashed = st.crashed
       /\ Coherent(st, T) => Coherent(p, T \ First(m - 1))
  BY <1>9
<1> HIDE DEF st2, p, Quiet, First
<1>15. CASE st.key[k].changed
  <2> DEFINE u == Deliver(p, d, k)
  <2>1. st2 = u BY <1>10, <1>15 DEF Telling
  <2>2. k \in SwitchesOf[d] BY <1>0, <1>8
  <2>3. /\ Fits(u) /\ Kept(p, u) /\ u.key = p.key /\ u.mode = p.mode
        /\ u.crashed => p.crashed \/ p.cb[d] = "none"
        /\ Coherent(p, T \ First(m - 1)) => Coherent(u, (T \ First(m - 1)) \ {k})
    BY <1>14, <2>2, DeliverTells
  <2> HIDE DEF u, k
  <2>4. Kept(st, st2) /\ p.cb = st.cb BY <1>14, <2>1, <2>3 DEF Kept, Same
  <2>5. st2.key = st.key /\ st2.mode = st.mode /\ (st2.crashed => st.crashed \/ st.cb[d] = "none")
    BY <1>14, <2>1, <2>3, <2>4
  <2>6. Coherent(st, T) => Coherent(st2, T \ First(m)) BY <1>12, <1>14, <2>1, <2>3
  <2>7. Good(m) BY <1>13, <1>15, <2>1, <2>3, <2>4, <2>5, <2>6 DEF st2
  <2> QED BY <1>6, <2>7
<1>16. CASE ~st.key[k].changed
  <2>1. st2 = p BY <1>10, <1>16 DEF Telling
  <2>2. k \notin T BY <1>16
  <2>3. T \ First(m) = T \ First(m - 1) BY <1>12, <2>2
  <2> HIDE DEF k
  <2>4. Good(m) BY <1>13, <1>14, <2>1, <2>3 DEF st2
  <2> QED BY <1>6, <2>4
<1> QED BY <1>15, <1>16

-----------------------------------------------------------------------------
(* What one reading makes of a key. *)
Sound(key, g) == key.counter <= key.age /\ key.counter <= g
AllSound(st) == \A k \in Switches : Sound(st.key[k], Greater(st.press, st.release))
\* The switches of d are taken for open, and not longer than n scans for anything else.
Quiet(st, d, n) == \A k \in SwitchesOf[d] : ~st.key[k].pressed /\ st.key[k].counter <= n

LEMMA DebounceReads ==
    ASSUME NEW key \in KeyState, NEW a \in BOOLEAN, NEW p \in Nat, NEW q \in Nat
    PROVE  /\ Debounce(key, a, p, q) \in KeyState
           /\ Debounce(key, a, p, q).pressed # key.pressed
                => Debounce(key, a, p, q).changed /\ key.counter >= (IF key.pressed THEN q ELSE p)
           /\ \A n \in Nat : ~key.pressed /\ key.counter <= n /\ n < p
                => /\ ~Debounce(key, a, p, q).pressed /\ ~Debounce(key, a, p, q).changed
                   /\ Debounce(key, a, p, q).counter <= n + 1
           /\ Sound(key, Greater(p, q)) => Sound(Debounce(key, a, p, q), Greater(p, q))
<1> DEFINE st2 == Debounce(key, a, p, q)
           g == Greater(p, q)
           older == IF key.age < g THEN key.age + 1 ELSE key.age
           aged == [key EXCEPT !.changed = FALSE, !.age = IF @ < g THEN @ + 1 ELSE @]
<1>1. key.pressed \in BOOLEAN /\ key.counter \in Nat /\ key.age \in Nat /\ g \in Nat /\ p <= g /\ q <= g
  BY DEF KeyState, Greater
<1> HIDE DEF g
<1>2. /\ aged \in KeyState /\ aged.pressed = key.pressed /\ aged.counter = key.counter
      /\ ~aged.changed /\ aged.age = older /\ older \in Nat
  <2>1. older \in Nat
    BY <1>1
  <2>2. aged = [key EXCEPT !.changed = FALSE, !.age = older]
    OBVIOUS
  <2> HIDE DEF aged, older
  <2> QED BY <2>1, <2>2 DEF KeyState
<1> HIDE DEF aged
<1>3. CASE a = key.pressed
  <2>1. st2 = [aged EXCEPT !.counter = IF @ = 0 THEN 0 ELSE @ - 1]
    BY <1>3 DEF Debounce, Aged, aged, g
  <2> HIDE DEF st2
  <2>2. st2 \in KeyState /\ st2.pressed = key.pressed /\ ~st2.changed /\ st2.age = older
        /\ st2.counter = IF key.counter = 0 THEN 0 ELSE key.counter - 1
    BY <1>1, <1>2, <2>1 DEF KeyState
  <2>3. st2.counter <= key.counter /\ key.age <= older /\ st2.counter \in Nat
    BY <1>1, <2>2
  <2>4. Sound(key, g) => Sound(st2, g)
    BY <1>1, <1>2, <2>2, <2>3 DEF Sound
  <2>5. \A n \in Nat : key.counter <= n => st2.counter <= n + 1
    BY <1>1, <2>3
  <2> QED BY <2>2, <2>4, <2>5 DEF st2, g
<1>4. CASE a # key.pressed /\ key.counter < (IF key.pressed THEN q ELSE p)
  <2>1. st2 = [aged EXCEPT !.counter = @ + 1]
    BY <1>4 DEF Debounce, Aged, aged, g
  <2> HIDE DEF st2
  <2>2. st2 \in KeyState /\ st2.pressed = key.pressed /\ ~st2.changed /\ st2.age = older
        /\ st2.counter = key.counter + 1
    BY <1>1, <1>2, <2>1 DEF KeyState
  <2>3. key.counter < g
    BY <1>1, <1>4
  <2>4. Sound(key, g) => Sound(st2, g)
    BY <1>1, <1>2, <2>2, <2>3 DEF Sound
  <2>5. \A n \in Nat : key.counter <= n => st2.counter <= n + 1
    BY <1>1, <2>2
  <2> QED BY <2>2, <2>4, <2>5 DEF st2, g
<1>5. CASE a # key.pressed /\ ~(key.counter < (IF key.pressed THEN q ELSE p))
  <2>1. st2 = Flip(key)
    BY <1>5 DEF Debounce
  <2> HIDE DEF st2
  <2>2. st2 \in KeyState /\ st2.changed /\ st2.counter = 0 /\ st2.age = 0
    BY <2>1 DEF KeyState, Flip
  <2>3. Sound(st2, g)
    BY <1>1, <2>2 DEF Sound
  <2>4. key.counter >= (IF key.pressed THEN q ELSE p)
    BY <1>1, <1>5
  <2>5. \A n \in Nat : key.counter <= n /\ n < p => key.pressed
    BY <1>1, <2>4
  <2> QED BY <2>2, <2>3, <2>4, <2>5 DEF st2, g
<1> QED BY <1>3, <1>4, <1>5

LEMMA UndebouncedReads ==
    ASSUME NEW key \in KeyState, NEW a \in BOOLEAN, NEW g \in Nat
    PROVE  /\ Undebounced(key, a) \in KeyState
           /\ Undebounced(key, a).pressed # key.pressed => Undebounced(key, a).changed
           /\ Sound(key, g) => Sound(Undebounced(key, a), g)
<1>1. CASE a = key.pressed
  <2>1. Undebounced(key, a) = [key EXCEPT !.changed = FALSE]
    BY <1>1 DEF Undebounced
  <2> QED BY <2>1 DEF KeyState, Sound
<1>2. CASE a # key.pressed
  <2>1. Undebounced(key, a) = [pressed |-> ~key.pressed, counter |-> 0, changed |-> TRUE, age |-> 0]
    BY <1>2 DEF Undebounced, Flip
  <2> QED BY <2>1 DEF KeyState, Sound
<1> QED BY <1>1, <1>2

\* The first n switches of d have become what new says, and that is reported.
LEMMA ReadingTells ==
    ASSUME NEW st, Fits(st), NEW d \in Drivers, NEW n \in 0 .. Len(Wired[d]),
           NEW new \in [Switches -> KeyState],
           \A k \in Switches : (\E i \in 1 .. n : Wired[d][i] = k) \/ new[k] = st.key[k],
           \A k \in Switches : new[k].pressed # st.key[k].pressed => new[k].changed,
           NEW st2, st2 = ReportSwitch([st EXCEPT !.key = new], d, n)
    PROVE  /\ Fits(st2) /\ Kept(st, st2) /\ st2.key = new /\ st2.mode = st.mode
           /\ st2.crashed => st.crashed \/ st.cb[d] = "none"
           /\ (\A i \in 1 .. n : ~new[Wired[d][i]].changed) => st2.crashed = st.crashed
           /\ Coherent(st, {}) => Coherent(st2, {})
<1> DEFINE u == [st EXCEPT !.key = new]
           T == {k \in Switches : new[k].changed /\ \E i \in 1 .. n : Wired[d][i] = k}
<1>1. /\ u \in Scanner /\ Kept(st, u) /\ u.key = new /\ u.mode = st.mode /\ u.queue = st.queue
      /\ u.positions = st.positions /\ u.crashed = st.crashed /\ u.dropped = st.dropped
      /\ u.moved = st.moved
  BY DEF Fits, Scanner, Kept, Same
<1>0. st2 = ReportSwitch(u, d, n)
  OBVIOUS
<1> HIDE DEF u
<1>2. Fits(u)
  BY <1>1 DEF Fits, Called, Kept, Same
<1>3. \A k \in Switches \ T : u.key[k].pressed = st.key[k].pressed
  BY <1>1
<1>4. {} \subseteq T
  OBVIOUS
<1>5. Coherent(st, {}) => Coherent(u, T)
  <2>1. u.active = st.active /\ u.next = st.next /\ (Clean(u) => Clean(st))
    BY <1>1 DEF Kept, Same, Clean
  <2> DEFINE none == {}
  <2>2. none \subseteq T
    OBVIOUS
  <2> HIDE DEF T, none
  <2>3. Coherent(st, none) => Coherent(u, T)
    BY <1>1, <1>3, <2>1, <2>2, StillCoherent
  <2> QED BY <2>3 DEF none
<1>6. \A k \in T : u.key[k].changed /\ \E i \in 1 .. n : Wired[d][i] = k
  BY <1>1
<1> HIDE DEF T
<1>7. /\ Fits(st2) /\ Kept(u, st2) /\ st2.key = u.key /\ st2.mode = u.mode
      /\ st2.crashed => u.crashed \/ u.cb[d] = "none"
      /\ (\A i \in 1 .. n : ~u.key[Wired[d][i]].changed) => st2.crashed = u.crashed
      /\ Coherent(u, T) => Coherent(st2, {})
  <2>1. Fits(u) /\ d \in Drivers /\ n \in 0 .. Len(Wired[d])
    BY <1>2
  <2> HIDE <1>1, <1>3, <1>4, <1>5
  <2>2. /\ Fits(ReportSwitch(u, d, n)) /\ Kept(u, ReportSwitch(u, d, n))
        /\ ReportSwitch(u, d, n).key = u.key /\ ReportSwitch(u, d, n).mode = u.mode
        /\ ReportSwitch(u, d, n).crashed => u.crashed \/ u.cb[d] = "none"
        /\ (\A i \in 1 .. n : ~u.key[Wired[d][i]].changed) => ReportSwitch(u, d, n).crashed = u.crashed
        /\ Coherent(u, T) => Coherent(ReportSwitch(u, d, n), {})
    BY <1>6, <2>1, ReportTells
  <2> QED BY <1>0, <2>2
<1>8. Kept(st, st2) /\ u.cb = st.cb
  BY <1>1, <1>7 DEF Kept, Same
<1> QED BY <1>1, <1>5, <1>7, <1>8

-----------------------------------------------------------------------------
(* Switching one driver on. *)
MovesOne(st, st2, d) ==
    /\ Fits(st2) /\ Same(st, st2)
    /\ \A e \in Drivers \ {d} : st2.mode[e] = st.mode[e]
    /\ \A e \in Debounced \ {d} : st2.on[e] = st.on[e]
    /\ \A e \in Demux \ {d} : st2.timer[e] = st.timer[e]
    /\ \A k \in Switches \ SwitchesOf[d] : st2.key[k] = st.key[k]
    /\ AllSound(st) => AllSound(st2)
    /\ Coherent(st, {}) => Coherent(st2, {})

LEMMA MovesOn ==
    ASSUME NEW st, NEW u, NEW st2, NEW d, MovesOne(st, u, d), MovesOne(u, st2, d)
    PROVE  MovesOne(st, st2, d)
BY DEF MovesOne, Same

\* Only what drivers wait for, and whether they are on, differs.
LEMMA OthersMove ==
    ASSUME NEW st, Fits(st), NEW st2, st2 \in Scanner, Same(st, st2), NEW d, st2.key = st.key, st2.queue = st.queue,
           st2.positions = st.positions, st2.crashed = st.crashed, st2.dropped = st.dropped, st2.moved = st.moved,
           \A e \in Drivers \ {d} : st2.mode[e] = st.mode[e],
           \A e \in Debounced \ {d} : st2.on[e] = st.on[e],
           \A e \in Demux \ {d} : st2.timer[e] = st.timer[e]
    PROVE  MovesOne(st, st2, d)
<1>1. Fits(st2)
  BY DEF Fits, Called, Same
<1>2. AllSound(st) => AllSound(st2)
  BY DEF AllSound, Same
<1>3. Coherent(st, {}) => Coherent(st2, {})
  <2> DEFINE none == {}
  <2>1. none \subseteq none /\ st2.active = st.active /\ st2.next = st.next /\ (Clean(st2) => Clean(st))
    BY DEF Same, Clean
  <2> HIDE DEF none
  <2>2. \A k \in Switches \ none : st2.key[k].pressed = st.key[k].pressed
    OBVIOUS
  <2>3. Coherent(st, none) => Coherent(st2, none)
    BY <2>1, <2>2, StillCoherent
  <2> QED BY <2>3 DEF none
<1> QED BY <1>1, <1>2, <1>3 DEF MovesOne

Waits(st, d, m) == [st EXCEPT !.mode[d] = m]

LEMMA ModeMoves ==
    ASSUME NEW st, Fits(st), NEW d \in Drivers, NEW m \in Modes, NEW st2, st2 = Waits(st, d, m)
    PROVE  MovesOne(st, st2, d) /\ Kept(st, st2) /\ st2.key = st.key /\ st2.crashed = st.crashed /\ st2.mode[d] = m
<1>1. /\ st2 \in Scanner /\ Kept(st, st2) /\ st2.key = st.key /\ st2.queue = st.queue /\ st2.positions = st.positions
      /\ st2.crashed = st.crashed /\ st2.dropped = st.dropped /\ st2.moved = st.moved
      /\ st2.mode = [st.mode EXCEPT ![d] = m]
  BY DEF Fits, Scanner, Kept, Same, Waits
<1>2. st.mode \in [Drivers -> Modes]
  BY DEF Fits, Scanner
<1>3. st2.mode[d] = m /\ \A e \in Drivers \ {d} : st2.mode[e] = st.mode[e]
  BY <1>1, <1>2
<1>4. Same(st, st2) /\ st2.on = st.on /\ st2.timer = st.timer
  BY <1>1 DEF Kept
<1>5. MovesOne(st, st2, d)
  BY <1>1, <1>3, <1>4, OthersMove
<1> QED BY <1>1, <1>3, <1>5

\* What a driver reads.
Sampled(st, d) ==
    [k \in Switches |->
        IF k \notin SwitchesOf[d] THEN st.key[k]
        ELSE IF d \in Demux THEN Undebounced(st.key[k], k \in closed)
        ELSE Debounce(st.key[k], k \in closed, st.press, st.release)]

Reported(st, d) == ReportSwitch([st EXCEPT !.key = Sampled(st, d)], d, Len(Wired[d]))

LEMMA ReadSamples ==
    ASSUME NEW st, NEW d \in Drivers
    PROVE  \E m \in Modes : Read(st, d) = Waits(Reported(st, d), d, m) /\ (d \in Debounced => m # "off")
<1> USE DEF Waits, Reported
<1> DEFINE u == ReportSwitch([st EXCEPT !.key = Sampled(st, d)], d, Len(Wired[d]))
<1>1. Debounced1(st, SwitchesOf[d]) = [st EXCEPT !.key = Sampled(st, d)] \/ d \in Demux
  BY DEF Debounced1, Sampled
<1>2. {Wired[d][i] : i \in 1 .. Len(Wired[d])} = SwitchesOf[d]
  BY Wiring
<1>3. /\ d \notin Demux \/ d \notin Debounced
      /\ d \in Direct => d \notin Matrix /\ d \notin Demux
      /\ d \in Charlieplex => d \notin Matrix /\ d \notin Direct /\ d \notin Demux
      /\ d \in Demux => d \notin Matrix /\ d \notin Direct /\ d \notin Charlieplex
      /\ d \in Matrix => d \notin Demux
  BY KscanAssumption DEF Debounced
<1>4. CASE d \in Matrix
  <2>1. Read(st, d) = MatrixEnd(u, d)
    BY <1>1, <1>3, <1>4 DEF Read, MatrixRead
  <2>2. Read(st, d) = [u EXCEPT !.mode[d] = IF u.irq /\ ~Down(u, d) THEN "irq" ELSE "scheduled"]
    BY <2>1 DEF MatrixEnd
  <2> QED BY <2>2 DEF Modes
<1>5. CASE d \in Direct
  <2>1. Read(st, d) = DirectEnd(u, d)
    BY <1>1, <1>3, <1>5 DEF Read, DirectRead
  <2>2. Read(st, d) = [u EXCEPT !.mode[d] = IF u.irq /\ ~Down(u, d) THEN "irq" ELSE "scheduled"]
    BY <2>1 DEF DirectEnd
  <2> QED BY <2>2 DEF Modes
<1>6. CASE d \in Charlieplex
  <2>1. Read(st, d) = CharlieplexEnd(u, d)
    BY <1>1, <1>2, <1>3, <1>6 DEF Read, CharlieplexRead
  <2>2. Read(st, d) = [u EXCEPT !.mode[d] = IF u.irqPin /\ ~Down(u, d) THEN "irq" ELSE "scheduled"]
    BY <2>1 DEF CharlieplexEnd
  <2> QED BY <2>2 DEF Modes
<1>7. CASE d \in Demux
  <2>1. Undebounced1(st, SwitchesOf[d]) = [st EXCEPT !.key = Sampled(st, d)]
    BY <1>7 DEF Undebounced1, Sampled
  <2>2. Read(st, d) = DemuxEnd(u, d)
    BY <1>3, <1>7, <2>1 DEF Read, DemuxRead
  <2>3. Read(st, d) = [u EXCEPT !.mode[d] = IF u.timer[d] \/ Down(u, d) THEN "scheduled" ELSE "off"]
    BY <2>2 DEF DemuxEnd
  <2> QED BY <1>3, <1>7, <2>3 DEF Modes
<1> QED BY <1>4, <1>5, <1>6, <1>7 DEF Drivers, Debounced

LEMMA ReadMoves ==
    ASSUME NEW st, Fits(st), NEW d \in Drivers, NEW st2, st2 = Read(st, d)
    PROVE  /\ MovesOne(st, st2, d) /\ st2.on = st.on /\ st2.timer = st.timer /\ st2.key = Sampled(st, d)
           /\ d \in Debounced => st2.mode[d] # "off"
           /\ st.cb[d] # "none" /\ st2.crashed => st.crashed
           /\ \A n \in Nat : d \in Debounced /\ Quiet(st, d, n) /\ n < st.press
                => Quiet(st2, d, n + 1) /\ (st2.crashed => st.crashed)
<1> DEFINE new == Sampled(st, d)
           u == ReportSwitch([st EXCEPT !.key = new], d, Len(Wired[d]))
<1>1. st.key \in [Switches -> KeyState] /\ st.press \in Nat /\ st.release \in Nat /\ Len(Wired[d]) \in 0 .. Len(Wired[d])
  <2>1. Len(Wired[d]) \in Nat
    BY Wiring
  <2> QED BY <2>1 DEF Fits, Scanner
<1>2. \A k \in Switches : /\ k \in SwitchesOf[d] /\ d \notin Demux => new[k] = Debounce(st.key[k], k \in closed, st.press, st.release)
                          /\ k \in SwitchesOf[d] /\ d \in Demux => new[k] = Undebounced(st.key[k], k \in closed)
                          /\ k \notin SwitchesOf[d] => new[k] = st.key[k]
  BY DEF Sampled
<1>3. \A k \in Switches : (k \in closed) \in BOOLEAN
  OBVIOUS
<1>4. Greater(st.press, st.release) \in Nat
  BY <1>1 DEF Greater
<1> DEFINE g == Greater(st.press, st.release)
<1>5. ASSUME NEW k \in Switches
      PROVE  /\ new[k] \in KeyState
             /\ new[k].pressed # st.key[k].pressed => new[k].changed \/ k \notin SwitchesOf[d]
             /\ Sound(st.key[k], g) => Sound(new[k], g)
  <2>1. st.key[k] \in KeyState
    BY <1>1
  <2>2. CASE k \notin SwitchesOf[d]
    BY <1>2, <2>1, <2>2
  <2>3. CASE k \in SwitchesOf[d] /\ d \in Demux
    <3> HIDE DEF g, new
    <3>1. new[k] = Undebounced(st.key[k], k \in closed)
      BY <1>2, <2>3
    <3> QED BY <1>3, <1>4, <2>1, <3>1, UndebouncedReads DEF g
  <2>4. CASE k \in SwitchesOf[d] /\ d \notin Demux
    <3> HIDE DEF new
    <3>1. new[k] = Debounce(st.key[k], k \in closed, st.press, st.release)
      BY <1>2, <2>4
    <3> QED BY <1>1, <1>3, <2>1, <3>1, DebounceReads
  <2> QED BY <2>2, <2>3, <2>4
<1>6. new \in [Switches -> KeyState]
  <2>1. new = [k \in Switches |-> new[k]]
    BY DEF Sampled
  <2> HIDE DEF new
  <2> QED BY <1>5, <2>1
<1>7. \A k \in Switches : (\E i \in 1 .. Len(Wired[d]) : Wired[d][i] = k) \/ new[k] = st.key[k]
  BY <1>2, Wiring
<1>8. \A k \in Switches : new[k].pressed # st.key[k].pressed => new[k].changed
  <2> HIDE DEF new
  <2> QED BY <1>2, <1>5
<1>9. PICK m \in Modes : st2 = Waits(u, d, m) /\ (d \in Debounced => m # "off")
  BY ReadSamples DEF Reported
<1>0. u = ReportSwitch([st EXCEPT !.key = new], d, Len(Wired[d]))
  OBVIOUS
<1> HIDE DEF new, u, g
<1>10. /\ Fits(u) /\ Kept(st, u) /\ u.key = new /\ u.mode = st.mode
       /\ u.crashed => st.crashed \/ st.cb[d] = "none"
       /\ (\A i \in 1 .. Len(Wired[d]) : ~new[Wired[d][i]].changed) => u.crashed = st.crashed
       /\ Coherent(st, {}) => Coherent(u, {})
  BY <1>0, <1>1, <1>6, <1>7, <1>8, ReadingTells
<1>11. MovesOne(st, u, d)
  <2>1. AllSound(st) => AllSound(u)
    BY <1>5, <1>10 DEF AllSound, Kept, Same, g
  <2>2. \A k \in Switches \ SwitchesOf[d] : u.key[k] = st.key[k]
    BY <1>2, <1>10
  <2> QED BY <1>10, <2>1, <2>2 DEF MovesOne, Kept
<1>12. MovesOne(u, st2, d) /\ Kept(u, st2) /\ st2.key = u.key /\ st2.crashed = u.crashed /\ st2.mode[d] = m
  BY <1>9, <1>10, ModeMoves
<1>13. MovesOne(st, st2, d)
  BY <1>11, <1>12, MovesOn
<1>14. st2.on = st.on /\ st2.timer = st.timer
  BY <1>10, <1>12 DEF Kept
<1>15. ASSUME NEW n \in Nat, d \in Debounced, Quiet(st, d, n), n < st.press
       PROVE  Quiet(st2, d, n + 1) /\ (st2.crashed => st.crashed)
  <2>1. d \notin Demux
    BY <1>15, KscanAssumption DEF Debounced
  <2>2. \A k \in SwitchesOf[d] : k \in Switches
    BY Wiring
  <2>3. ASSUME NEW k \in SwitchesOf[d] PROVE ~new[k].pressed /\ ~new[k].changed /\ new[k].counter <= n + 1
    <3>1. new[k] = Debounce(st.key[k], k \in closed, st.press, st.release) /\ st.key[k] \in KeyState
      BY <1>1, <1>2, <2>1, <2>2
    <3>2. ~st.key[k].pressed /\ st.key[k].counter <= n
      BY <1>15 DEF Quiet
    <3>3. (k \in closed) \in BOOLEAN
      OBVIOUS
    <3>4. \A j \in Nat : ~st.key[k].pressed /\ st.key[k].counter <= j /\ j < st.press
                          => ~new[k].pressed /\ ~new[k].changed /\ new[k].counter <= j + 1
      <4> DEFINE key == st.key[k]
                 p == st.press
                 q == st.release
      <4>1. new[k] = Debounce(key, k \in closed, p, q) /\ key \in KeyState /\ p \in Nat /\ q \in Nat
        BY <1>1, <3>1
      <4> DEFINE z == Debounce(key, k \in closed, p, q)
      <4> HIDE DEF key, p, q
      <4>2. \A j \in Nat : ~key.pressed /\ key.counter <= j /\ j < p
                           => ~z.pressed /\ ~z.changed /\ z.counter <= j + 1
        BY <3>3, <4>1, DebounceReads
      <4> HIDE DEF z
      <4> QED BY <4>1, <4>2 DEF key, p, z
    <3> QED BY <1>15, <3>2, <3>4
  <2>4. Quiet(st2, d, n + 1)
    BY <1>10, <1>12, <2>3 DEF Quiet
  <2>5. \A i \in 1 .. Len(Wired[d]) : ~new[Wired[d][i]].changed
    BY <2>3, Wiring
  <2> QED BY <1>10, <1>12, <2>4, <2>5
<1> QED BY <1>9, <1>10, <1>12, <1>13, <1>14, <1>15 DEF new

Resumed(st, d) == [st EXCEPT !.on[d] = TRUE]
LEMMA ResumeMoves ==
    ASSUME NEW st, Fits(st), NEW d \in Drivers, NEW st2, st2 = Resume(st, d)
    PROVE  /\ MovesOne(st, st2, d)
           /\ d \in Debounced => st2.on[d]
           /\ d \in Demux \/ (d \in Debounced /\ st.on[d]) => st2 = st
           /\ st.cb[d] # "none" /\ st2.crashed => st.crashed
           /\ \A n \in Nat : d \in Debounced /\ Quiet(st, d, n) /\ n < st.press
                => Quiet(st2, d, n + 1) /\ (st2.crashed => st.crashed)
<1>1. /\ d \in Demux => st2 = st
      /\ d \in Debounced => st2 = IF st.on[d] THEN st ELSE Read(Resumed(st, d), d)
  <2>1. /\ d \in Demux => d \notin Matrix /\ d \notin Direct /\ d \notin Charlieplex
        /\ d \in Direct => d \notin Matrix
        /\ d \in Charlieplex => d \notin Matrix /\ d \notin Direct
        /\ d \in Debounced <=> d \in Matrix \/ d \in Direct \/ d \in Charlieplex
    BY KscanAssumption DEF Debounced
  <2> QED BY <2>1 DEF Resume, MatrixResume, DirectResume, CharlieplexResume, Resumed
<1>2. CASE st2 = st
  <2>1. MovesOne(st, st, d)
    BY DEF MovesOne, Same
  <2>2. d \in Debounced => st2.on[d]
    <3>1. CASE d \in Debounced /\ ~st.on[d]
      <4> DEFINE u == Resumed(st, d)
      <4>1. st2 = Read(u, d) /\ u.on = [st.on EXCEPT ![d] = TRUE] /\ d \in DOMAIN st.on
        BY <1>1, <3>1 DEF Resumed, Fits, Scanner
      <4>2. u.on[d] /\ Fits(u)
        <5>1. u \in Scanner /\ u.cb = st.cb /\ u.queue = st.queue
          BY <3>1 DEF Fits, Scanner, Resumed
        <5> QED BY <4>1, <5>1 DEF Fits, Called
      <4> HIDE DEF u
      <4>3. st2.on = u.on
        BY <4>1, <4>2, ReadMoves
      <4> QED BY <4>2, <4>3
    <3> QED BY <1>2, <3>1
  <2>3. \A n \in Nat : Quiet(st, d, n) => Quiet(st2, d, n + 1)
    <3>1. \A k \in SwitchesOf[d] : st.key[k].counter \in Nat
      BY Wiring DEF Fits, Scanner, KeyState
    <3> QED BY <1>2, <3>1 DEF Quiet
  <2> QED BY <1>2, <2>1, <2>2, <2>3
<1>3. CASE st2 # st
  <2>1. d \in Debounced /\ ~st.on[d] /\ d \notin Demux
    BY <1>1, <1>3 DEF Drivers
  <2> DEFINE u == Resumed(st, d)
  <2>2. st2 = Read(u, d)
    BY <1>1, <2>1
  <2>3. /\ u \in Scanner /\ Same(st, u) /\ u.key = st.key /\ u.queue = st.queue /\ u.positions = st.positions
        /\ u.crashed = st.crashed /\ u.dropped = st.dropped /\ u.moved = st.moved
        /\ u.mode = st.mode /\ u.timer = st.timer /\ u.on = [st.on EXCEPT ![d] = TRUE]
    BY <2>1 DEF Fits, Scanner, Same, Resumed
  <2>4. u.on[d] /\ \A e \in Debounced \ {d} : u.on[e] = st.on[e]
    <3>1. st.on \in [Debounced -> BOOLEAN]
      BY DEF Fits, Scanner
    <3> QED BY <2>1, <2>3, <3>1
  <2> HIDE DEF u
  <2>5. MovesOne(st, u, d)
    BY <2>3, <2>4, OthersMove
  <2>6. Fits(u) /\ u.cb = st.cb /\ u.press = st.press
    BY <2>5 DEF MovesOne, Same
  <2>7. /\ MovesOne(u, st2, d) /\ st2.on = u.on
        /\ u.cb[d] # "none" /\ st2.crashed => u.crashed
        /\ \A n \in Nat : d \in Debounced /\ Quiet(u, d, n) /\ n < u.press
             => Quiet(st2, d, n + 1) /\ (st2.crashed => u.crashed)
    BY <2>2, <2>6, ReadMoves
  <2>8. MovesOne(st, st2, d)
    BY <2>5, <2>7, MovesOn
  <2>9. \A n \in Nat : Quiet(st, d, n) => Quiet(u, d, n)
    BY <2>3 DEF Quiet
  <2> QED BY <1>3, <2>1, <2>3, <2>4, <2>6, <2>7, <2>8, <2>9
<1> QED BY <1>2, <1>3

\* What a driver reports is the same.
Silent(st, st2) ==
    /\ st2.key = st.key /\ st2.queue = st.queue /\ st2.positions = st.positions
    /\ st2.crashed = st.crashed /\ st2.dropped = st.dropped /\ st2.moved = st.moved

Turned(st, m, o, i) == [st EXCEPT !.mode = m, !.on = o, !.timer = i]

LEMMA TurnedMoves ==
    ASSUME NEW st, Fits(st), NEW m \in [Drivers -> Modes], NEW o \in [Debounced -> BOOLEAN],
           NEW i \in [Demux -> BOOLEAN], NEW d,
           \A e \in Drivers \ {d} : m[e] = st.mode[e],
           \A e \in Debounced \ {d} : o[e] = st.on[e],
           \A e \in Demux \ {d} : i[e] = st.timer[e],
           NEW st2, st2 = Turned(st, m, o, i)
    PROVE  MovesOne(st, st2, d) /\ Silent(st, st2) /\ st2.mode = m /\ st2.on = o /\ st2.timer = i
<1>1. /\ st2 \in Scanner /\ Same(st, st2) /\ Silent(st, st2)
      /\ st2.mode = m /\ st2.on = o /\ st2.timer = i
  BY DEF Fits, Scanner, Same, Silent, Turned
<1>2. /\ \A e \in Drivers \ {d} : st2.mode[e] = st.mode[e]
      /\ \A e \in Debounced \ {d} : st2.on[e] = st.on[e]
      /\ \A e \in Demux \ {d} : st2.timer[e] = st.timer[e]
  BY <1>1
<1> QED BY <1>1, <1>2, OthersMove DEF Silent

LEMMA EnableMoves ==
    ASSUME NEW st, Fits(st), NEW d \in Drivers, NEW st2, st2 = Enable(st, d)
    PROVE  /\ MovesOne(st, st2, d)
           /\ d \in Debounced => st2.mode[d] # "off" /\ st2.on[d] = st.on[d]
           /\ d \in Demux => st2.timer[d]
           /\ (d \in Demux \/ st.cb[d] # "none") /\ st2.crashed => st.crashed
           /\ \A n \in Nat : d \in Debounced /\ Quiet(st, d, n) /\ n < st.press
                => Quiet(st2, d, n + 1) /\ (st2.crashed => st.crashed)
<1>1. d \in Demux <=> d \notin Debounced
  BY KscanAssumption DEF Drivers, Debounced
<1>2. CASE d \in Demux
  <2> DEFINE m == [st.mode EXCEPT ![d] = "scheduled"]
             i == [st.timer EXCEPT ![d] = TRUE]
  <2>1. /\ st.mode \in [Drivers -> Modes] /\ st.timer \in [Demux -> BOOLEAN]
        /\ st.on \in [Debounced -> BOOLEAN]
    BY DEF Fits, Scanner
  <2>2. /\ m \in [Drivers -> Modes] /\ i \in [Demux -> BOOLEAN] /\ i[d]
        /\ \A e \in Drivers \ {d} : m[e] = st.mode[e]
        /\ \A e \in Demux \ {d} : i[e] = st.timer[e]
    BY <1>2, <2>1 DEF Modes
  <2>3. st2 = [st EXCEPT !.timer = i, !.mode = m]
    BY <1>2 DEF Enable, DemuxEnable
  <2> HIDE DEF m, i
  <2>4. st2 = Turned(st, m, st.on, i)
    BY <2>3 DEF Turned, Fits, Scanner
  <2>5. MovesOne(st, st2, d) /\ Silent(st, st2) /\ st2.timer = i
    BY <2>1, <2>2, <2>4, TurnedMoves
  <2> QED BY <1>1, <1>2, <2>2, <2>5 DEF Silent
<1>3. CASE d \notin Demux
  <2>1. st2 = Read(st, d)
    BY <1>3 DEF Enable
  <2>2. /\ MovesOne(st, st2, d) /\ st2.on = st.on
        /\ d \in Debounced => st2.mode[d] # "off"
        /\ st.cb[d] # "none" /\ st2.crashed => st.crashed
        /\ \A n \in Nat : d \in Debounced /\ Quiet(st, d, n) /\ n < st.press
             => Quiet(st2, d, n + 1) /\ (st2.crashed => st.crashed)
    BY <2>1, ReadMoves
  <2> QED BY <1>3, <2>2
<1> QED BY <1>2, <1>3

\* Why a driver that is switched on calls back.
Answered(st, d) == st.cb[d] # "none" \/ d \in Demux \/ (Quiet(st, d, 0) /\ 1 < st.press)

LEMMA OnMoves ==
    ASSUME NEW st, Fits(st), NEW d \in Drivers, NEW st2, st2 = Enable(Resume(st, d), d)
    PROVE  /\ MovesOne(st, st2, d)
           /\ d \in Debounced => st2.mode[d] # "off" /\ st2.on[d]
           /\ d \in Demux => st2.timer[d]
           /\ Answered(st, d) /\ st2.crashed => st.crashed
<1> DEFINE u == Resume(st, d)
<1>1. /\ MovesOne(st, u, d)
      /\ d \in Debounced => u.on[d]
      /\ d \in Demux => u = st
      /\ st.cb[d] # "none" /\ u.crashed => st.crashed
      /\ \A n \in Nat : d \in Debounced /\ Quiet(st, d, n) /\ n < st.press
           => Quiet(u, d, n + 1) /\ (u.crashed => st.crashed)
  BY ResumeMoves
<1>2. st2 = Enable(u, d)
  OBVIOUS
<1> HIDE DEF u
<1>3. Fits(u) /\ u.cb = st.cb /\ u.press = st.press
  BY <1>1 DEF MovesOne, Same
<1>4. /\ MovesOne(u, st2, d)
      /\ d \in Debounced => st2.mode[d] # "off" /\ st2.on[d] = u.on[d]
      /\ d \in Demux => st2.timer[d]
      /\ (d \in Demux \/ u.cb[d] # "none") /\ st2.crashed => u.crashed
      /\ \A n \in Nat : d \in Debounced /\ Quiet(u, d, n) /\ n < u.press
           => Quiet(st2, d, n + 1) /\ (st2.crashed => u.crashed)
  BY <1>2, <1>3, EnableMoves
<1>5. MovesOne(st, st2, d)
  BY <1>1, <1>4, MovesOn
<1>6. ASSUME Answered(st, d), st2.crashed PROVE st.crashed
  <2>1. CASE st.cb[d] # "none"
    BY <1>1, <1>3, <1>4, <1>6, <2>1
  <2>2. CASE d \in Demux
    BY <1>1, <1>4, <1>6, <2>2
  <2>3. CASE Quiet(st, d, 0) /\ 1 < st.press /\ d \notin Demux
    <3>1. d \in Debounced /\ 0 \in Nat /\ 1 \in Nat /\ 0 + 1 = 1 /\ 0 < st.press
      <4>1. st.press \in Nat
        BY DEF Fits, Scanner
      <4> QED BY <2>3, <4>1 DEF Drivers
    <3>2. Quiet(u, d, 1) /\ (u.crashed => st.crashed)
      BY <1>1, <2>3, <3>1
    <3>3. st2.crashed => u.crashed
      BY <1>3, <1>4, <2>3, <3>1, <3>2
    <3> QED BY <1>6, <3>2, <3>3
  <2> QED BY <1>6, <2>1, <2>2, <2>3 DEF Answered
<1> QED BY <1>1, <1>4, <1>5, <1>6

LEMMA OffMoves ==
    ASSUME NEW st, Fits(st), NEW d \in Drivers, NEW st2, st2 = Disable(st, d)
    PROVE  /\ MovesOne(st, st2, d) /\ Silent(st, st2)
           /\ d \in Debounced => st2.mode[d] = "off" /\ st2.on[d] = ~st.pm
           /\ d \in Demux => ~st2.timer[d] /\ st2.mode = st.mode
<1>1. d \in Demux <=> d \notin Debounced
  BY KscanAssumption DEF Drivers, Debounced
<1>0. st.mode \in [Drivers -> Modes] /\ st.timer \in [Demux -> BOOLEAN] /\ st.on \in [Debounced -> BOOLEAN]
  BY DEF Fits, Scanner
<1>2. CASE d \in Demux
  <2> DEFINE i == [st.timer EXCEPT ![d] = FALSE]
  <2>1. st2 = [st EXCEPT !.timer = i]
    <3>1. d \notin Matrix /\ d \notin Direct /\ d \notin Charlieplex
      BY <1>1, <1>2 DEF Debounced
    <3> QED BY <1>2, <3>1 DEF Disable, DemuxDisable
  <2>2. i \in [Demux -> BOOLEAN] /\ ~i[d] /\ \A e \in Demux \ {d} : i[e] = st.timer[e]
    BY <1>0, <1>2
  <2> HIDE DEF i
  <2>3. st2 = Turned(st, st.mode, st.on, i)
    BY <2>1 DEF Turned, Fits, Scanner
  <2>4. MovesOne(st, st2, d) /\ Silent(st, st2) /\ st2.mode = st.mode /\ st2.timer = i
    BY <1>0, <2>2, <2>3, TurnedMoves
  <2> QED BY <1>1, <1>2, <2>2, <2>4
<1>3. CASE d \in Debounced
  <2> DEFINE m == [st.mode EXCEPT ![d] = "off"]
             o == [st.on EXCEPT ![d] = ~st.pm]
  <2>1. st2 = [st EXCEPT !.mode = m, !.on = o]
    <3>1. CASE d \in Matrix
      <4>1. d \notin Direct /\ d \notin Charlieplex /\ d \notin Demux
        BY <3>1, KscanAssumption
      <4>2. st2 = MatrixOff(st, d)
        BY <3>1, <4>1 DEF Disable
      <4>3. MatrixOff(st, d) = [st EXCEPT !.mode = m, !.on = o]
        BY Zenon DEF MatrixOff
      <4> QED BY <4>2, <4>3
    <3>2. CASE d \in Direct
      <4>1. d \notin Matrix /\ d \notin Charlieplex /\ d \notin Demux
        BY <3>2, KscanAssumption
      <4>2. st2 = DirectOff(st, d)
        BY <3>2, <4>1 DEF Disable
      <4>3. DirectOff(st, d) = [st EXCEPT !.mode = m, !.on = o]
        BY Zenon DEF DirectOff
      <4> QED BY <4>2, <4>3
    <3>3. CASE d \in Charlieplex
      <4>1. d \notin Matrix /\ d \notin Direct /\ d \notin Demux
        BY <3>3, KscanAssumption
      <4>2. st2 = CharlieplexOff(st, d)
        BY <3>3, <4>1 DEF Disable
      <4>3. CharlieplexOff(st, d) = [st EXCEPT !.mode = m, !.on = o]
        BY Zenon DEF CharlieplexOff
      <4> QED BY <4>2, <4>3
    <3> QED BY <1>3, <3>1, <3>2, <3>3 DEF Debounced
  <2>2. m \in [Drivers -> Modes] /\ m[d] = "off" /\ \A e \in Drivers \ {d} : m[e] = st.mode[e]
    BY <1>0, <1>3 DEF Modes
  <2>5. o \in [Debounced -> BOOLEAN] /\ o[d] = ~st.pm /\ \A e \in Debounced \ {d} : o[e] = st.on[e]
    <3>1. (~st.pm) \in BOOLEAN
      OBVIOUS
    <3> QED BY <1>0, <1>3, <3>1
  <2> HIDE DEF m, o
  <2>3. st2 = Turned(st, m, o, st.timer)
    BY <2>1 DEF Turned, Fits, Scanner
  <2>4. MovesOne(st, st2, d) /\ Silent(st, st2) /\ st2.mode = m /\ st2.on = o
    BY <1>0, <2>2, <2>3, <2>5, TurnedMoves
  <2> QED BY <1>1, <1>3, <2>2, <2>4, <2>5
<1> QED BY <1>1, <1>2, <1>3

-----------------------------------------------------------------------------
(* One driver after the other. *)
Turn(op, prev, d) == IF op = "on" THEN Enable(Resume(prev, d), d) ELSE Disable(prev, d)

Turns(f, op, st, ds) == f = [i \in 0 .. Len(ds) |-> IF i = 0 THEN st ELSE Turn(op, f[i - 1], ds[i])]

LEMMA TurnsExist ==
    ASSUME NEW op, NEW st, NEW ds, Len(ds) \in Nat
    PROVE  \E f : Turns(f, op, st, ds)
<1> DEFINE E(m) == \E f : f = [i \in 0 .. m |-> IF i = 0 THEN st ELSE Turn(op, f[i - 1], ds[i])]
           T == {m \in Nat : ~E(m)}
<1>1. SUFFICES ASSUME T # {} PROVE FALSE
  BY DEF Turns
<1>2. PICK m \in T : m = 0 \/ (m - 1 \in Nat /\ m - 1 \notin T)
  BY <1>1, LeastOf
<1>3. m \in Nat /\ ~E(m)
  OBVIOUS
<1>4. CASE m = 0
  <2> DEFINE f == [i \in 0 .. m |-> st]
  <2>1. f = [i \in 0 .. m |-> IF i = 0 THEN st ELSE Turn(op, f[i - 1], ds[i])]
    BY <1>4
  <2> HIDE DEF f
  <2>2. E(m)
    BY <2>1
  <2> QED BY <1>3, <2>2
<1>5. CASE m # 0
  <2>0. m - 1 \in Nat /\ E(m - 1)
    BY <1>2, <1>5
  <2>1. PICK g : g = [i \in 0 .. m - 1 |-> IF i = 0 THEN st ELSE Turn(op, g[i - 1], ds[i])]
    BY <2>0
  <2> DEFINE f == [i \in 0 .. m |-> IF i = m THEN Turn(op, g[m - 1], ds[m]) ELSE g[i]]
  <2>2. ASSUME NEW i \in 0 .. m PROVE f[i] = IF i = 0 THEN st ELSE Turn(op, f[i - 1], ds[i])
    <3>1. CASE i = m
      <4>1. i # 0 /\ i - 1 = m - 1 /\ m - 1 \in 0 .. m /\ m - 1 # m
        BY <1>3, <1>5, <2>0, <3>1
      <4>2. f[i - 1] = g[m - 1]
        BY <4>1
      <4> HIDE <2>1
      <4> QED BY <3>1, <4>1, <4>2
    <3>2. CASE i # m
      <4>1. i \in 0 .. m - 1
        BY <1>3, <2>0, <3>2
      <4>2. f[i] = g[i]
        BY <3>2
      <4>3. g[i] = IF i = 0 THEN st ELSE Turn(op, g[i - 1], ds[i])
        BY <2>1, <4>1
      <4>4. i # 0 => i - 1 \in 0 .. m /\ i - 1 # m
        BY <1>3, <3>2, <4>1
      <4>5. i # 0 => f[i - 1] = g[i - 1]
        BY <4>4
      <4> HIDE <2>1
      <4> QED BY <4>2, <4>3, <4>5
    <3> QED BY <3>1, <3>2
  <2>3. f = [i \in 0 .. m |-> f[i]]
    OBVIOUS
  <2> HIDE DEF f
  <2>4. f = [i \in 0 .. m |-> IF i = 0 THEN st ELSE Turn(op, f[i - 1], ds[i])]
    BY <2>2, <2>3
  <2>5. E(m)
    BY <2>4
  <2> QED BY <1>3, <2>5
<1> QED BY <1>4, <1>5

\* A driver that has been switched.
SwitchedTo(op, st2, d) ==
    IF op = "on" THEN (d \in Debounced => st2.mode[d] # "off" /\ st2.on[d]) /\ (d \in Demux => st2.timer[d])
    ELSE (d \in Debounced => st2.mode[d] = "off" /\ st2.on[d] = ~st2.pm) /\ (d \in Demux => ~st2.timer[d])

LEMMA TurnMoves ==
    ASSUME NEW st, Fits(st), NEW d \in Drivers, NEW op \in {"on", "off"}, NEW st2, st2 = Turn(op, st, d)
    PROVE  /\ MovesOne(st, st2, d) /\ SwitchedTo(op, st2, d)
           /\ op = "off" => Silent(st, st2)
           /\ Answered(st, d) \/ op = "off" => (st2.crashed => st.crashed)
<1>1. CASE op = "on"
  <2>1. st2 = Enable(Resume(st, d), d)
    BY <1>1 DEF Turn
  <2>2. /\ MovesOne(st, st2, d)
        /\ d \in Debounced => st2.mode[d] # "off" /\ st2.on[d]
        /\ d \in Demux => st2.timer[d]
        /\ Answered(st, d) /\ st2.crashed => st.crashed
    BY <2>1, OnMoves
  <2> QED BY <1>1, <2>2 DEF SwitchedTo
<1>2. CASE op = "off"
  <2>1. st2 = Disable(st, d)
    BY <1>2 DEF Turn
  <2>2. /\ MovesOne(st, st2, d) /\ Silent(st, st2)
        /\ d \in Debounced => st2.mode[d] = "off" /\ st2.on[d] = ~st.pm
        /\ d \in Demux => ~st2.timer[d] /\ st2.mode = st.mode
    BY <2>1, OffMoves
  <2>3. st2.pm = st.pm /\ st2.crashed = st.crashed
    BY <2>2 DEF MovesOne, Same, Silent
  <2> QED BY <1>2, <2>2, <2>3 DEF SwitchedTo
<1> QED BY <1>1, <1>2

MovesAll(st, st2, D) ==
    /\ Fits(st2) /\ Same(st, st2)
    /\ \A e \in Drivers \ D : st2.mode[e] = st.mode[e]
    /\ \A e \in Debounced \ D : st2.on[e] = st.on[e]
    /\ \A e \in Demux \ D : st2.timer[e] = st.timer[e]
    /\ \A k \in Switches : (\A d \in D : k \notin SwitchesOf[d]) => st2.key[k] = st.key[k]
    /\ AllSound(st) => AllSound(st2)
    /\ Coherent(st, {}) => Coherent(st2, {})

LEMMA InTurnMoves ==
    ASSUME NEW st, Fits(st), NEW ds \in Seq(Drivers), IsInjective(ds), NEW op \in {"on", "off"},
           NEW st2, st2 = InTurn(op, st, ds)
    PROVE  /\ MovesAll(st, st2, Range(ds)) /\ \A d \in Range(ds) : SwitchedTo(op, st2, d)
           /\ op = "off" => Silent(st, st2)
           /\ (\A d \in Range(ds) : Answered(st, d)) \/ op = "off" => (st2.crashed => st.crashed)
<1> DEFINE f == CHOOSE g : g = [i \in 0 .. Len(ds) |-> IF i = 0 THEN st ELSE Turn(op, g[i - 1], ds[i])]
           n == Len(ds)
           First(i) == {ds[j] : j \in 1 .. i}
           Ready == (\A d \in Range(ds) : Answered(st, d)) \/ op = "off"
           Good(i) == /\ MovesAll(st, f[i], First(i)) /\ \A d \in First(i) : SwitchedTo(op, f[i], d)
                      /\ op = "off" => Silent(st, f[i])
                      /\ Ready => (f[i].crashed => st.crashed)
           B == {i \in 0 .. n : ~Good(i)}
<1>0. n \in Nat /\ \A i \in 1 .. n : ds[i] \in Drivers
  OBVIOUS
<1>1. f = [i \in 0 .. n |-> IF i = 0 THEN st ELSE Turn(op, f[i - 1], ds[i])]
  <2> HIDE DEF f, First, Ready, Good, B
  <2>1. \E g : Turns(g, op, st, ds)
    BY <1>0, TurnsExist
  <2>2. Turns(CHOOSE g : Turns(g, op, st, ds), op, st, ds)
    BY <2>1, Zenon
  <2>3. f = CHOOSE g : Turns(g, op, st, ds)
    BY DEF f, Turns
  <2> QED BY <2>2, <2>3 DEF Turns
<1>2. st2 = f[n]
  BY DEF InTurn, Turn
<1> HIDE DEF f
<1>3. First(n) = Range(ds)
  BY <1>0 DEF Range
<1>4. SUFFICES B = {}
  <2>1. Good(n)
    <3>1. n \in 0 .. n
      BY <1>0
    <3> HIDE DEF Good
    <3> QED BY <1>4, <3>1
  <2> HIDE DEF First
  <2> QED BY <1>2, <1>3, <2>1
<1>5. SUFFICES ASSUME B # {} PROVE FALSE
  OBVIOUS
<1>6. PICK m \in B : m = 0 \/ (m - 1 \in Nat /\ m - 1 \notin B)
  <2>1. B \subseteq Nat
    BY <1>0
  <2> QED BY <1>5, <2>1, LeastOf
<1>7. m \in 0 .. n /\ ~Good(m)
  OBVIOUS
<1>8. m # 0
  <2>1. f[0] = st
    BY <1>0, <1>1
  <2>2. First(0) = {}
    OBVIOUS
  <2>3. MovesAll(st, st, {})
    BY DEF MovesAll, Same
  <2>4. Silent(st, st)
    BY DEF Silent
  <2>5. Good(0)
    BY <2>1, <2>2, <2>3, <2>4
  <2> QED BY <1>7, <2>5
<1>9. m - 1 \in 0 .. n /\ m \in 1 .. n /\ m \in Nat
  BY <1>0, <1>6, <1>7, <1>8
<1>10. Good(m - 1)
  BY <1>6, <1>8, <1>9
<1> DEFINE p == f[m - 1]
           d == ds[m]
           u == f[m]
<1>11. u = Turn(op, p, d)
  BY <1>1, <1>7, <1>8
<1>12. First(m) = First(m - 1) \union {d}
  <2>1. \A j \in 1 .. m : j = m \/ j \in 1 .. m - 1
    BY <1>9
  <2>2. m \in 1 .. m /\ \A j \in 1 .. m - 1 : j \in 1 .. m
    BY <1>9
  <2> QED BY <2>1, <2>2
<1>13. d \notin First(m - 1) /\ First(m - 1) \subseteq Drivers /\ d \in Drivers /\ d \in Range(ds)
  <2>1. \A j \in 1 .. m - 1 : j # m /\ j \in DOMAIN ds /\ m \in DOMAIN ds
    BY <1>0, <1>9
  <2>2. \A j \in 1 .. m - 1 : ds[j] # ds[m] /\ ds[j] \in Drivers
    BY <2>1 DEF IsInjective
  <2> QED BY <1>0, <1>3, <1>9, <2>2 DEF Range
<1>14. /\ MovesAll(st, p, First(m - 1)) /\ \A e \in First(m - 1) : SwitchedTo(op, p, e)
       /\ op = "off" => Silent(st, p)
       /\ Ready => (p.crashed => st.crashed)
  BY <1>10
<1> DEFINE D == First(m - 1)
<1>15. Ready => Answered(p, d) \/ op = "off"
  <2>1. SUFFICES ASSUME Answered(st, d) PROVE Answered(p, d)
    BY <1>13
  <2> HIDE DEF d, p, First
  <2>2. \A k \in SwitchesOf[d] : k \in Switches /\ \A e \in D : k \notin SwitchesOf[e]
    BY <1>13, Wiring, KscanAssumption
  <2>3. \A k \in SwitchesOf[d] : p.key[k] = st.key[k]
    BY <1>14, <2>2 DEF MovesAll
  <2>4. p.cb = st.cb /\ p.press = st.press
    BY <1>14 DEF MovesAll, Same
  <2> QED BY <2>1, <2>3, <2>4 DEF Answered, Quiet
<1> HIDE DEF u, p, d, D, First, Ready
<1>16. /\ MovesOne(p, u, d) /\ SwitchedTo(op, u, d)
       /\ op = "off" => Silent(p, u)
       /\ Answered(p, d) \/ op = "off" => (u.crashed => p.crashed)
  <2>1. Fits(p)
    BY <1>14 DEF MovesAll
  <2> QED BY <1>11, <1>13, <2>1, TurnMoves
<1>17. MovesAll(st, u, First(m))
  <2>1. Fits(u) /\ Same(st, u)
    BY <1>14, <1>16 DEF MovesAll, MovesOne, Same
  <2>2. /\ \A e \in Drivers \ First(m) : u.mode[e] = st.mode[e]
        /\ \A e \in Debounced \ First(m) : u.on[e] = st.on[e]
        /\ \A e \in Demux \ First(m) : u.timer[e] = st.timer[e]
    BY <1>12, <1>14, <1>16 DEF MovesAll, MovesOne
  <2>3. \A k \in Switches : (\A e \in First(m) : k \notin SwitchesOf[e]) => u.key[k] = st.key[k]
    BY <1>12, <1>14, <1>16 DEF MovesAll, MovesOne
  <2>4. (AllSound(st) => AllSound(u)) /\ (Coherent(st, {}) => Coherent(u, {}))
    BY <1>14, <1>16 DEF MovesAll, MovesOne
  <2> QED BY <2>1, <2>2, <2>3, <2>4 DEF MovesAll
<1>18. \A e \in First(m) : SwitchedTo(op, u, e)
  <2>1. ASSUME NEW e \in First(m - 1) PROVE SwitchedTo(op, u, e)
    <3>1. e \in Drivers /\ e # d /\ SwitchedTo(op, p, e)
      BY <1>13, <1>14
    <3>2. /\ u.mode[e] = p.mode[e] /\ u.pm = p.pm
          /\ e \in Debounced => u.on[e] = p.on[e]
          /\ e \in Demux => u.timer[e] = p.timer[e]
      BY <1>16, <3>1 DEF MovesOne, Same
    <3> QED BY <3>1, <3>2 DEF SwitchedTo
  <2> QED BY <1>12, <1>16, <2>1
<1>19. op = "off" => Silent(st, u)
  BY <1>14, <1>16 DEF Silent
<1>20. Ready => (u.crashed => st.crashed)
  BY <1>14, <1>15, <1>16
<1>21. Good(m)
  BY <1>17, <1>18, <1>19, <1>20 DEF u
<1> QED BY <1>7, <1>21

-----------------------------------------------------------------------------
(* Switching the kscan of a layout on and off.  Only the drivers D change,  *)
(* and what they call.                                                      *)
Alike(st, st2) ==
    /\ st2.active = st.active /\ st2.next = st.next /\ st2.pm = st.pm
    /\ st2.press = st.press /\ st2.release = st.release /\ st2.failed = st.failed
Shifts(st, st2, D) ==
    /\ Fits(st2) /\ Alike(st, st2)
    /\ \A e \in Drivers \ D : st2.mode[e] = st.mode[e] /\ st2.cb[e] = st.cb[e]
    /\ \A e \in Debounced \ D : st2.on[e] = st.on[e]
    /\ \A e \in Demux \ D : st2.timer[e] = st.timer[e]
    /\ \A k \in Switches : (\A d \in D : k \notin SwitchesOf[d]) => st2.key[k] = st.key[k]
    /\ AllSound(st) => AllSound(st2)
    /\ Coherent(st, {}) => Coherent(st2, {})

LEMMA ShiftsOn ==
    ASSUME NEW st, NEW u, NEW st2, NEW D, Shifts(st, u, D), Shifts(u, st2, D)
    PROVE  Shifts(st, st2, D)
BY DEF Shifts, Alike

LEMMA AllMoveShifts ==
    ASSUME NEW st, NEW st2, NEW D, MovesAll(st, st2, D)
    PROVE  Shifts(st, st2, D) /\ st2.cb = st.cb /\ st2.sideOn = st.sideOn
BY DEF MovesAll, Shifts, Same, Alike

LEMMA OneMovesShifts ==
    ASSUME NEW st, NEW st2, NEW d, MovesOne(st, st2, d)
    PROVE  Shifts(st, st2, {d}) /\ st2.cb = st.cb /\ st2.sideOn = st.sideOn
BY DEF MovesOne, Shifts, Same, Alike

Calling(st, c, b) == [st EXCEPT !.cb = c, !.sideOn = b]

LEMMA CallsShift ==
    ASSUME NEW st, Fits(st), NEW c \in [Names -> Calls], NEW b \in BOOLEAN, NEW D,
           \A d \in Drivers :
             /\ c[d] = "composite" => d \in Range(Children[Composite]) /\ c[Composite] # "none"
             /\ c[d] = "side" => d = Inner,
           \A e \in Drivers \ D : c[e] = st.cb[e],
           NEW st2, st2 = Calling(st, c, b)
    PROVE  /\ Shifts(st, st2, D) /\ Silent(st, st2) /\ st2.cb = c
           /\ st2.mode = st.mode /\ st2.on = st.on /\ st2.timer = st.timer
<1>1. /\ st2 \in Scanner /\ Alike(st, st2) /\ Silent(st, st2) /\ st2.cb = c
      /\ st2.mode = st.mode /\ st2.on = st.on /\ st2.timer = st.timer
  BY DEF Fits, Scanner, Alike, Silent, Calling
<1>2. Fits(st2)
  BY <1>1 DEF Fits, Called, Silent
<1>3. AllSound(st) => AllSound(st2)
  BY <1>1 DEF AllSound, Silent, Alike
<1>4. Coherent(st, {}) => Coherent(st2, {})
  <2> DEFINE none == {}
  <2>1. none \subseteq none /\ st2.active = st.active /\ st2.next = st.next /\ (Clean(st2) => Clean(st))
    BY <1>1 DEF Alike, Silent, Clean
  <2> HIDE DEF none
  <2>2. \A k \in Switches \ none : st2.key[k].pressed = st.key[k].pressed
    BY <1>1 DEF Silent
  <2>3. st2.queue = st.queue /\ st2.positions = st.positions
    BY <1>1 DEF Silent
  <2>4. Coherent(st, none) => Coherent(st2, none)
    BY <2>1, <2>2, <2>3, StillCoherent
  <2> QED BY <2>4 DEF none
<1>5. \A k \in Switches : st2.key[k] = st.key[k]
  BY <1>1 DEF Silent
<1> QED BY <1>1, <1>2, <1>3, <1>4, <1>5 DEF Shifts

\* A driver that calls nobody has not read yet; without power management all run.
Untouched(st) == \A d \in Drivers : st.cb[d] = "none" => Quiet(st, d, 0) /\ st.mode[d] = "off"
AllRun(st) == ~st.pm => \A d \in Debounced : st.on[d]

LEMMA StillUntouched ==
    ASSUME NEW st, NEW st2, NEW D, D \subseteq Drivers, Shifts(st, st2, D), Untouched(st),
           \A d \in D : st2.cb[d] # "none"
    PROVE  Untouched(st2)
<1> SUFFICES ASSUME NEW d \in Drivers, st2.cb[d] = "none"
             PROVE  Quiet(st2, d, 0) /\ st2.mode[d] = "off"
  BY DEF Untouched
<1>1. d \in Drivers \ D
  OBVIOUS
<1>2. st.cb[d] = "none" /\ st2.mode[d] = st.mode[d]
  BY <1>1 DEF Shifts
<1>3. \A k \in SwitchesOf[d] : k \in Switches /\ \A e \in D : k \notin SwitchesOf[e]
  BY <1>1, Wiring, KscanAssumption
<1>4. \A k \in SwitchesOf[d] : st2.key[k] = st.key[k]
  BY <1>3 DEF Shifts
<1> QED BY <1>2, <1>4 DEF Untouched, Quiet

LEMMA StillRun ==
    ASSUME NEW st, NEW st2, NEW D, D \subseteq Drivers, Shifts(st, st2, D), AllRun(st),
           \A d \in D \intersect Debounced : st2.on[d] \/ st2.pm
    PROVE  AllRun(st2)
BY DEF Shifts, Alike, AllRun

\* Switched on, and told whom to call.
LEMMA ResumeShifts ==
    ASSUME NEW st, Fits(st), AllRun(st), NEW d \in Drivers, st.cb[d] # "none" \/ Quiet(st, d, 0),
           NEW st2, st2 = Resume(st, d)
    PROVE  /\ Shifts(st, st2, {d}) /\ st2.cb = st.cb /\ st2.sideOn = st.sideOn
           /\ d \in Debounced => st2.on[d]
           /\ st2.crashed => st.crashed \/ (st.pm /\ st.press <= 0)
<1>1. /\ MovesOne(st, st2, d)
      /\ d \in Debounced => st2.on[d]
      /\ d \in Demux \/ (d \in Debounced /\ st.on[d]) => st2 = st
      /\ st.cb[d] # "none" /\ st2.crashed => st.crashed
      /\ \A n \in Nat : d \in Debounced /\ Quiet(st, d, n) /\ n < st.press
           => Quiet(st2, d, n + 1) /\ (st2.crashed => st.crashed)
  BY ResumeMoves
<1>2. Shifts(st, st2, {d}) /\ st2.cb = st.cb /\ st2.sideOn = st.sideOn
  BY <1>1, OneMovesShifts
<1>3. ASSUME st2.crashed, ~st.crashed PROVE st.pm /\ st.press <= 0
  <2>1. d \in Debounced /\ ~st.on[d]
    BY <1>1, <1>3 DEF Drivers
  <2>2. st.pm
    BY <2>1 DEF AllRun
  <2>3. 0 \in Nat /\ Quiet(st, d, 0) /\ st.press \in Nat
    BY <1>1, <1>3 DEF Fits, Scanner
  <2>4. ~(0 < st.press)
    BY <1>1, <1>3, <2>1, <2>3
  <2> QED BY <2>2, <2>3, <2>4
<1> QED BY <1>1, <1>2, <1>3

LEMMA EnableShifts ==
    ASSUME NEW st, Fits(st), NEW d \in Drivers, st.cb[d] # "none", NEW st2, st2 = Enable(st, d)
    PROVE  /\ Shifts(st, st2, {d}) /\ st2.cb = st.cb /\ st2.sideOn = st.sideOn
           /\ (d \in Debounced => st.on[d]) => SwitchedTo("on", st2, d)
           /\ st2.crashed => st.crashed
<1>1. /\ MovesOne(st, st2, d)
      /\ d \in Debounced => st2.mode[d] # "off" /\ st2.on[d] = st.on[d]
      /\ d \in Demux => st2.timer[d]
      /\ (d \in Demux \/ st.cb[d] # "none") /\ st2.crashed => st.crashed
  BY EnableMoves
<1>2. Shifts(st, st2, {d}) /\ st2.cb = st.cb /\ st2.sideOn = st.sideOn
  BY <1>1, OneMovesShifts
<1> QED BY <1>1, <1>2 DEF SwitchedTo

\* What switching the drivers D on has made of st.
SwitchedOn(st, st2, D) ==
    /\ Shifts(st, st2, D)
    /\ \A d \in D : SwitchedTo("on", st2, d) /\ st2.cb[d] # "none"

\* Two states apart, the one driver runs, is given the callback c, and is enabled.
OneOn(st, d, c) == Enable([Resume(st, d) EXCEPT !.cb[d] = c], d)

LEMMA OneGoesOn ==
    ASSUME NEW st, Fits(st), AllRun(st), NEW d \in Drivers, st.cb[d] # "none" \/ Quiet(st, d, 0),
           NEW c \in {"layout", "side"}, c = "side" => d = Inner,
           NEW st2, st2 = OneOn(st, d, c)
    PROVE  /\ SwitchedOn(st, st2, {d}) /\ st2.cb = [st.cb EXCEPT ![d] = c]
           /\ st2.crashed => st.crashed \/ (st.pm /\ st.press <= 0)
<1> DEFINE u == Resume(st, d)
           v == [u EXCEPT !.cb[d] = c]
           C == [u.cb EXCEPT ![d] = c]
<1>1. /\ Shifts(st, u, {d}) /\ u.cb = st.cb /\ u.sideOn = st.sideOn
      /\ d \in Debounced => u.on[d]
      /\ u.crashed => st.crashed \/ (st.pm /\ st.press <= 0)
  BY ResumeShifts
<1>2. st2 = Enable(v, d)
  BY DEF OneOn
<1> HIDE DEF u
<1>3. Fits(u) /\ u \in Scanner /\ u.cb \in [Names -> Calls] /\ u.sideOn \in BOOLEAN
  BY <1>1 DEF Shifts, Fits, Scanner
<1>4. d \in Names /\ Composite \in Names /\ d # Composite
  BY KscanAssumption DEF Names
<1>5. /\ C \in [Names -> Calls] /\ C[d] = c /\ \A e \in Drivers \ {d} : C[e] = u.cb[e]
      /\ C[Composite] = u.cb[Composite]
  BY <1>3, <1>4 DEF Calls, Names
<1>6. /\ \A e \in Drivers : C[e] = "composite" => e \in Range(Children[Composite]) /\ C[Composite] # "none"
      /\ \A e \in Drivers : C[e] = "side" => e = Inner
  <2> HIDE DEF C
  <2>1. \A e \in Drivers : e = d \/ C[e] = u.cb[e]
    BY <1>5
  <2>2. C[d] # "composite"
    BY <1>5
  <2> QED BY <1>3, <1>5, <2>1, <2>2 DEF Fits, Called
<1>7. v = Calling(u, C, u.sideOn)
  BY <1>3 DEF Calling, Scanner
<1> HIDE DEF v, C
<1>8. /\ Shifts(u, v, {d}) /\ Silent(u, v) /\ v.cb = C
      /\ v.mode = u.mode /\ v.on = u.on /\ v.timer = u.timer
  BY <1>3, <1>5, <1>6, <1>7, CallsShift
<1>9. Fits(v) /\ v.cb[d] # "none" /\ (d \in Debounced => v.on[d]) /\ v.crashed = u.crashed
  BY <1>1, <1>5, <1>8 DEF Shifts, Silent
<1>10. /\ Shifts(v, st2, {d}) /\ st2.cb = v.cb
       /\ SwitchedTo("on", st2, d)
       /\ st2.crashed => v.crashed
  BY <1>2, <1>9, EnableShifts
<1>11. Shifts(st, st2, {d})
  BY <1>1, <1>8, <1>10, ShiftsOn
<1>12. st2.cb = [st.cb EXCEPT ![d] = c] /\ st2.cb[d] # "none"
  BY <1>1, <1>8, <1>9, <1>10 DEF C
<1> QED BY <1>1, <1>9, <1>10, <1>11, <1>12 DEF SwitchedOn

LEMMA SidebandGoesOn ==
    ASSUME NEW st, Fits(st), AllRun(st), st.cb[Inner] # "none" \/ Quiet(st, Inner, 0),
           NEW st2, st2 = SidebandOn(st)
    PROVE  /\ SwitchedOn(st, st2, {Inner})
           /\ st2.crashed => st.crashed \/ (st.pm /\ st.press <= 0)
<1>0. Inner \in Drivers
  BY Wiring
<1>1. ASSUME NEW u, Fits(u), AllRun(u), u.cb[Inner] # "none" \/ Quiet(u, Inner, 0), NEW v, v = SidebandEnable(u)
      PROVE  /\ SwitchedOn(u, v, {Inner}) /\ v.cb[Inner] = "side"
             /\ v.crashed => u.crashed \/ (u.pm /\ u.press <= 0)
  <2> DEFINE w == [u EXCEPT !.sideOn = TRUE]
             yes == TRUE
             E == {Inner}
  <2>1. u.cb \in [Names -> Calls] /\ Inner \in Names /\ u \in Scanner
    BY <1>0, <1>1 DEF Fits, Scanner, Names
  <2>2. w = Calling(u, u.cb, yes) /\ yes \in BOOLEAN
    BY <2>1 DEF Calling, Scanner
  <2>3. v = OneOn(w, Inner, "side")
    BY <1>1 DEF SidebandEnable, OneOn
  <2> HIDE DEF w, yes, E
  <2>4. \A d \in Drivers :
             /\ u.cb[d] = "composite" => d \in Range(Children[Composite]) /\ u.cb[Composite] # "none"
             /\ u.cb[d] = "side" => d = Inner
    BY <1>1 DEF Fits, Called
  <2>11. Shifts(u, w, E) /\ Silent(u, w) /\ w.cb = u.cb /\ w.on = u.on
    BY <1>1, <2>1, <2>2, <2>4, CallsShift
  <2>5. Shifts(u, w, {Inner}) /\ Silent(u, w) /\ w.cb = u.cb /\ w.on = u.on
    BY <2>11 DEF E
  <2>6. Fits(w) /\ AllRun(w) /\ w.crashed = u.crashed /\ w.pm = u.pm /\ w.press = u.press
    BY <1>1, <2>5 DEF Shifts, Alike, Silent, AllRun
  <2>7. w.cb[Inner] # "none" \/ Quiet(w, Inner, 0)
    BY <1>1, <2>5 DEF Silent, Quiet
  <2>8. /\ SwitchedOn(w, v, {Inner}) /\ v.cb = [w.cb EXCEPT ![Inner] = "side"]
        /\ v.crashed => w.crashed \/ (w.pm /\ w.press <= 0)
    BY <1>0, <2>3, <2>6, <2>7, OneGoesOn
  <2>9. Shifts(u, v, {Inner})
    BY <2>5, <2>8, ShiftsOn DEF SwitchedOn
  <2>10. v.cb[Inner] = "side"
    BY <2>1, <2>5, <2>8
  <2> QED BY <2>6, <2>8, <2>9, <2>10 DEF SwitchedOn
<1> DEFINE s1 == IF st.pm THEN SidebandEnable(st) ELSE st
           s2 == [s1 EXCEPT !.cb[Sideband] = "layout"]
<1>2. st2 = SidebandEnable(s2)
  BY DEF SidebandOn
<1>3. /\ Shifts(st, s1, {Inner}) /\ AllRun(s1)
      /\ s1.cb[Inner] # "none" \/ Quiet(s1, Inner, 0)
      /\ s1.crashed => st.crashed \/ (st.pm /\ st.press <= 0)
  <2>1. CASE st.pm
    <3>1. s1 = SidebandEnable(st)
      BY <2>1
    <3> HIDE DEF s1
    <3>2. /\ SwitchedOn(st, s1, {Inner}) /\ s1.cb[Inner] = "side"
          /\ s1.crashed => st.crashed \/ (st.pm /\ st.press <= 0)
      BY <1>1, <3>1
    <3>3. AllRun(s1)
      BY <2>1, <3>2 DEF SwitchedOn, Shifts, Alike, AllRun
    <3> QED BY <3>2, <3>3 DEF SwitchedOn
  <2>2. CASE ~st.pm
    <3>1. s1 = st
      BY <2>2
    <3>2. Shifts(st, st, {Inner})
      BY DEF Shifts, Alike
    <3> QED BY <3>1, <3>2
  <2> QED BY <2>1, <2>2
<1> HIDE DEF s1
<1>4. Fits(s1) /\ s1 \in Scanner /\ s1.cb \in [Names -> Calls] /\ s1.sideOn \in BOOLEAN
  BY <1>3 DEF Shifts, Fits, Scanner
<1> DEFINE C == [s1.cb EXCEPT ![Sideband] = "layout"]
<1>5. /\ C \in [Names -> Calls] /\ \A e \in Drivers : C[e] = s1.cb[e]
      /\ C[Composite] = s1.cb[Composite]
  <2>1. Sideband \notin Drivers /\ Sideband # Composite
    BY KscanAssumption
  <2> QED BY <1>4, <2>1 DEF Calls, Names
<1>6. s2 = Calling(s1, C, s1.sideOn)
  BY <1>4 DEF Calling, Scanner
<1> HIDE DEF s2, C
<1>7. \A d \in Drivers :
          /\ C[d] = "composite" => d \in Range(Children[Composite]) /\ C[Composite] # "none"
          /\ C[d] = "side" => d = Inner
  BY <1>4, <1>5 DEF Fits, Called
<1>8. Shifts(s1, s2, {Inner}) /\ Silent(s1, s2) /\ s2.cb = C /\ s2.on = s1.on
  BY <1>4, <1>5, <1>6, <1>7, CallsShift
<1>9. Fits(s2) /\ AllRun(s2) /\ s2.crashed = s1.crashed /\ s2.pm = s1.pm /\ s2.press = s1.press
  BY <1>3, <1>8 DEF Shifts, Alike, Silent, AllRun
<1>10. s2.cb[Inner] # "none" \/ Quiet(s2, Inner, 0)
  BY <1>0, <1>3, <1>5, <1>8 DEF Silent, Quiet
<1>11. /\ SwitchedOn(s2, st2, {Inner})
       /\ st2.crashed => s2.crashed \/ (s2.pm /\ s2.press <= 0)
  BY <1>1, <1>2, <1>9, <1>10
<1>12. Shifts(st, st2, {Inner})
  BY <1>3, <1>8, <1>11, ShiftsOn DEF SwitchedOn
<1>13. s1.pm = st.pm /\ s1.press = st.press
  BY <1>3 DEF Shifts, Alike
<1> QED BY <1>3, <1>9, <1>11, <1>12, <1>13 DEF SwitchedOn

LEMMA CompositeGoesOn ==
    ASSUME NEW st, Fits(st), AllRun(st), Untouched(st), NEW st2, st2 = CompositeOn(st)
    PROVE  /\ SwitchedOn(st, st2, Range(Children[Composite]))
           /\ st2.crashed => st.crashed \/ (st.pm /\ st.press <= 1)
<1> DEFINE ds == Children[Composite]
           D == Range(ds)
           u == IF st.pm THEN ResumeAndEnable(st, ds) ELSE st
           v == Configure(u, Composite, ds, "composite")
           C == [y \in Names |-> IF y = Composite THEN "layout" ELSE IF y \in D THEN "composite" ELSE u.cb[y]]
           how == "on"
<1>1. ds \in Seq(Drivers) /\ IsInjective(ds) /\ D \subseteq Drivers /\ how \in {"on", "off"} /\ how = "on"
  BY Wiring, KscanAssumption
<1>2. st2 = InTurn(how, v, ds) /\ (st.pm => u = InTurn(how, st, ds)) /\ (~st.pm => u = st)
  BY DEF CompositeOn, ResumeAndEnable
<1>3. v = Configure(u, Composite, ds, "composite")
  OBVIOUS
<1> HIDE DEF u, v, ds, how
<1>4. /\ Shifts(st, u, D) /\ u.cb = st.cb /\ u.sideOn = st.sideOn
      /\ u.crashed => st.crashed \/ (st.pm /\ st.press <= 1)
  <2>1. CASE st.pm
    <3>1. /\ MovesAll(st, u, Range(ds))
          /\ (\A d \in Range(ds) : Answered(st, d)) => (u.crashed => st.crashed)
      BY <1>1, <1>2, <2>1, InTurnMoves
    <3>2. Shifts(st, u, D) /\ u.cb = st.cb /\ u.sideOn = st.sideOn
      BY <3>1, AllMoveShifts
    <3>3. ASSUME 1 < st.press, NEW d \in Range(ds) PROVE Answered(st, d)
      <4>1. d \in Drivers
        BY <1>1
      <4> QED BY <3>3, <4>1 DEF Untouched, Answered
    <3>4. st.press \in Nat
      BY DEF Fits, Scanner
    <3> QED BY <2>1, <3>1, <3>2, <3>3, <3>4
  <2>2. CASE ~st.pm
    <3>1. Shifts(st, st, D)
      BY DEF Shifts, Alike
    <3> QED BY <1>2, <2>2, <3>1
  <2> QED BY <2>1, <2>2
<1>5. Fits(u) /\ u \in Scanner /\ u.cb \in [Names -> Calls] /\ u.sideOn \in BOOLEAN
  BY <1>4 DEF Shifts, Fits, Scanner
<1>6. v = Calling(u, C, u.sideOn)
  BY <1>3, <1>5 DEF Calling, Scanner, Configure
<1>7. Composite \in Names /\ Composite \notin Drivers /\ Drivers \subseteq Names
  BY KscanAssumption DEF Names
<1>8. /\ C \in [Names -> Calls] /\ C[Composite] = "layout"
      /\ \A d \in D : C[d] = "composite"
      /\ \A d \in Drivers \ D : C[d] = u.cb[d]
  BY <1>1, <1>5, <1>7 DEF Calls
<1>9. \A d \in Drivers :
          /\ C[d] = "composite" => d \in Range(Children[Composite]) /\ C[Composite] # "none"
          /\ C[d] = "side" => d = Inner
  <2> HIDE DEF C
  <2>1. \A d \in Drivers : d \in D \/ C[d] = u.cb[d]
    BY <1>8
  <2>2. Called(u)
    BY <1>5 DEF Fits
  <2>3. D = Range(Children[Composite])
    BY DEF ds
  <2> QED BY <1>8, <2>1, <2>2, <2>3 DEF Called
<1> HIDE DEF C
<1>10. Shifts(u, v, D) /\ Silent(u, v) /\ v.cb = C
  <2> HIDE DEF D
  <2> QED BY <1>5, <1>6, <1>8, <1>9, CallsShift
<1>11. Fits(v) /\ v.crashed = u.crashed
  BY <1>10 DEF Shifts, Silent
<1>12. /\ MovesAll(v, st2, Range(ds)) /\ \A d \in Range(ds) : SwitchedTo(how, st2, d)
       /\ (\A d \in Range(ds) : Answered(v, d)) => (st2.crashed => v.crashed)
  BY <1>1, <1>2, <1>11, InTurnMoves
<1>13. \A d \in D : v.cb[d] # "none"
  BY <1>8, <1>10
<1>14. Shifts(v, st2, D) /\ st2.cb = v.cb
  BY <1>12, AllMoveShifts
<1>15. Shifts(st, st2, D)
  BY <1>4, <1>10, <1>14, ShiftsOn
<1>16. st2.crashed => u.crashed
  BY <1>11, <1>12, <1>13 DEF Answered
<1>17. \A d \in D : SwitchedTo("on", st2, d) /\ st2.cb[d] # "none"
  BY <1>1, <1>12, <1>13, <1>14
<1> QED BY <1>4, <1>15, <1>16, <1>17 DEF SwitchedOn, ds

\* The drivers under the kscan of the layout that is selected.
DriversOf(st) == Range(DriversUnder(KscanOf[st.active]))

LEMMA SwitchOnShifts ==
    ASSUME NEW st, Fits(st), AllRun(st), Untouched(st), ~st.crashed, NEW st2, st2 = SwitchOn(st)
    PROVE  /\ SwitchedOn(st, st2, DriversOf(st)) /\ DriversOf(st) \subseteq Drivers
           /\ st2.crashed => st.pm /\ st.press <= (IF KscanOf[st.active] = Composite THEN 1 ELSE 0)
<1> DEFINE x == KscanOf[st.active]
<1>1. st.active \in Layouts /\ x \in Drivers \union {Input, Composite, Sideband} /\ st.press \in Nat
  BY KscanAssumption DEF Fits, Scanner
<1>2. \A d \in Drivers : st.cb[d] # "none" \/ Quiet(st, d, 0)
  BY DEF Untouched
<1>3. Input # Composite /\ Input # Sideband /\ Composite # Sideband
      /\ Input \notin Drivers /\ Composite \notin Drivers /\ Sideband \notin Drivers
  BY KscanAssumption
<1>4. CASE x = Input
  <2>1. st2 = st /\ DriversOf(st) = {}
    BY <1>3, <1>4, Wiring DEF SwitchOn, DriversOf
  <2>2. Shifts(st, st, {})
    BY DEF Shifts, Alike
  <2> QED BY <2>1, <2>2 DEF SwitchedOn
<1>5. CASE x = Composite
  <2>1. st2 = CompositeOn(st) /\ DriversOf(st) = Range(Children[Composite])
    BY <1>3, <1>5, Wiring DEF SwitchOn, DriversOf
  <2>2. /\ SwitchedOn(st, st2, Range(Children[Composite]))
        /\ st2.crashed => st.crashed \/ (st.pm /\ st.press <= 1)
    BY <2>1, CompositeGoesOn
  <2> QED BY <1>5, <2>1, <2>2, Wiring
<1>6. CASE x = Sideband
  <2>1. st2 = SidebandOn(st) /\ DriversOf(st) = {Inner}
    BY <1>3, <1>6, Wiring DEF SwitchOn, DriversOf
  <2>2. Inner \in Drivers
    BY Wiring
  <2>3. /\ SwitchedOn(st, st2, {Inner})
        /\ st2.crashed => st.crashed \/ (st.pm /\ st.press <= 0)
    BY <1>2, <2>1, <2>2, SidebandGoesOn
  <2> QED BY <1>3, <1>6, <2>1, <2>2, <2>3
<1>7. CASE x \in Drivers
  <2>1. DriversOf(st) = {x}
    BY <1>7, Wiring DEF DriversOf
  <2> DEFINE to == "layout"
  <2>2. st2 = OneOn(st, x, to) /\ to \in {"layout", "side"} /\ to # "side"
    BY <1>3, <1>7 DEF SwitchOn, OneOn
  <2> HIDE DEF to
  <2>3. /\ SwitchedOn(st, st2, {x})
        /\ st2.crashed => st.crashed \/ (st.pm /\ st.press <= 0)
    BY <1>2, <1>7, <2>2, OneGoesOn
  <2> QED BY <1>3, <1>7, <2>1, <2>3
<1> QED BY <1>1, <1>4, <1>5, <1>6, <1>7

LEMMA SwitchOffShifts ==
    ASSUME NEW st, Fits(st), NEW st2, st2 = SwitchOff(st)
    PROVE  /\ Shifts(st, st2, DriversOf(st)) /\ DriversOf(st) \subseteq Drivers /\ Silent(st, st2) /\ st2.cb = st.cb
           /\ \A d \in DriversOf(st) : SwitchedTo("off", st2, d)
<1> DEFINE x == KscanOf[st.active]
           how == "off"
<1>1. st.active \in Layouts /\ x \in Drivers \union {Input, Composite, Sideband}
  BY KscanAssumption DEF Fits, Scanner
<1>3. Input # Composite /\ Input # Sideband /\ Composite # Sideband
      /\ Input \notin Drivers /\ Composite \notin Drivers /\ Sideband \notin Drivers
  BY KscanAssumption
<1>0. \A u : Shifts(st, st, u) /\ Silent(st, st)
  BY DEF Shifts, Alike, Silent
<1>2. ASSUME NEW u, Fits(u), NEW d \in Drivers, NEW v, v = Disable(u, d)
      PROVE  Shifts(u, v, {d}) /\ Silent(u, v) /\ v.cb = u.cb /\ SwitchedTo("off", v, d)
  <2>1. v = Turn(how, u, d) /\ how \in {"on", "off"} /\ how = "off"
    BY <1>2 DEF Turn
  <2> HIDE DEF how
  <2>2. MovesOne(u, v, d) /\ SwitchedTo(how, v, d) /\ Silent(u, v)
    BY <1>2, <2>1, TurnMoves
  <2> QED BY <2>1, <2>2, OneMovesShifts
<1>4. CASE x = Input
  <2>1. st2 = st /\ DriversOf(st) = {}
    BY <1>3, <1>4, Wiring DEF SwitchOff, DriversOf
  <2> QED BY <1>0, <2>1
<1>5. CASE x = Composite
  <2> DEFINE ds == Children[Composite]
  <2>0. ds \in Seq(Drivers) /\ IsInjective(ds) /\ Range(ds) \subseteq Drivers /\ how \in {"on", "off"} /\ how = "off"
    BY Wiring, KscanAssumption
  <2>1. st2 = InTurn(how, st, ds) /\ DriversOf(st) = Range(ds)
    BY <1>3, <1>5, Wiring DEF SwitchOff, CompositeOff, DriversOf
  <2> HIDE DEF ds, how
  <2>2. /\ MovesAll(st, st2, Range(ds)) /\ \A d \in Range(ds) : SwitchedTo(how, st2, d)
        /\ Silent(st, st2)
    BY <2>0, <2>1, InTurnMoves
  <2>3. Shifts(st, st2, Range(ds)) /\ st2.cb = st.cb
    BY <2>2, AllMoveShifts
  <2> QED BY <2>0, <2>1, <2>2, <2>3
<1>6. CASE x = Sideband
  <2> DEFINE u == [st EXCEPT !.sideOn = FALSE]
             no == FALSE
             E == {Inner}
  <2>1. st2 = Disable(u, Inner) /\ DriversOf(st) = {Inner} /\ Inner \in Drivers
    BY <1>3, <1>6, Wiring DEF SwitchOff, SidebandOff, DriversOf
  <2>2. st \in Scanner /\ st.cb \in [Names -> Calls]
    BY DEF Fits, Scanner
  <2>3. u = Calling(st, st.cb, no) /\ no \in BOOLEAN
    BY <2>2 DEF Calling, Scanner
  <2>4. \A d \in Drivers :
             /\ st.cb[d] = "composite" => d \in Range(Children[Composite]) /\ st.cb[Composite] # "none"
             /\ st.cb[d] = "side" => d = Inner
    BY DEF Fits, Called
  <2> HIDE DEF u, no, E
  <2>5. Shifts(st, u, E) /\ Silent(st, u) /\ u.cb = st.cb
    BY <2>2, <2>3, <2>4, CallsShift
  <2>6. Fits(u)
    BY <2>5 DEF Shifts
  <2>7. Shifts(u, st2, {Inner}) /\ Silent(u, st2) /\ st2.cb = u.cb /\ SwitchedTo("off", st2, Inner)
    BY <1>2, <2>1, <2>6
  <2>8. Shifts(st, st2, {Inner})
    BY <2>5, <2>7, ShiftsOn DEF E
  <2>9. Silent(st, st2)
    BY <2>5, <2>7 DEF Silent
  <2> QED BY <2>1, <2>5, <2>7, <2>8, <2>9
<1>7. CASE x \in Drivers
  <2>1. DriversOf(st) = {x}
    BY <1>7, Wiring DEF DriversOf
  <2>2. st2 = Disable(st, x)
    BY <1>3, <1>7 DEF SwitchOff
  <2>3. Shifts(st, st2, {x}) /\ Silent(st, st2) /\ st2.cb = st.cb /\ SwitchedTo("off", st2, x)
    BY <1>2, <1>7, <2>2
  <2> QED BY <1>7, <2>1, <2>3
<1> QED BY <1>1, <1>4, <1>5, <1>6, <1>7

-----------------------------------------------------------------------------
(* The inductive invariant. *)
Still(st) ==
    /\ \A d \in Debounced : st.mode[d] = "off" /\ (st.pm => ~st.on[d])
    /\ \A d \in Demux : ~st.timer[d]
Scanned(st, D) ==
    /\ \A d \in Debounced : (st.mode[d] # "off" <=> d \in D) /\ (st.pm => (st.on[d] <=> d \in D))
    /\ \A d \in Demux : st.timer[d] <=> d \in D
Selected(st) == ~st.failed => IF st.next = -1 THEN Scanned(st, DriversOf(st)) ELSE Still(st)
Blamed(st) == st.crashed => st.pm /\ st.press <= (IF KscanOf[st.active] = Composite THEN 1 ELSE 0)
\* The drivers that have been switched on call somebody.
Attached(st) == st.next = -1 => \A d \in DriversOf(st) : st.cb[d] # "none"
KInv(st) ==
    /\ Fits(st) /\ AllSound(st) /\ Coherent(st, {})
    /\ AllRun(st) /\ Untouched(st) /\ Selected(st) /\ Attached(st) /\ Blamed(st)

\* From switched off to switched on.
LEMMA GoesOn ==
    ASSUME NEW st, Fits(st), AllSound(st), Coherent(st, {}), AllRun(st), Untouched(st), ~st.crashed,
           st.next = -1, st.failed \/ Still(st), NEW st2, st2 = SwitchOn(st)
    PROVE  KInv(st2)
<1> DEFINE D == DriversOf(st)
<1>1. /\ SwitchedOn(st, st2, D) /\ D \subseteq Drivers
      /\ st2.crashed => st.pm /\ st.press <= (IF KscanOf[st.active] = Composite THEN 1 ELSE 0)
  BY SwitchOnShifts
<1>2. DriversOf(st2) = D
  BY <1>1 DEF SwitchedOn, Shifts, Alike, DriversOf
<1> HIDE DEF D
<1>3. /\ Shifts(st, st2, D) /\ \A d \in D : SwitchedTo("on", st2, d) /\ st2.cb[d] # "none"
      /\ Fits(st2) /\ AllSound(st2) /\ Coherent(st2, {}) /\ Alike(st, st2)
  BY <1>1 DEF SwitchedOn, Shifts
<1>4. AllRun(st2)
  <2>1. \A d \in D \intersect Debounced : st2.on[d]
    BY <1>3 DEF SwitchedTo
  <2> QED BY <1>1, <1>3, <2>1, StillRun
<1>5. Untouched(st2)
  BY <1>1, <1>3, StillUntouched
<1>6. Blamed(st2)
  BY <1>1, <1>3 DEF Blamed, Alike
<1>7. Selected(st2)
  <2>1. ASSUME ~st2.failed PROVE Scanned(st2, D)
    <3>1. Still(st) /\ st2.pm = st.pm
      BY <1>3, <2>1 DEF Alike
    <3>2. ASSUME NEW d \in Debounced
          PROVE  (st2.mode[d] # "off" <=> d \in D) /\ (st2.pm => (st2.on[d] <=> d \in D))
      <4>1. d \in Drivers
        BY DEF Drivers
      <4>2. CASE d \in D
        BY <1>3, <3>2, <4>2 DEF SwitchedTo
      <4>3. CASE d \notin D
        <5>1. st2.mode[d] = st.mode[d] /\ st2.on[d] = st.on[d]
          BY <1>3, <4>1, <4>3 DEF Shifts
        <5> QED BY <3>1, <4>3, <5>1 DEF Still
      <4> QED BY <4>2, <4>3
    <3>3. ASSUME NEW d \in Demux PROVE st2.timer[d] <=> d \in D
      <4>2. CASE d \in D
        BY <1>3, <4>2 DEF SwitchedTo
      <4>3. CASE d \notin D
        <5>1. st2.timer[d] = st.timer[d]
          BY <1>3, <4>3 DEF Shifts
        <5> QED BY <3>1, <4>3, <5>1 DEF Still
      <4> QED BY <4>2, <4>3
    <3> QED BY <3>2, <3>3 DEF Scanned
  <2>2. st2.next = -1
    BY <1>3 DEF Alike
  <2> QED BY <1>2, <2>1, <2>2 DEF Selected
<1>8. Attached(st2)
  BY <1>2, <1>3 DEF Attached
<1> QED BY <1>3, <1>4, <1>5, <1>6, <1>7, <1>8 DEF KInv

-----------------------------------------------------------------------------
(* The initial states. *)
LEMMA OpenKeys == Open \in KeyState /\ ~Open.pressed /\ Open.counter = 0 /\ Open.age = 0
BY DEF Open, KeyState

LEMMA KInvInit == KscanInit => KInv(s)
<1> SUFFICES ASSUME KscanInit PROVE KInv(s)
  OBVIOUS
<1>1. PICK irq \in BOOLEAN, pm \in BOOLEAN, t \in Thresholds : s = Boot(irq, pm, irq, t)
  BY DEF KscanInit
<1> DEFINE st == [active |-> 0, next |-> -1, queue |-> <<>>, positions |-> {}, side |-> {},
              key |-> [k \in Switches |-> Open], mode |-> [d \in Drivers |-> "off"],
              on |-> [d \in Debounced |-> IF d \in Matrix THEN MatrixInit(pm)
                                     ELSE IF d \in Direct THEN DirectInit(pm) ELSE CharlieplexInit(pm)],
              timer |-> [d \in Demux |-> FALSE], cb |-> [x \in Names |-> "none"],
              sideOn |-> FALSE, irq |-> irq, irqPin |-> irq, pm |-> pm, press |-> t[1], release |-> t[2],
              crashed |-> FALSE, dropped |-> FALSE, moved |-> FALSE, failed |-> FALSE]
<1>2. s = SwitchOn(st)
  BY <1>1 DEF Boot
<1>3. t[1] \in Nat /\ t[2] \in Nat /\ 0 \in Layouts /\ QueueSize \in Nat
  BY KscanAssumption
<1>4. \A d \in Debounced : st.on[d] = ~pm
  BY DEF MatrixInit, DirectInit, CharlieplexInit
<1>5. st.on \in [Debounced -> BOOLEAN]
  <2>1. st.on = [d \in Debounced |-> ~pm]
    BY DEF MatrixInit, DirectInit, CharlieplexInit
  <2>2. (~pm) \in BOOLEAN
    OBVIOUS
  <2> QED BY <2>1, <2>2
<1>6. /\ st.active = 0 /\ st.next = -1 /\ st.queue = <<>> /\ st.positions = {} /\ st.side = {}
      /\ st.key = [k \in Switches |-> Open] /\ st.mode = [d \in Drivers |-> "off"]
      /\ st.timer = [d \in Demux |-> FALSE] /\ st.cb = [x \in Names |-> "none"]
      /\ st.pm = pm /\ st.press = t[1] /\ st.release = t[2]
      /\ st.crashed = FALSE /\ st.failed = FALSE
  OBVIOUS
<1>7. st \in Scanner
  <2>1. st.key \in [Switches -> KeyState]
    BY <1>6, OpenKeys
  <2>2. st.mode \in [Drivers -> Modes] /\ st.timer \in [Demux -> BOOLEAN] /\ st.cb \in [Names -> Calls]
    BY <1>6 DEF Modes, Calls
  <2>3. st.queue \in Seq(Switches \X BOOLEAN) /\ st.positions \in SUBSET Nat /\ st.side \in SUBSET SideKeys
    BY <1>6
  <2> QED BY <1>3, <1>5, <2>1, <2>2, <2>3 DEF Scanner
<1> HIDE DEF st
<1>8. Fits(st)
  <2>1. \A d \in Drivers : st.cb[d] = "none"
    BY <1>6 DEF Names
  <2>2. Len(st.queue) = 0
    BY <1>6
  <2> QED BY <1>3, <1>7, <2>1, <2>2 DEF Fits, Called
<1>9. AllSound(st)
  <2>1. Greater(st.press, st.release) \in Nat
    BY <1>3, <1>6 DEF Greater
  <2> QED BY <1>6, <2>1, OpenKeys DEF AllSound, Sound
<1>10. Coherent(st, {})
  <2>1. QueueUnder(st) /\ PlacesUnder(st)
    BY <1>6 DEF QueueUnder, PlacesUnder
  <2>2. RestBut(st, {})
    BY <1>6 DEF RestBut
  <2>3. \A k \in Switches : ~st.key[k].pressed /\ Told(st, k)
    BY <1>6, OpenKeys DEF Told
  <2> QED BY <2>1, <2>2, <2>3 DEF Coherent, ToldBut
<1>11. AllRun(st)
  BY <1>4, <1>6 DEF AllRun
<1>12. Untouched(st)
  BY <1>6, OpenKeys, Wiring DEF Untouched, Quiet
<1>13. Still(st)
  BY <1>4, <1>6 DEF Still, Drivers
<1> QED BY <1>2, <1>6, <1>8, <1>9, <1>10, <1>11, <1>12, <1>13, GoesOn

-----------------------------------------------------------------------------
(* The steps. *)

\* An interrupt, or a scan.
LEMMA MoveKeeps ==
    ASSUME NEW st, KInv(st), NEW d \in Drivers, st.mode[d] # "off", NEW st2, MovesOne(st, st2, d),
           st2.on = st.on, st2.timer = st.timer, d \in Debounced => st2.mode[d] # "off", st2.crashed => st.crashed
    PROVE  KInv(st2)
<1>1. Fits(st2) /\ Same(st, st2) /\ AllSound(st2) /\ Coherent(st2, {})
  BY DEF KInv, MovesOne
<1>2. AllRun(st2)
  BY <1>1 DEF KInv, AllRun, Same
<1>3. Untouched(st2)
  <2>1. Shifts(st, st2, {d}) /\ st2.cb = st.cb
    BY OneMovesShifts
  <2>2. st.cb[d] # "none" /\ Untouched(st)
    BY DEF KInv, Untouched
  <2>3. \A e \in {d} : st2.cb[e] # "none"
    BY <2>1, <2>2
  <2> DEFINE D == {d}
  <2>4. D \subseteq Drivers /\ Shifts(st, st2, D) /\ \A e \in D : st2.cb[e] # "none"
    BY <2>1, <2>3
  <2> HIDE DEF D
  <2> QED BY <2>2, <2>4, StillUntouched
<1>4. Blamed(st2)
  BY <1>1 DEF KInv, Blamed, Same
<1>5. Selected(st2)
  <2>1. \A e \in Debounced : st2.mode[e] # "off" <=> st.mode[e] # "off"
    BY DEF MovesOne, Drivers
  <2>2. DriversOf(st2) = DriversOf(st) /\ st2.next = st.next /\ st2.failed = st.failed /\ st2.pm = st.pm
    BY <1>1 DEF Same, DriversOf
  <2> QED BY <2>1, <2>2 DEF KInv, Selected, Scanned, Still
<1>6. Attached(st2)
  BY <1>1 DEF KInv, Attached, Same, DriversOf
<1> QED BY <1>1, <1>2, <1>3, <1>4, <1>5, <1>6 DEF KInv

LEMMA KInvInterrupt ==
    ASSUME KInv(s), NEW d \in Drivers, Triggered(d)
    PROVE  KInv(s')
<1> DEFINE m == "scheduled"
           st == s
           st2 == s'
<1>1. st.mode[d] # "off" /\ st2 = Waits(st, d, m) /\ m \in Modes /\ m # "off"
  BY DEF Triggered, Waits, Modes
<1>2. KInv(st)
  OBVIOUS
<1>3. KInv(st2)
  <2> HIDE DEF m, st, st2
  <2>1. Fits(st)
    BY <1>2 DEF KInv
  <2>2. MovesOne(st, st2, d) /\ Kept(st, st2) /\ st2.crashed = st.crashed /\ st2.mode[d] = m
    BY <1>1, <2>1, ModeMoves
  <2> QED BY <1>1, <1>2, <2>2, MoveKeeps DEF Kept
<1> QED BY <1>3

LEMMA KInvScan ==
    ASSUME KInv(s), NEW d \in Drivers, Scan(d)
    PROVE  KInv(s')
<1> DEFINE st == s
           st2 == s'
<1>1. st.mode[d] # "off" /\ st2 = Read(st, d) /\ KInv(st)
  BY DEF Scan
<1>2. KInv(st2)
  <2> HIDE DEF st, st2
  <2>1. Fits(st) /\ st.cb[d] # "none"
    BY <1>1 DEF KInv, Untouched
  <2>2. /\ MovesOne(st, st2, d) /\ st2.on = st.on /\ st2.timer = st.timer
        /\ d \in Debounced => st2.mode[d] # "off"
        /\ st.cb[d] # "none" /\ st2.crashed => st.crashed
    BY <1>1, <2>1, ReadMoves
  <2> QED BY <1>1, <2>1, <2>2, MoveKeeps
<1> QED BY <1>2

\* The switch k has only changed if its counter had run out.
Due(st, st2, k) ==
    st2.key[k].pressed # st.key[k].pressed
      => st.key[k].counter >= (IF st.key[k].pressed THEN st.release ELSE st.press)

\* A scan that gets as far as the first n switches.
LEMMA PartReads ==
    ASSUME NEW st, Fits(st), NEW d \in Charlieplex, NEW n \in 0 .. Len(Wired[d]), st.cb[d] # "none",
           NEW st2, st2 = CharlieplexRead(st, d, n)
    PROVE  /\ MovesOne(st, st2, d) /\ st2.on = st.on /\ (st2.crashed => st.crashed)
           /\ \A k \in Switches : Due(st, st2, k)
<1> DEFINE K == {Wired[d][i] : i \in 1 .. n}
           g == Greater(st.press, st.release)
           new == [k \in Switches |-> IF k \in K THEN Debounce(st.key[k], k \in closed, st.press, st.release)
                                      ELSE st.key[k]]
<1>1. d \in Drivers /\ Len(Wired[d]) \in Nat
  BY Wiring DEF Drivers, Debounced
<1>2. st.key \in [Switches -> KeyState] /\ st.press \in Nat /\ st.release \in Nat
  BY DEF Fits, Scanner
<1>3. ASSUME NEW k \in Switches
      PROVE  /\ new[k] \in KeyState
             /\ k \in K \/ new[k] = st.key[k]
             /\ new[k].pressed # st.key[k].pressed => new[k].changed
             /\ Sound(st.key[k], g) => Sound(new[k], g)
             /\ new[k].pressed # st.key[k].pressed
                  => st.key[k].counter >= (IF st.key[k].pressed THEN st.release ELSE st.press)
  <2>1. st.key[k] \in KeyState /\ (k \in closed) \in BOOLEAN
    BY <1>2
  <2>2. CASE k \notin K
    BY <2>1, <2>2
  <2>3. CASE k \in K
    <3>1. new[k] = Debounce(st.key[k], k \in closed, st.press, st.release)
      BY <2>3
    <3> HIDE DEF new, K
    <3> QED BY <1>2, <2>1, <2>3, <3>1, DebounceReads
  <2> QED BY <2>2, <2>3
<1>4. st2 = ReportSwitch([st EXCEPT !.key = new], d, n)
  BY DEF CharlieplexRead, Debounced1
<1>5. new = [k \in Switches |-> new[k]]
  OBVIOUS
<1> HIDE DEF new, g
<1>6. new \in [Switches -> KeyState]
  BY <1>3, <1>5
<1>7. \A k \in Switches : (\E i \in 1 .. n : Wired[d][i] = k) \/ new[k] = st.key[k]
  BY <1>3
<1> HIDE DEF K
<1>8. /\ Fits(st2) /\ Kept(st, st2) /\ st2.key = new /\ st2.mode = st.mode
      /\ st2.crashed => st.crashed \/ st.cb[d] = "none"
      /\ Coherent(st, {}) => Coherent(st2, {})
  BY <1>1, <1>3, <1>4, <1>6, <1>7, ReadingTells
<1>9. AllSound(st) => AllSound(st2)
  BY <1>3, <1>8 DEF AllSound, Kept, Same, g
<1>10. \A k \in Switches \ SwitchesOf[d] : st2.key[k] = st.key[k]
  <2>1. \A i \in 1 .. n : Wired[d][i] \in SwitchesOf[d]
    BY <1>1, Wiring
  <2> QED BY <1>7, <1>8, <2>1
<1>11. \A k \in Switches : Due(st, st2, k)
  BY <1>3, <1>8 DEF Due
<1> QED BY <1>8, <1>9, <1>10, <1>11 DEF MovesOne, Kept

LEMMA KInvScanFails ==
    ASSUME KInv(s), NEW d \in Drivers, ScanFails(d)
    PROVE  KInv(s')
<1> DEFINE st == s
           st2 == s'
<1>1. st.mode[d] # "off" /\ KInv(st) /\ d \in Debounced
  BY DEF ScanFails
<1>2. PICK u \in {st} \union {CharlieplexRead(st, d, n) : n \in IF d \in Charlieplex THEN 0..Len(Wired[d]) ELSE {}} :
         st2 = [u EXCEPT !.mode[d] = "off", !.failed = TRUE]
  BY DEF ScanFails
<1>3. st.cb[d] # "none"
  BY <1>1 DEF KInv, Untouched
<1> HIDE DEF st, st2
<1>4. MovesOne(st, u, d) /\ u.on = st.on /\ (u.crashed => st.crashed)
  <2>1. CASE u = st
    <3>1. Fits(st)
      BY <1>1 DEF KInv
    <3> QED BY <2>1, <3>1 DEF MovesOne, Same
  <2>2. CASE u # st
    <3>1. PICK n \in 0..Len(Wired[d]) : u = CharlieplexRead(st, d, n) /\ d \in Charlieplex
      BY <1>2, <2>2
    <3>2. Fits(st)
      BY <1>1 DEF KInv
    <3> QED BY <1>3, <3>1, <3>2, PartReads
  <2> QED BY <2>1, <2>2
<1>5. u \in Scanner /\ Fits(u) /\ Same(st, u)
  BY <1>4 DEF MovesOne, Fits
<1> DEFINE M == [u.mode EXCEPT ![d] = "off"]
<1>6. M \in [Drivers -> Modes] /\ \A e \in Drivers \ {d} : M[e] = u.mode[e]
  BY <1>5 DEF Scanner, Modes
<1>7. st2 = [u EXCEPT !.mode = M, !.failed = TRUE]
  BY <1>2
<1> HIDE DEF M
<1>8. /\ st2 \in Scanner /\ st2.mode = M /\ st2.failed /\ st2.queue = u.queue /\ st2.key = u.key /\ st2.cb = u.cb
      /\ st2.pm = u.pm /\ st2.on = u.on /\ st2.press = u.press /\ st2.release = u.release
      /\ st2.crashed = u.crashed /\ st2.active = u.active /\ st2.next = u.next
  BY <1>5, <1>6, <1>7 DEF Scanner
<1>9. Fits(st2)
  BY <1>5, <1>8 DEF Fits, Called
<1>10. AllSound(st2)
  BY <1>1, <1>4, <1>8 DEF KInv, MovesOne, AllSound
<1>11. Coherent(st2, {})
  BY <1>8 DEF Coherent, Clean
<1>12. AllRun(st2)
  BY <1>1, <1>4, <1>5, <1>8 DEF KInv, AllRun, Same
<1>13. Untouched(st2)
  <2>1. ASSUME NEW e \in Drivers, st2.cb[e] = "none" PROVE Quiet(st2, e, 0) /\ st2.mode[e] = "off"
    <3>1. e # d /\ st.cb[e] = "none" /\ Quiet(st, e, 0) /\ st.mode[e] = "off"
      BY <1>1, <1>3, <1>5, <1>8, <2>1 DEF KInv, Untouched, Same
    <3>2. st2.mode[e] = "off"
      BY <1>4, <1>6, <1>8, <3>1 DEF MovesOne
    <3>3. \A k \in SwitchesOf[e] : k \in Switches \ SwitchesOf[d]
      BY <3>1, Wiring, KscanAssumption
    <3>4. \A k \in SwitchesOf[e] : st2.key[k] = st.key[k]
      BY <1>4, <1>8, <3>3 DEF MovesOne
    <3> QED BY <3>1, <3>2, <3>4 DEF Quiet
  <2> QED BY <2>1 DEF Untouched
<1>14. Selected(st2)
  BY <1>8 DEF Selected
<1>15. Blamed(st2)
  BY <1>1, <1>4, <1>5, <1>8 DEF KInv, Blamed, Same
<1>17. Attached(st2)
  BY <1>1, <1>5, <1>8 DEF KInv, Attached, Same, DriversOf
<1>16. KInv(st2)
  BY <1>9, <1>10, <1>11, <1>12, <1>13, <1>14, <1>15, <1>17 DEF KInv
<1> QED BY <1>16 DEF st2

LEMMA KInvInput ==
    ASSUME KInv(s), InputEvent
    PROVE  KInv(s')
<1> DEFINE st == s
           st2 == s'
<1>1. KInv(st) /\ st \in Scanner
  BY DEF KInv, Fits
<1>2. PICK k \in InputKeys : st2 = Enqueue([st EXCEPT !.key[k] = Flip(@)], Input, k)
  BY DEF InputEvent
<1> HIDE DEF st, st2
<1>3. k \in Switches
  BY DEF Switches
<1> DEFINE N == [st.key EXCEPT ![k] = Flip(st.key[k])]
           u == [st EXCEPT !.key[k] = Flip(@)]
<1>4. st.key \in [Switches -> KeyState]
  BY <1>1 DEF Scanner
<1>5. Flip(st.key[k]) \in KeyState /\ Flip(st.key[k]).counter = 0 /\ Flip(st.key[k]).age = 0
  BY <1>3, <1>4 DEF Flip, KeyState
<1>6. N \in [Switches -> KeyState] /\ N[k].counter = 0 /\ N[k].age = 0 /\ \A j \in Switches \ {k} : N[j] = st.key[j]
  BY <1>3, <1>4, <1>5
<1>7. /\ u \in Scanner /\ Kept(st, u) /\ u.key = N /\ u.mode = st.mode /\ u.queue = st.queue
      /\ u.positions = st.positions /\ u.crashed = st.crashed /\ u.dropped = st.dropped /\ u.moved = st.moved
  <2>1. u = [st EXCEPT !.key = N]
    BY <1>1 DEF Scanner
  <2> HIDE DEF u, N
  <2> QED BY <1>1, <1>6, <2>1 DEF Scanner, Kept, Same
<1> HIDE DEF u, N
<1>8. Fits(u)
  BY <1>1, <1>7 DEF KInv, Fits, Called, Kept, Same
<1>9. AllSound(u)
  <2>1. Greater(st.press, st.release) \in Nat
    BY <1>1 DEF Scanner, Greater
  <2>2. \A j \in Switches : j = k \/ Sound(u.key[j], Greater(st.press, st.release))
    BY <1>1, <1>6, <1>7 DEF KInv, AllSound
  <2>3. Sound(u.key[k], Greater(st.press, st.release))
    BY <1>6, <1>7, <2>1 DEF Sound
  <2> QED BY <1>7, <2>2, <2>3 DEF AllSound, Kept, Same
<1>10. Coherent(u, {k})
  <2> DEFINE none == {}
             T == {k}
  <2>1. none \subseteq T /\ u.active = st.active /\ u.next = st.next /\ (Clean(u) => Clean(st))
    BY <1>7 DEF Kept, Same, Clean
  <2>2. \A j \in Switches \ T : u.key[j].pressed = st.key[j].pressed
    BY <1>6, <1>7
  <2>3. Coherent(st, none)
    BY <1>1 DEF KInv
  <2> HIDE DEF none, T
  <2>4. Coherent(u, T)
    BY <1>7, <2>1, <2>2, <2>3, StillCoherent
  <2> QED BY <2>4 DEF T
<1> DEFINE T == {k}
<1>11. Coherent(u, T) /\ T \ {k} = {}
  BY <1>10
<1>12. Input = KscanOf[u.active] => Under(u.active, k)
  BY <1>2 DEF Under
<1> HIDE DEF T
<1> DEFINE x == Input
<1>20. (x = KscanOf[u.active] => Under(u.active, k)) /\ st2 = Enqueue(u, x, k)
  BY <1>2, <1>12 DEF u
<1> HIDE DEF x
<1>21. /\ Fits(st2) /\ Kept(u, st2) /\ st2.key = u.key /\ st2.mode = u.mode /\ st2.crashed = u.crashed
       /\ Coherent(u, T) => Coherent(st2, T \ {k})
  BY <1>3, <1>8, <1>20, EnqueueTells
<1>13. /\ Fits(st2) /\ Kept(u, st2) /\ st2.key = u.key /\ st2.mode = u.mode /\ st2.crashed = u.crashed
       /\ Coherent(st2, {})
  BY <1>11, <1>21
<1>14. Kept(st, st2) /\ st2.mode = st.mode /\ st2.crashed = st.crashed
  BY <1>7, <1>13 DEF Kept, Same
<1>15. AllSound(st2)
  BY <1>9, <1>13 DEF AllSound, Kept, Same
<1>16. AllRun(st2) /\ Blamed(st2)
  BY <1>1, <1>14 DEF KInv, AllRun, Blamed, Kept, Same
<1>17. Untouched(st2)
  <2>1. \A d \in Drivers : \A j \in SwitchesOf[d] : st2.key[j] = st.key[j]
    <3>1. \A d \in Drivers : k \notin SwitchesOf[d] /\ \A j \in SwitchesOf[d] : j \in Switches
      BY <1>2, Wiring, KscanAssumption
    <3> QED BY <1>6, <1>7, <1>13, <3>1
  <2> QED BY <1>1, <1>14, <2>1 DEF KInv, Untouched, Quiet, Kept, Same
<1>18. Selected(st2)
  <2>1. DriversOf(st2) = DriversOf(st) /\ st2.next = st.next /\ st2.failed = st.failed /\ st2.pm = st.pm
        /\ st2.on = st.on /\ st2.timer = st.timer
    BY <1>14 DEF Kept, Same, DriversOf
  <2> QED BY <1>1, <1>14, <2>1 DEF KInv, Selected, Scanned, Still
<1>22. Attached(st2)
  BY <1>1, <1>14 DEF KInv, Attached, Kept, Same, DriversOf
<1>19. KInv(st2)
  BY <1>13, <1>15, <1>16, <1>17, <1>18, <1>22 DEF KInv
<1> QED BY <1>19 DEF st2

LEMMA KInvSelectOn ==
    ASSUME KInv(s), SelectOn
    PROVE  KInv(s')
<1> DEFINE st == s
           st2 == s'
           u == [st EXCEPT !.active = st.next, !.next = -1]
<1>1. KInv(st) /\ ~st.crashed /\ st.next # -1 /\ st2 = SwitchOn(u)
  BY DEF SelectOn
<1>2. st \in Scanner
  BY <1>1 DEF KInv, Fits
<1> HIDE DEF st, st2
<1>3. /\ u \in Scanner /\ u.next = -1 /\ u.active = st.next /\ u.queue = st.queue /\ u.key = st.key
      /\ u.mode = st.mode /\ u.on = st.on /\ u.timer = st.timer /\ u.cb = st.cb /\ u.pm = st.pm
      /\ u.press = st.press /\ u.release = st.release /\ u.crashed = st.crashed /\ u.dropped = st.dropped
      /\ u.moved = st.moved /\ u.failed = st.failed /\ u.positions = st.positions
  <2>1. st.next \in Layouts
    BY <1>1, <1>2 DEF Scanner
  <2> QED BY <1>2, <2>1 DEF Scanner
<1> HIDE DEF u
<1>4. Fits(u)
  BY <1>1, <1>3 DEF KInv, Fits, Called
<1>5. AllSound(u) /\ AllRun(u) /\ Untouched(u)
  BY <1>1, <1>3 DEF KInv, AllSound, AllRun, Untouched, Quiet
<1>6. u.failed \/ Still(u)
  BY <1>1, <1>3 DEF KInv, Selected, Still
<1>7. Coherent(u, {})
  <2> SUFFICES ASSUME Clean(u)
               PROVE  QueueUnder(u) /\ PlacesUnder(u) /\ ToldBut(u, {}) /\ RestBut(u, {})
    BY DEF Coherent
  <2>1. st.queue = <<>> /\ st.positions = {} /\ \A k \in Switches : ~st.key[k].pressed
    BY <1>1, <1>3 DEF KInv, Coherent, Clean, RestBut
  <2>2. \A k \in Switches : Told(u, k)
    BY <1>3, <2>1 DEF Told
  <2> QED BY <1>3, <2>1, <2>2 DEF QueueUnder, PlacesUnder, ToldBut, RestBut
<1>8. KInv(st2)
  BY <1>1, <1>3, <1>4, <1>5, <1>6, <1>7, GoesOn
<1> QED BY <1>8 DEF st2

LEMMA KInvSelectOff ==
    ASSUME KInv(s), SelectOff
    PROVE  KInv(s')
<1> DEFINE st == s
           st2 == s'
<1>1. KInv(st) /\ ~st.crashed /\ st.next = -1
  BY DEF SelectOff
<1>2. PICK l \in Layouts \ {st.active} :
        st2 = [SwitchOff(st) EXCEPT !.next = IF l \in TooLarge THEN -1 ELSE l,
                                   !.failed = @ \/ l \in TooLarge,
                                   !.moved = @ \/ st.queue # <<>> \/ \E k \in Switches : IsActive(st.key[k])]
  BY DEF SelectOff
<1> HIDE DEF st, st2
<1> DEFINE D == DriversOf(st)
           u == SwitchOff(st)
           nx == IF l \in TooLarge THEN -1 ELSE l
           fl == u.failed \/ l \in TooLarge
           busy == st.queue # <<>> \/ \E k \in Switches : IsActive(st.key[k])
           mv == u.moved \/ busy
<1>3. Fits(st) /\ st \in Scanner
  BY <1>1 DEF KInv, Fits
<1>4. /\ Shifts(st, u, D) /\ D \subseteq Drivers /\ Silent(st, u) /\ u.cb = st.cb
      /\ \A d \in D : SwitchedTo("off", u, d)
  BY <1>3, SwitchOffShifts
<1>5. st2 = [u EXCEPT !.next = nx, !.failed = fl, !.moved = mv]
  BY <1>2
<1> HIDE DEF u
<1>6. Fits(u) /\ u \in Scanner /\ AllSound(u) /\ Alike(st, u)
  BY <1>1, <1>4 DEF Shifts, KInv, Fits
<1>7. nx \in Layouts \union {-1} /\ fl \in BOOLEAN /\ mv \in BOOLEAN
  BY <1>6 DEF Scanner
<1>8. fl = FALSE => ~st.failed /\ nx \in Layouts /\ nx # -1
  <2>1. -1 \notin Layouts
    BY KscanAssumption
  <2> QED BY <1>6, <2>1 DEF Alike
<1>9. mv = FALSE => ~u.moved /\ ~busy
  OBVIOUS
<1> HIDE DEF nx, fl, mv
<1>10. /\ st2 \in Scanner /\ st2.next = nx /\ st2.failed = fl /\ st2.moved = mv /\ st2.active = u.active /\ st2.queue = u.queue
       /\ st2.key = u.key /\ st2.mode = u.mode /\ st2.on = u.on /\ st2.timer = u.timer /\ st2.cb = u.cb /\ st2.pm = u.pm
       /\ st2.press = u.press /\ st2.release = u.release /\ st2.crashed = u.crashed /\ st2.dropped = u.dropped
       /\ st2.positions = u.positions
  BY <1>5, <1>6, <1>7 DEF Scanner
<1>11. Fits(st2)
  BY <1>6, <1>10 DEF Fits, Called
<1>12. AllSound(st2)
  BY <1>6, <1>10 DEF AllSound
<1>13. AllRun(st2)
  <2>1. \A d \in D \intersect Debounced : u.on[d] \/ u.pm
    BY <1>4 DEF SwitchedTo
  <2>2. AllRun(st)
    BY <1>1 DEF KInv
  <2> HIDE DEF D
  <2>3. AllRun(u)
    BY <1>4, <2>1, <2>2, StillRun
  <2> QED BY <1>10, <2>3 DEF AllRun
<1>14. Untouched(st2)
  <2>1. ASSUME NEW d \in Drivers, st2.cb[d] = "none" PROVE Quiet(st2, d, 0) /\ st2.mode[d] = "off"
    <3>1. st.cb[d] = "none" /\ Quiet(st, d, 0) /\ st.mode[d] = "off"
      BY <1>1, <1>4, <1>10, <2>1 DEF KInv, Untouched
    <3>2. st2.mode[d] = "off"
      <4>1. CASE d \in D /\ d \in Debounced
        BY <1>4, <1>10, <4>1 DEF SwitchedTo
      <4>2. CASE d \notin D
        BY <1>4, <1>10, <3>1, <4>2 DEF Shifts
      <4>3. CASE d \in D /\ d \in Demux
        BY <1>1, <3>1, <4>3 DEF KInv, Attached
      <4> QED BY <4>1, <4>2, <4>3 DEF Drivers
    <3>3. Quiet(st2, d, 0)
      BY <1>4, <1>10, <3>1 DEF Quiet, Silent
    <3> QED BY <3>2, <3>3
  <2> QED BY <2>1 DEF Untouched
<1>15. Blamed(st2)
  BY <1>1, <1>4, <1>10 DEF Blamed, Silent
<1>16. Selected(st2)
  <2> SUFFICES ASSUME fl = FALSE PROVE Still(st2)
    BY <1>7, <1>8, <1>10 DEF Selected
  <2>1. Scanned(st, D)
    BY <1>1, <1>8 DEF KInv, Selected
  <2>2. st2.pm = st.pm
    BY <1>6, <1>10 DEF Alike
  <2>3. ASSUME NEW d \in Debounced PROVE st2.mode[d] = "off" /\ (st2.pm => ~st2.on[d])
    <3>0. d \in Drivers
      BY DEF Drivers
    <3>1. CASE d \in D
      BY <1>4, <1>10, <2>3, <3>1 DEF SwitchedTo
    <3>2. CASE d \notin D
      BY <1>4, <1>10, <2>1, <2>2, <3>0, <3>2 DEF Scanned, Shifts
    <3> QED BY <3>1, <3>2
  <2>4. ASSUME NEW d \in Demux PROVE ~st2.timer[d]
    <3>1. CASE d \in D
      BY <1>4, <1>10, <2>4, <3>1 DEF SwitchedTo
    <3>2. CASE d \notin D
      BY <1>4, <1>10, <2>1, <3>2 DEF Scanned, Shifts
    <3> QED BY <3>1, <3>2
  <2> QED BY <2>3, <2>4 DEF Still
<1>17. Coherent(st2, {})
  <2> SUFFICES ASSUME Clean(st2)
               PROVE  QueueUnder(st2) /\ PlacesUnder(st2) /\ ToldBut(st2, {}) /\ RestBut(st2, {})
    BY DEF Coherent
  <2>1. Clean(st) /\ ~busy
    BY <1>4, <1>7, <1>8, <1>9, <1>10 DEF Clean, Silent
  <2>2. QueueUnder(st) /\ PlacesUnder(st) /\ ToldBut(st, {})
    BY <1>1, <2>1 DEF KInv, Coherent
  <2>3. st.queue = <<>> /\ \A k \in Switches : ~st.key[k].pressed
    BY <2>1 DEF IsActive
  <2>4. st.positions = {}
    <3>1. ASSUME NEW p \in st.positions PROVE FALSE
      <4>1. PICK k \in Switches : Under(st.active, k) /\ p = Transform[st.active][k]
        BY <2>2 DEF PlacesUnder
      <4>2. Told(st, k)
        BY <2>2, <4>1 DEF ToldBut
      <4>3. p # -1
        BY <1>3 DEF Scanner
      <4> QED BY <2>3, <4>1, <4>2, <4>3 DEF Told
    <3> QED BY <3>1
  <2>5. st2.queue = <<>> /\ st2.positions = {} /\ st2.active = st.active /\ st2.key = st.key
    BY <1>4, <1>6, <1>10, <2>3, <2>4 DEF Silent, Alike
  <2>6. \A k \in Switches : Told(st2, k)
    BY <2>3, <2>5 DEF Told
  <2> QED BY <2>3, <2>5, <2>6 DEF QueueUnder, PlacesUnder, ToldBut, RestBut
<1>19. Attached(st2)
  <2>1. u.active = st.active
    BY <1>6 DEF Alike
  <2> QED BY <1>1, <1>4, <1>10, <2>1 DEF KInv, Attached, DriversOf
<1>18. KInv(st2)
  BY <1>11, <1>12, <1>13, <1>14, <1>15, <1>16, <1>17, <1>19 DEF KInv
<1> QED BY <1>18 DEF st2

LEMMA KInvProcess ==
    ASSUME KInv(s), Process
    PROVE  KInv(s')
<1> DEFINE st == s
           st2 == s'
           T == Transform[s.active]
           places == {p \in s.positions : About(p) = {}}
                          \union {p \in {At(s.active, s.queue[n][1]) : n \in DOMAIN s.queue} \ {-1} :
                                    \E n \in About(p) : s.queue[n][2] /\ \A m \in About(p) : m <= n}
<1>1. KInv(st) /\ st \in Scanner /\ st.queue # <<>> /\ st2 = [st EXCEPT !.queue = <<>>, !.positions = places]
  BY DEF Process, KInv, Fits
<1>2. st.queue \in Seq(Switches \X BOOLEAN) /\ st.active \in Layouts /\ st.positions \subseteq Nat
  BY <1>1 DEF Scanner
<1>3. \A n \in DOMAIN st.queue : /\ n \in Nat /\ st.queue[n][1] \in Switches /\ st.queue[n][2] \in BOOLEAN
                                 /\ st.queue[n] = <<st.queue[n][1], st.queue[n][2]>>
  BY <1>2
<1>4. T \in [Switches -> Nat \union {-1}]
  BY <1>2, KscanAssumption
<1>5. \A p : About(p) = {n \in DOMAIN st.queue : T[st.queue[n][1]] = p}
  BY DEF About, At
<1>6. \A p : p \in places <=>
        \/ p \in st.positions /\ About(p) = {}
        \/ /\ p # -1
           /\ \E n \in About(p) : st.queue[n][2] /\ \A m \in About(p) : m <= n
  <2>1. \A p : p \in {At(s.active, s.queue[n][1]) : n \in DOMAIN s.queue} <=> About(p) # {}
    BY DEF About
  <2> QED BY <2>1
<1>7. places \subseteq Nat
  <2>1. \A p \in places : p \in st.positions \/ (p # -1 /\ \E n \in DOMAIN st.queue : T[st.queue[n][1]] = p)
    BY <1>5, <1>6
  <2> QED BY <1>2, <1>3, <1>4, <2>1
<1> DEFINE A == [p \in Nat |-> About(p)]
<1>8. \A p \in Nat : /\ A[p] = {n \in DOMAIN st.queue : T[st.queue[n][1]] = p}
                     /\ p \in places <=>
                          \/ p \in st.positions /\ A[p] = {}
                          \/ \E n \in A[p] : st.queue[n][2] /\ \A m \in A[p] : m <= n
  BY <1>5, <1>6
<1>9. T = Transform[st.active]
  OBVIOUS
<1> HIDE DEF places, A, T, st, st2
<1>10. /\ st2 \in Scanner /\ st2.queue = <<>> /\ st2.positions = places /\ Same(st, st2) /\ st2.key = st.key /\ st2.mode = st.mode
       /\ st2.on = st.on /\ st2.timer = st.timer /\ st2.crashed = st.crashed /\ st2.dropped = st.dropped /\ st2.moved = st.moved
  <2> DEFINE q == <<>>
             R(x) == [st EXCEPT !.queue = x, !.positions = places]
  <2>1. q \in Seq(Switches \X BOOLEAN) /\ st2 = R(q)
    BY <1>1
  <2> HIDE DEF q
  <2>2. R(q) \in Scanner /\ R(q).queue = q /\ R(q).positions = places
    BY <1>1, <1>7, <2>1 DEF Scanner
  <2>3. /\ Same(st, R(q)) /\ R(q).key = st.key /\ R(q).mode = st.mode
        /\ R(q).on = st.on /\ R(q).timer = st.timer /\ R(q).crashed = st.crashed /\ R(q).dropped = st.dropped
        /\ R(q).moved = st.moved
    BY <1>1 DEF Scanner, Same
  <2> QED BY <2>1, <2>2, <2>3 DEF q
<1>11. Fits(st2)
  <2>1. Len(st2.queue) <= QueueSize
    <3>1. QueueSize \in Nat /\ Len(st2.queue) = 0
      BY <1>10, KscanAssumption
    <3> QED BY <3>1
  <2> QED BY <1>1, <1>10, <2>1 DEF KInv, Fits, Called, Same
<1>12. AllSound(st2) /\ AllRun(st2) /\ Untouched(st2) /\ Attached(st2) /\ Blamed(st2) /\ Selected(st2)
  <2>1. AllSound(st2) /\ AllRun(st2)
    BY <1>1, <1>10 DEF KInv, Same, AllSound, AllRun
  <2>2. Untouched(st2)
    BY <1>1, <1>10 DEF KInv, Same, Untouched, Quiet
  <2>3. Attached(st2) /\ Blamed(st2)
    BY <1>1, <1>10 DEF KInv, Same, Attached, Blamed, DriversOf
  <2>4. Selected(st2)
    BY <1>1, <1>10 DEF KInv, Same, Selected, Scanned, Still, DriversOf
  <2> QED BY <2>1, <2>2, <2>3, <2>4
<1>13. Coherent(st2, {})
  <2> SUFFICES ASSUME Clean(st2)
               PROVE  QueueUnder(st2) /\ PlacesUnder(st2) /\ ToldBut(st2, {}) /\ RestBut(st2, {})
    BY DEF Coherent
  <2>1. QueueUnder(st) /\ PlacesUnder(st) /\ ToldBut(st, {}) /\ RestBut(st, {})
    BY <1>1, <1>10 DEF KInv, Coherent, Clean, Same
  <2>2. st.next = -1
    BY <1>1, <2>1 DEF RestBut
  <2>3. QueueUnder(st2) /\ RestBut(st2, {})
    BY <1>10, <2>2 DEF QueueUnder, RestBut, Same
  <2>4. PlacesUnder(st2)
    <3>1. ASSUME NEW p \in places PROVE \E k \in Switches : Under(st.active, k) /\ p = T[k]
      <4>1. CASE p \in st.positions
        BY <1>9, <2>1, <4>1 DEF PlacesUnder
      <4>2. CASE p \notin st.positions
        <5>1. p \in Nat
          BY <1>7
        <5>2. PICK n \in A[p] : TRUE
          BY <1>8, <4>2, <5>1
        <5>3. n \in DOMAIN st.queue /\ p = T[st.queue[n][1]]
          BY <1>8, <5>1
        <5> QED BY <1>3, <2>1, <5>3 DEF QueueUnder
      <4> QED BY <4>1, <4>2
    <3> QED BY <1>9, <1>10, <3>1 DEF PlacesUnder, Same
  <2>5. ASSUME NEW k \in Switches
        PROVE  IF Under(st2.active, k) THEN Told(st2, k) ELSE ~st2.key[k].pressed
    <3>1. IF Under(st.active, k) THEN Told(st, k) ELSE ~st.key[k].pressed
      BY <2>1 DEF ToldBut
    <3>2. st2.active = st.active /\ st2.key = st.key
      BY <1>10 DEF Same
    <3>3. CASE Under(st.active, k)
      <4> SUFFICES ASSUME T[k] # -1 PROVE T[k] \in places <=> st.key[k].pressed
        BY <1>9, <1>10, <3>2, <3>3 DEF Told
      <4>1. T[k] \in Nat
        BY <1>4
      <4> DEFINE p == T[k]
      <4>2. \A n \in A[p] : n \in DOMAIN st.queue /\ st.queue[n][1] = k
        <5>1. ASSUME NEW n \in A[p] PROVE n \in DOMAIN st.queue /\ st.queue[n][1] = k
          <6>1. n \in DOMAIN st.queue /\ T[st.queue[n][1]] = T[k]
            BY <1>8, <4>1
          <6>2. Under(st.active, st.queue[n][1]) /\ st.queue[n][1] \in Switches
            BY <1>3, <2>1, <6>1 DEF QueueUnder
          <6>3. \A i, j \in {x \in Switches : Under(st.active, x)} : T[i] = T[j] /\ T[i] # -1 => i = j
            BY <1>2, <1>9, KscanAssumption
          <6> QED BY <3>3, <6>1, <6>2, <6>3
        <5> QED BY <5>1
      <4>3. \A n \in DOMAIN st.queue : st.queue[n][1] = k => n \in A[p]
        BY <1>8, <4>1
      <4>4. CASE \A n \in DOMAIN st.queue : st.queue[n][1] # k
        <5>1. A[p] = {}
          BY <4>2, <4>4
        <5>2. p \in st.positions <=> st.key[k].pressed
          <6>1. Told(st, k)
            BY <3>1, <3>3
          <6>2. \A n \in DOMAIN st.queue : st.queue[n] # <<k, st.key[k].pressed>>
            BY <4>4
          <6> QED BY <1>9, <6>1, <6>2 DEF Told
        <5> QED BY <1>8, <4>1, <5>1, <5>2
      <4>5. CASE ~ \A n \in DOMAIN st.queue : st.queue[n][1] # k
        <5>1. PICK n \in DOMAIN st.queue :
                 /\ st.queue[n] = <<k, st.key[k].pressed>>
                 /\ \A m \in DOMAIN st.queue : m > n => st.queue[m][1] # k
          BY <3>1, <3>3, <4>5 DEF Told
        <5>2. n \in A[p] /\ st.queue[n][2] = st.key[k].pressed
          BY <4>3, <5>1
        <5>3. \A m \in A[p] : m <= n
          BY <1>3, <4>2, <5>1
        <5>4. \A m \in A[p] : (\A i \in A[p] : i <= m) => m = n
          <6>1. \A m \in A[p] : m \in Nat
            BY <1>3, <4>2
          <6> QED BY <5>2, <5>3, <6>1
        <5> QED BY <1>8, <4>1, <5>2, <5>3, <5>4
      <4> QED BY <4>4, <4>5
    <3>4. CASE ~Under(st.active, k)
      BY <3>1, <3>2, <3>4
    <3> QED BY <3>3, <3>4
  <2> QED BY <2>3, <2>4, <2>5 DEF ToldBut
<1>14. KInv(st2)
  BY <1>11, <1>12, <1>13 DEF KInv
<1> QED BY <1>14 DEF st2

LEMMA KInvStep == KInv(s) /\ [KscanNext]_kscan_vars => KInv(s')
<1> SUFFICES ASSUME KInv(s), [KscanNext]_kscan_vars PROVE KInv(s')
  OBVIOUS
<1>1. CASE Toggle
  BY <1>1 DEF Toggle
<1>2. CASE Process
  BY <1>2, KInvProcess
<1>3. CASE SelectOff
  BY <1>3, KInvSelectOff
<1>4. CASE SelectOn
  BY <1>4, KInvSelectOn
<1>5. CASE InputEvent
  BY <1>5, KInvInput
<1>6. CASE MatrixInterrupt \/ DirectInterrupt \/ CharlieplexInterrupt
  <2>1. PICK d \in Drivers : Triggered(d)
    BY <1>6 DEF MatrixInterrupt, DirectInterrupt, CharlieplexInterrupt, Drivers, Debounced
  <2> QED BY <2>1, KInvInterrupt
<1>7. CASE \E d \in Drivers : Scan(d)
  BY <1>7, KInvScan
<1>8. CASE \E d \in Drivers : ScanFails(d)
  BY <1>8, KInvScanFails
<1>9. CASE UNCHANGED kscan_vars
  BY <1>9 DEF kscan_vars
<1> QED BY <1>1, <1>2, <1>3, <1>4, <1>5, <1>6, <1>7, <1>8, <1>9 DEF KscanNext

LEMMA KInvReports == KInv(s) => PositionsReported
<1> SUFFICES ASSUME KInv(s) PROVE PositionsReported
  OBVIOUS
<1>0. Fits(s) /\ s \in Scanner
  BY DEF KInv, Fits
<1> DEFINE D == Range(DriversUnder(KscanOf[s.active]))
<1>1. D = DriversOf(s) /\ D \subseteq Drivers
  <2>1. DriversOf(s) \subseteq Drivers
    BY <1>0, SwitchOffShifts
  <2> QED BY <2>1 DEF DriversOf
<1>2. KscanTypeOK
  <2>1. \A d \in Drivers : s.mode[d] \in {"off", "irq", "scheduled"}
    BY <1>0 DEF Scanner, Modes
  <2>2. \A k \in Switches : s.key[k].counter <= Greater(s.press, s.release)
    BY DEF KInv, AllSound, Sound
  <2>3. Len(s.queue) <= QueueSize /\ s.active \in Layouts
    BY <1>0 DEF Fits, Scanner
  <2>4. ASSUME s.next = -1, ~s.failed
        PROVE  /\ {d \in Debounced : s.mode[d] # "off"} = D \intersect Debounced
               /\ {d \in Demux : s.timer[d]} = D \ Debounced
               /\ s.pm => {d \in Debounced : s.on[d]} = D \intersect Debounced
    <3>1. Scanned(s, D)
      BY <1>1, <2>4 DEF KInv, Selected
    <3>2. D \ Debounced = D \intersect Demux
      BY <1>1, KscanAssumption DEF Drivers, Debounced
    <3> HIDE DEF D
    <3> QED BY <3>1, <3>2 DEF Scanned
  <2> QED BY <2>1, <2>2, <2>3, <2>4 DEF KscanTypeOK
<1>3. PositionsFollow
  <2> SUFFICES ASSUME FaultFree, s.queue = <<>>
               PROVE  s.positions = {Transform[s.active][k] : k \in {x \in Switches : UnderLayout(x) /\ s.key[x].pressed}} \ {-1}
    BY DEF PositionsFollow
  <2>1. PlacesUnder(s) /\ ToldBut(s, {})
    BY DEF KInv, Coherent, Clean, FaultFree
  <2>2. ASSUME NEW k \in Switches, Under(s.active, k), Transform[s.active][k] # -1
        PROVE  Transform[s.active][k] \in s.positions <=> s.key[k].pressed
    <3>1. Told(s, k)
      BY <2>1, <2>2 DEF ToldBut
    <3>2. DOMAIN s.queue = {}
      OBVIOUS
    <3> QED BY <2>2, <3>1, <3>2 DEF Told
  <2>3. -1 \notin s.positions
    BY <1>0 DEF Scanner
  <2>4. \A k : UnderLayout(k) <=> Under(s.active, k)
    BY DEF UnderLayout
  <2>5. \A p \in s.positions : \E k \in Switches : Under(s.active, k) /\ p = Transform[s.active][k]
    BY <2>1 DEF PlacesUnder
  <2>6. ASSUME NEW p \in s.positions
        PROVE  p \in {Transform[s.active][k] : k \in {x \in Switches : UnderLayout(x) /\ s.key[x].pressed}} \ {-1}
    <3>1. PICK k \in Switches : Under(s.active, k) /\ p = Transform[s.active][k]
      BY <2>5
    <3>2. p # -1
      BY <2>3, <2>6
    <3> QED BY <2>2, <2>4, <3>1, <3>2
  <2>7. ASSUME NEW p \in {Transform[s.active][k] : k \in {x \in Switches : UnderLayout(x) /\ s.key[x].pressed}} \ {-1}
        PROVE  p \in s.positions
    <3>1. PICK k \in Switches : UnderLayout(k) /\ s.key[k].pressed /\ p = Transform[s.active][k]
      BY <2>7
    <3> QED BY <2>2, <2>4, <2>7, <3>1
  <2> QED BY <2>6, <2>7
<1>4. ReportsToSomebody
  BY DEF KInv, Blamed, ReportsToSomebody
<1> QED BY <1>2, <1>3, <1>4 DEF PositionsReported

(* Whatever the switches do, whichever layouts are selected and whatever    *)
(* cannot be read: what the keymap has been told is what the drivers hold   *)
(* for pressed, the drivers under the selected kscan scan and no other, and *)
(* a change is always reported to somebody but for the reads of a resume.   *)
THEOREM PositionsAreReported == KscanSpec => []PositionsReported
<1>1. KscanInit => KInv(s)
  BY KInvInit
<1>2. KInv(s) /\ [KscanNext]_kscan_vars => KInv(s)'
  <2>1. KInv(s)' <=> KInv(s')
    BY DEF KInv, Fits, Scanner, Called, AllSound, Coherent, AllRun, Untouched, Selected, Attached, Blamed,
           Clean, QueueUnder, PlacesUnder, ToldBut, RestBut, Told, Quiet, Scanned, Still, DriversOf, Sound, Under
  <2> QED BY <2>1, KInvStep
<1>3. KInv(s) => PositionsReported
  BY KInvReports
<1> QED BY <1>1, <1>2, <1>3, PTL DEF KscanSpec

\* A key is only taken for another than it was after it has been read long enough.
LEMMA ChangesAreDue ==
    ASSUME KInv(s), [KscanNext]_kscan_vars, s.next = -1,
           NEW d \in Debounced, NEW k \in SwitchesOf[d], s'.key[k].pressed # s.key[k].pressed
    PROVE  s.key[k].age >= (IF s.key[k].pressed THEN s.release ELSE s.press)
<1> DEFINE st == s
           st2 == s'
<1>0. Fits(st) /\ st \in Scanner /\ AllSound(st) /\ d \in Drivers /\ k \in Switches
  <2>1. d \in Drivers
    BY DEF Drivers
  <2> QED BY <2>1, Wiring DEF KInv, Fits
<1>1. SUFFICES Due(st, st2, k)
  <2>1. st.key[k] \in KeyState /\ st.press \in Nat /\ st.release \in Nat
    BY <1>0 DEF Scanner
  <2>2. Sound(st.key[k], Greater(st.press, st.release))
    BY <1>0 DEF AllSound
  <2>3. st.key[k].counter <= st.key[k].age /\ st.key[k].counter \in Nat /\ st.key[k].age \in Nat
    BY <2>1, <2>2 DEF Sound, KeyState
  <2>4. st.key[k].counter >= (IF st.key[k].pressed THEN st.release ELSE st.press)
    BY <1>1 DEF Due
  <2> QED BY <2>1, <2>3, <2>4
<1>2. st.next = -1 /\ st2.key[k].pressed # st.key[k].pressed /\ KInv(st)
  OBVIOUS
<1>3. CASE Toggle \/ UNCHANGED kscan_vars
  BY <1>3 DEF Toggle, kscan_vars
<1>4. CASE Process
  <2>1. st2.key = st.key
    BY <1>0, <1>4 DEF Process, Scanner
  <2> QED BY <1>2, <2>1
<1>5. CASE SelectOff
  <2> DEFINE u == SwitchOff(st)
  <2>1. Silent(st, u) /\ u \in Scanner
    BY <1>0, SwitchOffShifts DEF Shifts, Fits
  <2>4. PICK l \in Layouts \ {st.active} :
           st2 = [u EXCEPT !.next = IF l \in TooLarge THEN -1 ELSE l,
                         !.failed = @ \/ l \in TooLarge,
                         !.moved = @ \/ st.queue # <<>> \/ \E x \in Switches : IsActive(st.key[x])]
    BY <1>5 DEF SelectOff
  <2> HIDE DEF u, st, st2
  <2>3. st2.key = st.key
    BY <2>1, <2>4 DEF Scanner, Silent
  <2> QED BY <1>2, <2>3
<1>6. CASE SelectOn
  BY <1>2, <1>6 DEF SelectOn
<1>7. CASE InputEvent
  <2>1. PICK j \in InputKeys : st2 = Enqueue([st EXCEPT !.key[j] = Flip(@)], Input, j)
    BY <1>7 DEF InputEvent
  <2>2. j # k
    BY <1>0, KscanAssumption
  <2>3. st2.key = [st.key EXCEPT ![j] = Flip(st.key[j])]
    BY <1>0, <2>1 DEF Enqueue, Scanner
  <2>4. st2.key[k] = st.key[k]
    BY <1>0, <2>2, <2>3 DEF Scanner
  <2> QED BY <1>2, <2>4
<1>8. CASE MatrixInterrupt \/ DirectInterrupt \/ CharlieplexInterrupt
  <2>1. PICK e \in Drivers : Triggered(e)
    BY <1>8 DEF MatrixInterrupt, DirectInterrupt, CharlieplexInterrupt, Drivers, Debounced
  <2>2. st2.key = st.key
    BY <1>0, <2>1 DEF Triggered, Scanner
  <2> QED BY <1>2, <2>2
<1>9. CASE \E e \in Drivers : Scan(e)
  <2>1. PICK e \in Drivers : Scan(e)
    BY <1>9
  <2>2. st2 = Read(st, e)
    BY <2>1 DEF Scan
  <2> HIDE DEF st, st2
  <2>3. st2.key = Sampled(st, e)
    BY <1>0, <2>2, ReadMoves
  <2>4. k \in SwitchesOf[e]
    BY <1>0, <1>2, <2>3 DEF Sampled
  <2>5. e = d /\ d \notin Demux
    BY <1>0, <2>4, KscanAssumption DEF Debounced
  <2>6. st2.key[k] = Debounce(st.key[k], k \in closed, st.press, st.release)
    BY <1>0, <2>3, <2>4, <2>5 DEF Sampled
  <2>7. st.key[k] \in KeyState /\ st.press \in Nat /\ st.release \in Nat
    BY <1>0 DEF Scanner
  <2>8. (k \in closed) \in BOOLEAN
    OBVIOUS
  <2> DEFINE key == st.key[k]
             a == k \in closed
             p == st.press
             q == st.release
  <2>9. key \in KeyState /\ p \in Nat /\ q \in Nat /\ a \in BOOLEAN
    BY <2>7, <2>8
  <2> HIDE DEF key, a, p, q
  <2>10. Debounce(key, a, p, q).pressed # key.pressed => key.counter >= (IF key.pressed THEN q ELSE p)
    BY <2>9, DebounceReads
  <2> QED BY <2>6, <2>10 DEF Due, key, a, p, q
<1>10. CASE \E e \in Drivers : ScanFails(e)
  <2>1. PICK e \in Drivers : ScanFails(e)
    BY <1>10
  <2>2. PICK u \in {st} \union {CharlieplexRead(st, e, n) : n \in IF e \in Charlieplex THEN 0..Len(Wired[e]) ELSE {}} :
           st2 = [u EXCEPT !.mode[e] = "off", !.failed = TRUE]
    BY <2>1 DEF ScanFails
  <2>3. st.cb[e] # "none"
    BY <1>2, <2>1 DEF ScanFails, KInv, Untouched
  <2> HIDE DEF st, st2
  <2>4. Due(st, u, k) /\ u \in Scanner
    <3>1. CASE u = st
      BY <1>0, <3>1 DEF Due
    <3>2. CASE u # st
      <4>1. PICK n \in 0..Len(Wired[e]) : u = CharlieplexRead(st, e, n) /\ e \in Charlieplex
        BY <2>2, <3>2
      <4> QED BY <1>0, <2>3, <4>1, PartReads DEF MovesOne, Fits
    <3> QED BY <3>1, <3>2
  <2>5. st2.key = u.key
    BY <2>2, <2>4 DEF Scanner
  <2> QED BY <2>4, <2>5 DEF Due
<1> QED BY <1>3, <1>4, <1>5, <1>6, <1>7, <1>8, <1>9, <1>10 DEF KscanNext

(* While a layout stays selected, no key of a debounced driver is taken for *)
(* pressed or released before it has been scanned as long as its debounce   *)
(* time, however its switch bounces and whichever of its reads fail.        *)
THEOREM KeysAreDebounced == KscanSpec => NoChatter
<1>1. KscanInit => KInv(s)
  BY KInvInit
<1>2. KInv(s) /\ [KscanNext]_kscan_vars => KInv(s)'
  <2>1. KInv(s)' <=> KInv(s')
    BY DEF KInv, Fits, Scanner, Called, AllSound, Coherent, AllRun, Untouched, Selected, Attached, Blamed,
           Clean, QueueUnder, PlacesUnder, ToldBut, RestBut, Told, Quiet, Scanned, Still, DriversOf, Sound, Under
  <2> QED BY <2>1, KInvStep
<1>3. KInv(s) /\ [KscanNext]_kscan_vars
        => [\A d \in Debounced : \A k \in SwitchesOf[d] : s.next = -1 /\ s'.key[k].pressed # s.key[k].pressed
              => s.key[k].age >= (IF s.key[k].pressed THEN s.release ELSE s.press)]_kscan_vars
  BY ChangesAreDue
<1> QED BY <1>1, <1>2, <1>3, PTL DEF KscanSpec, NoChatter
=============================================================================

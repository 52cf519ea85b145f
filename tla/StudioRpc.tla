----------------------------- MODULE StudioRpc -----------------------------
(***************************************************************************)
(* The transport of ZMK Studio: framing (msg_framing.c), the RPC thread    *)
(* and the ring buffers (rpc.c), the serial and Bluetooth transports       *)
(* (uart_rpc_transport.c, gatt_rpc_transport.c) and the lock (core.c).     *)
(*                                                                         *)
(* Four threads: the RPC thread, which decodes a request, serves it and    *)
(* writes the response; the system work queue, which sends what is         *)
(* waiting for Bluetooth, follows the endpoint and locks or unlocks, each  *)
(* lock change raising a notification that is written like a response;     *)
(* the Bluetooth receive thread, which copies what the host writes; and    *)
(* the interrupt of the serial port.  Messages are sequences of bytes; one *)
(* of the payload bytes needs an escape.                                   *)
(***************************************************************************)
EXTENDS Integers, FiniteSets, Sequences, SequencesExt

CONSTANTS
    StudioBuilds,        \* the sets of transports that builds have, of "usb" and "ble"
    RxSize,        \* CONFIG_ZMK_STUDIO_RPC_RX_BUF_SIZE
    TxSize,        \* CONFIG_ZMK_STUDIO_RPC_TX_BUF_SIZE
    NotifySize,    \* the size of an indication
    MaxWrite,      \* the longest write of a host
    MaxRequests, MaxLinks, MaxLocks,   \* bounds: requests, connects and endpoint changes, lock changes,
    MaxEvents                          \* and all of them

ASSUME StudioRpcAssumption ==
    StudioBuilds \subseteq SUBSET {"usb", "ble"} /\ {RxSize, TxSize, NotifySize, MaxWrite} \subseteq Nat \ {0}

\* Framing bytes, and the payloads.  "get" is served locked or not, "edit" only unlocked.
SOF == "SOF"  EOF == "EOF"  ESC == "ESC"
Special == {SOF, EOF, ESC}
Get == <<"g">>        Edit == <<"e">>        Requests == {Get, Edit}
Answer == <<"a", EOF>>    RefusedRequest == <<"r">>    Notice == <<"n">>    Changed == <<"c">>
Messages == {Answer, RefusedRequest, Notice, Changed}

VARIABLES r, requests, links, locks
studio_vars == <<r, requests, links, locks>>

-----------------------------------------------------------------------------
(* msg_framing.c: the next state, and whether the byte is payload. *)

FrameNext(f, c) ==
    CASE f = "err" -> IF c = EOF THEN "idle" ELSE IF c = SOF THEN "data" ELSE "err"
      [] f \in {"idle", "eof"} -> IF c = SOF THEN "data" ELSE f
      [] f = "data" -> IF c = SOF THEN "err" ELSE IF c = ESC THEN "esc" ELSE IF c = EOF THEN "eof" ELSE "data"
      [] f = "esc" -> "data"
IsPayload(f, c) == f = "esc" \/ (f = "data" /\ c \notin Special)

-----------------------------------------------------------------------------
(* The initial state: the transport of the first endpoint is selected. *)
NoWriter == [at |-> "none", left |-> <<>>, esc |-> FALSE, next |-> <<>>]
Fresh == [frame |-> "idle", got |-> <<>>]    \* the client's side of the framing

StudioInit ==
    /\ \E has \in StudioBuilds, ep \in {"usb", "ble"} :
         r = [has |-> has, rx |-> <<>>, tx |-> <<>>, frame |-> "idle", got |-> <<>>,
              rxSem |-> FALSE, txIrq |-> FALSE, bt |-> <<>>,
              free |-> TRUE, air |-> <<>>, pending |-> 0,
              owner |-> "none", w |-> [a \in {"rpc", "sys"} |-> NoWriter], queue |-> <<>>,
              ep |-> ep, sel |-> IF ep \in has THEN ep ELSE "none",
              conn |-> FALSE, unlocked |-> FALSE,
              client |-> [t \in {"usb", "ble"} |-> Fresh], toSend |-> <<>>, via |-> "usb",
              sent |-> {}, read |-> {}, asked |-> 0, served |-> 0, lost |-> FALSE,
              unlockedFor |-> ep, left |-> TRUE]
    /\ requests = 0 /\ links = 0 /\ locks = 0

Bounds == <<requests, links, locks>>
May(n, max) == n < max /\ requests + links + locks < MaxEvents

-----------------------------------------------------------------------------
(* Jobs of the system work queue; one that is queued already is not queued  *)
(* again.                                                                   *)
Submit(s, job) == IF job \in Range(s.queue) THEN s ELSE [s EXCEPT !.queue = Append(@, job)]

\* tx_notify of the selected transport, after n bytes.
TxNotify(s, n, done) ==
    CASE s.sel = "usb" -> [s EXCEPT !.txIrq = @ \/ done \/ 2 * Len(s.tx) > TxSize]
      [] s.sel = "ble" -> IF done \/ s.pending + n > NotifySize
                          THEN [Submit(s, "notify") EXCEPT !.pending = 0]
                          ELSE [s EXCEPT !.pending = @ + n]

-----------------------------------------------------------------------------
(* send_response, of the RPC thread or of the system work queue: take the   *)
(* mutex, write the start, the payload and the end.  A framing byte that    *)
(* finds the buffer full is lost; the payload is written again and again    *)
(* until there is room.  `next' is sent after this message (a response      *)
(* after the notification that its handler raised).                         *)
Writing(msg, next) == [at |-> "lock", left |-> msg, esc |-> FALSE, next |-> next]

CanLock(a) == r.owner \in {"none", a}

\* mutant of Done: without a transport the mutex stays locked
Done_EarlyReturn(s, a) ==
    [s EXCEPT !.owner = IF s.sel = "none" THEN a ELSE "none",
              !.w[a] = IF s.w[a].next = <<>> THEN NoWriter ELSE Writing(s.w[a].next, <<>>)]

Done(s, a) ==
    [s EXCEPT !.owner = "none",
              !.w[a] = IF s.w[a].next = <<>> THEN NoWriter ELSE Writing(s.w[a].next, <<>>)]

PutBytes(s, c) == IF Len(s.tx) < TxSize THEN [s EXCEPT !.tx = Append(@, c)] ELSE [s EXCEPT !.lost = TRUE]

\* mutant of LockTransport: the mutex is not waited for
LockTransport_NoMutex(a) ==
    /\ r.w[a].at = "lock"
    /\ r' = IF r.sel = "none" THEN Done(r, a)
            ELSE TxNotify(PutBytes([r EXCEPT !.owner = a, !.w[a].at = "body", !.pending = 0,
                                             !.sent = @ \union {r.w[a].left}], SOF), 1, FALSE)
    /\ UNCHANGED Bounds

LockTransport(a) ==
    /\ r.w[a].at = "lock" /\ CanLock(a)
    /\ r' = IF r.sel = "none" THEN Done(r, a)
            ELSE TxNotify(PutBytes([r EXCEPT !.owner = a, !.w[a].at = "body", !.pending = 0,
                                             !.sent = @ \union {r.w[a].left}], SOF), 1, FALSE)
    /\ UNCHANGED Bounds

\* One slot of a claim: an escape, or the next byte of the payload.
\* mutant of FillSlot: nothing is escaped
FillSlot_NoEscape(x) ==
    [x EXCEPT !.out = Append(@, Head(x.left)), !.left = Tail(@), !.esc = FALSE]

FillSlot(x) ==
    IF Head(x.left) \in Special /\ ~x.esc
    THEN [x EXCEPT !.out = Append(@, ESC), !.esc = TRUE]
    ELSE [x EXCEPT !.out = Append(@, Head(x.left)), !.left = Tail(@), !.esc = FALSE]

\* A claim of n slots.
Filled(x, n) ==
    LET f[i \in 0..n] == IF i = 0 THEN x ELSE FillSlot(f[i - 1])
    IN  f[n]

WriteBody(a) ==
    /\ r.w[a].at = "body" /\ r.w[a].left # <<>>
    /\ \E n \in 1..Len(r.w[a].left) :
         /\ n <= TxSize - Len(r.tx)
         /\ LET x == Filled([out |-> <<>>, left |-> r.w[a].left, esc |-> r.w[a].esc], n)
            IN  r' = TxNotify([r EXCEPT !.tx = @ \o x.out, !.w[a].left = x.left,
                                        !.w[a].esc = x.esc], n, FALSE)
    /\ UNCHANGED Bounds

WriteEnd(a) ==
    /\ r.w[a].at = "body" /\ r.w[a].left = <<>>
    /\ r' = Done(TxNotify(PutBytes(r, EOF), 1, TRUE), a)
    /\ UNCHANGED Bounds

-----------------------------------------------------------------------------
(* The RPC thread. *)

\* handle_request: a request that is not allowed is refused, an edit first
\* raises a notification.
Served(s) ==
    LET req == s.got
        s1  == [s EXCEPT !.frame = "idle", !.got = <<>>, !.served = @ + 1]
    IN  IF req = Edit /\ s.unlocked
        THEN [s1 EXCEPT !.w["rpc"] = Writing(Changed, Answer)]
        ELSE [s1 EXCEPT !.w["rpc"] = Writing(IF req = Edit THEN RefusedRequest ELSE Answer, <<>>)]

\* rpc_read_cb and pb_decode: a payload that no request starts with fails, and
\* what is left of its frame is read as if it stood between frames.
Decode(s) ==
    LET c    == Head(s.rx)
        s1   == [s EXCEPT !.rx = Tail(@), !.frame = FrameNext(@, c),
                          !.got = IF IsPayload(s.frame, c) THEN Append(@, c) ELSE @]
    IN  CASE s1.frame = "eof" /\ s1.got \in Requests -> Served(s1)
          [] (s1.frame = "eof" /\ s1.got \notin Requests)
                \/ (\A q \in Requests : ~IsPrefix(s1.got, q)) -> [s1 EXCEPT !.frame = "idle", !.got = <<>>]
          [] OTHER -> s1

\* mutant of ReadByte: the semaphore is taken for every byte
ReadByte_TakesSem ==
    /\ r.w["rpc"].at = "none" /\ r.rx # <<>> /\ r.rxSem
    /\ r' = [Decode(r) EXCEPT !.rxSem = FALSE]
    /\ UNCHANGED Bounds

ReadByte ==
    /\ r.w["rpc"].at = "none" /\ r.rx # <<>>
    /\ r' = Decode(r)
    /\ UNCHANGED Bounds

WakeReader ==
    /\ r.w["rpc"].at = "none" /\ r.rx = <<>> /\ r.rxSem
    /\ r' = [r EXCEPT !.rxSem = FALSE]
    /\ UNCHANGED Bounds

-----------------------------------------------------------------------------
(* The system work queue. *)

\* core.c, set_state: a change raises a notification.
SetState(s, unlocked) ==
    IF s.unlocked = unlocked THEN s
    ELSE [s EXCEPT !.unlocked = unlocked, !.w["sys"] = Writing(Notice, <<>>),
                   !.unlockedFor = IF unlocked THEN s.sel ELSE @, !.left = @ /\ ~unlocked]

\* notif_rpc_tx_cb
NotifyWork(s) ==
    IF ~s.conn THEN [s EXCEPT !.tx = <<>>]
    ELSE IF s.tx = <<>> \/ ~s.free THEN s
    ELSE LET n == Min({NotifySize, Len(s.tx)})
         IN  [s EXCEPT !.free = FALSE, !.air = SubSeq(s.tx, 1, n), !.tx = SubSeq(@, n + 1, Len(@))]

\* refresh_selected_transport.  The lock is noticed by nobody: no transport is
\* selected when its notification is written.
\* mutant of Refresh: the lock stays open when the transport changes
Refresh_KeepsUnlocked(s) ==
    IF s.sel = s.ep THEN s
    ELSE [s EXCEPT !.sel = IF s.ep \in s.has THEN s.ep ELSE "none"]

Refresh(s) ==
    IF s.sel = s.ep THEN s
    ELSE [s EXCEPT !.unlocked = @ /\ s.sel = "none",
                   !.sel = IF s.ep \in s.has THEN s.ep ELSE "none"]

\* gatt_rpc_listener
\* mutant of ProfileChanged: the lock is closed only while Bluetooth is selected
ProfileChanged_BleOnly(s) == IF s.conn \/ s.sel # "ble" THEN s ELSE SetState(s, FALSE)

ProfileChanged(s) == IF s.conn THEN s ELSE SetState(s, FALSE)

RunJob(s, job) ==
    CASE job = "notify" -> NotifyWork(s)
      [] job = "endpoint" -> Refresh(s)
      [] job = "profile" -> ProfileChanged(s)
      [] job = "unlock" -> SetState(s, TRUE)
      [] job = "timeout" -> SetState(s, FALSE)

NextJob ==
    /\ r.w["sys"].at = "none" /\ r.queue # <<>>
    /\ Head(r.queue) = "endpoint" => CanLock("sys")
    /\ r' = RunJob([r EXCEPT !.queue = Tail(@)], Head(r.queue))
    /\ UNCHANGED Bounds

-----------------------------------------------------------------------------
(* The serial port and the Bluetooth host. *)

\* The client takes a byte off its framing; a frame that ends is a message.
ClientNext(cl, c) ==
    LET f == FrameNext(cl.frame, c)
    IN  IF f = "eof" /\ cl.frame = "data" THEN Fresh
        ELSE [frame |-> f, got |-> IF c = SOF /\ cl.frame # "esc" THEN <<>>
                                   ELSE IF IsPayload(cl.frame, c) THEN Append(cl.got, c) ELSE cl.got]
MessagesAt(cl, c) == IF FrameNext(cl.frame, c) = "eof" /\ cl.frame = "data" THEN {cl.got} ELSE {}

SerialSends ==
    /\ r.txIrq /\ r.tx # <<>>
    /\ LET cl == r.client["usb"]
       IN  r' = [r EXCEPT !.client["usb"] = ClientNext(cl, Head(r.tx)), !.tx = Tail(@),
                          !.read = @ \union ({"usb"} \X MessagesAt(cl, Head(r.tx)))]
    /\ UNCHANGED Bounds

\* The host confirms the indication.
TakeByte(x, c) == [cl |-> ClientNext(x.cl, c), read |-> x.read \union MessagesAt(x.cl, c)]

Confirm ==
    /\ ~r.free /\ r.conn
    /\ LET x == FoldLeft(TakeByte, [cl |-> r.client["ble"], read |-> {}], r.air)
       IN  r' = Submit([r EXCEPT !.client["ble"] = x.cl, !.read = @ \union ({"ble"} \X x.read),
                                 !.free = TRUE, !.air = <<>>], "notify")
    /\ UNCHANGED Bounds

\* A client asks when all of its last request was taken.
Ask ==
    /\ May(requests, MaxRequests) /\ r.toSend = <<>> /\ r.bt = <<>>
    /\ \E q \in Requests, t \in r.has :
         /\ t = "ble" => r.conn
         /\ r' = [r EXCEPT !.toSend = <<SOF>> \o q \o <<EOF>>, !.via = t, !.asked = @ + 1]
    /\ requests' = requests + 1
    /\ UNCHANGED <<links, locks>>

\* serial_cb: what does not fit is dropped.
SerialReceives ==
    /\ r.toSend # <<>> /\ r.via = "usb" /\ r.sel = "usb"
    /\ r' = [r EXCEPT !.toSend = Tail(@), !.rxSem = TRUE,
                      !.rx = IF Len(@) < RxSize THEN Append(@, Head(r.toSend)) ELSE @,
                      !.lost = @ \/ Len(r.rx) = RxSize]
    /\ UNCHANGED Bounds

\* write_rpc_req: a write is taken by the receive thread if Bluetooth is
\* selected, which copies until all of it is in the buffer.
HostWrites ==
    /\ r.toSend # <<>> /\ r.via = "ble" /\ r.conn /\ r.bt = <<>>
    /\ \E n \in 1..Min({MaxWrite, Len(r.toSend)}) :
         r' = [r EXCEPT !.toSend = SubSeq(@, n + 1, Len(@)),
                        !.bt = IF r.sel = "ble" THEN SubSeq(r.toSend, 1, n) ELSE <<>>]
    /\ UNCHANGED Bounds

Copy ==
    /\ r.bt # <<>> /\ Len(r.rx) < RxSize
    /\ LET n == Min({RxSize - Len(r.rx), Len(r.bt)})
       IN  r' = [r EXCEPT !.rx = @ \o SubSeq(r.bt, 1, n), !.bt = SubSeq(@, n + 1, Len(@)),
                          !.rxSem = @ \/ n = Len(r.bt)]
    /\ UNCHANGED Bounds

-----------------------------------------------------------------------------
(* Connections, the endpoint and the lock. *)
Linked(s) ==
    /\ May(links, MaxLinks)
    /\ r' = s
    /\ links' = links + 1
    /\ UNCHANGED <<requests, locks>>

\* What the client of Bluetooth was sending and reading ends with the link.
Cut(s) == [s EXCEPT !.client["ble"] = Fresh, !.toSend = IF s.via = "ble" THEN <<>> ELSE @]

Connect ==
    /\ "ble" \in r.has /\ ~r.conn /\ r.bt = <<>>
    /\ Linked(Submit([Cut(r) EXCEPT !.conn = TRUE, !.left = FALSE], "profile"))

\* The indication that was on its way is given up, which its callback is told.
Disconnect ==
    /\ r.conn
    /\ LET s == [Cut(r) EXCEPT !.conn = FALSE, !.left = TRUE, !.free = TRUE, !.air = <<>>]
       IN  Linked(Submit(IF r.free THEN s ELSE Submit(s, "notify"), "profile"))

\* The work queue selects another endpoint.
EndpointChanges ==
    /\ r.w["sys"].at = "none"
    /\ Linked(Submit([r EXCEPT !.ep = IF @ = "usb" THEN "ble" ELSE "usb"], "endpoint"))

LockChanges ==
    /\ May(locks, MaxLocks)
    /\ \E job \in {"unlock", "timeout"} : r' = Submit(r, job)
    /\ locks' = locks + 1
    /\ UNCHANGED <<requests, links>>

StudioNext ==
    \/ \E a \in {"rpc", "sys"} : LockTransport(a) \/ WriteBody(a) \/ WriteEnd(a)
    \/ ReadByte \/ WakeReader \/ NextJob \/ SerialSends \/ Confirm
    \/ Ask \/ SerialReceives \/ HostWrites \/ Copy
    \/ Connect \/ Disconnect \/ EndpointChanges \/ LockChanges

\* The threads run, the serial port sends, and a host that stays confirms.
StudioFairness ==
    /\ \A a \in {"rpc", "sys"} : SF_studio_vars(LockTransport(a)) /\ WF_studio_vars(WriteBody(a)) /\ WF_studio_vars(WriteEnd(a))
    /\ WF_studio_vars(ReadByte) /\ WF_studio_vars(WakeReader) /\ WF_studio_vars(SerialSends) /\ WF_studio_vars(SerialReceives)
    /\ WF_studio_vars(Confirm) /\ SF_studio_vars(NextJob) /\ WF_studio_vars(Copy)

StudioSpec == StudioInit /\ [][StudioNext]_studio_vars /\ StudioFairness

-----------------------------------------------------------------------------
(* The types of the state; the buffers never hold more than their size, and
   a message is written by the owner of the mutex. *)
StudioTypeOK ==
    /\ Len(r.rx) <= RxSize /\ Len(r.tx) <= TxSize
    /\ r.frame \in {"idle", "data", "esc", "err", "eof"}
    /\ r.sel \in r.has \union {"none"} /\ r.ep \in {"usb", "ble"}
    /\ r.owner \in {"none", "rpc", "sys"} /\ {r.unlocked, r.conn, r.free} \subseteq BOOLEAN
    /\ \A a \in {"rpc", "sys"} : r.w[a].at = "body" => r.owner = a

(* With the serial port alone and as long as no byte was lost to a full
   buffer, what the client reads as a message is one that was sent whole:
   claims that split an escape from its byte and two threads that write never
   make another message of it. *)
OnlyMessagesAreRead ==
    r.has = {"usb"} /\ ~r.lost => \A m \in r.read : m[2] \in r.sent

(* Studio is unlocked for the transport that was selected when it was
   unlocked, never for another: changing the endpoint locks it. *)
UnlockedForTransport == r.unlocked /\ r.unlockedFor # "none" => r.sel = r.unlockedFor

(* Once the work that a disconnection raised is done, Studio is locked unless
   it was unlocked or somebody connected since. *)
LockedAfterDisconnect ==
    r.left /\ r.w["sys"].at = "none" /\ "profile" \notin Range(r.queue) /\ links > 0
        => ~r.unlocked

(* With the serial port alone, every request is served in the end, unless a
   byte of one was lost to a full buffer, and the work queue, which handles the
   keys, and the RPC thread are back at waiting for work: no wake-up is lost and
   no message is waited for forever. *)
AllServed ==
    /\ r.sel = "usb" => r.lost \/ r.served = r.asked
    /\ r.w["sys"].at = "none" /\ r.queue = <<>> /\ r.w["rpc"].at = "none"
RequestsAreServed == <>[](r.has = {"usb"} => AllServed)

(* What is true of the transports and of the lock at every step. *)
TransportsAgree == StudioTypeOK /\ OnlyMessagesAreRead /\ UnlockedForTransport /\ LockedAfterDisconnect
=============================================================================

----------------------------- MODULE Macro_proofs -----------------------------
(***************************************************************************)
(* The behavior queue loses no wake-up, whatever the behaviors it invokes  *)
(* add to it and however deep their calls are nested; and the macros that  *)
(* use it honour the waits after keys and release what they press.         *)
(***************************************************************************)
EXTENDS Macro, TLAPS

\* A call of process_next is under way.
Looping(s) == \E i \in DOMAIN s : s[i].at # "adding"
\* Only calls of process_next are made by queue_work.
WorkersLoop(s) == \A i \in DOMAIN s : s[i].worker => s[i].at # "adding"

LEMMA PushFrame ==
    ASSUME NEW s \in Seq(Frame), NEW f \in Frame
    PROVE  /\ <<f>> \o s \in Seq(Frame) /\ <<f>> \o s # <<>>
           /\ Looping(<<f>> \o s) <=> f.at # "adding" \/ Looping(s)
           /\ WorkersLoop(<<f>> \o s) <=> (f.worker => f.at # "adding") /\ WorkersLoop(s)
<1> DEFINE t == <<f>> \o s
<1>1. /\ t \in Seq(Frame) /\ Len(t) = Len(s) + 1 /\ t[1] = f
      /\ \A i \in 1 .. Len(s) : t[i + 1] = s[i]
  OBVIOUS
<1>2. DOMAIN t = 1 .. Len(s) + 1 /\ DOMAIN s = 1 .. Len(s) BY <1>1
<1> HIDE DEF t
<1>3. \A i \in DOMAIN t : i = 1 \/ (i - 1 \in DOMAIN s /\ t[i] = s[i - 1]) BY <1>1, <1>2
<1>4. \A i \in DOMAIN s : i + 1 \in DOMAIN t /\ t[i + 1] = s[i] BY <1>1, <1>2
<1>5. 1 \in DOMAIN t /\ t[1] = f BY <1>1, <1>2
<1>6. Looping(t) <=> f.at # "adding" \/ Looping(s) BY <1>3, <1>4, <1>5 DEF Looping
<1>7. WorkersLoop(t) <=> (f.worker => f.at # "adding") /\ WorkersLoop(s)
  BY <1>3, <1>4, <1>5 DEF WorkersLoop
<1> QED BY <1>1, <1>6, <1>7 DEF t

LEMMA PopFrame ==
    ASSUME NEW s \in Seq(Frame), s # <<>>
    PROVE  /\ Head(s) \in Frame /\ Tail(s) \in Seq(Frame)
           /\ Looping(s) <=> Head(s).at # "adding" \/ Looping(Tail(s))
           /\ WorkersLoop(s) <=> (Head(s).worker => Head(s).at # "adding") /\ WorkersLoop(Tail(s))
<1>1. Head(s) \in Frame /\ Tail(s) \in Seq(Frame) /\ s = <<Head(s)>> \o Tail(s) OBVIOUS
<1> QED BY <1>1, PushFrame

\* What is queued will be run: by a call under way, or by queue_work.
Awake == queue # <<>> => delay # Never \/ Looping(stack)

QueueInv == QueueTypeOK /\ WorkersLoop(stack) /\ Awake

LEMMA FrameTypes ==
    /\ \A items \in Seq(Item) : Adding(items) \in Frame
    /\ \A w \in BOOLEAN : Processing(w) \in Frame
BY DEF Adding, Processing, Frame

LEMMA InitQueueInv == QueueInit => QueueInv
BY QueueAssumption DEF QueueInit, QueueInv, QueueTypeOK, WorkersLoop, Awake

LEMMA NextQueueInv == QueueInv /\ [QueueNext]_queue_vars => QueueInv'
<1> SUFFICES ASSUME QueueInv, [QueueNext]_queue_vars PROVE QueueInv' OBVIOUS
<1>0. /\ queue \in Seq(Item) /\ Len(queue) <= QueueSize /\ delay \in Nat \cup {Never}
      /\ stack \in Seq(Frame) /\ WorkersLoop(stack) /\ Awake
  BY DEF QueueInv, QueueTypeOK
<1>1. ASSUME NEW items \in Seq(Item), Start(items) PROVE QueueInv'
  <2>1. stack' = <<Adding(items)>> \o stack BY <1>1 DEF Start
  <2>2. Adding(items) \in Frame /\ Adding(items).worker = FALSE BY FrameTypes DEF Adding
  <2> QED BY <1>0, <1>1, <2>1, <2>2, PushFrame DEF Start, QueueInv, QueueTypeOK, Awake
<1>2. ASSUME Add PROVE QueueInv'
  <2> DEFINE h == Head(stack)
             f == [h EXCEPT !.items = Tail(h.items)]
             room == Len(queue) < QueueSize
             r == <<f>> \o Tail(stack)
  <2>1. /\ stack # <<>> /\ h.at = "adding" /\ h.items # <<>>
        /\ queue' = IF room THEN Append(queue, Head(h.items)) ELSE queue
        /\ stack' = IF room /\ ~Pending THEN <<Processing(FALSE)>> \o r ELSE r
        /\ delay' = delay
    BY <1>2 DEF Add, Top, Replacing
  <2>2. h \in Frame /\ h.items \in Seq(Item) /\ Tail(h.items) \in Seq(Item) /\ Head(h.items) \in Item
    <3>1. h \in Frame BY <1>0, <2>1, PopFrame
    <3>2. h.items \in Seq(Item) BY <3>1 DEF Frame
    <3> HIDE DEF h
    <3> QED BY <2>1, <3>1, <3>2
  <2>3. f \in Frame /\ f.at = "adding" /\ f.worker = h.worker BY <2>1, <2>2 DEF Frame
  <2> HIDE DEF f, h
  <2>4. r \in Seq(Frame) /\ WorkersLoop(r) /\ (Looping(r) <=> Looping(stack))
    BY <1>0, <2>1, <2>3, PopFrame, PushFrame DEF h
  <2> HIDE DEF r
  <2>5. /\ Processing(FALSE) \in Frame /\ Processing(FALSE).worker = FALSE
        /\ Processing(FALSE).at # "adding"
    BY FrameTypes DEF Processing
  <2>6. stack' \in Seq(Frame) /\ WorkersLoop(stack') BY <2>1, <2>4, <2>5, PushFrame
  <2>7. queue' \in Seq(Item) /\ Len(queue') <= QueueSize
    BY <1>0, <2>1, <2>2, QueueAssumption
  <2>8. Awake'
    <3>1. CASE room /\ ~Pending
      <4>1. Looping(stack') BY <2>1, <2>4, <2>5, <3>1, PushFrame
      <4> QED BY <4>1 DEF Awake
    <3>2. CASE room /\ Pending
      <4>1. CASE delay # Never BY <2>1, <4>1 DEF Awake
      <4>2. CASE delay = Never
        <5>1. Looping(stack) BY <1>0, <3>2, <4>2 DEF Pending, WorkersLoop, Looping
        <5> QED BY <2>1, <2>4, <3>2, <5>1 DEF Awake
      <4> QED BY <4>1, <4>2
    <3>3. CASE ~room BY <1>0, <2>1, <2>4, <3>3 DEF Awake
    <3> QED BY <3>1, <3>2, <3>3
  <2> QED BY <1>0, <2>1, <2>6, <2>7, <2>8 DEF QueueInv, QueueTypeOK
<1>3. ASSUME Added PROVE QueueInv'
  <2>1. stack # <<>> /\ Head(stack).at = "adding" /\ stack' = Tail(stack) BY <1>3 DEF Added, Top
  <2> QED BY <1>0, <1>3, <2>1, PopFrame DEF Added, QueueInv, QueueTypeOK, Awake
<1>4. ASSUME Get PROVE QueueInv'
  <2>1. stack # <<>> /\ Head(stack).at = "get" /\ delay' = delay BY <1>4 DEF Get, Top
  <2>2. CASE queue = <<>>
    <3>1. stack' = Tail(stack) /\ queue' = queue BY <1>4, <2>2 DEF Get
    <3> QED BY <1>0, <2>1, <2>2, <3>1, PopFrame DEF QueueInv, QueueTypeOK, Awake
  <2>3. CASE queue # <<>>
    <3> DEFINE f == [Head(stack) EXCEPT !.at = "got", !.wait = Head(queue).wait]
               g == Adding(AddsOf[Head(queue)])
               r == <<f>> \o Tail(stack)
    <3>1. queue' = Tail(queue) /\ stack' = <<g>> \o r BY <1>4, <2>3 DEF Get, Replacing
    <3>2. Head(queue) \in Item /\ Tail(queue) \in Seq(Item) /\ Len(Tail(queue)) <= QueueSize
      BY <1>0, <2>3, QueueAssumption
    <3>3. g \in Frame /\ g.worker = FALSE
      BY <3>2, FrameTypes, QueueAssumption DEF Adding
    <3>4. f \in Frame /\ f.at = "got"
      <4>1. Head(stack) \in Frame /\ Head(queue).wait \in Nat
        BY <1>0, <2>1, <3>2, PopFrame, QueueAssumption
      <4> QED BY <4>1 DEF Frame
    <3> HIDE DEF f, g
    <3>5. r \in Seq(Frame) /\ WorkersLoop(r) /\ Looping(r)
      BY <1>0, <2>1, <3>4, PopFrame, PushFrame
    <3> HIDE DEF r
    <3>6. stack' \in Seq(Frame) /\ WorkersLoop(stack') /\ Looping(stack')
      BY <3>1, <3>3, <3>5, PushFrame
    <3> QED BY <1>0, <2>1, <3>1, <3>2, <3>6 DEF QueueInv, QueueTypeOK, Awake
  <2> QED BY <2>2, <2>3
<1>5. ASSUME Wait PROVE QueueInv'
  <2>1. stack # <<>> /\ Head(stack).at = "got" /\ Head(stack) \in Frame /\ queue' = queue
    BY <1>0, <1>5, PopFrame DEF Wait, Top
  <2>2. CASE Head(stack).wait > 0
    <3>1. /\ stack' = Tail(stack)
          /\ delay' = IF delay = Never THEN Head(stack).wait ELSE delay
      BY <1>5, <2>2 DEF Wait
    <3>2. delay' \in Nat \cup {Never} /\ delay' # Never
      BY <1>0, <2>1, <3>1, QueueAssumption DEF Frame
    <3> QED BY <1>0, <2>1, <3>1, <3>2, PopFrame DEF QueueInv, QueueTypeOK, Awake
  <2>3. CASE ~(Head(stack).wait > 0)
    <3> DEFINE f == [Head(stack) EXCEPT !.at = "get", !.wait = 0]
    <3>1. stack' = <<f>> \o Tail(stack) /\ delay' = delay
      BY <1>5, <2>3 DEF Wait, Replacing
    <3>2. f \in Frame /\ f.at = "get" BY <2>1 DEF Frame
    <3> HIDE DEF f
    <3>3. stack' \in Seq(Frame) /\ WorkersLoop(stack') /\ Looping(stack')
      BY <1>0, <2>1, <3>1, <3>2, PopFrame, PushFrame
    <3> QED BY <1>0, <2>1, <3>1, <3>3 DEF QueueInv, QueueTypeOK, Awake
  <2> QED BY <2>2, <2>3
<1>6. ASSUME Work PROVE QueueInv'
  <2>1. stack' = <<Processing(TRUE)>> \o stack /\ queue' = queue /\ delay' = Never
    BY <1>6 DEF Work
  <2>2. Processing(TRUE) \in Frame /\ Processing(TRUE).at # "adding"
    BY FrameTypes DEF Processing
  <2> QED BY <1>0, <2>1, <2>2, PushFrame DEF QueueInv, QueueTypeOK, Awake
<1>7. ASSUME QueueTick PROVE QueueInv'
  <2>1. delay' \in Nat \cup {Never} /\ (delay' = Never <=> delay = Never)
    BY <1>0, <1>7, QueueAssumption DEF QueueTick
  <2> QED BY <1>0, <1>7, <2>1 DEF QueueTick, QueueInv, QueueTypeOK, Awake
<1>8. CASE UNCHANGED queue_vars
  BY <1>0, <1>8 DEF queue_vars, QueueInv, QueueTypeOK, Awake
<1> QED BY <1>1, <1>2, <1>3, <1>4, <1>5, <1>6, <1>7, <1>8 DEF QueueNext

THEOREM QueueInvariance == QueueSpec => []QueueInv
BY InitQueueInv, NextQueueInv, PTL DEF QueueSpec

\* The queue holds no more items than it has room for, and calls nest properly.
THEOREM QueueTypeCorrect == QueueSpec => []QueueTypeOK
BY QueueInvariance, PTL DEF QueueInv

\* When no call is under way and items are queued, queue_work is scheduled to run them.
THEOREM NoWakeupIsLost == QueueSpec => []NoLostWakeup
<1>1. QueueInv => NoLostWakeup BY DEF QueueInv, Awake, Looping, NoLostWakeup
<1> QED BY QueueInvariance, <1>1, PTL
-----------------------------------------------------------------------------
(* The users of the queue. *)

LEMMA Lists ==
    /\ \A m \in Macros : Pressed(m) \in Seq(Item) /\ Released(m) \in Seq(Item)
    /\ \A s \in DOMAIN Sensors : Turned(s) \in Seq(Item)
    /\ \A i \in Item : /\ i.caller \in Callers /\ i.of \in Keys \cup Macros
                       /\ i.press \in BOOLEAN /\ i.wait \in Times
                       /\ AddsOf[i] \in Seq(Item)
                       /\ i.of \in Keys => AddsOf[i] = <<>>
                       /\ i.of \in Macros /\ i.press => AddsOf[i] = Pressed(i.of)
                       /\ i.of \in Macros /\ ~i.press => AddsOf[i] = Released(i.of)
<1>1. \A i \in Item : i \in MacroItem /\ AddsOf[i] \in Seq(Item)
  BY QueueAssumption, MacroQueueAssumption
<1>2. \A i \in MacroItem : AddsOf[i] = IF i.of \in Keys THEN <<>>
                               ELSE IF i.press THEN Pressed(i.of) ELSE Released(i.of)
  BY MacroQueueAssumption DEF MacroAdds
<1>3. \A i \in MacroItem : /\ i.caller \in Callers /\ i.of \in Keys \cup Macros
                           /\ i.press \in BOOLEAN /\ i.wait \in Times
  BY DEF MacroItem
<1>4. \A m \in Macros : m \notin Keys BY MacroAssumption
<1>5. ASSUME NEW m \in Macros PROVE Pressed(m) \in Seq(Item) /\ Released(m) \in Seq(Item)
  <2> DEFINE item(b) == [caller |-> m, of |-> m, press |-> b, wait |-> 0]
  <2>1. \A b \in BOOLEAN : item(b) \in MacroItem /\ item(b).of = m /\ item(b).press = b
    BY MacroAssumption DEF MacroItem, Callers
  <2> HIDE DEF item
  <2>2. \A b \in BOOLEAN : AddsOf[item(b)] \in Seq(Item) BY <1>1, <2>1, MacroQueueAssumption
  <2>3. AddsOf[item(TRUE)] = Pressed(m) /\ AddsOf[item(FALSE)] = Released(m)
    BY <1>2, <1>4, <2>1
  <2> QED BY <2>2, <2>3
<1>6. ASSUME NEW s \in DOMAIN Sensors PROVE Turned(s) \in Seq(Item)
  <2>1. \A b \in BOOLEAN, t \in Times :
          [caller |-> s, of |-> Sensors[s].of, press |-> b, wait |-> t] \in MacroItem
    BY MacroAssumption DEF MacroItem, Callers
  <2>2. Sensors[s].tap \in Times /\ 0 \in Times BY MacroAssumption
  <2>3. Item = MacroItem BY MacroQueueAssumption
  <2>4. /\ [caller |-> s, of |-> Sensors[s].of, press |-> TRUE, wait |-> Sensors[s].tap] \in Item
        /\ [caller |-> s, of |-> Sensors[s].of, press |-> FALSE, wait |-> 0] \in Item
    BY <2>1, <2>2, <2>3
  <2>5. \A x, y \in Item : <<x, y>> \in Seq(Item) OBVIOUS
  <2> QED BY <2>4, <2>5 DEF Turned
<1> QED BY <1>1, <1>2, <1>3, <1>4, <1>5, <1>6

LEMMA StepsOfTheQueue == [Next]_vars => [QueueNext]_queue_vars
<1>1. ASSUME NEW m \in Macros, MacroDown(m) \/ MacroUp(m) PROVE QueueNext
  BY <1>1, Lists DEF MacroDown, MacroUp, QueueNext
<1>2. ASSUME NEW s \in DOMAIN Sensors, Turn(s) PROVE QueueNext
  BY <1>2, Lists DEF Turn, QueueNext
<1>3. AddOne \/ Loop \/ Invoke \/ Tick => QueueNext
  BY DEF AddOne, Loop, Invoke, Tick, QueueNext
<1>4. UNCHANGED vars => UNCHANGED queue_vars BY DEF vars, queue_vars
<1> QED BY <1>1, <1>2, <1>3, <1>4 DEF Next

\* The macros and the sensors use the queue as its specification allows: nothing that it
\* promises to any caller is lost on them.
THEOREM MacrosImplementTheQueue == Spec => QueueSpec
<1>1. Init => QueueInit BY DEF Init
<1> QED BY <1>1, StepsOfTheQueue, PTL DEF Spec, QueueSpec

\* The types of what the queue does not know of.
UsersTypeOK ==
    /\ held \subseteq Macros /\ down \subseteq Keys
    /\ due \in [Callers -> [of : Callers \cup Keys, left : Times]]
    /\ refused \in BOOLEAN /\ events \in 0 .. MaxEvents

LEMMA QueueHead ==
    ASSUME QueueInv, queue # <<>>
    PROVE  Head(queue) \in Item /\ Tail(queue) \in Seq(Item)
BY DEF QueueInv, QueueTypeOK

LEMMA InvokeEffect ==
    ASSUME QueueInv, Invoke, queue # <<>>
    PROVE  /\ Top("get") /\ delay' = delay /\ queue' = Tail(queue)
           /\ stack' = <<Adding(AddsOf[Head(queue)])>>
                         \o (<<[Head(stack) EXCEPT !.at = "got", !.wait = Head(queue).wait]>> \o Tail(stack))
           /\ down' = IF Head(queue).of \notin Keys THEN down
                      ELSE IF Head(queue).press THEN down \cup {Head(queue).of} ELSE down \ {Head(queue).of}
           /\ due' = [due EXCEPT ![Head(queue).caller] = [of |-> Head(queue).of, left |-> Head(queue).wait]]
BY DEF Invoke, Get, Replacing

LEMMA UsersTyped == QueueInv /\ UsersTypeOK /\ [Next]_vars => UsersTypeOK'
<1> SUFFICES ASSUME QueueInv, UsersTypeOK, [Next]_vars PROVE UsersTypeOK' OBVIOUS
<1>1. ASSUME NEW m \in Macros, MacroDown(m) \/ MacroUp(m) PROVE UsersTypeOK'
  BY <1>1, MacroAssumption DEF MacroDown, MacroUp, UsersTypeOK
<1>2. ASSUME NEW s \in DOMAIN Sensors, Turn(s) PROVE UsersTypeOK'
  BY <1>2, MacroAssumption DEF Turn, UsersTypeOK
<1>3. ASSUME AddOne \/ Loop PROVE UsersTypeOK'
  BY <1>3 DEF AddOne, Loop, UsersTypeOK
<1>4. ASSUME Invoke PROVE UsersTypeOK'
  <2>1. UNCHANGED <<held, refused, events>> BY <1>4 DEF Invoke
  <2>2. CASE queue = <<>> BY <1>4, <2>1, <2>2 DEF Invoke, UsersTypeOK
  <2>3. CASE queue # <<>>
    <3> DEFINE h == Head(queue)
    <3>1. h.caller \in Callers /\ h.of \in Keys \cup Macros /\ h.wait \in Times
      BY <2>3, QueueHead, Lists
    <3>2. /\ down' = IF h.of \notin Keys THEN down
                     ELSE IF h.press THEN down \cup {h.of} ELSE down \ {h.of}
          /\ due' = [due EXCEPT ![h.caller] = [of |-> h.of, left |-> h.wait]]
      BY <1>4, <2>3, InvokeEffect
    <3> HIDE DEF h
    <3>3. down' \subseteq Keys BY <3>2 DEF UsersTypeOK
    <3>4. [of |-> h.of, left |-> h.wait] \in [of : Callers \cup Keys, left : Times]
      BY <3>1 DEF Callers
    <3>5. due' \in [Callers -> [of : Callers \cup Keys, left : Times]]
      BY <3>1, <3>2, <3>4 DEF UsersTypeOK
    <3> QED BY <2>1, <3>3, <3>5 DEF UsersTypeOK
  <2> QED BY <2>2, <2>3
<1>5. ASSUME Tick PROVE UsersTypeOK'
  <2>1. /\ due' = [c \in Callers |-> [due[c] EXCEPT !.left = IF due[c].left = 0 THEN 0 ELSE due[c].left - 1]]
        /\ UNCHANGED <<held, down, refused, events>>
    BY <1>5 DEF Tick
  <2>2. ASSUME NEW d \in [of : Callers \cup Keys, left : Times]
        PROVE  [d EXCEPT !.left = IF d.left = 0 THEN 0 ELSE d.left - 1] \in [of : Callers \cup Keys, left : Times]
    BY MacroAssumption
  <2>3. \A c \in Callers : due[c] \in [of : Callers \cup Keys, left : Times] BY DEF UsersTypeOK
  <2>4. due' \in [Callers -> [of : Callers \cup Keys, left : Times]] BY <2>1, <2>2, <2>3
  <2> QED BY <2>1, <2>4 DEF UsersTypeOK
<1>6. CASE UNCHANGED vars BY <1>6 DEF vars, UsersTypeOK
<1> QED BY <1>1, <1>2, <1>3, <1>4, <1>5, <1>6 DEF Next

MacroInv == QueueInv /\ UsersTypeOK

LEMMA MacroInvariance == Spec => []MacroInv
<1>1. Init => MacroInv
  <2>1. ASSUME Init PROVE UsersTypeOK
    <3>1. \A c \in Callers : [of |-> c, left |-> 0] \in [of : Callers \cup Keys, left : Times]
      BY MacroAssumption
    <3>2. due = [c \in Callers |-> [of |-> c, left |-> 0]] BY <2>1 DEF Init
    <3>3. due \in [Callers -> [of : Callers \cup Keys, left : Times]] BY <3>1, <3>2
    <3>4. held = {} /\ down = {} /\ refused = FALSE /\ events = 0 BY <2>1 DEF Init
    <3>5. 0 \in 0 .. MaxEvents BY MacroAssumption
    <3> QED BY <3>3, <3>4, <3>5 DEF UsersTypeOK
  <2> QED BY <2>1, InitQueueInv DEF Init, MacroInv
<1>2. MacroInv /\ [Next]_vars => MacroInv'
  BY UsersTyped, StepsOfTheQueue, NextQueueInv DEF MacroInv
<1> QED BY <1>1, <1>2, PTL DEF Spec
-----------------------------------------------------------------------------
(* The waits after keys. *)

NoGet(s) == \A i \in DOMAIN s : s[i].at # "get"
AllWait(s) == \A i \in DOMAIN s : s[i].at = "got" => s[i].wait > 0
\* The calls under way, without one of add that has added all its items.
Open(s) == IF s # <<>> /\ Head(s).at = "adding" /\ Head(s).items = <<>> THEN Tail(s) ELSE s
\* All that is going to be queued waits after the macros that it invokes.
ListsWait(s) == \A i \in DOMAIN s : WaitsAfterMacros(s[i].items)

LEMMA PushWaits ==
    ASSUME NEW s \in Seq(Frame), NEW f \in Frame
    PROVE  /\ NoGet(<<f>> \o s) <=> f.at # "get" /\ NoGet(s)
           /\ AllWait(<<f>> \o s) <=> (f.at = "got" => f.wait > 0) /\ AllWait(s)
           /\ ListsWait(<<f>> \o s) <=> WaitsAfterMacros(f.items) /\ ListsWait(s)
           /\ Head(<<f>> \o s) = f /\ Tail(<<f>> \o s) = s
           /\ <<f>> \o s \in Seq(Frame) /\ <<f>> \o s # <<>>
<1> DEFINE t == <<f>> \o s
<1>1. /\ t \in Seq(Frame) /\ Len(t) = Len(s) + 1 /\ t[1] = f
      /\ \A i \in 1 .. Len(s) : t[i + 1] = s[i]
      /\ Head(t) = f /\ t # <<>>
  OBVIOUS
<1>2. DOMAIN t = 1 .. Len(s) + 1 /\ DOMAIN s = 1 .. Len(s) BY <1>1
<1>3. Tail(t) = s OBVIOUS
<1> HIDE DEF t
<1>4. \A i \in DOMAIN t : i = 1 \/ (i - 1 \in DOMAIN s /\ t[i] = s[i - 1]) BY <1>1, <1>2
<1>5. \A i \in DOMAIN s : i + 1 \in DOMAIN t /\ t[i + 1] = s[i] BY <1>1, <1>2
<1>6. 1 \in DOMAIN t /\ t[1] = f BY <1>1, <1>2
<1>7. NoGet(t) <=> f.at # "get" /\ NoGet(s) BY <1>4, <1>5, <1>6 DEF NoGet
<1>8. AllWait(t) <=> (f.at = "got" => f.wait > 0) /\ AllWait(s)
  BY <1>4, <1>5, <1>6 DEF AllWait
<1>9. ListsWait(t) <=> WaitsAfterMacros(f.items) /\ ListsWait(s)
  BY <1>4, <1>5, <1>6 DEF ListsWait
<1> QED BY <1>1, <1>3, <1>7, <1>8, <1>9 DEF t

LEMMA PopWaits ==
    ASSUME NEW s \in Seq(Frame), s # <<>>
    PROVE  /\ Head(s) \in Frame /\ Tail(s) \in Seq(Frame)
           /\ NoGet(s) <=> Head(s).at # "get" /\ NoGet(Tail(s))
           /\ AllWait(s) <=> (Head(s).at = "got" => Head(s).wait > 0) /\ AllWait(Tail(s))
           /\ ListsWait(s) <=> WaitsAfterMacros(Head(s).items) /\ ListsWait(Tail(s))
<1>1. Head(s) \in Frame /\ Tail(s) \in Seq(Frame) /\ s = <<Head(s)>> \o Tail(s) OBVIOUS
<1> QED BY <1>1, PushWaits

\* A wait that is not over: queue_work is scheduled for its end, or it has not begun yet
\* and the innermost call holds it.
Held(c) ==
    IF delay # Never THEN due[c].left <= delay
    ELSE /\ Open(stack) # <<>> /\ Head(Open(stack)).at = "got"
         /\ due[c].left <= Head(Open(stack)).wait

\* Only the innermost call gets items; the calls around it are at bindings that have a wait,
\* and while queue_work is scheduled none of them goes on at once.
Waiting ==
    /\ WaitsAfterMacros(queue) /\ ListsWait(stack)
    /\ stack # <<>> => NoGet(Tail(stack))
    /\ Open(stack) # <<>> => AllWait(Tail(Open(stack)))
    /\ delay # Never => NoGet(stack) /\ AllWait(stack)
    /\ \A c \in Callers : due[c].of \in Keys /\ due[c].left # 0 => Held(c)

ItemWaits(i) == i.wait = 0 => AddsOf[i] = <<>>

LEMMA WaitsEmpty == WaitsAfterMacros(<<>>)
BY DEF WaitsAfterMacros

LEMMA WaitsHead ==
    ASSUME NEW l \in Seq(Item), l # <<>>, WaitsAfterMacros(l)
    PROVE  WaitsAfterMacros(Tail(l)) /\ ItemWaits(Head(l))
<1>1. Len(Tail(l)) = Len(l) - 1 /\ \A i \in 1 .. Len(Tail(l)) : Tail(l)[i] = l[i + 1] OBVIOUS
<1>2. Tail(l) \in Seq(Item) /\ DOMAIN l = 1 .. Len(l) /\ Len(l) \in Nat /\ Len(l) > 0 OBVIOUS
<1>3. DOMAIN Tail(l) = 1 .. Len(Tail(l)) BY <1>2
<1>4. Head(l) = l[1] OBVIOUS
<1> QED BY <1>1, <1>2, <1>3, <1>4 DEF WaitsAfterMacros, ItemWaits

LEMMA WaitsAppend ==
    ASSUME NEW l \in Seq(Item), NEW i \in Item, WaitsAfterMacros(l), ItemWaits(i)
    PROVE  WaitsAfterMacros(Append(l, i))
<1> DEFINE t == Append(l, i)
<1>1. Len(t) = Len(l) + 1 /\ t \in Seq(Item) /\ t[Len(l) + 1] = i
      /\ \A k \in 1 .. Len(l) : t[k] = l[k]
  OBVIOUS
<1>2. DOMAIN t = 1 .. Len(l) + 1 /\ DOMAIN l = 1 .. Len(l) /\ Len(l) \in Nat BY <1>1
<1> HIDE DEF t
<1>3. \A k \in DOMAIN t : k = Len(l) + 1 \/ k \in DOMAIN l BY <1>2
<1> QED BY <1>1, <1>2, <1>3 DEF WaitsAfterMacros, ItemWaits, t

LEMMA AddedWait ==
    ASSUME AllWaitAfterMacros, NEW i \in Item
    PROVE  WaitsAfterMacros(AddsOf[i])
BY Lists, WaitsEmpty DEF AllWaitAfterMacros

LEMMA OpenPushed ==
    ASSUME NEW s \in Seq(Frame), NEW f \in Frame
    PROVE  Open(<<f>> \o s) = IF f.at = "adding" /\ f.items = <<>> THEN s ELSE <<f>> \o s
BY PushWaits DEF Open

LEMMA InitWaiting == Init => Waiting
<1> SUFFICES ASSUME Init PROVE Waiting OBVIOUS
<1>1. stack = <<>> /\ queue = <<>> /\ delay = Never BY DEF Init, QueueInit
<1>2. \A c \in Callers : due[c].left = 0 BY DEF Init
<1> QED BY <1>1, <1>2, WaitsEmpty DEF Waiting, Open, ListsWait

LEMMA NextWaiting ==
    ASSUME AllWaitAfterMacros, MacroInv, Waiting, [Next]_vars
    PROVE  Waiting'
<1>0. /\ queue \in Seq(Item) /\ delay \in Nat \cup {Never}
      /\ stack \in Seq(Frame) /\ WorkersLoop(stack)
      /\ due \in [Callers -> [of : Callers \cup Keys, left : Times]]
      /\ WaitsAfterMacros(queue) /\ ListsWait(stack)
  BY DEF MacroInv, QueueInv, QueueTypeOK, UsersTypeOK, Waiting
<1>1. ASSUME NEW l \in Seq(Item), WaitsAfterMacros(l), Start(l), UNCHANGED due PROVE Waiting'
  <2>1. stack = <<>> /\ stack' = <<Adding(l)>> \o stack /\ queue' = queue /\ delay' = delay
    BY <1>1 DEF Start
  <2>2. /\ Adding(l) \in Frame /\ Adding(l).at = "adding" /\ Adding(l).items = l
        /\ "adding" # "get" /\ "adding" # "got"
    BY FrameTypes DEF Adding
  <2>3. /\ Head(stack') = Adding(l) /\ Tail(stack') = <<>> /\ ListsWait(stack')
        /\ NoGet(stack') /\ AllWait(stack')
    <3>1. ListsWait(stack) /\ NoGet(stack) /\ AllWait(stack)
      BY <2>1 DEF ListsWait, NoGet, AllWait
    <3> QED BY <1>0, <1>1, <2>1, <2>2, <3>1, PushWaits
  <2>4. Open(stack') = <<>> \/ (Open(stack') # <<>> /\ Tail(Open(stack')) = <<>>)
    BY <2>3 DEF Open
  <2>5. NoGet(<<>>) /\ AllWait(<<>>) BY DEF NoGet, AllWait
  <2>6. ASSUME NEW c \in Callers, due[c].of \in Keys, due[c].left # 0 PROVE Held(c)'
    <3>1. Held(c) BY <2>6 DEF Waiting
    <3>2. delay # Never /\ due[c].left <= delay BY <2>1, <3>1 DEF Held, Open
    <3> QED BY <1>1, <2>1, <3>2 DEF Held
  <2> QED BY <1>0, <1>1, <2>1, <2>3, <2>4, <2>5, <2>6 DEF Waiting
<1>2. ASSUME Add, UNCHANGED due PROVE Waiting'
  <2> DEFINE h == Head(stack)
             f == [h EXCEPT !.items = Tail(h.items)]
             room == Len(queue) < QueueSize
             r == <<f>> \o Tail(stack)
  <2>1. /\ stack # <<>> /\ h.at = "adding" /\ h.items # <<>>
        /\ queue' = IF room THEN Append(queue, Head(h.items)) ELSE queue
        /\ stack' = IF room /\ ~Pending THEN <<Processing(FALSE)>> \o r ELSE r
        /\ delay' = delay
    BY <1>2 DEF Add, Top, Replacing
  <2>2. h \in Frame /\ h.items \in Seq(Item) /\ Tail(h.items) \in Seq(Item) /\ Head(h.items) \in Item
    <3>1. h \in Frame BY <1>0, <2>1, PopFrame
    <3>2. h.items \in Seq(Item) BY <3>1 DEF Frame
    <3> HIDE DEF h
    <3> QED BY <2>1, <3>1, <3>2
  <2>3. f \in Frame /\ f.at = "adding" /\ f.items = Tail(h.items) BY <2>1, <2>2 DEF Frame
  <2>4. WaitsAfterMacros(h.items) /\ ListsWait(Tail(stack)) BY <1>0, <2>1, PopWaits
  <2>5. WaitsAfterMacros(Tail(h.items)) /\ ItemWaits(Head(h.items))
    BY <2>1, <2>2, <2>4, WaitsHead
  <2>6. Open(stack) = stack BY <2>1 DEF Open
  <2>7. NoGet(Tail(stack)) /\ AllWait(Tail(stack)) /\ Tail(stack) \in Seq(Frame)
    BY <1>0, <2>1, <2>6, PopWaits DEF Waiting
  <2> HIDE DEF f, h
  <2>8. /\ r \in Seq(Frame) /\ NoGet(r) /\ AllWait(r) /\ ListsWait(r) /\ r # <<>>
        /\ Tail(r) = Tail(stack) /\ Head(r) = f
    BY <2>3, <2>4, <2>5, <2>7, PushWaits
  <2>9. delay # Never \/ \A c \in Callers : due[c].of \in Keys => due[c].left = 0
    BY <2>1, <2>6 DEF Waiting, Held, h
  <2>10. Open(r) = r \/ Open(r) = Tail(r) BY DEF Open
  <2>11. AllWait(Tail(Tail(r))) \/ Tail(r) = <<>>
    BY <2>7, <2>8, PopWaits
  <2> HIDE DEF r
  <2>12. WaitsAfterMacros(queue') BY <1>0, <2>1, <2>2, <2>5, WaitsAppend
  <2>13. \A c \in Callers : due'[c].of \in Keys /\ due'[c].left # 0 => Held(c)'
    BY <1>2, <2>1, <2>9 DEF Waiting, Held
  <2>14. CASE room /\ ~Pending
    <3> DEFINE g == Processing(FALSE)
    <3>1. g \in Frame /\ g.at = "get" /\ g.items = <<>> BY FrameTypes DEF Processing
    <3>2. stack' = <<g>> \o r /\ delay' = Never BY <2>1, <2>14 DEF Pending
    <3> HIDE DEF g
    <3>3. Tail(stack') = r /\ Head(stack') = g /\ ListsWait(stack') /\ stack' # <<>>
      BY <2>8, <3>1, <3>2, PushWaits, WaitsEmpty
    <3>4. Open(stack') = stack' BY <3>1, <3>3 DEF Open
    <3> QED BY <2>8, <2>12, <2>13, <3>2, <3>3, <3>4 DEF Waiting
  <2>15. CASE ~(room /\ ~Pending)
    <3>1. stack' = r BY <2>1, <2>15
    <3>2. Open(stack') # <<>> => AllWait(Tail(Open(stack')))
      BY <2>7, <2>8, <2>10, <2>11, <3>1
    <3> QED BY <2>7, <2>8, <2>12, <2>13, <3>1, <3>2 DEF Waiting
  <2> QED BY <2>14, <2>15
<1>3. ASSUME Added, UNCHANGED due PROVE Waiting'
  <2>1. /\ stack # <<>> /\ Head(stack).at = "adding" /\ Head(stack).items = <<>>
        /\ stack' = Tail(stack) /\ queue' = queue /\ delay' = delay
    BY <1>3 DEF Added, Top
  <2> DEFINE t == Tail(stack)
  <2>2. /\ t \in Seq(Frame) /\ ListsWait(t)
        /\ NoGet(stack) <=> NoGet(t)
        /\ AllWait(stack) <=> AllWait(t)
    BY <1>0, <2>1, PopWaits
  <2>3. NoGet(t) BY <2>1 DEF Waiting
  <2>4. Open(stack) = t BY <2>1 DEF Open
  <2>11. stack' = t BY <2>1
  <2> HIDE DEF t
  <2>5. t # <<>> => AllWait(Tail(t)) BY <2>4 DEF Waiting
  <2>6. t # <<>> => NoGet(Tail(t)) BY <2>2, <2>3, PopWaits
  <2>7. Open(t) # <<>> => AllWait(Tail(Open(t)))
    <3>1. CASE t # <<>> /\ Head(t).at = "adding" /\ Head(t).items = <<>>
      <4>1. Open(t) = Tail(t) BY <3>1 DEF Open
      <4>2. AllWait(Tail(t)) /\ Tail(t) \in Seq(Frame) BY <2>2, <2>5, <3>1, PopWaits
      <4> QED BY <4>1, <4>2, PopWaits
    <3>2. CASE ~(t # <<>> /\ Head(t).at = "adding" /\ Head(t).items = <<>>)
      BY <2>5, <3>2 DEF Open
    <3> QED BY <3>1, <3>2
  <2>8. ASSUME NEW c \in Callers, due[c].of \in Keys, due[c].left # 0 PROVE Held(c)'
    <3>1. Held(c) BY <2>8 DEF Waiting
    <3>2. delay = Never => t # <<>> /\ Head(t).at = "got" /\ due[c].left <= Head(t).wait
      BY <2>4, <3>1 DEF Held
    <3>3. delay = Never => Open(t) = t BY <3>2 DEF Open
    <3> QED BY <1>3, <2>1, <2>11, <3>1, <3>2, <3>3 DEF Held
  <2>9. delay # Never => NoGet(t) /\ AllWait(t)
    <3>1. delay # Never => AllWait(stack) BY DEF Waiting
    <3> QED BY <2>2, <2>3, <3>1
  <2>10. \A c \in Callers : due'[c].of \in Keys /\ due'[c].left # 0 => Held(c)'
    BY <1>3, <2>8
  <2> QED BY <1>0, <2>1, <2>2, <2>6, <2>7, <2>9, <2>10, <2>11 DEF Waiting
<1>4. ASSUME Invoke PROVE Waiting'
  <2>1. stack # <<>> /\ Head(stack).at = "get" /\ delay' = delay BY <1>4 DEF Invoke, Get, Top
  <2> DEFINE t == Tail(stack)
  <2>2. t \in Seq(Frame) /\ ListsWait(t) /\ ~NoGet(stack) BY <1>0, <2>1, PopWaits
  <2>3. delay = Never /\ NoGet(t) BY <2>1, <2>2 DEF Waiting
  <2>4. Open(stack) = stack BY <2>1 DEF Open
  <2>5. AllWait(t) BY <2>1, <2>4 DEF Waiting
  <2>6. \A c \in Callers : due[c].of \in Keys => due[c].left = 0
    BY <2>1, <2>3, <2>4 DEF Waiting, Held
  <2>7. CASE queue = <<>>
    <3>1. stack' = t /\ queue' = queue /\ due' = due BY <1>4, <2>7 DEF Invoke, Get
    <3>2. t # <<>> => NoGet(Tail(t)) /\ AllWait(Tail(t)) /\ Tail(t) \in Seq(Frame)
      BY <2>2, <2>3, <2>5, PopWaits
    <3>3. Open(t) = t \/ (t # <<>> /\ Open(t) = Tail(t)) BY DEF Open
    <3>4. Open(t) # <<>> => AllWait(Tail(Open(t))) BY <3>2, <3>3, PopWaits
    <3> QED BY <1>0, <2>1, <2>2, <2>3, <2>6, <3>1, <3>2, <3>4 DEF Waiting
  <2>8. CASE queue # <<>>
    <3> DEFINE h == Head(queue)
               f == [Head(stack) EXCEPT !.at = "got", !.wait = h.wait]
               g == Adding(AddsOf[h])
               r == <<f>> \o t
    <3>1. /\ queue' = Tail(queue) /\ stack' = <<g>> \o r
          /\ due' = [due EXCEPT ![h.caller] = [of |-> h.of, left |-> h.wait]]
      BY <1>4, <2>8, InvokeEffect DEF MacroInv
    <3>2. h \in Item /\ Tail(queue) \in Seq(Item) BY <2>8, QueueHead DEF MacroInv
    <3>3. /\ h.caller \in Callers /\ h.wait \in Nat /\ AddsOf[h] \in Seq(Item)
          /\ h.of \in Keys => AddsOf[h] = <<>>
      BY <3>2, Lists, QueueAssumption
    <3>4. WaitsAfterMacros(Tail(queue)) /\ ItemWaits(h) /\ WaitsAfterMacros(AddsOf[h])
      BY <1>0, <2>8, <3>2, WaitsHead, AddedWait
    <3>5. g \in Frame /\ g.at = "adding" /\ g.items = AddsOf[h]
      BY <3>3, FrameTypes DEF Adding
    <3>6. f \in Frame /\ f.at = "got" /\ f.wait = h.wait /\ f.items = Head(stack).items
      <4>1. Head(stack) \in Frame BY <1>0, <2>1, PopFrame
      <4> QED BY <3>3, <4>1 DEF Frame
    <3>7. WaitsAfterMacros(f.items) BY <1>0, <2>1, <3>6, PopWaits
    <3> HIDE DEF f, g, h
    <3>8. /\ r \in Seq(Frame) /\ NoGet(r) /\ ListsWait(r) /\ Head(r) = f /\ Tail(r) = t
          /\ r # <<>> /\ (f.wait > 0 => AllWait(r))
      BY <2>2, <2>3, <2>5, <3>6, <3>7, PushWaits
    <3> HIDE DEF r, t
    <3>9. /\ Tail(stack') = r /\ ListsWait(stack') /\ stack' # <<>>
          /\ Open(stack') = IF AddsOf[h] = <<>> THEN r ELSE stack'
      BY <3>1, <3>4, <3>5, <3>8, PushWaits, OpenPushed
    <3>10. AddsOf[h] # <<>> => AllWait(r) BY <3>3, <3>4, <3>6, <3>8 DEF ItemWaits
    <3>11. AllWait(Tail(Open(stack'))) BY <2>5, <3>8, <3>9, <3>10
    <3>12. ASSUME NEW c \in Callers, due'[c].of \in Keys, due'[c].left # 0 PROVE Held(c)'
      <4>1. c = h.caller
        <5>1. c # h.caller => due'[c] = due[c] BY <1>0, <3>1, <3>3
        <5> QED BY <2>6, <3>12, <5>1
      <4>2. due'[c] = [of |-> h.of, left |-> h.wait] BY <1>0, <3>1, <3>3, <4>1
      <4>3. h.of \in Keys /\ due'[c].left = h.wait BY <3>12, <4>2
      <4>4. Open(stack') = r BY <3>3, <3>9, <4>3
      <4>5. due'[c].left <= Head(r).wait BY <3>3, <3>6, <3>8, <4>3
      <4>6. delay' = Never /\ Open(stack') # <<>> /\ Head(Open(stack')).at = "got"
        BY <2>1, <2>3, <3>6, <3>8, <4>4
      <4> QED BY <4>4, <4>5, <4>6 DEF Held
    <3> QED BY <2>1, <2>3, <3>1, <3>4, <3>8, <3>9, <3>11, <3>12 DEF Waiting
  <2> QED BY <2>7, <2>8
<1>5. ASSUME Wait, UNCHANGED due PROVE Waiting'
  <2> DEFINE h == Head(stack)
             t == Tail(stack)
  <2>1. stack # <<>> /\ h.at = "got" /\ queue' = queue BY <1>5 DEF Wait, Top
  <2>2. h \in Frame /\ t \in Seq(Frame) /\ ListsWait(t) /\ WaitsAfterMacros(h.items)
    BY <1>0, <2>1, PopWaits
  <2>3. Open(stack) = stack BY <2>1 DEF Open
  <2>4. NoGet(t) /\ AllWait(t) BY <2>1, <2>3 DEF Waiting
  <2>5. delay # Never => h.wait > 0 BY <1>0, <2>1, PopWaits DEF Waiting
  <2>6. t # <<>> => NoGet(Tail(t)) /\ AllWait(Tail(t)) /\ Tail(t) \in Seq(Frame)
    BY <2>2, <2>4, PopWaits
  <2>7. h.wait \in Nat BY <2>2 DEF Frame
  <2>8. \A c \in Callers : due[c].of \in Keys /\ due[c].left # 0 =>
          IF delay # Never THEN due[c].left <= delay ELSE due[c].left <= h.wait
    BY <2>3 DEF Waiting, Held
  <2>9. CASE h.wait > 0
    <3>1. stack' = t /\ delay' = IF delay = Never THEN h.wait ELSE delay
      BY <1>5, <2>9 DEF Wait
    <3>2. delay' # Never BY <1>0, <2>7, <3>1, QueueAssumption
    <3>3. \A c \in Callers : due'[c].of \in Keys /\ due'[c].left # 0 => Held(c)'
      BY <1>5, <2>8, <3>1, <3>2 DEF Held
    <3>4. Open(t) = t \/ (t # <<>> /\ Open(t) = Tail(t)) BY DEF Open
    <3>5. Open(t) # <<>> => AllWait(Tail(Open(t))) BY <2>6, <3>4, PopWaits
    <3> QED BY <1>0, <2>1, <2>2, <2>4, <2>6, <3>1, <3>3, <3>5 DEF Waiting
  <2>10. CASE ~(h.wait > 0)
    <3> DEFINE f == [h EXCEPT !.at = "get", !.wait = 0]
    <3>1. stack' = <<f>> \o t /\ delay' = delay BY <1>5, <2>10 DEF Wait, Replacing
    <3>2. f \in Frame /\ f.at = "get" /\ f.items = h.items BY <2>2 DEF Frame
    <3>3. delay = Never BY <2>5, <2>10
    <3>4. \A c \in Callers : due[c].of \in Keys => due[c].left = 0
      <4>1. \A c \in Callers : due[c].left \in Nat BY <1>0, MacroAssumption
      <4>2. h.wait = 0 BY <2>7, <2>10
      <4> QED BY <2>8, <3>3, <4>1, <4>2
    <3> HIDE DEF f, h, t
    <3>5. Tail(stack') = t /\ Head(stack') = f /\ ListsWait(stack') /\ stack' # <<>>
      BY <2>2, <3>1, <3>2, PushWaits
    <3>6. Open(stack') = stack' BY <3>2, <3>5 DEF Open
    <3>7. \A c \in Callers : due'[c].of \in Keys => due'[c].left = 0 BY <1>5, <3>4
    <3> QED BY <1>0, <2>1, <2>4, <3>1, <3>3, <3>5, <3>6, <3>7 DEF Waiting
  <2> QED BY <2>9, <2>10
<1>6. ASSUME Work, UNCHANGED due PROVE Waiting'
  <2>1. /\ delay = 0 /\ stack = <<>> /\ delay' = Never /\ queue' = queue
        /\ stack' = <<Processing(TRUE)>> \o stack
    BY <1>6 DEF Work
  <2>2. Processing(TRUE) \in Frame /\ Processing(TRUE).at = "get" /\ Processing(TRUE).items = <<>>
    BY FrameTypes DEF Processing
  <2>3. \A c \in Callers : due[c].of \in Keys => due[c].left = 0
    <3>1. \A c \in Callers : due[c].left \in Nat BY <1>0, MacroAssumption
    <3>2. delay # Never BY <2>1, QueueAssumption
    <3>3. \A c \in Callers : due[c].of \in Keys /\ due[c].left # 0 => due[c].left <= 0
      BY <2>1, <3>2 DEF Waiting, Held
    <3> QED BY <3>1, <3>3
  <2>4. Tail(stack') = <<>> /\ Head(stack') = Processing(TRUE) /\ ListsWait(stack') /\ stack' # <<>>
    BY <1>0, <2>1, <2>2, PushWaits, WaitsEmpty
  <2>5. Open(stack') = stack' BY <2>2, <2>4 DEF Open
  <2>6. NoGet(<<>>) /\ AllWait(<<>>) BY DEF NoGet, AllWait
  <2> QED BY <1>0, <1>6, <2>1, <2>3, <2>4, <2>5, <2>6 DEF Waiting
<1>7. ASSUME Tick PROVE Waiting'
  <2>1. /\ stack = <<>> /\ stack' = stack /\ queue' = queue
        /\ delay' = IF delay \in Nat \ {0} THEN delay - 1 ELSE delay
        /\ due' = [c \in Callers |-> [due[c] EXCEPT !.left = IF due[c].left = 0 THEN 0 ELSE due[c].left - 1]]
    BY <1>7 DEF Tick, QueueTick
  <2>2. delay' = Never <=> delay = Never BY <1>0, <2>1, QueueAssumption
  <2>3. ASSUME NEW c \in Callers, due'[c].of \in Keys, due'[c].left # 0 PROVE Held(c)'
    <3>1. due[c] \in [of : Callers \cup Keys, left : Nat] BY <1>0, MacroAssumption
    <3>2. /\ due'[c].of = due[c].of
          /\ due'[c].left = IF due[c].left = 0 THEN 0 ELSE due[c].left - 1
      BY <2>1, <3>1
    <3>3. due[c].of \in Keys /\ due[c].left # 0 BY <2>3, <3>2
    <3>4. Held(c) BY <3>3 DEF Waiting
    <3>5. delay # Never /\ due[c].left <= delay BY <2>1, <3>4 DEF Held, Open
    <3>6. delay \in Nat /\ due[c].left \in Nat BY <1>0, <3>1, <3>5
    <3>7. due'[c].left <= delay' BY <2>1, <3>2, <3>3, <3>5, <3>6
    <3> QED BY <2>2, <3>5, <3>7 DEF Held
  <2> QED BY <1>0, <2>1, <2>2, <2>3 DEF Waiting, Open
<1>8. CASE UNCHANGED vars BY <1>8 DEF vars, Waiting, Held
<1>9. ASSUME NEW m \in Macros, MacroDown(m) \/ MacroUp(m) PROVE Waiting'
  <2>1. WaitsAfterMacros(Pressed(m)) /\ WaitsAfterMacros(Released(m)) BY DEF AllWaitAfterMacros
  <2> QED BY <1>1, <1>9, <2>1, Lists DEF MacroDown, MacroUp
<1>10. ASSUME NEW s \in DOMAIN Sensors, Turn(s) PROVE Waiting'
  <2>1. WaitsAfterMacros(Turned(s)) BY DEF AllWaitAfterMacros
  <2> QED BY <1>1, <1>10, <2>1, Lists DEF Turn
<1>11. AddOne => Waiting' BY <1>2 DEF AddOne
<1>12. Loop => Waiting' BY <1>3, <1>5, <1>6 DEF Loop
<1> QED BY <1>4, <1>7, <1>8, <1>9, <1>10, <1>11, <1>12 DEF Next

\* The wait after a key of a macro, or of a sensor's turn, is over before the next item of
\* the queue is invoked, however many macros are queued across one another and nested, if
\* the macros that invoke macros wait after them.
THEOREM WaitsAfterKeysAreHonoured == AllWaitAfterMacros => (Spec => WaitHonouredAfterKeys)
<1> SUFFICES ASSUME AllWaitAfterMacros PROVE Spec => WaitHonouredAfterKeys OBVIOUS
<1> DEFINE WaitInv == MacroInv /\ Waiting
<1>1. Init /\ MacroInv => WaitInv BY InitWaiting
<1>2. WaitInv /\ MacroInv' /\ [Next]_vars => WaitInv' BY NextWaiting
<1>3. WaitInv /\ [Next]_vars =>
        [Len(queue') < Len(queue) /\ due[Head(queue).caller].of \in Keys =>
            due[Head(queue).caller].left = 0]_vars
  <2> SUFFICES ASSUME WaitInv, Next, Len(queue') < Len(queue), due[Head(queue).caller].of \in Keys
               PROVE  due[Head(queue).caller].left = 0
    OBVIOUS
  <2>1. queue \in Seq(Item) BY DEF MacroInv, QueueInv, QueueTypeOK
  <2>2. Invoke
    <3>1. \A i \in Item : Len(Append(queue, i)) = Len(queue) + 1 BY <2>1
    <3>2. Add => queue' = queue \/ \E i \in Item : queue' = Append(queue, i)
      <4> SUFFICES ASSUME Add PROVE queue' = queue \/ \E i \in Item : queue' = Append(queue, i)
        OBVIOUS
      <4>1. stack # <<>> /\ Head(stack).items # <<>>
            /\ (queue' = queue \/ queue' = Append(queue, Head(Head(stack).items)))
        BY DEF Add, Top
      <4>2. Head(stack) \in Frame
        BY <4>1, PopFrame DEF MacroInv, QueueInv, QueueTypeOK
      <4>3. Head(stack).items \in Seq(Item) BY <4>2 DEF Frame
      <4>4. Head(Head(stack).items) \in Item BY <4>1, <4>3
      <4> QED BY <4>1, <4>4
    <3>3. queue' # queue /\ \A i \in Item : queue' # Append(queue, i)
      <4>1. Len(queue') # Len(queue) /\ Len(queue') # Len(queue) + 1
        BY <2>1
      <4> QED BY <3>1, <4>1
    <3>4. ~AddOne BY <3>2, <3>3 DEF AddOne
    <3>5. ~Loop BY <3>3 DEF Loop, Added, Wait, Work
    <3>6. ~Tick BY <3>3 DEF Tick, QueueTick
    <3>7. ~(\E m \in Macros : MacroDown(m) \/ MacroUp(m)) BY <3>3 DEF MacroDown, MacroUp, Start
    <3>8. ~(\E s \in DOMAIN Sensors : Turn(s)) BY <3>3 DEF Turn, Start
    <3> QED BY <3>4, <3>5, <3>6, <3>7, <3>8 DEF Next
  <2>3. queue # <<>> BY <2>1, <2>2 DEF Invoke, Get
  <2>4. stack # <<>> /\ Head(stack).at = "get" BY <2>2 DEF Invoke, Get, Top
  <2>5. ~NoGet(stack) /\ Open(stack) = stack
    BY <2>4, PopWaits DEF MacroInv, QueueInv, QueueTypeOK, Open
  <2>6. Head(queue).caller \in Callers BY <2>3, QueueHead, Lists DEF MacroInv
  <2> QED BY <2>4, <2>5, <2>6 DEF Waiting, Held
<1> QED BY <1>1, <1>2, <1>3, MacroInvariance, PTL DEF Spec, WaitHonouredAfterKeys
-----------------------------------------------------------------------------
(* What is pressed is released.  An item that presses x is answered by one *)
(* behind it that releases x, or by one that releases a macro whose        *)
(* release does so in turn.                                                *)

\* The release of macro m releases x, or another macro whose release leads to that of x:
\* m is in every set of macros that this makes it be in.
Leads(m, x) ==
    /\ m \in Macros
    /\ \A S \in SUBSET Macros :
           (\A o \in Macros : (\E z \in S \cup {x} : z \in ReleasedBy(Released(o))) => o \in S) => m \in S

\* x is released if what is in A is, and the macros in A and B are.
Answered(x, A, B) == x \in A \/ \E m \in A \cup B : Leads(m, x)

\* Each item of l that presses something is answered by those behind it, by A and by B.
Covered(l, A, B) ==
    \A i \in DOMAIN l : l[i].press => Answered(l[i].of, A \cup ReleasedAfter(l, i), B)

\* What is released by the calls s, and by those after the i-th.
ReleasedByCalls(s) == UNION {ReleasedBy(s[j].items) : j \in DOMAIN s}
ReleasedByCallsAfter(s, i) == UNION {ReleasedBy(s[j].items) : j \in {j \in DOMAIN s : j > i}}
CallsCovered(s, B) ==
    \A i \in DOMAIN s : Covered(s[i].items, ReleasedByCallsAfter(s, i), B)

Workers(s) == \E i \in DOMAIN s : s[i].worker
OnlyAddsHold(s) == \A i \in DOMAIN s : s[i].at # "adding" => s[i].items = <<>>

\* What is released later anyhow, beside what the macros that are held release: while the
\* queue waits, all of it is behind what the innermost call still adds.
Waited == IF Pending THEN ReleasedBy(queue) \cup ReleasedBy(Head(stack).items) ELSE {}

\* The order of what is to be invoked is that of the queue and the calls: when the queue
\* does not wait, it runs empty before a call goes on.
Ordered ==
    /\ OnlyAddsHold(stack)
    /\ ~Pending /\ stack # <<>> => IF Head(stack).at = "get" THEN Len(queue) <= 1 ELSE queue = <<>>

Answering ==
    /\ Covered(queue, ReleasedByCalls(stack), held \cup ReleasedBy(queue))
    /\ stack # <<>> => /\ Covered(Head(stack).items, ReleasedByCalls(Tail(stack)), held \cup Waited)
                       /\ CallsCovered(Tail(stack), held)
    /\ \A k \in down : Answered(k, ReleasedBy(queue) \cup ReleasedByCalls(stack), held)

AccountInv == Ordered /\ (~refused => Answering)

LEMMA LeadsDirectly ==
    ASSUME NEW m \in Macros, NEW x, x \in ReleasedBy(Released(m))
    PROVE  Leads(m, x)
BY DEF Leads

LEMMA LeadsBack ==
    ASSUME NEW x, NEW m, Leads(m, x), NEW o \in Macros, m \in ReleasedBy(Released(o))
    PROVE  Leads(o, x)
BY DEF Leads

\* The last macro of a chain releases x itself, or the one before it.
LEMMA LeadsInverted ==
    ASSUME NEW x, NEW m, Leads(m, x)
    PROVE  x \in ReleasedBy(Released(m)) \/ \E z \in Macros : Leads(z, x) /\ z \in ReleasedBy(Released(m))
<1> DEFINE Good(o) == \/ x \in ReleasedBy(Released(o))
                      \/ \E z \in Macros : Leads(z, x) /\ z \in ReleasedBy(Released(o))
           S == {o \in Macros : Good(o)}
<1>1. ASSUME NEW o \in Macros, NEW z \in S \cup {x}, z \in ReleasedBy(Released(o)) PROVE o \in S
  <2>1. CASE z = x BY <1>1, <2>1
  <2>2. CASE z \in S
    <3>1. Leads(z, x)
      <4>1. CASE x \in ReleasedBy(Released(z)) BY <2>2, <4>1, LeadsDirectly
      <4>2. CASE \E y \in Macros : Leads(y, x) /\ y \in ReleasedBy(Released(z))
        BY <2>2, <4>2, LeadsBack
      <4> QED BY <2>2, <4>1, <4>2
    <3> QED BY <1>1, <2>2, <3>1
  <2> QED BY <1>1, <2>1, <2>2
<1>2. S \in SUBSET Macros OBVIOUS
<1> HIDE DEF S
<1>3. m \in S BY <1>1, <1>2 DEF Leads
<1> QED BY <1>3 DEF S

LEMMA LeadsThrough ==
    ASSUME NEW x, NEW o \in Macros, x \in ReleasedBy(Released(o)), NEW m, Leads(m, o)
    PROVE  Leads(m, x)
<1> DEFINE S == {n \in Macros : Leads(n, x)}
<1>1. ASSUME NEW n \in Macros, NEW z \in S \cup {o}, z \in ReleasedBy(Released(n)) PROVE n \in S
  <2>1. Leads(z, x) BY LeadsDirectly
  <2> QED BY <1>1, <2>1, LeadsBack
<1>2. S \in SUBSET Macros OBVIOUS
<1> HIDE DEF S
<1>3. m \in S BY <1>1, <1>2 DEF Leads
<1> QED BY <1>3 DEF S

\* What answers x still does when more is released, if what is gone is not x and no macro.
LEMMA AnsweredMore ==
    ASSUME NEW x, NEW A, NEW B, NEW A2, NEW B2, Answered(x, A, B),
           x \in A => x \in A2, (A \cup B) \cap Macros \subseteq A2 \cup B2
    PROVE  Answered(x, A2, B2)
BY DEF Answered, Leads

\* ... and when what is gone is a macro, and the items of its release have come.
LEMMA AnsweredReleased ==
    ASSUME NEW x, NEW A, NEW B, NEW A2, NEW B2, NEW m, Answered(x, A, B),
           x \in A => x \in A2, (A \cup B) \cap Macros \subseteq A2 \cup B2 \cup {m},
           ReleasedBy(Released(m)) \subseteq A2
    PROVE  Answered(x, A2, B2)
<1>1. CASE x \in A BY <1>1 DEF Answered
<1>2. ASSUME NEW y \in A \cup B, Leads(y, x) PROVE Answered(x, A2, B2)
  <2>1. y \in A2 \cup B2 \cup {m} BY <1>2 DEF Leads
  <2>2. CASE y = m
    <3>1. x \in A2 \/ \E z \in A2 : Leads(z, x) BY <1>2, <2>2, LeadsInverted
    <3> QED BY <3>1 DEF Answered
  <2>3. CASE y \in A2 \cup B2 BY <1>2, <2>3 DEF Answered
  <2> QED BY <2>1, <2>2, <2>3
<1> QED BY <1>1, <1>2 DEF Answered

\* What is released with a macro is answered by what answers the macro.
LEMMA AnsweredThrough ==
    ASSUME NEW m \in Macros, NEW x, NEW A, NEW B, NEW A2, NEW B2, Answered(m, A, B),
           x \in ReleasedBy(Released(m)), A \cup B \subseteq A2 \cup B2
    PROVE  Answered(x, A2, B2)
<1>1. CASE m \in A
  <2>1. Leads(m, x) BY LeadsDirectly
  <2> QED BY <1>1, <2>1 DEF Answered
<1>2. ASSUME NEW y \in A \cup B, Leads(y, m) PROVE Answered(x, A2, B2)
  <2>1. Leads(y, x) BY <1>2, LeadsThrough
  <2> QED BY <2>1 DEF Answered
<1> QED BY <1>1, <1>2 DEF Answered

LEMMA CoveredMore ==
    ASSUME NEW l, NEW A, NEW B, NEW A2, NEW B2, Covered(l, A, B),
           A \subseteq A2, B \cap Macros \subseteq A2 \cup B2
    PROVE  Covered(l, A2, B2)
<1>1. ASSUME NEW i \in DOMAIN l, l[i].press PROVE Answered(l[i].of, A2 \cup ReleasedAfter(l, i), B2)
  <2>1. Answered(l[i].of, A \cup ReleasedAfter(l, i), B) BY <1>1 DEF Covered
  <2> DEFINE C == ReleasedAfter(l, i)
  <2>2. /\ l[i].of \in A \cup C => l[i].of \in A2 \cup C
        /\ ((A \cup C) \cup B) \cap Macros \subseteq (A2 \cup C) \cup B2
    OBVIOUS
  <2> HIDE DEF C
  <2>3. Answered(l[i].of, A \cup C, B) BY <2>1 DEF C
  <2>4. Answered(l[i].of, A2 \cup C, B2) BY <2>2, <2>3, AnsweredMore
  <2> QED BY <2>4 DEF C
<1> QED BY <1>1 DEF Covered

LEMMA CoveredReleased ==
    ASSUME NEW l, NEW A, NEW B, NEW A2, NEW B2, NEW m, Covered(l, A, B),
           A \subseteq A2, B \cap Macros \subseteq A2 \cup B2 \cup {m},
           ReleasedBy(Released(m)) \subseteq A2
    PROVE  Covered(l, A2, B2)
<1>1. ASSUME NEW i \in DOMAIN l, l[i].press PROVE Answered(l[i].of, A2 \cup ReleasedAfter(l, i), B2)
  <2>1. Answered(l[i].of, A \cup ReleasedAfter(l, i), B) BY <1>1 DEF Covered
  <2> DEFINE C == ReleasedAfter(l, i)
  <2>2. /\ l[i].of \in A \cup C => l[i].of \in A2 \cup C
        /\ ((A \cup C) \cup B) \cap Macros \subseteq (A2 \cup C) \cup B2 \cup {m}
        /\ ReleasedBy(Released(m)) \subseteq A2 \cup C
    OBVIOUS
  <2> HIDE DEF C
  <2>3. Answered(l[i].of, A \cup C, B) BY <2>1 DEF C
  <2>4. Answered(l[i].of, A2 \cup C, B2) BY <2>2, <2>3, AnsweredReleased
  <2> QED BY <2>4 DEF C
<1> QED BY <1>1 DEF Covered

Releases(i) == IF i.press THEN {} ELSE {i.of}

LEMMA EmptyLists ==
    /\ ReleasedBy(<<>>) = {} /\ \A A, B : Covered(<<>>, A, B)
BY DEF ReleasedBy, Covered

LEMMA ListHead ==
    ASSUME NEW l \in Seq(Item), l # <<>>, NEW A, NEW B
    PROVE  /\ ReleasedBy(l) = Releases(Head(l)) \cup ReleasedBy(Tail(l))
           /\ Covered(l, A, B) =>
                 /\ Covered(Tail(l), A, B)
                 /\ Head(l).press => Answered(Head(l).of, A \cup ReleasedBy(Tail(l)), B)
<1> DEFINE t == Tail(l)
<1>1. Len(t) = Len(l) - 1 /\ (\A i \in 1 .. Len(t) : t[i] = l[i + 1]) /\ Head(l) = l[1] OBVIOUS
<1>2. t \in Seq(Item) /\ DOMAIN l = 1 .. Len(l) /\ Len(l) \in Nat /\ Len(l) > 0 OBVIOUS
<1>3. DOMAIN t = 1 .. Len(t) BY <1>2
<1> HIDE DEF t
<1>4. \A i \in DOMAIN t : i + 1 \in DOMAIN l /\ t[i] = l[i + 1] /\ i \in Nat /\ i + 1 > 1
  BY <1>1, <1>2, <1>3
<1>5. \A i \in DOMAIN l : i = 1 \/ (i - 1 \in DOMAIN t /\ t[i - 1] = l[i] /\ i > 1)
  BY <1>1, <1>2, <1>3
<1>6. 1 \in DOMAIN l BY <1>2
<1>7. ReleasedBy(l) = Releases(l[1]) \cup ReleasedBy(t)
  BY <1>4, <1>5, <1>6 DEF ReleasedBy, Releases
<1>8. ReleasedAfter(l, 1) = ReleasedBy(t)
  <2>1. ASSUME NEW x \in ReleasedAfter(l, 1) PROVE x \in ReleasedBy(t)
    <3>1. PICK j \in DOMAIN l : j > 1 /\ ~l[j].press /\ x = l[j].of BY <2>1 DEF ReleasedAfter
    <3>2. j - 1 \in DOMAIN t /\ t[j - 1] = l[j] BY <1>5, <3>1
    <3> QED BY <3>1, <3>2 DEF ReleasedBy
  <2>2. ASSUME NEW x \in ReleasedBy(t) PROVE x \in ReleasedAfter(l, 1)
    <3>1. PICK j \in DOMAIN t : ~t[j].press /\ x = t[j].of BY <2>2 DEF ReleasedBy
    <3>2. j + 1 \in DOMAIN l /\ t[j] = l[j + 1] /\ j + 1 > 1 BY <1>4
    <3> QED BY <3>1, <3>2 DEF ReleasedAfter
  <2> QED BY <2>1, <2>2
<1>9. ASSUME NEW i \in DOMAIN t PROVE ReleasedAfter(l, i + 1) = ReleasedAfter(t, i)
  <2>1. ASSUME NEW x \in ReleasedAfter(l, i + 1) PROVE x \in ReleasedAfter(t, i)
    <3>1. PICK j \in DOMAIN l : j > i + 1 /\ ~l[j].press /\ x = l[j].of BY <2>1 DEF ReleasedAfter
    <3>2. i \in Nat /\ j \in Nat BY <1>2, <1>4
    <3>3. j # 1 /\ j - 1 > i BY <3>1, <3>2
    <3>4. j - 1 \in DOMAIN t /\ t[j - 1] = l[j] BY <1>5, <3>3
    <3> QED BY <3>1, <3>3, <3>4 DEF ReleasedAfter
  <2>2. ASSUME NEW x \in ReleasedAfter(t, i) PROVE x \in ReleasedAfter(l, i + 1)
    <3>1. PICK j \in DOMAIN t : j > i /\ ~t[j].press /\ x = t[j].of BY <2>2 DEF ReleasedAfter
    <3>2. j + 1 \in DOMAIN l /\ t[j] = l[j + 1] /\ j \in Nat /\ i \in Nat BY <1>4
    <3>3. j + 1 > i + 1 BY <3>1, <3>2
    <3> QED BY <3>1, <3>2, <3>3 DEF ReleasedAfter
  <2> QED BY <2>1, <2>2
<1>10. ASSUME Covered(l, A, B)
       PROVE  Covered(t, A, B) /\ (l[1].press => Answered(l[1].of, A \cup ReleasedBy(t), B))
  <2>1. l[1].press => Answered(l[1].of, A \cup ReleasedBy(t), B)
    BY <1>6, <1>8, <1>10 DEF Covered
  <2>2. ASSUME NEW i \in DOMAIN t, t[i].press PROVE Answered(t[i].of, A \cup ReleasedAfter(t, i), B)
    <3>1. i + 1 \in DOMAIN l /\ t[i] = l[i + 1] BY <1>4
    <3>2. Answered(l[i + 1].of, A \cup ReleasedAfter(l, i + 1), B) BY <1>10, <2>2, <3>1 DEF Covered
    <3> QED BY <1>9, <3>1, <3>2
  <2> QED BY <2>1, <2>2 DEF Covered
<1> QED BY <1>1, <1>7, <1>10 DEF t

LEMMA ListAppend ==
    ASSUME NEW l \in Seq(Item), NEW x \in Item, NEW A, NEW B, NEW A2, NEW B2
    PROVE  /\ ReleasedBy(Append(l, x)) = ReleasedBy(l) \cup Releases(x)
           /\ /\ Covered(l, A, B)
              /\ A \subseteq A2 \cup Releases(x)
              /\ B \cap Macros \subseteq A2 \cup B2
              /\ x.press => Answered(x.of, A2, B2)
              => Covered(Append(l, x), A2, B2)
<1> DEFINE t == Append(l, x)
           n == Len(l) + 1
<1>1. t \in Seq(Item) /\ Len(t) = n /\ t[n] = x /\ \A i \in 1 .. Len(l) : t[i] = l[i] OBVIOUS
<1>2. DOMAIN t = 1 .. n /\ DOMAIN l = 1 .. Len(l) /\ Len(l) \in Nat BY <1>1
<1> HIDE DEF t
<1>3. \A i \in DOMAIN t : i = n \/ (i \in DOMAIN l /\ t[i] = l[i]) BY <1>1, <1>2
<1>4. \A i \in DOMAIN l : i \in DOMAIN t /\ t[i] = l[i] /\ n > i BY <1>1, <1>2
<1>5. n \in DOMAIN t /\ t[n] = x /\ \A i \in DOMAIN t : ~(i > n) BY <1>1, <1>2
<1> HIDE DEF n
<1>6. ReleasedBy(t) = ReleasedBy(l) \cup Releases(x)
  BY <1>3, <1>4, <1>5 DEF ReleasedBy, Releases
<1>7. \A i \in DOMAIN l : ReleasedAfter(t, i) = ReleasedAfter(l, i) \cup Releases(x)
  BY <1>3, <1>4, <1>5 DEF ReleasedAfter, Releases
<1>8. ReleasedAfter(t, n) = {} BY <1>5 DEF ReleasedAfter
<1>9. ASSUME Covered(l, A, B), A \subseteq A2 \cup Releases(x), B \cap Macros \subseteq A2 \cup B2,
             x.press => Answered(x.of, A2, B2)
      PROVE  Covered(t, A2, B2)
  <2>1. ASSUME NEW i \in DOMAIN t, t[i].press PROVE Answered(t[i].of, A2 \cup ReleasedAfter(t, i), B2)
    <3>1. CASE i = n
      <4>1. A2 \cup ReleasedAfter(t, n) = A2 BY <1>8
      <4> QED BY <1>5, <1>9, <2>1, <3>1, <4>1
    <3>2. CASE i \in DOMAIN l /\ t[i] = l[i]
      <4> DEFINE C == ReleasedAfter(l, i)
                 D == ReleasedAfter(t, i)
                 y == l[i].of
      <4>1. Answered(y, A \cup C, B) BY <1>9, <2>1, <3>2 DEF Covered
      <4>2. D = C \cup Releases(x) BY <1>7, <3>2
      <4> HIDE DEF C, D, y
      <4>3. /\ y \in A \cup C => y \in A2 \cup D
            /\ ((A \cup C) \cup B) \cap Macros \subseteq (A2 \cup D) \cup B2
        BY <1>9, <4>2
      <4>4. Answered(y, A2 \cup D, B2) BY <4>1, <4>3, AnsweredMore
      <4> QED BY <3>2, <4>4 DEF D, y
    <3> QED BY <1>3, <3>1, <3>2
  <2> QED BY <2>1 DEF Covered
<1> QED BY <1>6, <1>9 DEF t

LEMMA PushCalls ==
    ASSUME NEW s \in Seq(Frame), NEW f \in Frame, NEW B
    PROVE  /\ ReleasedByCalls(<<f>> \o s) = ReleasedBy(f.items) \cup ReleasedByCalls(s)
           /\ CallsCovered(<<f>> \o s, B) <=> Covered(f.items, ReleasedByCalls(s), B) /\ CallsCovered(s, B)
           /\ Workers(<<f>> \o s) <=> f.worker \/ Workers(s)
           /\ OnlyAddsHold(<<f>> \o s) <=> (f.at # "adding" => f.items = <<>>) /\ OnlyAddsHold(s)
<1> DEFINE t == <<f>> \o s
<1>1. t \in Seq(Frame) /\ Len(t) = Len(s) + 1 /\ t[1] = f /\ \A i \in 1 .. Len(s) : t[i + 1] = s[i]
  OBVIOUS
<1>2. DOMAIN t = 1 .. Len(s) + 1 /\ DOMAIN s = 1 .. Len(s) BY <1>1
<1> HIDE DEF t
<1>3. \A i \in DOMAIN t : i = 1 \/ (i - 1 \in DOMAIN s /\ t[i] = s[i - 1] /\ i > 1 /\ i = (i - 1) + 1)
  BY <1>1, <1>2
<1>4. \A i \in DOMAIN s : i + 1 \in DOMAIN t /\ t[i + 1] = s[i] /\ i + 1 > 1 /\ i \in Nat
  BY <1>1, <1>2
<1>5. 1 \in DOMAIN t /\ t[1] = f BY <1>1, <1>2
<1>6. Workers(t) <=> f.worker \/ Workers(s) BY <1>3, <1>4, <1>5 DEF Workers
<1>7. OnlyAddsHold(t) <=> (f.at # "adding" => f.items = <<>>) /\ OnlyAddsHold(s)
  BY <1>3, <1>4, <1>5 DEF OnlyAddsHold
<1>8. ReleasedByCalls(t) = ReleasedBy(f.items) \cup ReleasedByCalls(s)
  BY <1>3, <1>4, <1>5 DEF ReleasedByCalls
<1>9. ReleasedByCallsAfter(t, 1) = ReleasedByCalls(s)
  <2>1. \A x : x \in ReleasedByCallsAfter(t, 1) => x \in ReleasedByCalls(s)
    BY <1>3 DEF ReleasedByCallsAfter, ReleasedByCalls
  <2>2. \A x : x \in ReleasedByCalls(s) => x \in ReleasedByCallsAfter(t, 1)
    BY <1>4 DEF ReleasedByCallsAfter, ReleasedByCalls
  <2> QED BY <2>1, <2>2
<1>10. ASSUME NEW i \in DOMAIN s PROVE ReleasedByCallsAfter(t, i + 1) = ReleasedByCallsAfter(s, i)
  <2>1. ASSUME NEW x \in ReleasedByCallsAfter(t, i + 1) PROVE x \in ReleasedByCallsAfter(s, i)
    <3>1. PICK j \in DOMAIN t : j > i + 1 /\ x \in ReleasedBy(t[j].items)
      BY <2>1 DEF ReleasedByCallsAfter
    <3>2. i \in Nat /\ j \in Nat BY <1>2, <1>4
    <3>3. j # 1 /\ j - 1 > i BY <3>1, <3>2
    <3>4. j - 1 \in DOMAIN s /\ t[j] = s[j - 1] BY <1>3, <3>3
    <3> QED BY <3>1, <3>3, <3>4 DEF ReleasedByCallsAfter
  <2>2. ASSUME NEW x \in ReleasedByCallsAfter(s, i) PROVE x \in ReleasedByCallsAfter(t, i + 1)
    <3>1. PICK j \in DOMAIN s : j > i /\ x \in ReleasedBy(s[j].items)
      BY <2>2 DEF ReleasedByCallsAfter
    <3>2. j + 1 \in DOMAIN t /\ t[j + 1] = s[j] /\ i \in Nat /\ j \in Nat BY <1>4
    <3>3. j + 1 > i + 1 BY <3>1, <3>2
    <3> QED BY <3>1, <3>2, <3>3 DEF ReleasedByCallsAfter
  <2> QED BY <2>1, <2>2
<1>11. CallsCovered(t, B) <=> Covered(f.items, ReleasedByCalls(s), B) /\ CallsCovered(s, B)
  <2>1. ASSUME CallsCovered(t, B) PROVE Covered(f.items, ReleasedByCalls(s), B) /\ CallsCovered(s, B)
    <3>1. Covered(f.items, ReleasedByCalls(s), B) BY <1>5, <1>9, <2>1 DEF CallsCovered
    <3>2. ASSUME NEW i \in DOMAIN s PROVE Covered(s[i].items, ReleasedByCallsAfter(s, i), B)
      <4>1. Covered(t[i + 1].items, ReleasedByCallsAfter(t, i + 1), B)
        BY <1>4, <2>1 DEF CallsCovered
      <4> QED BY <1>4, <1>10, <4>1
    <3> QED BY <3>1, <3>2 DEF CallsCovered
  <2>2. ASSUME Covered(f.items, ReleasedByCalls(s), B), CallsCovered(s, B) PROVE CallsCovered(t, B)
    <3>1. ASSUME NEW i \in DOMAIN t PROVE Covered(t[i].items, ReleasedByCallsAfter(t, i), B)
      <4>1. CASE i = 1 BY <1>5, <1>9, <2>2, <4>1
      <4>2. CASE i - 1 \in DOMAIN s /\ t[i] = s[i - 1] /\ i > 1 /\ i = (i - 1) + 1
        <5>1. Covered(s[i - 1].items, ReleasedByCallsAfter(s, i - 1), B)
          BY <2>2, <4>2 DEF CallsCovered
        <5>2. ReleasedByCallsAfter(t, i) = ReleasedByCallsAfter(s, i - 1) BY <1>10, <4>2
        <5> QED BY <4>2, <5>1, <5>2
      <4> QED BY <1>3, <4>1, <4>2
    <3> QED BY <3>1 DEF CallsCovered
  <2> QED BY <2>1, <2>2
<1> QED BY <1>6, <1>7, <1>8, <1>11 DEF t

LEMMA PopCalls ==
    ASSUME NEW s \in Seq(Frame), s # <<>>, NEW B
    PROVE  /\ Head(s) \in Frame /\ Tail(s) \in Seq(Frame)
           /\ ReleasedByCalls(s) = ReleasedBy(Head(s).items) \cup ReleasedByCalls(Tail(s))
           /\ CallsCovered(s, B) <=> /\ Covered(Head(s).items, ReleasedByCalls(Tail(s)), B)
                                     /\ CallsCovered(Tail(s), B)
           /\ Workers(s) <=> Head(s).worker \/ Workers(Tail(s))
           /\ OnlyAddsHold(s) <=> (Head(s).at # "adding" => Head(s).items = <<>>) /\ OnlyAddsHold(Tail(s))
<1> DEFINE h == Head(s)
           t == Tail(s)
<1>1. h \in Frame /\ t \in Seq(Frame) /\ s = <<h>> \o t OBVIOUS
<1> HIDE DEF h, t
<1>2. /\ ReleasedByCalls(s) = ReleasedBy(h.items) \cup ReleasedByCalls(t)
      /\ CallsCovered(s, B) <=> Covered(h.items, ReleasedByCalls(t), B) /\ CallsCovered(t, B)
      /\ Workers(s) <=> h.worker \/ Workers(t)
      /\ OnlyAddsHold(s) <=> (h.at # "adding" => h.items = <<>>) /\ OnlyAddsHold(t)
  BY <1>1, PushCalls
<1> QED BY <1>1, <1>2 DEF h, t

LEMMA NoCalls ==
    ReleasedByCalls(<<>>) = {} /\ ~Workers(<<>>) /\ OnlyAddsHold(<<>>) /\ \A B : CallsCovered(<<>>, B)
BY DEF ReleasedByCalls, Workers, OnlyAddsHold, CallsCovered

\* A call ends that has nothing to add.
LEMMA CallEnds ==
    ASSUME MacroInv, Answering, stack # <<>>, Head(stack).items = <<>>,
           stack' = Tail(stack), UNCHANGED <<queue, held, down>>
    PROVE  Answering'
<1> DEFINE t == Tail(stack)
<1>1. /\ t \in Seq(Frame)
      /\ ReleasedByCalls(stack) = ReleasedBy(Head(stack).items) \cup ReleasedByCalls(t)
  BY PopCalls DEF MacroInv, QueueInv, QueueTypeOK
<1>2. ReleasedByCalls(stack) = ReleasedByCalls(t) BY <1>1, EmptyLists
<1>3. CallsCovered(t, held) BY DEF Answering
<1>4. ASSUME t # <<>>
      PROVE  /\ Covered(Head(t).items, ReleasedByCalls(Tail(t)), held)
             /\ CallsCovered(Tail(t), held)
  BY <1>1, <1>3, <1>4, PopCalls
<1>5. t # <<>> => Covered(Head(t).items, ReleasedByCalls(Tail(t)), held \cup Waited')
  <2> DEFINE W == Waited'
             A == ReleasedByCalls(Tail(t))
             H == held
             l == Head(t).items
  <2>1. H \cap Macros \subseteq A \cup (H \cup W) /\ A \subseteq A OBVIOUS
  <2>2. t # <<>> => Covered(l, A, H) BY <1>4
  <2> HIDE DEF W, A, H, l
  <2>3. t # <<>> => Covered(l, A, H \cup W) BY <2>1, <2>2, CoveredMore
  <2> QED BY <2>3 DEF W, A, H, l
<1>6. stack' = t /\ queue' = queue /\ held' = held /\ down' = down OBVIOUS
<1> HIDE DEF t
<1> QED BY <1>2, <1>4, <1>5, <1>6 DEF Answering

LEMMA PendingCalls == Pending <=> delay # Never \/ Workers(stack)
BY DEF Pending, Workers

\* A macro or a sensor starts from rest.
LEMMA StartsOrdered ==
    ASSUME MacroInv, Ordered, NEW l \in Seq(Item), Start(l)
    PROVE  Ordered'
<1>1. /\ stack = <<>> /\ stack' = <<Adding(l)>> \o stack /\ queue' = queue /\ delay' = delay
      /\ stack \in Seq(Frame)
  BY DEF Start, MacroInv, QueueInv, QueueTypeOK
<1>2. /\ Adding(l) \in Frame /\ Adding(l).at = "adding" /\ Adding(l).worker = FALSE
  BY FrameTypes DEF Adding
<1>3. OnlyAddsHold(stack') /\ (Workers(stack') <=> Workers(stack)) /\ ~Workers(stack)
  BY <1>1, <1>2, PushCalls, NoCalls
<1>4. delay = Never => queue = <<>> BY <1>1 DEF MacroInv, QueueInv, Awake, Looping
<1>5. Head(stack') = Adding(l) BY <1>1, <1>2, PushWaits
<1>6. Pending' => delay # Never \/ Workers(stack') BY <1>1 DEF Pending, Workers
<1>7. ~Pending' => delay = Never BY <1>1 DEF Pending
<1> QED BY <1>1, <1>2, <1>3, <1>4, <1>5, <1>7 DEF Ordered

LEMMA StartsAnswered ==
    ASSUME MacroInv, Answering, NEW l \in Seq(Item), Start(l), down' = down,
           Covered(l, {}, held'),
           \/ held \subseteq held'
           \/ \E m : held \subseteq held' \cup {m} /\ ReleasedBy(Released(m)) \subseteq ReleasedBy(l)
    PROVE  Answering'
<1>1. /\ stack = <<>> /\ stack' = <<Adding(l)>> \o stack /\ queue' = queue /\ stack \in Seq(Frame)
  BY DEF Start, MacroInv, QueueInv, QueueTypeOK
<1>2. Adding(l) \in Frame /\ Adding(l).items = l BY FrameTypes DEF Adding
<1>3. Head(stack') = Adding(l) /\ Tail(stack') = <<>> BY <1>1, <1>2, PushWaits
<1>4. ReleasedByCalls(stack) = {} /\ ReleasedByCalls(stack') = ReleasedBy(l)
  BY <1>1, <1>2, PushCalls, NoCalls
<1> DEFINE R == ReleasedBy(l)
           Q == ReleasedBy(queue)
           H == held
           H2 == held'
           W == Waited'
<1>5. Covered(queue, {}, H \cup Q) BY <1>4 DEF Answering
<1>6. \A k \in down : Answered(k, Q \cup {}, H) BY <1>4 DEF Answering
<1>7. \/ H \subseteq H2
      \/ \E m : H \subseteq H2 \cup {m} /\ ReleasedBy(Released(m)) \subseteq R
  OBVIOUS
<1>8. Covered(l, {}, H2) OBVIOUS
<1> HIDE DEF R, Q, H, H2, W
<1>9. Covered(queue, R, H2 \cup Q)
  <2>1. CASE H \subseteq H2
    <3>1. {} \subseteq R /\ (H \cup Q) \cap Macros \subseteq R \cup (H2 \cup Q) BY <2>1
    <3> QED BY <1>5, <3>1, CoveredMore
  <2>2. ASSUME NEW m, H \subseteq H2 \cup {m}, ReleasedBy(Released(m)) \subseteq R
        PROVE  Covered(queue, R, H2 \cup Q)
    <3>1. {} \subseteq R /\ (H \cup Q) \cap Macros \subseteq R \cup (H2 \cup Q) \cup {m} BY <2>2
    <3> QED BY <1>5, <2>2, <3>1, CoveredReleased
  <2> QED BY <1>7, <2>1, <2>2
<1>10. ASSUME NEW k \in down PROVE Answered(k, Q \cup R, H2)
  <2>0. Answered(k, Q \cup {}, H) BY <1>6
  <2>1. CASE H \subseteq H2
    <3>1. /\ k \in Q \cup {} => k \in Q \cup R
          /\ ((Q \cup {}) \cup H) \cap Macros \subseteq (Q \cup R) \cup H2
      BY <2>1
    <3> QED BY <2>0, <3>1, AnsweredMore
  <2>2. ASSUME NEW m, H \subseteq H2 \cup {m}, ReleasedBy(Released(m)) \subseteq R
        PROVE  Answered(k, Q \cup R, H2)
    <3>1. /\ k \in Q \cup {} => k \in Q \cup R
          /\ ((Q \cup {}) \cup H) \cap Macros \subseteq (Q \cup R) \cup H2 \cup {m}
          /\ ReleasedBy(Released(m)) \subseteq Q \cup R
      BY <2>2
    <3> QED BY <2>0, <3>1, AnsweredReleased
  <2> QED BY <1>7, <2>1, <2>2
<1>11. Covered(l, {}, H2 \cup W)
  <2>1. {} \subseteq {} /\ H2 \cap Macros \subseteq {} \cup (H2 \cup W) OBVIOUS
  <2> QED BY <1>8, <2>1, CoveredMore
<1> QED BY <1>1, <1>2, <1>3, <1>4, <1>9, <1>10, <1>11, NoCalls DEF Answering, R, Q, H2, W

\* One item of a list goes to the queue.
LEMMA AddEffect ==
    ASSUME MacroInv, Add
    PROVE  \E f \in Frame, x \in Item :
             /\ stack # <<>> /\ Head(stack).at = "adding" /\ Head(stack).items \in Seq(Item)
             /\ Head(stack).items # <<>> /\ x = Head(Head(stack).items)
             /\ f.at = "adding" /\ f.items = Tail(Head(stack).items) /\ f.worker = Head(stack).worker
             /\ queue' = IF Len(queue) < QueueSize THEN Append(queue, x) ELSE queue
             /\ stack' = IF Len(queue) < QueueSize /\ ~Pending
                         THEN <<Processing(FALSE)>> \o (<<f>> \o Tail(stack)) ELSE <<f>> \o Tail(stack)
             /\ delay' = delay
<1> DEFINE h == Head(stack)
           f == [h EXCEPT !.items = Tail(h.items)]
           x == Head(h.items)
<1>1. /\ stack # <<>> /\ h.at = "adding" /\ h.items # <<>>
      /\ queue' = IF Len(queue) < QueueSize THEN Append(queue, x) ELSE queue
      /\ stack' = IF Len(queue) < QueueSize /\ ~Pending
                  THEN <<Processing(FALSE)>> \o (<<f>> \o Tail(stack)) ELSE <<f>> \o Tail(stack)
      /\ delay' = delay
  BY DEF Add, Top, Replacing
<1>2. h \in Frame BY <1>1, PopFrame DEF MacroInv, QueueInv, QueueTypeOK
<1>3. h.items \in Seq(Item) BY <1>2 DEF Frame
<1> HIDE DEF h
<1>4. Tail(h.items) \in Seq(Item) /\ x \in Item BY <1>1, <1>3
<1>5. f \in Frame /\ f.at = "adding" /\ f.items = Tail(h.items) /\ f.worker = h.worker
  BY <1>1, <1>2, <1>4 DEF Frame
<1> HIDE DEF f, x
<1>6. h = Head(stack) /\ x = Head(h.items) BY DEF h, x
<1> QED BY <1>1, <1>3, <1>4, <1>5, <1>6

LEMMA AddsAnswered ==
    ASSUME MacroInv, AccountInv, AddOne
    PROVE  AccountInv'
<1> DEFINE t == Tail(stack)
           l == Head(stack).items
           room == Len(queue) < QueueSize
<1>1. PICK f \in Frame, x \in Item :
        /\ stack # <<>> /\ Head(stack).at = "adding" /\ l \in Seq(Item) /\ l # <<>> /\ x = Head(l)
        /\ f.at = "adding" /\ f.items = Tail(l) /\ f.worker = Head(stack).worker
        /\ queue' = IF room THEN Append(queue, x) ELSE queue
        /\ stack' = IF room /\ ~Pending THEN <<Processing(FALSE)>> \o (<<f>> \o t) ELSE <<f>> \o t
        /\ delay' = delay
  BY AddEffect DEF AddOne
<1>2. /\ refused' = (refused \/ Len(queue) = QueueSize) /\ held' = held /\ down' = down
  BY DEF AddOne
<1>3. /\ queue \in Seq(Item) /\ Len(queue) <= QueueSize /\ stack \in Seq(Frame)
      /\ QueueSize \in Nat \ {0}
  BY QueueAssumption DEF MacroInv, QueueInv, QueueTypeOK
<1>4. /\ t \in Seq(Frame) /\ ReleasedByCalls(stack) = ReleasedBy(l) \cup ReleasedByCalls(t)
      /\ Workers(stack) <=> Head(stack).worker \/ Workers(t)
      /\ OnlyAddsHold(t)
  BY <1>1, <1>3, PopCalls DEF AccountInv, Ordered
<1> DEFINE r == <<f>> \o t
           g == Processing(FALSE)
<1>5. /\ r \in Seq(Frame) /\ r # <<>> /\ Head(r) = f /\ Tail(r) = t
      /\ ReleasedByCalls(r) = ReleasedBy(Tail(l)) \cup ReleasedByCalls(t)
      /\ Workers(r) <=> Workers(stack)
      /\ OnlyAddsHold(r)
  BY <1>1, <1>4, PushCalls, PushWaits
<1>6. g \in Frame /\ g.at = "get" /\ g.items = <<>> /\ g.worker = FALSE
  BY FrameTypes DEF Processing
<1>7. /\ <<g>> \o r \in Seq(Frame) /\ <<g>> \o r # <<>> /\ Head(<<g>> \o r) = g /\ Tail(<<g>> \o r) = r
      /\ ReleasedByCalls(<<g>> \o r) = ReleasedBy(g.items) \cup ReleasedByCalls(r)
      /\ Workers(<<g>> \o r) <=> Workers(r)
      /\ OnlyAddsHold(<<g>> \o r)
  BY <1>5, <1>6, PushCalls, PushWaits
<1>8. Pending' <=> Pending
  <2>1. Workers(stack') <=> Workers(stack) BY <1>1, <1>5, <1>7
  <2>2. Pending' <=> delay' # Never \/ Workers(stack') BY DEF Pending, Workers
  <2> QED BY <1>1, <2>1, <2>2, PendingCalls
<1>9. ~Pending => queue = <<>> BY <1>1 DEF AccountInv, Ordered
<1>10. Ordered'
  <2>1. CASE room /\ ~Pending
    <3>1. stack' = <<g>> \o r /\ queue' = Append(queue, x) BY <1>1, <2>1
    <3>2. Len(queue') <= 1 BY <1>3, <1>9, <2>1, <3>1
    <3> HIDE DEF g, r
    <3> QED BY <1>6, <1>7, <3>1, <3>2 DEF Ordered
  <2>2. CASE ~(room /\ ~Pending)
    <3>1. stack' = r BY <1>1, <2>2
    <3>2. ~Pending => room
      <4>1. ~Pending => Len(queue) = 0 BY <1>9
      <4> QED BY <1>3, <4>1
    <3>3. Pending' BY <1>8, <2>2, <3>2
    <3> HIDE DEF r
    <3> QED BY <1>5, <3>1, <3>3 DEF Ordered
  <2> QED BY <2>1, <2>2
<1>11. ASSUME ~refused' PROVE Answering'
  <2>0. ~refused /\ Len(queue) # QueueSize
    <3>1. refused \in BOOLEAN BY DEF MacroInv, UsersTypeOK
    <3>2. ~(refused \/ Len(queue) = QueueSize) BY <1>2, <1>11, Zenon
    <3> QED BY <3>1, <3>2
  <2>1. ~refused /\ room
    <3>1. room BY <1>3, <2>0
    <3> QED BY <2>0, <3>1
  <2>2. Answering BY <2>1 DEF AccountInv
  <2>3. queue' = Append(queue, x) BY <1>1, <2>1
  <2> DEFINE R == ReleasedByCalls(t)
             L == ReleasedBy(Tail(l))
             X == Releases(x)
             Q == ReleasedBy(queue)
             H == held
             W == Waited
  <2>4. /\ ReleasedBy(l) = X \cup L
        /\ Covered(l, R, H \cup W) =>
             /\ Covered(Tail(l), R, H \cup W)
             /\ x.press => Answered(x.of, R \cup L, H \cup W)
    BY <1>1, ListHead
  <2>5. Covered(l, R, H \cup W) /\ CallsCovered(t, H) BY <1>1, <2>2 DEF Answering
  <2>6. Covered(queue, (X \cup L) \cup R, H \cup Q) BY <1>4, <2>2, <2>4 DEF Answering
  <2>7. \A k \in down : Answered(k, Q \cup ((X \cup L) \cup R), H) BY <1>4, <2>2, <2>4 DEF Answering
  <2>8. W = IF Pending THEN Q \cup (X \cup L) ELSE {} BY <2>4 DEF Waited
  <2>9. ReleasedBy(queue') = Q \cup X BY <1>3, <2>3, ListAppend
  <2>10. ReleasedByCalls(stack') = L \cup R
    BY <1>1, <1>5, <1>6, <1>7, <2>1, EmptyLists
  <2> HIDE DEF R, L, X, Q, H, W
  <2>11. Covered(queue', L \cup R, H \cup (Q \cup X))
    <3> DEFINE A == (X \cup L) \cup R
               B == H \cup Q
               A2 == L \cup R
               B2 == H \cup (Q \cup X)
    <3>1. x.press => Answered(x.of, A2, B2)
      <4>1. /\ x.of \in R \cup L => x.of \in A2
            /\ ((R \cup L) \cup (H \cup W)) \cap Macros \subseteq A2 \cup B2
        BY <2>8
      <4> HIDE DEF A2, B2
      <4> QED BY <2>4, <2>5, <4>1, AnsweredMore
    <3>2. A \subseteq A2 \cup X /\ B \cap Macros \subseteq A2 \cup B2 OBVIOUS
    <3>3. Covered(queue, A, B) BY <2>6
    <3> HIDE DEF A, B, A2, B2
    <3>4. Covered(Append(queue, x), A2, B2)
      BY <1>3, <3>1, <3>2, <3>3, ListAppend DEF X
    <3> QED BY <2>3, <3>4 DEF A2, B2
  <2>12. \A k \in down : Answered(k, (Q \cup X) \cup (L \cup R), H)
    <3>1. Q \cup ((X \cup L) \cup R) = (Q \cup X) \cup (L \cup R) OBVIOUS
    <3> QED BY <2>7, <3>1
  <2>13. CASE Pending
    <3>1. stack' = r BY <1>1, <2>13
    <3>2. Waited' = W
      <4>1. Head(stack').items = Tail(l) BY <1>1, <1>5, <3>1
      <4>2. Waited' = (Q \cup X) \cup L BY <1>8, <2>9, <2>13, <4>1 DEF Waited, L
      <4> QED BY <2>8, <2>13, <4>2
    <3>3. Head(stack').items = Tail(l) /\ Tail(stack') = t BY <1>1, <1>5, <3>1
    <3>4. Covered(Tail(l), R, H \cup W) BY <2>4, <2>5
    <3> HIDE DEF t, l, r
    <3> QED BY <1>2, <2>5, <2>9, <2>10, <2>11, <2>12, <3>2, <3>3, <3>4 DEF Answering, R, H
  <2>14. CASE ~Pending
    <3>1. stack' = <<g>> \o r BY <1>1, <2>1, <2>14
    <3>2. W = {} /\ H \cup {} = H BY <2>8, <2>14
    <3>3. Covered(Tail(l), R, H) BY <2>4, <2>5, <3>2
    <3>4. CallsCovered(r, H) BY <1>1, <1>4, <2>5, <3>3, PushCalls DEF R
    <3>5. Tail(stack') = r /\ Head(stack').items = <<>> BY <1>6, <1>7, <3>1
    <3>6. Covered(<<>>, ReleasedByCalls(r), held' \cup Waited') BY EmptyLists
    <3> HIDE DEF t, l, r
    <3> QED BY <1>2, <2>9, <2>10, <2>11, <2>12, <3>4, <3>5, <3>6 DEF Answering, H
  <2> QED BY <2>13, <2>14
<1> QED BY <1>10, <1>11 DEF AccountInv

\* The loop gets an item and invokes it.
LEMMA GetEffect ==
    ASSUME MacroInv, Invoke, queue # <<>>
    PROVE  \E f, g \in Frame :
             /\ stack # <<>> /\ Head(stack).at = "get" /\ delay' = delay /\ queue' = Tail(queue)
             /\ f.at = "got" /\ f.items = Head(stack).items /\ f.worker = Head(stack).worker
             /\ g.at = "adding" /\ g.items = AddsOf[Head(queue)] /\ g.worker = FALSE
             /\ stack' = <<g>> \o (<<f>> \o Tail(stack))
<1> DEFINE h == Head(queue)
           f == [Head(stack) EXCEPT !.at = "got", !.wait = h.wait]
           g == Adding(AddsOf[h])
<1>1. /\ stack # <<>> /\ Head(stack).at = "get" /\ delay' = delay /\ queue' = Tail(queue)
      /\ stack' = <<g>> \o (<<f>> \o Tail(stack))
  BY InvokeEffect DEF MacroInv, Top
<1>2. h \in Item /\ AddsOf[h] \in Seq(Item) /\ h.wait \in Nat
  BY QueueHead, QueueAssumption DEF MacroInv
<1>3. Head(stack) \in Frame BY <1>1, PopFrame DEF MacroInv, QueueInv, QueueTypeOK
<1>4. f \in Frame /\ f.at = "got" /\ f.items = Head(stack).items /\ f.worker = Head(stack).worker
  BY <1>2, <1>3 DEF Frame
<1>5. g \in Frame /\ g.at = "adding" /\ g.items = AddsOf[h] /\ g.worker = FALSE
  BY <1>2, FrameTypes DEF Adding
<1> HIDE DEF f, g
<1>6. h = Head(queue) OBVIOUS
<1> HIDE DEF h
<1> QED BY <1>1, <1>4, <1>5, <1>6

LEMMA InvokesAnswered ==
    ASSUME ReleasesWhatItPresses, MacroInv, AccountInv, Invoke
    PROVE  AccountInv'
<1> DEFINE t == Tail(stack)
           h == Head(queue)
<1>1. /\ stack # <<>> /\ Head(stack).at = "get" /\ delay' = delay
      /\ UNCHANGED <<held, refused>>
  BY DEF Invoke, Get, Top
<1>2. queue \in Seq(Item) /\ stack \in Seq(Frame) BY DEF MacroInv, QueueInv, QueueTypeOK
<1>3. /\ t \in Seq(Frame)
      /\ ReleasedByCalls(stack) = ReleasedBy(Head(stack).items) \cup ReleasedByCalls(t)
      /\ Workers(stack) <=> Head(stack).worker \/ Workers(t)
      /\ OnlyAddsHold(t) /\ Head(stack).items = <<>>
  <2>1. OnlyAddsHold(stack) BY DEF AccountInv, Ordered
  <2> QED BY <1>1, <1>2, <2>1, PopCalls
<1>4. CASE queue = <<>>
  <2>1. stack' = t /\ queue' = queue /\ UNCHANGED <<held, down, refused>>
    BY <1>4 DEF Invoke, Get
  <2>2. Ordered' BY <1>3, <1>4, <2>1 DEF Ordered
  <2>3. ~refused => Answering' BY <1>1, <1>3, <2>1, CallEnds DEF AccountInv
  <2> QED BY <2>1, <2>2, <2>3 DEF AccountInv
<1>5. CASE queue # <<>>
  <2>1. PICK f \in Frame, g \in Frame :
          /\ queue' = Tail(queue)
          /\ f.at = "got" /\ f.items = Head(stack).items /\ f.worker = Head(stack).worker
          /\ g.at = "adding" /\ g.items = AddsOf[h] /\ g.worker = FALSE
          /\ stack' = <<g>> \o (<<f>> \o t)
    BY <1>5, GetEffect
  <2>2. h \in Item /\ Tail(queue) \in Seq(Item) BY <1>5, QueueHead DEF MacroInv
  <2> DEFINE r == <<f>> \o t
             added == AddsOf[h]
             rest == Tail(queue)
  <2>3. /\ r \in Seq(Frame) /\ OnlyAddsHold(r)
        /\ ReleasedByCalls(r) = ReleasedBy(f.items) \cup ReleasedByCalls(t)
        /\ CallsCovered(r, held) <=> Covered(f.items, ReleasedByCalls(t), held) /\ CallsCovered(t, held)
        /\ Workers(r) <=> Workers(stack)
    <3>1. /\ <<f>> \o t \in Seq(Frame)
          /\ Workers(<<f>> \o t) <=> f.worker \/ Workers(t)
          /\ OnlyAddsHold(<<f>> \o t)
          /\ ReleasedByCalls(<<f>> \o t) = ReleasedBy(f.items) \cup ReleasedByCalls(t)
      BY <1>3, <2>1, PushCalls, PushWaits
    <3>2. CallsCovered(<<f>> \o t, held) <=> /\ Covered(f.items, ReleasedByCalls(t), held)
                                             /\ CallsCovered(t, held)
      BY <1>3, PushCalls
    <3> QED BY <1>3, <2>1, <3>1, <3>2
  <2>4. /\ stack' # <<>> /\ Head(stack') = g /\ Tail(stack') = r /\ OnlyAddsHold(stack')
        /\ ReleasedByCalls(stack') = ReleasedBy(added) \cup ReleasedByCalls(r)
        /\ Workers(stack') <=> Workers(stack)
    BY <2>1, <2>3, PushCalls, PushWaits
  <2>5. Pending' <=> Pending
    <3>1. Pending' <=> delay' # Never \/ Workers(stack') BY DEF Pending, Workers
    <3> QED BY <1>1, <2>4, <3>1, PendingCalls
  <2>6. ~Pending => rest = <<>>
    <3>1. ~Pending => Len(queue) <= 1 BY <1>1 DEF AccountInv, Ordered
    <3>2. Len(queue) <= 1 => Tail(queue) = <<>> BY <1>2, <1>5
    <3> QED BY <3>1, <3>2
  <2>7. Ordered'
    <3> HIDE DEF r
    <3> QED BY <2>1, <2>4, <2>5, <2>6 DEF Ordered
  <2>8. ASSUME ~refused PROVE Answering'
    <3> DEFINE R == ReleasedByCalls(t)
               L == ReleasedBy(added)
               X == Releases(h)
               Q == ReleasedBy(rest)
               H == held
               W == Waited'
    <3>1. Answering BY <2>8 DEF AccountInv
    <3>2. /\ ReleasedBy(queue) = X \cup Q
          /\ Covered(queue, R, H \cup (X \cup Q)) =>
               /\ Covered(rest, R, H \cup (X \cup Q))
               /\ h.press => Answered(h.of, R \cup Q, H \cup (X \cup Q))
      BY <1>2, <1>5, ListHead
    <3>3. ReleasedByCalls(stack) = R BY <1>3, EmptyLists
    <3>4. Covered(queue, R, H \cup (X \cup Q)) /\ CallsCovered(t, H)
      BY <1>1, <3>1, <3>2, <3>3 DEF Answering
    <3>5. \A k \in down : Answered(k, (X \cup Q) \cup R, H) BY <3>1, <3>2, <3>3 DEF Answering
    <3>6. /\ Covered(rest, R, H \cup (X \cup Q))
          /\ h.press => Answered(h.of, R \cup Q, H \cup (X \cup Q))
      BY <3>2, <3>4
    <3>7. ReleasedByCalls(stack') = L \cup R
      <4>1. ReleasedByCalls(r) = R BY <1>3, <2>1, <2>3, EmptyLists
      <4> QED BY <2>4, <4>1
    <3>8. W = IF Pending THEN Q \cup L ELSE {} BY <2>1, <2>4, <2>5 DEF Waited
    <3>9. Q \subseteq W
      <4>1. ~Pending => Q = {} BY <2>6, EmptyLists
      <4> QED BY <3>8, <4>1
    <3>10. CallsCovered(r, H) BY <1>3, <2>1, <2>3, <3>4, EmptyLists
    <3>11. \A m \in Macros : m \notin Keys BY MacroAssumption
    <3>12. /\ h.of \in Keys \cup Macros /\ h.press \in BOOLEAN
           /\ h.of \in Keys => added = <<>>
           /\ h.of \in Macros /\ h.press => added = Pressed(h.of)
           /\ h.of \in Macros /\ ~h.press => added = Released(h.of)
      BY <2>2, Lists
    <3>13. /\ h.press => X = {}
           /\ ~h.press => X = {h.of}
      BY DEF Releases
    <3>14. down' = IF h.of \notin Keys THEN down
                   ELSE IF h.press THEN down \cup {h.of} ELSE down \ {h.of}
      BY <1>5, InvokeEffect DEF MacroInv
    <3>15. down \subseteq Keys BY DEF MacroInv, UsersTypeOK
    <3>16. SUFFICES /\ Covered(rest, L \cup R, H \cup Q)
                    /\ Covered(added, R, H \cup W)
                    /\ \A k \in down' : Answered(k, Q \cup (L \cup R), H)
      <4>1. held' = held /\ queue' = rest /\ stack' # <<>> /\ Head(stack').items = added /\ Tail(stack') = r
        BY <1>1, <2>1, <2>4
      <4>2. Covered(queue', ReleasedByCalls(stack'), held' \cup ReleasedBy(queue'))
        BY <3>7, <3>16, <4>1
      <4>3. \A k \in down' : Answered(k, ReleasedBy(queue') \cup ReleasedByCalls(stack'), held')
        BY <3>7, <3>16, <4>1
      <4>4. CallsCovered(Tail(stack'), held') BY <3>10, <4>1
      <4>5. Covered(Head(stack').items, ReleasedByCalls(Tail(stack')), held' \cup Waited')
        <5>1. ReleasedByCalls(r) = R BY <1>3, <2>1, <2>3, EmptyLists
        <5> QED BY <3>16, <4>1, <5>1
      <4> QED BY <4>1, <4>2, <4>3, <4>4, <4>5 DEF Answering
    <3> HIDE DEF R, X, Q, H, W, added, rest, h
    <3>17. CASE h.of \in Keys
      <4>1. L = {} /\ added = <<>> BY <3>12, <3>17, EmptyLists DEF L
      <4> HIDE DEF L
      <4>2. X \cap Macros = {} BY <3>11, <3>13, <3>12, <3>17
      <4>3. R \subseteq L \cup R /\ (H \cup (X \cup Q)) \cap Macros \subseteq (L \cup R) \cup (H \cup Q)
        BY <4>2
      <4>4. Covered(rest, L \cup R, H \cup Q) BY <3>6, <4>3, CoveredMore
      <4>5. ASSUME NEW k \in down' PROVE Answered(k, Q \cup (L \cup R), H)
        <5>1. CASE k \in down /\ (h.press \/ k # h.of)
          <6>1. Answered(k, (X \cup Q) \cup R, H) BY <3>5, <5>1
          <6>2. /\ k \in (X \cup Q) \cup R => k \in Q \cup (L \cup R)
                /\ (((X \cup Q) \cup R) \cup H) \cap Macros \subseteq (Q \cup (L \cup R)) \cup H
            BY <3>12, <3>13, <4>2, <5>1
          <6> QED BY <6>1, <6>2, AnsweredMore
        <5>2. CASE h.press /\ k = h.of
          <6>1. Answered(k, R \cup Q, H \cup (X \cup Q)) BY <3>6, <5>2
          <6>2. /\ k \in R \cup Q => k \in Q \cup (L \cup R)
                /\ ((R \cup Q) \cup (H \cup (X \cup Q))) \cap Macros \subseteq (Q \cup (L \cup R)) \cup H
            BY <4>2
          <6> QED BY <6>1, <6>2, AnsweredMore
        <5> QED BY <3>12, <3>14, <3>17, <4>5, <5>1, <5>2
      <4> QED BY <4>1, <4>4, <4>5, EmptyLists
    <3>18. CASE h.of \in Macros /\ h.press
      <4> DEFINE m == h.of
      <4>1. added = Pressed(m) /\ X = {} /\ down' = down BY <3>11, <3>12, <3>13, <3>14, <3>18
      <4>2. R \subseteq L \cup R /\ (H \cup (X \cup Q)) \cap Macros \subseteq (L \cup R) \cup (H \cup Q)
        BY <4>1
      <4> HIDE DEF L
      <4>3. Covered(rest, L \cup R, H \cup Q) BY <3>6, <4>2, CoveredMore
      <4>4. ASSUME NEW k \in down' PROVE Answered(k, Q \cup (L \cup R), H)
        <5>1. Answered(k, (X \cup Q) \cup R, H) BY <3>5, <4>1, <4>4
        <5>2. /\ k \in (X \cup Q) \cup R => k \in Q \cup (L \cup R)
              /\ (((X \cup Q) \cup R) \cup H) \cap Macros \subseteq (Q \cup (L \cup R)) \cup H
          BY <4>1
        <5> QED BY <5>1, <5>2, AnsweredMore
      <4>5. Answered(m, R \cup Q, H \cup (X \cup Q)) BY <3>6, <3>18
      <4>6. ASSUME NEW i \in DOMAIN added, added[i].press
            PROVE  Answered(added[i].of, R \cup ReleasedAfter(added, i), H \cup W)
        <5> DEFINE x == added[i].of
                   C == ReleasedAfter(added, i)
        <5>1. x \in C \/ x \in ReleasedBy(Released(m))
          BY <3>18, <4>1, <4>6 DEF ReleasesWhatItPresses
        <5>2. (R \cup Q) \cup (H \cup (X \cup Q)) \subseteq (R \cup C) \cup (H \cup W)
          BY <3>9, <4>1
        <5> HIDE DEF x, C, m
        <5>3. CASE x \in C BY <5>3 DEF Answered, x, C
        <5>4. CASE x \in ReleasedBy(Released(m))
          <6>1. m \in Macros BY <3>18 DEF m
          <6>2. Answered(x, R \cup C, H \cup W) BY <4>5, <5>2, <5>4, <6>1, AnsweredThrough
          <6> QED BY <6>2 DEF x, C
        <5> QED BY <5>1, <5>3, <5>4
      <4>7. Covered(added, R, H \cup W) BY <4>6 DEF Covered
      <4> QED BY <4>3, <4>4, <4>7
    <3>19. CASE h.of \in Macros /\ ~h.press
      <4> DEFINE m == h.of
      <4>1. /\ added = Released(m) /\ X = {m} /\ down' = down /\ m \notin Keys
            /\ L = ReleasedBy(Released(m))
        BY <3>11, <3>12, <3>13, <3>14, <3>19
      <4> HIDE DEF L
      <4>2. /\ R \subseteq L \cup R
            /\ (H \cup (X \cup Q)) \cap Macros \subseteq (L \cup R) \cup (H \cup Q) \cup {m}
            /\ ReleasedBy(Released(m)) \subseteq L \cup R
        BY <4>1
      <4>3. Covered(rest, L \cup R, H \cup Q) BY <3>6, <4>2, CoveredReleased
      <4>4. ASSUME NEW k \in down' PROVE Answered(k, Q \cup (L \cup R), H)
        <5>1. Answered(k, (X \cup Q) \cup R, H) /\ k \in Keys BY <3>5, <3>15, <4>1, <4>4
        <5>2. /\ k \in (X \cup Q) \cup R => k \in Q \cup (L \cup R)
              /\ (((X \cup Q) \cup R) \cup H) \cap Macros \subseteq (Q \cup (L \cup R)) \cup H \cup {m}
              /\ ReleasedBy(Released(m)) \subseteq Q \cup (L \cup R)
          BY <4>1, <5>1
        <5> QED BY <5>1, <5>2, AnsweredReleased
      <4>5. ASSUME NEW i \in DOMAIN added, added[i].press
            PROVE  Answered(added[i].of, R \cup ReleasedAfter(added, i), H \cup W)
        <5>1. added[i].of \in ReleasedAfter(added, i)
          BY <3>19, <4>1, <4>5 DEF ReleasesWhatItPresses
        <5> QED BY <5>1 DEF Answered
      <4>6. Covered(added, R, H \cup W) BY <4>5 DEF Covered
      <4> QED BY <4>3, <4>4, <4>6
    <3> QED BY <3>12, <3>17, <3>18, <3>19
  <2> QED BY <1>1, <2>7, <2>8 DEF AccountInv
<1> QED BY <1>4, <1>5

\* The steps of the loop that invoke nothing.
LEMMA LoopsAnswered ==
    ASSUME MacroInv, AccountInv, Loop
    PROVE  AccountInv'
<1> DEFINE t == Tail(stack)
<1>1. UNCHANGED <<held, down, refused>> /\ queue' = queue BY DEF Loop, Added, Wait, Work
<1>2. /\ stack \in Seq(Frame) /\ OnlyAddsHold(stack) /\ WorkersLoop(stack)
      /\ ~Pending /\ stack # <<>> => IF Head(stack).at = "get" THEN Len(queue) <= 1 ELSE queue = <<>>
  BY DEF MacroInv, QueueInv, QueueTypeOK, AccountInv, Ordered
<1>3. ASSUME stack # <<>>
      PROVE  /\ t \in Seq(Frame) /\ Head(stack) \in Frame /\ OnlyAddsHold(t)
             /\ Workers(stack) <=> Head(stack).worker \/ Workers(t)
             /\ Head(stack).at # "adding" => Head(stack).items = <<>>
             /\ Head(stack).worker => Head(stack).at # "adding"
  BY <1>2, <1>3, PopCalls, PopFrame
<1>4. CASE Added
  <2>1. /\ stack # <<>> /\ Head(stack).at = "adding" /\ Head(stack).items = <<>>
        /\ stack' = t /\ delay' = delay
    BY <1>4 DEF Added, Top
  <2>2. Workers(stack') <=> Workers(stack) BY <1>2, <1>3, <2>1, PopFrame
  <2>3. Pending' <=> delay' # Never \/ Workers(stack') BY DEF Pending, Workers
  <2>4. ~Pending' => queue' = <<>> BY <1>1, <1>2, <2>1, <2>2, <2>3, PendingCalls
  <2>5. Ordered'
    <3>1. OnlyAddsHold(stack') BY <1>3, <2>1
    <3>2. Len(<<>>) <= 1 OBVIOUS
    <3> QED BY <2>4, <3>1, <3>2 DEF Ordered
  <2>6. ~refused => Answering' BY <1>1, <2>1, CallEnds DEF AccountInv
  <2> QED BY <1>1, <2>5, <2>6 DEF AccountInv
<1>5. CASE Wait
  <2>1. stack # <<>> /\ Head(stack).at = "got" BY <1>5 DEF Wait, Top
  <2>2. Head(stack).items = <<>> BY <1>3, <2>1
  <2>3. CASE Head(stack).wait > 0
    <3>1. /\ stack' = t
          /\ delay' = IF delay = Never THEN Head(stack).wait ELSE delay
      BY <1>5, <2>3 DEF Wait
    <3>2. Head(stack).wait \in Nat BY <1>3, <2>1 DEF Frame
    <3>3. delay' # Never BY <3>1, <3>2, QueueAssumption
    <3>4. Ordered' BY <1>3, <2>1, <3>1, <3>3 DEF Ordered, Pending
    <3>5. ~refused => Answering' BY <1>1, <2>1, <2>2, <3>1, CallEnds DEF AccountInv
    <3> QED BY <1>1, <3>4, <3>5 DEF AccountInv
  <2>4. CASE ~(Head(stack).wait > 0)
    <3> DEFINE f == [Head(stack) EXCEPT !.at = "get", !.wait = 0]
    <3>1. stack' = <<f>> \o t /\ delay' = delay BY <1>5, <2>4 DEF Wait, Replacing
    <3>2. f \in Frame /\ f.at = "get" /\ f.items = <<>> /\ f.worker = Head(stack).worker
      BY <1>3, <2>1, <2>2 DEF Frame
    <3> HIDE DEF f, t
    <3>3. /\ Head(stack') = f /\ Tail(stack') = t /\ OnlyAddsHold(stack') /\ stack' # <<>>
          /\ Workers(stack') <=> f.worker \/ Workers(t)
          /\ ReleasedByCalls(stack') = ReleasedBy(f.items) \cup ReleasedByCalls(t)
      BY <1>3, <2>1, <3>1, <3>2, PushCalls, PushWaits DEF t
    <3>4. Workers(stack') <=> Workers(stack) BY <1>3, <2>1, <3>2, <3>3 DEF t
    <3>5. Pending' <=> delay' # Never \/ Workers(stack') BY DEF Pending, Workers
    <3>6. ~Pending' => queue' = <<>> BY <1>1, <1>2, <2>1, <3>1, <3>4, <3>5, PendingCalls
    <3>7. Ordered'
      <4>1. Len(<<>>) <= 1 OBVIOUS
      <4> QED BY <3>3, <3>6, <4>1 DEF Ordered
    <3>8. ASSUME Answering PROVE Answering'
      <4>1. ReleasedByCalls(stack) = ReleasedBy(Head(stack).items) \cup ReleasedByCalls(t)
        BY <1>2, <2>1, PopCalls DEF t
      <4>2. ReleasedByCalls(stack') = ReleasedByCalls(stack) BY <2>2, <3>2, <3>3, <4>1
      <4>3. CallsCovered(t, held) BY <2>1, <3>8 DEF Answering, t
      <4>4. Head(stack').items = <<>> BY <3>2, <3>3
      <4>5. Covered(<<>>, ReleasedByCalls(t), held' \cup Waited') BY EmptyLists
      <4> QED BY <1>1, <3>3, <3>8, <4>2, <4>3, <4>4, <4>5 DEF Answering
    <3> QED BY <1>1, <3>7, <3>8 DEF AccountInv
  <2> QED BY <2>3, <2>4
<1>6. CASE Work
  <2> DEFINE g == Processing(TRUE)
  <2>1. stack = <<>> /\ stack' = <<g>> \o stack BY <1>6 DEF Work
  <2>2. g \in Frame /\ g.at = "get" /\ g.items = <<>> /\ g.worker = TRUE
    BY FrameTypes DEF Processing
  <2> HIDE DEF g
  <2>3. /\ Head(stack') = g /\ Tail(stack') = <<>> /\ OnlyAddsHold(stack') /\ Workers(stack')
        /\ ReleasedByCalls(stack') = {} /\ ReleasedByCalls(stack) = {}
    <3>1. /\ ReleasedByCalls(<<g>> \o stack) = ReleasedBy(g.items) \cup ReleasedByCalls(stack)
          /\ Workers(<<g>> \o stack) <=> g.worker \/ Workers(stack)
          /\ OnlyAddsHold(<<g>> \o stack) <=> (g.at # "adding" => g.items = <<>>) /\ OnlyAddsHold(stack)
      BY <1>2, <2>2, PushCalls
    <3>2. Head(<<g>> \o stack) = g /\ Tail(<<g>> \o stack) = stack BY <1>2, <2>2, PushWaits
    <3> QED BY <1>2, <2>1, <2>2, <3>1, <3>2, NoCalls, EmptyLists
  <2>4. Pending' BY <2>3 DEF Pending, Workers
  <2>5. Ordered' BY <2>3, <2>4 DEF Ordered
  <2>6. ASSUME Answering PROVE Answering'
    <3>1. Covered(<<>>, ReleasedByCalls(<<>>), held' \cup Waited') BY EmptyLists
    <3> QED BY <1>1, <2>2, <2>3, <2>6, <3>1, NoCalls DEF Answering
  <2> QED BY <1>1, <2>5, <2>6 DEF AccountInv
<1> QED BY <1>4, <1>5, <1>6 DEF Loop

LEMMA InitAnswered == Init => AccountInv
<1> SUFFICES ASSUME Init PROVE AccountInv OBVIOUS
<1>1. stack = <<>> /\ queue = <<>> /\ down = {} BY DEF Init, QueueInit
<1> QED BY <1>1, NoCalls, EmptyLists DEF AccountInv, Ordered, Answering

LEMMA NextAnswered ==
    ASSUME ReleasesWhatItPresses, MacroInv, AccountInv, [Next]_vars
    PROVE  AccountInv'
<1>1. ASSUME NEW m \in Macros, MacroDown(m) PROVE AccountInv'
  <2>1. /\ Start(Pressed(m)) /\ held' = held \cup {m} /\ down' = down /\ refused' = refused
        /\ Pressed(m) \in Seq(Item)
    BY <1>1, Lists DEF MacroDown
  <2> DEFINE l == Pressed(m)
  <2>2. ASSUME NEW i \in DOMAIN l, l[i].press PROVE Answered(l[i].of, {} \cup ReleasedAfter(l, i), held')
    <3>1. l[i].of \in ReleasedAfter(l, i) \/ l[i].of \in ReleasedBy(Released(m))
      BY <2>2 DEF ReleasesWhatItPresses
    <3>2. l[i].of \in ReleasedBy(Released(m)) => Leads(m, l[i].of) BY LeadsDirectly
    <3> QED BY <2>1, <3>1, <3>2 DEF Answered
  <2>3. Covered(Pressed(m), {}, held') BY <2>2 DEF Covered
  <2>4. held \subseteq held' BY <2>1
  <2>5. Ordered' BY <2>1, StartsOrdered DEF AccountInv
  <2>6. ~refused => Answering' BY <2>1, <2>3, <2>4, StartsAnswered DEF AccountInv
  <2> QED BY <2>1, <2>5, <2>6 DEF AccountInv
<1>2. ASSUME NEW m \in Macros, MacroUp(m) PROVE AccountInv'
  <2>1. /\ Start(Released(m)) /\ held' = held \ {m} /\ down' = down /\ refused' = refused
        /\ Released(m) \in Seq(Item)
    BY <1>2, Lists DEF MacroUp
  <2> DEFINE l == Released(m)
  <2>2. ASSUME NEW i \in DOMAIN l, l[i].press PROVE Answered(l[i].of, {} \cup ReleasedAfter(l, i), held')
    BY <2>2 DEF ReleasesWhatItPresses, Answered
  <2>3. Covered(Released(m), {}, held') BY <2>2 DEF Covered
  <2>4. \E n : held \subseteq held' \cup {n} /\ ReleasedBy(Released(n)) \subseteq ReleasedBy(Released(m))
    BY <2>1
  <2>5. Ordered' BY <2>1, StartsOrdered DEF AccountInv
  <2>6. ~refused => Answering' BY <2>1, <2>3, <2>4, StartsAnswered DEF AccountInv
  <2> QED BY <2>1, <2>5, <2>6 DEF AccountInv
<1>3. ASSUME NEW s \in DOMAIN Sensors, Turn(s) PROVE AccountInv'
  <2>1. /\ Start(Turned(s)) /\ held' = held /\ down' = down /\ refused' = refused
        /\ Turned(s) \in Seq(Item)
    BY <1>3, Lists DEF Turn
  <2> DEFINE l == Turned(s)
  <2>2. /\ DOMAIN l = {1, 2} /\ l[1].of = Sensors[s].of /\ l[2].of = Sensors[s].of
        /\ l[2].press = FALSE
    BY DEF Turned
  <2> HIDE DEF l
  <2>3. Sensors[s].of \in ReleasedAfter(l, 1)
    <3>1. 2 > 1 OBVIOUS
    <3> QED BY <2>2, <3>1 DEF ReleasedAfter
  <2>4. Covered(l, {}, held') BY <2>2, <2>3 DEF Covered, Answered
  <2>5. Covered(Turned(s), {}, held') BY <2>4 DEF l
  <2>6. Ordered' BY <2>1, StartsOrdered DEF AccountInv
  <2>7. ~refused => Answering' BY <2>1, <2>5, StartsAnswered DEF AccountInv
  <2> QED BY <2>1, <2>6, <2>7 DEF AccountInv
<1>4. CASE Tick
  <2>1. stack = <<>> /\ stack' = stack /\ UNCHANGED <<queue, held, down, refused>>
    BY <1>4 DEF Tick, QueueTick
  <2> QED BY <2>1 DEF AccountInv, Ordered, Answering
<1>5. CASE UNCHANGED vars
  BY <1>5 DEF vars, AccountInv, Ordered, Answering, Waited, Pending
<1> QED BY <1>1, <1>2, <1>3, <1>4, <1>5, AddsAnswered, LoopsAnswered, InvokesAnswered DEF Next

\* What macros press they release: when none is held and the queue has run dry, no key is
\* down, however macros ran across one another, nested and paused, if each of them releases
\* what it presses and the queue never was full.
THEOREM WhatIsPressedIsReleased == ReleasesWhatItPresses => (Spec => []MacroAccounted)
<1> SUFFICES ASSUME ReleasesWhatItPresses PROVE Spec => []MacroAccounted OBVIOUS
<1>1. Init /\ MacroInv => AccountInv BY InitAnswered
<1>2. AccountInv /\ MacroInv /\ [Next]_vars => AccountInv' BY NextAnswered
<1>3. AccountInv /\ MacroInv => MacroAccounted
  <2> SUFFICES ASSUME AccountInv, MacroInv PROVE MacroAccounted OBVIOUS
  <2>1. TypeOK BY DEF MacroInv, QueueInv, UsersTypeOK, TypeOK
  <2>2. ASSUME AtRest, held = {}, ~refused PROVE down = {}
    <3>1. Answering /\ stack = <<>> /\ queue = <<>> BY <2>2 DEF AccountInv, AtRest
    <3>2. \A k \in down : Answered(k, {}, {})
      BY <2>2, <3>1, NoCalls, EmptyLists DEF Answering
    <3> QED BY <3>2 DEF Answered
  <2> QED BY <2>1, <2>2 DEF MacroAccounted, NothingLeftDown
<1> QED BY <1>1, <1>2, <1>3, MacroInvariance, PTL DEF Spec
=============================================================================

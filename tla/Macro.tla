-------------------------------- MODULE Macro --------------------------------
(***************************************************************************)
(* Macros and sensor turns, the users of the behavior queue:               *)
(* src/app/src/behaviors/behavior_macro.c and                              *)
(* behavior_sensor_rotate_common.c.  Macro parameters are left out.        *)
(***************************************************************************)
EXTENDS BehaviorQueue, FiniteSets
LOCAL INSTANCE SequencesExt

CONSTANTS
    Keys,         \* key press behaviors
    Bindings,     \* macro -> its list of bindings: pairs <<"mode", m>>, <<"tap_time", t>>,
                  \* <<"wait_time", t>>, <<"pause", 0>> and <<"invoke", behavior>>
    DefaultWait, DefaultTap,   \* macro -> its properties wait-ms and tap-ms
    Sensors,      \* sensor -> [of, tap]: the behavior it taps and its tap-ms
    Times,        \* the times that occur, and 0
    MaxEvents     \* bound: keys pressed and sensors turned

Macros == DOMAIN Bindings
Callers == Macros \cup DOMAIN Sensors
MacroItem == [caller : Callers, of : Keys \cup Macros, press : BOOLEAN, wait : Times]

ASSUME MacroAssumption ==
    /\ Keys \cap Macros = {} /\ MaxEvents \in Nat /\ 0 \in Times /\ Times \subseteq Nat
    /\ \A t \in Times : t = 0 \/ t - 1 \in Times
    /\ DefaultWait \in [Macros -> Times] /\ DefaultTap \in [Macros -> Times]
    /\ \A s \in DOMAIN Sensors : Sensors[s].of \in Keys \cup Macros /\ Sensors[s].tap \in Times
-----------------------------------------------------------------------------
(* What a macro adds to the queue. *)

Pauses(m) == {i \in DOMAIN Bindings[m] : Bindings[m][i][1] = "pause"}
\* the bindings before the pause, and those after it
OnPress(m) == IF Pauses(m) = {} THEN Bindings[m]
              ELSE SubSeq(Bindings[m], 1, (CHOOSE i \in Pauses(m) : TRUE) - 1)
OnRelease(m) == IF Pauses(m) = {} THEN <<>>
                ELSE SubSeq(Bindings[m], (CHOOSE i \in Pauses(m) : TRUE) + 1, Len(Bindings[m]))

\* handle_control_binding
Control(state, b) ==
    CASE b[1] = "mode" -> [state EXCEPT !.mode = b[2]]
      [] b[1] = "tap_time" -> [state EXCEPT !.tap = b[2]]
      [] b[1] = "wait_time" -> [state EXCEPT !.wait = b[2]]
      [] OTHER -> state

\* the items of one binding
ItemsFor(m, state, x) ==
    LET item(press, wait) == [caller |-> m, of |-> x, press |-> press, wait |-> wait]
    IN  CASE state.mode = "tap" -> <<item(TRUE, state.tap), item(FALSE, state.wait)>>
          [] state.mode = "press" -> <<item(TRUE, state.wait)>>
          [] OTHER -> <<item(FALSE, state.wait)>>

\* queue_macro: the items of a list of bindings, from a state
Queued(m, state, list) ==
    FoldLeft(LAMBDA acc, b :
                 [state |-> Control(acc.state, b),
                  items |-> IF b[1] = "invoke" THEN acc.items \o ItemsFor(m, acc.state, b[2])
                            ELSE acc.items],
             [state |-> state, items |-> <<>>], list)

\* on_macro_binding_pressed
Pressed(m) ==
    Queued(m, [mode |-> "tap", tap |-> DefaultTap[m], wait |-> DefaultWait[m]], OnPress(m)).items

\* on_macro_binding_released; behavior_macro_init has made its state from zeroes
Released(m) ==
    LET init == [mode |-> "tap", tap |-> 0, wait |-> 0]
    IN  Queued(m, Queued(m, init, OnPress(m)).state, OnRelease(m)).items

MacroAdds == [i \in MacroItem |-> IF i.of \in Keys THEN <<>>
                          ELSE IF i.press THEN Pressed(i.of) ELSE Released(i.of)]

\* The queue is that of macros, whose lists have at most one pause.
ASSUME MacroQueueAssumption ==
    /\ Item = MacroItem /\ AddsOf = MacroAdds
    /\ \A m \in Macros : Cardinality(Pauses(m)) <= 1

\* mutant of Turned: the release is queued in front of the press
Turned_Swapped(s) ==
    <<[caller |-> s, of |-> Sensors[s].of, press |-> FALSE, wait |-> Sensors[s].tap],
      [caller |-> s, of |-> Sensors[s].of, press |-> TRUE, wait |-> 0]>>
\* zmk_behavior_sensor_rotate_common_process, of one trigger
Turned(s) ==
    <<[caller |-> s, of |-> Sensors[s].of, press |-> TRUE, wait |-> Sensors[s].tap],
      [caller |-> s, of |-> Sensors[s].of, press |-> FALSE, wait |-> 0]>>
-----------------------------------------------------------------------------
VARIABLES
    held,    \* macros whose key is down
    down,    \* keys that are pressed
    due,     \* caller -> the behavior its last item invoked, and the time until the wait
             \* after it is over (history)
    refused, \* the queue was full once (history)
    events   \* keys pressed and sensors turned so far

vars == <<queue, delay, stack, held, down, due, refused, events>>

Init == /\ QueueInit
        /\ held = {} /\ down = {} /\ due = [c \in Callers |-> [of |-> c, left |-> 0]]
        /\ refused = FALSE /\ events = 0

MacroDown(m) ==
    /\ m \notin held /\ events < MaxEvents
    /\ Start(Pressed(m))
    /\ held' = held \cup {m} /\ events' = events + 1
    /\ UNCHANGED <<down, due, refused>>

MacroUp(m) ==
    /\ m \in held
    /\ Start(Released(m))
    /\ held' = held \ {m}
    /\ UNCHANGED <<down, due, refused, events>>

Turn(s) ==
    /\ events < MaxEvents
    /\ Start(Turned(s))
    /\ events' = events + 1
    /\ UNCHANGED <<held, down, due, refused>>

\* The loop of the queue, and what it does to the keys.
Invoke ==
    /\ Get
    /\ IF queue = <<>> THEN UNCHANGED <<down, due>>
       ELSE LET i == Head(queue)
            IN  /\ down' = IF i.of \notin Keys THEN down
                           ELSE IF i.press THEN down \cup {i.of} ELSE down \ {i.of}
                /\ due' = [due EXCEPT ![i.caller] = [of |-> i.of, left |-> i.wait]]
    /\ UNCHANGED <<held, refused, events>>

\* Adding to the queue, whose callers do not notice that it is full.
AddOne ==
    /\ Add
    /\ refused' = (refused \/ Len(queue) = QueueSize)
    /\ UNCHANGED <<held, down, due, events>>

Loop == (Added \/ Wait \/ Work) /\ UNCHANGED <<held, down, due, refused, events>>

Tick ==
    /\ QueueTick
    /\ due' = [c \in Callers |-> [due[c] EXCEPT !.left = IF @ = 0 THEN 0 ELSE @ - 1]]
    /\ UNCHANGED <<held, down, refused, events>>

Next ==
    \/ \E m \in Macros : MacroDown(m) \/ MacroUp(m)
    \/ \E s \in DOMAIN Sensors : Turn(s)
    \/ AddOne \/ Loop \/ Invoke \/ Tick

Spec == Init /\ [][Next]_vars

\* The work queue runs what it has to, and time passes.
FairSpec ==
    /\ Spec
    /\ WF_vars(AddOne) /\ WF_vars(Loop) /\ WF_vars(Invoke) /\ WF_vars(Tick)
-----------------------------------------------------------------------------
TypeOK ==
    /\ QueueTypeOK
    /\ held \subseteq Macros /\ down \subseteq Keys
    /\ due \in [Callers -> [of : Callers \cup Keys, left : Times]]
    /\ refused \in BOOLEAN /\ events \in 0 .. MaxEvents

AtRest == stack = <<>> /\ queue = <<>>

\* Nothing stays pressed: when no macro is held and the queue has run dry, every key that a
\* macro pressed has been released, whatever macros ran across one another or from within
\* one another and wherever their lists were paused, if the queue never was full.
NothingLeftDown == AtRest /\ held = {} /\ ~refused => down = {}

\* The wait of a macro's binding is over before its next binding is invoked: "how long of a
\* delay is introduced between behaviors in the `bindings` list" (docs, macros).
WaitHonoured == [][Len(queue') < Len(queue) => due[Head(queue).caller].left = 0]_vars

\* It is so after the bindings that are not macros themselves, however many macros are
\* queued across one another.
WaitHonouredAfterKeys ==
    [][Len(queue') < Len(queue) /\ due[Head(queue).caller].of \in Keys =>
          due[Head(queue).caller].left = 0]_vars

\* Every macro runs to its end: again and again the queue is empty.
Drains == []<>AtRest

\* What a list of items releases, and what it releases after its i-th item.
ReleasedBy(l) == {l[j].of : j \in {j \in DOMAIN l : ~l[j].press}}
ReleasedAfter(l, i) == {l[j].of : j \in {j \in DOMAIN l : j > i /\ ~l[j].press}}

\* The condition of MacroAccounted: each macro releases what it presses, in the part of its
\* list that presses it or, where that is the part before the pause, in the other one.
ReleasesWhatItPresses ==
    \A m \in Macros :
        /\ \A i \in DOMAIN Pressed(m) : Pressed(m)[i].press =>
               Pressed(m)[i].of \in ReleasedAfter(Pressed(m), i) \cup ReleasedBy(Released(m))
        /\ \A i \in DOMAIN Released(m) : Released(m)[i].press =>
               Released(m)[i].of \in ReleasedAfter(Released(m), i)

\* The condition of WaitHonouredAfterKeys: what invokes a macro that adds items waits after it.
WaitsAfterMacros(l) == \A i \in DOMAIN l : l[i].wait = 0 => AddsOf[l[i]] = <<>>
AllWaitAfterMacros ==
    /\ \A m \in Macros : WaitsAfterMacros(Pressed(m)) /\ WaitsAfterMacros(Released(m))
    /\ \A s \in DOMAIN Sensors : WaitsAfterMacros(Turned(s))

\* What a macro has pressed it releases, and every item of the queue is one of a macro's.
MacroAccounted == TypeOK /\ NothingLeftDown
=============================================================================

---------------------------- MODULE BehaviorQueue ----------------------------
(***************************************************************************)
(* The queue that invokes behaviors one after another, with a wait after   *)
(* each: src/app/src/behavior_queue.c.                                     *)
(*                                                                         *)
(* Everything runs on the system work queue, but zmk_behavior_queue_add    *)
(* may run the loop of behavior_queue_process_next itself, and a behavior  *)
(* that the loop invokes may call zmk_behavior_queue_add in turn.  `stack' *)
(* is the call stack of these two functions, its head the innermost call.  *)
(***************************************************************************)
EXTENDS Naturals, Sequences

CONSTANTS
    Item,        \* q_item: records with a field wait
    AddsOf,      \* item -> the items that its behavior adds when it is invoked
    QueueSize,   \* CONFIG_ZMK_BEHAVIORS_QUEUE_SIZE
    Never        \* queue_work is not scheduled

ASSUME QueueAssumption ==
    /\ \A i \in Item : i.wait \in Nat
    /\ AddsOf \in [Item -> Seq(Item)]
    /\ QueueSize \in Nat \ {0}
    /\ Never \notin Nat

VARIABLES
    queue,   \* zmk_behavior_queue_msgq
    delay,   \* time until queue_work runs
    stack    \* calls under way

queue_vars == <<queue, delay, stack>>

\* A call of process_next is about to get an item, or has invoked one whose wait it holds;
\* `worker' is true of one that queue_work makes.  A caller of add still has items to add.
Frame == [at : {"get", "got", "adding"}, items : Seq(Item), wait : Nat, worker : BOOLEAN]
Adding(items) == [at |-> "adding", items |-> items, wait |-> 0, worker |-> FALSE]
Processing(worker) == [at |-> "get", items |-> <<>>, wait |-> 0, worker |-> worker]

Calling(f) == <<f>> \o stack
Replacing(f) == <<f>> \o Tail(stack)
Top(at) == stack # <<>> /\ Head(stack).at = at

QueueInit == queue = <<>> /\ delay = Never /\ stack = <<>>
-----------------------------------------------------------------------------
\* k_work_delayable_is_pending: scheduled, or running
Pending == delay # Never \/ \E i \in DOMAIN stack : stack[i].worker

\* A behavior that is invoked from outside the queue adds these items.
Start(items) ==
    /\ stack = <<>>
    /\ stack' = <<Adding(items)>>
    /\ UNCHANGED <<queue, delay>>

\* mutant of Add: the item goes in front of those that are queued
Add_InFront ==
    /\ Top("adding") /\ Head(stack).items # <<>>
    /\ LET f == [Head(stack) EXCEPT !.items = Tail(@)]
           room == Len(queue) < QueueSize
       IN  /\ queue' = IF room THEN <<Head(Head(stack).items)>> \o queue ELSE queue
           /\ stack' = IF room /\ ~Pending
                       THEN <<Processing(FALSE)>> \o Replacing(f) ELSE Replacing(f)
    /\ UNCHANGED delay
\* mutant of Add: the loop runs although queue_work is scheduled
Add_Always ==
    /\ Top("adding") /\ Head(stack).items # <<>>
    /\ LET f == [Head(stack) EXCEPT !.items = Tail(@)]
           room == Len(queue) < QueueSize
       IN  /\ queue' = IF room THEN Append(queue, Head(Head(stack).items)) ELSE queue
           /\ stack' = IF room THEN <<Processing(FALSE)>> \o Replacing(f) ELSE Replacing(f)
    /\ UNCHANGED delay
\* zmk_behavior_queue_add, whose callers ignore that the queue is full
Add ==
    /\ Top("adding") /\ Head(stack).items # <<>>
    /\ LET f == [Head(stack) EXCEPT !.items = Tail(@)]
           room == Len(queue) < QueueSize
       IN  /\ queue' = IF room THEN Append(queue, Head(Head(stack).items)) ELSE queue
           /\ stack' = IF room /\ ~Pending
                       THEN <<Processing(FALSE)>> \o Replacing(f) ELSE Replacing(f)
    /\ UNCHANGED delay

Added ==
    /\ Top("adding") /\ Head(stack).items = <<>>
    /\ stack' = Tail(stack)
    /\ UNCHANGED <<queue, delay>>

\* behavior_queue_process_next: k_msgq_get, and the behavior is invoked
Get ==
    /\ Top("get")
    /\ IF queue = <<>>
       THEN stack' = Tail(stack) /\ UNCHANGED queue
       ELSE /\ queue' = Tail(queue)
            /\ stack' = <<Adding(AddsOf[Head(queue)])>>
                          \o Replacing([Head(stack) EXCEPT !.at = "got", !.wait = Head(queue).wait])
    /\ UNCHANGED delay

\* mutant of Wait: the loop ends after one item, whose wait is zero
Wait_OneOnly ==
    /\ Top("got")
    /\ delay' = IF Head(stack).wait > 0 /\ delay = Never THEN Head(stack).wait ELSE delay
    /\ stack' = Tail(stack)
    /\ UNCHANGED queue
\* ... and the wait after it; k_work_schedule does nothing if the work is scheduled already
Wait ==
    /\ Top("got")
    /\ IF Head(stack).wait > 0
       THEN /\ delay' = IF delay = Never THEN Head(stack).wait ELSE delay
            /\ stack' = Tail(stack)
       ELSE /\ stack' = Replacing([Head(stack) EXCEPT !.at = "get", !.wait = 0])
            /\ UNCHANGED delay
    /\ UNCHANGED queue

\* mutant of Work: taken for work that was cancelled
Work_Cancelled ==
    /\ delay = 0 /\ stack = <<>>
    /\ delay' = Never
    /\ UNCHANGED <<queue, stack>>
\* queue_work runs, when its time has come and the work queue is free
Work ==
    /\ delay = 0 /\ stack = <<>>
    /\ delay' = Never
    /\ stack' = <<Processing(TRUE)>>
    /\ UNCHANGED queue

\* Time passes while the work queue is idle.
QueueTick ==
    /\ stack = <<>>
    /\ delay' = IF delay \in Nat \ {0} THEN delay - 1 ELSE delay
    /\ UNCHANGED <<queue, stack>>

\* The behaviors that are outside the queue may add any items.
QueueNext ==
    \/ \E items \in Seq(Item) : Start(items)
    \/ Add \/ Added \/ Get \/ Wait \/ Work \/ QueueTick

QueueSpec == QueueInit /\ [][QueueNext]_queue_vars
-----------------------------------------------------------------------------
QueueTypeOK ==
    /\ queue \in Seq(Item) /\ Len(queue) <= QueueSize
    /\ delay \in Nat \cup {Never}
    /\ stack \in Seq(Frame)

\* No lost wake-up: whenever the work queue is idle and items are queued, queue_work is
\* scheduled to run them, however calls of add and process_next were nested.
NoLostWakeup == stack = <<>> /\ queue # <<>> => delay # Never
=============================================================================

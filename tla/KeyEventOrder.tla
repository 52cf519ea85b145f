--------------------------- MODULE KeyEventOrder ---------------------------
(***************************************************************************)
(* What the listeners in front of the keymap promise about key events,     *)
(* whatever they hold back and for however long (they "capture" events     *)
(* and raise them again later, src/app/src/event_manager.c):               *)
(*                                                                         *)
(*   - no event of a key is lost, doubled or invented;                     *)
(*   - the events of one key reach the keymap in order;                    *)
(*   - a press reaches the keymap only after every event that came before  *)
(*     it has.  Only releases may overtake, and only events of other keys. *)
(***************************************************************************)
EXTENDS Naturals, Sequences

CONSTANT Positions

VARIABLES
    down,      \* keys that are physically down
    seen,      \* keys that are down as far as the keymap has been told
    waiting    \* events on their way, in the order they happened

order_vars == <<down, seen, waiting>>

Flip(S, p) == IF p \in S THEN S \ {p} ELSE S \cup {p}
Without(s, k) == SubSeq(s, 1, k - 1) \o SubSeq(s, k + 1, Len(s))

OrderInit == down = {} /\ seen = {} /\ waiting = <<>>

Arrive(p) ==
    /\ down' = Flip(down, p)
    /\ waiting' = Append(waiting, p)
    /\ UNCHANGED seen

Deliver(k) ==
    LET p == waiting[k]
    IN  /\ \A j \in 1 .. k - 1 : waiting[j] # p
        /\ p \notin seen => k = 1
        /\ seen' = Flip(seen, p)
        /\ waiting' = Without(waiting, k)
        /\ UNCHANGED down

OrderNext == (\E p \in Positions : Arrive(p)) \/ (\E k \in DOMAIN waiting : Deliver(k))

OrderSpec == OrderInit /\ [][OrderNext]_order_vars
=============================================================================

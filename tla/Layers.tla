------------------------------- MODULE Layers -------------------------------
(***************************************************************************)
(* Layer state of the keymap (src/app/src/keymap.c) together with the      *)
(* conditional layers that follow it (src/app/src/conditional_layer.c).    *)
(*                                                                         *)
(* Every layer change goes through set_layer_state, which raises           *)
(* zmk_layer_state_changed synchronously.  The conditional-layer listener  *)
(* runs inside that raise and calls set_layer_state again, so a single     *)
(* call of a layer behavior may run many passes of the listener's loop     *)
(* before it returns.  One step of this module is one call of              *)
(* set_layer_state, or one scan of the conditional-layer configuration.    *)
(* All of it runs on the system work queue: a new request starts only      *)
(* when the previous one has returned.                                     *)
(***************************************************************************)
EXTENDS Integers, FiniteSets, Sequences

CONSTANTS
    N,      \* ZMK_KEYMAP_LAYERS_LEN: layers are 0 .. N-1
    Conds   \* CONDITIONAL_LAYER_CFGS, a set of [ifs, then] records

Layers == 0 .. N - 1

\* _zmk_keymap_layer_default: initialised to 0 and never assigned.
Default == 0

ASSUME NAssumption == N \in Nat \ {0}

\* A configuration names at least one if-layer; all layers it names exist.
ASSUME CondsAssumption ==
    /\ IsFiniteSet(Conds)
    /\ Conds \subseteq [ifs : (SUBSET Layers) \ {{}}, then : Layers]

VARIABLES
    layer_state,      \* _zmk_keymap_layer_state, as the set of its 1 bits
    layer_locks,      \* _zmk_keymap_layer_locks
    calls,            \* set_layer_state calls the current handler has yet to make
    updates_needed,   \* conditional_layer_updates_needed
    cond,             \* where the conditional-layer listener is; "idle": semaphore free
    todo,             \* then-layers the second loop of the pass has yet to visit
    then_on,          \* then_layer_state computed by the pass
    locked_by,        \* layer_locked_by_conditional
    req               \* the layer operation being served, or last served

condVars == <<updates_needed, cond, todo, then_on, locked_by>>
vars == <<layer_state, layer_locks, calls, condVars, req>>

Call == [layer : 0 .. N, on : BOOLEAN, locking : BOOLEAN]
Request == [op : {"none", "activate", "deactivate", "toggle", "to"},
            layer : 0 .. N, locking : BOOLEAN]

ThenLayers == {c.then : c \in Conds}

\* zmk_keymap_layer_active and zmk_keymap_layer_locked: the default layer
\* answers TRUE whatever its bit is.
Active(l) == l \in layer_state \/ l = Default
Locked(l) == l \in layer_locks \/ l = Default

\* then-layers t with a configuration whose if-layers are all in S
Enabled(S) == {c.then : c \in {d \in Conds : d.ifs \subseteq S}}

-----------------------------------------------------------------------------
WithBit(S, l, on) == IF on THEN S \cup {l} ELSE S \ {l}

\* mutants of Refused: a nonexistent layer is let through; a locked layer is not protected
Refused_NoBound(c) ==
    \/ ~c.on /\ c.layer = Default
    \/ ~c.on /\ ~c.locking /\ c.layer \in layer_locks
Refused_NoLock(c) ==
    \/ c.layer \notin Layers
    \/ ~c.on /\ c.layer = Default

\* The early returns of set_layer_state: a layer that does not exist, the
\* default layer, or a locked layer switched off by a call that is not locking.
Refused(c) ==
    \/ c.layer \notin Layers
    \/ ~c.on /\ c.layer = Default
    \/ ~c.on /\ ~c.locking /\ c.layer \in layer_locks

\* mutant of SetLayerState: the listener tries the semaphore before it sets the flag
SetLayerState_LostUpdate(c) ==
    IF Refused(c)
    THEN UNCHANGED <<layer_state, layer_locks, updates_needed, cond>>
    ELSE /\ layer_state' = WithBit(layer_state, c.layer, c.on)
         /\ layer_locks' = IF c.locking THEN WithBit(layer_locks, c.layer, c.on)
                                        ELSE layer_locks
         /\ IF cond = "idle" /\ (layer_state' # layer_state \/ layer_locks' # layer_locks)
            THEN updates_needed' = TRUE /\ cond' = "scan"
            ELSE UNCHANGED <<updates_needed, cond>>

\* set_layer_state.  When a bit changed, the event is raised and the listener
\* notes that updates are needed; it enters its loop unless it is in it already.
SetLayerState(c) ==
    IF Refused(c)
    THEN UNCHANGED <<layer_state, layer_locks, updates_needed, cond>>
    ELSE /\ layer_state' = WithBit(layer_state, c.layer, c.on)
         /\ layer_locks' = IF c.locking THEN WithBit(layer_locks, c.layer, c.on)
                                        ELSE layer_locks
         /\ IF layer_state' # layer_state \/ layer_locks' # layer_locks
            THEN /\ updates_needed' = TRUE
                 /\ cond' = IF cond = "idle" THEN "scan" ELSE cond
            ELSE UNCHANGED <<updates_needed, cond>>

-----------------------------------------------------------------------------
Init ==
    /\ layer_state = {}
    /\ layer_locks = {}
    /\ calls = <<>>
    /\ updates_needed = FALSE
    /\ cond = "idle"
    /\ todo = {}
    /\ then_on = {}
    /\ locked_by = {}
    /\ req = [op |-> "none", layer |-> Default, locking |-> FALSE]

Quiet == cond = "idle" /\ calls = <<>>

Switch(l, on, locking) == [layer |-> l, on |-> on, locking |-> locking]

\* mutant of ToCalls: the other layers are switched off without the locking flag
ToCalls_PlainOff(r) ==
    [i \in 1 .. N + 1 |-> IF i <= N THEN Switch(N - i, FALSE, FALSE)
                                   ELSE Switch(r.layer, TRUE, r.locking)]

\* zmk_keymap_layer_to: every layer off from the highest down, then one on
ToCalls(r) ==
    [i \in 1 .. N + 1 |-> IF i <= N THEN Switch(N - i, FALSE, r.locking)
                                   ELSE Switch(r.layer, TRUE, r.locking)]

\* zmk_keymap_layer_toggle: a locking toggle switches off only a locked layer
ToggledOff(r) == Active(r.layer) /\ (~r.locking \/ Locked(r.layer))

\* The set_layer_state calls a layer operation makes.
CallsOf(r) ==
    CASE r.op = "activate"   -> <<Switch(r.layer, TRUE, r.locking)>>
      [] r.op = "deactivate" -> <<Switch(r.layer, FALSE, r.locking)>>
      [] r.op = "toggle"     -> <<Switch(r.layer, ~ToggledOff(r), r.locking)>>
      [] r.op = "to"         -> ToCalls(r)
      [] OTHER               -> <<>>

\* A layer behavior, or another user of the keymap's layer API, is invoked.
Serve(r) ==
    /\ Quiet
    /\ req' = r
    /\ calls' = CallsOf(r)
    /\ UNCHANGED <<layer_state, layer_locks, condVars>>

\* The handler makes its next call of set_layer_state.
NextCall ==
    /\ cond = "idle"
    /\ calls # <<>>
    /\ SetLayerState(Head(calls))
    /\ calls' = Tail(calls)
    /\ UNCHANGED <<todo, then_on, locked_by, req>>

\* mutant of Scan: the flag is not reset
Scan_NoReset ==
    /\ cond = "scan"
    /\ updates_needed
    /\ todo' = ThenLayers
    /\ then_on' = Enabled(layer_state)
    /\ locked_by' = locked_by \cup Enabled(layer_locks)
    /\ cond' = "apply"
    /\ UNCHANGED <<layer_state, layer_locks, calls, updates_needed, req>>

\* First loop of a pass: what every then-layer should be.
Scan ==
    /\ cond = "scan"
    /\ updates_needed
    /\ updates_needed' = FALSE
    /\ todo' = ThenLayers
    /\ then_on' = Enabled(layer_state)
    /\ locked_by' = locked_by \cup Enabled(layer_locks)
    /\ cond' = "apply"
    /\ UNCHANGED <<layer_state, layer_locks, calls, req>>

\* conditional_layer_activate and conditional_layer_deactivate: their guards.
ShouldActivate(l, locking) == ~Active(l) \/ (locking /\ ~Locked(l))
ShouldDeactivate(l, locking) == Active(l) /\ (~Locked(l) \/ locking)

\* mutant of Apply: a layer switched off keeps its lock record
Apply_KeepsRecord(l) ==
    /\ cond = "apply"
    /\ l \in todo
    /\ \A m \in todo : l <= m
    /\ todo' = todo \ {l}
    /\ IF \/ l \in then_on /\ ShouldActivate(l, l \in locked_by)
          \/ l \notin then_on /\ ShouldDeactivate(l, l \in locked_by)
       THEN SetLayerState(Switch(l, l \in then_on, l \in locked_by))
       ELSE UNCHANGED <<layer_state, layer_locks, updates_needed, cond>>
    /\ UNCHANGED <<locked_by, calls, then_on, req>>

\* Second loop of a pass: the then-layers, from the lowest up.
Apply(l) ==
    /\ cond = "apply"
    /\ l \in todo
    /\ \A m \in todo : l <= m
    /\ todo' = todo \ {l}
    /\ IF \/ l \in then_on /\ ShouldActivate(l, l \in locked_by)
          \/ l \notin then_on /\ ShouldDeactivate(l, l \in locked_by)
       THEN SetLayerState(Switch(l, l \in then_on, l \in locked_by))
       ELSE UNCHANGED <<layer_state, layer_locks, updates_needed, cond>>
    /\ locked_by' = IF l \in then_on THEN locked_by ELSE locked_by \ {l}
    /\ UNCHANGED <<calls, then_on, req>>

\* The second loop is over: back to the test of the while loop.
EndPass ==
    /\ cond = "apply"
    /\ todo = {}
    /\ cond' = "scan"
    /\ UNCHANGED <<layer_state, layer_locks, calls, updates_needed, todo,
                   then_on, locked_by, req>>

\* No update is needed any more: the semaphore is given back.
Leave ==
    /\ cond = "scan"
    /\ ~updates_needed
    /\ cond' = "idle"
    /\ UNCHANGED <<layer_state, layer_locks, calls, updates_needed, todo,
                   then_on, locked_by, req>>

Work == NextCall \/ Scan \/ (\E l \in ThenLayers : Apply(l)) \/ EndPass \/ Leave

Next == (\E r \in Request : Serve(r)) \/ Work

Spec == Init /\ [][Next]_vars

\* The work queue's thread keeps running the handler it is in.
FairSpec == Spec /\ WF_vars(Work)

-----------------------------------------------------------------------------
TypeOK ==
    /\ layer_state \subseteq Layers
    /\ layer_locks \subseteq Layers
    /\ calls \in Seq(Call)
    /\ updates_needed \in BOOLEAN
    /\ cond \in {"idle", "scan", "apply"}
    /\ todo \subseteq ThenLayers
    /\ then_on \subseteq ThenLayers
    /\ locked_by \subseteq ThenLayers
    /\ req \in Request

(***************************************************************************)
(* A locked layer is an active layer: whatever mix of locking and plain    *)
(* calls the behaviors and the conditional layers make, set_layer_state    *)
(* never leaves a lock bit on a layer that is off.                         *)
(***************************************************************************)
LocksActive == layer_locks \subseteq layer_state

(***************************************************************************)
(* Whenever the conditional-layer listener is outside its loop, every      *)
(* then-layer (but the default layer) is on exactly when one of its        *)
(* configurations has all its if-layers on, or a locking behavior holds it *)
(* on: nested changes made during the passes are never missed.             *)
(***************************************************************************)
SettledConditional ==
    cond = "idle" =>
        \A t \in ThenLayers \ {Default} :
            /\ t \in Enabled(layer_state) => t \in layer_state
            /\ t \in layer_state => t \in Enabled(layer_state) \/ t \in layer_locks

(***************************************************************************)
(* The listener's record of the layers it locked itself is never stale     *)
(* when its loop is over: such a layer is still called for by its          *)
(* if-layers and is still locked, so its lock is undone with the           *)
(* condition and no lock of the listener outlives it.                      *)
(***************************************************************************)
LockRecordCurrent ==
    cond = "idle" => \A t \in locked_by : t \in Enabled(layer_state) /\ Locked(t)

(***************************************************************************)
(* When a locking `to' has returned, the layers that are on are its layer, *)
(* the default layer and then-layers: layers switched back on by the       *)
(* conditional layers during its descending loop do not stay on.           *)
(***************************************************************************)
ToLeavesOneLayer ==
    Quiet /\ req.op = "to" /\ req.locking =>
        layer_state \ ThenLayers \subseteq {Default, req.layer}

(***************************************************************************)
(* Every layer operation returns: the passes of the listener come to an    *)
(* end ("the process will eventually terminate", conditional_layer.c).     *)
(***************************************************************************)
Terminates == (cond # "idle") ~> Quiet

(***************************************************************************)
(* What holds of the layers between any two steps, and what an operation   *)
(* leaves behind.                                                          *)
(***************************************************************************)
LayersSettled ==
    TypeOK /\ LocksActive /\ SettledConditional /\ LockRecordCurrent /\ ToLeavesOneLayer
=============================================================================

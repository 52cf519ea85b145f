---------------------------- MODULE Keymap_proofs ----------------------------
(***************************************************************************)
(* Proofs about Layers and Keymap, for every number of layers and          *)
(* positions, every set of conditional-layer configurations, every keymap  *)
(* and every number of edits: the layers settle as their configurations    *)
(* ask, the keymap drives them as Layers says, no layer is left on by a    *)
(* key that is up, and the order of the layers stays one.                  *)
(***************************************************************************)
EXTENDS Keymap, WellFoundedInduction, TLAPS

-----------------------------------------------------------------------------
(* The layers, whatever calls are made of them.                              *)

(***************************************************************************)
(* What one call of set_layer_state may do to the layer bits.              *)
(***************************************************************************)
LEMMA SetLayerStateType ==
    ASSUME TypeOK, NEW c \in Call, SetLayerState(c)
    PROVE  /\ layer_state' \subseteq Layers
           /\ layer_locks' \subseteq Layers
           /\ updates_needed' \in BOOLEAN
           /\ cond' \in {"idle", "scan", "apply"}
<1>1. CASE Refused(c)
  BY <1>1 DEF SetLayerState, TypeOK
<1>2. CASE ~Refused(c)
  <2>1. c.layer \in Layers
    BY <1>2 DEF Refused
  <2>2. QED
    BY <1>2, <2>1 DEF SetLayerState, TypeOK, WithBit
<1>3. QED
  BY <1>1, <1>2

(***************************************************************************)
(* The calls a layer operation makes are calls of set_layer_state.         *)
(***************************************************************************)
LEMMA CallsOfType ==
    ASSUME NEW r \in Request
    PROVE  CallsOf(r) \in Seq(Call)
<1>0. N \in Nat /\ N > 0
  BY NAssumption
<1>1. \A l \in 0 .. N, on \in BOOLEAN : Switch(l, on, r.locking) \in Call
  BY DEF Request, Call, Switch
<1>2. CASE r.op = "to"
  <2> DEFINE f == [i \in 1 .. N + 1 |-> IF i <= N THEN Switch(N - i, FALSE, r.locking)
                                               ELSE Switch(r.layer, TRUE, r.locking)]
  <2>1. f \in [1 .. N + 1 -> Call]
    <3> SUFFICES ASSUME NEW i \in 1 .. N + 1
                 PROVE  f[i] \in Call
      OBVIOUS
    <3>1. CASE i <= N
      <4>1. N - i \in 0 .. N
        BY <1>0, <3>1
      <4>2. Switch(N - i, FALSE, r.locking) \in Call
        BY <1>1, <4>1
      <4>3. f[i] = Switch(N - i, FALSE, r.locking)
        BY <3>1
      <4> HIDE DEF f
      <4>4. QED
        BY <4>2, <4>3
    <3>2. CASE ~(i <= N)
      <4>1. r.layer \in 0 .. N
        BY DEF Request
      <4>2. f[i] = Switch(r.layer, TRUE, r.locking)
        BY <3>2
      <4> HIDE DEF f
      <4>3. QED
        BY <1>1, <4>1, <4>2
    <3>3. QED
      BY <3>1, <3>2
  <2>2. f \in Seq(Call)
    <3>1. N + 1 \in Nat
      BY <1>0
    <3> HIDE DEF f
    <3>2. QED
      BY <2>1, <3>1
  <2>3. CallsOf(r) = f
    BY <1>2 DEF CallsOf, ToCalls
  <2>4. QED
    BY <2>2, <2>3
<1>3. CASE r.op \in {"activate", "deactivate", "toggle"}
  <2>1. PICK on \in BOOLEAN : CallsOf(r) = <<Switch(r.layer, on, r.locking)>>
    <3>1. CASE r.op = "activate"
      BY <3>1 DEF CallsOf
    <3>2. CASE r.op = "deactivate"
      BY <3>2 DEF CallsOf
    <3>3. CASE r.op = "toggle"
      <4> DEFINE off == ToggledOff(r)
      <4>1. CallsOf(r) = <<Switch(r.layer, ~off, r.locking)>>
        BY <3>3 DEF CallsOf
      <4> HIDE DEF off
      <4>2. QED
        BY <4>1
    <3>4. QED
      BY <1>3, <3>1, <3>2, <3>3
  <2>2. Switch(r.layer, on, r.locking) \in Call
    BY <1>1 DEF Request
  <2>3. QED
    BY <2>1, <2>2
<1>4. CASE r.op = "none"
  BY <1>4 DEF CallsOf
<1>5. QED
  BY <1>2, <1>3, <1>4 DEF Request

(***************************************************************************)
(* Type correctness.                                                       *)
(***************************************************************************)
THEOREM TypeCorrect == Spec => []TypeOK
<1>1. Init => TypeOK
  <2> SUFFICES ASSUME Init
               PROVE  TypeOK
    OBVIOUS
  <2>1. req \in Request
    BY NAssumption DEF Init, Default, Request
  <2>2. calls \in Seq(Call)
    BY DEF Init
  <2>3. QED
    BY <2>1, <2>2 DEF Init, TypeOK
<1>2. TypeOK /\ [Next]_vars => TypeOK'
  <2> SUFFICES ASSUME TypeOK, [Next]_vars
               PROVE  TypeOK'
    OBVIOUS
  <2>1. ASSUME NEW r \in Request, Serve(r)
        PROVE  TypeOK'
    BY <2>1, CallsOfType DEF Serve, TypeOK, condVars
  <2>2. CASE NextCall
    <3>1. Head(calls) \in Call /\ Tail(calls) \in Seq(Call)
      BY <2>2 DEF NextCall, TypeOK
    <3>2. SetLayerState(Head(calls))
      BY <2>2 DEF NextCall
    <3>3. QED
      BY <2>2, <3>1, <3>2, SetLayerStateType DEF NextCall, TypeOK
  <2>3. CASE Scan
    BY <2>3 DEF Scan, TypeOK, Enabled, ThenLayers
  <2>4. ASSUME NEW l \in ThenLayers, Apply(l)
        PROVE  TypeOK'
    <3> DEFINE c == Switch(l, l \in then_on, l \in locked_by)
    <3>1. c \in Call
      BY <2>4, CondsAssumption, NAssumption DEF Call, Switch, ThenLayers, Layers
    <3>2. \/ SetLayerState(c)
          \/ UNCHANGED <<layer_state, layer_locks, updates_needed, cond>>
      BY <2>4 DEF Apply
    <3>3. /\ layer_state' \subseteq Layers
          /\ layer_locks' \subseteq Layers
          /\ updates_needed' \in BOOLEAN
          /\ cond' \in {"idle", "scan", "apply"}
      BY <3>1, <3>2, SetLayerStateType DEF TypeOK
    <3>4. QED
      BY <2>4, <3>3 DEF Apply, TypeOK
  <2>5. CASE EndPass
    BY <2>5 DEF EndPass, TypeOK
  <2>6. CASE Leave
    BY <2>6 DEF Leave, TypeOK
  <2>7. CASE UNCHANGED vars
    BY <2>7 DEF vars, condVars, TypeOK
  <2>8. QED
    BY <2>1, <2>2, <2>3, <2>4, <2>5, <2>6, <2>7 DEF Next, Work
<1>3. QED
  BY <1>1, <1>2, PTL DEF Spec

-----------------------------------------------------------------------------
(***************************************************************************)
(* The inductive invariant.  As long as no update has been asked for since *)
(* the scan of a pass, the scan's result is still what the layer bits call *)
(* for, and every then-layer the pass has visited already agrees with it.  *)
(***************************************************************************)
Settled(t) ==
    /\ t # Default =>
          /\ t \in Enabled(layer_state) => t \in layer_state
          /\ t \in layer_state => t \in Enabled(layer_state) \/ t \in layer_locks
    /\ t \in locked_by => t \in Enabled(layer_state) /\ Locked(t)

PassCurrent ==
    /\ cond = "idle" => ~updates_needed
    /\ cond # "apply" => todo = {}
    /\ ~updates_needed /\ cond = "apply" => then_on = Enabled(layer_state)
    /\ ~updates_needed => \A t \in ThenLayers \ todo : Settled(t)

IInv == LocksActive /\ PassCurrent

\* Nothing is enabled when no layer bit is set: every configuration names an if-layer.
LEMMA NothingEnabled == Enabled({}) = {}
  BY CondsAssumption DEF Enabled

\* A configuration is enabled by more layers whenever it is by fewer; locked
\* layers are active, so what the locks enable is enabled.
LEMMA EnabledMonotone ==
    ASSUME NEW S, NEW T, S \subseteq T
    PROVE  Enabled(S) \subseteq Enabled(T)
  BY DEF Enabled

(***************************************************************************)
(* A call of set_layer_state either changes no layer bit, or asks for an   *)
(* update; in both cases a locked layer stays an active one.               *)
(***************************************************************************)
LEMMA SetLayerStateStep ==
    ASSUME TypeOK, LocksActive, NEW c \in Call, SetLayerState(c)
    PROVE  /\ LocksActive'
           /\ \/ updates_needed' /\ cond' = IF cond = "idle" THEN "scan" ELSE cond
              \/ UNCHANGED <<layer_state, layer_locks, updates_needed, cond>>
<1>1. CASE Refused(c)
  BY <1>1 DEF SetLayerState, LocksActive
<1>2. CASE ~Refused(c)
  <2>1. /\ layer_state' = WithBit(layer_state, c.layer, c.on)
        /\ layer_locks' = IF c.locking THEN WithBit(layer_locks, c.layer, c.on)
                                       ELSE layer_locks
    BY <1>2 DEF SetLayerState
  <2>2. ~c.on /\ ~c.locking => c.layer \notin layer_locks
    BY <1>2 DEF Refused
  <2>3. LocksActive'
    BY <2>1, <2>2 DEF LocksActive, WithBit, Call
  <2>4. QED
    BY <1>2, <2>3 DEF SetLayerState
<1>3. QED
  BY <1>1, <1>2

THEOREM ConditionalInvariant == Spec => []IInv
<1>1. Init => IInv
  BY NothingEnabled DEF Init, IInv, LocksActive, PassCurrent, Settled
<1>2. TypeOK /\ IInv /\ [Next]_vars => IInv'
  <2> SUFFICES ASSUME TypeOK, IInv, [Next]_vars
               PROVE  IInv'
    OBVIOUS
  <2> USE DEF IInv
  <2>1. ASSUME NEW r \in Request, Serve(r)
        PROVE  IInv'
    BY <2>1 DEF Serve, condVars, LocksActive, PassCurrent, Settled, Locked, Enabled
  <2>2. CASE NextCall
    <3>1. Head(calls) \in Call
      BY <2>2 DEF NextCall, TypeOK
    <3>2. /\ LocksActive'
          /\ \/ updates_needed' /\ cond' = IF cond = "idle" THEN "scan" ELSE cond
             \/ UNCHANGED <<layer_state, layer_locks, updates_needed, cond>>
      BY <2>2, <3>1, SetLayerStateStep DEF NextCall
    <3>3. PassCurrent'
      <4>1. cond = "idle" /\ todo = {} /\ UNCHANGED <<todo, then_on, locked_by>>
        BY <2>2 DEF NextCall, PassCurrent
      <4>2. CASE updates_needed'
        <5>1. cond' = "scan"
          BY <3>2, <4>1, <4>2 DEF PassCurrent
        <5>2. QED
          BY <4>1, <4>2, <5>1 DEF PassCurrent
      <4>3. CASE ~updates_needed'
        BY <3>2, <4>1, <4>3 DEF PassCurrent, Settled, Locked, Enabled
      <4>4. QED
        BY <4>2, <4>3
    <3>4. QED
      BY <3>2, <3>3
  <2>3. CASE Scan
    BY <2>3 DEF Scan, LocksActive, PassCurrent, Enabled
  <2>4. ASSUME NEW l \in ThenLayers, Apply(l)
        PROVE  IInv'
    <3> DEFINE c == Switch(l, l \in then_on, l \in locked_by)
    <3>1. c \in Call
      BY CondsAssumption, NAssumption DEF Call, Switch, ThenLayers, Layers
    <3>2. \/ SetLayerState(c)
          \/ UNCHANGED <<layer_state, layer_locks, updates_needed, cond>>
      BY <2>4 DEF Apply
    <3>3. /\ LocksActive'
          /\ cond' = "apply"
          /\ \/ updates_needed'
             \/ UNCHANGED <<layer_state, layer_locks, updates_needed, cond>>
      <4>1. cond = "apply"
        BY <2>4 DEF Apply
      <4>2. CASE SetLayerState(c)
        <5> HIDE DEF c
        <5>1. QED
          BY <3>1, <4>1, <4>2, SetLayerStateStep
      <4>3. CASE UNCHANGED <<layer_state, layer_locks, updates_needed, cond>>
        BY <4>1, <4>3 DEF LocksActive
      <4>4. QED
        BY <3>2, <4>2, <4>3
    <3>4. CASE updates_needed'
      BY <3>3, <3>4 DEF PassCurrent
    <3>5. CASE ~updates_needed'
      <4>1. UNCHANGED <<layer_state, layer_locks, updates_needed, cond, then_on>>
        BY <2>4, <3>3, <3>5 DEF Apply
      <4>2. /\ then_on = Enabled(layer_state)
            /\ \A t \in ThenLayers \ todo : Settled(t)
        BY <2>4, <3>5, <4>1 DEF Apply, PassCurrent
      <4>3. /\ todo' = todo \ {l}
            /\ locked_by' = IF l \in then_on THEN locked_by ELSE locked_by \ {l}
        BY <2>4 DEF Apply
      <4>4. \A t \in ThenLayers \ todo : Settled(t)'
        BY <4>1, <4>2, <4>3 DEF Settled, Enabled, Locked
      <4>5. Settled(l)'
        <5>1. ASSUME SetLayerState(c)
              PROVE  ~Refused(c) =>
                       /\ c.on <=> l \in layer_state
                       /\ c.locking => (c.on <=> l \in layer_locks)
          BY <3>5, <4>1, <5>1 DEF SetLayerState, WithBit, Switch
        <5>2. CASE l \in then_on
          <6>1. ~Refused(c)
            BY <5>2, CondsAssumption DEF Refused, Switch, ThenLayers
          <6>2. ShouldActivate(l, l \in locked_by) =>
                   l \in layer_state /\ (l \in locked_by => l \in layer_locks)
            BY <2>4, <5>1, <5>2, <6>1 DEF Apply, Switch
          <6>3. (l # Default => l \in layer_state) /\ (l \in locked_by => Locked(l))
            BY <6>2 DEF ShouldActivate, Active, Locked
          <6>4. QED
            BY <4>1, <4>2, <4>3, <5>2, <6>3 DEF Settled, Enabled, Locked
        <5>3. CASE l \notin then_on
          <6>1. ASSUME l # Default, l \notin layer_locks \/ l \in locked_by
                PROVE  ~Refused(c)
            BY <5>3, <6>1, CondsAssumption DEF Refused, Switch, ThenLayers
          <6>2. ASSUME l # Default, ShouldDeactivate(l, l \in locked_by)
                PROVE  l \notin layer_state
            BY <2>4, <5>1, <5>3, <6>1, <6>2 DEF Apply, Switch, ShouldDeactivate, Locked
          <6>3. l # Default /\ l \in layer_state => l \in layer_locks
            BY <6>2 DEF ShouldDeactivate, Active, Locked
          <6>4. QED
            BY <4>1, <4>2, <4>3, <5>3, <6>3 DEF Settled, Enabled, Locked
        <5>4. QED
          BY <5>2, <5>3
      <4>6. QED
        BY <3>3, <4>1, <4>2, <4>3, <4>4, <4>5 DEF PassCurrent, Enabled
    <3>6. QED
      BY <3>4, <3>5
  <2>5. CASE EndPass
    BY <2>5 DEF EndPass, LocksActive, PassCurrent, Settled, Locked, Enabled
  <2>6. CASE Leave
    BY <2>6 DEF Leave, LocksActive, PassCurrent, Settled, Locked, Enabled
  <2>7. CASE UNCHANGED vars
    BY <2>7 DEF vars, condVars, LocksActive, PassCurrent, Settled, Locked, Enabled
  <2>8. QED
    BY <2>1, <2>2, <2>3, <2>4, <2>5, <2>6, <2>7 DEF Next, Work
<1>3. QED
  BY <1>1, <1>2, TypeCorrect, PTL DEF Spec

(***************************************************************************)
(* A locked layer is an active layer, in every keymap.                     *)
(***************************************************************************)
THEOREM LocksAreActive == Spec => []LocksActive
<1>1. IInv => LocksActive
  BY DEF IInv
<1>2. QED
  BY <1>1, ConditionalInvariant, PTL

(***************************************************************************)
(* Outside the listener's loop every then-layer agrees with its            *)
(* configurations, whatever they are -- cyclic ones included, for which    *)
(* the loop may never end.                                                 *)
(***************************************************************************)
THEOREM ConditionalSettles == Spec => []SettledConditional
<1>1. IInv => SettledConditional
  BY DEF IInv, PassCurrent, Settled, SettledConditional
<1>2. QED
  BY <1>1, ConditionalInvariant, PTL

(***************************************************************************)
(* Outside the loop no lock record of the listener is stale.               *)
(***************************************************************************)
THEOREM LockRecordIsCurrent == Spec => []LockRecordCurrent
<1>1. TypeOK /\ IInv => LockRecordCurrent
  BY DEF TypeOK, IInv, PassCurrent, Settled, LockRecordCurrent
<1>2. QED
  BY <1>1, TypeCorrect, ConditionalInvariant, PTL
-----------------------------------------------------------------------------
(***************************************************************************)
(* How the calls of an operation are worked off.                           *)
(***************************************************************************)
\* The handler has yet to switch layer l off.
PendingOff(l) == \E i \in DOMAIN calls : ~calls[i].on /\ calls[i].layer = l

LEMMA CallsShift ==
    ASSUME TypeOK, NextCall
    PROVE  /\ 1 \in DOMAIN calls /\ Head(calls) = calls[1] /\ Head(calls) \in Call
           /\ \A i \in DOMAIN calls' : i + 1 \in DOMAIN calls /\ calls'[i] = calls[i + 1]
           /\ \A i \in DOMAIN calls :
                i # 1 => i - 1 \in DOMAIN calls' /\ calls'[i - 1] = calls[i]
<1>1. calls \in Seq(Call) /\ calls # <<>> /\ calls' = Tail(calls)
  BY DEF TypeOK, NextCall
<1>2. /\ Len(calls) \in Nat /\ Len(calls) > 0 /\ DOMAIN calls = 1 .. Len(calls)
      /\ DOMAIN calls' = 1 .. Len(calls) - 1
      /\ \A i \in 1 .. Len(calls) - 1 : calls'[i] = calls[i + 1]
  BY <1>1
<1>3. Head(calls) = calls[1] /\ Head(calls) \in Call
  BY <1>1
<1>4. QED
  BY <1>2, <1>3

\* Conditional layers switch then-layers and nothing else.
LEMMA ConditionalSwitches ==
    ASSUME Work, ~NextCall, NEW l, l \notin ThenLayers
    PROVE  /\ calls' = calls /\ req' = req
           /\ l \in layer_state' <=> l \in layer_state
           /\ l \in layer_locks' <=> l \in layer_locks
<1>1. ASSUME NEW t \in ThenLayers, Apply(t)
      PROVE  /\ calls' = calls /\ req' = req
             /\ l \in layer_state' <=> l \in layer_state
             /\ l \in layer_locks' <=> l \in layer_locks
  <2>1. \/ SetLayerState(Switch(t, t \in then_on, t \in locked_by))
        \/ UNCHANGED <<layer_state, layer_locks>>
    BY <1>1 DEF Apply
  <2>2. QED
    BY <1>1, <2>1 DEF Apply, SetLayerState, Switch, WithBit
<1>2. CASE Scan \/ EndPass \/ Leave
  BY <1>2 DEF Scan, EndPass, Leave
<1>3. QED
  BY <1>1, <1>2 DEF Work

\* A call switches off the layer that it names, unless the layer is locked and the call is
\* not locking; it switches on no other layer than the one it names.
LEMMA CallSwitches ==
    ASSUME TypeOK, NextCall, NEW l \in layer_state', l # Default
    PROVE  /\ l \in layer_state \/ (calls[1].on /\ calls[1].layer = l)
           /\ PendingOff(l) => \/ PendingOff(l)'
                               \/ calls[1].layer = l /\ ~calls[1].on /\ ~calls[1].locking
                                    /\ l \in layer_locks'
           /\ l \notin layer_locks' =>
                \/ l \in layer_state \ layer_locks
                \/ calls[1].layer = l /\ calls[1].on /\ ~calls[1].locking
<1> DEFINE c == calls[1]
<1>1. SetLayerState(c) /\ c \in Call
  BY CallsShift DEF NextCall
<1> HIDE DEF c
<1>2. l \in layer_state \/ (c.on /\ c.layer = l)
  BY <1>1 DEF SetLayerState, WithBit
<1>3. ASSUME PendingOff(l), ~PendingOff(l)'
      PROVE  c.layer = l /\ ~c.on /\ ~c.locking /\ l \in layer_locks'
  <2>1. PICK i \in DOMAIN calls : ~calls[i].on /\ calls[i].layer = l
    BY <1>3 DEF PendingOff
  <2>2. i = 1
    <3>1. SUFFICES ASSUME i # 1
                   PROVE  FALSE
      OBVIOUS
    <3>2. i - 1 \in DOMAIN calls' /\ calls'[i - 1] = calls[i]
      BY <2>1, <3>1, CallsShift
    <3>3. QED
      BY <1>3, <2>1, <3>2 DEF PendingOff
  <2>3. ~c.on /\ c.layer = l
    BY <2>1, <2>2 DEF c
  <2>4. l \in Layers
    <3>1. layer_state' \subseteq Layers
      BY <1>1, SetLayerStateType
    <3>2. QED
      BY <3>1
  <2>5. QED
    BY <1>1, <2>3, <2>4 DEF SetLayerState, Refused, WithBit
<1>4. l \notin layer_locks' => \/ l \in layer_state \ layer_locks
                               \/ c.layer = l /\ c.on /\ ~c.locking
  BY <1>1 DEF SetLayerState, WithBit, Refused, Call
<1>5. QED
  BY <1>2, <1>3, <1>4 DEF c

(***************************************************************************)
(* A locking `to' switches every layer off in turn, and only then its own  *)
(* one on.                                                                 *)
(***************************************************************************)
ToInv ==
    req.op = "to" /\ req.locking =>
        /\ \A i \in DOMAIN calls : /\ calls[i].locking
                                   /\ calls[i].on => calls[i].layer = req.layer
        /\ \A l \in layer_state \ ThenLayers :
             l \in {Default, req.layer} \/ PendingOff(l)

\* A locking `to' leaves no layer on but its own, the default layer and then-layers
\* (zmk_keymap_layer_to), although conditional layers come and go during its loop.
THEOREM ToLeavesOne == Spec => []ToLeavesOneLayer
<1>1. Init => ToInv
  BY DEF Init, ToInv
<1>2. TypeOK /\ ToInv /\ [Next]_vars => ToInv'
  <2> SUFFICES ASSUME TypeOK, ToInv, [Next]_vars, (req.op = "to" /\ req.locking)'
               PROVE  /\ \A i \in DOMAIN calls' : /\ calls'[i].locking
                                                  /\ calls'[i].on => calls'[i].layer = req'.layer
                      /\ \A l \in layer_state' \ ThenLayers :
                           l \in {Default, req'.layer} \/ PendingOff(l)'
    BY DEF ToInv
  <2>1. ASSUME NEW r \in Request, Serve(r)
        PROVE  /\ \A i \in DOMAIN calls' : /\ calls'[i].locking
                                           /\ calls'[i].on => calls'[i].layer = req'.layer
               /\ \A l \in layer_state' \ ThenLayers :
                    l \in {Default, req'.layer} \/ PendingOff(l)'
    <3>1. calls' = ToCalls(r) /\ req' = r /\ r.locking /\ layer_state' \subseteq Layers
      BY <2>1 DEF Serve, CallsOf, TypeOK
    <3>2. /\ N \in Nat /\ DOMAIN calls' = 1 .. N + 1
          /\ \A i \in 1 .. N + 1 : calls'[i] = IF i <= N THEN Switch(N - i, FALSE, r.locking)
                                                       ELSE Switch(r.layer, TRUE, r.locking)
      BY <3>1, NAssumption DEF ToCalls
    <3>3. \A i \in DOMAIN calls' : /\ calls'[i].locking
                                   /\ calls'[i].on => calls'[i].layer = req'.layer
      BY <3>1, <3>2 DEF Switch
    <3>4. ASSUME NEW l \in layer_state'
          PROVE  PendingOff(l)'
      <4>1. PICK k \in 1 .. N : N - k = l
        <5>1. l \in 0 .. N - 1
          BY <3>1 DEF Layers
        <5>2. N - l \in 1 .. N /\ N - (N - l) = l
          BY <3>2, <5>1
        <5>3. QED
          BY <5>2
      <4>2. k \in DOMAIN calls' /\ calls'[k] = Switch(l, FALSE, r.locking)
        <5>1. k \in 1 .. N + 1 /\ k <= N
          BY <3>2
        <5>2. calls'[k] = Switch(N - k, FALSE, r.locking)
          BY <3>2, <5>1
        <5>3. QED
          BY <3>2, <4>1, <5>1, <5>2
      <4>3. QED
        BY <4>2 DEF PendingOff, Switch
    <3>5. QED
      BY <3>3, <3>4
  <2>2. CASE NextCall
    <3>1. /\ req' = req
          /\ \A i \in DOMAIN calls : /\ calls[i].locking
                                     /\ calls[i].on => calls[i].layer = req.layer
          /\ \A l \in layer_state \ ThenLayers :
               l \in {Default, req.layer} \/ PendingOff(l)
      BY <2>2 DEF NextCall, ToInv
    <3>2. \A i \in DOMAIN calls' : /\ calls'[i].locking
                                   /\ calls'[i].on => calls'[i].layer = req'.layer
      BY <2>2, <3>1, CallsShift
    <3>3. ASSUME NEW l \in layer_state' \ ThenLayers, l # Default, l # req.layer
          PROVE  PendingOff(l)'
      <4>1. calls[1].locking /\ (calls[1].on => calls[1].layer = req.layer)
        BY <2>2, <3>1, CallsShift
      <4>2. l \in layer_state
        BY <2>2, <3>3, <4>1, CallSwitches
      <4>3. PendingOff(l)
        BY <3>1, <3>3, <4>2
      <4>4. QED
        BY <2>2, <3>3, <4>1, <4>3, CallSwitches
    <3>4. QED
      BY <3>1, <3>2, <3>3
  <2>3. CASE Work /\ ~NextCall
    <3>1. calls' = calls /\ req' = req
      BY <2>3, ConditionalSwitches DEF Work, Scan, Apply, EndPass, Leave
    <3>2. \A l : PendingOff(l)' <=> PendingOff(l)
      BY <3>1 DEF PendingOff
    <3>3. \A l \in layer_state' \ ThenLayers : l \in layer_state
      BY <2>3, ConditionalSwitches
    <3>4. QED
      BY <3>1, <3>2, <3>3 DEF ToInv
  <2>4. CASE UNCHANGED vars
    <3>1. calls' = calls /\ req' = req /\ layer_state' = layer_state
      BY <2>4 DEF vars
    <3>2. \A l : PendingOff(l)' <=> PendingOff(l)
      BY <3>1 DEF PendingOff
    <3>3. QED
      BY <3>1, <3>2 DEF ToInv
  <2>5. QED
    BY <2>1, <2>2, <2>3, <2>4 DEF Next
<1>3. ToInv => ToLeavesOneLayer
  BY DEF ToInv, ToLeavesOneLayer, Quiet, PendingOff
<1>4. QED
  BY <1>1, <1>2, <1>3, TypeCorrect, PTL DEF Spec

(***************************************************************************)
(* The invariants together, for every set of configurations.               *)
(***************************************************************************)
THEOREM LayersAreSettled == Spec => []LayersSettled
<1>1. TypeOK /\ LocksActive /\ SettledConditional /\ LockRecordCurrent /\ ToLeavesOneLayer
        => LayersSettled
  BY DEF LayersSettled
<1>2. QED
  BY <1>1, TypeCorrect, LocksAreActive, ConditionalSettles, LockRecordIsCurrent, ToLeavesOne, PTL

-----------------------------------------------------------------------------
(* The keymap, which makes those calls.                                      *)

\* A nonempty set of natural numbers below n has a greatest one.
LEMMA Greatest ==
    ASSUME NEW n \in Nat, NEW T \in SUBSET (0 .. n - 1), T # {}
    PROVE  \E x \in T : \A y \in T : y <= x
<1> DEFINE R == {ss \in Nat \X Nat : ss[1] < ss[2]}
           U == {n - x : x \in T}
<1>1. IsWellFoundedOn(R, Nat)
  BY NatLessThanWellFounded DEF OpToRel
<1>2. \A x, y \in Nat : y < x => <<y, x>> \in R
  OBVIOUS
<1>3. U \subseteq Nat /\ U # {}
  <2>1. \A x \in T : n - x \in Nat
    OBVIOUS
  <2>2. QED
    BY <2>1
<1> HIDE DEF R
<1>4. PICK u \in U : \A y \in U : ~(<<y, u>> \in R)
  BY <1>1, <1>3, WFMin
<1>5. PICK x \in T : u = n - x
  OBVIOUS
<1>6. ASSUME NEW y \in T
      PROVE  y <= x
  <2>1. n - y \in U /\ n - y \in Nat /\ n - x \in Nat
    OBVIOUS
  <2>2. ~(n - y < n - x)
    BY <1>2, <1>4, <1>5, <2>1
  <2>3. QED
    BY <2>2
<1>7. QED
  BY <1>6
-----------------------------------------------------------------------------
(***************************************************************************)
(* Types, and the layers below.                                            *)
(***************************************************************************)
Resolution == [layer : Layers \cup {INVAL}, binding : Binding]

\* What KTypeOK says of the keymap's own variables that do not copy the layer state.
KeysTyped ==
    /\ zmk_keymap \in [Layers -> [Positions -> Binding]]
    /\ orders \in [Layers -> Layers \cup {INVAL}]
    /\ down \subseteq Positions
    /\ held \in [Positions -> Resolution]
    /\ edits \in 0 .. MaxEdits /\ surprised \in BOOLEAN

LEMMA UnhandledType == Unhandled \in Resolution /\ Unhandled.binding.behavior = "none"
BY NAssumption DEF Unhandled, Resolution, Binding, INVAL

\* An event is resolved to a layer that is in the order and its binding, or to none.
LEMMA ResolveType ==
    ASSUME KeysTyped, NEW p \in Positions, NEW st
    PROVE  \/ Resolve(p, st) = Unhandled
           \/ \E l \in Layers : Resolve(p, st) = [layer |-> l, binding |-> zmk_keymap[l][p]]
<1>1. CASE Answering(p, st) = {}
  BY <1>1 DEF Resolve
<1>2. CASE Answering(p, st) # {}
  <2> DEFINE top == CHOOSE i \in Answering(p, st) : \A j \in Answering(p, st) : j <= i
  <2>1. Answering(p, st) \in SUBSET (0 .. N - 1) /\ N \in Nat
    BY NAssumption DEF Answering, Layers
  <2>2. top \in Answering(p, st)
    BY <1>2, <2>1, Greatest
  <2>3. Resolve(p, st) = [layer |-> orders[top], binding |-> zmk_keymap[orders[top]][p]]
    BY <1>2 DEF Resolve
  <2> HIDE DEF top
  <2>4. orders[top] \in Layers
    BY <2>2 DEF Answering, KeysTyped
  <2>5. QED
    BY <2>3, <2>4
<1>3. QED
  BY <1>1, <1>2

LEMMA ResolveTyped ==
    ASSUME KeysTyped, NEW p \in Positions, NEW st
    PROVE  Resolve(p, st) \in Resolution
<1>1. CASE Resolve(p, st) = Unhandled
  BY <1>1, UnhandledType
<1>2. ASSUME NEW l \in Layers, Resolve(p, st) = [layer |-> l, binding |-> zmk_keymap[l][p]]
      PROVE  Resolve(p, st) \in Resolution
  <2>1. zmk_keymap[l][p] \in Binding
    BY DEF KeysTyped
  <2>2. QED
    BY <1>2, <2>1 DEF Resolution
<1>3. QED
  BY <1>1, <1>2, ResolveType

\* What an edit by Studio may change.
LEMMA StudioEdits ==
    ASSUME KeysTyped, Studio
    PROVE  /\ zmk_keymap' \in [Layers -> [Positions -> Binding]]
           /\ orders' \in [Layers -> Layers \cup {INVAL}]
           /\ UNCHANGED <<vars, active_layers, down, held>>
           /\ edits < MaxEdits /\ edits' = edits + 1
           /\ surprised' = (surprised \/ down # {})
           /\ \A l \in Layers, p \in Positions :
                zmk_keymap'[l][p] # zmk_keymap[l][p] => \E m \in Layers : zmk_keymap'[l][p] = Stock[m][p]
<1>0. N \in Nat /\ N > 0 /\ INVAL = N
  BY NAssumption DEF INVAL
<1>a. \A kind : Edit(kind) => /\ UNCHANGED <<vars, active_layers, down, held>>
                              /\ edits < MaxEdits /\ edits' = edits + 1
                              /\ surprised' = (surprised \/ down # {})
  BY DEF Edit
<1>1. ASSUME NEW lp \in Rebound, NEW b \in {Stock[m][lp[2]] : m \in Layers},
             SetLayerBinding(lp[1], lp[2], b)
      PROVE  /\ zmk_keymap' \in [Layers -> [Positions -> Binding]]
             /\ orders' = orders /\ \E kind : Edit(kind)
             /\ \A l \in Layers, p \in Positions :
                  zmk_keymap'[l][p] # zmk_keymap[l][p] => \E m \in Layers : zmk_keymap'[l][p] = Stock[m][p]
  <2>1. lp[1] \in Layers /\ lp[2] \in Positions
    BY KeymapAssumption
  <2>2. b \in Binding
    BY <2>1, KeymapAssumption
  <2>3. zmk_keymap' = [zmk_keymap EXCEPT ![lp[1]][lp[2]] = b]
    BY <1>1 DEF SetLayerBinding
  <2>4. \A l \in Layers, p \in Positions :
          zmk_keymap'[l][p] = IF l = lp[1] /\ p = lp[2] THEN b ELSE zmk_keymap[l][p]
    BY <2>1, <2>3 DEF KeysTyped
  <2>5. zmk_keymap' \in [Layers -> [Positions -> Binding]]
    BY <2>1, <2>2, <2>3 DEF KeysTyped
  <2>6. QED
    BY <1>1, <2>1, <2>4, <2>5 DEF SetLayerBinding
<1>2. ASSUME NEW s \in Layers, NEW d \in Layers, MoveLayer(s, d)
      PROVE  orders' \in [Layers -> Layers \cup {INVAL}]
  <2>1. \A i \in Layers : /\ s <= i /\ i < d => i + 1 \in Layers
                          /\ d < i /\ i <= s => i - 1 \in Layers
    BY <1>0 DEF Layers
  <2>2. QED
    BY <1>2, <2>1 DEF MoveLayer, KeysTyped
<1>3. ASSUME AddLayer
      PROVE  orders' \in [Layers -> Layers \cup {INVAL}]
  BY <1>3 DEF AddLayer, KeysTyped, IndexOf
<1>4. ASSUME NEW s \in Layers, RemoveLayer(s)
      PROVE  orders' \in [Layers -> Layers \cup {INVAL}]
  <2>1. \A i \in Layers : i # N - 1 => i + 1 \in Layers
    BY <1>0 DEF Layers
  <2>2. QED
    BY <1>4, <2>1 DEF RemoveLayer, KeysTyped
<1>5. ASSUME NEW id \in Layers, NEW at \in Layers, RestoreLayer(id, at)
      PROVE  orders' \in [Layers -> Layers \cup {INVAL}]
  <2>1. \A i \in Layers : ~(i < at) /\ i # at => i - 1 \in Layers
    BY <1>0 DEF Layers
  <2>2. QED
    BY <1>5, <2>1 DEF RestoreLayer, KeysTyped
<1>6. \/ \E kind : Edit(kind) /\ zmk_keymap' = zmk_keymap
      \/ \E lp \in Rebound : \E b \in {Stock[m][lp[2]] : m \in Layers} :
           SetLayerBinding(lp[1], lp[2], b)
  BY DEF Studio, MoveLayer, AddLayer, RemoveLayer, RestoreLayer
<1>7. orders' \in [Layers -> Layers \cup {INVAL}]
  BY <1>1, <1>2, <1>3, <1>4, <1>5 DEF Studio, KeysTyped
<1>8. zmk_keymap' \in [Layers -> [Positions -> Binding]] /\ \E kind : Edit(kind)
  BY <1>1, <1>6 DEF KeysTyped
<1>9. \A l \in Layers, p \in Positions :
        zmk_keymap'[l][p] # zmk_keymap[l][p] => \E m \in Layers : zmk_keymap'[l][p] = Stock[m][p]
  BY <1>1, <1>6
<1>10. /\ UNCHANGED <<vars, active_layers, down, held>>
       /\ edits < MaxEdits /\ edits' = edits + 1
       /\ surprised' = (surprised \/ down # {})
  BY <1>a, <1>8
<1>11. QED
  BY <1>7, <1>8, <1>9, <1>10, Zenon

LEMMA KeysTypedStep == KeysTyped /\ [KNext]_kvars => KeysTyped'
<1> SUFFICES ASSUME KeysTyped, [KNext]_kvars
             PROVE  KeysTyped'
  OBVIOUS
<1>1. ASSUME NEW p \in Positions, Press(p)
      PROVE  KeysTyped'
  BY <1>1, ResolveTyped DEF Press, KeysTyped
<1>2. ASSUME NEW p \in Positions, Release(p)
      PROVE  KeysTyped'
  BY <1>2, UnhandledType DEF Release, KeysTyped
<1>3. CASE Studio
  <2>1. /\ zmk_keymap' \in [Layers -> [Positions -> Binding]]
        /\ orders' \in [Layers -> Layers \cup {INVAL}]
        /\ UNCHANGED <<down, held>>
        /\ edits < MaxEdits /\ edits' = edits + 1
        /\ surprised' = (surprised \/ down # {})
    BY <1>3, StudioEdits
  <2>2. edits' \in 0 .. MaxEdits
    BY <2>1, KeymapAssumption DEF KeysTyped
  <2>3. surprised' \in BOOLEAN
    BY <2>1
  <2>4. QED
    BY <2>1, <2>2, <2>3 DEF KeysTyped
<1>4. CASE UNCHANGED keyVars
  BY <1>4 DEF keyVars, KeysTyped
<1>5. QED
  BY <1>1, <1>2, <1>3, <1>4 DEF KNext, kvars

\* A press or a release asks for one layer operation, or for none.
LEMMA InvokeServes ==
    ASSUME NEW b \in Binding, NEW op \in {PressOp(b), ReleaseOp(b)}, Invoke(b, op)
    PROVE  LET r == [op |-> op, layer |-> b.layer, locking |-> b.locking]
           IN  r \in Request /\ Serve(r)
<1>1. op \in {"none", "activate", "deactivate", "toggle", "to"}
  BY DEF PressOp, ReleaseOp
<1>2. b.layer \in 0 .. N /\ b.locking \in BOOLEAN
  BY DEF Binding
<1>3. QED
  BY <1>1, <1>2 DEF Request, Invoke

LEMMA KeymapStep == KeysTyped /\ [KNext]_kvars => [Next]_vars
<1> SUFFICES ASSUME KeysTyped, [KNext]_kvars
             PROVE  [Next]_vars
  OBVIOUS
<1>1. ASSUME NEW p \in Positions, Press(p) \/ Release(p)
      PROVE  Next
  <2>1. \A st : Resolve(p, st).binding \in Binding
    BY ResolveTyped DEF Resolution
  <2>2. PICK st : LET b == Resolve(p, st).binding
                  IN  Invoke(b, PressOp(b)) \/ Invoke(b, ReleaseOp(b))
    BY <1>1 DEF Press, Release
  <2>3. PICK b \in Binding : Invoke(b, PressOp(b)) \/ Invoke(b, ReleaseOp(b))
    BY <2>1, <2>2
  <2>4. \E r \in Request : Serve(r)
    BY <2>3, InvokeServes
  <2>5. QED
    BY <2>4 DEF Next
<1>2. CASE Work
  BY <1>2 DEF Next
<1>3. CASE Studio
  BY <1>3, StudioEdits
<1>4. CASE UNCHANGED kvars
  BY <1>4 DEF kvars
<1>5. QED
  BY <1>1, <1>2, <1>3, <1>4 DEF KNext

LEMMA KeymapInit == KInit => Init /\ KeysTyped
<1> SUFFICES ASSUME KInit
             PROVE  Init /\ KeysTyped
  OBVIOUS
<1>1. orders \in [Layers -> Layers \cup {INVAL}]
  BY DEF KInit
<1>2. edits \in 0 .. MaxEdits /\ surprised \in BOOLEAN
  <2>1. edits = 0 /\ surprised = FALSE
    BY DEF KInit
  <2>2. edits \in 0 .. MaxEdits
    BY <2>1, KeymapAssumption
  <2>3. QED
    BY <2>1, <2>2
<1>3. held \in [Positions -> Resolution]
  BY UnhandledType DEF KInit
<1>4. QED
  BY <1>1, <1>2, <1>3, KeymapAssumption DEF KInit, KeysTyped

\* The keymap uses the layers only as Layers describes: every press, release and edit is a
\* layer operation, a step of one, or nothing to the layers.
THEOREM KeymapImplementsLayers == KSpec => Spec
BY KeymapInit, KeysTypedStep, KeymapStep, PTL DEF KSpec, Spec

\* So what is proved of Layers is true under every keymap.
THEOREM LayersSettleUnderKeys == KSpec => []LayersSettled
BY KeymapImplementsLayers, LayersAreSettled, PTL

\* The layer states that presses have recorded.
RecordsTyped == active_layers \in [Positions -> SUBSET Layers]

\* The keymap's variables keep their types.
THEOREM KeymapTypeCorrect == KSpec => []KTypeOK
<1>1. KInit => RecordsTyped
  BY DEF KInit, RecordsTyped
<1>2. KeysTyped /\ TypeOK /\ RecordsTyped /\ [KNext]_kvars => RecordsTyped'
  <2> SUFFICES ASSUME KeysTyped, TypeOK, RecordsTyped, [KNext]_kvars
               PROVE  RecordsTyped'
    OBVIOUS
  <2>1. CASE Studio
    BY <2>1, StudioEdits DEF RecordsTyped
  <2>2. CASE ~Studio
    BY <2>2 DEF KNext, Press, Release, kvars, keyVars, TypeOK, RecordsTyped
  <2>3. QED
    BY <2>1, <2>2
<1>3. TypeOK /\ KeysTyped /\ RecordsTyped => KTypeOK
  BY DEF KTypeOK, KeysTyped, Resolution, RecordsTyped
<1>4. KSpec => []TypeOK
  BY KeymapImplementsLayers, TypeCorrect, PTL
<1>5. QED
  BY KeymapInit, KeysTypedStep, <1>1, <1>2, <1>3, <1>4, PTL DEF KSpec
-----------------------------------------------------------------------------
(***************************************************************************)
(* The order of the layers.                                                *)
(***************************************************************************)
\* Studio's requests as its client makes them: see EditKinds.
ClientEdits == Edits \cap {"move", "restore"} = {}

LEMMA OrderStep ==
    ASSUME ClientEdits, KeysTyped, OrderWellFormed, Studio
    PROVE  OrderWellFormed'
<1>0. N \in Nat /\ N > 0 /\ INVAL = N /\ INVAL \notin Layers /\ Layers = 0 .. N - 1
  BY NAssumption DEF INVAL, Layers
<1>1. /\ orders \in [Layers -> Layers \cup {INVAL}]
      /\ \A i, j \in Layers : i < j /\ orders[j] # INVAL => orders[i] # INVAL
      /\ \A i, j \in Layers : i # j /\ orders[i] # INVAL => orders[i] # orders[j]
  <2>1. \A i, j \in Layers : i # j => i < j \/ j < i
    BY <1>0
  <2>2. QED
    BY <2>1 DEF KeysTyped, OrderWellFormed
<1>2. ASSUME NEW s \in Layers, NEW d \in Layers \ {s}, MoveLayer(s, d)
      PROVE  OrderWellFormed'
  <2> DEFINE src(i) == CASE i = d -> s
                         [] s <= i /\ i < d -> i + 1
                         [] d < i /\ i <= s -> i - 1
                         [] OTHER -> i
  <2>1. orders[s] # INVAL /\ orders[d] # INVAL
    BY <1>2 DEF MoveLayer, Edit, ClientEdits
  <2>2. \A i \in Layers : src(i) \in Layers /\ orders'[i] = orders[src(i)]
    BY <1>0, <1>2 DEF MoveLayer
  <2>3. \A i, j \in Layers : i < j => src(i) # src(j)
    BY <1>0
  <2>4. \A i \in Layers : \/ orders[src(i)] # INVAL
                          \/ src(i) = i /\ s < i /\ d < i
    <3>1. \A i \in Layers : src(i) <= s \/ src(i) <= d \/ (src(i) = i /\ s < i /\ d < i)
      BY <1>0
    <3> HIDE DEF src
    <3>2. \A i \in Layers : i <= s \/ i <= d => orders[i] # INVAL
      <4>1. \A i, j \in Layers : i <= j => i = j \/ i < j
        BY <1>0
      <4>2. QED
        BY <1>1, <2>1, <4>1
    <3>3. QED
      BY <2>2, <3>1, <3>2
  <2>5. ASSUME NEW i \in Layers, NEW j \in Layers, i < j
        PROVE  /\ orders'[j] # INVAL => orders'[i] # INVAL
               /\ orders'[i] # INVAL => orders'[i] # orders'[j]
    <3>1. src(i) \in Layers /\ src(j) \in Layers /\ src(i) # src(j)
      BY <2>2, <2>3, <2>5
    <3>2. orders'[i] # INVAL => orders'[i] # orders'[j]
      BY <1>1, <2>2, <3>1
    <3>3. orders[src(i)] = INVAL => src(i) = i /\ src(j) = j
      <4>1. SUFFICES ASSUME s < i, d < i
                     PROVE  src(j) = j
        BY <2>4
      <4>2. QED
        BY <1>0, <2>5, <4>1
    <3> HIDE DEF src
    <3>4. QED
      BY <1>1, <2>2, <2>5, <3>2, <3>3
  <2>6. QED
    BY <2>5 DEF OrderWellFormed
<1>3. ASSUME AddLayer
      PROVE  OrderWellFormed'
  <2>1. PICK i \in IndexOf(orders, INVAL), id \in Layers :
          /\ \A j \in 0 .. i - 1 : orders[j] # id
          /\ orders' = [orders EXCEPT ![i] = id]
    BY <1>3 DEF AddLayer
  <2>2. /\ i \in Layers /\ orders[i] = INVAL
        /\ \A j \in Layers : j < i => orders[j] # INVAL
    BY <1>0, <2>1 DEF IndexOf
  <2>3. \A j \in Layers : i < j => orders[j] = INVAL
    BY <1>1, <2>2
  <2>4. \A j \in Layers : orders[j] # id
    BY <1>0, <2>1, <2>2, <2>3
  <2>5. \A j \in Layers : orders'[j] = IF j = i THEN id ELSE orders[j]
    BY <1>1, <2>1, <2>2
  <2>6. ASSUME NEW k \in Layers, NEW j \in Layers, k < j
        PROVE  /\ orders'[j] # INVAL => orders'[k] # INVAL
               /\ orders'[k] # INVAL => orders'[k] # orders'[j]
    <3>1. orders'[j] # INVAL => orders'[k] # INVAL
      BY <1>0, <1>1, <2>2, <2>5, <2>6
    <3>2. orders'[k] # INVAL => orders'[k] # orders'[j]
      BY <1>0, <1>1, <2>2, <2>4, <2>5, <2>6
    <3>3. QED
      BY <3>1, <3>2
  <2>7. QED
    BY <2>6 DEF OrderWellFormed
<1>4. ASSUME NEW s \in Layers, RemoveLayer(s)
      PROVE  OrderWellFormed'
  <2>1. \A i \in Layers : /\ i < s => orders'[i] = orders[i]
                          /\ ~(i < s) /\ i # N - 1 => orders'[i] = orders[i + 1]
                          /\ i = N - 1 => orders'[i] = INVAL
    BY <1>0, <1>4 DEF RemoveLayer
  <2>2. ASSUME NEW i \in Layers, NEW j \in Layers, i < j
        PROVE  /\ orders'[j] # INVAL => orders'[i] # INVAL
               /\ orders'[i] # INVAL => orders'[i] # orders'[j]
    <3>1. CASE i < s /\ j < s
      BY <1>0, <1>1, <2>1, <2>2, <3>1
    <3>2. CASE i < s /\ ~(j < s) /\ j # N - 1
      <4>1. j + 1 \in Layers /\ i < j + 1 /\ orders'[i] = orders[i] /\ orders'[j] = orders[j + 1]
        BY <1>0, <2>1, <2>2, <3>2
      <4>2. QED
        BY <1>0, <1>1, <2>2, <4>1
    <3>3. CASE ~(i < s) /\ j # N - 1
      <4>1. /\ i + 1 \in Layers /\ j + 1 \in Layers /\ i + 1 < j + 1
            /\ orders'[i] = orders[i + 1] /\ orders'[j] = orders[j + 1]
        BY <1>0, <2>1, <2>2, <3>3
      <4>2. QED
        BY <1>0, <1>1, <2>2, <4>1
    <3>4. CASE ~(j < s) /\ j = N - 1
      BY <2>1, <3>4
    <3>5. j < s => i < s
      BY <1>0, <2>2
    <3>6. QED
      BY <3>1, <3>2, <3>3, <3>4, <3>5
  <2>3. QED
    BY <2>2 DEF OrderWellFormed
<1>5. ASSUME NEW id \in Layers, NEW at \in Layers, RestoreLayer(id, at)
      PROVE  OrderWellFormed'
  <2>1. /\ \A i \in Layers : orders[i] # id
        /\ \A i \in Layers : i < at => orders[i] # INVAL
        /\ id # INVAL
    BY <1>0, <1>5 DEF RestoreLayer, Edit, ClientEdits
  <2>2. \A i \in Layers : /\ i < at => orders'[i] = orders[i]
                          /\ i = at => orders'[i] = id
                          /\ at < i => orders'[i] = orders[i - 1]
    BY <1>0, <1>5 DEF RestoreLayer
  <2>3. ASSUME NEW i \in Layers, NEW j \in Layers, i < j
        PROVE  /\ orders'[j] # INVAL => orders'[i] # INVAL
               /\ orders'[i] # INVAL => orders'[i] # orders'[j]
    <3>1. CASE i < at
      <4>1. orders'[i] = orders[i] /\ orders[i] # INVAL
        BY <2>1, <2>2, <3>1
      <4>2. CASE j < at
        BY <1>0, <1>1, <2>2, <2>3, <4>1, <4>2
      <4>3. CASE j = at
        BY <2>1, <2>2, <4>1, <4>3
      <4>4. CASE at < j
        <5>1. j - 1 \in Layers /\ i # j - 1 /\ orders'[j] = orders[j - 1]
          BY <1>0, <2>2, <3>1, <4>4
        <5>2. QED
          BY <1>1, <4>1, <5>1
      <4>5. j < at \/ j = at \/ at < j
        BY <1>0
      <4>6. QED
        BY <4>2, <4>3, <4>4, <4>5
    <3>2. CASE i = at
      <4>1. j - 1 \in Layers /\ orders'[j] = orders[j - 1] /\ orders'[i] = id
        BY <1>0, <2>2, <2>3, <3>2
      <4>2. QED
        BY <2>1, <4>1
    <3>3. CASE at < i
      <4>1. /\ i - 1 \in Layers /\ j - 1 \in Layers /\ i - 1 < j - 1
            /\ orders'[i] = orders[i - 1] /\ orders'[j] = orders[j - 1]
        BY <1>0, <2>2, <2>3, <3>3
      <4>2. QED
        BY <1>0, <1>1, <4>1
    <3>4. i < at \/ i = at \/ at < i
      BY <1>0
    <3>5. QED
      BY <3>1, <3>2, <3>3, <3>4
  <2>4. QED
    BY <2>3 DEF OrderWellFormed
<1>6. CASE orders' = orders
  BY <1>6 DEF OrderWellFormed
<1>7. QED
  BY <1>2, <1>3, <1>4, <1>5, <1>6 DEF Studio, SetLayerBinding

-----------------------------------------------------------------------------
(***************************************************************************)
(* No stuck layer.                                                         *)
(***************************************************************************)
\* toggle, toggle-on and to behaviors are locking, as those of layers.dtsi are
Locks(b) == b.behavior \in {"tog", "tog_on", "to"} => b.locking
LockingStock == \A l \in Layers, p \in Positions : Locks(Stock[l][p])
LockingKeymap == \A l \in Layers, p \in Positions : Locks(zmk_keymap[l][p])

\* A call that switches a layer on locks it, or a key that is down holds it.
CallsHeld == \A i \in DOMAIN calls :
                calls[i].on => calls[i].locking \/ HeldBy(calls[i].layer)

\* The release of p will go to the binding that its press went to.
Answered(p) == held[p] = Resolve(p, active_layers[p])

\* A layer that is on, and neither locked, conditional nor the default, is held by a key, or
\* a call is under way that switches it off.
LayersHeld ==
    ~surprised =>
        /\ \A p \in down : Answered(p)
        /\ \A l \in layer_state \ (layer_locks \cup ThenLayers \cup {Default}) :
             HeldBy(l) \/ PendingOff(l)

KIInv == LockingKeymap /\ CallsHeld /\ LayersHeld

LEMMA ResolveFrame ==
    ASSUME zmk_keymap' = zmk_keymap, orders' = orders, NEW p, NEW st
    PROVE  Resolve(p, st)' = Resolve(p, st)
BY DEF Resolve, Answering, IndexOf

\* The bindings that keys have and get.
LEMMA LocksKept ==
    ASSUME LockingStock, KeysTyped, LockingKeymap, [KNext]_kvars
    PROVE  LockingKeymap'
<1>1. CASE Studio
  <2>1. \A l \in Layers, p \in Positions :
          zmk_keymap'[l][p] # zmk_keymap[l][p] => \E m \in Layers : zmk_keymap'[l][p] = Stock[m][p]
    BY <1>1, StudioEdits
  <2>2. SUFFICES ASSUME NEW l \in Layers, NEW p \in Positions
                 PROVE  Locks(zmk_keymap'[l][p])
    BY DEF LockingKeymap, Locks
  <2>3. CASE zmk_keymap'[l][p] = zmk_keymap[l][p]
    <3>1. Locks(zmk_keymap[l][p])
      BY DEF LockingKeymap
    <3>2. QED
      BY <2>3, <3>1
  <2>4. ASSUME NEW m \in Layers, zmk_keymap'[l][p] = Stock[m][p]
        PROVE  Locks(zmk_keymap'[l][p])
    <3>1. Locks(Stock[m][p])
      BY DEF LockingStock
    <3>2. QED
      BY <2>4, <3>1
  <2>5. QED
    BY <2>1, <2>3, <2>4
<1>2. CASE ~Studio
  <2>1. zmk_keymap' = zmk_keymap
    BY <1>2 DEF KNext, Press, Release, kvars, keyVars
  <2>2. QED
    BY <2>1 DEF LockingKeymap, Locks
<1>3. QED
  BY <1>1, <1>2

\* What a press asks for: a layer that is switched on is locked, or held by the key.
LEMMA PressCalls ==
    ASSUME NEW b \in Binding, Locks(b), Invoke(b, PressOp(b))
    PROVE  /\ calls = <<>> /\ UNCHANGED <<layer_state, layer_locks>>
           /\ \A i \in DOMAIN calls' :
                calls'[i].on => \/ calls'[i].locking
                                \/ b.behavior = "mo" /\ calls'[i].layer = b.layer
<1> DEFINE r == [op |-> PressOp(b), layer |-> b.layer, locking |-> b.locking]
<1>1. calls = <<>> /\ UNCHANGED <<layer_state, layer_locks>> /\ calls' = CallsOf(r)
  BY DEF Invoke, Serve, Quiet
<1>2. CASE b.behavior = "mo" \/ b.behavior = "tog_on"
  <2>1. CallsOf(r) = <<Switch(b.layer, TRUE, b.locking)>>
    BY <1>2 DEF CallsOf, PressOp
  <2>2. QED
    BY <1>1, <1>2, <2>1 DEF Switch, Locks
<1>3. CASE b.behavior = "tog"
  <2> DEFINE off == ToggledOff(r)
  <2>1. CallsOf(r) = <<Switch(b.layer, ~off, b.locking)>>
    BY <1>3 DEF CallsOf, PressOp
  <2>2. b.locking
    BY <1>3 DEF Locks
  <2> HIDE DEF off
  <2>3. QED
    BY <1>1, <2>1, <2>2 DEF Switch
<1>4. CASE b.behavior = "to"
  <2>1. CallsOf(r) = ToCalls(r) /\ b.locking
    BY <1>4 DEF CallsOf, PressOp, Locks
  <2>2. \A i \in DOMAIN ToCalls(r) : ToCalls(r)[i].locking
    BY <2>1 DEF ToCalls, Switch
  <2>3. QED
    BY <1>1, <2>1, <2>2
<1>5. CASE b.behavior = "tog_off"
  <2>1. CallsOf(r) = <<Switch(b.layer, FALSE, b.locking)>>
    BY <1>5 DEF CallsOf, PressOp
  <2>2. QED
    BY <1>1, <2>1 DEF Switch
<1>6. CASE b.behavior \in {"trans", "none"}
  <2>1. CallsOf(r) = <<>>
    BY <1>6 DEF CallsOf, PressOp
  <2>2. QED
    BY <1>1, <2>1
<1>7. QED
  BY <1>2, <1>3, <1>4, <1>5, <1>6 DEF Binding

\* What a release asks for: a momentary key's layer is switched off.
LEMMA ReleaseCalls ==
    ASSUME NEW b \in Binding, Invoke(b, ReleaseOp(b))
    PROVE  /\ calls = <<>> /\ UNCHANGED <<layer_state, layer_locks>>
           /\ \A i \in DOMAIN calls' : ~calls'[i].on
           /\ b.behavior = "mo" => PendingOff(b.layer)'
<1> DEFINE r == [op |-> ReleaseOp(b), layer |-> b.layer, locking |-> b.locking]
<1>1. calls = <<>> /\ UNCHANGED <<layer_state, layer_locks>> /\ calls' = CallsOf(r)
  BY DEF Invoke, Serve, Quiet
<1>2. CASE b.behavior = "mo"
  <2>1. CallsOf(r) = <<Switch(b.layer, FALSE, b.locking)>>
    BY <1>2 DEF CallsOf, ReleaseOp
  <2>2. 1 \in DOMAIN calls' /\ calls'[1].layer = b.layer /\ ~calls'[1].on
    BY <1>1, <2>1 DEF Switch
  <2>3. \A i \in DOMAIN calls' : ~calls'[i].on
    BY <1>1, <2>1 DEF Switch
  <2>4. QED
    BY <1>1, <2>2, <2>3 DEF PendingOff
<1>3. CASE b.behavior # "mo"
  <2>1. CallsOf(r) = <<>>
    BY <1>3 DEF CallsOf, ReleaseOp
  <2>2. QED
    BY <1>1, <1>3, <2>1
<1>4. QED
  BY <1>2, <1>3

\* The layers to be accounted for.
Loose(l) == l \notin layer_locks \cup ThenLayers \cup {Default}

LEMMA PressHeld ==
    ASSUME KeysTyped, RecordsTyped, KIInv, NEW p \in Positions, Press(p)
    PROVE  CallsHeld' /\ LayersHeld'
<1>1. PICK b \in Binding : b = Resolve(p, layer_state).binding /\ Locks(b)
  <2>1. CASE Resolve(p, layer_state) = Unhandled
    BY <2>1, UnhandledType DEF Resolution, Locks
  <2>2. ASSUME NEW l \in Layers,
               Resolve(p, layer_state) = [layer |-> l, binding |-> zmk_keymap[l][p]]
        PROVE  \E b \in Binding : b = Resolve(p, layer_state).binding /\ Locks(b)
    <3>1. Locks(zmk_keymap[l][p]) /\ zmk_keymap[l][p] \in Binding
      BY DEF KIInv, LockingKeymap, KeysTyped
    <3>2. QED
      BY <2>2, <3>1
  <2>3. QED
    BY <2>1, <2>2, ResolveType
<1>2. /\ p \notin down /\ down' = down \cup {p} /\ surprised' = surprised
      /\ active_layers' = [active_layers EXCEPT ![p] = layer_state]
      /\ held' = [held EXCEPT ![p] = Resolve(p, layer_state)]
      /\ Invoke(b, PressOp(b)) /\ zmk_keymap' = zmk_keymap /\ orders' = orders
  BY <1>1 DEF Press
<1>3. /\ held \in [Positions -> Resolution] /\ down \subseteq Positions
      /\ active_layers \in [Positions -> SUBSET Layers]
  BY DEF KeysTyped, RecordsTyped
<1>4. /\ held'[p] = Resolve(p, layer_state) /\ p \in down'
      /\ \A q \in down : held'[q] = held[q] /\ q \in down'
  BY <1>2, <1>3
<1>5. /\ calls = <<>> /\ layer_state' = layer_state /\ layer_locks' = layer_locks
      /\ \A i \in DOMAIN calls' :
           calls'[i].on => \/ calls'[i].locking
                           \/ b.behavior = "mo" /\ calls'[i].layer = b.layer
  BY <1>1, <1>2, PressCalls
<1>6. \A l : HeldBy(l) => HeldBy(l)'
  BY <1>4 DEF HeldBy
<1>7. b.behavior = "mo" => HeldBy(b.layer)'
  BY <1>1, <1>4 DEF HeldBy
<1>8. CallsHeld'
  BY <1>5, <1>7 DEF CallsHeld
<1>9. ASSUME ~surprised, NEW q \in down'
      PROVE  Answered(q)'
  <2>1. PICK st : st = active_layers'[q]
    OBVIOUS
  <2>2. Resolve(q, st)' = Resolve(q, st)
    BY <1>2, ResolveFrame
  <2>3. held'[q] = Resolve(q, st)
    <3>1. CASE q = p
      BY <1>2, <1>3, <1>4, <2>1, <3>1
    <3>2. CASE q # p
      <4>1. q \in down /\ st = active_layers[q]
        BY <1>2, <1>3, <2>1, <3>2
      <4>2. QED
        BY <1>4, <1>9, <4>1 DEF KIInv, LayersHeld, Answered
    <3>3. QED
      BY <3>1, <3>2
  <2>4. QED
    BY <2>1, <2>2, <2>3 DEF Answered
<1>10. ASSUME ~surprised, NEW l \in layer_state', Loose(l)'
       PROVE  HeldBy(l)'
  <2>1. l \in layer_state /\ Loose(l)
    BY <1>5, <1>10 DEF Loose
  <2>2. HeldBy(l) \/ PendingOff(l)
    BY <1>10, <2>1 DEF KIInv, LayersHeld, Loose
  <2>3. ~PendingOff(l)
    BY <1>5 DEF PendingOff
  <2>4. QED
    BY <1>6, <2>2, <2>3
<1>11. QED
  BY <1>2, <1>8, <1>9, <1>10 DEF LayersHeld, Loose

LEMMA ReleaseHeld ==
    ASSUME KeysTyped, RecordsTyped, KIInv, NEW p \in Positions, Release(p)
    PROVE  CallsHeld' /\ LayersHeld'
<1>1. PICK b \in Binding : b = Resolve(p, active_layers[p]).binding
  BY ResolveTyped DEF Resolution
<1>2. /\ p \in down /\ down' = down \ {p} /\ surprised' = surprised
      /\ active_layers' = active_layers
      /\ held' = [held EXCEPT ![p] = Unhandled]
      /\ Invoke(b, ReleaseOp(b)) /\ zmk_keymap' = zmk_keymap /\ orders' = orders
  BY <1>1 DEF Release
<1>3. held \in [Positions -> Resolution] /\ down \subseteq Positions
  BY DEF KeysTyped
<1>4. \A q \in down \ {p} : held'[q] = held[q] /\ q \in down'
  BY <1>2, <1>3
<1>5. /\ calls = <<>> /\ layer_state' = layer_state /\ layer_locks' = layer_locks
      /\ \A i \in DOMAIN calls' : ~calls'[i].on
      /\ b.behavior = "mo" => PendingOff(b.layer)'
  BY <1>1, <1>2, ReleaseCalls
<1>6. CallsHeld'
  BY <1>5 DEF CallsHeld
<1>7. ASSUME ~surprised, NEW q \in down'
      PROVE  Answered(q)'
  <2>1. PICK st : st = active_layers'[q]
    OBVIOUS
  <2>2. Resolve(q, st)' = Resolve(q, st)
    BY <1>2, ResolveFrame
  <2>3. q \in down /\ q # p /\ st = active_layers[q]
    BY <1>2, <2>1
  <2>4. held'[q] = Resolve(q, st)
    BY <1>4, <1>7, <2>3 DEF KIInv, LayersHeld, Answered
  <2>5. QED
    BY <2>1, <2>2, <2>4 DEF Answered
<1>8. ASSUME ~surprised, NEW l \in layer_state', Loose(l)'
      PROVE  HeldBy(l)' \/ PendingOff(l)'
  <2>1. l \in layer_state /\ Loose(l)
    BY <1>5, <1>8 DEF Loose
  <2>2. HeldBy(l) \/ PendingOff(l)
    BY <1>8, <2>1 DEF KIInv, LayersHeld, Loose
  <2>3. ~PendingOff(l)
    BY <1>5 DEF PendingOff
  <2>4. PICK q \in down : held[q].binding.behavior = "mo" /\ held[q].binding.layer = l
    BY <2>2, <2>3 DEF HeldBy
  <2>5. CASE q # p
    BY <1>4, <2>4, <2>5 DEF HeldBy
  <2>6. CASE q = p
    <3>1. b = held[p].binding
      BY <1>1, <1>2, <1>8 DEF KIInv, LayersHeld, Answered
    <3>2. b.behavior = "mo" /\ b.layer = l
      BY <2>4, <2>6, <3>1
    <3>3. QED
      BY <1>5, <3>2
  <2>7. QED
    BY <2>5, <2>6
<1>9. QED
  BY <1>2, <1>6, <1>7, <1>8 DEF LayersHeld, Loose

LEMMA AnsweredFrame ==
    ASSUME UNCHANGED keyVars, NEW q
    PROVE  Answered(q)' <=> Answered(q)
<1>1. /\ held' = held /\ active_layers' = active_layers
      /\ zmk_keymap' = zmk_keymap /\ orders' = orders
  BY DEF keyVars
<1>2. PICK st : st = active_layers[q]
  OBVIOUS
<1>3. Resolve(q, st)' = Resolve(q, st) /\ st = active_layers'[q]
  BY <1>1, <1>2, ResolveFrame
<1>4. QED
  BY <1>1, <1>2, <1>3 DEF Answered

LEMMA WorkHeld ==
    ASSUME TypeOK, KIInv, Work, UNCHANGED keyVars
    PROVE  CallsHeld' /\ LayersHeld'
<1>1. /\ down' = down /\ held' = held /\ surprised' = surprised
      /\ active_layers' = active_layers /\ zmk_keymap' = zmk_keymap /\ orders' = orders
  BY DEF keyVars
<1>2. \A l : HeldBy(l)' <=> HeldBy(l)
  BY <1>1 DEF HeldBy
<1>3. \A q : Answered(q)' <=> Answered(q)
  BY AnsweredFrame
<1>4. CallsHeld /\ LayersHeld
  BY DEF KIInv
<1>5. CASE NextCall
  <2>1. CallsHeld'
    BY <1>2, <1>4, <1>5, CallsShift DEF CallsHeld
  <2>2. ASSUME ~surprised, NEW l \in layer_state', Loose(l)'
        PROVE  HeldBy(l)' \/ PendingOff(l)'
    <3>1. l # Default /\ l \notin layer_locks' /\ l \notin ThenLayers
      BY <2>2 DEF Loose
    <3>2. CASE calls[1].layer = l /\ calls[1].on /\ ~calls[1].locking
      BY <1>2, <1>4, <1>5, <3>2, CallsShift DEF CallsHeld
    <3>3. CASE l \in layer_state \ layer_locks
      <4>1. HeldBy(l) \/ PendingOff(l)
        BY <1>4, <2>2, <3>1, <3>3 DEF LayersHeld
      <4>2. PendingOff(l) => PendingOff(l)'
        BY <1>5, <2>2, <3>1, CallSwitches
      <4>3. QED
        BY <1>2, <4>1, <4>2
    <3>4. QED
      BY <1>5, <2>2, <3>1, <3>2, <3>3, CallSwitches
  <2>3. QED
    BY <1>1, <1>3, <1>4, <2>1, <2>2 DEF LayersHeld, Loose
<1>6. CASE ~NextCall
  <2>1. calls' = calls
    BY <1>6, ConditionalSwitches DEF Work, Scan, Apply, EndPass, Leave
  <2>2. (\A l : PendingOff(l)' <=> PendingOff(l)) /\ CallsHeld'
    BY <1>2, <1>4, <2>1 DEF PendingOff, CallsHeld
  <2>3. ASSUME ~surprised, NEW l \in layer_state', Loose(l)'
        PROVE  HeldBy(l)' \/ PendingOff(l)'
    <3>1. l \in layer_state /\ Loose(l)
      BY <1>6, <2>3, ConditionalSwitches DEF Loose
    <3>2. QED
      BY <1>2, <1>4, <2>2, <2>3, <3>1 DEF LayersHeld, Loose
  <2>4. QED
    BY <1>1, <1>3, <1>4, <2>2, <2>3 DEF LayersHeld, Loose
<1>7. QED
  BY <1>5, <1>6

LEMMA EditHeld ==
    ASSUME KeysTyped, KIInv, Studio
    PROVE  CallsHeld' /\ LayersHeld'
<1>1. /\ UNCHANGED <<vars, down, held>> /\ surprised' = (surprised \/ down # {})
  BY StudioEdits
<1>2. layer_state' = layer_state /\ layer_locks' = layer_locks /\ calls' = calls
  BY <1>1 DEF vars
<1>3. \A l : (HeldBy(l)' <=> HeldBy(l)) /\ (PendingOff(l)' <=> PendingOff(l))
  BY <1>1, <1>2 DEF HeldBy, PendingOff
<1>4. CallsHeld'
  BY <1>2, <1>3 DEF CallsHeld, KIInv
<1>5. ~surprised' => ~surprised /\ down' = {}
  BY <1>1
<1>6. QED
  BY <1>2, <1>3, <1>4, <1>5 DEF LayersHeld, KIInv

LEMMA KeymapHeldStep ==
    LockingStock /\ TypeOK /\ KeysTyped /\ RecordsTyped /\ KIInv /\ [KNext]_kvars => KIInv'
<1> SUFFICES ASSUME LockingStock, TypeOK, KeysTyped, RecordsTyped, KIInv, [KNext]_kvars
             PROVE  KIInv'
  OBVIOUS
<1>1. LockingKeymap'
  BY LocksKept DEF KIInv
<1>2. CASE UNCHANGED kvars
  <2>1. UNCHANGED <<layer_state, layer_locks, calls, down, held, surprised, zmk_keymap, orders,
                    active_layers>>
    BY <1>2 DEF kvars, keyVars, vars
  <2>2. \A q : Answered(q)' <=> Answered(q)
    BY <1>2, AnsweredFrame DEF kvars
  <2>3. \A l : (HeldBy(l)' <=> HeldBy(l)) /\ (PendingOff(l)' <=> PendingOff(l))
    BY <2>1 DEF HeldBy, PendingOff
  <2>4. CallsHeld'
    BY <2>1, <2>3 DEF CallsHeld, KIInv
  <2>5. LayersHeld'
    BY <2>1, <2>2, <2>3 DEF LayersHeld, KIInv
  <2>6. QED
    BY <1>1, <2>4, <2>5 DEF KIInv
<1>3. CASE KNext
  <2>1. CallsHeld' /\ LayersHeld'
    BY <1>3, PressHeld, ReleaseHeld, WorkHeld, EditHeld DEF KNext
  <2>2. QED
    BY <1>1, <2>1 DEF KIInv
<1>4. QED
  BY <1>2, <1>3

\* For keymaps whose toggle and to behaviors are locking, and the edits that Studio's client
\* makes: between two key events no layer is on but those that a key holds, that are locked
\* or conditional, and the default layer; and the layer order stays one, its free entries last.
THEOREM LayersAreAccounted == ClientEdits /\ LockingStock /\ KSpec => []LayersAccounted
<1> SUFFICES ASSUME ClientEdits, LockingStock
             PROVE  KSpec => []LayersAccounted
  OBVIOUS
<1>1. KInit /\ LockingStock => KIInv
  <2> SUFFICES ASSUME KInit, LockingStock
               PROVE  KIInv
    OBVIOUS
  <2>1. zmk_keymap = Stock /\ calls = <<>> /\ layer_state = {} /\ down = {}
    BY DEF KInit, Init
  <2>2. LockingKeymap
    BY <2>1 DEF LockingStock, LockingKeymap
  <2>3. CallsHeld /\ LayersHeld
    BY <2>1 DEF CallsHeld, LayersHeld
  <2>4. QED
    BY <2>2, <2>3 DEF KIInv
<1>2. KInit => OrderWellFormed
  <2> SUFFICES ASSUME KInit, NEW i \in Layers, NEW j \in Layers, i < j
               PROVE  /\ orders[j] # INVAL => orders[i] # INVAL
                      /\ orders[i] # INVAL => orders[i] # orders[j]
    BY DEF OrderWellFormed
  <2>1. /\ orders[i] = IF i < StockLayers THEN i ELSE INVAL
        /\ orders[j] = IF j < StockLayers THEN j ELSE INVAL
    BY DEF KInit
  <2>2. INVAL # i /\ INVAL # j /\ i # j /\ (j < StockLayers => i < StockLayers)
    BY NAssumption, KeymapAssumption DEF INVAL, Layers
  <2>3. QED
    BY <2>1, <2>2
<1>3. ClientEdits /\ KeysTyped /\ OrderWellFormed /\ [KNext]_kvars => OrderWellFormed'
  <2> SUFFICES ASSUME ClientEdits, KeysTyped, OrderWellFormed, [KNext]_kvars
               PROVE  OrderWellFormed'
    OBVIOUS
  <2>1. CASE Studio
    BY <2>1, OrderStep
  <2>2. CASE ~Studio
    <3>1. orders' = orders
      BY <2>2 DEF KNext, Press, Release, kvars, keyVars
    <3>2. QED
      BY <3>1 DEF OrderWellFormed
  <2>3. QED
    BY <2>1, <2>2
<1>4. KIInv => NoStuckLayer
  BY DEF KIInv, LayersHeld, NoStuckLayer, Quiet, PendingOff
<1>5. KTypeOK => TypeOK /\ KeysTyped /\ RecordsTyped
  BY DEF KTypeOK, KeysTyped, RecordsTyped, Resolution
<1>6. KTypeOK /\ NoStuckLayer /\ OrderWellFormed => LayersAccounted
  BY DEF LayersAccounted
<1>7. QED
  BY KeymapTypeCorrect, KeymapHeldStep, <1>1, <1>2, <1>3, <1>4, <1>5, <1>6, PTL DEF KSpec
=============================================================================

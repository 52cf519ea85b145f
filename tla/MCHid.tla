-------------------------------- MODULE MCHid --------------------------------
(***************************************************************************)
(* Instances of Hid: keys that share usages and modifiers, more of them    *)
(* than the report has entries, a usage that is not supported, and a       *)
(* mod-morph on two positions; of Kscan; and of StudioRpc.  They share no  *)
(* state: in each behavior one of them moves, chosen initially, and the    *)
(* others rest in one of their initial states.                             *)
(***************************************************************************)
EXTENDS Hid, Kscan, StudioRpc

CONSTANTS p1, p2, p3, p4, p5, p6, grave, shift, ctrl, kA, kB, kC, vol, far

SomeMods == {shift, ctrl}
SomeKeys == {kA, kB, kC}
SomeMedia == {vol, far}
FarUsage == {far}
Key(u, S) == [usage |-> u, mods |-> S]

\* LSHIFT, LC(LSHIFT), LC(A), C, LS(volume), an unsupported usage
SixKeys == (p1 :> Key(shift, {})) @@ (p2 :> Key(shift, {ctrl})) @@ (p3 :> Key(kA, {ctrl}))
            @@ (p4 :> Key(kC, {})) @@ (p5 :> Key(vol, {shift})) @@ (p6 :> Key(far, {}))
\* A, but LC(B) without the shift while a shift is held
ShiftMorph == grave :> [normal |-> Key(kA, {}), morph |-> Key(kB, {ctrl}),
                        mods |-> {shift}, masked |-> {shift}]
OnTwo == [p \in {"g1", "g2"} |-> grave]

\* The default layout scans a matrix of two switches, a direct pin and a demux through the
\* composite; the second has a charlieplex behind the sideband driver; the third an input
\* device; the fourth has too many keys.  swB has no position.
CONSTANTS swA, swB, swC, swD, swE, swF
SomeWired == ("matrix" :> <<swA, swB>>) @@ ("direct" :> <<swC>>) @@ ("charlieplex" :> <<swD>>) @@ ("demux" :> <<swE>>)
SomeChildren == ("composite" :> <<"matrix", "direct", "demux">>) @@ ("side" :> <<"charlieplex">>)
FourLayouts == 0 .. 3
SomeKscans == [l \in FourLayouts |-> CASE l = 1 -> "side" [] l = 2 -> "input" [] OTHER -> "composite"]
SomeTransforms == [l \in FourLayouts |-> swA :> l @@ swB :> -1 @@ swC :> 1 - (l % 2) @@ swD :> 2 @@ swE :> 5 @@ swF :> 4]
SomeThresholds == {<<2, 1>>, <<0, 1>>}

CONSTANT Parts
VARIABLE part    \* what moves: "hid", "kscan" or "studio"
AllVars == <<part, vars, kscan_vars, studio_vars>>

AllInit ==
    /\ part \in Parts /\ Init /\ KscanInit /\ StudioInit
    /\ IF part = "kscan" THEN closed \subseteq {swA}       \* held at boot
       ELSE closed = {} /\ s = Boot(TRUE, FALSE, TRUE, <<2, 1>>)
    /\ part = "studio" \/ (r.has = {"usb"} /\ r.ep = "usb")
AllNext ==
    /\ UNCHANGED part
    /\ \/ part = "hid" /\ Next /\ UNCHANGED <<kscan_vars, studio_vars>>
       \/ part = "kscan" /\ KscanNext /\ UNCHANGED <<vars, studio_vars>>
       \/ part = "studio" /\ StudioNext /\ UNCHANGED <<vars, kscan_vars>>

\* The fairness of what moves; an interrupt ends what triggers it, so that it need not be
\* asked for with WF.
AllFairness ==
    /\ []<>(s.crashed \/ s.queue = <<>>) /\ []<>(s.crashed \/ s.next = -1)
    /\ \A x \in Debounced : []<>(s.crashed \/ s.mode[x] # "irq" \/ SwitchesOf[x] \intersect closed = {})
    /\ WF_kscan_vars(part = "kscan" /\ InputEvent)
    /\ \A x \in Drivers : WF_kscan_vars(part = "kscan" /\ Scan(x))
    /\ \A x \in {"rpc", "sys"} :
         /\ SF_studio_vars(part = "studio" /\ LockTransport(x))
         /\ WF_studio_vars(part = "studio" /\ (WriteBody(x) \/ WriteEnd(x)))
    /\ WF_studio_vars(part = "studio" /\ ReadByte) /\ WF_studio_vars(part = "studio" /\ WakeReader)
    /\ WF_studio_vars(part = "studio" /\ SerialSends) /\ WF_studio_vars(part = "studio" /\ SerialReceives)
    /\ WF_studio_vars(part = "studio" /\ Confirm) /\ SF_studio_vars(part = "studio" /\ NextJob)
    /\ WF_studio_vars(part = "studio" /\ Copy)
AllSpec == AllInit /\ [][AllNext]_AllVars /\ AllFairness

\* Settles of Kscan, and RequestsAreServed of StudioRpc.
SettlesAndServes == <>[](Settled /\ (r.has = {"usb"} => AllServed))
=============================================================================

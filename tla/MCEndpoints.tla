----------------------------- MODULE MCEndpoints -----------------------------
(***************************************************************************)
(* Instances of Endpoints: USB and two Bluetooth hosts, a plain key, and a *)
(* volume key with an implicit modifier, whose reports are of both pages;  *)
(* and of BleProfiles, two profiles and two hosts that may connect, pair   *)
(* and leave.  They share no state: in each behavior one of them moves,    *)
(* chosen initially, and the other rests in an initial state.              *)
(***************************************************************************)
EXTENDS Endpoints, BleProfiles, TLC

CONSTANTS p1, prof0, prof1, shift, kA, vol

SomeMods == {shift}
SomeKeys == {kA}
SomeMedia == {vol}
NoUsages == {}
Key(u, S) == [usage |-> u, mods |-> S]

MixedKey == p1 :> Key(vol, {shift})
PlainKey == p1 :> Key(kA, {})
NoMorph == [m \in {} |-> <<>>]
TwoProfiles == {prof0, prof1}
HostsAlike == Permutations(TwoProfiles)
OffOn == {"off", "on"}
Suspending == {"off", "on", "suspended"}

\* Nothing reads the reports of the last handler once they have been delivered.  What the
\* hosts are told decides nothing of what happens, and after a surprise no property is about
\* it; nor then about what is in the queues, but for how long they are.
Reports ==
    IF surprised THEN <<Len(queue["key"]), Len(queue["media"])>> ELSE <<queue, view>>
ButForOut ==
    <<[hid EXCEPT !.out = <<>>], held, down, preferred, current, usb, connected, active, usb_work,
      ble_work, hog_work, hog_running, surprised, Reports>>

\* the builds differ in what may be overwritten, in passkeys, and in what was saved
CONSTANTS h1, h2
TwoHosts == {h1, h2}
Plain == [overwrite |-> FALSE, passkey |-> FALSE, clear |-> FALSE, v1 |-> "unset"]
SomeBuilds == { Plain, [Plain EXCEPT !.overwrite = TRUE], [Plain EXCEPT !.passkey = TRUE, !.v1 = "ble"],
                [Plain EXCEPT !.clear = TRUE] }

CONSTANT Parts
VARIABLE part    \* what moves: "endpoints" or "profiles"
AllVars == <<part, all_vars, ble_vars>>

AllInit ==
    /\ part \in Parts /\ EndpointsInit /\ BleInit
    /\ part = "profiles" \/ kb.build = Plain
AllNext ==
    /\ UNCHANGED part
    /\ \/ part = "endpoints" /\ EndpointsNext /\ UNCHANGED ble_vars
       \/ part = "profiles" /\ BleNext /\ UNCHANGED all_vars
AllSpec == AllInit /\ [][AllNext]_AllVars

\* Hosts are alike, and so are the profiles of Endpoints.
Alike == HostsAlike \cup Permutations(TwoHosts)
AllButForOut == <<part, ButForOut, ble_vars>>
=============================================================================

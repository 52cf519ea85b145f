---------------------------- MODULE BleProfiles ----------------------------
(***************************************************************************)
(* The profiles of a keyboard that is a Bluetooth peripheral (ble.c and    *)
(* behavior_bt.c), the endpoint that follows them, and what both keep in   *)
(* the settings (endpoints.c).                                             *)
(*                                                                         *)
(* Commands and work items run on the system work queue, the callbacks of  *)
(* the Bluetooth stack on its own thread; each handler is one step.  The   *)
(* state is one record: kb.peer, kb.active, kb.adv, kb.preferred,          *)
(* kb.current, kb.entry and kb.ring are the program's variables, kb.work   *)
(* its submitted or delayed work items, kb.flash the settings.  kb.radio,  *)
(* kb.conn, kb.bonded and kb.pairing are the stack's; kb.typed and kb.sent *)
(* record what the user typed for a passkey and what the stack was given.  *)
(***************************************************************************)
EXTENDS Integers, FiniteSets, Sequences

CONSTANTS
    BleHosts,         \* the hosts that may connect
    NoHost,        \* BT_ADDR_LE_ANY, or no connection
    Count,         \* ZMK_BLE_PROFILE_COUNT
    MaxConn,       \* CONFIG_BT_MAX_CONN
    PasskeyDigits, \* PASSKEY_DIGITS
    Digits,        \* digits the user may type
    Builds,        \* configurations, [overwrite, passkey, clear : BOOLEAN, v1 : ...]
    MaxCommands,   \* bound: commands, key strokes and USB changes
    MaxLinks,      \* bound: connections and pairing requests
    MaxBleSteps,   \* bound: both together
    MaxCrashes     \* bound: restarts

Build == [overwrite : BOOLEAN, passkey : BOOLEAN, clear : BOOLEAN, v1 : {"unset", "usb", "ble"}]

ASSUME BleAssumption ==
    /\ IsFiniteSet(BleHosts) /\ NoHost \notin BleHosts
    /\ Count \in Nat \ {0} /\ MaxConn \in Nat \ {0} /\ PasskeyDigits \in Nat \ {0}
    /\ Builds \subseteq Build

VARIABLES kb, commands, links, crashes
ble_vars == <<kb, commands, links, crashes>>

ProfileIndexes == 0..Count - 1
BleTransports == {"none", "usb", "ble"}

IsOpen(s, i) == s.peer[i] = NoHost
IsConnected(s, i) == ~IsOpen(s, i) /\ s.conn[s.peer[i]] = "up"
IsActiveHost(s, h) == s.peer[s.active] = h
Submit(s, w) == [s EXCEPT !.work = @ \union {w}]

(***************************************************************************)
(* Advertising.  The stack refuses to start without a free connection      *)
(* object, and the status then stays "none".                               *)
(***************************************************************************)
HasRoom(s) == Cardinality({h \in BleHosts : s.conn[h] # "no"}) < MaxConn
Desired(s) == IF IsOpen(s, s.active) \/ ~IsConnected(s, s.active) THEN "conn" ELSE "none"

StopAdvertising(s) == [s EXCEPT !.adv = "none", !.radio = FALSE]
StartAdvertising(s) ==
    IF HasRoom(s) /\ ~s.radio THEN [s EXCEPT !.adv = "conn", !.radio = TRUE] ELSE s

UpdateAdvertising(s) ==
    CASE Desired(s) = "none" /\ s.adv = "conn" -> StopAdvertising(s)
      [] Desired(s) = "conn" /\ s.adv = "none" -> StartAdvertising(s)
      [] OTHER -> s

SetDeviceName(s) ==
    UpdateAdvertising(IF s.adv = "conn" THEN StopAdvertising(s) ELSE s)

(***************************************************************************)
(* The endpoint: the preferred transport if it is ready, else the other.   *)
(***************************************************************************)
SelectedTransport(s) ==
    LET ready == {t \in {"usb", "ble"} : IF t = "usb" THEN s.usb ELSE IsConnected(s, s.active)}
    IN  IF s.preferred = "none" \/ ready = {} THEN "none"
        ELSE IF s.preferred \in ready THEN s.preferred
        ELSE CHOOSE t \in ready : TRUE

Instance(s, t) == [transport |-> t, profile |-> IF t = "ble" THEN s.active ELSE 0]

UpdateEndpoint(s) == [s EXCEPT !.current = Instance(s, SelectedTransport(s))]

BleSetPreferred(s, t) ==
    IF s.preferred = t THEN s
    ELSE UpdateEndpoint(Submit([s EXCEPT !.preferred = t], "savePreferred"))

Toggle(s) == BleSetPreferred(s, IF s.preferred = "usb" THEN "ble" ELSE "usb")

(***************************************************************************)
(* Profiles.  An address is saved at once, the active profile by delayed   *)
(* work; the event about a profile is raised by work, or at once when the  *)
(* user selects another.                                                   *)
(***************************************************************************)
SetProfileAddress(s, i, h) ==
    Submit([s EXCEPT !.peer[i] = h, !.flash.peer[i] = h], "raise")

\* bt_unpair of the stack: the bond goes, and a connection is being closed.
Unpair(s, h) ==
    [s EXCEPT !.bonded = @ \ {h}, !.conn[h] = IF @ = "up" THEN "closing" ELSE @]

\* mutant of ClearProfileBond: the address stays in the profile
ClearProfileBondKept(s, i) == IF IsOpen(s, i) THEN s ELSE Submit(Unpair(s, s.peer[i]), "raise")

ClearProfileBond(s, i) ==
    IF IsOpen(s, i) THEN s ELSE SetProfileAddress(Unpair(s, s.peer[i]), i, NoHost)

\* mutant of BleSelectProfile: the profile is saved before it is changed
SelectProfileSavesOld(s, i) ==
    IF i >= Count \/ s.active = i THEN s
    ELSE UpdateEndpoint(UpdateAdvertising(
            [s EXCEPT !.active = i, !.flash.active = s.active, !.work = @ \ {"saveActive"}]))

BleSelectProfile(s, i) ==
    IF i >= Count \/ s.active = i THEN s
    ELSE UpdateEndpoint(UpdateAdvertising(Submit([s EXCEPT !.active = i], "saveActive")))

ClearBonds(s) == UpdateAdvertising(ClearProfileBond(s, s.active))

\* ClearProfileBond of one profile after the other
ClearProfileBonds(s) ==
    LET taken == {i \in ProfileIndexes : ~IsOpen(s, i)}
        hosts == {s.peer[i] : i \in taken}
    IN  [s EXCEPT !.bonded = @ \ hosts,
                  !.conn = [h \in BleHosts |-> IF h \in hosts /\ @[h] = "up" THEN "closing" ELSE @[h]],
                  !.peer = [i \in ProfileIndexes |-> NoHost],
                  !.flash.peer = [i \in ProfileIndexes |-> IF i \in taken THEN NoHost ELSE @[i]],
                  !.work = IF taken = {} THEN @ ELSE @ \union {"raise"}]

ClearAllBonds(s) == UpdateAdvertising(BleSelectProfile(ClearProfileBonds(s), 0))

DisconnectProfile(s, i) ==
    IF i < Count /\ ~IsOpen(s, i) /\ s.conn[s.peer[i]] = "up"
    THEN [s EXCEPT !.conn[s.peer[i]] = "closing"] ELSE s

\* The parameters of &bt, &out and the Studio or display code that renames the device.
Invoke(s, cmd, i) ==
    CASE cmd = "clear" -> ClearBonds(s)
      [] cmd = "clearAll" -> ClearAllBonds(s)
      [] cmd = "next" -> BleSelectProfile(s, (s.active + 1) % Count)
      [] cmd = "prev" -> BleSelectProfile(s, (s.active + Count - 1) % Count)
      [] cmd = "select" -> BleSelectProfile(s, i)
      [] cmd = "disconnect" -> DisconnectProfile(s, i)
      [] cmd = "usb" -> BleSetPreferred(s, "usb")
      [] cmd = "ble" -> BleSetPreferred(s, "ble")
      [] cmd = "toggle" -> Toggle(s)
      [] cmd = "rename" -> SetDeviceName(s)

Indexed == {"select", "disconnect"}
Unindexed == {"clear", "clearAll", "next", "prev", "usb", "ble", "toggle", "rename"}

(***************************************************************************)
(* Callbacks of connections.                                               *)
(***************************************************************************)
Connected(s, h) ==
    LET up == UpdateAdvertising([s EXCEPT !.conn[h] = "up", !.radio = FALSE, !.adv = "none"])
    IN  IF IsActiveHost(up, h) THEN Submit(up, "raise") ELSE up

ConnectFailed(s) == UpdateAdvertising([s EXCEPT !.radio = FALSE, !.adv = "none"])

\* mutant of Disconnected: advertising is updated while the connection still counts
DisconnectedEarly(s, h) ==
    LET down == [UpdateAdvertising(s) EXCEPT !.conn[h] = "no", !.pairing[h] = "no"]
    IN  IF IsActiveHost(s, h) THEN Submit(down, "raise") ELSE down

\* mutant of Disconnected: the profile whose host it is, is not told to be disconnected
DisconnectedSilently(s, h) ==
    Submit([s EXCEPT !.conn[h] = "no", !.pairing[h] = "no"], "adv")

Disconnected(s, h) ==
    LET down == Submit([s EXCEPT !.conn[h] = "no", !.pairing[h] = "no"], "adv")
    IN  IF IsActiveHost(s, h) THEN Submit(down, "raise") ELSE down

(***************************************************************************)
(* Callbacks of pairing.  A host that is bonded may pair again only if     *)
(* overwriting is allowed, which the stack sees to as well.                *)
(***************************************************************************)
PairingAllowed(s, h) ==
    IsOpen(s, s.active) \/ (s.build.overwrite /\ IsActiveHost(s, h))

PasskeyEntry(s, h) == [s EXCEPT !.ring = <<>>, !.typed = <<>>, !.entry = h]
AuthCancel(s) == [s EXCEPT !.ring = <<>>, !.typed = <<>>, !.entry = NoHost]

PairingAccept(s, h) ==
    IF ~PairingAllowed(s, h) THEN s
    ELSE IF s.build.passkey THEN PasskeyEntry([s EXCEPT !.pairing[h] = "entry"], h)
    ELSE [s EXCEPT !.pairing[h] = "go"]

\* mutant of PairingComplete: what was accepted is not looked at again
PairingCompleteUnchecked(s, h) ==
    UpdateAdvertising(SetProfileAddress(s, s.active, h))

\* mutant of PairingComplete: a pairing that comes too late leaves its bond behind
PairingCompleteKept(s, h) ==
    IF ~PairingAllowed(s, h) THEN s
    ELSE UpdateAdvertising(SetProfileAddress(s, s.active, h))

PairingComplete(s, h) ==
    IF ~PairingAllowed(s, h) THEN Unpair(s, h)
    ELSE UpdateAdvertising(SetProfileAddress(s, s.active, h))

(***************************************************************************)
(* Keys during the entry of a passkey: the last digits count, the presses  *)
(* are ignored and the releases handled.                                   *)
(***************************************************************************)
\* mutant of EnterDigit: the buffer keeps the first digits and drops the later ones
EnterDigitFull(s, d) ==
    [s EXCEPT !.typed = Append(@, d),
              !.ring = IF Len(@) < PasskeyDigits THEN Append(@, d) ELSE @]

\* mutant of EnterDigit: one digit more than the buffer holds
EnterDigitOver(s, d) ==
    [s EXCEPT !.typed = Append(@, d),
              !.ring = Append(IF Len(@) <= PasskeyDigits THEN @ ELSE Tail(@), d)]

EnterDigit(s, d) ==
    [s EXCEPT !.typed = Append(@, d),
              !.ring = Append(IF Len(@) < PasskeyDigits THEN @ ELSE Tail(@), d)]

SendPasskey(s) ==
    [s EXCEPT !.sent = [digits |-> s.ring, typed |-> s.typed],
              !.pairing[s.entry] = IF @ = "entry" THEN "go" ELSE @,
              !.ring = <<>>, !.typed = <<>>, !.entry = NoHost]

(***************************************************************************)
(* Start-up: the endpoint starts without any connection, the settings are  *)
(* loaded, then each subtree is committed.  A preference in the old format *)
(* is deleted before it is saved in the new one.                           *)
(***************************************************************************)
Ram(build, flash, bonded) ==
    [build |-> build, flash |-> flash, bonded |-> bonded,
     peer |-> flash.peer, active |-> flash.active,
     preferred |-> IF flash.v1 # "unset" THEN flash.v1
                   ELSE IF flash.preferred # "unset" THEN flash.preferred ELSE "usb",
     usb |-> FALSE, current |-> [transport |-> "none", profile |-> 0],
     adv |-> "none", work |-> {}, radio |-> FALSE,
     conn |-> [h \in BleHosts |-> "no"], pairing |-> [h \in BleHosts |-> "no"],
     entry |-> NoHost, ring |-> <<>>, typed |-> <<>>,
     sent |-> [digits |-> <<>>, typed |-> <<>>]]

UpgradeV1(s) ==
    IF s.flash.v1 = "unset" THEN s
    ELSE [s EXCEPT !.flash.v1 = "unset", !.flash.preferred = s.preferred]

ClearOnStart(s) ==
    IF s.build.clear
    THEN [s EXCEPT !.bonded = {}, !.flash.peer = [i \in ProfileIndexes |-> NoHost]] ELSE s

Boot(build, flash, bonded) ==
    UpdateEndpoint(UpdateAdvertising(ClearOnStart(UpgradeV1(Ram(build, flash, bonded)))))

BleInit ==
    /\ \E build \in Builds :
         kb = Boot(build, [peer |-> [i \in ProfileIndexes |-> NoHost], active |-> 0,
                           preferred |-> "unset", v1 |-> build.v1], {})
    /\ commands = 0 /\ links = 0 /\ crashes = 0

-----------------------------------------------------------------------------
(* Steps of the user. *)
Command ==
    /\ commands < MaxCommands /\ commands + links < MaxBleSteps
    /\ \/ \E cmd \in Indexed, i \in 0..Count : kb' = Invoke(kb, cmd, i)
       \/ \E cmd \in Unindexed : kb' = Invoke(kb, cmd, 0)
    /\ commands' = commands + 1
    /\ UNCHANGED <<links, crashes>>

UsbChanges ==
    /\ commands < MaxCommands /\ commands + links < MaxBleSteps
    /\ kb' = UpdateEndpoint([kb EXCEPT !.usb = ~@])
    /\ commands' = commands + 1
    /\ UNCHANGED <<links, crashes>>

TypeDigit(d) ==
    /\ kb.entry # NoHost
    /\ Len(kb.typed) <= PasskeyDigits      \* bound: one digit more than the buffer holds
    /\ kb' = EnterDigit(kb, d)
    /\ UNCHANGED <<commands, links, crashes>>

PressReturn ==
    /\ kb.entry # NoHost
    /\ kb' = SendPasskey(kb)
    /\ UNCHANGED <<commands, links, crashes>>

\* Escape asks the stack to cancel, which may or may not call auth_cancel.
PressEscape(called) ==
    /\ kb.entry # NoHost /\ kb.pairing[kb.entry] = "entry"
    /\ kb' = LET s == [kb EXCEPT !.pairing[kb.entry] = "no"]
             IN  IF called THEN AuthCancel(s) ELSE s
    /\ UNCHANGED <<commands, links, crashes>>

(* Steps of the hosts and of the stack. *)
HostConnects(h) ==
    /\ links < MaxLinks /\ commands + links < MaxBleSteps
    /\ kb.radio /\ kb.conn[h] = "no"
    /\ kb' = Connected(kb, h)
    /\ links' = links + 1
    /\ UNCHANGED <<commands, crashes>>

HostFailsToConnect ==
    /\ links < MaxLinks /\ commands + links < MaxBleSteps
    /\ kb.radio
    /\ kb' = ConnectFailed(kb)
    /\ links' = links + 1
    /\ UNCHANGED <<commands, crashes>>

LinkEnds(h, called) ==
    /\ kb.conn[h] # "no"
    /\ called => kb.pairing[h] = "entry"
    /\ kb' = Disconnected(IF called THEN AuthCancel(kb) ELSE kb, h)
    /\ UNCHANGED <<commands, links, crashes>>

PairingRequest(h) ==
    /\ links < MaxLinks /\ commands + links < MaxBleSteps
    /\ kb.conn[h] = "up" /\ kb.pairing[h] = "no"
    /\ h \in kb.bonded => kb.build.overwrite
    /\ kb' = PairingAccept(kb, h)
    /\ links' = links + 1
    /\ UNCHANGED <<commands, crashes>>

PairingDone(h) ==
    /\ kb.conn[h] = "up" /\ kb.pairing[h] = "go"
    /\ kb' = PairingComplete([kb EXCEPT !.pairing[h] = "no", !.bonded = @ \union {h}], h)
    /\ UNCHANGED <<commands, links, crashes>>

PairingFails(h, called) ==
    /\ kb.conn[h] = "up" /\ kb.pairing[h] # "no"
    /\ called => kb.pairing[h] = "entry"
    /\ kb' = LET s == [kb EXCEPT !.pairing[h] = "no"] IN IF called THEN AuthCancel(s) ELSE s
    /\ UNCHANGED <<commands, links, crashes>>

(* Work items. *)
AdvertisingWork ==
    /\ "adv" \in kb.work
    /\ kb' = UpdateAdvertising([kb EXCEPT !.work = @ \ {"adv"}])
    /\ UNCHANGED <<commands, links, crashes>>

RaiseWork ==
    /\ "raise" \in kb.work
    /\ kb' = UpdateEndpoint([kb EXCEPT !.work = @ \ {"raise"}])
    /\ UNCHANGED <<commands, links, crashes>>

SaveActive ==
    /\ "saveActive" \in kb.work
    /\ kb' = [kb EXCEPT !.work = @ \ {"saveActive"}, !.flash.active = kb.active]
    /\ UNCHANGED <<commands, links, crashes>>

SavePreferred ==
    /\ "savePreferred" \in kb.work
    /\ kb' = [kb EXCEPT !.work = @ \ {"savePreferred"}, !.flash.preferred = kb.preferred]
    /\ UNCHANGED <<commands, links, crashes>>

(* Restarts: at any step, and inside the upgrade of the old preference. *)
Restart ==
    /\ crashes < MaxCrashes
    /\ kb' = Boot(kb.build, kb.flash, kb.bonded)
    /\ crashes' = crashes + 1
    /\ UNCHANGED <<commands, links>>

RestartInUpgrade ==
    /\ crashes < MaxCrashes
    /\ kb.build.v1 # "unset" /\ crashes = 0 /\ commands = 0 /\ links = 0
    /\ kb' = Boot(kb.build, [kb.flash EXCEPT !.preferred = "unset", !.v1 = "unset"], kb.bonded)
    /\ crashes' = crashes + 1
    /\ UNCHANGED <<commands, links>>

BleNext ==
    \/ Command \/ UsbChanges \/ PressReturn
    \/ \E d \in Digits : TypeDigit(d)
    \/ \E called \in BOOLEAN : PressEscape(called)
    \/ HostFailsToConnect
    \/ \E h \in BleHosts :
         \/ HostConnects(h) \/ PairingRequest(h) \/ PairingDone(h)
         \/ \E called \in BOOLEAN : LinkEnds(h, called) \/ PairingFails(h, called)
    \/ AdvertisingWork \/ RaiseWork \/ SaveActive \/ SavePreferred
    \/ Restart \/ RestartInUpgrade

BleSpec == BleInit /\ [][BleNext]_ble_vars

-----------------------------------------------------------------------------
(* The types of the state. *)
BleTypeOK ==
    /\ kb.peer \in [ProfileIndexes -> BleHosts \union {NoHost}] /\ kb.active \in ProfileIndexes
    /\ kb.flash.peer \in [ProfileIndexes -> BleHosts \union {NoHost}] /\ kb.flash.active \in ProfileIndexes
    /\ kb.flash.preferred \in {"unset", "usb", "ble"} /\ kb.flash.v1 \in {"unset", "usb", "ble"}
    /\ kb.preferred \in BleTransports /\ kb.current.transport \in BleTransports
    /\ kb.adv \in {"none", "conn"} /\ kb.radio \in BOOLEAN
    /\ kb.work \subseteq {"adv", "raise", "saveActive", "savePreferred"}
    /\ kb.conn \in [BleHosts -> {"no", "up", "closing"}]
    /\ kb.pairing \in [BleHosts -> {"no", "entry", "go"}]
    /\ kb.bonded \subseteq BleHosts /\ kb.entry \in BleHosts \union {NoHost}
    /\ Len(kb.ring) <= PasskeyDigits

\* Nothing is under way that the keyboard itself has started.
BleQuiet == kb.work \intersect {"adv", "raise"} = {} /\ \A h \in BleHosts : kb.conn[h] # "closing"

(* Whatever the order of callbacks, commands and work items, once they have
   run the keyboard advertises exactly when the host of the active profile is
   missing and there is room for a connection, and its idea of the state of
   the radio (advertising_status) is right all the time. *)
AdvertisesWhenNeeded ==
    /\ kb.adv = "conn" <=> kb.radio
    /\ BleQuiet => (kb.radio <=> Desired(kb) = "conn" /\ HasRoom(kb))

(* The endpoint is brought up to date by events; once they are raised it is
   the one that the connections and the preference select. *)
EndpointFollows ==
    kb.work \intersect {"raise"} = {} /\ (\A h \in BleHosts : kb.conn[h] # "closing")
        => kb.current = Instance(kb, SelectedTransport(kb))

(* A host that holds a bond belongs to a profile: a pairing that completes for
   a profile that is taken meanwhile leaves no bond, and clearing a profile
   removes the bond.  Otherwise the user could not get rid of it. *)
BondHasProfile == \A h \in kb.bonded : \E i \in ProfileIndexes : kb.peer[i] = h

(* While bonds may not be overwritten, no host is in two profiles, and the host
   of every profile is bonded (unless the build forgets bonds on start). *)
OneProfilePerHost ==
    ~kb.build.overwrite /\ ~kb.build.clear =>
        \A i \in ProfileIndexes : ~IsOpen(kb, i) =>
            /\ kb.peer[i] \in kb.bonded
            /\ \A j \in ProfileIndexes : kb.peer[j] = kb.peer[i] => i = j

(* A profile is never taken over: its host goes before another comes, also when
   a pairing that was accepted for one profile completes while another is active. *)
NoTakeover ==
    [][\A i \in ProfileIndexes : kb.peer[i] # NoHost /\ kb'.peer[i] # kb.peer[i]
            => kb'.peer[i] = NoHost]_ble_vars

(* What a restart brings back: the addresses as they are, the active profile
   and the preference as soon as no save is pending. *)
SettingsSaved ==
    /\ ~kb.build.clear => kb.flash.peer = kb.peer
    /\ "saveActive" \notin kb.work => kb.flash.active = kb.active
    /\ "savePreferred" \notin kb.work =>
         kb.preferred = IF kb.flash.preferred = "unset" THEN "usb" ELSE kb.flash.preferred

(* The passkey is made of the last digits typed since the request it answers. *)
PasskeyIsWhatWasTyped ==
    LET n == Len(kb.sent.typed)
        k == IF n < PasskeyDigits THEN n ELSE PasskeyDigits
    IN  kb.sent.digits = SubSeq(kb.sent.typed, n - k + 1, n)

(* Advertising, the endpoint, the bonds and the profiles agree after every event;
   and what is saved is what a restart needs. *)
ProfilesAgree == BleTypeOK /\ AdvertisesWhenNeeded /\ EndpointFollows /\ BondHasProfile
                 /\ OneProfilePerHost /\ PasskeyIsWhatWasTyped /\ SettingsSaved
=============================================================================

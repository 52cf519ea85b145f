------------------------------ MODULE Endpoints ------------------------------
(***************************************************************************)
(* Where the reports of Hid go: the endpoint that is selected              *)
(* (src/app/src/endpoints.c), directly for USB (usb_hid.c), or through the *)
(* queue of a thread of its own for Bluetooth (hog.c), which looks up the  *)
(* connection of the active profile (ble.c) when it gets to a report.      *)
(*                                                                         *)
(* The hosts are external; `view' is what each of them has been told.      *)
(***************************************************************************)
EXTENDS Hid

CONSTANTS
    Profiles,      \* BLE profiles, each paired with a host of its own
    QueueSize,     \* CONFIG_ZMK_BLE_KEYBOARD_REPORT_QUEUE_SIZE, .._CONSUMER_..
    UsbStates      \* of "off", "on" and "suspended"; "off" is also power only

Hosts == {"usb"} \cup Profiles
Endpoint == {"none", "usb"} \cup Profiles
Transports == {"none", "usb", "ble"}

ASSUME EndpointsAssumption ==
    /\ "none" \notin Hosts /\ "usb" \notin Profiles /\ Profiles # {}
    /\ QueueSize \in Nat \ {0}
    /\ "off" \in UsbStates /\ UsbStates \subseteq {"off", "on", "suspended"}

VARIABLES
    preferred,   \* preferred_transport
    current,     \* current_instance
    usb,         \* usb_status
    connected,   \* profiles whose host is connected
    active,      \* active_profile
    usb_work,    \* usb_status_notifier_work is submitted
    ble_work,    \* raise_profile_changed_event_work is submitted
    queue,       \* page -> zmk_hog_{keyboard,consumer}_msgq
    hog_work,    \* pages whose work is submitted to the HOG thread
    hog_running, \* pages whose work is in its loop
    view,        \* host -> the report it has been sent last, page by page
    surprised    \* a profile was switched, or USB suspended, with a key down or a report
                 \* queued (history)

endpoint_vars == <<preferred, current, usb, connected, active, usb_work, ble_work,
                   queue, hog_work, hog_running, view, surprised>>
all_vars == <<vars, endpoint_vars>>
-----------------------------------------------------------------------------
(***************************************************************************)
(* Sending.                                                                *)
(***************************************************************************)
Told(v, page, report) ==
    IF page = "key" THEN [v EXCEPT !.mods = report.mods, !.keys = report.keys]
    ELSE [v EXCEPT !.media = report.media]

\* The reports of one handler, of which there are three at most, in order.
ToldAll(v, out) ==
    LET w == IF Len(out) > 0 THEN Told(v, out[1][1], out[1][2]) ELSE v
        x == IF Len(out) > 1 THEN Told(w, out[2][1], out[2][2]) ELSE w
    IN  IF Len(out) > 2 THEN Told(x, out[3][1], out[3][2]) ELSE x

\* mutant of Put: a full queue refuses the new report
Put_Refused(q, page, sent) ==
    IF sent[1] # page \/ Len(q) = QueueSize THEN q ELSE Append(q, sent)
\* zmk_hog_send_keyboard_report, zmk_hog_send_consumer_report: a full queue loses its
\* first report
Put(q, page, sent) ==
    IF sent[1] # page THEN q ELSE Append(IF Len(q) < QueueSize THEN q ELSE Tail(q), sent)
PutAll(q, page, out) ==
    LET r == IF Len(out) > 0 THEN Put(q, page, out[1]) ELSE q
        s == IF Len(out) > 1 THEN Put(r, page, out[2]) ELSE r
    IN  IF Len(out) > 2 THEN Put(s, page, out[3]) ELSE s

\* send_keyboard_report, send_consumer_report, for the reports sent by one handler.
\* While USB is suspended, zmk_usb_hid_send_report asks the host to wake up instead.
Deliver(to, out) ==
    CASE to = "usb" ->
            /\ view' = IF usb = "on" THEN [view EXCEPT !["usb"] = ToldAll(@, out)] ELSE view
            /\ UNCHANGED <<queue, hog_work>>
      [] to \in Profiles ->
            /\ queue' = [page \in DOMAIN queue |-> PutAll(queue[page], page, out)]
            /\ hog_work' = hog_work \cup {out[i][1] : i \in DOMAIN out}
            /\ UNCHANGED view
      [] OTHER -> UNCHANGED <<queue, hog_work, view>>

\* send_keyboard_report_callback, send_consumer_report_callback: one round of the loop.
\* Without a connection the report is dropped, and those behind it stay for another time.
HogSend(page) ==
    /\ page \in hog_work \cup hog_running
    /\ hog_work' = IF page \in hog_running THEN hog_work ELSE hog_work \ {page}
    /\ IF queue[page] = <<>>
       THEN hog_running' = hog_running \ {page} /\ UNCHANGED <<queue, view>>
       ELSE /\ queue' = [queue EXCEPT ![page] = Tail(@)]
            /\ IF active \in connected
               THEN /\ view' = [view EXCEPT ![active] = Told(@, page, Head(queue[page])[2])]
                    /\ hog_running' = hog_running \cup {page}
               ELSE hog_running' = hog_running \ {page} /\ UNCHANGED view
    /\ UNCHANGED <<vars, preferred, current, usb, connected, active, usb_work, ble_work,
                   surprised>>
-----------------------------------------------------------------------------
(***************************************************************************)
(* Selecting.                                                              *)
(***************************************************************************)
\* get_selected_instance
Selected(pref, usb_state, conn, act) ==
    LET usb_ready == usb_state # "off"
        ble_ready == act \in conn
    IN  CASE pref = "usb" /\ usb_ready -> "usb"
          [] pref = "ble" /\ ble_ready -> act
          [] pref = "usb" /\ ~usb_ready /\ ble_ready -> act
          [] pref = "ble" /\ ~ble_ready /\ usb_ready -> "usb"
          [] OTHER -> "none"

\* mutant of Update: the endpoint changes before the reports are cleared
Update_SwitchFirst(pref, act) ==
    LET new == Selected(pref, usb, connected, act)
    IN  /\ IF new = current
           THEN UNCHANGED <<vars, queue, hog_work, view>>
           ELSE Clear /\ Deliver(new, hid'.out)
        /\ current' = new
\* update_current_endpoint: the reports are cleared, and sent to the old endpoint
Update(pref, act) ==
    LET new == Selected(pref, usb, connected, act)
    IN  /\ IF new = current
           THEN UNCHANGED <<vars, queue, hog_work, view>>
           ELSE Clear /\ Deliver(current, hid'.out)
        /\ current' = new

\* zmk_endpoint_set_preferred_transport
SetPreferred(t) ==
    /\ t # preferred
    /\ preferred' = t
    /\ Update(t, active)
    /\ UNCHANGED <<usb, connected, active, usb_work, ble_work, hog_running, surprised>>

Underway == \/ down # {} \/ hog_running # {}
            \/ \E page \in DOMAIN queue : queue[page] # <<>>

\* zmk_ble_prof_select raises zmk_ble_active_profile_changed
SelectProfile(i) ==
    /\ i # active
    /\ active' = i
    /\ Update(preferred, i)
    /\ surprised' = (surprised \/ Underway)
    /\ UNCHANGED <<preferred, usb, connected, usb_work, ble_work, hog_running>>

\* endpoint_listener, for the events that the work items raise
UsbChanged == /\ usb_work /\ usb_work' = FALSE
              /\ Update(preferred, active)
              /\ UNCHANGED <<preferred, usb, connected, active, ble_work, hog_running, surprised>>
BleChanged == /\ ble_work /\ ble_work' = FALSE
              /\ Update(preferred, active)
              /\ UNCHANGED <<preferred, usb, connected, active, usb_work, hog_running, surprised>>
-----------------------------------------------------------------------------
(***************************************************************************)
(* The outside: hosts that come and go, and the keys.                      *)
(***************************************************************************)
\* mutant of UsbStatus: the status is raised only when USB comes, not when it goes
UsbStatus_OnOnly(s) ==
    /\ s # usb /\ usb' = s
    /\ s = "suspended" => usb = "on"
    /\ usb_work' = (s = "on")
    /\ view' = IF s = "off" THEN [view EXCEPT !["usb"] = Blank] ELSE view
    /\ UNCHANGED <<vars, preferred, current, connected, active, ble_work, queue,
                   hog_work, hog_running, surprised>>
\* usb_status_cb.  A host that is unplugged holds no keys of this keyboard.
UsbStatus(s) ==
    /\ s # usb /\ usb' = s
    /\ s = "suspended" => usb = "on"
    /\ usb_work' = TRUE
    /\ surprised' = (surprised \/ (s = "suspended" /\ Underway))
    /\ view' = IF s = "off" THEN [view EXCEPT !["usb"] = Blank] ELSE view
    /\ UNCHANGED <<vars, preferred, current, connected, active, ble_work, queue,
                   hog_work, hog_running>>

\* connected and disconnected of ble.c
Connection(i) ==
    /\ connected' = IF i \in connected THEN connected \ {i} ELSE connected \cup {i}
    /\ ble_work' = (ble_work \/ i = active)
    /\ view' = [view EXCEPT ![i] = Blank]
    /\ UNCHANGED <<vars, preferred, current, usb, active, usb_work, queue,
                   hog_work, hog_running, surprised>>

Keystroke(p) ==
    /\ PressKey(p) \/ ReleaseKey(p)
    /\ Deliver(current, hid'.out)
    /\ UNCHANGED <<preferred, current, usb, connected, active, usb_work, ble_work,
                   hog_running, surprised>>

EndpointsInit ==
    /\ Init
    /\ preferred = "usb" /\ current = "none" /\ usb = "off" /\ connected = {}
    /\ active \in Profiles
    /\ usb_work = FALSE /\ ble_work = FALSE
    /\ queue = [page \in {"key", "media"} |-> <<>>]
    /\ hog_work = {} /\ hog_running = {} /\ surprised = FALSE
    /\ view = [h \in Hosts |-> Blank]

EndpointsNext ==
    \/ \E p \in Positions : Keystroke(p)
    \/ \E page \in {"key", "media"} : HogSend(page)
    \/ \E t \in Transports : SetPreferred(t)
    \/ \E i \in Profiles : SelectProfile(i) \/ Connection(i)
    \/ \E s \in UsbStates : UsbStatus(s)
    \/ UsbChanged \/ BleChanged

EndpointsSpec == EndpointsInit /\ [][EndpointsNext]_all_vars
-----------------------------------------------------------------------------
(***************************************************************************)
(* Properties.                                                             *)
(***************************************************************************)
EndpointsTypeOK ==
    /\ TypeOK
    /\ preferred \in Transports /\ current \in Endpoint /\ usb \in UsbStates
    /\ connected \subseteq Profiles /\ active \in Profiles
    /\ usb_work \in BOOLEAN /\ ble_work \in BOOLEAN /\ surprised \in BOOLEAN
    /\ hog_work \cup hog_running \subseteq {"key", "media"}
    /\ \A page \in {"key", "media"} : Len(queue[page]) <= QueueSize
    /\ view \in [Hosts -> Report]

\* Nothing under way: no work submitted.
Quiet == ~usb_work /\ ~ble_work /\ hog_work \cup hog_running = {}

Holds(v) == v.mods \cup UsagesIn(v)

\* "Cancel all current keypresses so keys don't stay held on the old endpoint"
\* (update_current_endpoint): once nothing is under way, no host but the selected one has
\* a key of this keyboard pressed.
OldEndpointReleased == Quiet => \A h \in Hosts \ {current} : Holds(view[h]) = {}

\* It is so as long as profiles are switched and USB is suspended with no key down and no
\* report queued, whatever hosts and preferences come and go, and however far behind the
\* HOG thread is.
OldEndpointReleasedUnlessSurprised == ~surprised => OldEndpointReleased

\* As long as that is so, the selected host has nothing pressed that the keyboard does not
\* hold: nothing stays pressed because reports were dropped from a full queue, or sent
\* around a change of endpoint or a lost connection.
NothingStuck ==
    Quiet /\ ~surprised /\ current # "none" =>
        UsagesIn(view[current]) \subseteq UsagesIn(hid.report)

\* The selected endpoint is one that is ready, but for changes yet to be noticed.
SelectedIsReady == Quiet => current = Selected(preferred, usb, connected, active)

(* No host keeps a key, whatever became of the endpoint that reported it. *)
EndpointsReleased ==
    EndpointsTypeOK /\ OldEndpointReleasedUnlessSurprised /\ NothingStuck /\ SelectedIsReady
=============================================================================

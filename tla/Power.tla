-------------------------------- MODULE Power --------------------------------
(***************************************************************************)
(* Activity, sleep, soft off and battery reporting: activity.c, pm.c,      *)
(* behavior_soft_off.c, gpio_key_wakeup_trigger.c and battery.c.  Every    *)
(* second a timer submits work that compares the time of the last activity *)
(* with two limits, and suspends the devices before it switches off.  The  *)
(* battery is read by the low priority queue while the keyboard is active. *)
(*                                                                         *)
(* Times are in seconds; the time without activity is kept modulo 2^Bits   *)
(* and read as a signed number, as the code does with 32 bits.             *)
(***************************************************************************)
EXTENDS Integers, FiniteSets, Sequences, SequencesExt

CONSTANTS
    Devices,     \* sequence of devices, in the order they are defined
    Kscan,       \* the device that scans keys, a source of wakeups
    Wakers,      \* gpio_key_wakeup_trigger devices, listed in soft_off_wakeup_sources
    MaxIdle, MaxSleep, Bits, Period,   \* the limits, the width of the time, the battery interval
    PowerBuilds,      \* what is configured, a set of values of build
    Voltages,    \* what the battery may measure, in mV
    MaxPowerEvents, MaxFailures             \* bounds

ASSUME PowerAssumption ==
    /\ MaxIdle < MaxSleep /\ MaxSleep < 2 ^ (Bits - 1)
    /\ Bits \in Nat \ {0} /\ 2 ^ Bits \in Nat \ {0} /\ Period \in Nat \ {0}
    /\ Voltages \subseteq Nat
    \* Each device is there once; the wakers are devices of their own.
    /\ Devices \in Seq(Range(Devices)) /\ \A i, j \in DOMAIN Devices : Devices[i] = Devices[j] => i = j
    /\ Kscan \in Range(Devices) /\ Wakers \subseteq Range(Devices) \ {Kscan}

VARIABLES
    power_build,       \* [sleep, peripheral, offOnPress |-> BOOLEAN, hold |-> hold time in s]
    activity,    \* activity_state
    inactive,    \* the time since the last activity, modulo 2^Bits
    noted,       \* is the work that notes input activity submitted
    usb,         \* is there USB power
    dev,         \* [devices -> [on, wake]]
    slots,       \* pm_device_slots: the set of what the last suspend has suspended
    off,         \* "no", or the way it was switched off: "sleep", "soft"
    stranded,    \* a soft off has failed after its first pass
    held,        \* the soft off key: -1 up, else the seconds it is down
    battery,     \* [running, next |-> the timer, queued |-> the work, charge, event, bas]
    voltage, events, failures
power_vars == <<power_build, activity, inactive, noted, usb, dev, slots, off, stranded, held, battery, voltage,
                events, failures>>
device == <<dev, slots, off, stranded>>

Device == Range(Devices)
On == off = "no"

-----------------------------------------------------------------------------
(* Devices.  pm_device_action_run: what is in that state already is skipped; *)
(* a device in bad refuses.                                                   *)
Resume(device_state) == [device_state EXCEPT !.on = TRUE]

Suspendable(x, d) == x[d].on /\ ~x[d].wake

\* From the last device to the first, as far as it gets without one that is in stop.
SuspendUntil(x, stop) ==
    LET done == {Devices[i] : i \in {i \in DOMAIN Devices :
                    /\ Suspendable(x, Devices[i])
                    /\ \A j \in DOMAIN Devices : j >= i => Devices[j] \notin stop}}
    IN  [dev |-> [d \in Device |-> IF d \in done THEN [x[d] EXCEPT !.on = FALSE] ELSE x[d]],
         slots |-> done, ok |-> stop = {}]

\* mutant of SuspendDevices: a device that is suspended already is an error
SuspendDevices_Already(x, bad) ==
    SuspendUntil(x, {d \in Device : ~x[d].wake /\ (d \in bad \/ ~x[d].on)})

\* zmk_pm_suspend_devices: [dev, slots, ok].  It ends at the first that refuses.
SuspendDevices(x, bad) == SuspendUntil(x, {d \in bad : Suspendable(x, d)})

\* mutant of ResumeDevices: all but the one suspended first
ResumeDevices_ButOne(x, done) ==
    [d \in Device |-> IF d \in done \ {Devices[Len(Devices)]} THEN Resume(x[d]) ELSE x[d]]

ResumeDevices(x, done) == [d \in Device |-> IF d \in done THEN Resume(x[d]) ELSE x[d]]

\* The first pass of zmk_pm_soft_off, and the wakers.
\* mutant of PrepareSoftOff: the keys stay a source of wakeups
PrepareSoftOff_KeysWake(x, bad) ==
    [d \in Device |-> [on |-> IF d \in Wakers THEN x[d].on \/ d \notin bad ELSE x[d].on /\ d \in bad,
                       wake |-> x[d].wake]]

PrepareSoftOff(x, bad) ==
    [d \in Device |-> [on |-> IF d \in Wakers THEN x[d].on \/ d \notin bad ELSE x[d].on /\ d \in bad,
                       wake |-> d \in Wakers]]

-----------------------------------------------------------------------------
(* Battery.                                                                   *)
\* mutant of Percent: an empty battery is not at zero
Percent_NoEnds(mv) == IF mv >= 4200 THEN 100 ELSE ((mv * 2) \div 15 - 459) % 256

Percent(mv) == IF mv >= 4200 THEN 100 ELSE IF mv <= 3450 THEN 0 ELSE (mv * 2) \div 15 - 459

StartReporting(b) == [b EXCEPT !.running = TRUE, !.next = 0]
\* mutant of BatteryListener: reporting is not started again
BatteryListener_Silent(b, state) == IF state = "active" THEN b ELSE [b EXCEPT !.running = FALSE]

BatteryListener(b, state) ==
    IF state = "active" THEN StartReporting(b) ELSE [b EXCEPT !.running = FALSE]

SetActivity(state) ==
    /\ activity' = state
    /\ battery' = IF activity = state THEN battery ELSE BatteryListener(battery, state)

-----------------------------------------------------------------------------
(* Starting.                                                                  *)
StartDevices == [d \in Device |-> [on |-> d \notin Wakers, wake |-> d \in Wakers \union {Kscan}]]
StartBattery == StartReporting([running |-> TRUE, next |-> 0, queued |-> FALSE, charge |-> 0, event |-> 0, bas |-> 100])

PowerInit ==
    /\ power_build \in PowerBuilds
    /\ activity = "active" /\ inactive = 0 /\ noted = FALSE
    /\ usb \in BOOLEAN /\ dev = StartDevices /\ slots = {} /\ off = "no" /\ stranded = FALSE
    /\ held = -1 /\ battery = StartBattery /\ voltage \in Voltages
    /\ events = 0 /\ failures = 0

Event == events < MaxPowerEvents /\ events' = events + 1
NoEvent == UNCHANGED events
Refusing(bad) == failures + Cardinality(bad) <= MaxFailures /\ failures' = failures + Cardinality(bad)

-----------------------------------------------------------------------------
(* activity.c                                                                 *)
NoteActivity == inactive' = 0 /\ SetActivity("active")

\* A position or a sensor event.
KeyActivity ==
    /\ On /\ dev[Kscan].on
    /\ NoteActivity /\ NoEvent
    /\ UNCHANGED <<power_build, noted, usb, device, held, voltage, failures>>

\* activity_input_listener, on the thread of input events
InputActivity ==
    /\ On /\ Event
    /\ noted' = TRUE
    /\ UNCHANGED <<power_build, activity, inactive, usb, device, held, battery, voltage, failures>>
NoteWork ==
    /\ On /\ noted /\ noted' = FALSE
    /\ NoteActivity /\ NoEvent
    /\ UNCHANGED <<power_build, usb, device, held, voltage, failures>>

Inactive(n) == IF n >= 2 ^ (Bits - 1) THEN n - 2 ^ Bits ELSE n

\* activity_work_handler, n seconds after the last activity.
SleepDevices(bad) ==
    \E done \in {SuspendDevices(dev, bad)} :
        IF done.ok THEN off' = "sleep" /\ dev' = done.dev /\ slots' = done.slots
        ELSE off' = off /\ dev' = ResumeDevices(done.dev, done.slots) /\ slots' = {}

\* mutant of ActivityWork: the listeners are not told
ActivityWork_NotTold(n, b, bad) ==
    LET sleeps == power_build.sleep /\ Inactive(n) > MaxSleep /\ ~usb
        state  == IF sleeps THEN "sleep" ELSE IF Inactive(n) > MaxIdle THEN "idle" ELSE activity
    IN  /\ activity' = state
        /\ battery' = b
        /\ IF sleeps THEN SleepDevices(bad) ELSE UNCHANGED <<dev, slots, off>>

ActivityWork(n, b, bad) ==
    LET sleeps == power_build.sleep /\ Inactive(n) > MaxSleep /\ ~usb
        state  == IF sleeps THEN "sleep" ELSE IF Inactive(n) > MaxIdle THEN "idle" ELSE activity
    IN  /\ activity' = state
        /\ battery' = IF state = activity THEN b ELSE BatteryListener(b, state)
        /\ IF sleeps THEN SleepDevices(bad) ELSE UNCHANGED <<dev, slots, off>>

\* The timer of the battery in one second.
BatteryTimer(b) ==
    CASE ~b.running -> b
      [] b.running /\ b.next = 0 -> [b EXCEPT !.queued = TRUE, !.next = Period - 1]
      [] b.running /\ b.next > 0 -> [b EXCEPT !.next = @ - 1]

Second ==
    /\ On /\ ~noted
    /\ \E bad \in SUBSET Device :
         /\ Refusing(bad)
         /\ bad # {} => power_build.sleep /\ ~usb /\ Inactive((inactive + 1) % 2 ^ Bits) > MaxSleep
         /\ ActivityWork((inactive + 1) % 2 ^ Bits, BatteryTimer(battery), bad)
    /\ inactive' = (inactive + 1) % 2 ^ Bits
    /\ held' = IF held \in {-1, power_build.hold + 1} THEN held ELSE held + 1
    /\ NoEvent /\ UNCHANGED <<power_build, noted, usb, stranded, voltage>>

-----------------------------------------------------------------------------
(* pm.c and behavior_soft_off.c                                               *)
SoftOff(first, second) ==
    \E done \in {SuspendDevices(PrepareSoftOff(dev, first), second)} :
        /\ off' = IF done.ok THEN "soft" ELSE off
        /\ dev' = IF done.ok THEN done.dev ELSE ResumeDevices(done.dev, done.slots)
        /\ slots' = IF done.ok THEN done.slots ELSE {}
        /\ stranded' = (stranded \/ ~done.ok)

\* Pressing and releasing the key is activity as well.
PressSoftOff ==
    /\ On /\ held = -1 /\ dev[Kscan].on /\ Event
    /\ NoteActivity
    /\ IF power_build.peripheral /\ power_build.offOnPress
       THEN \E first, second \in SUBSET Device :
              Refusing(first \union second) /\ SoftOff(first, second) /\ held' = -1
       ELSE held' = 0 /\ UNCHANGED <<device, failures>>
    /\ UNCHANGED <<power_build, noted, usb, voltage>>

ReleaseSoftOff ==
    /\ On /\ held # -1 /\ dev[Kscan].on
    /\ NoteActivity /\ held' = -1 /\ NoEvent
    /\ IF power_build.hold = 0 \/ held > power_build.hold
       THEN \E first, second \in SUBSET Device : Refusing(first \union second) /\ SoftOff(first, second)
       ELSE UNCHANGED <<device, failures>>
    /\ UNCHANGED <<power_build, noted, usb, voltage>>

\* A source of wakeups that is on starts the keyboard again.
WakeUp ==
    /\ ~On /\ Event
    /\ \E d \in Device : dev[d].on /\ dev[d].wake
    /\ activity' = "active" /\ inactive' = 0 /\ noted' = FALSE /\ dev' = StartDevices /\ slots' = {}
    /\ off' = "no" /\ stranded' = FALSE /\ held' = -1 /\ battery' = StartBattery
    /\ UNCHANGED <<power_build, usb, voltage, failures>>

-----------------------------------------------------------------------------
(* zmk_battery_update, on the low priority queue; reading may fail, and so may *)
(* a listener of the event it raises, before the level is given to the host.   *)
BatteryWork ==
    /\ On /\ battery.queued
    /\ \/ failures < MaxFailures /\ failures' = failures + 1 /\ battery' = [battery EXCEPT !.queued = FALSE]
       \/ /\ failures < MaxFailures /\ failures' = failures + 1
          /\ battery.charge # Percent(voltage)
          /\ battery' = [battery EXCEPT !.queued = FALSE, !.charge = Percent(voltage), !.event = Percent(voltage)]
       \/ /\ battery' = [battery EXCEPT !.queued = FALSE, !.charge = Percent(voltage),
                                        !.event = Percent(voltage), !.bas = Percent(voltage)]
          /\ UNCHANGED failures
    /\ NoEvent
    /\ UNCHANGED <<power_build, activity, inactive, noted, usb, device, held, voltage>>

UsbChanges ==
    /\ Event /\ usb' = ~usb
    /\ UNCHANGED <<power_build, activity, inactive, noted, device, held, battery, voltage, failures>>
VoltageChanges ==
    /\ Event /\ voltage' \in Voltages \ {voltage}
    /\ UNCHANGED <<power_build, activity, inactive, noted, usb, device, held, battery, failures>>

PowerNext ==
    \/ KeyActivity \/ InputActivity \/ NoteWork \/ Second \/ PressSoftOff \/ ReleaseSoftOff \/ WakeUp
    \/ BatteryWork \/ UsbChanges \/ VoltageChanges

\* The queues run what was submitted, and time passes.
PowerFairness == WF_power_vars(Second) /\ WF_power_vars(NoteWork) /\ WF_power_vars(BatteryWork)
PowerSpec == PowerInit /\ [][PowerNext]_power_vars /\ PowerFairness

-----------------------------------------------------------------------------
(* Types; a percentage is one for every voltage. *)
PowerTypeOK ==
    /\ activity \in {"active", "idle", "sleep"} /\ inactive \in 0 .. 2 ^ Bits - 1
    /\ dev \in [Device -> [on : BOOLEAN, wake : BOOLEAN]] /\ slots \subseteq Device
    /\ battery.charge \in 0 .. 100 /\ battery.bas \in 0 .. 100

(* While the keyboard is on its devices are on, those that were suspended before
   one refused to sleep too; the exception is a soft off that fails after its
   first pass, which resumes only what its second pass has suspended. *)
DevicesRun == On /\ ~stranded => dev = StartDevices

(* What is switched off can be switched on: by the keys after it fell asleep; by
   the wakers alone after soft off.  A waker that fails to resume is ignored. *)
CanWake ==
    /\ off = "sleep" /\ ~stranded => dev[Kscan].on /\ dev[Kscan].wake
    /\ off = "soft" => ~dev[Kscan].wake /\ (failures = 0 => \A d \in Wakers : dev[d].on /\ dev[d].wake)

(* What listens to the activity was told before the devices were suspended, and
   nothing has started since: no timer runs in a keyboard that fell asleep. *)
SleepsQuietly == off = "sleep" => activity = "sleep" /\ ~battery.running

(* Left alone without USB power, a keyboard with the sleep option is switched off
   in the end, whatever refused to suspend, and when its time has wrapped around. *)
Asleep == power_build.sleep /\ ~usb => ~On
SleepsInTheEnd == []<><<KeyActivity>>_power_vars \/ <>[]Asleep

(* While the keyboard stays active the level that the host reads becomes the one
   that is measured, although a reading or a listener may fail. *)
LevelReported == []<>(~On \/ activity # "active" \/ battery.bas = Percent(voltage))

(* What is true of the devices whatever has been suspended, and what becomes true. *)
DevicesAgree == PowerTypeOK /\ DevicesRun /\ CanWake /\ SleepsQuietly
=============================================================================

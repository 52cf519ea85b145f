---------------------------- MODULE Power_proofs ----------------------------
(***************************************************************************)
(* Proofs about Power and AirMouse.  Power, for any devices and limits and *)
(* whatever refuses to be suspended: the devices of a keyboard that is on  *)
(* are on, and one that is off can be switched on.  AirMouse, for any      *)
(* build and any reading of the sensor: chip, buttons and LED follow what  *)
(* was asked of them, and a keyboard at rest does not move the pointer.    *)
(***************************************************************************)
EXTENDS Power, AirMouse, FiniteSetTheorems, WellFoundedInduction, TLAPS

DeviceState == [on : BOOLEAN, wake : BOOLEAN]
States == [Device -> DeviceState]
Percentage == 0 .. 100
BatteryState == [running : BOOLEAN, next : Nat, queued : BOOLEAN, charge : Percentage,
                 event : Percentage, bas : Percentage]

\* The inductive invariant of Power: the battery is measured while the keyboard is active.
PowerInv ==
    /\ activity \in {"active", "idle", "sleep"} /\ inactive \in 0 .. 2 ^ Bits - 1
    /\ dev \in States /\ slots \subseteq Device
    /\ off \in {"no", "sleep", "soft"} /\ stranded \in BOOLEAN
    /\ battery \in BatteryState /\ voltage \in Nat /\ failures \in Nat
    /\ battery.running <=> activity = "active"
    /\ DevicesRun /\ CanWake
    /\ off = "sleep" => activity = "sleep"

\* What neither the devices nor the power see.
DevicesSame == UNCHANGED <<dev, slots, off, stranded, failures>>
-----------------------------------------------------------------------------
LEMMA DeviceFacts ==
    /\ IsFiniteSet(Device) /\ Kscan \in Device /\ Wakers \subseteq Device /\ Kscan \notin Wakers
    /\ StartDevices \in States /\ StartDevices[Kscan] = [on |-> TRUE, wake |-> TRUE]
<1>1. IsFiniteSet(Device)
  <2>1. Devices \in [1 .. Len(Devices) -> Range(Devices)] /\ Len(Devices) \in Nat BY PowerAssumption
  <2>2. \A d \in Range(Devices) : \E i \in 1 .. Len(Devices) : Devices[i] = d BY <2>1 DEF Range
  <2>3. Devices \in Surjection(1 .. Len(Devices), Range(Devices)) BY <2>1, <2>2 DEF Surjection
  <2>4. IsFiniteSet(1 .. Len(Devices)) BY <2>1, FS_Interval
  <2> QED BY <2>3, <2>4, FS_Surjection DEF Device
<1>2. Kscan \in Device /\ Wakers \subseteq Device /\ Kscan \notin Wakers BY PowerAssumption DEF Device
<1>3. \A d \in Device : [on |-> d \notin Wakers, wake |-> d \in Wakers \union {Kscan}] \in DeviceState
  BY DEF DeviceState
<1>4. StartDevices \in States BY <1>3 DEF StartDevices, States
<1>5. StartDevices[Kscan] = [on |-> TRUE, wake |-> TRUE] BY <1>2 DEF StartDevices
<1> QED BY <1>1, <1>2, <1>4, <1>5

\* Whoever refuses is counted: none does when the count stays at nothing.
LEMMA NoneRefuses ==
    ASSUME NEW bad \in SUBSET Device, Refusing(bad), failures \in Nat
    PROVE  failures' \in Nat /\ (failures' = 0 => failures = 0 /\ bad = {})
<1>1. IsFiniteSet(bad) BY DeviceFacts, FS_Subset
<1>2. Cardinality(bad) \in Nat BY <1>1, FS_CardinalityType
<1>3. Cardinality(bad) = 0 => bad = {} BY <1>1, FS_EmptySet
<1> QED BY <1>2, <1>3 DEF Refusing

\* Suspending leaves alone what can wake the keyboard; resuming undoes it.
LEMMA SuspendUndone ==
    ASSUME NEW x \in States, NEW bad \in SUBSET Device
    PROVE  LET done == SuspendDevices(x, bad)
           IN  /\ done.dev \in States /\ done.slots \subseteq Device /\ done.ok \in BOOLEAN
               /\ \A d \in Device : x[d].wake => done.dev[d] = x[d]
               /\ \A d \in Device : done.dev[d].wake = x[d].wake
               /\ ResumeDevices(done.dev, done.slots) = x
<1> DEFINE stop == {d \in bad : Suspendable(x, d)}
           s == {Devices[i] : i \in {i \in DOMAIN Devices :
                    /\ Suspendable(x, Devices[i])
                    /\ \A j \in DOMAIN Devices : j >= i => Devices[j] \notin stop}}
           y == [d \in Device |-> IF d \in s THEN [x[d] EXCEPT !.on = FALSE] ELSE x[d]]
           done == SuspendDevices(x, bad)
<1>1. done = [dev |-> y, slots |-> s, ok |-> stop = {}] BY DEF SuspendDevices, SuspendUntil
<1>2. s \subseteq Device BY DEF Device, Range
<1>3. \A d \in s : x[d].on /\ ~x[d].wake BY DEF Suspendable
<1> HIDE DEF s, stop
<1>4. \A d \in Device : x[d] \in DeviceState BY DEF States
<1>5. ASSUME NEW d \in Device
      PROVE  /\ y[d] \in DeviceState /\ y[d].wake = x[d].wake
             /\ x[d].wake => y[d] = x[d]
             /\ (IF d \in s THEN Resume(y[d]) ELSE y[d]) = x[d]
  BY <1>3, <1>4 DEF DeviceState, Resume
<1>6. y \in States
  <2>1. y = [d \in Device |-> y[d]] OBVIOUS
  <2> HIDE DEF y
  <2> QED BY <1>5, <2>1 DEF States
<1>7. ResumeDevices(y, s) = x
  <2>1. x = [d \in Device |-> x[d]] BY DEF States
  <2> HIDE DEF y
  <2> QED BY <1>5, <2>1 DEF ResumeDevices
<1> HIDE DEF y
<1>8. done.dev = y /\ done.slots = s /\ done.ok \in BOOLEAN BY <1>1
<1> HIDE DEF done
<1>9. /\ done.dev \in States /\ done.slots \subseteq Device /\ done.ok \in BOOLEAN
      /\ \A d \in Device : x[d].wake => done.dev[d] = x[d]
      /\ \A d \in Device : done.dev[d].wake = x[d].wake
      /\ ResumeDevices(done.dev, done.slots) = x
  BY <1>2, <1>5, <1>6, <1>7, <1>8
<1> QED BY <1>9 DEF done

\* A measured level is a percentage.
LEMMA PercentIsOne == ASSUME NEW mv \in Nat PROVE Percent(mv) \in Percentage
<1>1. CASE mv >= 4200 BY <1>1 DEF Percent, Percentage
<1>2. CASE mv < 4200 /\ mv <= 3450 BY <1>2 DEF Percent, Percentage
<1>3. CASE mv < 4200 /\ mv > 3450
  <2>1. (mv * 2) \div 15 \in 460 .. 559 BY <1>3
  <2> QED BY <1>3, <2>1 DEF Percent, Percentage
<1> QED BY <1>1, <1>2, <1>3
-----------------------------------------------------------------------------
(* The activity and what listens to it. *)
LEMMA SetActivityKeeps ==
    ASSUME battery \in BatteryState, battery.running <=> activity = "active",
           NEW state \in {"active", "idle", "sleep"}, SetActivity(state)
    PROVE  activity' = state /\ battery' \in BatteryState /\ (battery'.running <=> activity' = "active")
  BY DEF SetActivity, BatteryListener, StartReporting, BatteryState

LEMMA StartBatteryFits == StartBattery \in BatteryState /\ StartBattery.running
<1>1. 0 \in Percentage /\ 100 \in Percentage BY DEF Percentage
<1> DEFINE b == [running |-> TRUE, next |-> 0, queued |-> FALSE, charge |-> 0, event |-> 0, bas |-> 100]
<1>2. b \in BatteryState BY <1>1 DEF BatteryState
<1>3. StartBattery = StartReporting(b) BY DEF StartBattery
<1> HIDE DEF b
<1>4. StartReporting(b) \in BatteryState /\ StartReporting(b).running
  BY <1>2 DEF StartReporting, BatteryState
<1> QED BY <1>3, <1>4

LEMMA TimerKeeps ==
    ASSUME battery \in BatteryState
    PROVE  BatteryTimer(battery) \in BatteryState /\ BatteryTimer(battery).running = battery.running
<1> DEFINE b == battery
<1>1. CASE ~b.running BY <1>1 DEF BatteryTimer
<1>2. CASE b.running /\ b.next = 0
  <2>1. BatteryTimer(b) = [b EXCEPT !.queued = TRUE, !.next = Period - 1] BY <1>2 DEF BatteryTimer
  <2>2. Period - 1 \in Nat BY PowerAssumption
  <2> QED BY <2>1, <2>2 DEF BatteryState
<1>3. CASE b.running /\ b.next > 0
  <2>1. b.next \in Nat BY DEF BatteryState
  <2>2. BatteryTimer(b) = [b EXCEPT !.next = @ - 1] BY <1>3, <2>1 DEF BatteryTimer
  <2>3. b.next - 1 \in Nat BY <1>3, <2>1
  <2> QED BY <2>2, <2>3 DEF BatteryState
<1>4. b.next \in Nat /\ b.running \in BOOLEAN BY DEF BatteryState
<1> QED BY <1>1, <1>2, <1>3, <1>4

\* Nothing but the activity, the battery and what is measured has changed.
LEMMA QuietKeeps ==
    ASSUME PowerInv, DevicesSame, On, activity' \in {"active", "idle", "sleep"},
           inactive' \in 0 .. 2 ^ Bits - 1, battery' \in BatteryState, voltage' \in Nat,
           battery'.running <=> activity' = "active"
    PROVE  PowerInv'
  BY DEF PowerInv, DevicesSame, On, DevicesRun, CanWake, StartDevices

\* A soft off, of a key that was active a moment ago.
LEMMA SoftOffKeeps ==
    ASSUME PowerInv, On, NEW first \in SUBSET Device, NEW second \in SUBSET Device,
           Refusing(first \union second), SoftOff(first, second), NoteActivity, voltage' = voltage
    PROVE  PowerInv'
<1> DEFINE x == PrepareSoftOff(dev, first)
<1>0. PowerInv BY DEF PowerInv
<1>1. x \in States /\ ~x[Kscan].wake /\ \A d \in Wakers : x[d].wake /\ (first = {} => x[d].on)
  <2> DEFINE y(d) == [on |-> IF d \in Wakers THEN dev[d].on \/ d \notin first ELSE dev[d].on /\ d \in first,
                      wake |-> d \in Wakers]
  <2>1. x = [d \in Device |-> y(d)] BY DEF PrepareSoftOff
  <2>2. ASSUME NEW d \in Device
        PROVE  y(d) \in DeviceState /\ (y(d).wake <=> d \in Wakers) /\ (d \in Wakers /\ first = {} => y(d).on)
    <3>1. dev[d] \in DeviceState BY DEF PowerInv, States
    <3>2. dev[d].on \in BOOLEAN BY <3>1 DEF DeviceState
    <3>3. ASSUME NEW p \in BOOLEAN
          PROVE  LET o == IF d \in Wakers THEN p \/ d \notin first ELSE p /\ d \in first
                 IN  o \in BOOLEAN /\ (d \in Wakers /\ first = {} => o)
      OBVIOUS
    <3>4. ASSUME NEW u \in BOOLEAN, NEW v \in BOOLEAN PROVE [on |-> u, wake |-> v] \in DeviceState
      BY DEF DeviceState
    <3> DEFINE o == IF d \in Wakers THEN dev[d].on \/ d \notin first ELSE dev[d].on /\ d \in first
    <3>5. o \in BOOLEAN /\ (d \in Wakers /\ first = {} => o) BY <3>2, <3>3, Zenon
    <3>6. (d \in Wakers) \in BOOLEAN OBVIOUS
    <3> HIDE DEF o
    <3>7. y(d) = [on |-> o, wake |-> d \in Wakers] BY DEF o
    <3>8. y(d) \in DeviceState BY <3>4, <3>5, <3>6, <3>7, Zenon
    <3>9. (y(d).wake <=> d \in Wakers) /\ (o => y(d).on) BY <3>7
    <3> HIDE DEF y
    <3> QED BY <3>5, <3>8, <3>9
  <2> HIDE DEF y, x
  <2>3. x \in States BY <2>1, <2>2 DEF States
  <2> QED BY <2>1, <2>2, <2>3, DeviceFacts
<1>2. failures' \in Nat /\ (failures' = 0 => first = {})
  <2>1. first \union second \in SUBSET Device /\ failures \in Nat BY DEF PowerInv
  <2> QED BY <2>1, NoneRefuses
<1>3. /\ activity' = "active" /\ battery' \in BatteryState /\ battery'.running
      /\ inactive' \in 0 .. 2 ^ Bits - 1
  BY SetActivityKeeps, PowerAssumption DEF PowerInv, NoteActivity
<1> HIDE DEF x
<1>4. PICK done : /\ done = SuspendDevices(x, second)
                  /\ off' = IF done.ok THEN "soft" ELSE off
                  /\ dev' = IF done.ok THEN done.dev ELSE ResumeDevices(done.dev, done.slots)
                  /\ slots' = IF done.ok THEN done.slots ELSE {}
                  /\ stranded' = (stranded \/ ~done.ok)
  BY DEF SoftOff, x
<1>5. /\ done.dev \in States /\ done.slots \subseteq Device /\ done.ok \in BOOLEAN
      /\ \A d \in Device : x[d].wake => done.dev[d] = x[d]
      /\ \A d \in Device : done.dev[d].wake = x[d].wake
      /\ ResumeDevices(done.dev, done.slots) = x
  BY <1>1, <1>4, SuspendUndone
<1>6. /\ dev' \in States /\ slots' \subseteq Device /\ off' \in {"no", "soft"} /\ stranded' \in BOOLEAN
      /\ off' = "no" => stranded'
  BY <1>1, <1>4, <1>5 DEF On, PowerInv
<1>7. off' = "soft" => ~dev[Kscan].wake' /\ (failures' = 0 => \A d \in Wakers : dev[d].on' /\ dev[d].wake')
  BY <1>1, <1>2, <1>4, <1>5, DeviceFacts DEF On
<1>8. DevicesRun' /\ CanWake' BY <1>6, <1>7 DEF DevicesRun, CanWake, On
<1> QED BY <1>2, <1>3, <1>6, <1>8 DEF PowerInv

\* The work of a second.
LEMMA SecondKeeps ==
    ASSUME PowerInv, Second
    PROVE  PowerInv'
<1> DEFINE n == (inactive + 1) % 2 ^ Bits
           b == BatteryTimer(battery)
<1>1. PICK bad \in SUBSET Device : Refusing(bad) /\ ActivityWork(n, b, bad) BY DEF Second
<1>2. On /\ inactive' = n /\ UNCHANGED <<stranded, voltage>> BY DEF Second
<1>3. n \in 0 .. 2 ^ Bits - 1
  <2> DEFINE m == 2 ^ Bits
  <2>1. m \in Nat \ {0} /\ inactive \in Nat BY PowerAssumption DEF PowerInv
  <2> HIDE DEF m
  <2>2. (inactive + 1) % m \in 0 .. m - 1 BY <2>1
  <2> QED BY <2>2 DEF m
<1>4. b \in BatteryState /\ b.running = battery.running BY TimerKeeps DEF PowerInv
<1>5. failures' \in Nat BY <1>1, NoneRefuses DEF PowerInv
<1> HIDE DEF n, b
<1> DEFINE sleeps == power_build.sleep /\ Inactive(n) > MaxSleep /\ ~usb
           state == IF sleeps THEN "sleep" ELSE IF Inactive(n) > MaxIdle THEN "idle" ELSE activity
<1>6. /\ activity' = state /\ battery' = IF state = activity THEN b ELSE BatteryListener(b, state)
      /\ IF sleeps THEN SleepDevices(bad) ELSE UNCHANGED <<dev, slots, off>>
  BY <1>1 DEF ActivityWork
<1>7. sleeps \in BOOLEAN /\ state \in {"active", "idle", "sleep"} /\ (sleeps => state = "sleep") BY DEF PowerInv
<1> HIDE DEF state, sleeps
<1>8. activity' \in {"active", "idle", "sleep"} /\ battery' \in BatteryState
      /\ (battery'.running <=> activity' = "active")
  BY <1>4, <1>6, <1>7 DEF PowerInv, BatteryListener, StartReporting, BatteryState
<1>9. CASE ~sleeps
  <2>1. UNCHANGED <<dev, slots, off>> BY <1>6, <1>9
  <2>2. DevicesRun' /\ CanWake' BY <1>2, <2>1 DEF PowerInv, DevicesRun, CanWake, On, StartDevices
  <2> QED BY <1>2, <1>3, <1>5, <1>8, <2>1, <2>2 DEF PowerInv, On
<1>10. CASE sleeps
  <2>1. PICK done : /\ done = SuspendDevices(dev, bad)
                    /\ IF done.ok THEN off' = "sleep" /\ dev' = done.dev /\ slots' = done.slots
                       ELSE off' = off /\ dev' = ResumeDevices(done.dev, done.slots) /\ slots' = {}
    BY <1>6, <1>10 DEF SleepDevices
  <2>2. /\ done.dev \in States /\ done.slots \subseteq Device /\ done.ok \in BOOLEAN
        /\ \A d \in Device : dev[d].wake => done.dev[d] = dev[d]
        /\ ResumeDevices(done.dev, done.slots) = dev
    <3>1. dev \in States BY DEF PowerInv
    <3> QED BY <2>1, <3>1, SuspendUndone
  <2>3. CASE done.ok
    <3>1. dev' \in States /\ slots' \subseteq Device /\ off' = "sleep" BY <2>1, <2>2, <2>3
    <3>2. ~stranded => dev[Kscan]' = [on |-> TRUE, wake |-> TRUE]
      BY <1>2, <2>1, <2>2, <2>3, DeviceFacts DEF PowerInv, DevicesRun
    <3>3. DevicesRun' /\ CanWake' BY <1>2, <3>1, <3>2 DEF DevicesRun, CanWake, On
    <3> QED BY <1>2, <1>3, <1>5, <1>6, <1>7, <1>8, <1>10, <3>1, <3>3 DEF PowerInv
  <2>4. CASE ~done.ok
    <3>1. dev' = dev /\ off' = off /\ slots' = {} BY <2>1, <2>2, <2>4
    <3>2. DevicesRun' /\ CanWake' BY <1>2, <3>1 DEF PowerInv, DevicesRun, CanWake, On, StartDevices
    <3> QED BY <1>2, <1>3, <1>5, <1>8, <3>1, <3>2 DEF PowerInv, On
  <2> QED BY <2>2, <2>3, <2>4
<1> QED BY <1>7, <1>9, <1>10
-----------------------------------------------------------------------------
LEMMA PowerStarts == PowerInit => PowerInv
<1> SUFFICES ASSUME PowerInit PROVE PowerInv OBVIOUS
<1>1. battery \in BatteryState /\ battery.running
  BY StartBatteryFits DEF PowerInit
<1>2. voltage \in Nat /\ inactive \in 0 .. 2 ^ Bits - 1 BY PowerAssumption DEF PowerInit
<1> QED BY <1>1, <1>2, DeviceFacts DEF PowerInit, PowerInv, DevicesRun, CanWake

LEMMA PowerSteps == PowerInv /\ [PowerNext]_power_vars => PowerInv'
<1> SUFFICES ASSUME PowerInv, [PowerNext]_power_vars PROVE PowerInv' OBVIOUS
<1>0. /\ battery \in BatteryState /\ (battery.running <=> activity = "active") /\ voltage \in Nat
      /\ inactive \in 0 .. 2 ^ Bits - 1 /\ 0 \in 0 .. 2 ^ Bits - 1 /\ failures \in Nat
      /\ activity \in {"active", "idle", "sleep"}
  BY PowerAssumption DEF PowerInv
<1>1. CASE KeyActivity
  <2>1. On /\ DevicesSame /\ NoteActivity /\ voltage' = voltage
    BY <1>0, <1>1 DEF KeyActivity, DevicesSame, device
  <2>2. inactive' = 0 /\ SetActivity("active") BY <2>1 DEF NoteActivity
  <2> QED BY <1>0, <2>1, <2>2, SetActivityKeeps, QuietKeeps
<1>2. CASE InputActivity
  <2>1. On /\ DevicesSame /\ UNCHANGED <<inactive, activity, battery, voltage>>
    BY <1>2 DEF InputActivity, DevicesSame, device
  <2> QED BY <1>0, <2>1, QuietKeeps
<1>3. CASE NoteWork
  <2>1. On /\ DevicesSame /\ NoteActivity /\ voltage' = voltage
    BY <1>0, <1>3 DEF NoteWork, DevicesSame, device
  <2>2. inactive' = 0 /\ SetActivity("active") BY <2>1 DEF NoteActivity
  <2> QED BY <1>0, <2>1, <2>2, SetActivityKeeps, QuietKeeps
<1>4. CASE Second BY <1>4, SecondKeeps
<1>5. CASE PressSoftOff
  <2>1. On /\ NoteActivity /\ voltage' = voltage BY <1>5 DEF PressSoftOff
  <2>2. CASE power_build.peripheral /\ power_build.offOnPress
    <3>1. PICK first \in SUBSET Device, second \in SUBSET Device :
             Refusing(first \union second) /\ SoftOff(first, second)
      BY <1>5, <2>2 DEF PressSoftOff
    <3> QED BY <2>1, <3>1, SoftOffKeeps
  <2>3. CASE ~(power_build.peripheral /\ power_build.offOnPress)
    <3>1. DevicesSame BY <1>5, <2>3 DEF PressSoftOff, DevicesSame, device
    <3>2. inactive' = 0 /\ SetActivity("active") BY <2>1 DEF NoteActivity
    <3> QED BY <1>0, <2>1, <3>1, <3>2, SetActivityKeeps, QuietKeeps
  <2> QED BY <2>2, <2>3
<1>6. CASE ReleaseSoftOff
  <2>1. On /\ NoteActivity /\ voltage' = voltage BY <1>6 DEF ReleaseSoftOff
  <2>2. CASE power_build.hold = 0 \/ held > power_build.hold
    <3>1. PICK first \in SUBSET Device, second \in SUBSET Device :
             Refusing(first \union second) /\ SoftOff(first, second)
      BY <1>6, <2>2 DEF ReleaseSoftOff
    <3> QED BY <2>1, <3>1, SoftOffKeeps
  <2>3. CASE ~(power_build.hold = 0 \/ held > power_build.hold)
    <3>1. DevicesSame BY <1>6, <2>3 DEF ReleaseSoftOff, DevicesSame, device
    <3>2. inactive' = 0 /\ SetActivity("active") BY <2>1 DEF NoteActivity
    <3> QED BY <1>0, <2>1, <3>1, <3>2, SetActivityKeeps, QuietKeeps
  <2> QED BY <2>2, <2>3
<1>7. CASE WakeUp
  <2>1. /\ activity' = "active" /\ inactive' = 0 /\ dev' = StartDevices /\ slots' = {} /\ off' = "no"
        /\ stranded' = FALSE /\ battery' = StartBattery /\ voltage' = voltage /\ failures' = failures
    BY <1>7 DEF WakeUp
  <2>2. battery' \in BatteryState /\ battery'.running
    BY <2>1, StartBatteryFits
  <2>3. DevicesRun' /\ CanWake' BY <2>1 DEF DevicesRun, CanWake, StartDevices
  <2> QED BY <1>0, <2>1, <2>2, <2>3, DeviceFacts DEF PowerInv
<1>8. CASE BatteryWork
  <2>1. On /\ UNCHANGED <<activity, inactive, voltage, dev, slots, off, stranded>> /\ failures' \in Nat
    BY <1>0, <1>8 DEF BatteryWork, device
  <2>2. failures' = 0 => failures = 0 BY <1>0, <1>8 DEF BatteryWork
  <2>3. battery' \in BatteryState /\ battery'.running = battery.running
    <3>1. Percent(voltage) \in Percentage BY <1>0, PercentIsOne
    <3> QED BY <1>0, <1>8, <3>1 DEF BatteryWork, BatteryState
  <2>4. DevicesRun' /\ CanWake' BY <2>1 DEF PowerInv, DevicesRun, CanWake, On, StartDevices
  <2> QED BY <1>0, <2>1, <2>3, <2>4 DEF PowerInv, On
<1>9. CASE UsbChanges
  <2>1. UNCHANGED <<activity, inactive, battery, voltage, dev, slots, off, stranded, failures>>
    BY <1>9 DEF UsbChanges, device
  <2> QED BY <2>1 DEF PowerInv, DevicesRun, CanWake, On, StartDevices
<1>10. CASE VoltageChanges
  <2>1. UNCHANGED <<activity, inactive, battery, dev, slots, off, stranded, failures>> /\ voltage' \in Nat
    BY <1>10, PowerAssumption DEF VoltageChanges, device
  <2> QED BY <2>1 DEF PowerInv, DevicesRun, CanWake, On, StartDevices
<1>11. CASE UNCHANGED power_vars
  <2>1. UNCHANGED <<activity, inactive, battery, voltage, dev, slots, off, stranded, failures>>
    BY <1>11 DEF power_vars
  <2> QED BY <2>1 DEF PowerInv, DevicesRun, CanWake, On, StartDevices
<1> QED BY <1>1, <1>2, <1>3, <1>4, <1>5, <1>6, <1>7, <1>8, <1>9, <1>10, <1>11 DEF PowerNext

\* Whatever refuses to be suspended, and in whatever order keys, timers and USB act: a
\* keyboard that is on has its devices on, one that sleeps is woken by its keys and one that
\* is switched off by its wakers, nothing runs in one that sleeps, and the level that is
\* reported is a percentage.
THEOREM DevicesAlwaysAgree == PowerSpec => []DevicesAgree
<1>1. PowerInv => DevicesAgree
  BY DEF PowerInv, DevicesAgree, PowerTypeOK, SleepsQuietly, States, DeviceState, BatteryState, Percentage
<1>2. PowerSpec => []PowerInv BY PowerStarts, PowerSteps, PTL DEF PowerSpec
<1> QED BY <1>1, <1>2, PTL
-----------------------------------------------------------------------------
(***************************************************************************)
(* AirMouse.                                                               *)
(***************************************************************************)
AirBuild == [odr : Nat, fs : Nat, g : Nat, trigger : BOOLEAN, air : BOOLEAN, led : BOOLEAN,
             bars : SUBSET {"left", "space", "right"}]
Imu == [written : SUBSET Range(Registers), ready : BOOLEAN, handler : BOOLEAN, armed : BOOLEAN, work : BOOLEAN]
Air == [ok : BOOLEAN, phase : {"idle", "discarding", "collecting", "ready"}, count : Nat, sum : Int,
        bias : Int, active : BOOLEAN]
AirHost == [counts : [SpaceButtons -> 0 .. 1], buttons : SUBSET SpaceButtons, space : BOOLEAN]
Modes == {"off", "m1", "m2"}

\* The chip: what is polled was configured, and an interrupt that is wanted comes.
ImuInv ==
    /\ air_build \in AirBuild /\ imu \in Imu /\ rate \in Int
    /\ imu.ready => imu.written = {Registers[i] : i \in DOMAIN Registers} /\ Supported
    /\ DataReadyArmed

\* The calibration: how many samples there are in each phase, and what those of a keyboard
\* at rest, which reads r, add up to.
CalFits(a, r, still) ==
    /\ a \in Air
    /\ a.phase = "idle" => a.count = 0
    /\ a.phase = "discarding" => a.count < Discard
    /\ a.phase = "collecting" => a.count < Collect
    /\ a.phase = "ready" => a.count <= Collect
    /\ still /\ a.phase = "collecting" => a.sum = a.count * r
    /\ still /\ a.phase = "ready" => a.bias = Collect * r
CalInv ==
    /\ CalFits(air, rate, ~turned)
    /\ air_moved \in -127 .. 127 /\ turned \in BOOLEAN
    /\ air.ok => imu.ready

\* The buttons and the space that the host sees are those of the bars that are down.
BarsInv ==
    /\ mode \in Modes /\ space_held \subseteq Roles /\ since \in [Roles -> Modes] /\ air_host \in AirHost
    /\ asMouse = {r \in space_held : r # "space" /\ since[r] # "off"}
    /\ air_host.buttons = asMouse
    /\ \A b \in SpaceButtons : air_host.counts[b] = 1 <=> b \in asMouse
    /\ air_host.space => space_held \ asMouse # {}

\* The LED, by where it is in its cycle.
Led == [mode : {"boot", "usb", "battery", "flash"}, phase : Nat, flash : {"dark", "red", "green", "blue"},
        shows : {"dark", "red", "green", "blue"}]
LedInv ==
    /\ led \in Led /\ led_usb \in BOOLEAN /\ LedFollows
    /\ led.mode = "battery" => led.phase \in 0 .. 3
    /\ led.mode = "boot" => led.phase \in 0 .. 6
    /\ led.mode = "usb" => led.phase \in 0 .. 5

AirInv == ImuInv /\ CalInv /\ BarsInv /\ LedInv
-----------------------------------------------------------------------------
(* The rate of the chip. *)
LEMMA Nine ==
    /\ DOMAIN OdrMap = 1 .. 9 /\ Len(OdrMap) = 9 /\ \A i \in 1 .. 9 : OdrMap[i] \in Nat
    /\ DOMAIN Registers = 1 .. 5 /\ Len(Registers) = 5
  BY DEF OdrMap, Registers

\* A set of numbers that is not empty has one whose predecessor is not in it.
LEMMA FirstOf ==
    ASSUME NEW T, T \subseteq Nat, T # {}
    PROVE  \E m \in T : m - 1 \notin T
<1> DEFINE R == {ss \in Nat \X Nat : ss[1] < ss[2]}
<1>1. IsWellFoundedOn(R, Nat) BY NatLessThanWellFounded DEF OpToRel
<1> HIDE DEF R
<1>2. PICK m \in T : \A y \in T : ~(<<y, m>> \in R) BY <1>1, WFMin
<1>3. m \in Nat OBVIOUS
<1>4. CASE m - 1 \in T
  <2>1. m - 1 \in Nat /\ m - 1 < m BY <1>3, <1>4
  <2>2. <<m - 1, m>> \in R BY <1>3, <2>1 DEF R
  <2> QED BY <1>2, <1>4, <2>2
<1> QED BY <1>4

Nearer(hz, i, b) == IF Distance(OdrMap[i], hz) < Distance(OdrMap[b], hz) THEN i ELSE b
IsSearch(hz, m, f) == f = [i \in 1 .. m |-> IF i = 1 THEN 1 ELSE Nearer(hz, i, f[i - 1])]

LEMMA SearchExists ==
    ASSUME NEW hz
    PROVE  \A m \in Nat : \E f : IsSearch(hz, m, f)
<1> DEFINE T == {m \in Nat : ~\E f : IsSearch(hz, m, f)}
<1>1. SUFFICES ASSUME T # {} PROVE FALSE OBVIOUS
<1>2. T \subseteq Nat OBVIOUS
<1>3. PICK m \in T : m - 1 \notin T BY <1>1, <1>2, FirstOf
<1>4. m \in Nat /\ ~\E f : IsSearch(hz, m, f) OBVIOUS
<1>5. CASE m = 0
  <2> DEFINE f == [i \in 1 .. 0 |-> 1]
  <2>1. IsSearch(hz, 0, f) BY DEF IsSearch
  <2> QED BY <1>4, <1>5, <2>1
<1>6. CASE m # 0
  <2>1. m - 1 \in Nat BY <1>4, <1>6
  <2>2. PICK g : IsSearch(hz, m - 1, g) BY <1>3, <2>1
  <2> HIDE DEF T
  <2> DEFINE f == [i \in 1 .. m |-> IF i = m THEN IF i = 1 THEN 1 ELSE Nearer(hz, i, g[m - 1]) ELSE g[i]]
  <2>3. ASSUME NEW i \in 1 .. m PROVE f[i] = IF i = 1 THEN 1 ELSE Nearer(hz, i, f[i - 1])
    <3>1. CASE i = m
      <4>1. f[i] = IF i = 1 THEN 1 ELSE Nearer(hz, i, g[m - 1]) BY <3>1
      <4>2. CASE i = 1 BY <4>1, <4>2
      <4>3. CASE i # 1
        <5>1. i - 1 \in 1 .. m /\ i - 1 # m /\ i - 1 = m - 1 BY <1>4, <3>1, <4>3
        <5>2. f[i - 1] = g[m - 1] BY <5>1
        <5> HIDE DEF f
        <5> QED BY <4>1, <4>3, <5>2
      <4> QED BY <4>2, <4>3
    <3>2. CASE i # m
      <4>1. i \in 1 .. m - 1 BY <1>4, <3>2
      <4>2. g[i] = IF i = 1 THEN 1 ELSE Nearer(hz, i, g[i - 1]) BY <2>2, <4>1 DEF IsSearch
      <4>3. f[i] = g[i] BY <3>2
      <4>4. CASE i = 1 BY <4>2, <4>3, <4>4
      <4>5. CASE i # 1
        <5>1. i - 1 \in 1 .. m /\ i - 1 # m BY <1>4, <3>2, <4>5
        <5>2. f[i - 1] = g[i - 1] BY <5>1
        <5> HIDE DEF f
        <5> QED BY <4>2, <4>3, <4>5, <5>2
      <4> QED BY <4>4, <4>5
    <3> QED BY <3>1, <3>2
  <2>4. f = [i \in 1 .. m |-> f[i]] OBVIOUS
  <2> HIDE DEF f
  <2>5. IsSearch(hz, m, f) BY <2>3, <2>4 DEF IsSearch
  <2> QED BY <1>4, <2>5
<1> QED BY <1>5, <1>6

\* The search finds the rate that is nearest to the one that is asked for.
LEMMA NearestIsSelected ==
    ASSUME NEW hz \in Nat
    PROVE  /\ SelectOdr(hz) \in DOMAIN OdrMap
           /\ \A i \in DOMAIN OdrMap : Distance(OdrMap[SelectOdr(hz)], hz) <= Distance(OdrMap[i], hz)
<1> DEFINE P(g) == g = [i \in DOMAIN OdrMap |->
                            IF i = 1 THEN 1
                            ELSE IF Distance(OdrMap[i], hz) < Distance(OdrMap[g[i - 1]], hz) THEN i ELSE g[i - 1]]
           f == CHOOSE g : P(g)
           D(i) == Distance(OdrMap[i], hz)
           Best(i) == f[i] \in 1 .. i /\ \A j \in 1 .. i : D(f[i]) <= D(j)
           T == {m \in 1 .. 9 : ~Best(m)}
<1>1. P(f)
  <2>1. \E g : P(g)
    <3>1. PICK g : IsSearch(hz, 9, g) BY SearchExists
    <3>2. P(g) BY <3>1, Nine DEF IsSearch, Nearer
    <3> QED BY <3>2
  <2> HIDE DEF P
  <2> QED BY <2>1, Zenon
<1>2. SelectOdr(hz) = f[Len(OdrMap)] BY DEF SelectOdr
<1>3. \A i \in 1 .. 9 : f[i] = IF i = 1 THEN 1 ELSE IF D(i) < D(f[i - 1]) THEN i ELSE f[i - 1]
  BY <1>1, Nine
<1> HIDE DEF f
<1>4. \A i \in 1 .. 9 : D(i) \in Int BY Nine DEF Distance
<1> HIDE DEF D
<1>5. ASSUME T # {} PROVE FALSE
  <2>1. T \subseteq Nat OBVIOUS
  <2>2. PICK m \in T : m - 1 \notin T BY <1>5, <2>1, FirstOf
  <2>3. m \in 1 .. 9 /\ ~Best(m) OBVIOUS
  <2>4. m # 1
    <3>1. f[1] = 1 BY <1>3
    <3> QED BY <1>4, <2>3, <3>1
  <2>5. m - 1 \in 1 .. 9 /\ m - 1 < m BY <2>3, <2>4
  <2>6. Best(m - 1) BY <2>2, <2>5
  <2>7. f[m] = IF D(m) < D(f[m - 1]) THEN m ELSE f[m - 1] BY <1>3, <2>3, <2>4
  <2>8. f[m - 1] \in 1 .. m - 1 /\ \A j \in 1 .. m - 1 : D(f[m - 1]) <= D(j) BY <2>6
  <2>9. D(m) \in Int /\ D(f[m - 1]) \in Int /\ \A j \in 1 .. m : D(j) \in Int BY <1>4, <2>3, <2>5, <2>8
  <2>10. f[m] \in 1 .. m /\ \A j \in 1 .. m - 1 : D(f[m]) <= D(j)
    <3>1. CASE D(m) < D(f[m - 1])
      <4>1. f[m] = m BY <2>7, <3>1
      <4>2. \A j \in 1 .. m - 1 : D(m) <= D(j) BY <2>3, <2>8, <2>9, <3>1
      <4> QED BY <2>3, <4>1, <4>2
    <3>2. CASE ~(D(m) < D(f[m - 1]))
      <4>1. f[m] = f[m - 1] BY <2>7, <3>2
      <4> QED BY <2>3, <2>8, <4>1
    <3> QED BY <3>1, <3>2
  <2>11. D(f[m]) <= D(m)
    <3>1. CASE D(m) < D(f[m - 1]) BY <2>7, <2>9, <3>1
    <3>2. CASE ~(D(m) < D(f[m - 1])) BY <2>7, <2>9, <3>2
    <3> QED BY <3>1, <3>2
  <2>12. \A j \in 1 .. m : j \in 1 .. m - 1 \/ j = m BY <2>3
  <2> QED BY <2>3, <2>10, <2>11, <2>12
<1>6. Best(9) BY <1>5
<1> QED BY <1>2, <1>6, Nine DEF D
-----------------------------------------------------------------------------
(* From rates to movement. *)
LEMMA ClampBounds == ASSUME NEW a \in Int, NEW max \in Nat PROVE Clamp(a, max) \in -max .. max
  BY DEF Clamp

LEMMA TruncIsNumber ==
    ASSUME NEW a \in Int, NEW b \in Nat \ {0}
    PROVE  AirTrunc(a, b) \in Int
<1>1. a \div b \in Int /\ (-a) \div b \in Int OBVIOUS
<1> QED BY <1>1 DEF AirTrunc

LEMMA MovementFits ==
    ASSUME NEW a \in Int, NEW unit \in Nat \ {0}
    PROVE  RateToCursor(a, unit) \in -127 .. 127 /\ AccelToMouse(a) \in -127 .. 127
<1>1. RateToCursor(a, unit) \in -127 .. 127
  <2> DEFINE x == AirTrunc(2 * a, 5 * unit)
  <2>1. 2 * a \in Int /\ 5 * unit \in Nat \ {0} OBVIOUS
  <2>2. x \in Int BY <2>1, TruncIsNumber
  <2> HIDE DEF x
  <2>3. Clamp(x, 127) \in -127 .. 127 BY <2>2, ClampBounds
  <2> QED BY <2>3 DEF RateToCursor, x
<1>2. AccelToMouse(a) \in -127 .. 127
  <2> DEFINE x == AirTrunc(3 * a, 100)
  <2>1. x \in Int BY TruncIsNumber
  <2> HIDE DEF x
  <2>2. Clamp(x, 15) \in -15 .. 15 BY <2>1, ClampBounds
  <2> QED BY <2>2 DEF AccelToMouse, x
<1> QED BY <1>1, <1>2

LEMMA NoRateNoMovement == ASSUME NEW unit \in Nat \ {0} PROVE RateToCursor(0, unit) = 0
<1>1. Abs(0) = 0 BY DEF Abs
<1>2. 2 * 0 < 3 * unit OBVIOUS
<1> QED BY <1>1, <1>2 DEF RateToCursor
-----------------------------------------------------------------------------
(* Starting. *)
LEMMA ConfiguredFits ==
    ASSUME air_build \in AirBuild, NEW n \in 0 .. Len(Registers), NEW irq \in BOOLEAN
    PROVE  LET i == Configured(n, irq)
           IN  /\ i \in Imu /\ ~i.handler
               /\ i.ready => i.written = {Registers[k] : k \in DOMAIN Registers} /\ Supported
<1> DEFINE all == IF Supported \/ n = 0 THEN n ELSE 1
           w == {Registers[k] : k \in 1 .. all}
           i == Configured(n, irq)
<1>1. n \in 0 .. 5 BY Nine
<1>2. all \in 0 .. 5 BY <1>1
<1>3. i = [written |-> w, ready |-> (all = 5 /\ irq), handler |-> FALSE, armed |-> FALSE, work |-> FALSE]
  BY Nine DEF Configured
<1>4. all = 5 => Supported BY <1>1
<1>5. all = 5 => w = {Registers[k] : k \in DOMAIN Registers} BY Nine
<1>6. w \subseteq Range(Registers) BY <1>2, Nine DEF Range
<1>7. (all = 5 /\ irq) \in BOOLEAN OBVIOUS
<1> HIDE DEF w, all, i
<1>8. /\ i.written = w /\ (i.ready <=> all = 5 /\ irq) /\ i.ready \in BOOLEAN /\ ~i.handler
      /\ i \in Imu
  <2> DEFINE b == all = 5 /\ irq
  <2>1. b \in BOOLEAN OBVIOUS
  <2>2. i = [written |-> w, ready |-> b, handler |-> FALSE, armed |-> FALSE, work |-> FALSE] BY <1>3
  <2>3. b <=> all = 5 /\ irq OBVIOUS
  <2> HIDE DEF b
  <2> QED BY <1>6, <2>1, <2>2, <2>3 DEF Imu
<1>9. i \in Imu /\ ~i.handler /\ (i.ready => i.written = {Registers[k] : k \in DOMAIN Registers} /\ Supported)
  BY <1>4, <1>5, <1>8
<1> QED BY <1>9 DEF i

LEMMA AirStarts == AirInit => AirInv
<1> SUFFICES ASSUME AirInit PROVE AirInv OBVIOUS
<1>1. air_build \in AirBuild BY AirAssumption DEF AirInit, AirBuild
<1>2. ImuInv
  <2>1. PICK n \in 0 .. Len(Registers), irq \in InitInterrupt : imu = Configured(n, irq) BY DEF AirInit
  <2>2. irq \in BOOLEAN BY <2>1 DEF InitInterrupt
  <2>3. /\ imu \in Imu /\ ~imu.handler
        /\ imu.ready => imu.written = {Registers[k] : k \in DOMAIN Registers} /\ Supported
    BY <1>1, <2>1, <2>2, ConfiguredFits
  <2>4. rate \in Int BY AirAssumption DEF AirInit
  <2> QED BY <1>1, <2>3, <2>4 DEF ImuInv, DataReadyArmed
<1>3. CalInv
  <2>1. air = [ok |-> FALSE, phase |-> "idle", count |-> 0, sum |-> 0, bias |-> 0, active |-> FALSE]
    BY DEF AirInit, StartAir
  <2>2. air \in Air /\ ~air.ok /\ air.phase = "idle" /\ air.count = 0 BY <2>1 DEF Air
  <2>3. air_moved = 0 /\ turned = FALSE BY DEF AirInit
  <2>4. air_moved \in -127 .. 127 BY <2>3
  <2>5. turned \in BOOLEAN BY <2>3
  <2>6. CalFits(air, rate, ~turned) BY <2>2 DEF CalFits
  <2> QED BY <2>2, <2>4, <2>5, <2>6 DEF CalInv
<1>4. BarsInv
  <2>1. /\ mode = "off" /\ space_held = {} /\ asMouse = {} /\ since = [r \in Roles |-> "off"]
        /\ air_host = [counts |-> [b \in SpaceButtons |-> 0], buttons |-> {}, space |-> FALSE]
    BY DEF AirInit
  <2>2. [b \in SpaceButtons |-> 0] \in [SpaceButtons -> 0 .. 1] OBVIOUS
  <2>3. air_host \in AirHost /\ \A b \in SpaceButtons : air_host.counts[b] = 0 BY <2>1, <2>2 DEF AirHost
  <2> QED BY <2>1, <2>3 DEF BarsInv, Modes
<1>5. LedInv
  <2>1. led = [mode |-> "boot", phase |-> 0, flash |-> "dark", shows |-> "dark"] /\ led_usb \in BOOLEAN
    BY DEF AirInit, StartLed
  <2>2. led \in Led /\ led.mode = "boot" /\ led.phase = 0 BY <2>1 DEF Led
  <2> QED BY <2>1, <2>2 DEF LedInv, LedFollows
<1> QED BY <1>2, <1>3, <1>4, <1>5 DEF AirInv

LEMMA ImuSteps == ImuInv /\ [AirNext]_air_vars => ImuInv'
<1> SUFFICES ASSUME ImuInv, [AirNext]_air_vars PROVE ImuInv' OBVIOUS
<1>1. CASE TriggerSet \/ DataReady \/ TriggerWork
  <2>1. UNCHANGED <<air_build, rate>> BY <1>1 DEF TriggerSet, DataReady, TriggerWork
  <2>2. /\ imu' \in Imu /\ imu'.ready = imu.ready /\ imu'.written = imu.written
        /\ imu'.handler => imu'.armed \/ imu'.work
    <3>1. imu \in Imu /\ (imu.handler => imu.armed \/ imu.work) BY DEF ImuInv, DataReadyArmed
    <3>2. CASE TriggerSet
      <4>1. PICK on \in BOOLEAN : imu' = [imu EXCEPT !.handler = on, !.armed = on] BY <3>2 DEF TriggerSet
      <4> QED BY <3>1, <4>1 DEF Imu
    <3>3. CASE DataReady BY <3>1, <3>3 DEF DataReady, Imu
    <3>4. CASE TriggerWork BY <3>1, <3>4 DEF TriggerWork, Imu
    <3> QED BY <1>1, <3>2, <3>3, <3>4
  <2> QED BY <2>1, <2>2 DEF ImuInv, DataReadyArmed, Supported
<1>2. CASE Turn
  <2>1. UNCHANGED <<air_build, imu>> /\ rate' \in Int BY <1>2, AirAssumption DEF Turn
  <2> QED BY <2>1 DEF ImuInv, DataReadyArmed, Supported
<1>3. CASE UNCHANGED imuVars
  <2>1. UNCHANGED <<air_build, imu, rate>> BY <1>3 DEF imuVars
  <2> QED BY <2>1 DEF ImuInv, DataReadyArmed, Supported
<1>4. CASE Probe \/ Poll \/ RgbWork \/ UsbChanged \/ ToggleMouse BY <1>3, <1>4 DEF Probe, Poll, RgbWork, UsbChanged, ToggleMouse
<1>5. CASE \E role \in Roles : PressSpaceBar(role) \/ ReleaseSpaceBar(role)
  BY <1>3, <1>5 DEF PressSpaceBar, ReleaseSpaceBar
<1>6. CASE UNCHANGED air_vars BY <1>3, <1>6 DEF air_vars, imuVars
<1> QED BY <1>1, <1>2, <1>4, <1>5, <1>6 DEF AirNext

-----------------------------------------------------------------------------
(* The calibration. *)
LEMMA TickKeeps ==
    ASSUME NEW a, NEW r \in Int, NEW still \in BOOLEAN, CalFits(a, r, still)
    PROVE  CalFits(CalTick(a, r), r, still) /\ CalTick(a, r).ok = a.ok
<1> DEFINE b == CalTick(a, r)
           Goal == CalFits(b, r, still) /\ b.ok = a.ok
<1> USE DEF CalFits
<1>a. a \in Air OBVIOUS
<1>0. Discard \in Nat \ {0} /\ Collect \in Nat \ {0} BY AirAssumption
<1>1. /\ a.count \in Nat /\ a.sum \in Int /\ a.bias \in Int /\ a.ok \in BOOLEAN /\ a.active \in BOOLEAN
      /\ a.phase \in {"idle", "discarding", "collecting", "ready"}
  BY <1>a DEF Air
<1>9. a = [ok |-> a.ok, phase |-> a.phase, count |-> a.count, sum |-> a.sum, bias |-> a.bias, active |-> a.active]
  BY <1>a DEF Air
<1>2. ASSUME a.phase = "idle" PROVE Goal
  <2>1. b = [ok |-> a.ok, phase |-> "discarding", count |-> 0, sum |-> a.sum, bias |-> a.bias, active |-> a.active]
    BY <1>2, <1>9 DEF CalTick
  <2> HIDE DEF b
  <2>2. b \in Air /\ b.ok = a.ok /\ b.phase = "discarding" /\ b.count = 0 BY <1>1, <2>1 DEF Air
  <2> QED BY <1>0, <2>2
<1>3. ASSUME a.phase = "discarding" /\ a.count + 1 >= Discard PROVE Goal
  <2>1. b = [ok |-> a.ok, phase |-> "collecting", count |-> 0, sum |-> 0, bias |-> a.bias, active |-> a.active]
    BY <1>3, <1>9 DEF CalTick
  <2> HIDE DEF b
  <2>2. b \in Air /\ b.ok = a.ok /\ b.phase = "collecting" /\ b.count = 0 /\ b.sum = 0 BY <1>1, <2>1 DEF Air
  <2>3. 0 * r = 0 OBVIOUS
  <2> QED BY <1>0, <2>2, <2>3
<1>4. ASSUME a.phase = "discarding" /\ ~(a.count + 1 >= Discard) PROVE Goal
  <2>1. b = [ok |-> a.ok, phase |-> a.phase, count |-> a.count + 1, sum |-> a.sum, bias |-> a.bias, active |-> a.active]
    BY <1>4, <1>9 DEF CalTick
  <2> HIDE DEF b
  <2>2. b \in Air /\ b.ok = a.ok /\ b.phase = "discarding" /\ b.count = a.count + 1 BY <1>1, <1>4, <2>1 DEF Air
  <2> QED BY <1>0, <1>1, <1>4, <2>2
<1>5. ASSUME a.phase = "collecting" /\ a.count + 1 >= Collect PROVE Goal
  <2>1. b = [ok |-> a.ok, phase |-> "ready", count |-> a.count + 1, sum |-> a.sum + r, bias |-> a.sum + r, active |-> TRUE]
    BY <1>5, <1>9 DEF CalTick
  <2> HIDE DEF b
  <2>2. /\ b \in Air /\ b.ok = a.ok /\ b.phase = "ready" /\ b.count = a.count + 1 /\ b.bias = a.sum + r
    BY <1>1, <2>1 DEF Air
  <2>3. still => a.sum = a.count * r BY <1>5
  <2>4. (a.count + 1) * r = a.count * r + r BY <1>1
  <2>5. a.count + 1 = Collect BY <1>0, <1>1, <1>5
  <2>6. still => b.bias = Collect * r BY <2>2, <2>3, <2>4, <2>5
  <2> QED BY <1>0, <2>2, <2>5, <2>6
<1>6. ASSUME a.phase = "collecting" /\ ~(a.count + 1 >= Collect) PROVE Goal
  <2>1. b = [ok |-> a.ok, phase |-> a.phase, count |-> a.count + 1, sum |-> a.sum + r, bias |-> a.bias, active |-> a.active]
    BY <1>6, <1>9 DEF CalTick
  <2> HIDE DEF b
  <2>2. b \in Air /\ b.ok = a.ok /\ b.phase = "collecting" /\ b.count = a.count + 1 /\ b.sum = a.sum + r
    BY <1>1, <1>6, <2>1 DEF Air
  <2>3. (a.count + 1) * r = a.count * r + r BY <1>1
  <2> QED BY <1>0, <1>1, <1>6, <2>2, <2>3
<1>7. ASSUME a.phase = "ready" PROVE Goal BY <1>7 DEF CalTick
<1>8. Goal BY <1>1, <1>2, <1>3, <1>4, <1>5, <1>6, <1>7
<1> QED BY <1>8

\* What rests is idle, whatever it was.
LEMMA IdleKeeps ==
    ASSUME NEW a, NEW r \in Int, NEW still \in BOOLEAN, CalFits(a, r, still)
    PROVE  CalFits(Idle(a), r, still) /\ Idle(a).ok = a.ok
<1> DEFINE b == M1Reset(a)
<1>1. CASE ~(a.active \/ a.phase # "idle") BY <1>1 DEF Idle
<1>2. CASE a.active \/ a.phase # "idle"
  <2>0. a \in Air BY DEF CalFits
  <2>3. b \in Air /\ b.ok = a.ok /\ b.phase = "idle" /\ b.count = 0
    <3>1. DOMAIN b = {"ok", "phase", "count", "sum", "bias", "active"} /\ b = [x \in DOMAIN b |-> b[x]]
      BY <2>0 DEF M1Reset, Air
    <3>2. b.ok = a.ok /\ b.phase = "idle" /\ b.count = 0 /\ b.sum = 0 /\ b.bias = 0 BY <2>0 DEF M1Reset, Air
    <3>3. a.ok \in BOOLEAN /\ b.ok \in BOOLEAN /\ b.active \in BOOLEAN BY <2>0 DEF M1Reset, Air
    <3> HIDE DEF b
    <3>4. b \in Air BY <3>1, <3>2, <3>3 DEF Air
    <3> QED BY <3>2, <3>4
  <2>4. CalFits(b, r, still) BY <2>3 DEF CalFits
  <2>5. Idle(a) = b BY <1>2 DEF Idle, b
  <2> QED BY <2>3, <2>4, <2>5
<1> QED BY <1>1, <1>2

LEMMA CalSame ==
    ASSUME CalInv, UNCHANGED <<air, air_moved, turned, rate>>, imu'.ready = imu.ready
    PROVE  CalInv'
  BY DEF CalInv, CalFits

LEMMA UnitIsPositive == ASSUME ImuInv, CalInv, air.ok PROVE DegreeUnit * Collect \in Nat \ {0}
<1>1. air_build.fs \in GyroFs BY DEF CalInv, ImuInv, Supported
<1>2. DegreeUnit \in Nat \ {0} BY <1>1 DEF GyroFs, DegreeUnit
<1>3. Collect \in Nat \ {0} BY AirAssumption
<1> QED BY <1>2, <1>3

LEMMA CalSteps == CalInv /\ ImuInv /\ [AirNext]_air_vars => CalInv'
<1> SUFFICES ASSUME CalInv, ImuInv, [AirNext]_air_vars PROVE CalInv' OBVIOUS
<1>1. CASE TriggerSet \/ DataReady \/ TriggerWork
  <2>1. UNCHANGED <<air, air_moved, turned, rate>> BY <1>1 DEF TriggerSet, DataReady, TriggerWork
  <2>2. imu'.ready = imu.ready
    <3>1. imu \in Imu BY DEF ImuInv
    <3> QED BY <1>1, <3>1 DEF TriggerSet, DataReady, TriggerWork, Imu
  <2> QED BY <2>1, <2>2, CalSame
<1>2. CASE Turn
  <2>1. /\ UNCHANGED <<imu, air, air_moved>> /\ (turned' <=> air.phase # "idle") /\ turned' \in BOOLEAN
    BY <1>2 DEF Turn
  <2>2. CalFits(air, rate', ~turned') BY <2>1 DEF CalInv, CalFits
  <2> QED BY <2>1, <2>2 DEF CalInv
<1>3. CASE Probe
  <2>1. UNCHANGED <<imu, rate, air_moved, turned>> BY <1>3 DEF Probe, imuVars
  <2>2. imu.ready /\ (air' = air \/ air' = [air EXCEPT !.ok = TRUE]) BY <1>3 DEF Probe
  <2>3. CASE air' = air BY <2>1, <2>3, CalSame
  <2>4. CASE air' = [air EXCEPT !.ok = TRUE]
    <3>1. CalFits(air', rate, ~turned) BY <2>4 DEF CalInv, CalFits, Air
    <3> QED BY <2>1, <2>2, <3>1 DEF CalInv
  <2> QED BY <2>2, <2>3, <2>4
<1>4. CASE Poll
  <2>1. /\ UNCHANGED <<imu, rate, air_build>> /\ (turned' <=> turned /\ air'.phase # "idle") /\ turned' \in BOOLEAN
    BY <1>4 DEF Poll, imuVars, CalInv
  <2>2. rate \in Int /\ turned \in BOOLEAN /\ (~turned) \in BOOLEAN /\ CalFits(air, rate, ~turned) BY DEF ImuInv, CalInv
  <2>3. DegreeUnit * Collect \in Nat \ {0} BY <1>4, UnitIsPositive DEF Poll
  <2>4. /\ CalFits(air', rate, ~turned) /\ air'.ok = air.ok
        /\ air_moved' \in -127 .. 127
    <3>1. ASSUME air' = Idle(air) PROVE CalFits(air', rate, ~turned) /\ air'.ok = air.ok BY <2>2, <3>1, IdleKeeps
    <3>2. CASE air' = Idle(air) /\ air_moved' = 0 BY <3>1, <3>2
    <3>3. CASE air' = air /\ air_moved' = 0 BY <2>2, <3>3
    <3>4. ASSUME NEW tilt \in Tilts, GyroPoll(ChannelGet(SampleFetch(tilt), "gyro"))
          PROVE  CalFits(air', rate, ~turned) /\ air'.ok = air.ok /\ air_moved' \in -127 .. 127
      <4>1. ChannelGet(SampleFetch(tilt), "gyro") = rate BY DEF ChannelGet, SampleFetch
      <4>2. air' = CalTick(air, rate) BY <3>4, <4>1 DEF GyroPoll
      <4>3. CalFits(air', rate, ~turned) /\ air'.ok = air.ok BY <2>2, <4>2, TickKeeps
      <4>4. air.bias - rate * Collect \in Int BY <2>2, AirAssumption DEF CalFits, Air
      <4>5. RateToCursor(air.bias - rate * Collect, DegreeUnit * Collect) \in -127 .. 127 BY <2>3, <4>4, MovementFits
      <4>6. air_moved' \in -127 .. 127 BY <3>4, <4>1, <4>5 DEF GyroPoll
      <4> QED BY <4>3, <4>6
    <3>5. ASSUME NEW tilt \in Tilts, TiltPoll(ChannelGet(SampleFetch(tilt), "accel"))
          PROVE  CalFits(air', rate, ~turned) /\ air'.ok = air.ok /\ air_moved' \in -127 .. 127
      <4> DEFINE v == ChannelGet(SampleFetch(tilt), "accel")
      <4>1. v = AirTrunc(tilt * 981 * air_build.g, 32768) BY DEF ChannelGet, SampleFetch, ConvertAccel
      <4>2. tilt * 981 * air_build.g \in Int
        <5>1. tilt \in Int BY AirAssumption
        <5>2. air_build.g \in Nat BY DEF ImuInv, AirBuild
        <5> QED BY <5>1, <5>2
      <4>3. AirTrunc(tilt * 981 * air_build.g, 32768) \in Int BY <4>2, TruncIsNumber
      <4>4. air' = Idle(air) /\ air_moved' = AccelToMouse(-v) BY <3>5 DEF TiltPoll
      <4> HIDE DEF v
      <4>5. -v \in Int BY <4>1, <4>3
      <4>6. AccelToMouse(-v) \in -127 .. 127
        <5>1. 1 \in Nat \ {0} OBVIOUS
        <5> QED BY <4>5, <5>1, MovementFits
      <4> QED BY <3>1, <4>4, <4>6
    <3> QED BY <1>4, <3>2, <3>3, <3>4, <3>5 DEF Poll
  <2>5. CalFits(air', rate, ~turned') BY <2>1, <2>4 DEF CalFits
  <2> QED BY <2>1, <2>4, <2>5 DEF CalInv
<1>5. CASE UNCHANGED <<air, air_moved, turned, rate, imu>> BY <1>5, CalSame
<1>6. CASE RgbWork \/ UsbChanged \/ ToggleMouse BY <1>5, <1>6 DEF RgbWork, UsbChanged, ToggleMouse, imuVars
<1>7. CASE \E role \in Roles : PressSpaceBar(role) \/ ReleaseSpaceBar(role)
  BY <1>5, <1>7 DEF PressSpaceBar, ReleaseSpaceBar, imuVars
<1>8. CASE UNCHANGED air_vars BY <1>5, <1>8 DEF air_vars
<1> QED BY <1>1, <1>2, <1>3, <1>4, <1>6, <1>7, <1>8 DEF AirNext
-----------------------------------------------------------------------------
(* The space bars. *)
LEMMA Buttons ==
    ASSUME air_host \in AirHost, NEW b \in SpaceButtons
    PROVE  /\ air_host.counts[b] = 0 =>
                /\ ButtonPress(air_host, b) \in AirHost
                /\ ButtonPress(air_host, b).counts = [air_host.counts EXCEPT ![b] = 1]
           /\ ButtonPress(air_host, b).buttons = air_host.buttons \cup {b}
           /\ ButtonPress(air_host, b).space = air_host.space
           /\ air_host.counts[b] = 1 =>
                /\ ButtonRelease(air_host, b) \in AirHost
                /\ ButtonRelease(air_host, b).counts = [air_host.counts EXCEPT ![b] = 0]
                /\ ButtonRelease(air_host, b).buttons = air_host.buttons \ {b}
                /\ ButtonRelease(air_host, b).space = air_host.space
<1>1. /\ air_host.counts \in [SpaceButtons -> 0 .. 1] /\ air_host.buttons \subseteq SpaceButtons
      /\ air_host.space \in BOOLEAN
  BY DEF AirHost
<1>2. air_host.counts[b] \in 0 .. 1 BY <1>1
<1>3. air_host = [counts |-> air_host.counts, buttons |-> air_host.buttons, space |-> air_host.space] BY DEF AirHost
<1>4. /\ ButtonPress(air_host, b).counts = [air_host.counts EXCEPT ![b] = @ + 1]
      /\ ButtonPress(air_host, b).buttons = air_host.buttons \cup {b}
      /\ ButtonPress(air_host, b).space = air_host.space
  BY <1>3 DEF ButtonPress
<1>5. ASSUME air_host.counts[b] = 0
      PROVE  /\ ButtonPress(air_host, b) \in AirHost
             /\ ButtonPress(air_host, b).counts = [air_host.counts EXCEPT ![b] = 1]
  <2>1. [air_host.counts EXCEPT ![b] = @ + 1] = [air_host.counts EXCEPT ![b] = 1] BY <1>1, <1>5
  <2>2. [air_host.counts EXCEPT ![b] = 1] \in [SpaceButtons -> 0 .. 1] BY <1>1
  <2> DEFINE p == ButtonPress(air_host, b)
  <2>3. DOMAIN p = {"counts", "buttons", "space"} /\ p = [x \in DOMAIN p |-> p[x]] BY DEF ButtonPress, AirHost
  <2> HIDE DEF p
  <2>4. p.counts \in [SpaceButtons -> 0 .. 1] /\ p.buttons \subseteq SpaceButtons /\ p.space \in BOOLEAN
    BY <1>1, <1>4, <2>1, <2>2 DEF p
  <2>5. p \in AirHost BY <2>3, <2>4 DEF AirHost
  <2> QED BY <1>4, <2>1, <2>5 DEF p
<1>6. ASSUME air_host.counts[b] = 1
      PROVE  /\ ButtonRelease(air_host, b) \in AirHost
             /\ ButtonRelease(air_host, b).counts = [air_host.counts EXCEPT ![b] = 0]
             /\ ButtonRelease(air_host, b).buttons = air_host.buttons \ {b}
             /\ ButtonRelease(air_host, b).space = air_host.space
  <2>1. [air_host.counts EXCEPT ![b] = @ - 1] = [air_host.counts EXCEPT ![b] = 0] BY <1>1, <1>6
  <2>2. [air_host.counts EXCEPT ![b] = 0] \in [SpaceButtons -> 0 .. 1] BY <1>1
  <2>3. ~(air_host.counts[b] <= 0) BY <1>6
  <2>4. ButtonRelease(air_host, b) = [counts |-> [air_host.counts EXCEPT ![b] = @ - 1],
                                      buttons |-> air_host.buttons \ {b}, space |-> air_host.space]
    BY <1>3, <1>6, <2>3 DEF ButtonRelease
  <2> QED BY <1>1, <2>1, <2>2, <2>4 DEF AirHost
<1> QED BY <1>4, <1>5, <1>6

LEMMA BarsSame ==
    ASSUME BarsInv, UNCHANGED <<space_held, asMouse, since, air_host>>, mode' \in Modes
    PROVE  BarsInv'
  BY DEF BarsInv

LEMMA BarsSteps == BarsInv /\ [AirNext]_air_vars => BarsInv'
<1> SUFFICES ASSUME BarsInv, [AirNext]_air_vars PROVE BarsInv' OBVIOUS
<1>0. /\ mode \in Modes /\ space_held \subseteq Roles /\ since \in [Roles -> Modes] /\ air_host \in AirHost
      /\ asMouse = {r \in space_held : r # "space" /\ since[r] # "off"}
      /\ air_host.buttons = asMouse
      /\ \A b \in SpaceButtons : air_host.counts[b] = 1 <=> b \in asMouse
      /\ air_host.space => space_held \ asMouse # {}
  BY DEF BarsInv
<1>8. /\ air_host.counts \in [SpaceButtons -> 0 .. 1] /\ air_host.buttons \subseteq SpaceButtons
      /\ air_host.space \in BOOLEAN
  BY <1>0 DEF AirHost
<1>1. ASSUME NEW role \in Roles, PressSpaceBar(role) PROVE BarsInv'
  <2>1. /\ role \notin space_held /\ space_held' = space_held \cup {role} /\ since' = [since EXCEPT ![role] = mode]
        /\ UNCHANGED mode
    BY <1>1 DEF PressSpaceBar
  <2>2. since' \in [Roles -> Modes] /\ since'[role] = mode /\ \A r \in space_held : since'[r] = since[r]
    BY <1>0, <2>1
  <2>3. CASE mode # "off" /\ role # "space"
    <3>1. asMouse' = asMouse \cup {role} /\ air_host' = ButtonPress(air_host, role) BY <1>1, <2>3 DEF PressSpaceBar
    <3>2. role \in SpaceButtons BY <2>3 DEF Roles, SpaceButtons
    <3>3. air_host.counts[role] = 0
      <4>1. air_host.counts[role] \in 0 .. 1 /\ role \notin asMouse BY <1>0, <1>8, <2>1, <3>2
      <4> QED BY <1>0, <3>2, <4>1
    <3>4. /\ air_host' \in AirHost /\ air_host'.counts = [air_host.counts EXCEPT ![role] = 1]
          /\ air_host'.buttons = air_host.buttons \cup {role} /\ air_host'.space = air_host.space
      BY <1>0, <3>1, <3>2, <3>3, Buttons
    <3>5. asMouse' = {r \in space_held' : r # "space" /\ since'[r] # "off"} BY <1>0, <2>1, <2>2, <2>3, <3>1
    <3>6. \A b \in SpaceButtons : air_host'.counts[b] = 1 <=> b \in asMouse' BY <1>0, <1>8, <3>1, <3>4
    <3>7. air_host'.space => space_held' \ asMouse' # {}
      <4>1. role \notin asMouse BY <1>0, <2>1
      <4> QED BY <1>0, <2>1, <3>1, <3>4
    <3> QED BY <1>0, <2>1, <2>2, <3>1, <3>4, <3>5, <3>6, <3>7 DEF BarsInv
  <2>4. CASE ~(mode # "off" /\ role # "space")
    <3>1. asMouse' = asMouse \ {role} /\ air_host' = [air_host EXCEPT !.space = TRUE] BY <1>1, <2>4 DEF PressSpaceBar
    <3>2. asMouse' = asMouse BY <1>0, <2>1, <3>1
    <3>3. /\ air_host' \in AirHost /\ air_host'.counts = air_host.counts /\ air_host'.buttons = air_host.buttons
      BY <1>0, <3>1 DEF AirHost
    <3>5. asMouse' = {r \in space_held' : r # "space" /\ since'[r] # "off"} BY <1>0, <2>1, <2>2, <2>4, <3>2
    <3>7. space_held' \ asMouse' # {} BY <1>0, <2>1, <3>2
    <3> QED BY <1>0, <2>1, <2>2, <3>2, <3>3, <3>5, <3>7 DEF BarsInv
  <2> QED BY <2>3, <2>4
<1>2. ASSUME NEW role \in Roles, ReleaseSpaceBar(role) PROVE BarsInv'
  <2>1. /\ role \in space_held /\ space_held' = space_held \ {role} /\ asMouse' = asMouse \ {role}
        /\ since' = since /\ mode' = mode
    BY <1>2 DEF ReleaseSpaceBar
  <2>2. asMouse' = {r \in space_held' : r # "space" /\ since'[r] # "off"} BY <1>0, <2>1
  <2>3. CASE role \in asMouse
    <3>1. air_host' = ButtonRelease(air_host, role) BY <1>2, <2>3 DEF ReleaseSpaceBar
    <3>2. role \in SpaceButtons BY <1>0, <2>3 DEF Roles, SpaceButtons
    <3>3. air_host.counts[role] = 1 BY <1>0, <2>3, <3>2
    <3>4. /\ air_host' \in AirHost /\ air_host'.counts = [air_host.counts EXCEPT ![role] = 0]
          /\ air_host'.buttons = air_host.buttons \ {role} /\ air_host'.space = air_host.space
      BY <1>0, <3>1, <3>2, <3>3, Buttons
    <3>6. \A b \in SpaceButtons : air_host'.counts[b] = 1 <=> b \in asMouse' BY <1>0, <1>8, <2>1, <3>4
    <3>7. air_host'.space => space_held' \ asMouse' # {} BY <1>0, <2>1, <2>3, <3>4
    <3> QED BY <1>0, <2>1, <2>2, <3>4, <3>6, <3>7 DEF BarsInv
  <2>4. CASE role \notin asMouse
    <3>1. air_host' = [air_host EXCEPT !.space = FALSE] BY <1>2, <2>4 DEF ReleaseSpaceBar
    <3>3. /\ air_host' \in AirHost /\ air_host'.counts = air_host.counts /\ air_host'.buttons = air_host.buttons
          /\ ~air_host'.space
      BY <1>0, <3>1 DEF AirHost
    <3>4. asMouse' = asMouse BY <2>1, <2>4
    <3> QED BY <1>0, <2>1, <2>2, <3>3, <3>4 DEF BarsInv
  <2> QED BY <2>3, <2>4
<1>3. CASE ToggleMouse
  <2>1. UNCHANGED <<space_held, asMouse, since, air_host>> /\ mode' = NextMode(mode) BY <1>3 DEF ToggleMouse, keyVars
  <2>2. mode' \in Modes BY <1>0, <2>1 DEF NextMode, Modes
  <2> QED BY <2>1, <2>2, BarsSame
<1>4. CASE UNCHANGED <<space_held, asMouse, since, air_host, mode>> BY <1>0, <1>4, BarsSame
<1>5. CASE TriggerSet \/ DataReady \/ TriggerWork \/ Turn BY <1>4, <1>5 DEF TriggerSet, DataReady, TriggerWork, Turn, keyVars
<1>6. CASE Probe \/ Poll \/ RgbWork \/ UsbChanged BY <1>4, <1>6 DEF Probe, Poll, RgbWork, UsbChanged, keyVars
<1>7. CASE UNCHANGED air_vars BY <1>4, <1>7 DEF air_vars
<1> QED BY <1>1, <1>2, <1>3, <1>5, <1>6, <1>7 DEF AirNext
-----------------------------------------------------------------------------
(* The LED. *)
LEMMA LedSame == ASSUME LedInv, UNCHANGED <<led, led_usb>> PROVE LedInv'
  BY DEF LedInv, LedFollows

\* What is resumed in the end shows whether there is USB.
LEMMA Resumed ==
    ASSUME LedInv, NEW l \in Led, UNCHANGED led_usb, led' = ResumeNormalMode(l)
    PROVE  LedInv'
<1>1. l = [mode |-> l.mode, phase |-> l.phase, flash |-> l.flash, shows |-> l.shows] BY DEF Led
<1>2. led_usb \in BOOLEAN BY DEF LedInv
<1>3. CASE led_usb
  <2>1. led' = [mode |-> "usb", phase |-> 0, flash |-> l.flash, shows |-> l.shows]
    BY <1>1, <1>3 DEF ResumeNormalMode, StartUsbCycle, Led
  <2>2. led' \in Led /\ led'.mode = "usb" /\ led'.phase = 0 BY <2>1 DEF Led
  <2>3. led_usb' = TRUE /\ (led'.mode = "usb") = TRUE BY <1>2, <1>3, <2>2
  <2>4. (led'.mode = "usb") = led_usb' BY <2>3, Zenon
  <2>5. LedFollows' BY <2>2, <2>4 DEF LedFollows
  <2>6. led_usb' \in BOOLEAN BY <2>3
  <2> QED BY <2>2, <2>5, <2>6 DEF LedInv
<1>4. CASE ~led_usb
  <2>1. led' = [mode |-> "battery", phase |-> 0, flash |-> l.flash, shows |-> "dark"]
    BY <1>1, <1>4 DEF ResumeNormalMode, StartBatteryPulse, Led
  <2>2. led' \in Led /\ led'.mode = "battery" /\ led'.phase = 0 /\ led'.shows = "dark" BY <2>1 DEF Led
  <2> QED BY <1>2, <1>4, <2>2 DEF LedInv, LedFollows
<1> QED BY <1>3, <1>4

LEMMA Shown ==
    ASSUME NEW i \in Nat, NEW colour \in {"dark", "red", "green", "blue"}
    PROVE  /\ i < 6 => Rainbow(i) \in {"dark", "red", "green", "blue"}
           /\ Blink(i, colour) \in {"dark", "red", "green", "blue"}
<1>1. ASSUME i < 6 PROVE Rainbow(i) \in {"dark", "red", "green", "blue"}
  <2>1. i \div 2 + 1 \in 1 .. 3 BY <1>1
  <2> QED BY <2>1 DEF Rainbow
<1> QED BY <1>1 DEF Blink

LEMMA LedSteps == BarsInv /\ LedInv /\ [AirNext]_air_vars => LedInv'
<1> SUFFICES ASSUME BarsInv, LedInv, [AirNext]_air_vars PROVE LedInv' OBVIOUS
<1>0. /\ led \in Led /\ led_usb \in BOOLEAN /\ LedFollows
      /\ led.mode = "battery" => led.phase \in 0 .. 3
      /\ led.mode = "boot" => led.phase \in 0 .. 6
      /\ led.mode = "usb" => led.phase \in 0 .. 5
  BY DEF LedInv
<1>9. /\ led = [mode |-> led.mode, phase |-> led.phase, flash |-> led.flash, shows |-> led.shows]
      /\ led.flash \in {"dark", "red", "green", "blue"}
  BY <1>0 DEF Led
<1>1. CASE RgbWork
  <2>0. UNCHANGED led_usb BY <1>1 DEF RgbWork
  <2>1. CASE (led.mode = "boot" /\ led.phase = 6) \/ (led.mode = "flash" /\ led.phase = 4)
    <3>1. led' = ResumeNormalMode(led) BY <1>1, <2>1 DEF RgbWork
    <3> QED BY <1>0, <2>0, <3>1, Resumed
  <2>2. CASE led.mode = "boot" /\ led.phase # 6
    <3>1. led' = [mode |-> led.mode, phase |-> led.phase + 1, flash |-> led.flash, shows |-> Rainbow(led.phase)]
      BY <1>1, <1>9, <2>2 DEF RgbWork
    <3>2. led.phase \in 0 .. 5 BY <1>0, <2>2
    <3>3. Rainbow(led.phase) \in {"dark", "red", "green", "blue"} BY <3>2, Shown
    <3>4. led.phase + 1 \in 0 .. 6 BY <3>2
    <3>5. led' \in Led /\ led'.mode = "boot" /\ led'.phase = led.phase + 1 BY <1>9, <2>2, <3>1, <3>3, <3>4 DEF Led
    <3> QED BY <1>0, <2>0, <3>4, <3>5 DEF LedInv, LedFollows
  <2>3. CASE led.mode = "usb"
    <3>1. led' = [mode |-> led.mode, phase |-> (led.phase + 1) % 6, flash |-> led.flash, shows |-> Rainbow(led.phase)]
      BY <1>1, <1>9, <2>3 DEF RgbWork
    <3>2. led.phase \in 0 .. 5 BY <1>0, <2>3
    <3>3. Rainbow(led.phase) \in {"dark", "red", "green", "blue"} BY <3>2, Shown
    <3>4. (led.phase + 1) % 6 \in 0 .. 5 BY <3>2
    <3>5. led' \in Led /\ led'.mode = "usb" /\ led'.phase = (led.phase + 1) % 6
      BY <1>9, <2>3, <3>1, <3>3, <3>4 DEF Led
    <3> QED BY <1>0, <2>0, <2>3, <3>4, <3>5 DEF LedInv, LedFollows
  <2>4. CASE led.mode = "battery"
    <3>1. led' = [mode |-> led.mode, phase |-> (led.phase + 1) % 4, flash |-> led.flash, shows |-> Blink(led.phase, "blue")]
      BY <1>1, <1>9, <2>4 DEF RgbWork
    <3>2. led.phase \in 0 .. 3 BY <1>0, <2>4
    <3>3. Blink(led.phase, "blue") \in {"dark", "red", "green", "blue"} BY <3>2, Shown
    <3>4. (led.phase + 1) % 4 \in 0 .. 3 BY <3>2
    <3>5. /\ led' \in Led /\ led'.mode = "battery" /\ led'.phase = (led.phase + 1) % 4
          /\ led'.shows = Blink(led.phase, "blue")
      BY <1>9, <2>4, <3>1, <3>3, <3>4 DEF Led
    <3>6. (led.phase + 1) % 4 = 0 => led.phase % 2 = 1 BY <3>2
    <3>7. (led.phase + 1) % 4 = 0 => Blink(led.phase, "blue") = "dark" BY <3>6 DEF Blink
    <3> QED BY <1>0, <2>0, <2>4, <3>4, <3>5, <3>7 DEF LedInv, LedFollows
  <2>5. CASE led.mode = "flash" /\ led.phase # 4
    <3>1. led' = [led EXCEPT !.shows = Blink(led.phase, led.flash), !.phase = @ + 1] BY <1>1, <2>5 DEF RgbWork
    <3>2. led.phase \in Nat /\ led.flash \in {"dark", "red", "green", "blue"} BY <1>0 DEF Led
    <3>3. Blink(led.phase, led.flash) \in {"dark", "red", "green", "blue"} BY <3>2, Shown
    <3>4. led.phase + 1 \in Nat BY <3>2
    <3>5. led' \in Led /\ led'.mode = "flash" BY <1>0, <2>5, <3>1, <3>3, <3>4 DEF Led
    <3> QED BY <1>0, <2>0, <3>5 DEF LedInv, LedFollows
  <2>6. led.mode \in {"boot", "usb", "battery", "flash"} BY <1>0 DEF Led
  <2> QED BY <2>1, <2>2, <2>3, <2>4, <2>5, <2>6
<1>2. CASE UsbChanged
  <2>1. led_usb' = ~led_usb BY <1>2 DEF UsbChanged
  <2>2. CASE led.mode = "boot"
    <3>1. led' = led BY <1>2, <2>2 DEF UsbChanged
    <3>2. led_usb' \in BOOLEAN BY <1>0, <2>1
    <3> QED BY <1>0, <2>2, <3>1, <3>2 DEF LedInv, LedFollows
  <2>3. CASE led.mode # "boot" /\ led_usb'
    <3>1. led' = StartUsbCycle(led) BY <1>2, <2>3 DEF UsbChanged
    <3>2. led' \in Led /\ led'.mode = "usb" /\ led'.phase = 0 BY <1>0, <3>1 DEF StartUsbCycle, Led
    <3>3. led_usb' \in BOOLEAN BY <1>0, <2>1
    <3>4. led_usb' = TRUE /\ (led'.mode = "usb") = TRUE BY <2>3, <3>2, <3>3
    <3>5. (led'.mode = "usb") = led_usb' BY <3>4, Zenon
    <3>6. LedFollows' BY <3>2, <3>5 DEF LedFollows
    <3> QED BY <3>2, <3>3, <3>6 DEF LedInv
  <2>4. CASE led.mode # "boot" /\ ~led_usb'
    <3>1. led' = StartBatteryPulse(led) BY <1>2, <2>4 DEF UsbChanged
    <3>2. led' \in Led /\ led'.mode = "battery" /\ led'.phase = 0 /\ led'.shows = "dark"
      BY <1>0, <3>1 DEF StartBatteryPulse, Led
    <3>3. led_usb' \in BOOLEAN BY <1>0, <2>1
    <3> QED BY <2>4, <3>2, <3>3 DEF LedInv, LedFollows
  <2> QED BY <2>2, <2>3, <2>4
<1>3. CASE ToggleMouse
  <2>1. /\ UNCHANGED led_usb /\ led' = FlashMouseMode(led, mode') BY <1>3 DEF ToggleMouse
  <2>2. CASE led.mode = "boot"
    <3>1. led' = led BY <2>1, <2>2 DEF FlashMouseMode
    <3> QED BY <2>1, <3>1, LedSame
  <2>3. CASE led.mode # "boot"
    <3>0. mode' \in Modes BY <1>3 DEF ToggleMouse, NextMode, Modes, BarsInv
    <3>1. led' = [led EXCEPT !.flash = Colour(mode'), !.mode = "flash", !.phase = 0] BY <2>1, <2>3 DEF FlashMouseMode
    <3>2. Colour(mode') \in {"dark", "red", "green", "blue"} BY <3>0 DEF Colour, Modes
    <3>3. led' \in Led /\ led'.mode = "flash" BY <1>0, <3>1, <3>2 DEF Led
    <3> QED BY <1>0, <2>1, <3>3 DEF LedInv, LedFollows
  <2> QED BY <2>2, <2>3
<1>4. CASE UNCHANGED <<led, led_usb>> BY <1>4, LedSame
<1>5. CASE TriggerSet \/ DataReady \/ TriggerWork \/ Turn BY <1>4, <1>5 DEF TriggerSet, DataReady, TriggerWork, Turn, ledVars
<1>6. CASE Probe \/ Poll BY <1>4, <1>6 DEF Probe, Poll, ledVars
<1>7. CASE \E role \in Roles : PressSpaceBar(role) \/ ReleaseSpaceBar(role)
  BY <1>4, <1>7 DEF PressSpaceBar, ReleaseSpaceBar, ledVars
<1>8. CASE UNCHANGED air_vars BY <1>4, <1>8 DEF air_vars
<1> QED BY <1>1, <1>2, <1>3, <1>5, <1>6, <1>7, <1>8 DEF AirNext
-----------------------------------------------------------------------------
LEMMA AirInductive == AirSpec => []AirInv
<1>1. AirInv /\ [AirNext]_air_vars => AirInv' BY ImuSteps, CalSteps, BarsSteps, LedSteps DEF AirInv
<1> QED BY <1>1, AirStarts, PTL DEF AirSpec

\* The invariant implies what the runs check.
LEMMA AirFollows == AirInv => AirMouseFollows
<1> SUFFICES ASSUME AirInv PROVE AirMouseFollows OBVIOUS
<1>1. ImuInv /\ CalInv /\ BarsInv /\ LedInv BY DEF AirInv
<1>2. AirTypeOK
  <2>1. \A b \in SpaceButtons : air_host.counts[b] \in 0 .. 1 BY <1>1 DEF BarsInv, AirHost
  <2>2. air.count \in 0 .. Collect + Discard BY <1>1, AirAssumption DEF CalInv, CalFits, Air
  <2> QED BY <1>1, <2>1, <2>2 DEF AirTypeOK, CalInv
<1>3. OdrIsNearest
  <2>1. air_build.odr \in Nat BY <1>1 DEF ImuInv, AirBuild
  <2>2. AttrGet("sampling frequency") = OdrMap[SelectOdr(air_build.odr)] BY DEF AttrGet
  <2> QED BY <2>1, <2>2, NearestIsSelected DEF OdrIsNearest
<1>4. PolledIfConfigured
  <2>1. AttrGet("full scale") = air_build.fs BY DEF AttrGet
  <2> QED BY <1>1, <2>1 DEF PolledIfConfigured, CalInv, ImuInv, Supported
<1>5. HostHolds
  <2>1. space_held = {} => ~air_host.space BY <1>1 DEF BarsInv
  <2> QED BY <1>1, <2>1 DEF HostHolds, BarsInv
<1> QED BY <1>1, <1>2, <1>3, <1>4, <1>5 DEF AirMouseFollows, ImuInv, LedInv

\* What the driver of the motion sensor, the work of the air mouse, the keys of
\* behavior_smart_space.c and the status LED promise, for every build and whatever is measured:
\* the rate that is nearest, no poll of a chip that is not configured, an interrupt that is
\* armed, buttons that fit the bars that are down, and an LED that shows the USB.
THEOREM AirMouseAlwaysFollows == AirSpec => []AirMouseFollows
  BY AirInductive, AirFollows, PTL

\* A keyboard at rest is not taken for one that turns: what m1_cal_tick has summed up is what
\* the gyroscope reads, for every number of samples and whatever the sensor's offset is.
THEOREM RestMovesNothing == AirSpec => StillIsStill
<1>1. AirInv /\ [AirNext]_air_vars => [Poll /\ mode = "m1" /\ ~turned => air_moved' = 0]_air_vars
  <2> SUFFICES ASSUME AirInv, Poll, mode = "m1", ~turned PROVE air_moved' = 0
    OBVIOUS
  <2>1. ImuInv /\ CalInv BY DEF AirInv
  <2>2. CASE air_moved' = 0 BY <2>2
  <2>3. ASSUME NEW tilt \in Tilts, GyroPoll(ChannelGet(SampleFetch(tilt), "gyro")) PROVE air_moved' = 0
    <3>1. air_moved' = IF air.phase = "ready" THEN RateToCursor(air.bias - rate * Collect, DegreeUnit * Collect) ELSE 0
      BY <2>3 DEF GyroPoll, ChannelGet, SampleFetch
    <3>2. CASE air.phase = "ready"
      <4>1. air.bias = Collect * rate BY <2>1, <3>2 DEF CalInv, CalFits
      <4>2. rate \in Int /\ Collect \in Nat BY <2>1, AirAssumption DEF ImuInv
      <4>3. Collect * rate - rate * Collect = 0 BY <4>2
      <4>4. DegreeUnit * Collect \in Nat \ {0} BY <2>1, UnitIsPositive DEF Poll
      <4>5. RateToCursor(0, DegreeUnit * Collect) = 0 BY <4>4, NoRateNoMovement
      <4> QED BY <3>1, <3>2, <4>1, <4>3, <4>5
    <3> QED BY <3>1, <3>2
  <2> QED BY <2>2, <2>3 DEF Poll
<1> QED BY <1>1, AirInductive, PTL DEF AirSpec, StillIsStill
=============================================================================

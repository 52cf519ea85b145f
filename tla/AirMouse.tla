------------------------------- MODULE AirMouse -------------------------------
(***************************************************************************)
(* The air mouse of the keyboard: the driver of its motion sensor          *)
(* (qmi8658a.c), the work that turns rates into cursor movement            *)
(* (air_mouse.c), the key that changes the mode (behavior_toggle_mouse.c), *)
(* the space bars that become mouse buttons (behavior_smart_space.c) with  *)
(* the button counts of hid.c, and the status LED (rgb_status_led.c).      *)
(*                                                                         *)
(* One axis is modelled.  The gyroscope's value is the raw one: the driver *)
(* converts it to radians, the work to degrees per second.  Sums are not   *)
(* divided: with Collect samples, a rate is in parts of Collect.           *)
(***************************************************************************)
EXTENDS Integers, SequencesExt

CONSTANTS
    AirBuilds,            \* values of build
    Raw,               \* what the gyroscope can read, and
    Tilts,             \* the accelerometer
    Discard, Collect,  \* CAL_DISCARD and CAL_COLLECT
    MaxToggles, MaxSpaceKeys, MaxUsb, MaxTurns, MaxChipFailures   \* bounds

ASSUME AirAssumption ==
    /\ AirBuilds \subseteq [odr : Nat, fs : Nat, g : Nat, trigger : BOOLEAN, air : BOOLEAN, led : BOOLEAN,
                           bars : SUBSET {"left", "space", "right"}]
    /\ Raw \subseteq Int /\ 0 \in Raw /\ Tilts \subseteq Int
    /\ Discard \in Nat \ {0} /\ Collect \in Nat \ {0}

VARIABLES
    air_build,    \* [odr |-> the rate that is asked for, fs, g |-> full scales, in degrees per second and in g,
                  \*  trigger |-> a data ready interrupt, air |-> with air_mouse.c, led |-> is its device ready,
                  \*  bars |-> the space bars in the keymap]
    imu,      \* [written, ready, handler, armed, work]: the registers that were written, and the interrupt
    rate,     \* what the gyroscope reads
    mode,     \* mouse_mode
    air,      \* [ok, phase, count, sum, bias, active]
    air_moved,    \* the last cursor movement that was reported
    turned,   \* has the rate changed since the calibration began
    space_held, asMouse,   \* the space bars that are down; pressed_as_mouse
    since,    \* the mode in which each was pressed
    air_host,     \* [counts, buttons, space]: button counts, and what the host sees
    led_usb,      \* usb_connected
    led,      \* [mode, phase, flash, shows]
    toggles, space_keys, usbs, turns, chip_failures
imuVars == <<air_build, imu, rate, turns>>
keyVars == <<space_held, asMouse, since, air_host, space_keys>>
ledVars == <<led_usb, led, usbs>>
air_vars == <<air_build, imu, rate, mode, air, air_moved, turned, space_held, asMouse, since, air_host, led_usb, led,
              toggles, space_keys, usbs, turns, chip_failures>>

-----------------------------------------------------------------------------
(* The driver.                                                                *)
OdrMap == <<7174, 3587, 1793, 896, 448, 224, 112, 56, 28>>
Distance(a, b) == IF a > b THEN a - b ELSE b - a

\* mutant of SelectOdr: the first that is not above
SelectOdr_Below(hz) ==
    FoldLeft(LAMBDA best, i : IF OdrMap[best] > hz THEN i ELSE best, 1, [i \in DOMAIN OdrMap |-> i])
\* The index of the rate that is nearest, the first one of two.
SelectOdr(hz) ==
    LET best[i \in DOMAIN OdrMap] ==
            IF i = 1 THEN 1
            ELSE IF Distance(OdrMap[i], hz) < Distance(OdrMap[best[i - 1]], hz) THEN i ELSE best[i - 1]
    IN  best[Len(OdrMap)]

GyroFs == {16, 32, 64, 128, 256, 512, 1024, 2048}
AccelFs == {2, 4, 8, 16}

\* qmi8658a_init: the registers it writes, the first n of them.  The configuration is looked
\* at after the reset.
Registers == <<"reset", "ctrl1", "ctrl2", "ctrl3", "ctrl7">>
Supported == air_build.fs \in GyroFs /\ air_build.g \in AccelFs /\ air_build.odr # 0
\* mutant of Configured: a failure does not stop it
Configured_Anyway(n, irq) ==
    [written |-> {Registers[i] : i \in 1 .. n}, ready |-> TRUE, handler |-> FALSE, armed |-> FALSE, work |-> FALSE]
\* irq |-> can the interrupt be set up
Configured(n, irq) ==
    LET all == IF Supported \/ n = 0 THEN n ELSE 1
    IN  [written |-> {Registers[i] : i \in 1 .. all}, ready |-> all = Len(Registers) /\ irq,
         handler |-> FALSE, armed |-> FALSE, work |-> FALSE]
\* qmi8658a_init_interrupt
InitInterrupt == IF air_build.trigger THEN BOOLEAN ELSE {TRUE}

\* qmi8658a_attr_get
AttrGet(attribute) ==
    CASE attribute = "sampling frequency" -> OdrMap[SelectOdr(air_build.odr)]
      [] attribute = "full scale"         -> air_build.fs

\* qmi8658a_trigger_set
TriggerSet ==
    /\ air_build.trigger /\ imu.ready
    /\ \E on \in BOOLEAN : on # imu.handler /\ imu' = [imu EXCEPT !.handler = on, !.armed = on]
    /\ UNCHANGED <<air_build, rate, turns, mode, air, air_moved, turned, keyVars, ledVars, toggles, chip_failures>>

\* qmi8658a_gpio_callback
DataReady ==
    /\ imu.armed
    /\ imu' = [imu EXCEPT !.armed = FALSE, !.work = TRUE]
    /\ UNCHANGED <<air_build, rate, turns, mode, air, air_moved, turned, keyVars, ledVars, toggles, chip_failures>>

\* mutant of TriggerWork: the interrupt is enabled again for who handles it
TriggerWork_Handled ==
    /\ imu.work
    /\ imu' = [imu EXCEPT !.armed = FALSE, !.work = FALSE]
    /\ UNCHANGED <<air_build, rate, turns, mode, air, air_moved, turned, keyVars, ledVars, toggles, chip_failures>>

\* qmi8658a_thread_cb, of the thread or of the work
TriggerWork ==
    /\ imu.work
    /\ imu' = [imu EXCEPT !.armed = TRUE, !.work = FALSE]
    /\ UNCHANGED <<air_build, rate, turns, mode, air, air_moved, turned, keyVars, ledVars, toggles, chip_failures>>

\* The keyboard is moved.
Turn ==
    /\ turns < MaxTurns /\ turns' = turns + 1
    /\ \E r \in Raw \ {rate} : rate' = r
    /\ turned' = (air.phase # "idle")
    /\ UNCHANGED <<air_build, imu, mode, air, air_moved, keyVars, ledVars, toggles, chip_failures>>

-----------------------------------------------------------------------------
(* From rates to movement.                                                    *)
AirTrunc(a, b) == IF a < 0 THEN -((-a) \div b) ELSE a \div b
Abs(a) == IF a < 0 THEN -a ELSE a
Clamp(a, max) == IF a > max THEN max ELSE IF a < -max THEN -max ELSE a

\* Of a / unit degrees per second: nothing below DEADZONE 1.5, SENSITIVITY 0.4, MAX_OUT 127.
\* mutant of RateToCursor: the sign is lost at the end of the range
RateToCursor_Max(a, unit) == IF 2 * Abs(a) < 3 * unit THEN 0 ELSE Clamp(AirTrunc(2 * a, 5 * unit), 128)
RateToCursor(a, unit) == IF 2 * Abs(a) < 3 * unit THEN 0 ELSE Clamp(AirTrunc(2 * a, 5 * unit), 127)

\* Dead zone 0.15, sensitivity 3, 15 at most.
AccelToMouse(v) == IF Abs(v) < 15 THEN 0 ELSE Clamp(AirTrunc(3 * v, 100), 15)

\* qmi8658a_convert_gyro: so much is a degree per second.
DegreeUnit == 32768 \div air_build.fs
\* qmi8658a_convert_accel, in hundredths of m/s2.
ConvertAccel(raw) == AirTrunc(raw * 981 * air_build.g, 32768)
\* qmi8658a_sample_fetch and qmi8658a_channel_get
SampleFetch(tilt) == [gyro |-> rate, accel |-> tilt]
ChannelGet(sample, channel) == IF channel = "gyro" THEN sample.gyro ELSE ConvertAccel(sample.accel)

M1Reset(a) == [a EXCEPT !.phase = "idle", !.count = 0, !.sum = 0, !.bias = 0, !.active = FALSE]

\* m1_cal_tick
\* mutant of CalTick: what was discarded is summed up
CalTick_SumsAll(a, r) ==
    CASE a.phase = "idle"       -> [a EXCEPT !.phase = "discarding", !.count = 0]
      [] a.phase = "discarding" -> IF a.count + 1 >= Discard THEN [a EXCEPT !.phase = "collecting", !.count = 0, !.sum = r]
                                   ELSE [a EXCEPT !.count = @ + 1]
      [] a.phase = "collecting" -> IF a.count + 1 >= Collect
                                   THEN [a EXCEPT !.phase = "ready", !.count = @ + 1, !.sum = @ + r, !.bias = a.sum + r,
                                                  !.active = TRUE]
                                   ELSE [a EXCEPT !.count = @ + 1, !.sum = @ + r]
      [] a.phase = "ready"      -> a
CalTick(a, r) ==
    CASE a.phase = "idle"       -> [a EXCEPT !.phase = "discarding", !.count = 0]
      [] a.phase = "discarding" -> IF a.count + 1 >= Discard THEN [a EXCEPT !.phase = "collecting", !.count = 0, !.sum = 0]
                                   ELSE [a EXCEPT !.count = @ + 1]
      [] a.phase = "collecting" -> IF a.count + 1 >= Collect
                                   THEN [a EXCEPT !.phase = "ready", !.count = @ + 1, !.sum = @ + r, !.bias = a.sum + r,
                                                  !.active = TRUE]
                                   ELSE [a EXCEPT !.count = @ + 1, !.sum = @ + r]
      [] a.phase = "ready"      -> a

\* air_mouse_work_handler
Idle(a) == IF a.active \/ a.phase # "idle" THEN M1Reset(a) ELSE a

\* Until there has been a first sample.
Probe ==
    /\ air_build.air /\ ~air.ok
    /\ \/ imu.ready /\ air' = [air EXCEPT !.ok = TRUE] /\ UNCHANGED chip_failures
       \/ imu.ready /\ chip_failures < MaxChipFailures /\ chip_failures' = chip_failures + 1 /\ air' = air
    /\ UNCHANGED <<imuVars, mode, air_moved, turned, keyVars, ledVars, toggles>>

GyroPoll(gyro) ==
    /\ air' = CalTick(air, gyro)
    /\ air_moved' = IF air.phase = "ready" THEN RateToCursor(air.bias - gyro * Collect, DegreeUnit * Collect) ELSE 0
TiltPoll(accel) == air' = Idle(air) /\ air_moved' = AccelToMouse(-accel)
Poll ==
    /\ air.ok
    /\ \/ mode = "off" /\ air' = Idle(air) /\ air_moved' = 0 /\ UNCHANGED chip_failures
       \/ mode # "off" /\ chip_failures < MaxChipFailures /\ chip_failures' = chip_failures + 1 /\ air_moved' = 0 /\ air' = air
       \/ \E tilt \in Tilts : LET sample == SampleFetch(tilt) IN
            /\ \/ mode = "m1" /\ GyroPoll(ChannelGet(sample, "gyro"))
               \/ mode = "m2" /\ TiltPoll(ChannelGet(sample, "accel"))
            /\ UNCHANGED chip_failures
    /\ turned' = (turned /\ air'.phase # "idle")
    /\ UNCHANGED <<imuVars, mode, keyVars, ledVars, toggles>>

-----------------------------------------------------------------------------
(* The status LED.                                                            *)
StartUsbCycle(l) == [l EXCEPT !.mode = "usb", !.phase = 0]
\* mutant of StartBatteryPulse: what is lit stays so
StartBatteryPulse_Lit(l) == [l EXCEPT !.mode = "battery", !.phase = 0]
StartBatteryPulse(l) == [l EXCEPT !.mode = "battery", !.phase = 0, !.shows = "dark"]
ResumeNormalMode(l) == IF led_usb THEN StartUsbCycle(l) ELSE StartBatteryPulse(l)

Rainbow(phase) ==
    IF phase % 2 = 1 THEN "dark" ELSE <<"red", "green", "blue">>[phase \div 2 + 1]
Blink(phase, colour) == IF phase % 2 = 1 THEN "dark" ELSE colour

\* mutant of RgbWork: the flash begins again
RgbWork_Flashes ==
    /\ air_build.led
    /\ led' = CASE led.mode = "boot" ->
                     IF led.phase = 6 THEN ResumeNormalMode(led)
                     ELSE [led EXCEPT !.shows = Rainbow(led.phase), !.phase = @ + 1]
                [] led.mode = "usb"     -> [led EXCEPT !.shows = Rainbow(led.phase), !.phase = (@ + 1) % 6]
                [] led.mode = "battery" -> [led EXCEPT !.shows = Blink(led.phase, "blue"), !.phase = (@ + 1) % 4]
                [] led.mode = "flash"   -> [led EXCEPT !.shows = Blink(led.phase, led.flash), !.phase = (@ + 1) % 4]
    /\ UNCHANGED <<imuVars, mode, air, air_moved, turned, keyVars, led_usb, usbs, toggles, chip_failures>>

\* rgb_work_handler
RgbWork ==
    /\ air_build.led
    /\ led' = CASE led.mode = "boot" ->
                     IF led.phase = 6 THEN ResumeNormalMode(led)
                     ELSE [led EXCEPT !.shows = Rainbow(led.phase), !.phase = @ + 1]
                [] led.mode = "usb"     -> [led EXCEPT !.shows = Rainbow(led.phase), !.phase = (@ + 1) % 6]
                [] led.mode = "battery" -> [led EXCEPT !.shows = Blink(led.phase, "blue"), !.phase = (@ + 1) % 4]
                [] led.mode = "flash" ->
                     IF led.phase = 4 THEN ResumeNormalMode(led)
                     ELSE [led EXCEPT !.shows = Blink(led.phase, led.flash), !.phase = @ + 1]
    /\ UNCHANGED <<imuVars, mode, air, air_moved, turned, keyVars, led_usb, usbs, toggles, chip_failures>>

\* rgb_status_event_listener
UsbChanged ==
    /\ air_build.led /\ usbs < MaxUsb /\ usbs' = usbs + 1 /\ led_usb' = ~led_usb
    /\ led' = CASE led.mode = "boot" -> led
                [] led.mode # "boot" /\ led_usb' -> StartUsbCycle(led)
                [] led.mode # "boot" /\ ~led_usb' -> StartBatteryPulse(led)
    /\ UNCHANGED <<imuVars, mode, air, air_moved, turned, keyVars, toggles, chip_failures>>

Colour(m) == CASE m = "off" -> "red" [] m = "m1" -> "green" [] m = "m2" -> "blue"
\* cyberfly_rgb_flash_mouse_mode
FlashMouseMode(l, m) == IF l.mode = "boot" THEN l ELSE [l EXCEPT !.flash = Colour(m), !.mode = "flash", !.phase = 0]

-----------------------------------------------------------------------------
(* The keys.                                                                  *)
NextMode(m) == CASE m = "off" -> "m1" [] m = "m1" -> "m2" [] m = "m2" -> "off"
ToggleMouse ==
    /\ toggles < MaxToggles /\ toggles' = toggles + 1
    /\ mode' = NextMode(mode) /\ led' = FlashMouseMode(led, mode')
    /\ UNCHANGED <<imuVars, air, air_moved, turned, keyVars, led_usb, usbs, chip_failures>>

Roles == {"left", "space", "right"}
SpaceButtons == {"left", "right"}

\* zmk_hid_mouse_button_press and _release, and the report
ButtonPress(h, b) == [h EXCEPT !.counts[b] = @ + 1, !.buttons = @ \cup {b}]
ButtonRelease(h, b) ==
    IF h.counts[b] <= 0 THEN h
    ELSE [h EXCEPT !.counts[b] = @ - 1, !.buttons = IF h.counts[b] = 1 THEN @ \ {b} ELSE @]

PressSpaceBar(role) ==
    /\ space_keys < MaxSpaceKeys /\ space_keys' = space_keys + 1 /\ role \in air_build.bars \ space_held /\ space_held' = space_held \cup {role}
    /\ LET mouse == mode # "off" /\ role # "space"
       IN  /\ asMouse' = IF mouse THEN asMouse \cup {role} ELSE asMouse \ {role}
           /\ air_host' = IF mouse THEN ButtonPress(air_host, role) ELSE [air_host EXCEPT !.space = TRUE]
    /\ since' = [since EXCEPT ![role] = mode]
    /\ UNCHANGED <<imuVars, mode, air, air_moved, turned, ledVars, toggles, chip_failures>>

\* mutant of ReleaseSpaceBar: what it is released as is up to the mode
ReleaseSpaceBar_ByMode(role) ==
    /\ role \in space_held /\ space_held' = space_held \ {role} /\ asMouse' = asMouse \ {role}
    /\ air_host' = IF mode # "off" /\ role # "space" THEN ButtonRelease(air_host, role) ELSE [air_host EXCEPT !.space = FALSE]
    /\ UNCHANGED <<imuVars, mode, air, air_moved, turned, since, space_keys, ledVars, toggles, chip_failures>>
\* A space bar that is released releases the space that another one holds.
ReleaseSpaceBar(role) ==
    /\ role \in space_held /\ space_held' = space_held \ {role} /\ asMouse' = asMouse \ {role}
    /\ air_host' = IF role \in asMouse THEN ButtonRelease(air_host, role) ELSE [air_host EXCEPT !.space = FALSE]
    /\ UNCHANGED <<imuVars, mode, air, air_moved, turned, since, space_keys, ledVars, toggles, chip_failures>>

-----------------------------------------------------------------------------
StartAir == [ok |-> FALSE, phase |-> "idle", count |-> 0, sum |-> 0, bias |-> 0, active |-> FALSE]
\* rgb_status_led_init: without its device the work never runs.
StartLed == [mode |-> "boot", phase |-> 0, flash |-> "dark", shows |-> "dark"]
AirInit ==
    /\ air_build \in AirBuilds
    /\ \E n \in 0 .. Len(Registers), irq \in InitInterrupt : imu = Configured(n, irq)
    /\ rate \in (IF air_build.air THEN Raw ELSE {0}) /\ mode = "off" /\ air = StartAir /\ air_moved = 0 /\ turned = FALSE
    /\ space_held = {} /\ asMouse = {} /\ since = [r \in Roles |-> "off"]
    /\ air_host = [counts |-> [b \in SpaceButtons |-> 0], buttons |-> {}, space |-> FALSE]
    /\ led_usb \in (IF air_build.led THEN BOOLEAN ELSE {FALSE}) /\ led = StartLed
    /\ toggles = 0 /\ space_keys = 0 /\ usbs = 0 /\ turns = 0 /\ chip_failures = 0

AirNext ==
    \/ TriggerSet \/ DataReady \/ TriggerWork \/ Turn
    \/ Probe \/ Poll \/ RgbWork \/ UsbChanged \/ ToggleMouse
    \/ \E role \in Roles : PressSpaceBar(role) \/ ReleaseSpaceBar(role)

\* The works run again and again.
AirFairness == WF_air_vars(Probe) /\ WF_air_vars(Poll) /\ WF_air_vars(RgbWork)
AirSpec == AirInit /\ [][AirNext]_air_vars /\ AirFairness

-----------------------------------------------------------------------------
(* The counts fit what is pressed, and a movement fits a report of the host. *)
AirTypeOK ==
    /\ \A b \in SpaceButtons : air_host.counts[b] \in 0 .. 1
    /\ air_moved \in -127 .. 127 /\ air.count \in 0 .. Collect + Discard

(* The rate that is configured, and told to who asks, is the nearest one that the chip has. *)
OdrIsNearest ==
    \A i \in DOMAIN OdrMap :
      Distance(AttrGet("sampling frequency"), air_build.odr) <= Distance(OdrMap[i], air_build.odr)

(* A sensor whose configuration has failed somewhere is never polled: what it
   would read is not in the units the work takes it for. *)
PolledIfConfigured ==
    air.ok => /\ imu.written = {Registers[i] : i \in DOMAIN Registers}
              /\ AttrGet("full scale") \in GyroFs /\ air_build.g \in AccelFs

(* As long as somebody wants to hear of samples, the interrupt is armed or its
   handler is on its way, however setting the handler and an interrupt meet. *)
DataReadyArmed == imu.handler => imu.armed \/ imu.work

(* The host's buttons are the space bars that were pressed as buttons, whatever the
   mode has become, and nothing is down when all of them are up. *)
HostHolds ==
    /\ air_host.buttons = {r \in space_held : r # "space" /\ since[r] # "off"}
    /\ space_held = {} => ~air_host.space

(* A keyboard that has not been turned since the calibration began does not move
   the cursor: the bias is what the gyroscope reads at rest, of this calibration only. *)
StillIsStill == [][Poll /\ mode = "m1" /\ ~turned => air_moved' = 0]_air_vars

(* In its resting modes the LED shows whether there is USB, and it is dark between
   two pulses even when it was lit as they began. *)
LedFollows ==
    /\ led.mode \in {"usb", "battery"} => (led.mode = "usb") = led_usb
    /\ led.mode = "battery" /\ led.phase = 0 => led.shows = "dark"

(* A mode that stays is calibrated in the end, and the LED comes to rest. *)
ReadyInTheEnd ==
    /\ [](mode = "m1" /\ air.ok => <>(air.phase = "ready" \/ mode # "m1"))
    /\ [](air_build.led /\ led.mode \in {"boot", "flash"} => <>(led.mode \in {"usb", "battery"}))

(* The chip, the buttons of the space bar and the LED follow what was asked of them. *)
AirMouseFollows ==
    AirTypeOK /\ OdrIsNearest /\ PolledIfConfigured /\ DataReadyArmed /\ HostHolds /\ LedFollows
=============================================================================

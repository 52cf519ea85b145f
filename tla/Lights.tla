------------------------------- MODULE Lights -------------------------------
(***************************************************************************)
(* Backlight, RGB underglow and external power: backlight.c,               *)
(* rgb_underglow.c, ext_power_generic.c and their behaviors, on the two    *)
(* halves of a split keyboard.  A behavior is converted by the central,    *)
(* sent to the peripheral and performed by both.  Each half has an         *)
(* activity state, USB power, delayed saves, and a low priority work queue *)
(* that draws the underglow.                                               *)
(*                                                                         *)
(* Everything but the timer interrupt and the low priority queue runs on   *)
(* the system work queue; the interrupt may fire within an operation.      *)
(***************************************************************************)
EXTENDS Integers, FiniteSets, Sequences, SequencesExt

CONSTANTS
    BrtMax, HueMax, SpeedMax,    \* BRT_MAX (and SAT_MAX), HUE_MAX, the greatest speed
    BrtStart,                    \* CONFIG_ZMK_BACKLIGHT_BRT_START and the underglow's
    Builds,                      \* what is configured, a set of values of build
    None,                        \* no setting, no behavior yet
    MaxSteps                     \* bound on commands and events; one less when split

ASSUME LightsAssumption ==
    /\ BrtMax \in Nat \ {0} /\ HueMax \in Nat \ {0} /\ SpeedMax \in Nat \ {0}
    /\ BrtStart \in 0 .. BrtMax
    /\ Builds \subseteq [bl : SUBSET {"idle", "usb"}, ug : SUBSET {"idle", "usb"}, ext : BOOLEAN,
                         on : SUBSET {"bl", "ug"}, split : BOOLEAN]
    /\ None \notin [color : [h : 0 .. HueMax, s : 0 .. BrtMax, b : 0 .. BrtMax],
                    speed : 1 .. SpeedMax, effect : 0 .. 3, step : Nat, on : BOOLEAN]

Least(x, y) == IF x < y THEN x ELSE y
Greatest(x, y) == IF x < y THEN y ELSE x
Clamp(n) == Greatest(0, Least(n, BrtMax))

VARIABLES
    half,      \* [Halves -> state of that half]
    wire,      \* behaviors on their way to the peripheral
    build,     \* [bl, ug |-> auto-off options, ext |-> the underglow switches the power,
               \*  on |-> the lights with ON_START, split |-> there is a peripheral]
    last,      \* the last behavior the central performed, converted
    steps      \* commands and events so far
lights_vars == <<half, wire, build, last, steps>>

Halves == IF build.split THEN {"central", "peripheral"} ELSE {"central"}

-----------------------------------------------------------------------------
(* Backlight.  State-to-state operators; x is the state of a half.           *)
GetBrt(x) == IF x.bl.on THEN x.bl.brt ELSE 0
UpdateBacklight(x) == [x EXCEPT !.led = IF x.powered THEN GetBrt(x) ELSE 0]
BacklightChanged(x) == [UpdateBacklight(x) EXCEPT !.pending = @ \union {"bl"}]

BacklightOn(x) == BacklightChanged([x EXCEPT !.bl = [brt |-> Greatest(@.brt, 1), on |-> TRUE]])
BacklightOff(x) == BacklightChanged([x EXCEPT !.bl.on = FALSE])
SetBrt(x, n) == BacklightChanged([x EXCEPT !.bl = [brt |-> Least(n, BrtMax), on |-> Least(n, BrtMax) > 0]])
CalcBrt(x, dir) == Clamp(x.bl.brt + dir)
CalcCycle(x) == IF x.bl.brt = BrtMax THEN 0 ELSE CalcBrt(x, 1)

\* mutant of BacklightAuto: a wake always switches on
BacklightAuto_Always(x, active) ==
    IF x.bl.on = active THEN x ELSE UpdateBacklight([x EXCEPT !.bl.on = active])

BacklightAuto(x, active) ==
    IF x.bl.on = active THEN x
    ELSE UpdateBacklight([x EXCEPT !.bl.on = active /\ x.blPrev, !.blPrev = ~active])

BacklightUsb(x) ==
    UpdateBacklight([x EXCEPT !.bl = IF x.powered THEN [brt |-> 1, on |-> TRUE] ELSE [@ EXCEPT !.on = FALSE]])

\* mutant of BacklightListener: the change of the USB power is not noticed
BacklightListener_Deaf(x, event, active) ==
    IF event = "idle" /\ "idle" \in build.bl THEN BacklightAuto(x, active) ELSE x

BacklightListener(x, event, active) ==
    CASE event = "idle" /\ "idle" \in build.bl -> BacklightAuto(x, active)
      [] event = "usb" /\ "usb" \in build.bl -> BacklightUsb(x)
      [] OTHER -> x

-----------------------------------------------------------------------------
(* External power.                                                           *)
ExtEnable(x) == [x EXCEPT !.ext = TRUE, !.pending = @ \union {"ext"}]
ExtDisable(x) == [x EXCEPT !.ext = FALSE, !.pending = @ \union {"ext"}]

-----------------------------------------------------------------------------
(* Underglow.  The effects are 0 solid, 1 breathe, 2 spectrum, 3 swirl.      *)
Effects == 4
SaveUnderglow(x) == [x EXCEPT !.pending = @ \union {"ug"}]

\* k_work_submit_to_queue: an item that is queued already stays where it is.
Submit(x, item) == IF item \in Range(x.work) THEN x ELSE [x EXCEPT !.work = Append(@, item)]

UnderglowOn(x) ==
    LET y == IF build.ext THEN ExtEnable(x) ELSE x
    IN  SaveUnderglow([y EXCEPT !.ug.on = TRUE, !.ug.step = 0, !.timer = TRUE])

\* The timer may fire after the work is queued and before it is stopped; the work may have been
\* queued before, with a tick behind it.
\* mutant of UnderglowOff: the strip is not cleared
UnderglowOff_Lit(x, late) ==
    LET y == IF build.ext THEN ExtDisable(x) ELSE x
    IN  SaveUnderglow([y EXCEPT !.timer = FALSE, !.ug.on = FALSE])

UnderglowOff(x, late) ==
    LET fires == late /\ x.timer /\ x.ug.on
        y     == Submit(IF build.ext THEN ExtDisable(x) ELSE x, "off")
        z     == IF fires THEN Submit(y, "tick") ELSE y
    IN  SaveUnderglow([z EXCEPT !.timer = FALSE, !.ug.on = FALSE, !.raced = Last(z.work) # "off"])

CalcEffect(x, dir) == (x.ug.effect + Effects + dir) % Effects

\* mutant of SelectEffect: the animation goes on where the last one was
SelectEffect_KeepsStep(x, e) ==
    IF e \notin 0 .. (Effects - 1) THEN x ELSE SaveUnderglow([x EXCEPT !.ug.effect = e])

\* mutant of SelectEffect: not saved
SelectEffect_Unsaved(x, e) ==
    IF e \notin 0 .. (Effects - 1) THEN x ELSE [x EXCEPT !.ug.effect = e, !.ug.step = 0]

SelectEffect(x, e) ==
    IF e \notin 0 .. (Effects - 1) THEN x
    ELSE SaveUnderglow([x EXCEPT !.ug.effect = e, !.ug.step = 0])

\* zmk_rgb_underglow_set_hsb does not save.
SetHsb(x, c) ==
    IF c.h > HueMax \/ c.s > BrtMax \/ c.b > BrtMax THEN x ELSE [x EXCEPT !.ug.color = c]

CalcHue(x, dir) == [x.ug.color EXCEPT !.h = (@ + HueMax + dir) % HueMax]
CalcSat(x, dir) == [x.ug.color EXCEPT !.s = Clamp(@ + dir)]
CalcUgBrt(x, dir) == [x.ug.color EXCEPT !.b = Clamp(@ + dir)]
ChangeSpeed(x, dir) ==
    IF x.ug.speed = 1 /\ dir < 0 THEN x
    ELSE SaveUnderglow([x EXCEPT !.ug.speed = Least(@ + dir, SpeedMax)])

\* The hue and the brightness that the effect draws, and the next step.
Pixel(u) ==
    CASE u.effect = 0 -> <<u.color.h, u.color.b>>
      [] u.effect = 1 -> <<u.color.h, IF u.step > BrtMax THEN u.step - BrtMax ELSE BrtMax - u.step>>
      [] u.effect \in {2, 3} -> <<u.step, u.color.b>>
NextStep(u) ==
    CASE u.effect = 0 -> u.step
      [] u.effect = 1 -> IF u.step + u.speed > 2 * BrtMax THEN 0 ELSE u.step + u.speed
      [] u.effect = 2 -> (u.step + u.speed) % HueMax
      [] u.effect = 3 -> (u.step + 2 * u.speed) % HueMax

UnderglowAuto(x, wake, late) ==
    IF wake = x.awake THEN x
    ELSE IF wake THEN IF x.before THEN UnderglowOn([x EXCEPT !.awake = TRUE])
                                  ELSE UnderglowOff([x EXCEPT !.awake = TRUE], late)
    ELSE UnderglowOff([x EXCEPT !.awake = FALSE, !.before = x.ug.on], late)

UnderglowListener(x, event, active, late) ==
    CASE event = "idle" /\ "idle" \in build.ug -> UnderglowAuto(x, active, late)
      [] event = "usb" /\ "usb" \in build.ug -> UnderglowAuto(x, x.powered, late)
      [] OTHER -> x

-----------------------------------------------------------------------------
(* Behaviors: <<device, command, parameter>>.                                *)
\* mutant of ConvertBacklight: a toggle is sent as it is
ConvertBacklight_Relative(x, c) == <<"bl", c[2], c[3]>>

ConvertBacklight(x, c) ==
    CASE c[2] = "tog" -> <<"bl", IF x.bl.on THEN "off" ELSE "on", None>>
      [] c[2] = "inc" -> <<"bl", "set", CalcBrt(x, 1)>>
      [] c[2] = "dec" -> <<"bl", "set", CalcBrt(x, -1)>>
      [] c[2] = "cycle" -> <<"bl", "set", CalcCycle(x)>>
      [] OTHER -> c

ConvertUnderglow(x, c) ==
    CASE c[2] = "tog" -> <<"ug", IF x.ug.on THEN "off" ELSE "on", None>>
      [] c[2] = "bri" -> <<"ug", "hsb", CalcUgBrt(x, 1)>>
      [] c[2] = "brd" -> <<"ug", "hsb", CalcUgBrt(x, -1)>>
      [] c[2] = "hui" -> <<"ug", "hsb", CalcHue(x, 1)>>
      [] c[2] = "hud" -> <<"ug", "hsb", CalcHue(x, -1)>>
      [] c[2] = "sai" -> <<"ug", "hsb", CalcSat(x, 1)>>
      [] c[2] = "sad" -> <<"ug", "hsb", CalcSat(x, -1)>>
      [] c[2] = "efr" -> <<"ug", "efs", CalcEffect(x, -1)>>
      [] c[2] = "eff" -> <<"ug", "efs", CalcEffect(x, 1)>>
      [] OTHER -> c

ConvertExt(x, c) == IF c[2] = "tog" THEN <<"ext", IF x.ext THEN "off" ELSE "on", None>> ELSE c

PerformBacklight(x, c) ==
    CASE c[2] = "on" -> BacklightOn(x)
      [] c[2] = "off" -> BacklightOff(x)
      [] c[2] = "tog" -> IF x.bl.on THEN BacklightOff(x) ELSE BacklightOn(x)
      [] c[2] = "inc" -> SetBrt(x, CalcBrt(x, 1))
      [] c[2] = "dec" -> SetBrt(x, CalcBrt(x, -1))
      [] c[2] = "cycle" -> SetBrt(x, CalcCycle(x))
      [] c[2] = "set" -> SetBrt(x, c[3])

\* What reaches the behavior has been converted.
PerformUnderglow(x, c, late) ==
    CASE c[2] = "on" -> UnderglowOn(x)
      [] c[2] = "off" -> UnderglowOff(x, late)
      [] c[2] = "hsb" -> SetHsb(x, c[3])
      [] c[2] = "efs" -> SelectEffect(x, c[3])
      [] c[2] = "spi" -> ChangeSpeed(x, 1)
      [] c[2] = "spd" -> ChangeSpeed(x, -1)

PerformExt(x, c) == IF c[2] = "on" THEN ExtEnable(x) ELSE ExtDisable(x)

Convert(x, c) ==
    CASE c[1] = "bl" -> ConvertBacklight(x, c)
      [] c[1] = "ug" -> ConvertUnderglow(x, c)
      [] c[1] = "ext" -> ConvertExt(x, c)
Perform(x, c, late) ==
    CASE c[1] = "bl" -> PerformBacklight(x, c)
      [] c[1] = "ug" -> PerformUnderglow(x, c, late)
      [] c[1] = "ext" -> PerformExt(x, c)

Colors == {[h |-> h, s |-> BrtMax, b |-> b] : h \in {0, HueMax, HueMax + 1}, b \in {BrtMax}}
Behaviors ==
    {<<"bl", o, None>> : o \in {"on", "off", "tog", "inc", "dec", "cycle"}}
    \union {<<"bl", "set", n>> : n \in {0, BrtMax + 1}}
    \union {<<"ug", o, None>> : o \in {"on", "off", "tog", "hui", "hud", "sai", "sad", "bri", "brd",
                                       "spi", "spd", "efr", "eff"}}
    \union {<<"ug", "efs", Effects>>} \union {<<"ug", "hsb", c>> : c \in Colors}
    \union {<<"ext", o, None>> : o \in {"on", "off", "tog"}}

-----------------------------------------------------------------------------
(* Starting: the initialisers run first, the settings are loaded later.      *)
StartBacklight(powered) ==
    IF "usb" \in build.bl THEN [brt |-> IF powered THEN 1 ELSE BrtStart, on |-> powered]
    ELSE [brt |-> BrtStart, on |-> "bl" \in build.on]
StartUnderglow(powered) ==
    [color |-> [h |-> 0, s |-> BrtMax, b |-> BrtStart], speed |-> 1, effect |-> 0, step |-> 0,
     on |-> IF "usb" \in build.ug THEN powered ELSE "ug" \in build.on]

Started(powered, flash) ==
    UpdateBacklight(
        [bl |-> StartBacklight(powered), blPrev |-> FALSE, led |-> 0, powered |-> powered,
         ug |-> StartUnderglow(powered), timer |-> StartUnderglow(powered).on, awake |-> TRUE, before |-> FALSE,
         work |-> <<>>, lit |-> FALSE, raced |-> FALSE,
         ext |-> TRUE, pending |-> {"ext"}, flash |-> flash, active |-> TRUE, loaded |-> FALSE])

NoSettings == [bl |-> None, ug |-> None, ext |-> None]

LoadBacklight(x) == IF x.flash.bl = None THEN x ELSE UpdateBacklight([x EXCEPT !.bl = x.flash.bl])
\* The strip stays as it is drawn when the setting says off.
LoadUnderglow(x) ==
    IF x.flash.ug = None THEN x
    ELSE [x EXCEPT !.ug = x.flash.ug, !.timer = @ \/ x.flash.ug.on, !.raced = @ \/ ~x.flash.ug.on]
LoadExt(x) == IF x.flash.ext = None \/ x.flash.ext THEN ExtEnable(x) ELSE ExtDisable(x)

-----------------------------------------------------------------------------
LightsInit ==
    /\ build \in Builds
    /\ half = [h \in Halves |-> [Started(TRUE, [NoSettings EXCEPT !.ext = TRUE])
                                EXCEPT !.loaded = TRUE, !.pending = {}]]
    /\ wire = <<>> /\ last = None /\ steps = 0

Step == steps < MaxSteps - (IF build.split THEN 1 ELSE 0) /\ steps' = steps + 1
Update(h, x) == half' = [half EXCEPT ![h] = x]

\* A behavior of the keymap, which the central performs; a key wakes it.
PressLightKey ==
    /\ Step /\ half["central"].active /\ half["central"].loaded
    /\ \E b \in Behaviors, late \in BOOLEAN :
         LET c == Convert(half["central"], b)
         IN  /\ late => c = <<"ug", "off", None>>
             /\ Update("central", Perform(half["central"], c, late))
             /\ wire' = IF build.split THEN Append(wire, c) ELSE wire
             /\ last' = c
    /\ UNCHANGED build

Deliver ==
    /\ wire # <<>> /\ half["peripheral"].loaded
    /\ \E late \in BOOLEAN :
         /\ late => Head(wire) = <<"ug", "off", None>>
         /\ Update("peripheral", Perform(half["peripheral"], Head(wire), late))
    /\ wire' = Tail(wire)
    /\ UNCHANGED <<build, last, steps>>

\* The activity of a half, or its USB power, changes: both lights listen.
Listen(x, event, active, late) ==
    UnderglowListener(BacklightListener(x, event, active), event, active, late)
ActivityChanges(h) ==
    /\ Step /\ half[h].loaded
    /\ \E late \in BOOLEAN :
         Update(h, Listen([half[h] EXCEPT !.active = ~@], "idle", ~half[h].active, late))
    /\ last' = None
    /\ UNCHANGED <<wire, build>>
PowerChanges(h) ==
    /\ Step /\ half[h].loaded
    /\ \E late \in BOOLEAN :
         Update(h, Listen([half[h] EXCEPT !.powered = ~@], "usb", half[h].active, late))
    /\ last' = None
    /\ UNCHANGED <<wire, build>>

\* The timer, every 50 ms, and the low priority work queue.
Tick(h) ==
    /\ half[h].timer /\ half[h].ug.on
    /\ Update(h, Submit(half[h], "tick"))
    /\ UNCHANGED <<wire, build, last, steps>>
LowPriority(h) ==
    /\ half[h].work # <<>>
    /\ Update(h, IF Head(half[h].work) = "off"
                 THEN [half[h] EXCEPT !.work = Tail(@), !.lit = FALSE]
                 ELSE [half[h] EXCEPT !.work = Tail(@), !.lit = TRUE, !.ug.step = NextStep(half[h].ug)])
    /\ UNCHANGED <<wire, build, last, steps>>

SaveBacklight(h) ==
    /\ "bl" \in half[h].pending
    /\ Update(h, [half[h] EXCEPT !.pending = @ \ {"bl"}, !.flash.bl = half[h].bl])
    /\ UNCHANGED <<wire, build, last, steps>>
SaveUnderglowWork(h) ==
    /\ "ug" \in half[h].pending
    /\ Update(h, [half[h] EXCEPT !.pending = @ \ {"ug"}, !.flash.ug = half[h].ug])
    /\ UNCHANGED <<wire, build, last, steps>>
SaveExt(h) ==
    /\ "ext" \in half[h].pending
    /\ Update(h, [half[h] EXCEPT !.pending = @ \ {"ext"}, !.flash.ext = half[h].ext])
    /\ UNCHANGED <<wire, build, last, steps>>

RestartHalf(h) ==
    /\ Step
    /\ Update(h, Started(half[h].powered, half[h].flash))
    /\ last' = None
    /\ UNCHANGED <<wire, build>>
LoadSettings(h) ==
    /\ ~half[h].loaded
    /\ Update(h, [LoadExt(LoadUnderglow(LoadBacklight(half[h]))) EXCEPT !.loaded = TRUE])
    /\ UNCHANGED <<wire, build, last, steps>>

LightsNext ==
    \/ PressLightKey \/ Deliver
    \/ \E h \in Halves :
         \/ ActivityChanges(h) \/ PowerChanges(h) \/ Tick(h) \/ LowPriority(h)
         \/ SaveBacklight(h) \/ SaveUnderglowWork(h) \/ SaveExt(h) \/ RestartHalf(h) \/ LoadSettings(h)

LightsSpec == LightsInit /\ [][LightsNext]_lights_vars

-----------------------------------------------------------------------------
(* Types; whatever effect was selected, stepped, saved and loaded, it draws a
   hue and a brightness that exist. *)
LightsTypeOK ==
    \A h \in Halves :
        /\ half[h].bl.brt \in 0 .. BrtMax /\ half[h].ug.effect \in 0 .. (Effects - 1)
        /\ half[h].ug.speed \in 1 .. SpeedMax
        /\ Pixel(half[h].ug)[1] \in 0 .. HueMax /\ Pixel(half[h].ug)[2] \in 0 .. BrtMax

(* When the work queue is empty an underglow that is off is dark, unless a tick
   was queued behind the clearing of the strip when it was switched off last, or
   it was lit before its setting was loaded at boot. *)
OffIsDark ==
    \A h \in Halves :
        half[h].loaded /\ half[h].work = <<>> /\ ~half[h].ug.on /\ ~half[h].raced => ~half[h].lit

(* With the option that switches the backlight by the USB power, what the LED
   shows is the state of the backlight while there is power, and else nothing.
   (Without the option nothing updates the LED when the power goes.) *)
LedFollows ==
    "usb" \in build.bl =>
        \A h \in Halves : half[h].led = IF half[h].powered THEN GetBrt(half[h]) ELSE 0

(* Without the automatic options a change made by a behavior is saved, or will
   be when the delayed work runs; the colour of the underglow is not. *)
Chosen(u) == <<u.on, u.effect, u.speed>>
ChangesSaved ==
    build.bl = {} /\ build.ug = {} =>
        \A h \in Halves : LET x == half[h] IN x.loaded =>
            /\ x.flash.bl = x.bl \/ "bl" \in x.pending \/ (x.flash.bl = None /\ x.bl = StartBacklight(TRUE))
            /\ \/ "ug" \in x.pending
               \/ IF x.flash.ug = None THEN Chosen(x.ug) = Chosen(StartUnderglow(TRUE))
                  ELSE Chosen(x.flash.ug) = Chosen(x.ug)
            /\ x.flash.ext = x.ext \/ "ext" \in x.pending

(* After a behavior has reached the peripheral both halves agree on what it
   set, even when they differed before, by a restart or by their activity:
   relative commands are converted before they are sent. *)
HalvesAgree ==
    build.split /\ wire = <<>> /\ last # None /\ (\A h \in Halves : half[h].loaded) =>
        LET c == half["central"]
            p == half["peripheral"]
        IN  CASE last[1] = "bl" /\ last[2] \in {"on", "off"} -> c.bl.on = p.bl.on
              [] last[1] = "bl" /\ last[2] \notin {"on", "off"} -> c.bl = p.bl
              [] last[1] = "ug" /\ last[2] \in {"on", "off"} -> c.ug.on = p.ug.on
              [] last[1] = "ug" /\ last[2] = "efs" /\ last[3] < Effects -> c.ug.effect = p.ug.effect
              [] last[1] = "ext" -> c.ext = p.ext
              [] OTHER -> TRUE

(* Waking up does not switch on a backlight that was off when the keyboard went
   idle; a half is idle only while its own keys rest, so that one which behaviors
   reach from the other half is left out. *)
WakeRestores ==
    [][ build.bl = {"idle"} /\ ~build.split /\ half'["central"].loaded
        /\ ~half["central"].active /\ half'["central"].active
        /\ half'["central"].bl.on /\ ~half["central"].bl.on => half["central"].blPrev ]_lights_vars

(* The lights, the LED, the settings and the other half follow what was asked of the
   lights, across activity, restarts and USB. *)
LightsFollow == LightsTypeOK /\ OffIsDark /\ LedFollows /\ ChangesSaved /\ HalvesAgree
=============================================================================

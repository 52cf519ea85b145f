# A TLA+ model of the ZMK keyboard firmware

This directory holds TLA+ modules that model the firmware in `src/app`, TLC
configurations that check them on small instances, and proofs that TLAPS checks
for every value of the constants. `PROJECT.json` lists the components, the runs,
what each definition models (by file and lines), the mutants that show that each
property can fail, the hazards of the code, and the theorems.

To check a run: `tlc -workers 2 -config HoldTap.cfg MCHoldTap`. To check the
proofs of a module: `tlapm Keymap_proofs.tla`.

## 1. The system

A ZMK keyboard scans a matrix, turns transitions into key positions, resolves
each position through a stack of layers to a *behavior*, and lets behaviors
produce key codes, which end up in HID reports that are sent over USB or
Bluetooth. The parts talk through the event manager (`event_manager.c`): an
event is handed to each listener of its type in turn, and a listener may let it
pass (`BUBBLE`), take it (`HANDLED`), or capture it and raise it again later,
from the next listener on. All of this is synchronous. Nearly all of it runs on
one thread, the system work queue: an event handler runs to its end, with
everything it raises nested inside it, before the next work item starts.

| Part | State | Operations | Talks to |
|---|---|---|---|
| Key scanning (`module/drivers/kscan`, `debounce.c`, `physical_layouts.c`) | debouncers, modes of the drivers, event queue, selected layout | interrupt, scan, select a layout, enable, suspend | raises positions |
| Layers (`keymap.c`) | active layers, locks, default layer | activate, deactivate, toggle, to, each locking or not | raises `layer_state_changed` |
| Conditional layers (`conditional_layer.c`) | update flag, semaphore, the layers it has locked | listener of layer changes | calls the layer operations, which call it |
| Keymap (`keymap.c`) | bindings, layer order, the layer state at each press | position pressed/released; Studio's edits | behaviors, layers |
| Combos, tap dance (`combo.c`, `behavior_tap_dance.c`) | captured presses, candidates, active combos; slots, timers | position pressed/released, timeout | event manager, behaviors |
| Hold-tap (`behavior_hold_tap.c`) | slots, the undecided one, captured events, timers, last tap | press, release, listener of positions and key codes, timer | event manager, keymap |
| Sticky keys, caps word, key repeat | slots, timers, the last key | press, release, listeners of key codes, timers | event manager |
| Behavior queue, macros, sensors (`behavior_queue.c`, `behavior_macro.c`, `behavior_sensor_rotate_common.c`) | message queue, delayed work; times and mode per macro | add, process next; press, release, turn | behaviors |
| HID (`hid.c`, `hid_listener.c`) | modifier counts, implicit and masked modifiers, reports | press, release, masks, clear | endpoints |
| Endpoints (`endpoints.c`, `usb*.c`, `hog.c`, `ble.c`) | preferred transport, selected endpoint, connections, active profile, queues of the HOG thread | select, clear, send; connect, disconnect, suspend | HID; hosts |
| BLE (`ble.c`) | profiles, bonds, advertising, pairing | select, clear, pair, save | endpoints, settings |
| Split (`split/`) | of a peripheral: key state, its queue, advertising; of the central: slots, a copy of each key state, event and command queues, scan, active transport; of the wire: rings, framing | stroke, advertise, connect, discover, notify, command, disconnect, tell the layout, choose a transport | event manager, `ble.c` |
| Settings, Studio (`studio/`, settings handlers) | what is saved, what is changed; RPC rings, framing, lock | save, discard, reset, restore; request, respond, lock, unlock | keymap, endpoints, BLE |
| Pointing (`pointing/`, mouse behaviors, air mouse) | input queue, the frame being gathered, remainders, button counts, sensor calibration | input event, frame, processors, report, layer on and off | HID, layers |
| Lights (`backlight.c`, `rgb_underglow.c`, `rgb_status_led.c`) | on, color, effect, timers, delayed saves | command, tick, auto-off, save, restart | settings, power |
| Power (`activity.c`, `pm.c`, `battery.c`) | activity, time of the last one, devices that are suspended, battery level | idle, sleep, soft off, wake, measure | devices, everything that listens to activity |

### What is hard, and what makes each part correct

- **Nested synchronous calls.** A layer change made by the conditional-layer
  listener re-enters that listener; releasing captured events may press another
  hold-tap, which captures and releases events of its own from the same array; a
  sticky key presses another behavior inside the listener of a key code; a combo
  that fails raises its keys anew and may capture them again; a behavior invoked
  from the behavior queue may add to that queue. No nested change may be lost,
  nothing may be done twice, and the loops must end.
- **Time.** A hold-tap, a combo, a tap dance and a sticky key decide by timers that
  may be served late and by key events whose time stamps are older than the moment
  they are handled. The decision must depend on when keys moved.
- **Pairs.** Each press must find its own release, though the layers, the layer
  order, the bindings, the endpoint, the mode and the decisions change in between. A
  keyboard gets this wrong as a *stuck key*.
- **Threads.** The HOG thread sends reports later than they were made and looks
  up the connection when it does; USB and Bluetooth callbacks change connection
  state that the work queue reads; Studio's thread edits the keymap; the input
  thread, the low-priority queue, the RPC thread and interrupts each share some
  state with the work queue. On a split keyboard each half has its own threads,
  with a radio or a wire in between that loses connections and what is on its way.
- **Limits.** The queue of reports drops its oldest report, the behavior queue
  refuses items, hold-taps run out of slots, the report runs out of entries, and
  the queues of events from the halves, of commands to them, of key positions
  and of input events drop what does not fit.
- **What survives.** Addresses are saved at once, the active profile, lights and
  preferences by delayed work, a keymap in several writes: a restart may come
  between any two of them.

The list of these, each at its line, is under `hazards` in `PROJECT.json`, with
the properties that would catch it going wrong.

## 2. The modules

```
Layers <- Keymap                  KeyEventOrder <- (refines) HoldTap
Hid <- Endpoints                  BehaviorQueue <- Macro
TapDance <- Combo
BleProfiles, KeymapSettings, SplitBle, SplitGatt, WiredLink, KeyListeners,
Kscan, StudioRpc, Lights, Power, Pointing, TempLayer, AirMouse
Keymap_proofs (of Layers and Keymap), Endpoints_proofs (of Hid and Endpoints),
Macro_proofs (of BehaviorQueue and Macro), Settings_proofs (of KeymapSettings and
Lights), Power_proofs (of Power and AirMouse), SplitBle_proofs (of SplitBle and SplitGatt),
BleProfiles_proofs, StudioRpc_proofs (of StudioRpc and Kscan)
MCLayers     Layers, TempLayer, Power, AirMouse
MCKeymap     Keymap, KeymapSettings, Lights
MCHoldTap    HoldTap, Pointing
MCHid        Hid, Kscan, StudioRpc
MCEndpoints  Endpoints, BleProfiles
MCMacro      Macro, KeyListeners, Combo
MCSplitBle   SplitBle, SplitGatt, WiredLink
```

An arrow points from a module to the one that EXTENDS it. Each `MC` module
EXTENDS the modules beside it, holds the values of their constants, and puts them
side by side: a variable `part`, chosen in the initial state, says which of them
moves, and the others rest in one initial state. The parts of an `MC` module share
no variables, so that a run is the union of what the parts would do on
their own, and a property of one part is checked with the full behavior of that
part. Parts that do interact in the code are composed in one module
instead: Keymap drives Layers, Endpoints delivers what Hid sends, Macro runs on
BehaviorQueue, Combo feeds TapDance, KeyListeners has all listeners of key codes
in their order, BleProfiles has the endpoint that follows the profiles.

The variable of a module of many fields is one record (`kb`, `k`, `r`, `s`, `half`), and
a handler a composition of functions on it, as in the code; in the others each
variable is one of the program.

### Layers (`keymap.c:134-236`, `conditional_layer.c`)

`layer_state` and `layer_locks` are sets of layers, for the code's bit masks. A
request (`Serve`) is one of the layer operations; `calls` are the
`set_layer_state` calls it has still to make, and `NextCall` makes one, which
raises the event. The listener's state is `cond` (whether its semaphore is
taken, and where in a pass it is), `updates_needed`, `then_on`, `todo` and
`locked_by`; `Scan`, `Apply`, `EndPass` and `Leave` are the steps of its loop. A
call that is made by the listener itself reaches the listener again, fails to
take the semaphore, and only sets the flag: `SetLayerState` does both.

### Keymap (`keymap.c:280-422`, `702-753`, the layer behaviors)

`Press` records the layer state of the moment in `active_layers` and resolves the
position through `orders` and `zmk_keymap`; `Release` resolves it against the
record. What they call is a request of Layers. Studio's edits are actions of
their own, as they run on another thread: `SetLayerBinding`, `MoveLayer`,
`AddLayer`, `RemoveLayer`, `RestoreLayer`. `held` is history: the layer and
binding that had the press. `surprised` is history too: Studio has edited while
a key was down.

### KeymapSettings (`keymap.c`, `physical_layouts.c`, `studio/`)

`k.ram` is what is in use, `k.flash` what is saved, `k.doing` the request being
served. An edit (`ClientSetsBinding`, `MoveRequest`, `AddRequest`, `RemoveRequest`,
`RestoreRequest`, `SetLayerProps`, `SetActiveLayout`) is one step. A save
(`StartSave`, `SaveLayout`, `SaveBindings`, `SaveLayerOrder`, `SaveNames`) and a reset
(`StartReset`, `ResetLayer`, `ResetDone`) take one step per setting; `WriteFails`
ends a save anywhere, `DiscardFails` is a discard that ends early or finds only a part of
the settings, and `Restart` happens between any two steps. `LoadedMap`,
`LoadedOrder` say what a restart makes of the settings. `ResetLayer`
reads an array that is not initialised (`keymap.c:658`): its content is any set. It
leaves alone what looks like the stock binding in the bytes it compares, which are as many
as a setting has and fewer than a binding has (`keymap.c:671`): `Compared` says which bindings
look alike. `unread` is history: what the last load failed to read.

### HoldTap and KeyEventOrder (`behavior_hold_tap.c`)

The calls in progress are a `stack`. `Hear` and `HearOn` are the two halves of
the position listener, split where it may decide for a timer that is due;
`ReleaseCaptured` is one round of the loop that raises captured events again;
`Finish` is the end of a release, `Schedule` the end of a press, `Timer` the
handler of the timer. `Decide` is `decide_hold_tap`, with the four flavors in
`Decision` and positional hold in `Positional`. `captured` is the array with its
holes, as the code depends on where they are. Keys are plain keys, modifiers, or
hold-taps between a modifier and a key, and `sent` counts presses minus releases
per symbol at the HID listener. `keyboard`, which says what the keys are bound
to, is chosen in the initial state and never changes, so that one run covers
several keyboards.

`KeyEventOrder` says what anything that captures key events must promise to the
keymap: no event lost, doubled or invented, the events of a key in order, no
press before an event that came earlier. `KeepsOrder` states that HoldTap
implements it; the refinement mapping `Waiting` reads the captured array and the
events that are being raised in the order of the array.

### KeyListeners, Combo and TapDance

In `KeyListeners` a key event with all it causes is one step: `Raise` hands a key
code to sticky keys, caps word, key repeat and HID in this order (`Visit`, `After`),
and the sticky keys' own presses and releases are raised inside it, recursively.
`TimerHandler` is the release timer, which may be late. `kb.seen` is what the
host has seen last: a key with its modifiers.

In `Combo` an event that was captured is let through (`ZMK_EVENT_RELEASE`) or raised
anew (`ZMK_EVENT_RAISE`), which is recursive too. `s.pressed` are the captured
presses, `s.active` the combos that are pressed, `s.timeout_task` the timer;
`TapDance`, whose listener stands behind it, gives functions on the same state.
`build` chooses the combos, how many may be active, and whether `long` has 32 or 64 bits.
A first press adds its bits to `s.candidates` (`SetupCandidates`), which need not be empty: a
combo that finds no room (`Activate`) raises its keys anew and lets them through in the end, but
what they have set on the way stays. `s.ts0` is the time stamp in the first entry of
`pressed_keys`, which the timer's handler reads also when no key is captured. `s.crowded` and `s.left` are
history: whether a combo has found no room, and the candidates that were left by it.

### BehaviorQueue and Macro

`stack` holds the calls of `zmk_behavior_queue_add` and
`behavior_queue_process_next` in progress. What a behavior adds when it is
invoked is the constant `AddsOf`, so that the queue is modelled, and proved,
for any behaviors. Macro gives it a value: the items that `queue_macro` makes of a
list of bindings, with its modes, times and pause. A macro may invoke macros.
`due` and `refused` are history.

### Kscan

`s.key` is the debouncer of each switch, `s.mode` and `s.timer` what each driver
waits for, `s.queue` the event queue. A driver reports the switches that have changed one
after the other, each to the callback it has been given (`Deliver`). `MatrixInterrupt`, `DirectInterrupt` and
`CharlieplexInterrupt` start the scanning, `Scan` reads all switches of a driver, `ScanFails` is a read that
fails, `Process` empties the queue. `SelectOff` and `SelectOn` are the two halves of
the selection of a layout, which runs on another thread. Time is counted in scans.

### Hid (`hid.c`, `hid_listener.c`, `behavior_key_press.c`, `behavior_mod_morph.c`)

`hid` is a record of the modifier counts, the explicit, implicit and masked
modifiers, the report, and the reports that the last handler has sent, in order.
`Pressed` and `Released` are the two handlers of the HID listener; a report has
a fixed number of entries, and a key that finds no room is not in it. `Clear`
is what a change of endpoint does.

### Endpoints (`endpoints.c`, `usb.c`, `usb_hid.c`, `hog.c`, `ble.c`)

It EXTENDS Hid: every keystroke's reports are delivered to the endpoint that is
selected, at once for USB, through a queue for Bluetooth. `HogSend` is one round
of the HOG thread's loop. `UsbStatus` and `Connection` are the callbacks, which
submit work; `UsbChanged` and `BleChanged` are that work; `Update` is
`update_current_endpoint`. `view` is what each host has been told (the hosts are
external). `surprised` is history: a profile was switched, or USB suspended, with
a key down or a report queued.

### BleProfiles (`ble.c`, `behavior_bt.c`, `endpoints.c`)

`kb.peer` is the host of each profile, `kb.conn`, `kb.bonded`, `kb.pairing` and
`kb.radio` are the Bluetooth stack's, `kb.work` the work that is submitted or
delayed, `kb.flash` the settings. `Command` is any of the behaviors `&bt` and
`&out`; `HostConnects`, `LinkEnds`, `PairingRequest`, `PairingDone`, `PairingFails`
are the callbacks; `AdvertisingWork`, `RaiseWork`, `SaveActive`, `SavePreferred` the work
items; `Restart` happens anywhere, and within the upgrade of an old setting.

### SplitBle (`split/bluetooth/`, `split/central.c`)

Each peripheral has its `keys`, the `queue` of key states that its notify thread
drains (`SendState`), what it does to be found (`adv`), and `air`, the
notifications on their way, which go with the connection. Each slot of the
central has the address it is for, its `state`, how much has been discovered
(`found`), whether it is `secured`, and the `mirror` of the peripheral's keys.
`Notified` puts the differences into `events`; `ReleaseSlot` puts releases there;
`Raise` takes them out and hands them to the keymap, if Bluetooth is still the
active transport. `Found`, `FoundInVain`, `Connected`, `ConnectionFailed` and
`Disconnected` are the callbacks of the scan and the connections, each with the
restart of the scan at its end. `TellLayout` reads the layout and `WriteLayout`
writes it to one slot after the other. `SelectTransport` chooses between the wire,
which comes first, and Bluetooth; of the wire only its detect pin is modelled
here (`Plug`). `Boot` starts or restarts a peripheral. `raised`, `stale` and `lost` are
history, and `left` the bounds on what the outside does.

The two sides see a disconnection at different times (`Dropped`,
`Disconnected`), and a connection at the same time. A write of the layout arrives
at once, and each callback is atomic.

### SplitGatt

What else goes over a Bluetooth link. `FindService`, `FindCharacteristic`, `FindInput`,
`FindCcc`, `FindCpf` are the callbacks of discovery, each of which finds one item of
the half's table. `commands` is the queue of commands to the halves, from which
`RunCommand` and `DropCommand` take; `PutCommand` and `Overtaken` put, the latter when it is full.
`Turn`, `Move`, `Drain` are an encoder, a pointing device and a battery of a half.

### WiredLink (`split/wired/`, `split/central.c`, `split/peripheral.c`)

Messages are sequences of tokens in rings; `GetPrefixed` finds the next message in
what was received. `CentralTransmit`, `CentralReceive`, `PublishEvents` and their
counterparts on the peripheral are the work items and interrupts of the three modes
of the UART; `Noise` damages a token on its way, `PlugWire` cuts and restores
the wire, `CentralStatus` and `PeripheralStatus` choose the transport.

### StudioRpc (`studio/rpc.c`, `msg_framing.c`, `*_rpc_transport.c`, `core.c`)

Two writers, the RPC thread and the system work queue, take the mutex
(`LockTransport`), write byte by byte as there is room (`WriteBody`, `WriteEnd`), and
wait when there is none. `ReadByte` is the decoder of the RPC thread (it may take a byte that is
in the ring before the semaphore for it is given, and one by one where the thread claims several:
this only adds behaviors),
`SerialSends`, `SerialReceives`, `Copy` and `Confirm` are the interrupt, the receive thread and
the confirmation of an indication.

### TempLayer, Pointing and AirMouse

`Pointing` goes from the devices to the host's mouse: keys and a device of the other
half put events into Zephyr's queue of input events, which drops what does not fit
(`PointerReport`); the listener takes one at a time, applies the processors
and gathers a frame (`ListenInput`); reports wait in a queue of the HOG thread (`SendMouseReport`).
`TempLayer` is the processor that switches a layer on while a device moves:
`HandleEvent` runs in the input thread, `ActionWork` and `DisableCallback` on the work
queue, between them a short queue of actions. `LayerChanged` asks for the layer whose *index*
is the number of the temporary layer (`SeenActive`), as `input_processor_temp_layer.c:137` does,
while the layer is switched by its id; `LayerMoved` is Studio moving layers, which makes the two
differ. `turnedOn` is history: the layers that the processor has switched on. `AirMouse` has the driver of the
motion sensor, the work that turns rates into movement, the mode key, the space bars
that become buttons, and the status LED.

### Lights and Power

`Lights` has two halves, each with a backlight, an underglow, external power, activity,
USB power and the delayed saves of all of them; a behavior is converted on the
central (`Convert...`), sent over `wire`, and performed on both. `Tick` and
`LowPriority` are the timer and the queue that draw; the timer may also fire inside
`UnderglowOff`, and `raced` records that a tick is queued behind the clearing then. `Power` has the activity timer,
suspension of the devices in order, any of which may refuse, soft off, the sources
of wakeups and the battery.

### What Zephyr is taken to do

- `k_work_cancel_delayable` of a work item on the queue that calls it never finds
  it running, so the branch of the hold-tap for a timer that cannot be cancelled
  (`work_is_cancelled`) is dead.
- `k_work_delayable_is_pending` is true of work that is scheduled, queued or
  running. `k_work_schedule` does nothing if it is scheduled, and schedules it if
  it is running.
- `k_msgq_put` with no wait fails if the queue is full; `k_msgq_get` takes the
  first.
- A connection is created if none is being created; a subscription needs security
  level 2, which is reached after a connection; what is notified arrives in order
  or goes with the connection; scanning starts and stops when asked to; advertising starts if there
  is room for a connection.
- Writes to USB and notifications over HOG succeed, except that a suspended host is sent
  nothing (`usb_hid.c:189`).
- A write of a setting is done or fails as a whole.

## 3. The runs

Bounds are in the `.cfg` files. A bound is enough when the cases that the
properties are about all happen within it; that they do is shown by the mutants,
each of which TLC finds within the same bounds.

| Run | Instance and bounds | What it shows |
|---|---|---|
| `layers_chained` | *Layers:* five layers, three configurations chained on one another, every operation on every layer, locking or not, and on a layer that does not exist. *TempLayer:* two layers, whose order Studio may change, one instance, an action queue of two, four inputs and three keys. *Power:* four devices, one failure, three events, a clock of three bits. *AirMouse:* six builds, rates at rest, in the dead zone and at both ends, one failure of the chip. | `LayersSettled`: when an operation has returned, every then-layer agrees with its configurations, however many nested changes the listener made; no stale lock; a locking `&to` leaves one layer. `SettlesInTheEnd`: the listener's loop ends, temporary layers go off unless an action was lost or the layer's number no longer is its index, a keyboard left alone sleeps and its host learns the battery level, a calibration ends. `DevicesAgree`: whatever refuses to suspend, devices run while the keyboard is on, and something can wake it up when it is off. `AirMouseFollows`, `StillIsStill`: buttons released as they were pressed whatever the mode, the interrupt always armed or handled, no drift. |
| `layers_cyclic` | two configurations that name each other's layer | Violation of `Terminates` |
| `keymap` | *Keymap:* three keys, four layers, one conditional; two edits, of one binding or of the layer order. *KeymapSettings:* three layers of two positions, bindings that a reset tells from the stock binding and one that it does not, three changes, a failed write or load, a restart. *Lights:* scales of three values, three commands or events, one or two halves. | `LayersAccounted`: no interleaving of presses, releases and of edits while no key is down leaves a layer on that no key holds, and the order has no duplicates and no gaps. `ChangesKept`, `SaveIsComplete`: what a restart would not bring back is known to be unsaved, and a save that succeeds saves everything, but for settings that a reset overlooked or that a failed discard did not read. `LightsFollow`, `WakeRestores`: off is dark, both halves agree, changes are saved, waking up restores. |
| `keymap_move` | three layers, one move | Violation of `ReleaseGoesToPressedLayer` |
| `hold_tap` | *HoldTap:* six keyboards of three keys, three or four presses, four ticks, two slots, eight captured events. *Pointing:* five arrangements, a queue of three input events, a queue of two reports. | `KeepsOrder`; `PressesAccounted`: the array of captured events, the slots, and each press released once; `TypedAsPressed`; `Decides`. `PointerFollows`, `MotionConserved`: buttons and motion reach the host once and whole. |
| `hold_tap_linger` | one hold-tap, two presses | Violation of `SentBalanced` |
| `hid_keys` | *Hid:* keys that share usages and modifiers, fewer entries than keys, a mod-morph on two positions, endpoint changes at any time. *Kscan:* six switches under the seven kinds of drivers, four layouts, two debounce settings. *StudioRpc:* rings of a few bytes, three events beside the requests. | `ModCounted`, `ReportsFollow`: nothing stuck; `KeyBeforeModifiers`: no report takes a key's modifiers before the key. `PositionsReported`, `NoChatter`: positions follow the switches. `TransportsAgree`: no message is made of two, nothing stays unlocked for another transport. `SettlesAndServes`: positions settle, requests are served. |
| `endpoints` | *Endpoints:* USB that may be suspended, two BLE hosts, one key with reports of both pages, queues of two. *BleProfiles:* two profiles, two hosts, a passkey of two digits, three commands, four connections or requests for pairing, five of both, one restart. | `EndpointsReleased`: no host keeps a key, unless a profile is switched or USB suspended with something down or queued; what is selected is ready. `ProfilesAgree`: advertising when needed, the endpoint, bonds and profiles, the passkey and the settings; `NoTakeover`. |
| `endpoints_old` | *Endpoints* with a plain key | Violation of `OldEndpointReleased` |
| `macro` | *Macro:* four macros, one paused, one nested in another, a sensor, three events, a queue of six items, which overflows. *KeyListeners:* four keys in twelve keymaps and flags, two slots. *Combo:* six boards of up to four combos and four keys, room for one active combo, six key events in five milliseconds; on one board eight in three. | `NoLostWakeup`, `MacroAccounted`, `Drains`, `WaitHonouredAfterKeys`. `StickyAccounted`, `SeenWithModifiers`: no slot is lost, no modifier stays, each key is seen with what was armed for it. `CombosAccounted`, `CombosInOrder`: every key that is down is captured, in a combo, or down for the keymap; presses in order; a combo is pressed by its own keys, in its time, unless it was left a candidate when one found no room. |
| `macro_nested_wait` | the same macros, one event | Violation of `WaitHonoured` |
| `split_ble` | *SplitBle:* two halves of two keys, queues of two, two layouts; six budgets of what the outside may do. *SplitGatt:* eleven keyboards of halves with lights, batteries, encoders, pointing devices, each with a budget. *WiredLink:* three ways of using the UART, noise and a cut. | `KeepsLooking`: no interleaving makes the central stop looking for a half. `KeysAgree`: whatever was dropped or lost, the copy of a half's keys is right once a state has got through, and the same over the wire. `OnlyOnce`: nothing is raised twice, nothing that was not sent. `DiscoveredRightly`, `BothSidesAgree`: what the halves have is found, and lights, batteries, behaviors and encoders agree. `LinksDeliver`: in the end every half is connected and what was sent has arrived. |

**Why these bounds.** Hold-taps that capture and release within one another need
three keys and two slots, and happen within three presses. The last of the
eight entries of the array is never filled, so that its overflow is not part
of the run. The tapping terms of one and two ticks make both orders of two timers
happen, and late key events. In `endpoints`, a queue of two is filled by one
keystroke more than the HOG thread keeps up with; a profile is taken twice within four
connections and requests. In `hid_keys` a report has fewer entries than
there are keys, a ring fewer than a message. In `macro`, that the queue overflows,
and that it does not, both happen; two sticky keys, or a sticky key and a caps word,
meet on one key code; a combo finds no room while a longer one is still possible, and the
candidates that stay lead to a combo pressed by other keys, for which eight events are needed. In `split_ble` three strokes overfill a half's queue and
two halves overfill the event queue; the budgets each allow a combination of
two or three kinds of disturbance, rather than all of them at once. Some
combinations that were checked once on larger bounds were taken out of the runs,
so that each stays within minutes: sums of bounds (`MaxBleSteps`, `MaxEvents`,
`MaxTrouble`, `MaxPowerEvents`) say where.

**Symmetry and views.** In `endpoints` the two hosts are interchangeable, in
Endpoints as in BleProfiles, so that their symmetry is sound. Three parts of the
state are not part of a view: the reports of the last handler, which nothing reads once
they are delivered; what hosts were told after a surprise, which no property is
about; and in `keymap` the records of layers of positions that are up, which the
next press overwrites before anything reads them.

**Deadlock.** `CHECK_DEADLOCK FALSE` is set for the instances in which the bounds
on time, presses or events run out.

### Fairness

- `Layers`, `HoldTap`: a handler that has started runs on, as nothing can
  preempt it on the system work queue: weak fairness of its steps. Time passes,
  and a delayed work item whose time has come is run: weak fairness of `Tick` and
  of each `Timer`. Nothing is assumed about keys: `Decides` holds of a hold-tap
  whose key is never released.
- `Macro`: the same of the steps of the queue, its work and the clock.
- `TempLayer`, `Power`, `AirMouse`: submitted work is run, timers expire, and
  the periodic works run again and again. Nothing is assumed about inputs; the
  battery level is reported although a reading may fail, as it is read again.
- `Kscan`: interrupts fire while a key is down, scheduled scans and the queue's
  work are run, and a selection that has begun is completed.
- `StudioRpc`: threads run, the serial port sends, a host that stays confirms.
  Strong fairness is assumed of taking the mutex and of taking the next job, as both
  are contended by threads that the scheduler serves in turn.
- `SplitBle`: the work queues run (`Advertise`, `WiredStatus`); a disconnection
  that was asked for happens and both sides see it (`HangUp`, `Disconnected`); a
  half that advertises is heard while the central scans, and answers (`Found`,
  `Connected`). The radio makes the last two so as long as nothing interferes:
  losses and failures are bounded, and no fairness is assumed of them.
- `SplitGatt`, `WiredLink`: discovery, threads, interrupts and work items go on;
  nothing is assumed of noise, cuts, and the restart of reception.
- `Keymap`, `KeymapSettings`, `Lights`, `Hid`, `Endpoints`, `BleProfiles`, `KeyListeners`,
  `Combo` and `Pointing` are checked for safety only.

## 4. What the violations show

Each is described, with the line of the documentation or comment that says
otherwise, under `findings`.

1. `layers_cyclic`: two conditional layers that each call for the other's
   if-layer keep the listener in its loop for ever. The comment at
   `conditional_layer.c:58` says that the process terminates.
2. `keymap_move`: when Studio moves a layer while a key is down, the release goes
   to another layer's behavior than the press.
3. `hold_tap_linger`: with `hold-while-undecided-linger` and a hold decision, the
   hold is released twice.
4. `endpoints_old`: when the BLE profile is switched while a key is down, the
   reports that are to release it on the old host are sent to the new one.
5. `macro_nested_wait`: when a macro's binding is a macro, the wait after it is
   replaced by the inner macro's first wait.

### Seen while modelling

Followed by the models, and either excepted by name in a property or left
without one.

- *Layers, keymap.* A conditional layer whose if-layers include the default layer tests
  the layer's bit, which is clear after boot (`conditional_layer.c:102`), though
  the default layer counts as always active elsewhere. When Studio removes the
  default layer no position is resolved any more (`keymap.c:729`).
- *Hold-tap.* With `hold-while-undecided`, a quick tap releases a hold that was never
  pressed (`behavior_hold_tap.c:623`); what happens when the array of captured events is
  full (`behavior_hold_tap.c:153`) is in the model, but not within a run's bounds.
- *Sticky keys, key repeat.* Two key-repeat positions share one record of what they pressed: the first
  one's key stays down. A lazy sticky key is not seen by the host until its key comes.
- *Combos.* The timer of a captured key is computed with a `long` of 32 bits
  (`combo.c:411`): captured keys may wait for the next event (`HasTimer` is asked of 64 bits).
  When a combo finds no room, its keys are raised anew and then let through, but the candidates
  (`combo.c:171`) and the timer that they have set stay: the next keys may press a combo that
  they are not the keys of, such as AB by D and A (`PressedTogether` excepts the candidates in
  `s.left`), and may wait without a timer (`CapturedHasTimer` is asked of boards with room).
- *Macros.* What a macro queues after its pause waits 0 ms unless its list sets the
  times (`behavior_macro.c:214`).
- *Endpoints.* A key that is down while the USB host is suspended is not released there
  when the endpoint changes (`usb_hid.c:190`).
- *Profiles.* With bonds cleared on start, the addresses stay in memory until
  the next restart. A restart within the upgrade of the old
  preference loses it (`endpoints.c:347`). With overwriting, a late pairing
  that is refused removes the bond of the host of another profile.
- *Settings.* A reset compares as many bytes of a binding as a setting has
  (`keymap.c:671`), fewer than a binding has: a binding that differs from the stock one only behind
  them is reset, but its setting stays, and comes back with the next restart without being
  pending (`Overlooked`). A discard whose loading fails leaves stock bindings in place of the
  settings, and they are not pending (`unread`); one that fails to resume the key
  scan leaves the default layout selected and everything else as it was. A reset leaves the selected layout, pending changes and names as they are.
  The check of unsaved changes does not look at names and order (`keymap.h:76`). The array
  that `keymap.c:658` does not initialise makes no difference to what is saved or
  pending: that is part of a proof.
- *Studio.* With Bluetooth, the system work queue may wait for room (`rpc.c:138`)
  that only it can make. The marks of a message's begin and end are lost when the ring is
  full. A write that is longer than the ring stops the receive thread. A response that
  cannot be encoded leaves the mutex taken.
- *Scanning.* With a press debounce of 0 a key that is held at boot calls a callback
  that is not set yet. A read that fails leaves the scanning dead. The queue of events drops a release when it is
  full. A layout that does not fit leaves the keyboard off.
- *Lights.* Auto-off while a save waits saves "off". A late tick relights the strip.
- *Power.* A soft off that fails after its first pass leaves devices suspended
  (`stranded`). The time without activity wraps around after 24.8 days.
- *Pointing.* When the queue of input events is full a button's release is lost. A temporary layer's
  action uses the first instance's data whichever instance it is for
  (`input_processor_temp_layer.c:93`), and a full queue of actions loses the end of a layer.
  The listener of layer changes takes the layer's id for an index (`input_processor_temp_layer.c:137`):
  once layers are moved, it takes a layer that has just been turned on to be off, stops its timer, and
  the layer stays on (`Misjudged`).
- *Split over Bluetooth.* When a half disconnects with more keys down than the
  event queue has room for, the releases that do not fit are dropped and nothing
  makes up for them (`split/bluetooth/central.c:204`). Keys that are down on a half
  when it connects are not known until one of them moves. A pointing device with
  the number 0 never looks complete, and the next one overwrites it
  (`split/bluetooth/central.c:90`). A half that reconnects is not told of the
  lights. Behaviors pressed on a half stay pressed there when it disconnects.
- *Split over wire.* With half duplex, a poll that does not fit into the full ring is
  never sent, nor is what fills the ring (`Jammed`). A key that is pressed over one link and released
  over the other stays down (`carried`).

## 5. The proofs

TLC checks small instances; TLAPS checks the theorems below for every number of
layers, keys, hosts, profiles and halves, every size of a queue or a report, and every
keymap or configuration that the assumptions admit. Each assumption on the constants is a named
`ASSUME` of the module that declares them, as weak as the code justifies (what Kconfig
ranges and the device tree give: sets are finite, sizes are natural numbers,
bindings refer to what exists), and TLC evaluates it in every run of that module.

Each module of proofs is laid out alike: lemmas about the operators of the model, the
inductive invariant as a conjunction of named parts, a lemma for the initial
state, one for a step with a case per action, and the theorems. Each inductive invariant
was checked by TLC, as an invariant of the run of its module, before it was proved; of that
of StudioRpc only the parts that are not about the existence of a sequence could be.

| Module | Theorems | From, and along which argument |
|---|---|---|
| `Keymap_proofs`, on Layers | `TypeCorrect`, `LocksAreActive`, `ConditionalSettles`, `LockRecordIsCurrent`, `ToLeavesOne`, `LayersAreSettled` (`LayersSettled`) | When an operation has returned, then-layers agree with their configurations. That is not inductive: during the listener's loop it is false. The invariant says where it may be: if no update is needed and no pass is under way then all configurations agree, and in a pass those that have been scanned do, unless the flag is set again. Any change of the layers made inside a pass sets the flag. The loop need not end for this (see `layers_cyclic`). |
| `Keymap_proofs`, on Keymap | `KeymapTypeCorrect`, `KeymapImplementsLayers`, `LayersSettleUnderKeys`, `LayersAreAccounted` (`LayersAccounted`) | Every step of the keymap is a step of Layers or a stutter, step by step, so that what is proved of the layers holds under keys and edits. For `LayersAccounted` the invariant follows the requests and calls still to be made: each layer that is on, or that a call under way will put on, has its reason. |
| `Settings_proofs`, on KeymapSettings | `ChangesAreKept` (`ChangesKept`), `SavesAreComplete` (`SaveIsComplete`) | What is read from the settings is compared with what is in use, binding by binding, and the two kinds of bindings that the code loses sight of are excepted where they arise: `Overlooked` is a condition on the state, `unread` a history of the last load. The invariant adds what is true inside a save or reset: the bits cleared so far are those whose settings have been written, whatever the array that `keymap.c:658` leaves uninitialised contains. Lemmas give the entries of an order after a layer is inserted, removed or moved. |
| `Endpoints_proofs`, on Hid | `TypeCorrect`, `ModifiersCounted` (`ModCounted`), `ReportsFollowTheKeys` (`ReportsFollow`), `KeysGoFirst` (`KeyBeforeModifiers`) | The counts are cardinalities of the sets of keys that ask for a modifier; the invariant adds that each key that is down has pressed what it is bound to. What a report shows is followed through each function of `hid.c`, and `KeyBeforeModifiers` through the sequence of reports of a handler. |
| `Endpoints_proofs`, on Endpoints | `HostsAreReleased` (`EndpointsReleased`), `EndpointsImplementHid` | Every step of the endpoints is a step of Hid or a stutter. For the hosts, the invariant is about what each page of each host will show once the reports queued for it are sent (the last one queued, or what it shows now): for the host that is selected no more than the state allows, its explicit modifiers included, since masks are not sent when they change; for any other, nothing. A queue with reports has work submitted or a send under way. A mod-morph holds something only while a position of it is down, so that with no key down nothing is left to show. A change of profile, or a suspended USB host, in the middle of a handler is what `surprise` records. A handler is shown to send at most three reports. |
| `Power_proofs`, on Power | `DevicesAlwaysAgree` (`DevicesAgree`) | What is suspended before one device refuses is a set, and the devices in it were all on, so that resuming that set gives the devices as they were; the invariant adds that the battery's timer runs exactly while the keyboard is active. |
| `Power_proofs`, on AirMouse | `AirMouseAlwaysFollows` (`AirMouseFollows`), `RestMovesNothing` (`StillIsStill`) | The search for the nearest rate is a loop over the table: a recursive function, shown to exist and to be right for each prefix by induction on its length. The sum of the calibration is the number of samples times the reading, as long as the keyboard has not been turned, so that the bias cancels the reading, whatever the offset of the sensor. The button counts are one exactly for the bars pressed as buttons; each LED mode has its range of phases, and the blue pulse is dark where the range wraps around. |
| `StudioRpc_proofs`, on StudioRpc | `TransportsAlwaysAgree` (`TransportsAgree`) | The invariant follows the client's framing along the bytes that are still in the ring: there is a sequence of states of the client, one per byte, in which every message that ends is one that was sent, and which leaves off where the writer that holds the mutex is (what the client has and what the writer has left make up the message, and the client waits for an escaped byte if the claim ended between the escape and its byte), or between two messages if nobody writes. A claim fills its slots by recursion over their number; that recursion is shown to be defined, and to keep the invariant, by induction (a set of numbers that is not empty has a least element, by `WFMin` of the library). |
| `StudioRpc_proofs`, on Kscan | `PositionsAreReported` (`PositionsReported`), `KeysAreDebounced` (`NoChatter`) | For each switch of the selected layout: the last event queued about it, else whether its position is down, says what its driver holds it for, unless its driver has just read it and has not come to it yet. A driver that has not been given a callback has read nothing yet and holds none of its switches for pressed, so that only the reads of its resume, which come first, can find nobody to call. While a selection is between its two halves every driver is off, the queue is empty, no position is down and no key is held for pressed, unless a report came in between, which `moved` records. The debounce counter is never above the age, so that what flips is old enough. What one read reports, and what switching a composite driver does, are recursive functions over the driver's switches and the composite's children, followed by induction; a switch is wired to one driver and a position is made of one switch, which `KscanAssumption` states. |
| `Macro_proofs`, on BehaviorQueue | `QueueTypeCorrect`, `NoWakeupIsLost` (`NoLostWakeup`) | For any behaviors that add to the queue when they are invoked: an item in the queue has its delayed work scheduled, or a call in progress that will look at it. |
| `Macro_proofs`, on Macro | `MacrosImplementTheQueue`, `WaitsAfterKeysAreHonoured` (`WaitHonouredAfterKeys`), `WhatIsPressedIsReleased` (`MacroAccounted`) | Each step of the macros is a step of the queue or a stutter. For the waits: a wait that is not over is on the delayed work, or held by the innermost call of the loop, and while the work is scheduled no call around it goes on at once. For the releases: each item that presses, in the queue or still in the hands of a call, has one behind it that releases the same, or one that releases a macro whose release leads to it. Macros nest to any depth, so "leads to" is the least relation closed under one macro releasing another, stated as membership in every closed set. What is behind what depends on whether the queue waits: then what the innermost call still adds goes behind all that is queued, otherwise the queue is empty before a call goes on. |
| `SplitBle_proofs`, on SplitBle | `CentralKeepsLooking` (`KeepsLooking`) | For any number of halves, slots and layouts: the central scans, or is connecting, or has no slot to fill. |
| `SplitBle_proofs`, on SplitBle | `MirrorsAlwaysAgree` (`MirrorsAgree`), `EventsAreNew` (`NoRepeatedEvent`) | The newest state of a peripheral is the last in its queue, else, if one got through on this connection, the last on the air, else the central's copy: that is why states dropped from a full queue do no harm. Of the events about one position of one slot each says the contrary of the one before, the first the contrary of what has been raised, and the last says what is in the copy. A slot that can be told has the central's layout, or is still to be told it by the pass in progress, or by the next one. No two slots have the same address. |
| `SplitBle_proofs`, on SplitGatt | `HalvesAlwaysAgree` (`BothSidesAgree`) | What agrees at rest is, at any moment, what the *last* message about it says: of those still to be put into the queue, else of those in the queue, else of those on the air, else what is known already. For the charge: the last notification on the air, else the last event in the queue, or a read is on its way, or the characteristic is still to be found. For the encoder: detents counted, queued and on the air add up to those turned, unless one was lost. Lemmas say what a queue's last message of a kind is after one is put, taken, dropped or overtaken. |
| `SplitBle_proofs`, on SplitGatt | `DiscoveryIsRight` (`DiscoveredRightly`) | A slot is open, or serves a device that discovery has passed, or is the one slot of the device that discovery is at; no two serve the same. So the slot that `find_pending_input_slot` returns is that of the device at hand. If no slot is open and there are enough, every device has one: slots are mapped one to one into a set that has no more elements. |
| `BleProfiles_proofs` | `ProfilesAlwaysAgree` (`ProfilesAgree`), `ProfilesAreNotTakenOver` (`NoTakeover`) | The invariant weakens what holds at rest to what holds at any moment: advertising is right unless work for it is submitted or a connection is being closed; the endpoint unless the event is still to be raised or its host is leaving; a host that is pairing is not bonded, unless bonds may be overwritten; an address in the settings is the one in memory or none. A lemma for each function says what it leaves of the invariant, and the handlers compose them. For the passkey, the ring buffer is shown to hold the last digits. |
| `Settings_proofs`, on Lights | `LightsAlwaysFollow` (`LightsFollow`), `WakingRestores` (`WakeRestores`) | A lemma for each function of the lights says that it keeps a half as good as it found it, and what it sets. An underglow that is off is dark or has the clearing of the strip as the last item of its queue; the step of an animation is one of the effect that is selected, in memory and in the settings; until its settings are loaded a half is as it was started, and has nothing to save. The halves agree because a command is absolute once it is sent: the last one the central performed is still the last on the wire, or the peripheral has performed it too. |

`DiscoveryIsRight` has a condition, `Numbered`: only the last pointing device of a half may have
the number 0. It cannot be dropped: a slot with the number 0 stays pending, so that with two
devices numbered 0 and 1 on one half the second takes the first one's slot, and TLC finds
`UnderItsOwnReg` violated. The tables of the run meet it.

The last two theorems on Macro have conditions, which a keymap may break:
`AllWaitAfterMacros` (what invokes a macro that adds items has a wait of its own; without
it the items of the inner macro and of the outer one overtake each other's waits, as in
`macro_nested_wait`) and `ReleasesWhatItPresses` (a list that presses a key and never
releases it leaves it down, as it should). The macros of the run meet both: TLC evaluates
them as an assumption of `MCMacro`.

The prover has no induction rule that it can apply to a predicate of ours, and accepts no RECURSIVE
operator. Where a loop is a recursive *function* (the claim of StudioRpc, the search of
AirMouse, the reports and the switching of drivers of Kscan) induction is done by hand, with
the least element of the set of counterexamples; where the code has a loop over an array and only what it leaves matters, the
model says what that is (`ClearProfileBonds`, `RemoveAt`, `InsertAt`, `SuspendUntil`, `Process` of Kscan; `PutAll` and `ToldAll`
for the at most three reports of a handler), and TLC has compared that with the loop's fold on
the states of the run.

### What is only model-checked, and why

- *Liveness* (`SettlesInTheEnd`, `Decides`, `Drains`, `SettlesAndServes`, `LinksDeliver`): the prover has no
  rules for fairness and ENABLED.
- *Modules with RECURSIVE operators* (`KeyListeners`, `Combo`, `WiredLink`): handlers that call
  themselves are recursive in the model too, and the prover's SMT backend does not
  accept them: `StickyAccounted`, `SeenWithModifiers`, `CombosAccounted`, `CombosInOrder`, and the wire's
  half of `KeysAgree` and `OnlyOnce` (the other half is proved).
- *Sums over data* (`MotionConserved`): the model adds up frames with folds of the community
  modules, whose definitions take an operator, which the prover cannot unfold.
- *Not attempted yet*, for the size of the invariants: `PressesAccounted`, `TypedAsPressed` and the
  refinement `KeepsOrder` of `HoldTap`, and `PointerFollows`.

## 6. What is not modelled

- Boot order and reset, the boot loader, device trees: no state of theirs is told apart
  by a property.
- The display, the typing speed, the colors of an effect, logging: output only.
- The encoding of messages of Studio and of advertising data, names of layers and
  profiles: data that nothing here depends on. The framing of messages is modelled.
- NKRO and boot-protocol reports; the scroll resolution; the curve by which arrows
  accelerate; the accumulation of a sensor's degrees.
- Macro parameters, and the validation of parameters against metadata, which
  changes no state. The erasing of all settings.
- Errors of scanning and of the start of a discovery; connection parameters.
- The generic dispatch of events: each module has the listeners that matter to it, in
  their order, and the rest of the system is an input.
- Races within a handler that runs on another thread, except where a module splits it
  (Studio's writers, the selection of a layout, temporary layers, the HOG thread, the split
  link's callbacks). In particular an edit of the keymap by Studio is atomic in Keymap.

## 7. What is left to do

1. Proofs of `HoldTap`: the array of captured events, and then the refinement
   of `KeyEventOrder`, step by step.
2. Proofs of `PointerFollows`: what the queue of mouse reports still holds, as in
   `HostsAreReleased`.

# vendor_rs, specified

`vendor_rs` is the vendor tree of an Android build for OnePlus phones. Most of
it is data (kernel headers, overlays, SELinux policy, permissions). Its own
logic is two privileged apps, SettingsExtra and LedManagerExtra, and two native
daemons. They are event-driven programs: handlers run to their end, but the
order in which calls, broadcasts, key events, preference changes, uevents and
process deaths reach them is not theirs to choose. These modules model the
handlers and leave that order to the model checker.

File names below are relative to
`src/packages/SettingsExtra/src/org/robertogl/settingsextra/`,
`src/packages/LedManagerExtra/src/org/robertogl/ledmanagerextra/` and
`src/native_packages/`; the last rows name directories of `src/`.

## Inventory

| component | code | state | operations | what is hard | what makes it correct |
|---|---|---|---|---|---|
| Call recorder and call vibration | CallManager.java; MainService.java 87-130, 236-263, 314-325 | flags for recording, in-call, vibrating, stopListening; copies of two preferences; two receivers; a MediaRecorder | start and close, enable flags, precise call states of two SIMs, PHONE_STATE and outgoing-call broadcasts, delayed vibration reset | close deferred to the end of a recording, two SIMs and broadcasts feeding one flag, recorder failures, listeners that are never removed | no leaked or doubled recorder, no recording without consent, recordings end, flags do not stick |
| Dynamic Modem | ConnectivityManagerExtra.java; MainService.java 131-151, 236-251, 297-303 | isWifiConnected, registered callback, mode of each modem | onStartup, onClose, network callback, two preferences | callback thread and main thread without a lock; Wi-Fi association is not a usable Wi-Fi network; modes survive the process, the preference listener survives the service; subscriptions come late | modem mode follows Wi-Fi; off means default mode and no request |
| Notification LED | LedLightManager.java, Utils.java | seven parallel lists, configuration copy, colour | listener connected/disconnected, posted, removed, power broadcasts, config parsing | lists filled under different conditions and removed by index; titles that change; decryption; process death | lists aligned, LED shows latest notification or charging state |
| Light daemon | custom_light/main.cpp; LedLightManager.java 422-488 | four system properties, buffers, LED driver | setColor, property reads, writes to the driver | two processes sharing properties, oneshot service started while running, a buffer one byte short | the LED shows one request, all of it, the latest |
| Button backlight | MainService.java 206-227, 284-290, 354-364, 445-472, 532-552 | clickToShutdown, two preference copies, light | key down/up, delayed runnable, screen broadcasts, two preferences | runnables cannot be cancelled and outlive what they were posted for | light goes out, counts do not strand, always-on is on |
| Power-off alarm | MainService.java 474-530 | currentNextAlarm (memory and file), alarms in the clock | alarmReceiver | write-behind preference, process death, ordered broadcasts | one alarm in the clock, the right one |
| Alert slider | tri-state-key_daemon/main.cpp, uevent_listener.cpp; MainService.java 265-282 | Uevent object, music stream, ringer | read a uevent, read the node, two audio calls | two processes set the same audio state; several uevents per wake-up; oversized uevents | audio follows the slider |
| IMS status icons | ImsMmTelManagerExtra.java; MainService.java 381-422 | one object per subscription with its registration callbacks | created, closed and recreated by preference and subscription changes | listeners that survive their object | each object closed once, icon follows registration |
| Pocket mode and double tap | PocketModeService.java; MainService.java 182-186, 336-340, 445-472, 554-588 | listener registered, copy of a setting, two proximity nodes, wake-up node | screen broadcasts, sensor events, F4 clicks, preference | the listener must follow the screen through late broadcasts and deaths; nodes outlive the process | reader blocked in the pocket, never once the screen is on |
| Gaming mode, heads-up, navigation bar | Utils.java 231-360, GamingModeTile.java, UserBootCompletedReceiver.java 46-55; MainService.java 187-192, 228-231, 342-345, 366-369, 431-438 | two static flags, a saved brightness mode, settings, key nodes, two properties, tile | tile click, boot clean-up, two preferences, navigation mode | several stores changed one after the other; flags die with the process, the rest does not | what was saved comes back; buttons or bar |
| Bluetooth battery icon | BluetoothBatteryIcon.java | count of devices, addresses with a battery, isBluetoothOff, icon | adapter, link and battery broadcasts | a running count; late and missed broadcasts | count does not drift, icon while connected, battery while reported |
| OTA updater, reboot menus | SettingsExtraOTAUpdate.java, AdvancedRebootExtra.java; src/recovery/recovery_ui.cpp | copies, block map, recovery command, init service | positive button, reboot options, recovery menu | busy wait for another process, kills, retries, partial copies | complete packages with their map, all or nothing, the wait ends |
| libril-wrapper | src/libril-wrapper | vendor functions | RIL_Init, shim of OnRequestComplete | string arithmetic | reads in bounds, the end of the version is kept |
| Tiles, monitors, boot receivers, settings screens, permission grants | the other classes | none across calls | | | |
| bfqio, USB HAL | libbfqio, native_packages/usb | one callback | thin wrappers | | |
| Build helpers, kernel headers, overlays, policies | build, kernel-headers, overlay, sepolicy, config | | | | |

How they interact: MainService owns the objects of SettingsExtra and drives them
from preference changes and its own life cycle. LedManagerExtra hands colours to
the light daemon through system properties and `ctl.start`. The slider daemon
and MainService share the audio service. Backlight, pocket mode and double tap
share the screen receiver, and F4 clicks switch the screen that drives it. The
updater hands over to init and to the recovery through files and properties.
Everything else meets only in the preferences of the user.

## Modules

| module | models | state and actions |
|---|---|---|
| `CallManager` | call recorder and vibration | The record `cm` has the fields of the object; a handler is an operator from `cm` to `cm`, an action runs one to its end (main looper). Precise call states wait in one queue per SIM, broadcasts in another. `Finish` ends a handler: an exception kills the process, and the state says which. |
| `DynamicModem` | ConnectivityManagerExtra | Main thread and ConnectivityThread are each a list of operations still to do (`work`); one action does one operation of one thread. `assoc` is what WifiManager reports, `usable` what satisfies the network request; subscription and number of modems change at any time. `serving` and `strayed` are history. |
| `MCDynamicModem` | | symmetry of the modes, for TLC |
| `LedLightManager` | LedLightManager | `shown` is the two lists filled for every listed package, `leds` the five lists filled when a rule matched. Titles are sets of words, `rules` what loadConfig has read. `latest` is history for the properties, `irregular` records which unusual things have happened. |
| `MCLedLightManager` | | notifications and configurations for TLC |
| `LedRamp` | setRedLight and siblings, getScaledDutyPcts | pure operators: the numbers given to the driver |
| `LightDaemon` | setColor and custom_light/main.cpp | one action per property write, daemon start, property read and write to a node of the driver; `outcome` and `since` are history |
| `Led` | abstract LED | a request, then a change of the LED that ends with parts of the requests made since it began |
| `MCLightDaemon` | | requests for TLC |
| `ButtonBacklight` | key events and backlight of MainService | runnables are counted, screen broadcasts queued; `left`: a destroyed service's preference listener still runs |
| `PocketMode` | PocketModeService | one operator per method; a sensor reading is one flag, since it is read when handled; `leaked`: a destroyed service has left its listener |
| `ScreenService` | the two above with F4 and the wake-up node | composition: the actions of `ButtonBacklight` with the operators of `PocketMode`, as the handlers of MainService call them |
| `NextAlarm` | alarmReceiver | preference in memory and on disk, broadcasts to the power-off alarm service in order; `forgotten` is history: the process died before the preference was in the file |
| `TriStateKey` | slider daemon and the slider part of onServiceConnected | per process, the audio calls still to make; a socket of bounded size that drops uevents and fails the next read. `raced` and `dropped` are history |
| `ImsIcons` | ImsMmTelManagerExtra and manageImsIcons of MainService | `objs` has every object of the process, closed ones too, with its registrations and what is posted to it; handlers are idempotent and read the state of the moment, so a queue of them is one flag. `irregular` is history: a closed object or a removed listener ran once more, or the process died and left icons. |
| `MCMainService` | | `NextAlarm`, `TriStateKey` and `GamingMode` side by side, for TLC |
| `GamingMode` | enableGamingMode, disableGamingMode, manageNavBar, manageCapacitiveButtons and their callers | a handler that switches gaming mode leaves its operations in `todo`, one action does one, so that a death or the user can come in between; `wanted`, `known` and `irregular` are history |
| `BluetoothBatteryIcon` | BluetoothBatteryIcon | broadcasts queued in order; `links` and `reported` are the truth the fields should follow; `late` is history: a device is listed by a level sent after it had gone |
| `OtaUpdate` | SettingsExtraOTAUpdate, AdvancedRebootExtra, recovery menu | the handler is a program counter (`phase`, `i`); files, map and command outlive it; `doubt`, `ordered` and `refused` are history |
| `RilWrapper` | ril-wrapper.c | what rild gets is the sequence of places of its characters in the vendor's string |
| `CallManager_proofs`, `GamingMode_proofs`, `OtaUpdate_proofs`, `ScreenService_proofs`, `BluetoothBatteryIcon_proofs`, `ImsIcons_proofs` | | theorems about the module they are named after |
| `MainService_proofs` | | theorems about `DynamicModem` and `NextAlarm`, both of which it extends (the specification of the second is `AlarmSpec`) |
| `LedAndNative_proofs` | | theorems about the LED, `LedLightManager` (`ManagerSpec`) and `LightDaemon`, and about the other native programs: `TriStateKey` (`SliderSpec`), which it extends as it does the first two, and `RilWrapper`, its instance `Ril` |

Operators whose names start with `Mut` are plausible bugs of the definition that
follows them. They are used by nothing here: replacing the definition with its
mutated form shows that a property notices.

Framework behaviour (telephony, notification manager, ConnectivityService,
AlarmManager, init, the kernel) is modelled from how the code uses it, as
actions that may happen whenever the real thing may.

## Runs

Nine runs pass. States are distinct states.

- **CallManager** (32 626 states; two SIMs, queues of one, two pending resets).
  Whatever the order of calls, preference flips, failures of `prepare`, `start`
  and `stop`, destruction and restarts: `areWeRecordingACall` counts the live
  MediaRecorders and implies the in-call flag (`RecorderConsistent`);
  `stopListening` is only set while a recording will consume it
  (`PendingCloseHasRecording`); the vibration flag always has a runnable that
  clears it (`VibrationWillReset`); recording starts only with the preference on,
  in a destroyed service too, whose call listeners and flags stay
  (`StartsOnlyWithConsent`); once both SIMs stay idle recording ends
  (`RecordingEventuallyStops`). Two SIMs and one event per queue make every pair
  of handlers adjacent in both orders; two resets make a stale one possible.
- **DynamicModem** (4 034 064 states up to symmetry; two modes, one or two
  modems, no data subscription or the second, changing at any time, two callbacks
  in flight). `ModeFollowsWifi`, `FlagAgrees` and `OffMeansDefault` are claimed of
  states with nothing in flight that have not `strayed`: since the last onStartup,
  onClose, mode change or announcement of the present network handled with nothing
  else going on, no handler was overtaken or cut short, no preference changed
  unseen, no subscription changed. Preferences change while the service is
  connected, after onDestroy (the listener is never unregistered) and while
  nobody listens. So each exception ends by itself, and a handler that runs in
  calm is always right. Two modes show a stale preference, two callbacks show
  lost-then-available, the second subscription is the one whose other modem is
  set after it. `OffUnregisters` has no exception: with the service off and the
  main thread done, no network request is left.
- **LedLightManager** (1 268 256 states; three notifications of two packages, one
  word, five configurations, two entries per list). `RulesNeedPackages` is
  claimed of every state; `ListsAligned` until a listed package posts a
  notification that matches none of its rules; `ShowsLatest` until such a
  notification or a changed title. A process death suspends `ShowsLatest` only
  until the new instance sets a colour. The configurations are one with
  catch-all rules, one with a line that cannot be parsed, one with a package
  without a catch-all, one whose colour setColor cannot parse (the exception ends
  the process) and an empty one, which leaves the rules as they are. Two entries
  are the least at which removal by index can take the wrong one.
- **LightDaemon** (628 482 states; a steady and a blinking request that differ in
  every part, all four places the byte behind `blink[1]` may have). setColor may
  come at any time, as it does in onNotificationRemoved; properties and nodes are
  written and read one at a time. `LatestColorShown`: with both sides at rest the
  LED shows all of the latest colour, unless init ignored the last start because
  the daemon was already reading. `ImplementsLed`: whatever overlaps, the LED
  changes only after a request, each change ends, and then each part of the LED
  looks as some request wanted it that was made since the change began; with one
  request since, as that one. `blink[1]` is overrun by the terminator; the
  constant `Victims` has every buffer the compiler may place behind it. Where it
  is a colour's buffer the daemon shows garbage in that channel or crashes; the
  first property excepts that channel and a crash, the second claims nothing of
  how a change ends. `CyclesFit`: the lit part of the cycle never exceeds the
  requested time and falls short of it by less than the 16 ms that rounding the
  ramp steps can cost, the duty table rises, the channels' tables do not overlap;
  the two requests, 799 and 800 ms, are on both sides of the boundary where the
  full ramp no longer fits.
- **ScreenService** (1 564 936 states; two buttons, two runnables, one broadcast in
  flight, two counted clicks, a proximity node that can be written).
  `ClicksCovered`: every counted click has a held button or a pending runnable.
  `ScreenOffIsDark`, `ForcedIsLit`; `GoesOut`: a light that is not forced goes out.
  They are claimed until `hurried`, which records a preference change, a process
  death or onDestroy while something was pending, or a button or the screen used
  while the service was down. `AwakeIsUsable` and `PocketBlocks` are about
  fingerprint reader, touch panel and wake-up node; `missed` excepts what changed
  between a broadcast and its handler or while the service was down, until a
  screen-on has put it in order, `leaked` the listener of a destroyed service. Two
  clicks of two buttons are the least at which a runnable can count down the wrong
  press. All but `GoesOut` are proved for any queue and for a node that cannot be
  written.
- **MainService** (315 451 states): three parts of MainService that share no
  variable, each explored with the other two at rest (`MCMainService`). A step of
  one changes nothing another reads, so their interleavings show nothing more.
  - Power-off alarm (`NextAlarm`; three alarm times, queues of three): `OneAlarm`
    at every moment; `SavedIsSet`: the preference names exactly the alarm that is
    or will be in the clock; `RtcFollowsNext`, with the 60 s of the code. Excepted
    is what a death before the background write made the process forget.
  - Alert slider (`TriStateKey`; a socket of two uevents): `AudioFollowsSlider` and
    `SliderIsObeyed`, with slider moves during handling, oversized uevents,
    overruns, reads of the node that fail, and the service starting at any time.
    Excepted, until the position is read again, are a dropped move, a failed read
    and two processes applying different positions at the same time.
  - Gaming mode (`GamingMode`; nothing is bounded): `BrightnessRestored`: once the
    tile is off and the boot clean-up has run, nothing stays saved and the
    brightness mode is the user's, across deaths and reboots in gaming mode.
    `HeadsUpFollowsPref` in every behaviour. `CanNavigate`: outside gaming mode the
    buttons work exactly when there is no bar.
- **ImsIcons** (1 344 940 states; one subscription, two objects per process).
  `ObjectsFollowSubs`: one object per active subscription and no other.
  `IconsFollowIms`: an open object that is registered with IMS and to which
  nothing is posted shows exactly what is available and wanted, whatever failed
  registrations, runnables and closed objects did before. `IconsAreWanted` and
  `IconsHaveObjects` are claimed until something `irregular` happened. Two
  objects of one subscription are an object and its closed predecessor, the
  pair that shares an icon; objects of different subscriptions share none.
- **BluetoothBatteryIcon** (3 858 288 states; three devices, three broadcasts in
  flight). `CountFollows`, `IconFollows`, `BatteryIsThere`, once broadcasts have
  been handled and unless the process died with devices connected and the adapter
  has not been off since. A level may come after its device has gone: the device
  is then listed until the adapter goes off, and the icon is missing with the next
  one (`late`); that there is no icon without a device holds all the same. Three
  devices are one with a battery, one without and one that comes or goes.
- **OtaUpdate** (738 463 states; three packages, of which the first needs
  uncrypt). `InstallsChosen`, with no exception: what the recovery is told to
  install is nothing, or all of what was confirmed in the dialog of the attempt
  that wrote the command, which need not be the last attempt. `PackagesReady`;
  `doubt` excepts an uncrypt that failed or could not be started and an attempt
  that begins while an earlier one's uncrypt runs or its command waits. Under
  fairness, `UpdateEnds`; `refused` excepts a start that failed when uncrypt has
  not run since the boot, after which the loop never ends. Two packages without a
  map make a failure after a success possible; the fourth of the program would be
  a third of that kind.

Three runs end in a counterexample, against a comment or a text of the repository:

- **LateSim** (`WifiModeIsSet`; a subscription that has no other modem): with a SIM that is ready only after Wi-Fi is up,
  forceNetworkMode has returned early and nothing calls it again;
  preferences.xml:136 says "Set the network mode when wifi is connected".
- **AlarmMargin** (`WakesNinetyEarly`): MainService.java:518 subtracts 60 s, the
  comment at line 503 says 90.
- **RilWrapper** (`KeepsLatest`; a maximum of three instead of 45, versions of up
  to six characters). ril-wrapper.c counts characters without spaces and uses the
  difference as an offset into the string with them: a long version with spaces
  loses its end, where the comment at lines 57-59 promises to keep it.

The models also have these behaviours, which no run above singles out.

- Calls: an `onClose` after the service was disabled unregisters a receiver twice
  and kills the process (`svc = "unregisterCrash"`); both call preferences off
  during a recording and one on again leaves `stopListening` set, so that the end
  of the recording takes the receivers of an enabled service; IDLE of the other
  SIM ends the recording of an active call.
- Modem: an overtaken handler leaves a modem in the wrong mode; so does a process
  killed in Wi-Fi mode whose service is switched off before it is back, and a mode
  chosen after onDestroy.
- LED: a notification that matches no rule of its package is recorded and
  suppresses the charging colour; after a process death the LED keeps the colour
  of a notification that is gone until the next one is set; the two calls of
  setColor in onNotificationRemoved (black at line 236, the charging colour at 243
  or 248, "Show led for charging (yellow)") may start the daemon once, which leaves
  the LED dark or with a part of the colour; a line of the
  configuration whose colour cannot be parsed kills the process at each
  notification that matches it.
- Backlight: a runnable pending when the always-on preference is chosen turns the
  light off; a runnable from before screen-off darkens the button pressed after
  it; a press whose release comes after the preference was turned off is never
  counted down.
- Pocket mode: a MainService destroyed with the screen off leaves its proximity
  listener, which blocks the fingerprint reader while the screen is on, for all of
  "Ensure FP is left enabled" (PocketModeService.java:110); switched off with a screen-on broadcast still in flight it leaves
  the fingerprint reader blocked; so does a death that loses that broadcast. The
  next screen-on with the preference on repairs both.
- Alarm: a death before `apply()` reaches the file leaves two alarms in the clock.
- Slider: a move during service start may be undone by the service; after an
  oversized uevent the callback runs on the previous one; a dropped move stays
  unnoticed until the next.
- IMS: a callback posted before `onClose` of an object shows its icon again, and
  the object's subscription listener, which is never removed, registers again;
  icons outlive the process that set them; a preference changed before telephony
  is ready kills the process (the list of subscriptions is null).
- Gaming mode: a death between changing the brightness mode and committing the
  old one, or a click between a reboot in gaming mode and the boot clean-up,
  loses the mode to restore; a process that starts while a reboot is required, or
  in two-button mode, does not know that the capacitive buttons are in use and
  disables them on leaving gaming mode.
- Bluetooth: when the last device with a battery leaves, `isBluetoothOff` becomes
  true although others are connected, and their later reports are not shown; the
  level shown may be that of a device that has gone while another with a battery
  is there; below ten percent the icon is blank.
- Updater: a failed uncrypt goes unnoticed; a retry while uncrypt runs gets the
  map of the deleted copy, since the loop that waits "for the uncrypt service to
  have completed this step" (SettingsExtraOTAUpdate.java:103) ends with the earlier
  run; the device reboots into recovery with nothing chosen; a command written by
  an attempt that was killed before its reboot is executed by a later one.

Deadlock is checked in all runs: none of these systems may stop.

## Fairness

The fair specifications assume weak fairness of what the platform guarantees
and nothing of users, networks, calls or process deaths: the main looper runs
what is posted to it (`CallManager`, `ScreenService`, `NextAlarm`), broadcasts
are delivered, the system connects the service, both slider processes and the
light daemon keep running, and the updater's handler runs on while uncrypt, a
program without a loop of its own to wait in, ends once init has started it; that
init does is not assumed (`OtaUpdate`). `DynamicModem`, `LedLightManager`,
`ImsIcons`, `GamingMode` and `BluetoothBatteryIcon` need none: their properties
are invariants.

## Proofs

Every safety property of the passing runs is proved, each as `Spec => []Inv` for
every value of the constants that the named assumptions allow (`Spec` is the
module's specification, the fair one where the run uses that), and so is the
safety part of the one refinement. Each rests on an inductive invariant that TLC
checked first and whose preservation has one case per action. The assumptions are
those of the modules: bounds are natural numbers, devices, buttons and
subscriptions are finite sets, alarms are not before the first minute of the
clock's epoch, package and id name a notification, a configuration is a list of
lines.

`CallManager_proofs`, for any set of SIMs and numbers and all bounds: `TypeOK`,
`RecorderConsistent`, `PendingCloseHasRecording`, `VibrationWillReset` and the
action property `StartsOnlyWithConsent`. The invariant is
`TypeOK /\ ObjectOK(cm) /\ FlagsFollowPrefs`. `ObjectOK` is the conjunction of
the three state invariants, `cm.running = (cm.allowRec \/ cm.allowVib)` and
`cm.threw = "none"`; it is needed since `StopRecording` decides on `running` and
the preference handler on both flags. `FlagsFollowPrefs` says that from the
connection on, destroyed or not, the copied flags are the preferences, which is what
`StartsOnlyWithConsent` rests on. Each handler has a lemma (typed object in,
typed object out, `ObjectOK` kept unless it threw); one lemma about `Finish`
turns that into a step.

`MainService_proofs`, Dynamic Modem, for any modes, any subscriptions, changing at
any time, and any number of callbacks in flight: `ModeFollowsWifi`,
`OffMeansDefault`, `FlagAgrees` and `OffUnregisters`. They speak of states at rest,
so the invariant has to say what two unlocked threads will do. `ModemInv` is
`BaseInv /\ LifeInv /\ (strayed \/ StateInv)`. `BaseInv` and `LifeInv` hold in
every behaviour: what may be pending in which thread, and how context, callback
and preference relate in each phase of process and service. They are what lets a
handler that begins in calm restore `StateInv` from any state and end `strayed`.
`StateInv`: with the service on, every operation pending in either thread is one
*towards* the same network, the present one, and each served modem and the flag is
either right already or has such an operation waiting. The operations then
commute, whatever their interleaving. The two exceptions are Wi-Fi's announcement
being the last event in flight, and a loss of which the callback thread has not
heard (`NewsOfLoss`). With the service off only the main thread works, towards the
default mode, and a registered callback has its `unregister` waiting.

`MainService_proofs`, power-off alarm, for any alarm times and queues: `OneAlarm`
and `SavedIsSet`. Both need the clock's contents between any two requests in
flight, not only now and at the end: `ClockInv` says there is a sequence of
contents, one per request, that leads from the clock's to what the preference
names, with at most one alarm in each. `DiskInv` says what a death can lose.
`RtcAfter` is a recursive function; that it is the end of that sequence is
`ClocksUnique`, by the least place at which two such sequences differ.

`ScreenService_proofs`, for any finite set of buttons and all bounds, about the
composition of backlight and pocket mode: `ClicksCovered`, `ForcedIsLit`,
`ScreenOffIsDark`, `AwakeIsUsable`, `PocketBlocks`. Broadcasts are handled after
the fact, so that the invariant is about the screen state the receiver was *told*
last: broadcasts in flight alternate and end with the present state, and listener,
nodes and light agree with what was told. `CountInv` adds that nothing is counted
while `buttonsBacklightControl` is off; a listener that a destroyed service has left
undoes all of the agreement but the wake-up node's.

`GamingMode_proofs` (the module has no constants): `TypeOK`,
`BrightnessRestored`, `HeadsUpFollowsPref`, `CanNavigate`. A handler can be cut
short after each of its operations; `WorkInv` lists the fourteen lists of
operations that may be left, and the other parts relate each saved value to the
operations that still wait, as in: on the way in, with `manual` done and `commit`
still waiting, the user's mode is in the editor and not yet in the file.

`BluetoothBatteryIcon_proofs`, for any finite set of devices and any number of
broadcasts in flight: `TypeOK`, `CountFollows`, `IconFollows`, `BatteryIsThere`.
The receiver lags behind the radio by the broadcasts in flight. The invariant
says that there is a history of links and reports, one entry per broadcast, that
begins with what the receiver knows and ends with what is the case; handling a
broadcast drops its first entry, sending one appends. A level sent after its device
had gone stands in it as such.

`OtaUpdate_proofs`, for any number of packages: `TypeOK`, `PackagesReady`,
`InstallsChosen`. `LoopInv` has what the loop has collected up to its counter,
`UncryptInv` that uncrypt is over when the loop goes on, `CommandInv` that
nothing the command relies on changes before the recovery executes it.
`InstallsChosen` has no exception: that a command is whole follows from the loop of
the attempt that wrote it, whatever other attempts do.

`ImsIcons_proofs`, for any icons, any finite set of subscriptions and any number
of objects: `TypeOK`, `ObjectsFollowSubs`, `IconsAreWanted`, `IconsHaveObjects`,
`IconsFollowIms`. The last three hold only together, with `ObjectInv` (a
confirmation runnable does not outlive its object, an enabled object has both
callbacks) and `MapInv` (with the listener removed there is no open object).

`LedAndNative_proofs`, light daemon, for every set of requests and every
interleaving of setColor and daemon: `CyclesFit`, from arithmetic for every
brightness and every blink time (`ChannelCorrect`) and `WriterInv`: the properties
setColor has already written are those of the current request.
`LatestColorShown` rests on `DaemonInv`. `ReaderInv`: the nodes written so far have
what the buffers have. `SinceInv`: what the daemon has read, and what is in the
properties while it runs, is of requests in `since`. `FreshInv`: unless the last
start was ignored, what it has read is of the current request. `RefinesLed` is the
safety part of `ImplementsLed`, `Spec => LedImpl!Safe`: a setColor maps to a
request, its start to the beginning of a change or to an overlap, the daemon's last
step to the end of the change, every other step, each write to a node included, to
a stutter.

`LedAndNative_proofs`, notification LED, for any notifications, titles and
configurations, and lists and queues of any length: `ManagerTypeOK`,
`ListsAligned`, `RulesNeedPackages` and `ShowsLatest`. The first three are close
to inductive; what they need is what removing by index does: `InOrder` lists the
kept places, each once and in rising order (`InOrderIs`, by counting the kept
places up to a number), so that lists of one length stay aligned (`KeptIs`).
`ShowsLatest` speaks of what was told last, and the LED of what is last in the
lists, so `ManagerInv` relates the two. `LatestInv`: the history `latest` has one
entry per listed notification, in the order of their *final* entries in the lists,
with the colour of that entry's rule. A repeated post adds an entry and leaves the
old one, so that a removal keeps this only if it takes *all* entries of the
notification, although it compares the rule of each with the title of the moment.
That it does is `RuleInv`'s part: each entry has a rule that the title matches
under which the listener will hear of the removal (`Told`, over the callbacks in
flight and then the notification manager's own state), which holds until a title
changes; `TitleInv` says the same of the posts in flight. `PowerInv` and
`IntentInv`: with nothing listed the LED has the charging state's colour or a
broadcast that will set it is in flight, and the last broadcast in flight never
contradicts the battery. `AbsentInv`: without a listener there is nothing, and the
LED is off unless the process died.
`CrashesNeedUnmatched` follows from the alignment: when the colours and times of
the configuration can be parsed, the only uncaught exception is the one in
onNotificationRemoved, an index behind the end of a rule list, and it needs an
earlier notification of a listed package that matched none of its rules.

`LedAndNative_proofs`, alert slider, for a socket of any size: `AudioFollowsSlider`.
`SliderInv` says that unless something is unread or raced, the processes still at
work apply the present position, and an audio setting that differs from it has
its call waiting.

`LedAndNative_proofs`, libril-wrapper, for every maximum: `ReadsInBounds`,
`Spec => []InBounds`. The offset the shim computes is at most the number of
characters minus the maximum, since fewer characters are counted than there are
(`CharcountBound`). `InBounds` is inductive as it stands.

Only model-checked, since the proof system does not handle fairness:

- liveness: `RecordingEventuallyStops`, `GoesOut`, `RtcFollowsNext`,
  `SliderIsObeyed`, `UpdateEnds`;
- the liveness part of the refinement `ImplementsLed`: that the LED does change.

The other modules with variables of their own have a `TypeOK` as well. It is a
part of the inductive invariant of `ScreenService`, `NextAlarm` and `TriStateKey`
and nothing a reader needs as a theorem of its own.

## Not modelled

- Wording, logging, notifications and toasts, file names and audio parameters of
  the recorder; the text of sysfs nodes (its value stands for it), and the blink
  nodes of single channels, which repeat what rgb_blink does.
- The properties through which the slider daemon makes init vibrate.
- A second MainService in the process of a destroyed one, but for what screen,
  preferences and Dynamic Modem have to do with it. The old object's call and IMS
  listeners would run next to those of the new one: each CallManager follows the
  preferences by itself, so that `StartsOnlyWithConsent` is about each of them, but
  two of them may record one call; closed IMS objects that run on are in the
  model, those of a second map are not. `CallManager` and `ImsIcons` start a new
  service only in a new process, or once the old objects are gone.
- Tags of notifications: the lists of LedLightManager record package and id, and
  so does the model.
- Single settings without state: vibration intensity, backlight timeout, the
  switch that grants LedManagerExtra its notification access.
- Tiles, status monitors, boot receivers and settings screens: they show or set
  one value at a time; the brightness tile's effect is an action of `GamingMode`.
- Which bytes rild reads behind the shim's copy (that it may is the variable
  `garbage` of `RilWrapper`), and a compiler that reuses the copy's stack once
  its block has ended.
- libbfqio (calls of the I/O scheduler), the USB HAL (a fixed answer to a
  callback kept under a mutex) and the Go helpers of the build.
- The kernel headers: 150 000 of the 151 500 lines of C, C++ and Go in the
  repository are generated user-space headers of the kernel, constants and
  structures without behaviour. No model can stand for them, so that the share of
  the repository's lines that the modules cover is small; of its own programs,
  some 4 000 lines of Java and 800 of C and C++, they cover every part with state.

## Plan

What is left is a composition, `LedSystem`: `LedLightManager` with `LightDaemon`,
the colours of the first as the requests of the second. `RefinesLed` is what makes
it worth little more than its parts: `Led` says what the manager may rely on when
its colours overtake the daemon, and `LatestColorShown`'s exception what it may not. Beyond that,
several MainServices in one process (see above), for `CallManager` and `ImsIcons`.

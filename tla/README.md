# PowerDevil in TLA+

PowerDevil is the power management daemon of Plasma: one process per session that
watches batteries, the charger, the lid, idle time and other programs' inhibitions,
and dims, locks, suspends or shuts down accordingly; applets and settings pages talk
to it over D-Bus. This directory holds TLA+ models of the parts where order, lateness
and failure matter, the TLC runs that check them on small instances, and theorems
that TLAPS proves for every instance. Paths below are relative to `src/`.

    tlc  -workers 2 -config PolicyAgentSafety.cfg MCPolicyAgent.tla
    tlapm PolicyAgentProofs.tla

`PROJECT.json` lists the components, the runs, the source lines behind every
definition (`map`), a plausible bug of the code for every property that makes it
fail (`mutants`), the hazards with the line where each bites, and the theorems.

## 1. Inventory

All handlers of the daemon run on one thread (Qt's event loop), each to its end,
except where a handler runs an event loop of its own. What makes it hard is what
happens between handlers: D-Bus calls and signals from many senders, asynchronous
replies, timers, udev events, files that change under it, worker threads, the
machine sleeping in between, and the daemon's own restarts.

| Component | State | Operations | Hard about it | Correct when | Module |
|---|---|---|---|---|---|
| **Policy agent** `daemon/powerdevilpolicyagent.cpp` | pending, requested and active cookies, cookies per policy, cookie to service, blocked ids, watched names, locker state | AddInhibition, its 5 s timer, ReleaseInhibition, releaseAllInhibitions, SetInhibitionAllowed, service exits, locker changes, restart | timer against release; exit at any stage; blocking and allowing again; late calls | the policies announced are those of active inhibitions; nothing released comes back; what leaves the bus is released | `PolicyAgent` |
| **Mirror of logind's locks** (same file) | logind inhibitor to cookie | PropertiesChanged, asynchronous ListInhibitors, reply, error | replies overlap and are older than the state they meet | one cookie per lock held, none otherwise | `LogindInhibitions` |
| **FdoConnector** `daemon/powerdevilfdoconnector.cpp` | none | Inhibit, UnInhibit, ForceUnInhibitAll, HasInhibitChanged | any number may be passed as a cookie | as the agent | `PolicyAgent`, `ManualInhibition` |
| **Battery warnings** `daemon/powerdevilcore.cpp` | charge per battery, two notifications, 60 s timer, loaded configuration | battery added, removed, changed; AC changes; unlock; resume; configuration; buttons | warnings repeat while others are open; the reason for a countdown disappears | a countdown runs only with a reason, is announced, and concludes | `CriticalBattery` |
| **Battery controller** `daemon/controllers/batterycontroller.cpp` | two copies of the AC state, smoothed energy rate | PropertiesChanged, blocking read after a resume | the read overtakes signals; rounding | both copies settle on UPower's value; the time lies between those of the rates seen | `CriticalBattery`, `RemainingTime` |
| **Wakeups** `daemon/powerdevilcore.cpp` | list of wakeups, one timerfd, a notifier | scheduleWakeup, clearWakeup, timerfdEventHandler | one timer for all; stale readiness | every wakeup is called back once, in order, unless cleared | `WakeupScheduler` |
| **Profiles, idle timeouts** `daemon/powerdevilcore.cpp`, `powerdevilaction.cpp` | current profile, active actions, registered timeouts, activity inhibitions | loadProfile, session switches, idle and resume signals | timeouts registered behind an inactive session | each loaded action has exactly its timeouts | `IdleActions` |
| **Idle actions** `daemon/actions/bundled/` (dimming, screen off, suspend, scripts) | dimmed flag, copies of policies, delays | onIdleTimeout, onWakeupFromIdle, loadAction | queued restores, stale policy copies | what idleness dimmed, activity restores | `IdleActions` |
| **Buttons and lid** `daemon/actions/bundled/handlebuttonevents.cpp` | lid, outputs, two timers, two idle timeouts | lid, keys, output changes, resume | timers that outlive a suspend | a lid left closed sends the computer to sleep | `LidAndButtons` |
| **Suspend** `daemon/controllers/suspendcontroller.cpp`, `actions/bundled/suspendsession.cpp` | about-to-suspend flag, wakeup count | PrepareForSleep, trigger | a nested event loop; a second request before the signal | requests are refused only around a suspend | `LidAndButtons` |
| **Power profile holds** `daemon/actions/bundled/powerprofile.cpp` | holds per service, watched services | hold, release, service exits, replies | reply after the client is gone | a client's holds end with it | `PowerProfiles` |
| **Screen brightness controller and agent** `daemon/controllers/screenbrightnesscontroller.cpp` | displays by id, tracked value and error, dimming ratio | detection, set, adjust, dim, external changes | displays lose their brightness control while dimmed | every display shows its tracked brightness and the wanted dimming | `ScreenBrightness` |
| **KWin brightness** `daemon/controllers/kwinbrightness.cpp` | KWin's configuration as known, one operation, out-of-date mark | set, operation done, compositor's changes | changes during an operation | desired and actual values meet | `KWinBrightness` |
| **Backlight** `daemon/controllers/backlightbrightness.cpp`, `backlighthelper_linux.cpp` | requested, executed, observed brightness, expected range, one job | setBrightness, job result, udev event | events and results are unordered; events carry no author | last request wins or is taken back in the open; others' changes are reported | `BacklightBrightness`, `BacklightDevices` |
| **DDC/CI displays** `daemon/controllers/ddcutildisplay.cpp`, `ddcutildetector.cpp`; **external brightness protocol** `externalbrightnesscontrol.cpp` | brightness, pending value, retry counter, timer, worker thread; detections, displays being tried | set, timeout, result, redetection, status events | results of replaced requests; removal while writing | the last value is written or the display is given up | `DdcDisplays` |
| **Keyboard brightness** `daemon/controllers/keyboardbrightnesscontroller.cpp` and its action | cached brightness, toggle, lid memory | keys, lid, profiles, UPower's signals | cached values against late signals | keys are obeyed; the lid restores | `KeyboardBacklight` |
| **Brightness steps** `daemon/brightnesslogic.cpp` and its heirs | none | value of a step, next step | rounding at the ends | steps move, reach both ends and are values | `BrightnessSteps` |
| **Charge thresholds, conservation mode** `daemon/chargethresholdhelper_linux.cpp`, `kcm/ExternalServiceSettings.cpp`, `daemon/powerdevilcore.cpp` | sysfs files; what the page shows and takes for saved; what the daemon announces | save, load, edit, refreshStatus, jobs | failure between two files; edits while saving; readings overtaken by writes | page and daemon agree with the kernel | `ChargeThresholds` |
| **Battery applet** `applets/batterymonitor/plugin/` | cookies, switch, list, profile | inhibit, uninhibit, replies, signals | answers that cross changes and restarts | the switch and the list say what the daemon holds | `ManualInhibition`, `PowerProfiles` |
| **Brightness applet** `applets/brightness/plugin/` | displays shown, their values | query, set, signals | queries during changes, echoes | it shows what the daemon tracks | `ScreenBrightness`, `KeyboardBacklight` |
| Start-up and migrations, other helpers, rest of the settings pages, translations | | | | covered by the repository's tests or user interface only | |

How they interact: applications, the applet and `Core` (for activities) call the
policy agent; the idle actions and `Core` listen to its unavailablePoliciesChanged
and InhibitionsChanged; `Core` drives the actions through KIdleTime and profiles,
which the battery controller selects; the critical battery timer, the lid and the
buttons trigger SuspendSession, which calls logind; the suspend controller's resume
signal comes back to the battery warnings, the battery controller, the idle actions,
the keyboard and the lid; the screen brightness controller talks to KWin, and KWin,
over a Wayland protocol, to the backlight and the DDC/CI displays.

Where components meet, a module composes them: `LogindInhibitions` extends
`PolicyAgent`; `ScreenBrightness` extends `KWinBrightness` and adds controller, bus
and applet; `DdcDisplays` has KWin as its client; `PowerProfiles`,
`KeyboardBacklight` and `ManualInhibition` join the daemon with an applet across the
bus. Elsewhere a module takes what others do as events: `IdleActions` sees the
agent's announcements, not its cookies.

## 2. What is modelled

One action stands for each D-Bus method, signal, timer or step of the environment,
and includes everything the handler calls. Where handlers call one another, the
functions of the code are operators that return the next state of a record (or of
some variables), composed in the code's order. Messages under way are sequences, one
per direction, because a connection keeps the order of what is sent. Variables
marked as history in a module are not part of the program.

### PolicyAgent

`PolicyAgent.tla` is the bookkeeping of inhibitions. Cookies are numbered as in the
code; a cookie's fields (service, who and why, policies) are in `request`. The other
variables are the members of the class, the bus (`conn`, `notices`: exits the bus has
yet to report), the locker and the configuration file. The actions are
`AddInhibition`, `Enforce` (the 5 s timer), `ReleaseInhibition`,
`releaseAllInhibitions`, `Block` and `Allow` (SetInhibitionAllowed),
`onServiceUnregistered`, `onScreenLockerActiveChanged`, and `Restart` for a crash or
restart of the daemon followed by init(). Handlers that release several cookies in a
loop release the set: the steps of the loop commute. The policy lists are counted
per cookie because the code uses lists, where a cookie can be entered twice.
FdoConnector's calls are the same actions, with a service and InterruptSession.

The block list is stored as `who:why`; names are tuples in the model so that
`Joined` and `Parsed` lose what the code loses for a name with a colon.

`InhibitionPromise.tla` is the abstract specification: an inhibition is scheduled,
then in force or suppressed, then over; the policies in force are those of the
inhibitions in force. `PolicyAgentRefinement.tla` maps the detailed state onto it;
`ImplementsPromise` is checked and proved.

### LogindInhibitions

The agent together with logind: other programs take and drop locks, logind announces
changes, several `ListInhibitors` calls are under way, each answered with the locks
of some moment or with an error, and handled later (`onListInhibitors`,
`onListInhibitorsError`). Adding and releasing mirrored locks are the agent's own
operators, so its policies and restarts are those of `PolicyAgent`. Any client may
release what mirrors a lock, by number or with ForceUnInhibitAll (`ReleaseStep`);
`undone` (history) remembers it, and `failed` (history) whether the call that ended
last failed, since the code does not repeat it. There are finitely many locks.

### CriticalBattery, RemainingTime

`CriticalBattery.tla` covers every handler of `Core` that opens, updates or closes a
battery notification or starts or stops the countdown, and the two copies of the AC
state in the battery controller, for finitely many batteries. The shared functions
(`updateBatteryNotifications`, `handleCriticalBattery`, ...) are operators on the
record `warnings`. `orphans` holds the kinds of notifications that are still on the
screen though no member points to them.

`RemainingTime.tla` is the arithmetic of the battery controller: how the devices are
summed up, the remaining time, and the average over the rates of discharge. Its
promises are assumptions that TLC evaluates over small inputs: the average lies
between the rates it was made of, charging is not averaged, one rate counts little,
two batteries sum up, and one battery tells the same as UPower's display device. Fixed
point (`Share`, `Unit`) stands for the code's doubles.

### WakeupScheduler

`WakeupScheduler.tla` separates the event loop's poll of the timerfd (`Poll`) from
`timerfdEventHandler`, since a D-Bus call may be served in between. Only the first
element of the list is ever read, so the list is a set with a distinguished first
element.

### IdleActions

Profiles, the idle timeouts that actions register with `Core` and `Core` with
KIdleTime, dimming, screen off, the idle suspend, the keyboard backlight the first
two share, inhibitions, the screen locker, sessions and suspends. All the daemon
changes is one record `d`; `loadProfile`, `unloadAll`, `registerActionTimeout` and the
handlers of the actions are operators on it. `destroyAction` is a lost action: `Core`
forgets its timeouts, and those left with KIdleTime reach nobody. Timeouts have no
durations: while the user is idle they are reached in any order, once each. `wanted` (the brightness without
idleness), `spoiled` (a policy, a profile loaded meanwhile or the loss of the action
kept it from being restored) and `silent` are history.

### LidAndButtons

HandleButtonEvents with the lid controller, SuspendSession, SuspendController and
logind. The privileged helper runs in a nested event loop, so requests wait in
`waiting` as a stack: any handler may run meanwhile and another request has to finish
first. logind's phases are `power`, its PrepareForSleep signals `prepare`; timers and
the two idle timeouts after a wakeup have no durations and may fire late. `loadAction`
takes over the profile's settings in any case, but `Core` counts the action as loaded
(`buttonsLoaded`) only if lid and buttons all have an action, and only then unloading
it drops its idle timeouts. Its call of checkOutputs changes nothing, as every
change of the outputs has been handled at once.

### PowerProfiles

power-profiles-daemon, the daemon, the programs that hold a profile through it, and
the battery applet. Calls and answers are sequences per direction; holds are
recorded when the answer arrives (`holdMap`), programs are watched and leave at any
time. Several holds that end at once do so in any order, as hash tables list them
(`InAnyOrder`). Programs ask for any number of holds, release their own, once each, and
leave without waiting for answers. `lost` (history) has the listed holds whose program
nobody watches any more.

### KWinBrightness, ScreenBrightness

`KWinBrightness.tla` has KWin's outputs, libkscreen's copy of the configuration and the
one operation that sends it back: `SetConfig`, `ReadConfiguration`, `SetConfigDone`
and what KWin keeps of a configuration that is out of date. `ScreenBrightness.tla`
adds the controller (tracked values, errors that keep displays in step, dimming), both
D-Bus interfaces, the profile's brightness and the applet, which asks for display after
display and changes its copy at once when a slider moves. Ratios are counted in
`Grain`-ths of a level; what a ratio makes of a display is rounded to a level and the
rest is remembered (`trackingError`), as `valueFromRatio` and `adjustBrightnessRatio` do.
`affected`, `overlapped` and `crossed` are history: the first has the displays that a
dimming has reached; the second marks that outputs changed under an operation, or that a
configuration was sent with such a change announced and still unread; the third an
echo that met another change. Of an announcement, `Stale` says whether it would change
the outputs of the daemon's copy; a change of brightness alone never does.

### BacklightBrightness, BacklightDevices

`BacklightBrightness.tla` has the daemon's five members (observed, requested,
executed, and both ends of the expected range), the privileged job (`job`), sysfs
(`actual`) and the udev events under way (`uevents`; an event carries no value, the
handler reads the brightness of its moment). Other programs write at any time, and
neither events nor results wait for each other. `told` is what the compositor asked
for or was told of last. Two histories say what the properties have to except
(section 4): `wanted` is the last request until it is taken back, by telling the
compositor of another brightness or by a failed job; `unsure` is set when a job fails
or another program's write lies on the way of a change of the daemon's own (`OnTheWay`,
the ranges that `onDeviceChanged` compares with), and cleared by the next request, or
by the report of the last event, with nothing else under way.
`BacklightDevices.tla` is the helper's choice among the devices and the values it
writes to each, with the C++ division and the width of an int; its promises are
assumptions that TLC evaluates: one kind of device only, the first one is the one
reported, the values are in range and in proportion.

### DdcDisplays

Monitors come and go, libddcutil tells of it from its own thread, accesses fail. The
detector's list, the displays that are being tried again, each display with its
worker thread (`requests`, `results`), timer, retry counter and the giving up, and
KWin's protocol objects. A monitor's own buttons mark it `touched`.

### BrightnessPromise

The abstract specification that both of these implement: what the daemon promises
whoever sets the brightness of a screen. Requests under way are a sequence. A request
may be left out when a newer one comes, and may be written more than once, but none is
written after a newer one; what is settled shows the one asked for last. The promise is
excused when somebody else sets the brightness, or a request is taken back in the open
(`Revoke`: whoever asked is told of another brightness, or that it failed), until there
is another, and it ends with the object that stands for the screen. It knows of no job,
timer, worker, retry, detection or event.

Each module maps its state onto it at its end. `Underway` are the values that may still
be written: for the backlight the value of a job that has not written yet and the
request (`wanted`), for a DDC/CI display the worker's queue and the display's
brightness. `object` is constant for the backlight, and for a monitor it changes with
the detection that made its display and is 0 without one. `settled` is the state at
rest: no job and no event, or no timer, queue and results. `excused` is, for the
backlight, a request that was taken back or `unsure`, and a monitor whose buttons were
used. `KeepsPromise` is checked, and proved for both.

### KeyboardBacklight, BrightnessSteps

UPower's brightness and signals, the controller's cached value, keys and toggle, the
lid's memory in HandleButtonEvents, profiles, suspends and the applet. Two history
flags mark who is behind because a key remembered a change silently: `unheard` for the
lid's memory, until a change is announced with the lid open, and `missed` for the
applet, until a change is sent to it. Steps are those of `BrightnessSteps.tla`, the arithmetic of BrightnessLogic and its heirs, whose
promises (a step moves on, is visible, and is the value of a step; small steps move
on) TLC evaluates for many ranges.

### ManualInhibition

The applet's switch and list against FdoConnector, the policy agent as its clients
see it, and the screen saver. The daemon ends and starts again, and its name appears
before the agent's object does. `doubtful` and `missed` (history) mark a switch used
with an answer outstanding, and a list asked for before the object was there.
`Backlog` bounds what may be under way as the user or the daemon acts; the proofs hold
for any.

### ChargeThresholds

The helper's reads and writes of sysfs, battery after battery, each of which may fail
or be refused; the settings page, which waits for the helper in a nested event loop
while the user edits; the daemon's asynchronous readings. Both settings are tuples of
numbers that go the same ways, so `kind` tells them apart. `doubt`, `changed` and
`othersWrote` are history. There is no run: nothing bounds the module, and both of its
properties are proved for any number of batteries (section 5).

## 3. Runs

There is one run per component that changes state. Deadlock is checked except where
the bounds on events let the system stop.

| Run | Question | Bounds, and why they are enough |
|---|---|---|
| `PolicyAgentSafety` | Does the bookkeeping implement the promise? Is the block list kept? Do scheduled inhibitions leave their stage, and does a crash release? | two applications, one id whose reason has a colon, two cookies: two inhibitions of one application or of two, of one id, with either policy; late calls; restarts at any time |
| `LogindMirror` | Is the mirror right once logind is silent, with overlapping, stale and failing replies? Does a kept lock end up enforced for good, a dropped one released? | two locks of two processes, two changes, one application that asks before the locks are seen, four cookies: a reply overtaken by a drop and a re-take; cookies released by others, the locker, restarts |
| `CriticalBatteryWarnings` | Do notifications, countdown, charge, AC and configuration agree? Does a countdown conclude? | two batteries whose sum passes both levels, a mouse, two configurations, two signals under way |
| `WakeupScheduling` | Is the timer armed for the earliest wakeup, and each called back unless cleared? | three requests over four seconds: equal, earlier and later times, a clear of the first |
| `IdleTimeouts` | Is what idleness dims or turns off restored, and has each action exactly its timeouts? | two profiles with different actions, five events besides idleness and activity: a profile change between a suspend and a lock |
| `LidSuspends` | Does a lid that stays closed send the computer to sleep? When are requests refused? | profiles that disagree, two nested requests, five events: a wakeup during a request and a monitor unplugged before it |
| `PowerProfileHolds` | Do holds end with programs, is the list right, does the applet show the profile? | two programs, three holds, one manual change, one restart, three events in all: a program with two holds that releases one, obtains another or leaves |
| `ScreenBrightness` | Do KWin, daemon and applet agree on displays, brightness and dimming? | a panel and a monitor, three levels, steps of half a level (`Grain` = 2, the least that leaves a rest to round) and of the whole range, three events: a display replaced while it is dimmed and set |
| `BacklightRequests` | Are requests written in order and the last one shown (`KeepsPromise`), and does the compositor know the brightness at rest (`BelievesActual`)? | four levels, four requests, three foreign writes at any time, failing jobs, events and results in any order |
| `DdcDisplays` | Are requests written in order, the last one at least, or the display given up (`KeepsPromise`), and do KWin's requests reach it? | two monitors, two levels, three events: a display removed and found again while a request is tried |
| `KeyboardBacklight` | Are keys obeyed, and does the lid restore? | three levels (off, between, full), five events: close, change, open, change, key |
| `ManualInhibition` | Do the switch and the list say what the daemon holds? | four events, each with at most three messages under way; restarts |

### Fairness

Only what the event loop, logind or the library does by itself is fair, with weak
fairness, because an armed timer stays armed until a handler stops it and a message
stays until it is read: `Enforce` and `onServiceUnregistered`; `Answer`,
`HandleMessage` and `EnforceStep`; the critical battery timer and
`onPropertiesChanged`; `Tick`, `Poll` and `timerfdEventHandler`; the lid's handlers,
timers and idle timeout, the helper and logind's own progress (a call that was sent
is served, a suspend that has begun completes); the detector, timers and workers of the
DDC/CI displays. Users, applications, monitors and the batteries are never required
to act. The runs without fairness state what holds once nothing is under way, which
needs none.

## 4. What the modelling showed

The properties hold on the instances. Each of the following is behaviour of the code
that the models contain and that a property has to except, or that a stronger
property would trip over. Where a comment says otherwise it is named.

* A blocked inhibition outlives its application: suppressing it runs
  ReleaseInhibition with `retainCookie`, which nevertheless forgets the cookie's
  service (`daemon/powerdevilpolicyagent.cpp:737`, against the comment at line 518).
  Allowed again, it is active with nobody behind it. `WatchedCrashReleases` excepts
  it.
* The agent does not "check whether the screen is currently locked": init() connects
  to the signal only (`powerdevilpolicyagent.cpp:185-186`).
* A failed ListInhibitors call is not repeated before the next change.
* ForceUnInhibitAll, and ReleaseInhibition with somebody else's number, release what
  mirrors a logind lock but leave its entry in `m_logindInhibitions`
  (`powerdevilpolicyagent.cpp:841-847`): the lock, though held, is not enforced again
  until it is dropped and taken anew, or the daemon restarts. `KeptLockIsEnforced`
  excepts such a lock (`undone`).
* Unplugging at a critical charge starts no countdown: only a falling charge does
  (`daemon/powerdevilcore.cpp:724`), while the settings page explains that the action
  follows once the charge is "considered critical" (`kcm/ui/GlobalConfig.qml:140`).
* A second warning leaves the first, persistent notification on the screen
  (`powerdevilcore.cpp:627`, against line 626); `CountdownIsAnnounced` speaks of the one
  that is still pointed to. The button that acts "now" leaves the
  countdown running.
* `AcStateSettles` needs UPower to send the value of OnBattery with its signal.
* A battery that holds more than its full energy while it charges makes a negative
  double that is cast to an unsigned number (`batterycontroller.cpp:187`); the first
  discharge rate's timestamp is not kept, so the second counts 30 % whatever the time
  between them (`batterycontroller.cpp:207-213`).
* A wakeup cleared between poll and dispatch makes the next one come early.
* While the session is inactive its timeouts are removed, but inhibitions, the locker
  and profiles go on registering new ones (`powerdevilcore.cpp:158`, Bug 354250).
  `TimeoutsInPlace` speaks of the active session only.
* A screen inhibition that begins while the screens are off makes the wakeup forget the
  brightness of the keyboard instead of restoring it (`dpms.cpp:97`), and it stays dark.
  `KeyboardComesBack` excepts it (`spoiled`).
* The lid is looked at again after a profile change only when the load is forced: the
  current profile is compared after it was assigned (`powerdevilcore.cpp:422`), against
  the comment above it. `ClosedLidSleeps` excepts a lid that was closed before
  (`excused`).
* Keyboard brightness that is set under a closed lid is overwritten when it opens
  (`handlebuttonevents.cpp:99`), and stays untracked when the same value is set again
  with the lid open, because nothing is announced then. `LidRestores` excepts both.
* A key that meets a change whose signal is unread only remembers the new brightness
  (`keyboardbrightnesscontroller.cpp:141-145`, `163-166`); the signal, when it is read,
  is then no change and nothing is emitted (line 185). The applet goes on showing the
  old value, and the lid's memory keeps it: a lid closed now restores it. The next
  change that is announced sets both right. `AppletShows` (`missed`) and `LidRestores`
  (a lid closed while `unheard`) except exactly this time. `AppletShows` also excepts
  a change between the applet's question and its connection.
* A program with two power profile holds that releases one is no longer watched, so a
  crash leaks the other (`powerprofile.cpp:205`), unless it obtains a further hold
  before; a hold whose answer arrives after its program left is kept
  (`powerprofile.cpp:186`). `HoldsEndWithProgram` excepts exactly these holds (`lost`),
  and says nothing in favour of these two lines.
* A udev event of an own write that comes after its job's result may be taken for an
  external change, which then overwrites the remembered request
  (`backlightbrightness.cpp:175`, against lines 152 and 228). Such a request counts as
  taken back: the compositor is told of the brightness that replaces it. What
  `BelievesActual` and `KeepsPromise` show is that no request is lost in any other way,
  and that the compositor knows. They do not show that own changes are never reported,
  which is false.
* A write by another program that lies between the observed or expected and the executed
  brightness is not told from the daemon's own (`backlightbrightness.cpp:154` to 172). A
  bound that was set may even outlive its job and hide later ones. `unsure` excepts
  exactly the writes in these ranges, and any other is shown to be noticed.
* After a failed job nothing is tried again, and the brightness that was requested
  remains in `m_requestedBrightness`. The observed brightness is announced
  (`backlightbrightness.cpp:256`), but the listener of the protocol sends
  `brightness()`, the requested one (`externalbrightnesscontrol.cpp:52`), so that the
  compositor is told a brightness which the screen may not have (`unsure`).
* A new DDC/CI display is destroyed again if its bus is in the list already, since
  emplace does nothing then (`ddcutildetector.cpp:181`, against "Now we'll keep it one
  way or another", line 163).
* A display that is connected for the first time while others are dimmed is dimmed too
  (`screenbrightnesscontroller.cpp:176`); by the header it stays at full brightness
  until the next call (`screenbrightnesscontroller.h:161`). `DimmedAsWanted` says nothing
  of such a display until a dimming has reached it (`affected`).
* A configuration that is sent while KWin's announcement of a changed output is still
  unread carries that output's old state: one that just lost its brightness control is
  dimmed with the others and stays dimmed, as nothing compares it again. Looking for
  the inductive invariant of `ScreenBrightness` showed it. A brightness that is set while
  the outputs change under an operation may be lost in the same way. `DimmedAsWanted`,
  `TrackedIsShown` and `LagsOnlyAtEnds` except these times (`overlapped`).
* The applet's switch, used while an answer is outstanding, leaves a cookie that nobody
  remembers (`inhibitmonitor_p.cpp:55`); after a restart of the daemon a remembered one
  may be another program's. `SwitchIsTrue` excepts both (`doubtful`).
* triggersLidActionChanged is connected to a signal where a slot was meant
  (`applets/batterymonitor/plugin/inhibitioncontrol.cpp:137`).
* The daemon's names appear before the agent's object does
  (`daemon/powerdevilapp.cpp:78-85`): an applet that asks in between is refused and
  shows an empty list until the next change.
* After saving, the page takes the conservation mode it shows by then for saved
  (`kcm/ExternalServiceSettings.cpp:148`), so an edit made while it waited is lost from
  view. A value the kernel refuses goes unnoticed because the file is flushed when it
  is closed. A failure half way leaves some batteries written while the page shows
  the old values.

## 5. Proofs

| Module | Invariant | Theorems |
|---|---|---|
| `PolicyAgentProofs` | `AgentInv`: the properties of the module, plus that only cookies that were handed out occur anywhere, that a tracked cookie has a service that is alive or whose exit is still to be reported, and that a pending one has its timer | the type, `NotifiedPoliciesCurrent`, `ListedAsActiveIsActive`, `PoliciesHeldByActive`, `StagesConsistent`, `WatchedAreTracked`, `ReleasedStaysReleased`, `BlockedSurvivesRestart` (names without a colon), `ImplementsPromise` |
| `PolicyAgentProofs` (`LogindInhibitions`) | `MirrorInv`: the last message under way announces a change, carries today's locks or is an error; with all read the mirror is right, unless a call is to be answered or has failed; cookies not handed out yet stand for nothing | `MirrorInSync` |
| `DaemonProofs` (`WakeupScheduler`) | `SchedulerInv`: the properties plus `IssuedCookies` (cookies in use were handed out, so a new one is fresh) and `ReadyIsWatched` | `ArmedForEarliest`, `ReceivedFindsOne`, `CalledOnce`, `GoneForGood`, `EarliestFirst` |
| `DaemonProofs` (`CriticalBattery`) | `AcInv`: the last signal under way carries UPower's value, and the two copies differ only while one is under way; `WarningsInv`: the type, a charge of every known battery, `CountdownIsAnnounced` | the type, `CountdownIsAnnounced`; `AcStateSettles`, if signals carry the value |
| `DaemonProofs` (`LidAndButtons`) | `LidInv`: the type; `PrepareFollows` (the last signal of logind says what it is doing, and with all read the daemon's flag says it); a lid that demands sleep is looked after, also while a shutdown is on that may be called off | `RefusedInProgress`, `LidIsLookedAfter` |
| `DaemonProofs` (`BacklightBrightness`) | `BacklightInv`: `Reflected` (the compositor knows the request, and an event is under way until the last write has been read), `Noticed` (once a job has written, a brightness that is not the executed one has an event that will report it, or the daemon is `unsure`), `Overtaken` (if a write by others was reported while a job runs, nothing else is expected) and `Pursued` (only a request that stands keeps the requested from being the executed one) | `BelievesActual`, `KeepsPromise`, for any order of requests, results, events and foreign writes |
| `IdleActionsProofs` | `Sound`, of the record `d`: types, `DimmingWillEnd`, no timeouts for what is not loaded, no timeout twice, and what is loaded has its own unless a suspend or a wakeup by a timer waived it; `Remembers`: where the brightness is that the keyboard would have, with an action that waits for its wakeup or in the queued restore | `DimmingWillEnd`, `KeyboardComesBack`, `TimeoutsInPlace` |
| `DaemonProofs` (`ChargeThresholds`) | `ShownInv` (what is supported is shown and asked for), `PageInv` (a save followed through its jobs: what was asked, what the kernel has by then, what the page will take for saved), `DaemonInv` (the last answer under way is current, unless a write came after it, and then another reading is asked for) | the type, `PageInSync`, `DaemonInformed` |
| `PowerProfilesProofs` | `HoldIInv`: every hold that only one side knows has the message under way that will tell the other; `ProgramsSound`: a listed hold is of a program that runs and is watched, or whose departure is to be noticed, or it is lost; `DaemonSound` and `AppletSound`: the last message that speaks of a profile, on each of the two ways to the applet, carries the present one | the type, `HoldsAreListed`, `HoldsEndWithProgram`, `AppletShowsActual` |
| `DdcDisplaysProofs` | `IInv`: nothing is listed before the first detection, KWin knows exactly the list, and each display is `Sound`: what is pending is what was requested and is the last value the worker got, and with all results read either the timer runs or the monitor shows it; `Fresh`: objects belong to detections there have been, and a display that does not answer is sent nothing | the type, `KWinReachesDisplays`, `LastRequestWritten`, `OfferedOrTried`, `GivenUpAfterFailures`, `KeepsPromise` |
| `ScreenBrightnessProofs` | `CoreInv`: `NewsInv` (the last announcement is what KWin has; with none under way so is the copy, but for a dimming to be sent), `ValueInv` (tracked is what displays want, wanted is what the copy has unless it will be sent), `OpAlone` (during an operation all announcements list the outputs of the copy), `DimInv` and `UndimInv` (what is dimmed otherwise will be found so when the announcements are read) | `NotDeaf`, `DimmedAsWanted`, `TrackedIsShown`, `LagsOnlyAtEnds` |
| `ScreenBrightnessProofs` (the applet) | `ListInv`: `NumbersInv` (a name on the bus is one display's, ever), `QueryInv` (one question is under way, the one that is waited for), `NamesInv` (the names are there, on their way, or will be asked for), `ShownInv` (it shows what it has data of and will ask for the rest), `SetsInv` (it sets only what it shows); `ValuesInv`: what it shows, once all that is under way either way is read, is what is tracked | `AppletShows` |
| `KeyboardBacklightProofs` | `LastIsActual` (the last signal about the brightness has its value), `LidSignalsInTurn` (the controller learns of every movement in turn), `LidInv` (from closing the lid until somebody interferes only 0 and the value to be restored occur, and without `unheard` what is tracked is what is known or being announced), `AppletInv` (the last value on the bus is the one the applet will show) | the type, `KeysAreObeyed`, `LidRestores`, `AppletShows` |
| `ManualInhibitionProofs` | `NameInv`, `HasInv`, `ListInv` (the last message about the names, HasInhibit and the list, or the call to be answered with one, brings what is so); `SwitchInv`: both calls of the switch are on their way to the same, whichever of call, answer and effect each has reached, and nothing is held or asked for with the daemon gone | the type, `ListIsShown`, `HasInhibitShown`, `SwitchIsTrue` |

They hold for every value of the constants under the assumptions named in the
modules: any number of applications, cookies, batteries, programs, holds, buses and
brightness levels, and whatever the bounds on events and messages are. None of the safety properties
is inductive by itself, and most have the same shape: they say what holds when
nothing is under way, so that the invariant has to say, of every queue, what its last
message (or, for holds, each of them) tells about the two sides it runs between.

* `BelievesActual` needs to say, of every moment after a write, that a brightness other
  than the executed one will be seen by an event that does not take it for the daemon's
  own (`Noticed`). A job that starts while such an event is under way moves the executed
  brightness away, so `Overtaken` says what a report during a job leaves behind.
* `PageInSync` speaks of an idle page only; to reach it the invariant has to say, at
  every step of the two jobs, which of the values shown, asked for and written agree.
  `DaemonInformed` needs that answers arrive in order, so that only the last counts.
* `HoldsAreListed` follows each hold by itself: what either side knows of it, and the
  messages about it in their order (the answer that grants it comes once, what ends it
  comes later, and a restarted daemon gets no answer to the old one's calls).
* `LidIsLookedAfter` is inductive once it covers a shutdown that is called off and
  once a refused request is known to be followed by a resume, which is what
  `PrepareFollows` says.
* `KeyboardComesBack` and the other two of the idle actions have one lemma for each
  operator on the record, as loading a profile composes a dozen of them: what the
  screen-off action remembers may be what dimming left (0), so the invariant says that
  each of the three copies is 0 or the brightness wanted, and one of them is that.
* `LastRequestWritten` follows a value from the request to the timer, to the worker's
  queue, to its result and, when that is a failure, back to the timer. That a display
  is given up only after `MaxRetries` failures is an action property and needs that
  retries are failures in a row.
* `KeepsPromise` is proved step by step, with a lemma for each action of
  `BrightnessPromise` saying which steps of the detailed module take it: a request is
  `Ask`, a timer that hands the value to the worker is `Repeat`, the worker's
  or the helper's access is `Write` or `Fail`, a job's last result or a timer that finds
  nothing left to hand over is `Settle`, a report of another brightness to the compositor
  is `Revoke`, a detection is `Offer`, a removal and a display that fails too often are
  `GiveUp`, and a write by others is `Interfere`. Everything else leaves what the
  mapping looks at alone (`Apart`). That `Settle` is allowed is where the invariants are
  needed: the brightness that is shown is the newest request. That `Offer` makes a new
  object needs `Fresh`.
* `LidRestores` needs the most: where in the sequence of UPower's and the lid's
  signals a movement stands decides what the controller will remember, so the
  invariant (`AfterSet`, `MovedUp` are the lemmas for both ends of the queue) says of
  each position what the brightness will be when it is read.
* `SwitchIsTrue` is about two calls to two services. The invariant is a product of
  the stages of each: settled, asked, granted, ending, ended for sleep, fewer for the
  screen saver; all pairs that lead to the same are allowed. It needs that the calls
  of a switch used with nothing under way are the only ones (`Once`), and `CookieInv`,
  without which releasing a cookie might release another's inhibition.
* `CountdownIsAnnounced` needs that the summed charge is a number, as the order of a
  critical warning and its own clean-up depends on it. The sum is a recursive
  function over the subsets of the batteries, so `SumExists` and `SumIsInteger` are
  proved by the least number of elements at which they would fail (`Least`), which
  replaces induction and is why the batteries are assumed to be finitely many.

* `DimmedAsWanted` compares KWin with what the daemon wants, and between them lie
  announcements the daemon reads late, one by one, into a copy that it changes itself.
  A display that is not dimmed as wanted will be sent a configuration, or will be a
  new one by the time all is read (`Anew`), and its dimming is then compared; `Steady`
  says that the value compared is KWin's. For outputs that lost their control
  `UndimInv` says that the daemon reads of that loss before it reads of the dimming.
  The applet touches nothing of this, and one lemma (`AppletLeaves`) covers it.
* `AppletShows` is about the list and about the values. The list: the applet has the
  daemon's names, or a message under way brings them, or it will ask again when its
  present question is answered (`Ahead`); a name without data is one it will ask for.
  The values, display by display (`Fits`): take what the applet shows, apply to it what
  is under way from the daemon, and what it sets itself when the daemon has served that;
  the result is what is tracked (`Agrees`), or the applet was told of a change between
  its own call and the answer, or will be (`Doomed`), which is what `crossed` records.
  All this compares messages by name, so that a name is never reused (`NumbersInv`) is
  used in every step.
* `updateRows`, which makes the applet's list, is a fold over the known names, and what
  a fold computes for every list is induction over data. `UpdateRowsShows` (the rows
  are the known names with data, in their order) is proved by the least number of names
  after which the claim would fail (`LeastNumber`); the same lemma gives the enumeration of a
  finite set of numbers in ascending order (`InOrderLists`).

Model-checked only: liveness, for which there is no prover here, and the pure modules,
which TLC evaluates over bounded inputs. All other invariants and action properties of
the runs are proved.

## 6. Plan

What remains is *larger instances*, as time allows: three displays in
`ScreenBrightness`, two kinds of sleep in `LidAndButtons`.

## 7. Not modelled, and why

Texts, logging, and the order of notifications that close by themselves; ConsoleKit's
variants of sessions and suspending; RunScript, which starts a program and keeps
nothing; pausing media players before a suspend; start-up and migrations (sequential,
covered by `autotests/`); other helpers (stateless readers); the settings pages beyond
the charge limits and the applets' QML; night light and the lid hints in the applets,
which show what others decide; the backlight detector behind the screen brightness
controller where KWin's protocol is missing; the FreeBSD and OpenBSD variants.

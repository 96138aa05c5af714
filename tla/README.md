# Verification of platform_p, a Flutter SIP softphone

platform_p is a desktop SIP phone: a Dart user interface, three thin native
runners (Linux, Windows, macOS), and one C++ class, `PjsipService`
(`src/native/pjsip_service.cpp`), on top of the vendored PJSIP engine. The
hard part is in that class: which of up to four calls owns the microphone and
the speaker, while the user, the engine's worker thread and the peers all act
at once.

Around it stand smaller pieces that are hard for the same reason: events and
answers that overtake each other on their way to the user interface, timers
that make one of many reports, states kept twice. This directory holds TLA+
models of all of them, TLC configurations that check them on small instances,
and theorems checked by TLAPS.

## 1. Inventory

| Component | Source | State | Operations | Talks to |
|---|---|---|---|---|
| Call handling | `native/pjsip_service.cpp` 67-174, 373-525, 685-693, 710-787, 836-907, 956-1002 | `active_audio_call_id_` (the focus), `auto_hold_on_incoming_`, `initialized_`, `created_` | make, answer, reject, hang up, hold, resume, auto-hold switch, device refresh, initialize, shutdown; callbacks for incoming calls, call state and media | engine (calls under `lifecycle_mutex_`; callbacks without it) |
| pjsua engine | `third_path/pjproject-2.17/pjsip/src/pjsua-lib` | call slots, invite sessions, hold flags, media, conference bridge | the `pjsua_call_*` and `pjsua_conf_*` functions | peers, worker thread, callbacks |
| Audio cues | `native/pjsip_service.cpp` 695-708, 1004-1109 | three player ids, connected and hang-up-played call ids | refresh, state change, start, stop | engine players, called from callbacks and UI |
| Accounts | `native/pjsip_service.cpp` 187-371, 807-834; `pjsua_acc.c` | `accounts_`, the engine's places for accounts, transports | register, unregister, registration callback, answers and retries | engine accounts, Dart bridge |
| Call security | `native/pjsip_service.cpp` 1185-1240 | none | a function of account, media and SRTP session | events of calls |
| Event delivery | `Emit*` in `native/pjsip_service.cpp` 1111-1183, and the runners' hand-over to the platform thread | `event_callback_`, vector and message queue, or main loop | emit, post, flush, tear down | Dart bridge |
| Device monitors | the three runners, `RefreshSystemAudioDevices` | a flag, a timer or a block, the device remembered | device changed, message, timer or block, refresh | `PjsipService`, the engine's sound device |
| Dart bridge | `lib/pjsip_native_bridge.dart`, `..._models.dart` | chain of operations, `_currentState`, maps of registrations and of calls | one method per native operation, event handler | runners over the method channel |
| Network monitor | `lib/pjsip_network_monitor.dart` | last connectivity, debounce timer | changed, timer fires | bridge |
| Call panel | `lib/pjsip_call_panel.dart` | `connectedAt`, mute flags, selected account, timers | buttons, level poll | bridge |
| Account panel and dialog | `lib/pjsip_account_*.dart` | form fields | add, remove | bridge |
| Application shell | `lib/main.dart`, runners' `main` | none | start-up, end | all |

How they interact: a button in the call panel becomes a queued method call of
the bridge, which reaches `PjsipService` on the platform (UI) thread. The
service calls the engine, which calls back on the same thread, for what the
call itself causes (a hangup, media that comes up with a 200), or on its one
worker thread, for what the network brings. Callbacks change the focus and the
conference connections, then emit events that travel back to the bridge.

What is hard, and what makes each component correct:

* *Call handling.* Operations are serialised by `lifecycle_mutex_`; callbacks
  are not, and share the atomic focus and the conference bridge with them.
  A line without the focus must not be heard, the line with it must be, other
  lines must be held, a failed step must not leave a mixture, and nothing may
  survive a shutdown.
* *Audio cues.* What should play is computed before the mutex is taken; ids
  are slots the engine reuses; `StopAllAudioCues` runs before the engine's
  last callbacks. A cue must not outlive its reason, and the two locks must be
  taken in one order.
* *Accounts.* Places are used again, events of the old account arrive after the
  answer for the new one, and the answer of the registrar may come when the
  account is gone. Every account the engine has must be shown, as itself, and
  none that it has no more.
* *Event delivery.* No event may be lost, doubled or overtaken between the
  threads, and no thread may call into a window that is gone.
* *Bridge.* `_currentState` is overwritten by answers and by events that are
  older than they are, and decides what the next operation and the network
  monitor do.
* *Monitors.* A change that comes during a refresh must cause another one; of a
  lost network and a new one the engine must hear in the end.
* *Call panel.* A call must have a card on which it can be ended, whichever
  event came last; a card must not count the time of another call.

`PROJECT.json` lists each of these hazards at its line, with the properties
that cover it or the reason why none does.

## 2. Modules

| Module | Models | Extends | Checked by | Proved in |
|---|---|---|---|---|
| `SipEngine` | call table of pjsua | | through `CallService` and `AudioCues` | `SipEngine_proofs` |
| `Switchboard` | promise of call handling | | refined by the next | |
| `CallService` | call handling | `SipEngine` | `MCCallService` | `CallService_proofs` |
| `AudioCues` | cue sounds | `SipEngine` | `MCAudioCues` | `AudioCues_proofs` |
| `EventChannel` | promise of event delivery | | refined by the next | |
| `EventDelivery` | `Emit` to Dart, three platforms | | `MCEventDelivery` | `EventDelivery_proofs` |
| `AudioDevices` | default device, engine's device, refresh | | through the next | |
| `DeviceMonitors` | monitors of three platforms | `AudioDevices` | `MCDeviceMonitors` | `DeviceMonitors_proofs` |
| `Bridge` | Dart bridge with network monitor | | `MCBridge` | `Bridge_proofs` |
| `Accounts` | accounts, engine to panel | | `MCAccounts` | `Accounts_proofs` |
| `CallPanel` | cards, engine to panel | | `MCCallPanel` | `CallPanel_proofs` |

`Bridge`, `Accounts` and `CallPanel` take the event channel as what
`EventDelivery` shows it to be: a first-in-first-out queue that loses nothing
while the application runs.

**SipEngine** is the engine's call table. Each slot is a record: invite state,
role, `hanging_up`, `local_hold`, our re-INVITE in progress (`offer`), media
state, and whether its conference port is connected to the sound device. Each
engine function the service uses is one operator that gives its guard or the
next table; it is atomic because the engine holds the dialog lock or
PJSUA_LOCK throughout. `MediaUpdate` says what a negotiation does: a changed
direction restarts the stream, and the new conference port starts out
unconnected. `Ended` is a call over whose slot is still taken.

**CallService** is `PjsipService`'s call handling on top of it.

| Variable | Code |
|---|---|
| `focus` | `active_audio_call_id_` |
| `autoHold` | `auto_hold_on_incoming_` |
| `engine` | `created_` and `initialized_`, with `Shutdown` as "closing" |
| `ui` | the operation the UI thread is in: its statement, argument, loop and locals (`previous_audio_call_id`, `should_connect`) |
| `cb` | the callback each of the two threads is in |
| `unheld`, `miswired`, `leftOn` | history, read by no guard: lines a hold was due on and did not take effect; lines a failed request or a stale device refresh left rewired; lines that were heard when the focus left them |

Every statement that reads or writes shared state is an action of its own:
`AnswerCall` is the check and the enumeration, one `ScanHold`/`ScanSkip`,
`HoldCut` and `HoldSend` per line, `AnswerLoad`, `AnswerSelect`, then
`AnswerSend`, or `AnswerFails` and `AnswerRestore`. `CallMediaStateCallback` is
`MediaLoad`, `MediaClaim` (the compare-and-exchange), `MediaDecide` (the
argument) and `MediaConnect`. A callback runs under the dialog lock of its call
(`DialogFree`), which is why the media state it read does not change under it,
and why an engine call about that line waits for it.

**Switchboard** is what call handling promises of the sound device: with auto-hold
on, a line is put through only at a moment when it is the selected one. The code
decides in one step and connects in a later one, while the focus may move in
between; a line therefore counts as put through (`OnAir`) from the decision of
`CallMediaStateCallback` or of a device refresh on, and `CallService` implements
the promise whatever comes between the two.

What the code leaves to the environment is nondeterministic: the order of
network events, whether a request fails, whether the peer lets us send,
whether a stream is kept, which free slot a new call takes, and when the user
does what. An engine call that fails does so without effect.

**AudioCues** is the sounds: `RefreshAudioCues`, `HandleCallAudioCueState` and
the start and stop of players, on the UI thread and the worker, with
`audio_cue_mutex_` (`mutex`) and PJSUA_LOCK (`PjsuaFree`). Of the calls it keeps
what makes the engine report one, an action each; the focus and hold are left to
CallService. A refresh is `Enumerate`, one `LookAt` per call, each at its own
time, `TakeMutex` and `Apply`; a state callback is `Handle`, `PlayHangup` where
the tone is due, and a refresh. `cues` has the three ids the service keeps
(`ringtone_player_id_`, ...) and the players the engine has. Starting a cue may
fail at any time: the file may be missing or its path not configured.
`IncomingCallCallback` sends the 180, which is reported in a nested state
callback with the engine's lock released, and then refreshes with the lock
held (`again`, `locked`). The history variables `talked` and `disorder` are
read by no guard.

**EventDelivery** is the way of an event from any thread to Dart.

| Variable | Code |
|---|---|
| `hook`, `pc`, `count` | `event_callback_`; each thread inside `Emit`, which copies the callback under `callback_mutex_` (`EmitCopy`) and calls it after (`HandOver`) |
| `pending`, `posted`, `batch` | on Windows `pending_pjsip_events_`, the messages in the window's queue, and the vector `FlushPjsipEvents` is passing on; on Linux and macOS the work of the main loop |
| `ui`, `engine` | the UI thread: loop, flush, and the statements of `OnDestroy` or of the application's end; whether the engine's threads run |
| `sent`, `received` | the events in the order of the hand-over, and of arrival |

`platform` is chosen at the start and never changes. The window's queue holds all
messages of the window, so `PostMessage` may fail at any time, and its result is
ignored, as in the code; `refused` remembers that the last post failed while no
message of ours was queued.
**EventChannel** is what Dart relies on; with `sent`, `received`, `open` (the
window, or the main loop, is still there) and `held` (`refused`: the system does
not wake the application), `EventDelivery` implements it, liveness included.

**AudioDevices** has the system's default device (`device`), the default device
of the media library's list (`listed`), the device the engine has open (`used`),
`no_snd`, and `RefreshSystemAudioDevices` as three steps: close, list the devices
anew, and open, which may fail and return early. The default device may change
between any two of them. What opening finds (`Opened`) is the device of the list
on macOS, whose library looks it up in its list, and either that or the default
of the moment elsewhere, where the system resolves a name for it. `CallOpens` and
`IdleCloses` are the engine's own opening and closing.
**DeviceMonitors** adds how a report becomes a refresh: `flag`, `posting`,
`messages` on Windows, where posting the message may fail (`lost`); `timer` on
Linux, and on macOS with `seen`, the device the block remembers.

**Bridge** has `chain` (`_operationTail`: the operations in order), `todo` (the
native calls the first of them has still to make), `state` (`_currentState`),
`engine` (`initialized_`), `events` (status events on their way), and for the
network monitor `link`, `news`, `seen` and `debounce`. A native call and its
answer are one step, its events come later, because the platform thread sends
the answer before it is back in its loop. Every native call may also
throw (`CallThrows`), for the platform answers with an error or has no handler:
`_invoke` then publishes an error, and the operation makes no further call, but
for `_syncAudioCuePaths`, which catches it. The histories are `misled` (a call
control was answered "started" by a stopped engine, or a call to a running one
threw), `bound` and `links` (the number of the last change the engine was told
of, and of all changes) and `dropped` (a change between two networks of one
kind, a timer that met a state other than "started" while the engine ran, or a
hand-over that the engine refused or that threw).

**Accounts** has the engine's places with the state of each registration session
(`acc`), `accounts_`, the method call in progress (`op`), the worker between the
change of a session and its event (`held`), the events on their way, and on the
Dart side `_registrations` (`shown`), `_accountConfigs` (`configs`) and the
panel's `selectedAccountId`. An answer and a retry are `RegcAnswered` and
`Retry`; emitting is `RegistrationStateCallback`, a step of its own. `Outcomes`
says what an answer may do to a session together with what the event will say of
it, since the two do not always agree: the event's expiry is the time to the
next REGISTER, which is 0 while another one is on its way, and the largest
number for a session that is gone. `UpdateContact` is the REGISTER that a change
of the network makes of an account that is online, or of one whose session is
gone. The history `amiss` remembers what the engine last said falsely of an
account.

**CallPanel** has what each slot of the engine does (`call`), the number of the
call in it, `_calls` (`cards`), `connectedAt` (`since`: which call's time is
counted), the mute of the panel and of the engine. A callback of the engine
changes a call and emits under the dialog's lock, one step; the slot of a call
that is over is freed in another (`Release`), after the callback has returned.
`MakeCall` reads and emits outside that lock, two steps with anything in between,
and what it reads may be the end of its call. `overtaken` remembers the slots
whose last event was such an old one, `wiped` those of them where it told the end
of a call while the slot's next one was alive.

The `MC` modules add model values and symmetry. `MCAccounts`, `MCBridge` and
`MCCallPanel` also state what one would expect and the code does not do (see
"Deviations without a run").

In front of some definitions stands a *variant* of it (`MediaClaimStores`,
`AnswerCallOnly`, ...): the same operator with a plausible mistake. Variants
are used by no other definition. With the variant in place of the definition
TLC finds the property named in `PROJECT.json` "mutants" violated, so each
property does depend on that piece of code.

### Properties

| Property | Says | Why it could be wrong |
|---|---|---|
| `OnlySelectedTalks` | with auto-hold on, a line without the focus is heard only if it was heard when it lost the focus and nothing has silenced it since | media may come up, or a device refresh, hold or answer happen, at any point of the selection of another line |
| `BackgroundIsHeld` | every other confirmed line is on local hold, unless its hold did not take effect | holds are requested line by line while calls confirm, end and are replaced in their slots |
| `BackgroundIsExcused` | a line heard beside the selected one is one whose hold did not take effect, or was left rewired by a failed request or a device refresh | resumes are refused and streams restart while another line is being selected |
| `SelectedIsHeard` | an answered line with the focus and active media is connected | the focus is stored in one thread, the decision taken in another |
| `OnlyLateSelectNeglects` | no step but `MakeCall`'s selection of its call leaves the line with the focus silent with nobody to see to it, dialled lines included | every statement of a callback, a hold or a refresh may run between the statement that moves the focus and the one that wires |
| `PutThroughBySelection` | call handling implements `Switchboard` | a decision outlives the focus it was based on, and the auto-hold switch |
| `HeldIsSilent` | a line whose media is on hold, by either side, is not connected | the callback and the refresh wire from facts read earlier |
| `FocusMovesOnlyByChoice` | the focus is taken from a live line only by a statement that follows a user's choice; callbacks only fill or clear it | three threads of control store into it |
| `StoppedIsClean` | after `Shutdown` there is no focus, no call and no callback | `pjsua_destroy` makes callbacks itself |
| `BackgroundFallsSilent` | a line heard without the focus falls silent or gets the focus, or its hold failed | needs the hold, its answer and its callback to happen |
| `OperationsReturn` | every operation returns | `Shutdown` joins the worker with a mutex held |
| `CueHasReason` | when quiet, a ringtone or ringback tone has a call that waits or rings, unless its refresh was overtaken | calls are looked at one by one, long before the players change |
| `OneCue` | when quiet, one cue plays at most | the hang-up tone is started in a different critical section |
| `HangupToneOnce` | the hang-up tone starts exactly when a call that was connected ends | the two sets are keyed by slots that are used again, and cleared by `Shutdown` |
| `OnlyCycleBlocks` | the threads of the cues block each other only in the cycle of `lock_order` | two locks, taken in two orders, and given up for some callbacks only |
| `OnlyToneOutlives` | the only cue that has a player when its engine is gone is the hang-up tone, unless a refresh was overtaken | callbacks go on after `StopAllAudioCues` |
| `PlayersStayOwned` | no cue stops or gets the player of another one, as long as the engine that has the players lives | ids are slots the engine gives out again, kept by three cues and used from two threads |
| `NoLateCallback` | no thread is inside the callback when window and channel are gone | `SetEventCallback(nullptr)` waits for nobody; only the join in `pjsua_destroy` does |
| `NothingStranded` | on Windows no event waits without a message, an emitter or the last flush on its way, unless the last post was refused | one message takes many events, posting may fail |
| `AllPassedOnAtClose` | on Windows every event was passed on when the window is gone | `Shutdown` emits while the window closes |
| `ChannelSpec` | the hand-over implements `EventChannel` | order, loss and doubling across two locks and a queue |
| `NothingMissed` | an engine that uses or lists another device than the default one has a report, message or timer ahead of it, unless a Windows post failed or macOS remembers another device than is listed | reports are dropped while a flag is set, or restart a timer; the device changes between the steps of a refresh |
| `FollowsOrMixed` | in the end the engine follows the last default device, with the same two exceptions | needs every report to lead to something |
| `StateAgrees` | with nothing on its way `_currentState` is "started" exactly when the engine runs, unless a call control or a call that threw misled it | events arrive after answers that are newer; a call throws in the middle of an operation |
| `AlreadyIsTrue` | "already initialized" and "already stopped" are true when no event is on its way, unless the state was misled | the native side is not asked |
| `NoChangeLost` | with the engine running and the network up, a change the engine was not told of is still on its way to it, unless it was dropped | a change counts as seen before its timer runs, timers are restarted, operations queue up |
| `Recovers` | with the network back the engine is told of the last change, unless it was dropped | the change counts as seen before the timer runs |
| `AccountsAreShown` | when quiet every account of the engine has a card, but for one that the engine itself called unregistered while its session was alive | a late event of the last account in a place could wipe out the next one's |
| `StatusIsTrue` | when quiet a card says "registered" or "failed" only of an account whose session is so, unless a 200 has ended the session or a change of the network has replaced it and no answer has come since | answers for the last account of a place, and of an un-REGISTER taken for a registration, come late |
| `ConfigIsOfAccount` | a card has the configuration of its own account | answers and events change two maps, places are used again |
| `DuplicateOnlyWithoutPort` | the same account has two places only when one was given without a port | duplicates are looked for before the port is known |
| `NoneRevived` | in the engine's first run no event brings back a removed account | the callback and the retry of an account may come after its end |
| `EveryCallHasCard` | when quiet every live call has a card, unless `MakeCall`'s late event has just told the end of the call its slot had before | `MakeCall`'s event may be the last or the first of its call, or come when the slot is another's |
| `CardsAgree` | when quiet cards and call times agree with the calls, except in overtaken slots | one map for all calls of a slot, fed from two threads |

The exceptions in these properties (`disorder`, `miswired`, `misled`, `dropped`,
`overtaken`, `wiped`, `amiss`, `refused`, `lost`, `Mixed`, the port of a duplicate,
`starts = 1`) are each a
deviation of the code that has a name here; what the property says is that
nothing else goes wrong. The invariants about audio speak of settled states: no
operation, callback or re-INVITE of ours under way. In between the code is of
course allowed to have cut one line and not yet connected the other.
`PutThroughBySelection` speaks of every step.

## 3. Runs

| Run | Instance | Distinct states | Shows |
|---|---|---|---|
| `call_audio` | 2 calls; make, answer, hold, refresh, shutdown; auto-hold on | 2,543,454 | `TypeOK`, `StoppedIsClean`, `OnlySelectedTalks`, `BackgroundIsHeld`, `BackgroundIsExcused`, `SelectedIsHeard`, `HeldIsSilent`, `FocusMovesOnlyByChoice`, `OnlyLateSelectNeglects` |
| `call_liveness` | 2 calls; answer, shutdown; auto-hold on | 178,155 | `BackgroundFallsSilent`, `OperationsReturn`, `PutThroughBySelection` |
| `one_talker` | 2 calls; answer | violated | see "Findings" |
| `late_select` | 2 calls; make | violated | see "Findings" |
| `audio_cues` | 2 calls, 3 players | 419,206 | `TypeOK`, `CueHasReason`, `OneCue`, `HangupToneOnce`, `OnlyCycleBlocks`, `OnlyToneOutlives`, `PlayersStayOwned` |
| `lock_order` | the same | violated | see "Findings" |
| `stale_player` | the same | violated | see "Findings" |
| `event_delivery` | both platforms, 2 engine threads and the UI thread, 2 events each, 2 messages | 184,334 | `NoLateCallback`, `NothingStranded`, `AllPassedOnAtClose`, `ChannelSpec` |
| `device_monitors` | 3 platforms, 2 devices, 2 reports per change, 4 changes | 4,152 | `NothingMissed`, `FollowsOrMixed` |
| `bridge` | 3 requests of any kind, 2 connections, 2 changes of the network | 972,338 | `StateAgrees`, `AlreadyIsTrue`, `NoChangeLost`, `Recovers` |
| `accounts` | 2 places, 2 users, with and without a port, 2 events on their way, 2 starts | 7,927,890 | `AccountsAreShown`, `StatusIsTrue`, `ConfigIsOfAccount`, `DuplicateOnlyWithoutPort`, `NoneRevived` |
| `call_panel` | 2 slots, 3 calls, 3 events on their way, 2 starts | 2,884,669 | `EveryCallHasCard`, `CardsAgree` |

**Bounds, and why they are enough.**

* *CallService.* Two calls are the smallest number with a foreground and a
  background line. Each operation concerns one call and "the others", one at a
  time, and each callback one call, so the races are between an operation, a
  callback and one other line. The engine has four slots; a run of three calls
  was made by hand with only answering allowed (3.6 million states, no error)
  and is too slow to keep with the others. `Requests` selects which operations
  the user may ask for; hanging up and starting the engine are always possible.
  No counter needs a bound: slots are used again, so behaviours go on for ever
  in a finite space. The audio invariants fix auto-hold on, which is the
  default: with it off several lines may talk, as the call panel says. The
  theorems hold for any number of calls, and for every use of the switch where
  they do not say otherwise.
  `PutThroughBySelection` is checked at every step, so it stands with the smaller
  run; with device refreshes and the switch in use it was checked by hand (1.9
  million states, no error), and `ImplementsBoard` covers all of it.
* *AudioCues.* Two calls, so that both threads can be in a callback and a slot
  is used again, and three players, one per cue; the engine has more and the
  service never holds four (`TypeCorrect` of `AudioCues_proofs`).
* *EventDelivery.* Three threads with two events each, so that an event can be
  pushed between another one's push and its message; a queue of two messages,
  so that messages wait for each other; a post may fail at any time.
* *DeviceMonitors.* Two reports per change, since one change is reported once
  for each role of the device; four changes, so that the device can change
  before, during and after a refresh, and come back to what it was.
* *Bridge.* Three requests are initialize, another operation that breaks into
  it, and one that decides upon the state that leaves; two changes of the
  network are a loss and a return.
* *Accounts.* Two places and two users give duplicates, a place that is used
  again, and an event for one account while another is registered; two starts
  give what outlives the engine. Two events on their way are an old one and the
  one that overtakes it in meaning; with a third the space is several times as
  large and the events of one place only repeat the pattern.
* *CallPanel.* Two slots and three calls, so that a slot is used again while the
  other is busy, also by an incoming call while `MakeCall` is still to announce
  the last one.

Every safety property of these runs is also proved for every value of the bounds
(section 4); the liveness properties are not.

Deadlock is checked except in these runs: `EventDelivery` ends with the
application; the requests of `Bridge`, the starts of `Accounts` and the calls of
`CallPanel` are used up; `AudioCues` has the lock cycle below. Liveness is
checked without symmetry.

**Fairness.**

* *CallService.* `UiStep` and the worker's callback steps are weakly fair: both
  are ordinary running threads, and no step of them waits for anything but the
  dialog lock, which callbacks release. Strong fairness of the answer to our
  re-INVITE, per call, stands for SIP's transaction timers: a re-INVITE is
  accepted, refused or timed out, however often other events of the call come
  first.
* *EventDelivery.* A thread inside `Emit` goes on, and the UI thread handles its
  messages and ends what it began.
* *DeviceMonitors.* The reporting thread is scheduled, and the platform's thread
  serves its messages, timers and blocks.
* *Bridge.* The event loops of Dart and of the platform run what is queued, and
  timers fire.

Nothing is assumed of the user, the peers, the registrar, the devices or the
network.

### Findings

* `one_talker`. The call panel says of the switch "已开启。接听新来电前，会向其他已接通线路发送
  SIP Hold。", and warns of several lines being heard together only for the
  switch off. `HoldOtherConfirmedCalls` skips a line that is not `CONFIRMED`
  yet. TLC's counterexample answers a first call, whose media comes up with
  the 200, and answers a second one before the first one's ACK arrives: both
  are connected, and nothing holds the first one later. The same happens with
  early media of a dialled line. `BackgroundIsExcused` says that there is no other
  way: a line heard beside the selected one is in `unheld` or `miswired`.
* `late_select`. `MakeCall` stores the focus only after `pjsua_call_make_call`
  has returned. If the media callback runs first, while another line still has
  the focus, the new call is wired as a background call, and stays
  disconnected although it then gets the focus. `AnswerCall` has a comment on
  this very hazard and selects first. `OnlyLateSelectNeglects` says that it is the
  only statement that does this.
* `lock_order`. `on_incoming_call` is made with PJSUA_LOCK held, and
  `IncomingCallCallback` ends with a refresh that takes `audio_cue_mutex_`. A
  refresh of the UI thread has `audio_cue_mutex_` when it starts or stops a
  player, which takes PJSUA_LOCK. In TLC's counterexample a refresh that saw no
  call takes the mutex after the worker has started the ringtone, and must stop
  it. The engine releases its lock around the call state callback for this
  reason ("Release locks before calling callbacks, to avoid deadlock.").
  `OnlyCycleBlocks`: the threads never wait for each other in any other way.
* `stale_player`. `Shutdown` stops the cues and clears the ids, then
  `pjsua_destroy` lets the worker finish its callback, which may be the
  CONFIRMED of a call, and hangs that call up, which starts the hang-up tone.
  The engine destroys the player, the service keeps its number, and after the
  next `Initialize` destroys a player that does not exist, against
  `pjsua_player_destroy`'s assertion. `OnlyToneOutlives` and `PlayersStayOwned`
  limit this: no other cue outlives the engine, and while the engine runs no
  player changes hands.

### Deviations without a run

The models show these too; most are an exception of a property above. Those with
a name in parentheses are stated in an `MC` module: add the name to the
module's `.cfg` to see TLC's counterexample.

* *Cues.* A refresh that is overtaken between looking and applying may leave a
  ringtone on with no call until the next refresh (`disorder`).
* *Windows monitor* (`flutter_window.cpp` 214, 298). `notification_pending_` is set
  before the message is posted, and the result of `PostMessage` is not looked at.
  One post that fails leaves the flag set, and every later report is dropped
  (`lost`).
* *Windows events* (`flutter_window.cpp` 556). Events whose message was refused
  wait for the message of the next event, however long that takes (`refused`).
* *macOS monitor* (`PjsipBridge.mm` 152-164). The block remembers the device it
  saw, the refresh lists and opens the one it sees later. If the device goes back
  in between, the next block finds nothing new, and the other device stays open
  (`Mixed`).
* *Device refresh* (`pjsip_service.cpp` 721). `pjsua_set_no_snd_dev` tells the
  engine not to open a device for calls. When a later step fails, the early
  return leaves it so, and later calls are silent until a refresh succeeds.
* *Network monitor* (`pjsip_network_monitor.dart` 38). A change is recorded as
  seen before the timer runs; a timer that finds the bridge busy drops it, though
  the monitor has announced the recovery (`AnnouncedIsDone`).
* *Bridge* (`pjsip_native_bridge.dart` 72-80). A call control on a stopped engine
  is answered "started", after which `initialize()` says "already initialized"
  and starts nothing (`AlreadyInitializedIsTrue`). `AlreadyIsTrue` says that this
  is the only way for these answers to be wrong once the events have arrived.
* *Bridge* (`pjsip_native_bridge.dart` 373-389). A native call that throws publishes
  an error as the state of the service, whether the engine runs or not; until an
  answer or an event puts it right, the network monitor drops what it hears and
  `initialize()` goes to the engine again (`misled`, `dropped`).
* *Accounts* (`pjsip_service.cpp` 826, `sip_reg.c` 245-261, `pjsip_native_models.dart`
  150). The expiry of an event is the time to the next REGISTER. When the answer
  to one REGISTER is told while another is on its way, for a change of the
  network, or in the last second of a very short grant, it is 0: the bridge takes
  this 200 for "unregistered" and removes the card and the configuration of a live
  account (`AccountHasCard`). Its next event brings the card back, without the
  configuration.
* *Accounts* (`pjsua_acc.c` 2666). A 200 with an expiry of 0 destroys the session
  whether it answers an un-REGISTER or not, and nothing tries again. The event
  says "registered", since a session that is gone has the largest number for an
  expiry, and the card goes on saying so (`RegisteredIsOnline`).
* *Accounts* (`pjsua_acc.c` 4651). A change of the network sends a REGISTER for an
  account that is online, in a new session when the old one is busy; the card
  says "registered" until the answer comes (`amiss` is "kept").
* *Accounts* (`pjsip_service.cpp` 207, 226). An account given once without a port
  and once with 5060 is registered twice (`NoDuplicate`).
* *Accounts* (`pjsip_service.cpp` 348, 769; `pjsip_account_panel.dart` 193).
  `Shutdown` clears the accounts and tells nobody. Their cards stay, and
  removing one succeeds without an event that would take it away
  (`RemovedIsGone`).
* *Accounts* (`pjsip_service.cpp` 340). "Registration request sent" may be emitted
  after the event of the answer: a registered account is shown as registering
  and cannot be chosen to dial with (`RegisteredCanDial`).
* *Accounts* (`pjsip_service.cpp` 826, `pjsua.h` 5094). After an un-REGISTER the
  engine reports the largest number for "no expiry", which the callback takes for
  a registration (`OnlineIsRegistered`). `StatusIsTrue` says that the event of it
  never stays on the card of an account the engine has.
* *Call panel* (`pjsip_service.cpp` 418, 1157, 1182, 474). `MakeCall`'s event may
  come after the last one of its call: the card of a call that is over comes back,
  and hanging it up succeeds without an event (`OnlyCallsHaveCards`).
* *Call panel* (`pjsip_service.cpp` 1157, `pjsua_call.c` 2500, 5322-5342). The engine
  frees the slot of a call only after its callback has returned, and `EmitCall`
  reads the call under PJSUA_LOCK alone. `MakeCall` may read "disconnected", then
  the slot is freed and an incoming call takes it, and the late event removes the
  card of the live call until that call's next event (`LiveHasCard`).
* *Call panel* (`pjsip_call_panel.dart` 132). The mute of the panel outlives the
  engine: after a restart the microphone is on and shown as muted
  (`MutedIsSilent`).
* *Call security* (`pjsip_service.cpp` 1197). The security of an account is
  compared with `sdes` and `dtls`, while the Dart side sends `sdes_srtp` and
  `dtls_srtp` (`pjsip_native_models.dart` 64-65).

## 4. Proofs

Every theorem holds for every value of the constants under the assumptions the
modules state, which TLC evaluates in the runs.

| Module | Theorem | Statement |
|---|---|---|
| `CallService_proofs` | `TypeCorrect` | `Spec => []TypeOK` |
| | `ShutdownIsClean` | `Spec => []StoppedIsClean` |
| | `FocusByChoice` | `Spec => FocusMovesOnlyByChoice` |
| | `HeldLinesAreSilent` | `Spec => []HeldIsSilent` |
| | `BackgroundIsNeverConnected` | `AutoHoldSettings \subseteq {TRUE}`: `Spec => []OnlySelectedTalks` |
| | `OtherLinesAreHeld` | `AutoHoldSettings \subseteq {TRUE}`: `Spec => []BackgroundIsHeld` |
| | `SelectedLineIsHeard` | `Spec => []SelectedIsHeard` |
| | `OnlyLateSelectionNeglects` | `Spec => OnlyLateSelectNeglects` |
| | `BackgroundLinesAreExcused` | `AutoHoldSettings \subseteq {TRUE}`: `Spec => []BackgroundIsExcused` |
| | `ImplementsBoard` | `Spec => PutThroughBySelection` |
| `AudioCues_proofs` | `TypeCorrect` | `Spec => []TypeOK` |
| | `OneCueLeft` | `Spec => []OneCue` |
| | `TonePlaysOnce` | `Spec => HangupToneOnce` |
| | `TonesHaveReason` | `Spec => []CueHasReason` |
| | `OnlyTheCycleBlocks` | `Spec => []OnlyCycleBlocks` |
| | `OnlyToneIsLeft` | `Spec => []OnlyToneOutlives` |
| | `PlayersAreOwned` | `Spec => PlayersStayOwned` |
| `EventDelivery_proofs` | `TypeCorrect` | `Spec => []TypeOK` |
| | `NoLateCall` | `Spec => []NoLateCallback` |
| | `NoneStranded` | `Spec => []NothingStranded` |
| | `PassedOnAtClose` | `Spec => []AllPassedOnAtClose` |
| | `ImplementsChannel` | `Spec => Channel!Safety` |
| `DeviceMonitors_proofs` | `TypeCorrect` | `Spec => []TypeOK` |
| | `NoneMissed` | `Spec => []NothingMissed` |
| `Bridge_proofs` | `TypeCorrect` | `Spec => []TypeOK` |
| | `StateFollowsEngine` | `Spec => []StateAgrees` |
| | `AlreadyAnswersAreTrue` | `Spec => AlreadyIsTrue` |
| | `ChangesAreNotLost` | `Spec => []NoChangeLost` |
| `Accounts_proofs` | `TypeCorrect` | `Spec => []TypeOK` |
| | `EveryAccountShown` | `Spec => []AccountsAreShown` |
| | `StatusFitsSession` | `Spec => []StatusIsTrue` |
| | `OwnConfiguration` | `Spec => []ConfigIsOfAccount` |
| | `TwiceOnlyWithoutPort` | `Spec => []DuplicateOnlyWithoutPort` |
| | `RemovedStaysRemoved` | `Spec => []NoneRevived` |
| `CallPanel_proofs` | `TypeCorrect` | `Spec => []TypeOK` |
| | `CardForEveryCall` | `Spec => []EveryCallHasCard` |
| | `CardsAgreeAlways` | `Spec => []CardsAgree` |

Each module has an inductive invariant, `IInv`, and proves that the start has
it, that each step keeps it (one step of the proof per action, one below it per
conjunct the action can disturb), and that it implies the properties.

* *CallService.* `SipEngine_proofs` says what each engine operator returns and
  leaves alone. `IInv` adds to the types `UiOK` (which operation the UI thread is
  in at each statement, and that its argument or line is a call, without which
  `focus' = ui.call` could store none), `CallbackOK` (what a callback may rely
  on: its call is one, a call it reports as over is, media it found active still
  is when it decides), `DialogLock` (no two threads run callbacks of one call,
  which keeps `CallbackOK` true while the other thread moves) and `LifecycleOK`
  (the engine is closing exactly while `Shutdown` is under way, and once the
  worker is joined it has no callback). Most actions leave the facts callbacks
  rely on alone: lemma `CallbacksKept`. Those that push a media callback share
  `MediaPushed`, those that take a free slot `SlotTaken`.

  The audio of the lines takes four more invariants on top of `IInv`, because a
  callback wires its line from what it read some steps before.
  - `AudioInv` says what is still true by then. `ConnectOK`: a callback that is
    about to wire finds its call in progress, and connects it only while its media
    is active. `PortOK`: only a call with a conference port is connected, so that
    whatever ends or cuts a call silences it. `HeldOK` and `TalkOK`: the two
    properties with the callbacks that are still to wire added to them. They give
    `HeldIsSilent` and `OnlySelectedTalks`.
  - `BackInv` follows the loop that holds the other lines. A line is open when it
    was dialled or answered, is not on hold, and is not noted in `unheld`. Only the
    line with the focus, or the one `MakeCall` is about to select, is open
    (`FocusOpen`), because before a line gets the focus every other open line is
    still ahead of the loop (`OthersLeft`). A call that comes in behind the loop is
    not answered, and is answered only by an operation with a loop of its own.
    `CalleeOK` says which line the statements after the focus has moved are about.
    It gives `BackgroundIsHeld`.
  - `HeardInv` says that whenever the selected line is owed its audio somebody is
    still to give it: a callback that has yet to decide or to connect, the
    refresh that cut it, a request not yet made or not yet answered; or it is in
    `miswired`. It gives `SelectedIsHeard`. For a dialled line it is not an
    invariant, which is `late_select`. The lemmas therefore speak of `Tended(L)`, the
    lines that came in and those of a set `L` besides: every step keeps it, but for
    the step of `MakeCall` that selects a line of `L` (`StepTended`). `HeardInv` is
    `Tended({})`, and `OnlyLateSelectNeglects` takes for `L` the line a step is said
    to neglect.
  - `LooseInv` follows the lines that are on hold by their flag and still heard
    (`Loose`). A resume that is refused leaves such a line, since the engine sets
    the flag back and keeps the media, and the loop of `HoldOtherConfirmedCalls`
    must find it although its flag says it is held. The invariant says where such a
    line is (`Placed`): it has the focus, or the loop has still to cut it, and no
    operation moves or gives up the focus before it has. It gives
    `BackgroundIsExcused`.

  The three theorems with an assumption are about a user who leaves auto-hold
  on: with it off the code neither holds nor silences the other lines.

  `ImplementsBoard` needs `IInv` only. Two steps put a line on the air
  (`MediaDecide` and `RefreshScan`: lemma `BoardPutThrough`), `SetAutoHoldOnIncoming`
  is a step of its own, moves of the focus leave `OnAir` alone (`BoardSelect`), and
  every other step takes lines off the air or stutters (`OnAirShrinks`,
  `BoardKept`).
* *AudioCues.* `PlayersOK`: every player of the engine is one of the three the
  service keeps, so that while a cue has none a slot is free and the engine's
  choice of the first one exists. `RefreshDue`: two cues play only while some
  thread still has a refresh ahead of it. That is why the hang-up tone may be
  started in a critical section of its own: the thread that starts it refreshes
  next, and any refresh, overtaken or not, leaves one cue (`RefreshCues`).
  `CallbackInv` says what a state callback may rely on after its mutex is released:
  no other thread handles its call, and the state it reports is the one the call
  has. On it rests `ToneInv`, which ties the two sets of slot numbers to the
  history of the slots: `HangupToneOnce` follows for calls that follow one another
  in a slot. `ReasonInv` is the argument for `CueHasReason`: a refresh that was not
  overtaken has found what the calls ask for, or whoever has changed a call since
  has a refresh of its own ahead. Each step is one that begins, continues or ends
  a refresh (`Begins`, `Continues`, `Ends`), so the invariant is kept once per kind.
  `LockInv` says who holds which lock: the mutex belongs to the thread that plays a
  tone or applies a refresh, and PJSUA_LOCK is held through a callback by the worker
  only, in the refresh after an incoming call. So the two threads can wait for each
  other in one way, that of `lock_order`. `PlayersStayOwned` speaks of steps
  (`StopOwned`, `StartOwned`, `RefreshOwned`), since the end of the engine is the one
  step that breaks it.
* *EventDelivery.* `InOrder` is the refinement:
  `sent = received \o (batch \o pending)`. `Joined` says that a stopped engine
  has no thread inside `Emit`, which is what `NoLateCallback` rests on;
  `Emptied` that nothing is left after the last flush. `ImplementsChannel` maps
  each step to one of the channel (a post that is refused, or one that is not
  after one that was, is `Hold`) or to a stutter.
* *DeviceMonitors.* `FlagOwned`: the flag of Windows is set only while a message
  is on its way or after a post that failed, so that a report that finds it set
  may be dropped or is excused. `Open`: in the middle of a refresh no device is
  open and none can be opened, and what is open on macOS is what is listed.
  `ListedAnew`: when the default device has changed since a refresh listed it, a
  report of that is on its way, so that whatever the last step of the refresh
  opens, `NothingMissed` holds after it.
* *Bridge.* `EventsAgree`: the newest event on its way says whether the engine
  runs, so that the last one to arrive puts `_currentState` right. `StateOK` says
  that without events the state is right, was misled, or is about to be set by the
  next call of the running operation (`Corrected`), which holds through a call that
  throws because that one publishes an error and ends the calls. `IdleState`: the
  state is never "idle" of a running engine, misled or not. `NoChangeLost` takes
  `NewsOK` (the last report is the link as it is, and news to the monitor unless the
  change was dropped) and `RunsOK` (its operation makes one call): a change is then
  in a report, in the timer or in an operation of the chain (`Telling`), and each of
  these hands it to the next.
* *Accounts.* `Announced(i, events, shown)`: once the events have come in, place
  i has a card. Events are appended at one end and handled at the other, so the
  lemmas `AnnouncedAppend` and `AnnouncedTail` say what both do to it; an event
  of a removed account is always ahead of those of the next one. `Due`: the
  answer to the method call, or the event in the worker's hands, is still to
  announce the place. `Callback`: an event that will call an account
  unregistered has that on record (`amiss`), and no answer after it leaves the
  record as it was. The same shape says that no event of a place without an
  account comes after its removal. `Coming(i, events, shown, v)` says more,
  namely what the card will show, and `ClaimInv` that this fits the session
  (`Fits`), or is on record as not so, unless an event about the place is due.
  `OnePortless` gives `DuplicateOnlyWithoutPort`.
* *CallPanel.* `Shows(s, events, cards[s], v)`: the card of slot s will be v;
  `Counts(s, events, since[s], k)`: the time it will count is that of call k.
  Again an append and a tail lemma for each. `CardsComing` and `TimesComing` say
  that what is coming agrees with the calls, outside the overtaken slots; in an
  overtaken one a live call has still some card coming, unless the slot is in
  `wiped`.

Every safety property and every refinement's safety part that a passing run
checks has a theorem. Only model-checked, as out of the prover's reach, is
liveness under fairness: `BackgroundFallsSilent`, `OperationsReturn`,
`Recovers`, `FollowsOrMixed`, and the liveness part of `ChannelSpec`. Of some of
them the safety half is a theorem: `BackgroundLinesAreExcused` for
`BackgroundFallsSilent`, `ChangesAreNotLost` for `Recovers`, `NoneMissed` for
`FollowsOrMixed`, `NoneStranded` for `ChannelSpec`. The violated properties of
the findings are counterexamples of TLC.

## 5. Not modelled

* *Call security.* A function of account, media and SRTP session, evaluated anew
  for every event. Its lookup in `accounts_` without the mutex is a data race on
  a `std::map`, with no set of outcomes to choose from.
* *Call handling.* `TransferCall` asks the engine and changes nothing here (the
  peer's BYE is an ordinary end), DTMF and levels have no state, and a call that
  the engine makes by itself for an incoming REFER is left out.
* *Failures.* A failing `Initialize` ends in the state it started from.
  `Shutdown` succeeds, since `pjsua_destroy2` returns PJ_SUCCESS. Failures of
  `pjsua_enum_calls`, and those that return before anything modelled changes,
  are steps that change nothing. Exceptions of the method channel are modelled
  where the state of the bridge depends on them (`Bridge`); `Accounts` and
  `CallPanel` begin with calls that are answered.
* *Accounts.* STUN servers, transports, and the contents of a configuration other
  than user and port. A change of the network sends no un-REGISTER, since the
  service leaves the contact rewrite method at its default.
* *Dart.* The preferences, the unpacking of sound files, the mute of the speaker
  (it works as the microphone's does), the level poll, dialogs, form fields and
  layout.
* *Application shell.* Start-up and windows, without state of their own.
* *Libraries.* The project's own code is about 5,500 lines in 84 of the 5,934
  files. The others are PJSIP with its third-party codecs and OpenSSL headers,
  the sources once and the headers and generated runners once more for each
  platform. What the service depends on in them (the order of steps, locks and
  callbacks of pjsua-lib) is modelled where it is used; codecs, SDP, DTLS,
  resampling and DNS have no bearing on the properties here.

## 6. Plan

What would be worth adding, in this order:

1. All locks of the service in one module: `lifecycle_mutex_` and the dialog
   locks, where `AudioCues` has `audio_cue_mutex_` and PJSUA_LOCK.
2. Calls the engine makes for a REFER, and a three-line run of `CallService`
   where the state space allows it.

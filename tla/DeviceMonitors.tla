--------------------------- MODULE DeviceMonitors ---------------------------
(***************************************************************************)
(* The audio device monitors: WindowsAudioDeviceMonitor and                *)
(* HandleAudioDeviceChange in windows/runner/flutter_window.cpp,           *)
(* linux_audio_device_changed and refresh_linux_audio_devices in           *)
(* linux/runner/my_application.cc, and ScheduleSystemAudioDeviceRefresh in *)
(* macos/Runner/PjsipBridge.mm.  Each hears of a change one or more times  *)
(* and makes few refreshes of many reports, in a way of its own:           *)
(*   - Windows: a thread of the system sets a flag; the first to set it    *)
(*     posts a message, which may fail, and the window's thread clears the *)
(*     flag and refreshes;                                                 *)
(*   - Linux: each report restarts a timer of 300 ms that refreshes.  A    *)
(*     change without a new node under /dev/snd is followed by the sound   *)
(*     server itself and is not a change here;                             *)
(*   - macOS: each report restarts a block of 300 ms, which refreshes when *)
(*     the default device is not the one it remembers, and remembers it    *)
(*     before the refresh looks at the device on its own.                  *)
(***************************************************************************)
EXTENDS AudioDevices

VARIABLES
  flag,      \* Windows: notification_pending_
  posting,   \* Windows: the reporting thread is about to post the message
  messages,  \* Windows: kAudioDeviceChangedMessage in the message queue
  timer,     \* audio_device_refresh_source, g_pending_audio_device_refresh
  seen,      \* macOS: g_default_input_device, g_default_output_device
  lost       \* history: a post has failed

windows == <<flag, posting, messages, lost>>
monitorVars == <<windows, timer, seen>>
vars == <<baseVars, monitorVars>>

TypeOK ==
  /\ BaseTypeOK
  /\ flag \in BOOLEAN /\ posting \in BOOLEAN /\ messages \in Nat
  /\ timer \in BOOLEAN
  /\ seen \in Devices
  /\ lost \in BOOLEAN

Init ==
  /\ BaseInit
  /\ flag = FALSE /\ posting = FALSE /\ messages = 0
  /\ timer = FALSE
  /\ seen = device
  /\ lost = FALSE

-----------------------------------------------------------------------------
(* Windows.                                                                *)

\* notification_pending_.exchange(true).
OnDefaultDeviceChanged ==
  /\ platform = "windows"
  /\ notices > 0 /\ ~posting
  /\ notices' = notices - 1
  /\ flag' = TRUE
  /\ posting' = ~flag
  /\ UNCHANGED <<platform, device, sound, changes, messages, timer, seen, lost>>

\* PostMessage, whose result nobody looks at.
Post ==
  /\ posting
  /\ posting' = FALSE
  /\ \/ messages' = messages + 1 /\ UNCHANGED lost
     \/ lost' = TRUE /\ UNCHANGED messages
  /\ UNCHANGED <<baseVars, flag, timer, seen>>

\* Variant: the flag is not cleared.
HandleWithoutClear ==
  /\ messages > 0
  /\ messages' = messages - 1
  /\ RefreshCloses
  /\ UNCHANGED <<flag, posting, timer, seen, lost>>

\* ClearPending comes before the refresh.
HandleAudioDeviceChange ==
  /\ messages > 0
  /\ messages' = messages - 1
  /\ flag' = FALSE
  /\ RefreshCloses
  /\ UNCHANGED <<posting, timer, seen, lost>>

-----------------------------------------------------------------------------
(* Linux.                                                                  *)

linux_audio_device_changed ==
  /\ platform = "linux"
  /\ notices > 0 /\ phase = "idle"
  /\ notices' = notices - 1
  /\ timer' = TRUE
  /\ UNCHANGED <<platform, device, sound, changes, windows, seen>>

refresh_linux_audio_devices ==
  /\ platform = "linux"
  /\ timer
  /\ timer' = FALSE
  /\ RefreshCloses
  /\ UNCHANGED <<windows, seen>>

-----------------------------------------------------------------------------
(* macOS.                                                                  *)

\* Variant: the pending block is cancelled and none is created.
ScheduleOnlyCancels ==
  /\ platform = "macos"
  /\ notices > 0 /\ phase = "idle"
  /\ notices' = notices - 1
  /\ timer' = ~timer
  /\ UNCHANGED <<platform, device, sound, changes, windows, seen>>

ScheduleSystemAudioDeviceRefresh ==
  /\ platform = "macos"
  /\ notices > 0 /\ phase = "idle"
  /\ notices' = notices - 1
  /\ timer' = TRUE
  /\ UNCHANGED <<platform, device, sound, changes, windows, seen>>

PendingRefresh ==
  /\ platform = "macos"
  /\ timer /\ phase = "idle"
  /\ timer' = FALSE
  /\ seen' = device
  /\ IF device = seen THEN UNCHANGED baseVars
                       ELSE RefreshCloses
  /\ UNCHANGED windows

-----------------------------------------------------------------------------

Monitor ==
  \/ OnDefaultDeviceChanged \/ Post
  \/ linux_audio_device_changed
  \/ ScheduleSystemAudioDeviceRefresh

Refresh ==
  \/ HandleAudioDeviceChange \/ refresh_linux_audio_devices \/ PendingRefresh
  \/ RefreshLists /\ UNCHANGED monitorVars
  \/ RefreshOpens /\ UNCHANGED monitorVars

Next ==
  \/ Monitor \/ Refresh
  \/ BaseNext /\ UNCHANGED monitorVars

\* The reporting thread is scheduled, and the platform's thread serves its
\* messages, monitors, timers and blocks.
Spec == Init /\ [][Next]_vars /\ WF_vars(Monitor) /\ WF_vars(Refresh)

-----------------------------------------------------------------------------
(* Properties.                                                             *)

\* The engine has another device open than the default one, or the next call
\* would open it from an old list.
Behind ==
  \/ used \notin {device, NoDevice}
  \/ engine /\ ~noSnd /\ listed # device

\* On macOS the device of the library's list is not the one the block remembers:
\* the two looks at the default device have seen different ones.
Mixed == platform = "macos" /\ listed # seen

\* When the engine is behind the system, a report of it is on its way and will
\* start a refresh: no report is swallowed by a message or a timer whose refresh
\* has already listed the devices.  The exceptions are the code's: the looks on
\* macOS, and on Windows a failed post, after which notification_pending_ stays
\* set and every later report is dropped.
NothingMissed ==
  Behind => notices > 0 \/ posting \/ messages > 0 \/ timer \/ Mixed \/ lost

\* The changes end, and then the engine uses the default device and lists it as
\* such, or has none after a refresh that failed, with the same two exceptions.
FollowsOrMixed == <>[](~Behind \/ Mixed \/ lost)
=============================================================================

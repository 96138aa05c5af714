---------------------------- MODULE AudioDevices ----------------------------
(***************************************************************************)
(* What the audio device monitors of the three platforms share: the        *)
(* system's default device and its reports of a change, the engine, and    *)
(* RefreshSystemAudioDevices in native/pjsip_service.cpp, which closes the *)
(* sound device, has the media library list the devices anew and opens the *)
(* default one.  The platform thread runs one method call or refresh at a  *)
(* time; the system changes the device whenever it likes, between the      *)
(* steps of a refresh too.                                                 *)
(***************************************************************************)
EXTENDS Naturals

CONSTANTS
  Devices,      \* the devices that can be the system's default
  NoDevice,     \* no device is open
  Reports,      \* reports of one change, one per role of the device
  MaxChanges    \* bound on the changes of the default device

ASSUME DeviceAssumption ==
  /\ NoDevice \notin Devices
  /\ Reports \in Nat \ {0} /\ MaxChanges \in Nat

VARIABLES
  platform,     \* what the application was built for
  device,       \* the system's default device
  listed,       \* the default device of the media library's list
  used,         \* the device the engine has open
  engine,       \* initialized_
  noSnd,        \* pjsua_var.no_snd: calls do not open a sound device
  phase,        \* how far RefreshSystemAudioDevices is
  notices,      \* reports of a change that are still on their way
  changes       \* changes so far

sound == <<listed, used, engine, noSnd, phase>>
baseVars == <<platform, device, sound, notices, changes>>

BaseTypeOK ==
  /\ platform \in {"windows", "linux", "macos"}
  /\ device \in Devices /\ listed \in Devices
  /\ used \in Devices \cup {NoDevice}
  /\ engine \in BOOLEAN /\ noSnd \in BOOLEAN
  /\ phase \in {"idle", "closed", "listed"}
  /\ notices \in Nat /\ changes \in 0..MaxChanges

BaseInit ==
  /\ platform \in {"windows", "linux", "macos"}
  /\ device \in Devices /\ listed = device
  /\ used = NoDevice
  /\ engine = FALSE /\ noSnd = FALSE /\ phase = "idle"
  /\ notices = 0 /\ changes = 0

SystemChange ==
  /\ changes < MaxChanges
  /\ device' \in Devices \ {device}
  /\ notices' = notices + Reports
  /\ changes' = changes + 1
  /\ UNCHANGED <<platform, sound>>

\* Initialize and Shutdown; a new engine lists the devices, and opens one when a
\* call needs it.
ToggleEngine ==
  /\ phase = "idle"
  /\ engine' = ~engine
  /\ listed' = IF engine THEN listed ELSE device
  /\ used' = NoDevice /\ noSnd' = FALSE
  /\ UNCHANGED <<platform, device, phase, notices, changes>>

\* What opening the default device opens: CoreAudio the one of the list, ALSA and
\* the Windows drivers a name that stands for the default of the moment.
Opened == IF platform = "macos" THEN {listed} ELSE {listed, device}

\* pjsua_call_make_call and pjsua_conf_connect open the default device when none
\* is open; when that fails nothing changes.
CallOpens ==
  /\ engine /\ used = NoDevice /\ ~noSnd
  /\ used' \in Opened
  /\ UNCHANGED <<platform, device, listed, engine, noSnd, phase, notices, changes>>

\* close_snd_timer_cb, a second after the last call.
IdleCloses ==
  /\ used # NoDevice
  /\ used' = NoDevice
  /\ UNCHANGED <<platform, device, listed, engine, noSnd, phase, notices, changes>>

\* pjsua_set_no_snd_dev; a stopped engine has nothing to close.
RefreshCloses ==
  /\ phase = "idle"
  /\ IF engine THEN phase' = "closed" /\ noSnd' = TRUE /\ used' = NoDevice
               ELSE UNCHANGED <<phase, noSnd, used>>
  /\ UNCHANGED <<platform, device, listed, engine, notices, changes>>

\* pjmedia_aud_dev_refresh.  It reports no failure: a driver that fails is left
\* without devices, and RefreshOpens fails.
RefreshLists ==
  /\ phase = "closed" /\ phase' = "listed"
  /\ listed' = device
  /\ UNCHANGED <<platform, device, used, engine, noSnd, notices, changes>>

\* pjsua_set_snd_dev: when it fails, the early return leaves no_snd as
\* pjsua_set_no_snd_dev has set it.
RefreshOpens ==
  /\ phase = "listed" /\ phase' = "idle"
  /\ \/ used' \in Opened /\ noSnd' = FALSE
     \/ UNCHANGED <<used, noSnd>>
  /\ UNCHANGED <<platform, device, listed, engine, notices, changes>>

BaseNext == SystemChange \/ ToggleEngine \/ CallOpens \/ IdleCloses

=============================================================================

------------------------ MODULE DeviceMonitors_proofs -----------------------
(***************************************************************************)
(* Theorems about DeviceMonitors for every set of devices, every number of *)
(* changes and of reports, and each platform: type correctness, and that   *)
(* no change is missed but for a failed post and the two looks of macOS.   *)
(***************************************************************************)
EXTENDS DeviceMonitors, TLAPS

\* A report is on its way, as a notice, a message or a timer.
OnTheWay == notices > 0 \/ posting \/ messages > 0 \/ timer

\* What the code cannot follow.
Excused == Mixed \/ lost

\* On Windows the flag is set only while a message is on its way or a post has
\* failed; the other platforms have neither.
FlagOwned ==
  /\ flag => posting \/ messages > 0 \/ lost
  /\ platform # "windows" => ~posting /\ messages = 0

\* Only a running engine has a device open, on macOS the one of its list, and none
\* is open in the middle of a refresh.
Open ==
  /\ used # NoDevice => engine /\ ~noSnd
  /\ platform = "macos" => used \in {listed, NoDevice}
  /\ phase # "idle" => engine /\ noSnd

\* A change after a refresh has listed the devices has a report of its own.
ListedAnew == phase = "listed" /\ listed # device => OnTheWay \/ Excused

IInv == TypeOK /\ FlagOwned /\ Open /\ ListedAnew /\ NothingMissed

\* The start of a monitor.
LEMMA InitIInv == Init => IInv
<1> SUFFICES ASSUME Init PROVE IInv
  OBVIOUS
<1> USE DEF Init, BaseInit
<1>1. notices \in Nat /\ messages \in Nat /\ changes \in 0..MaxChanges
  BY DeviceAssumption
<1>2. TypeOK
  BY <1>1 DEF TypeOK, BaseTypeOK
<1>3. FlagOwned /\ Open /\ ListedAnew
  BY DEF FlagOwned, Open, ListedAnew
<1>4. NothingMissed
  BY DEF NothingMissed, Behind
<1> QED
  BY <1>2, <1>3, <1>4 DEF IInv

\* What is opened is the device of the list or the default of the moment.
LEMMA OpenedDevices ==
  ASSUME TypeOK
  PROVE  /\ Opened \subseteq {listed, device}
         /\ Opened \subseteq Devices
         /\ platform = "macos" => Opened = {listed}
BY DEF Opened, TypeOK, BaseTypeOK

\* What the system, the engine and its calls do on their own: a new default device
\* brings its notices, and a call opens what the list or the system has.
LEMMA BaseStep ==
  ASSUME IInv, BaseNext, UNCHANGED monitorVars
  PROVE  IInv'
<1> USE DEF IInv, monitorVars, windows, sound
<1>1. CASE SystemChange
  <2>1. notices' \in Nat /\ notices' > 0
    BY <1>1, DeviceAssumption DEF SystemChange, TypeOK, BaseTypeOK
  <2>2. changes' \in 0..MaxChanges
    BY <1>1, DeviceAssumption DEF SystemChange, TypeOK, BaseTypeOK
  <2>3. TypeOK'
    BY <1>1, <2>1, <2>2 DEF SystemChange, TypeOK, BaseTypeOK
  <2>4. FlagOwned' /\ Open'
    BY <1>1 DEF SystemChange, FlagOwned, Open
  <2>5. ListedAnew' /\ NothingMissed'
    BY <2>1 DEF ListedAnew, OnTheWay, NothingMissed
  <2> QED
    BY <2>3, <2>4, <2>5
<1>2. CASE ToggleEngine
  <2>1. TypeOK'
    BY <1>2 DEF ToggleEngine, TypeOK, BaseTypeOK
  <2>2. FlagOwned' /\ Open' /\ ListedAnew'
    BY <1>2 DEF ToggleEngine, FlagOwned, Open, ListedAnew
  <2>3. ~Behind'
    BY <1>2 DEF ToggleEngine, Behind, TypeOK, BaseTypeOK
  <2> QED
    BY <2>1, <2>2, <2>3 DEF NothingMissed
<1>3. CASE CallOpens
  <2>1. /\ used' \in {listed, device} /\ used' \in Devices
        /\ platform = "macos" => used' = listed
    BY <1>3, OpenedDevices DEF CallOpens
  <2>2. TypeOK'
    BY <1>3, <2>1 DEF CallOpens, TypeOK, BaseTypeOK
  <2>3. FlagOwned' /\ Open' /\ ListedAnew'
    BY <1>3, <2>1 DEF CallOpens, FlagOwned, Open, ListedAnew, OnTheWay, Excused, Mixed
  <2>4. Behind' => Behind
    BY <1>3, <2>1 DEF CallOpens, Behind
  <2>5. NothingMissed'
    BY <1>3, <2>4 DEF CallOpens, NothingMissed, Mixed
  <2> QED
    BY <2>2, <2>3, <2>5
<1>4. CASE IdleCloses
  <2>1. TypeOK'
    BY <1>4 DEF IdleCloses, TypeOK, BaseTypeOK
  <2>2. FlagOwned' /\ Open' /\ ListedAnew'
    BY <1>4 DEF IdleCloses, FlagOwned, Open, ListedAnew, OnTheWay, Excused, Mixed
  <2>3. NothingMissed'
    BY <1>4 DEF IdleCloses, NothingMissed, Behind, Mixed
  <2> QED
    BY <2>1, <2>2, <2>3
<1> QED
  BY <1>1, <1>2, <1>3, <1>4 DEF BaseNext

\* A report leads to a refresh that is on its way: on Windows by a message that is
\* posted now or was posted already, unless that post fails or failed, on the
\* others by the timer.
LEMMA MonitorStep ==
  ASSUME IInv, Monitor
  PROVE  IInv'
<1> USE DEF IInv, windows, sound
<1>1. CASE OnDefaultDeviceChanged
  <2> USE <1>1 DEF OnDefaultDeviceChanged
  <2>1. notices' \in Nat
    BY DEF TypeOK, BaseTypeOK
  <2>2. TypeOK'
    BY <2>1 DEF TypeOK, BaseTypeOK
  <2>3. FlagOwned' /\ Open'
    BY DEF FlagOwned, Open
  <2>4. posting' \/ messages' > 0 \/ lost'
    BY DEF FlagOwned
  <2>5. ListedAnew' /\ NothingMissed'
    BY <2>4 DEF ListedAnew, OnTheWay, Excused, NothingMissed
  <2> QED
    BY <2>2, <2>3, <2>5
<1>2. CASE Post
  <2> USE <1>2 DEF Post, baseVars
  <2>1. messages' \in Nat /\ (messages' > 0 \/ lost')
    BY DEF TypeOK
  <2>2. TypeOK'
    BY <2>1 DEF TypeOK, BaseTypeOK
  <2>3. FlagOwned' /\ Open'
    BY <2>1 DEF FlagOwned, Open
  <2>4. ListedAnew' /\ NothingMissed'
    BY <2>1 DEF ListedAnew, OnTheWay, Excused, NothingMissed
  <2> QED
    BY <2>2, <2>3, <2>4
<1>3. CASE linux_audio_device_changed \/ ScheduleSystemAudioDeviceRefresh
  <2> USE <1>3 DEF linux_audio_device_changed, ScheduleSystemAudioDeviceRefresh
  <2>1. notices' \in Nat
    BY DEF TypeOK, BaseTypeOK
  <2>2. TypeOK'
    BY <2>1 DEF TypeOK, BaseTypeOK
  <2>3. FlagOwned' /\ Open'
    BY DEF FlagOwned, Open
  <2>4. ListedAnew' /\ NothingMissed'
    BY DEF ListedAnew, OnTheWay, NothingMissed
  <2> QED
    BY <2>2, <2>3, <2>4
<1> QED
  BY <1>1, <1>2, <1>3 DEF Monitor

\* A refresh that begins leaves nothing behind: the engine is off, or its device
\* is closed.
LEMMA RefreshBegins ==
  ASSUME TypeOK, Open, RefreshCloses
  PROVE  BaseTypeOK' /\ Open' /\ ~Behind' /\ ~(phase = "listed")'
<1> USE DEF RefreshCloses, Open, TypeOK, BaseTypeOK
<1>1. CASE engine
  BY <1>1 DEF Behind
<1>2. CASE ~engine
  BY <1>2 DEF Behind
<1> QED
  BY <1>1, <1>2

\* A refresh begins, lists the devices and opens one; on macOS it may not begin,
\* when the block remembers the default device already.
LEMMA RefreshStep ==
  ASSUME IInv, Refresh
  PROVE  IInv'
<1> USE DEF IInv, windows, sound
<1>1. CASE HandleAudioDeviceChange
  <2> USE <1>1 DEF HandleAudioDeviceChange
  <2>1. messages' \in Nat
    BY DEF TypeOK
  <2>2. BaseTypeOK' /\ Open' /\ ~Behind' /\ ~(phase = "listed")'
    BY RefreshBegins
  <2>3. TypeOK'
    BY <2>1, <2>2 DEF TypeOK
  <2>4. FlagOwned'
    BY DEF FlagOwned, RefreshCloses, TypeOK
  <2> QED
    BY <2>2, <2>3, <2>4 DEF ListedAnew, NothingMissed
<1>2. CASE refresh_linux_audio_devices \/ (PendingRefresh /\ device # seen)
  <2> USE <1>2 DEF refresh_linux_audio_devices, PendingRefresh
  <2>1. BaseTypeOK' /\ Open' /\ ~Behind' /\ ~(phase = "listed")'
    BY RefreshBegins
  <2>2. TypeOK'
    BY <2>1 DEF TypeOK, BaseTypeOK
  <2>3. FlagOwned'
    BY DEF FlagOwned, RefreshCloses
  <2> QED
    BY <2>1, <2>2, <2>3 DEF ListedAnew, NothingMissed
<1>3. CASE PendingRefresh /\ device = seen
  <2> USE <1>3 DEF PendingRefresh, baseVars
  <2>1. TypeOK'
    BY DEF TypeOK, BaseTypeOK
  <2>2. FlagOwned' /\ Open' /\ ListedAnew'
    BY DEF FlagOwned, Open, ListedAnew
  <2>3. Behind => Mixed'
    BY DEF Behind, Mixed, Open
  <2>4. NothingMissed'
    BY <2>3 DEF NothingMissed, Behind
  <2> QED
    BY <2>1, <2>2, <2>4
<1>4. CASE RefreshLists /\ UNCHANGED monitorVars
  <2> USE <1>4 DEF RefreshLists, monitorVars
  <2>1. TypeOK'
    BY DEF TypeOK, BaseTypeOK
  <2>2. FlagOwned' /\ Open' /\ ListedAnew'
    BY DEF FlagOwned, Open, ListedAnew
  <2>3. ~Behind'
    BY DEF Behind, Open
  <2> QED
    BY <2>1, <2>2, <2>3 DEF NothingMissed
<1>5. CASE RefreshOpens /\ UNCHANGED monitorVars
  <2> USE <1>5 DEF RefreshOpens, monitorVars
  <2>1. \/ /\ used' \in {listed, device} /\ used' \in Devices
           /\ platform = "macos" => used' = listed
           /\ noSnd' = FALSE
        \/ UNCHANGED <<used, noSnd>>
    BY OpenedDevices
  <2>2. TypeOK'
    BY <2>1 DEF TypeOK, BaseTypeOK
  <2>3. FlagOwned' /\ Open' /\ ListedAnew'
    BY <2>1 DEF FlagOwned, Open, ListedAnew
  <2>4. Behind' => listed # device
    BY <2>1 DEF Behind, Open
  <2>5. NothingMissed'
    BY <2>4 DEF ListedAnew, OnTheWay, Excused, NothingMissed, Mixed
  <2> QED
    BY <2>2, <2>3, <2>5
<1> QED
  BY <1>1, <1>2, <1>3, <1>4, <1>5 DEF Refresh

\* Every step keeps the invariant.
LEMMA StepIInv == IInv /\ [Next]_vars => IInv'
<1> SUFFICES ASSUME IInv, [Next]_vars PROVE IInv'
  OBVIOUS
<1>1. CASE UNCHANGED vars
  BY <1>1 DEF vars, baseVars, sound, monitorVars, windows, IInv, TypeOK, BaseTypeOK,
              FlagOwned, Open, ListedAnew, OnTheWay, Excused, NothingMissed, Behind,
              Mixed
<1>2. CASE Next
  BY <1>2, BaseStep, MonitorStep, RefreshStep DEF Next
<1> QED
  BY <1>1, <1>2

\* The invariant holds in every state of a monitor.
LEMMA Invariance == Spec => []IInv
BY InitIInv, StepIInv, PTL DEF Spec

\* Every state of a monitor has its type.
THEOREM TypeCorrect == Spec => []TypeOK
<1>1. IInv => TypeOK
  BY DEF IInv
<1> QED
  BY <1>1, Invariance, PTL

\* No platform's way of making few refreshes of many reports swallows a change,
\* wherever in a refresh it falls: the flag of Windows is cleared before the
\* refresh, the timers of the others are restarted.  Only the memory of macOS may
\* stop a refresh that is due, and only a failed post may silence Windows.
THEOREM NoneMissed == Spec => []NothingMissed
<1>1. IInv => NothingMissed
  BY DEF IInv
<1> QED
  BY <1>1, Invariance, PTL
=============================================================================

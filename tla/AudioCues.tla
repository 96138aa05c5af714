------------------------------ MODULE AudioCues ------------------------------
(***************************************************************************)
(* The cue sounds of PjsipService (native/pjsip_service.cpp): ringtone,    *)
(* ringback tone and hang-up tone, each a file player of the engine.       *)
(* RefreshAudioCues first looks at every call and only then takes          *)
(* audio_cue_mutex_ and starts and stops players; the UI thread and the    *)
(* engine's worker thread both run it.  Of the calls this module keeps     *)
(* what the cues depend on, with one action for each thing that makes the  *)
(* engine report a call.                                                   *)
(***************************************************************************)
EXTENDS SipEngine, Naturals

CONSTANTS
  PlayerIds,   \* the engine's player slots
  NoPlayer     \* PJSUA_INVALID_ID

ASSUME PlayersAssumption ==
  /\ PlayerIds \subseteq Nat /\ IsFiniteSet(PlayerIds)
  /\ Cardinality(PlayerIds) >= 3
  /\ NoPlayer \notin PlayerIds

VARIABLES
  phase,       \* the engine: "off", "on", or a step of Shutdown
  cb,          \* the callback or refresh each thread is in
  mutex,       \* the holder of audio_cue_mutex_
  cues,        \* the player ids the service keeps, and the engine's players
  connected,   \* connected_call_ids_
  played,      \* hangup_played_call_ids_
  talked,      \* history: calls that were confirmed
  disorder     \* history: the last refresh to be applied was overtaken

vars == <<call, phase, cb, mutex, cues, connected, played, talked, disorder>>

Threads == {"ui", "worker"}
NoThread == "none"
Cues == {"ringtone", "ringback", "hangup"}

Frame ==
  [pc       : {"none", "handle", "play", "enum", "scan", "apply"},
   call     : CallIds \cup {NoCall},
   state    : InvStates,        \* info.state of CallStateCallback
   todo     : SUBSET CallIds,   \* calls the refresh has not looked at yet
   incoming : BOOLEAN,          \* has_incoming
   ringback : BOOLEAN,          \* has_outgoing_ringback
   again    : BOOLEAN,          \* IncomingCallCallback refreshes once more,
   locked   : BOOLEAN,          \* and that with PJSUA_LOCK held
   late     : BOOLEAN]          \* another refresh was applied meanwhile

\* The types, among them that a refresh looks only at calls that exist, and that
\* the engine never runs out of player slots.
TypeOK ==
  /\ EngineTypeOK
  /\ phase \in {"off", "on", "join", "hangupAll"}
  /\ cb \in [Threads -> Frame]
  /\ mutex \in Threads \cup {NoThread}
  /\ cues \in [id : [Cues -> PlayerIds \cup {NoPlayer}], live : SUBSET PlayerIds]
  /\ connected \subseteq CallIds /\ played \subseteq CallIds
  /\ talked \subseteq CallIds
  /\ disorder \in BOOLEAN

NoFrame == [pc |-> "none", call |-> NoCall, state |-> "free", todo |-> {},
            incoming |-> FALSE, ringback |-> FALSE, again |-> FALSE,
            locked |-> FALSE, late |-> FALSE]

NoCues == [id |-> [k \in Cues |-> NoPlayer], live |-> {}]

Init ==
  /\ call = NoCalls
  /\ phase = "off"
  /\ cb = [t \in Threads |-> NoFrame]
  /\ mutex = NoThread
  /\ cues = NoCues
  /\ connected = {} /\ played = {} /\ talked = {}
  /\ disorder = FALSE

-----------------------------------------------------------------------------
(* Players.                                                                *)

\* Variant: the service keeps the id of the player it has stopped.
StopKeepsId(p, k) == [p EXCEPT !.live = @ \ {p.id[k]}]

\* StopAudioCueLocked; the engine refuses an id it does not have.
Stop(p, k) ==
  [id |-> [p.id EXCEPT ![k] = NoPlayer], live |-> p.live \ {p.id[k]}]

\* StartAudioCueLocked: the engine gives the first free slot; the file may be
\* missing, and a cue that has a player keeps it.
Start(p, k) ==
  IF p.id[k] # NoPlayer THEN {p}
  ELSE LET first == CHOOSE n \in PlayerIds \ p.live :
                      \A m \in PlayerIds \ p.live : n <= m
       IN {p, [id |-> [p.id EXCEPT ![k] = first], live |-> p.live \cup {first}]}

\* Variant: the ringtone is stopped only by the ringback tone.
KeepRingtone(incoming, ringback) ==
  IF incoming
  THEN Start(Stop(Stop(cues, "ringback"), "hangup"), "ringtone")
  ELSE IF ringback
  THEN Start(Stop(Stop(cues, "ringtone"), "hangup"), "ringback")
  ELSE {Stop(cues, "ringback")}

\* Variant: the ringtone plays over a hang-up tone.
KeepHangup(incoming, ringback) ==
  IF incoming
  THEN Start(Stop(cues, "ringback"), "ringtone")
  ELSE LET silent == Stop(cues, "ringtone")
       IN IF ringback THEN Start(Stop(silent, "hangup"), "ringback")
                      ELSE {Stop(silent, "ringback")}

\* RefreshAudioCues, once it has the mutex.
Refreshed(incoming, ringback) ==
  IF incoming
  THEN Start(Stop(Stop(cues, "ringback"), "hangup"), "ringtone")
  ELSE LET silent == Stop(cues, "ringtone")
       IN IF ringback THEN Start(Stop(silent, "hangup"), "ringback")
                      ELSE {Stop(silent, "ringback")}

-----------------------------------------------------------------------------
(* Threads and locks.                                                      *)

Running(t) == cb[t].pc # "none"
DialogFree(t, c) == \A u \in Threads \ {t} : ~Running(u) \/ cb[u].call # c
PjsuaFree(t) == \A u \in Threads \ {t} : ~cb[u].locked

\* t runs CallStateCallback of c, which finds the call in state s.
Report(t, c, s, again) ==
  cb' = [cb EXCEPT ![t] = [NoFrame EXCEPT !.pc = "handle", !.call = c,
                                          !.state = s, !.again = again]]

\* t runs a callback that only refreshes.
Refresh(t, c) ==
  cb' = [cb EXCEPT ![t] = [NoFrame EXCEPT !.pc = "enum", !.call = c]]

\* Variant: a new call in the slot does not forget the last one's tone.
HandleKeepsPlayed(t) ==
  LET c == cb[t].call
      over == cb[t].state = "disconnected"
      play == over /\ c \in connected \ played
  IN /\ cb[t].pc = "handle" /\ mutex = NoThread
     /\ connected' = CASE cb[t].state = "confirmed" -> connected \cup {c}
                       [] over -> connected \ {c}
                       [] OTHER -> connected
     /\ played' = IF play THEN played \cup {c} ELSE played
     /\ mutex' = IF play THEN t ELSE NoThread
     /\ cb' = [cb EXCEPT ![t].pc = IF play THEN "play" ELSE "enum"]
     /\ UNCHANGED <<call, phase, cues, talked, disorder>>

\* HandleCallAudioCueState up to the decision on the hang-up tone.
Handle(t) ==
  LET c == cb[t].call
      over == cb[t].state = "disconnected"
      play == over /\ c \in connected \ played
  IN /\ cb[t].pc = "handle" /\ mutex = NoThread
     /\ connected' = CASE cb[t].state = "confirmed" -> connected \cup {c}
                       [] over -> connected \ {c}
                       [] OTHER -> connected
     /\ played' = IF play THEN played \cup {c}
                  ELSE IF over \/ cb[t].state = "confirmed" THEN played
                  ELSE played \ {c}
     /\ mutex' = IF play THEN t ELSE NoThread
     /\ cb' = [cb EXCEPT ![t].pc = IF play THEN "play" ELSE "enum"]
     /\ UNCHANGED <<call, phase, cues, talked, disorder>>

\* Variant: the refresh that follows is called with the mutex still held.
PlayKeepsMutex(t) ==
  /\ cb[t].pc = "play"
  /\ cues' \in Start(Stop(cues, "hangup"), "hangup")
  /\ (cues' = cues /\ cues.id["hangup"] = NoPlayer) \/ PjsuaFree(t)
  /\ cb' = [cb EXCEPT ![t].pc = "enum"]
  /\ UNCHANGED <<call, phase, mutex, connected, played, talked, disorder>>

\* A player is destroyed or created with PJSUA_LOCK.
PlayHangup(t) ==
  /\ cb[t].pc = "play"
  /\ cues' \in Start(Stop(cues, "hangup"), "hangup")
  /\ (cues' = cues /\ cues.id["hangup"] = NoPlayer) \/ PjsuaFree(t)
  /\ mutex' = NoThread
  /\ cb' = [cb EXCEPT ![t].pc = "enum"]
  /\ UNCHANGED <<call, phase, connected, played, talked, disorder>>

Enumerate(t) ==
  /\ cb[t].pc = "enum" /\ PjsuaFree(t)
  /\ cb' = [cb EXCEPT ![t] = [@ EXCEPT !.pc = "scan", !.late = FALSE,
                                !.todo = IF phase = "off" THEN {} ELSE EnumCalls]]
  /\ UNCHANGED <<call, phase, mutex, cues, connected, played, talked, disorder>>

Waiting(c) == call[c].role = "UAS" /\ call[c].state = "incoming"
Ringing(c) == /\ call[c].role = "UAC" /\ call[c].state = "early"
              /\ call[c].media # "active"

LookAt(t, c) ==
  /\ cb[t].pc = "scan" /\ c \in cb[t].todo /\ PjsuaFree(t)
  /\ cb' = [cb EXCEPT
              ![t] = [@ EXCEPT !.todo = cb[t].todo \ {c},
                               !.incoming = cb[t].incoming \/ Waiting(c),
                               !.ringback = cb[t].ringback \/ Ringing(c)]]
  /\ UNCHANGED <<call, phase, mutex, cues, connected, played, talked, disorder>>

TakeMutex(t) ==
  /\ cb[t].pc = "scan" /\ cb[t].todo = {} /\ mutex = NoThread
  /\ mutex' = t
  /\ cb' = [cb EXCEPT ![t].pc = "apply"]
  /\ UNCHANGED <<call, phase, cues, connected, played, talked, disorder>>

\* The players are changed under the mutex; each change takes PJSUA_LOCK.  An
\* ended call that is not waiting for its BYE gives up its slot on return.
Apply(t) ==
  /\ cb[t].pc = "apply"
  /\ cues' \in Refreshed(cb[t].incoming, cb[t].ringback)
  /\ cues' = cues \/ PjsuaFree(t)
  /\ mutex' = NoThread
  /\ disorder' = cb[t].late
  /\ cb' = [u \in Threads |->
              IF u # t THEN [cb[u] EXCEPT !.late = TRUE]
              ELSE IF cb[t].again THEN [NoFrame EXCEPT !.pc = "enum",
                                                       !.call = cb[t].call,
                                                       !.locked = TRUE]
              ELSE NoFrame]
  /\ call' = IF cb[t].state = "disconnected" /\ ~call[cb[t].call].hangingUp
             THEN Release(cb[t].call) ELSE call
  /\ UNCHANGED <<phase, connected, played, talked>>

ThreadStep(t) ==
  \/ Handle(t) \/ PlayHangup(t) \/ Enumerate(t)
  \/ \E c \in CallIds : LookAt(t, c)
  \/ TakeMutex(t) \/ Apply(t)

-----------------------------------------------------------------------------
(* What makes the engine report a call.                                    *)

rest == <<phase, mutex, cues, connected, played, disorder>>

\* The worker reports until pjsua_destroy has joined it.
Ready(t) ==
  /\ phase = "on" \/ (t = "worker" /\ phase = "join")
  /\ ~Running(t)
  /\ PjsuaFree(t)

\* A new call, which is not one that was confirmed.
MakeCall(c) ==
  /\ Ready("ui") /\ call[c].state = "free"
  /\ call' = PlaceCall(c)
  /\ Report("ui", c, "calling", FALSE)
  /\ talked' = talked \ {c}
  /\ UNCHANGED rest

\* The 180 is sent inside IncomingCallCallback: it is reported, with the
\* engine's lock released, before the callback's own refresh.
IncomingCall(c) ==
  /\ Ready("worker") /\ call[c].state = "free"
  /\ call' = Arrive(c)
  /\ Report("worker", c, "early", TRUE)
  /\ talked' = talked \ {c}
  /\ UNCHANGED rest

Progress(t, c, s) ==
  /\ Ready(t) /\ DialogFree(t, c) /\ IsActive(c)
  /\ call' = [call EXCEPT ![c].state = s]
  /\ Report(t, c, s, FALSE)
  /\ talked' = IF s = "confirmed" THEN talked \cup {c} ELSE talked
  /\ UNCHANGED rest

AnswerCall(c) == call[c].state = "incoming" /\ Progress("ui", c, "connecting")
Provisional(c) == call[c].state = "calling" /\ Progress("worker", c, "early")
Accepted(c) == /\ call[c].state \in {"calling", "early"}
               /\ Progress("worker", c, "connecting")
Confirmed(c) == /\ call[c].state = "connecting"
                /\ Progress("worker", c, "confirmed")

\* CallMediaStateCallback; media that runs before the call is accepted
\* replaces the ringback tone.
MediaUp(c) ==
  /\ Ready("worker") /\ DialogFree("worker", c) /\ IsActive(c)
  /\ call[c].state \in {"early", "connecting", "confirmed"}
  /\ call[c].media = "none"
  /\ call' = MediaUpdate(c, "active", "none", FALSE)
  /\ Refresh("worker", c)
  /\ UNCHANGED <<rest, talked>>

PeerEnds(c) ==
  /\ Ready("worker") /\ DialogFree("worker", c) /\ IsActive(c)
  /\ call' = Disconnect(c)
  /\ Report("worker", c, "disconnected", FALSE)
  /\ UNCHANGED <<rest, talked>>

HangupCall(c) ==
  /\ Ready("ui") /\ DialogFree("ui", c) /\ IsActive(c)
  /\ call' = HangUp(c)
  /\ Report("ui", c, "disconnected", FALSE)
  /\ UNCHANGED <<rest, talked>>

HangupCompletes(c) ==
  /\ Ready("worker") /\ DialogFree("worker", c) /\ call[c].hangingUp
  /\ call' = Release(c)
  /\ UNCHANGED <<rest, cb, talked>>

\* ConfigureAudioCues, and the end of RefreshSystemAudioDevices.
RefreshRequest ==
  /\ Ready("ui")
  /\ Refresh("ui", NoCall)
  /\ UNCHANGED <<rest, call, talked>>

-----------------------------------------------------------------------------
(* Initialize and Shutdown.                                                *)

Initialize ==
  /\ phase = "off"
  /\ phase' = "on"
  /\ UNCHANGED <<call, cb, mutex, cues, connected, played, talked, disorder>>

\* StopAllAudioCues, before pjsua_destroy.
StopAllAudioCues ==
  /\ Ready("ui") /\ mutex = NoThread
  /\ phase' = "join"
  /\ cues' = Stop(Stop(Stop(cues, "ringtone"), "ringback"), "hangup")
  /\ connected' = {} /\ played' = {}
  /\ UNCHANGED <<call, cb, mutex, talked, disorder>>

DestroyJoin ==
  /\ phase = "join" /\ ~Running("worker")
  /\ phase' = "hangupAll"
  /\ UNCHANGED <<call, cb, mutex, cues, connected, played, talked, disorder>>

DestroyHangup(c) ==
  /\ phase = "hangupAll" /\ ~Running("ui")
  /\ IsActive(c)
  /\ call' = HangUp(c)
  /\ Report("ui", c, "disconnected", FALSE)
  /\ UNCHANGED <<rest, talked>>

\* The engine destroys the players it still has and forgets every call.
DestroyDone ==
  /\ phase = "hangupAll" /\ ~Running("ui")
  /\ \A c \in CallIds : ~IsActive(c)
  /\ phase' = "off"
  /\ call' = NoCalls
  /\ cues' = [cues EXCEPT !.live = {}]
  /\ UNCHANGED <<cb, mutex, connected, played, talked, disorder>>

Lifecycle == Initialize \/ StopAllAudioCues \/ DestroyJoin \/ DestroyDone

CallEvent(c) ==
  \/ MakeCall(c) \/ IncomingCall(c) \/ AnswerCall(c)
  \/ Provisional(c) \/ Accepted(c) \/ Confirmed(c) \/ MediaUp(c)
  \/ PeerEnds(c) \/ HangupCall(c) \/ HangupCompletes(c) \/ DestroyHangup(c)

Next ==
  \/ \E t \in Threads : ThreadStep(t)
  \/ \E c \in CallIds : CallEvent(c)
  \/ RefreshRequest \/ Lifecycle

Spec == Init /\ [][Next]_vars

-----------------------------------------------------------------------------
(* Properties.                                                             *)

Settled == phase = "on" /\ \A t \in Threads : ~Running(t)

\* When all is quiet the ringtone plays only for a call that waits to be
\* answered, and the ringback tone only for one that rings at the peer, unless
\* the refresh that decided so was overtaken by another thread's.
CueHasReason ==
  Settled /\ ~disorder =>
    /\ cues.id["ringtone"] # NoPlayer => \E c \in CallIds : Waiting(c)
    /\ cues.id["ringback"] # NoPlayer => /\ \E c \in CallIds : Ringing(c)
                                         /\ \A c \in CallIds : ~Waiting(c)

\* When all is quiet at most one cue plays.
OneCue ==
  Settled => \A j, k \in Cues :
    cues.id[j] # NoPlayer /\ cues.id[k] # NoPlayer => j = k

\* A call that was connected gets the hang-up tone once, when it ends, and no
\* other call gets it, though both sets are kept by slot numbers that the next
\* call uses again (HandleCallAudioCueState).
HangupToneStep ==
  \A t \in Threads :
    cb[t].pc = "handle" /\ cb'[t].pc # "handle" /\ phase = "on" =>
      (cb'[t].pc = "play" <=>
         cb[t].state = "disconnected" /\ cb[t].call \in talked)

HangupToneOnce == [][HangupToneStep]_vars

\* "Release locks before calling callbacks, to avoid deadlock" (the engine,
\* pjsua_call_on_state_changed): no thread waits, with audio_cue_mutex_ held,
\* for the engine's lock while the other waits for audio_cue_mutex_ with that.
NoLockCycle ==
  \A t, u \in Threads :
    ~ /\ t # u /\ mutex = t
      /\ \/ cb[t].pc = "play" /\ cues.id["hangup"] # NoPlayer
         \/ /\ cb[t].pc = "apply"
            /\ cues \notin Refreshed(cb[t].incoming, cb[t].ringback)
      /\ cb[u].locked /\ cb[u].pc = "scan" /\ cb[u].todo = {}

\* A thread whose next step waits for no lock: it needs audio_cue_mutex_ before
\* what that guards, and otherwise PJSUA_LOCK, except where no player changes.
NeedsMutex(t) == cb[t].pc = "handle" \/ (cb[t].pc = "scan" /\ cb[t].todo = {})
Unblocked(t) ==
  \/ NeedsMutex(t) /\ mutex = NoThread
  \/ Running(t) /\ ~NeedsMutex(t) /\ PjsuaFree(t)
  \/ cb[t].pc = "play" /\ cues.id["hangup"] = NoPlayer
  \/ cb[t].pc = "apply" /\ cues \in Refreshed(cb[t].incoming, cb[t].ringback)

\* The cycle of NoLockCycle is the only way for the threads to block each other:
\* with it left aside a thread that waits for a lock waits for one that goes on.
OnlyCycleBlocks ==
  NoLockCycle /\ (\E t \in Threads : Running(t)) => \E t \in Threads : Unblocked(t)

\* pjsua_player_destroy asserts that the player exists: while the engine runs
\* every player id the service keeps is one of the engine's players.
PlayersExist ==
  phase = "on" =>
    \A k \in Cues : cues.id[k] # NoPlayer => cues.id[k] \in cues.live

\* The only cue that has a player when its engine is gone is the hang-up tone,
\* though callbacks go on after StopAllAudioCues, unless the last refresh was
\* overtaken.
OnlyToneOutlives ==
  phase = "off" /\ ~disorder =>
    \A k \in Cues : cues.id[k] # NoPlayer => k = "hangup"

\* Every player id the service keeps is one of the engine's, and no other cue's.
PlayersOwned ==
  \A k \in Cues : cues.id[k] # NoPlayer =>
    /\ cues.id[k] \in cues.live
    /\ \A j \in Cues : cues.id[j] = cues.id[k] => j = k

\* Only the end of the engine takes a player that the service keeps: no cue, on
\* either thread, stops or gets the player of another one.
PlayersStep ==
  PlayersOwned => PlayersOwned' \/ (phase = "hangupAll" /\ phase' = "off")
PlayersStayOwned == [][PlayersStep]_vars

==============================================================================

----------------------------- MODULE CallService -----------------------------
(***************************************************************************)
(* Call handling of PjsipService (native/pjsip_service.cpp): the calls a   *)
(* user makes, answers, holds, resumes and hangs up on the platform (UI)   *)
(* thread, interleaved with the callbacks the engine makes on its worker   *)
(* thread.  What it must get right is which call owns the microphone and   *)
(* the speaker: active_audio_call_id_ ("focus"), the conference            *)
(* connections, and the holds of the other lines.                          *)
(*                                                                         *)
(* lifecycle_mutex_ serialises the UI operations, so the UI thread has one *)
(* program counter; callbacks never take it.  Both threads run callbacks:  *)
(* the worker for what the network brings, the UI thread for what its own  *)
(* engine call causes synchronously.  A callback runs under the dialog     *)
(* lock of its call.  Events to Dart, cue sounds and accounts are not part *)
(* of this module.                                                         *)
(***************************************************************************)
EXTENDS SipEngine

CONSTANTS
  AutoHoldSettings,   \* what SetAutoHoldOnIncoming may be called with
  Requests            \* the operations the user may ask for

ASSUME AutoHoldAssumption == AutoHoldSettings \subseteq BOOLEAN

VARIABLES
  engine,        \* created_ / initialized_: "off", "on", or inside Shutdown
  focus,         \* active_audio_call_id_
  autoHold,      \* auto_hold_on_incoming_
  ui,            \* the operation the UI thread is in
  cb,            \* the callback each thread is in
  unheld,        \* history: lines a hold was due on and did not take effect
  miswired,      \* history: lines left rewired by a request that failed, or by
                 \* a device refresh that acted on stale facts
  leftOn         \* history: lines that were heard when the focus left them

vars == <<call, engine, focus, autoHold, ui, cb, unheld, miswired, leftOn>>

Threads == {"ui", "worker"}

UiPcs == {"idle", "scan", "holdCut", "holdSend", "select", "answerSelect",
          "answerSend", "answerRestore",
          "cut", "send", "clear", "resumeSend",
          "devScan", "devCut", "devConnect", "join", "hangupAll", "reset"}

CbPcs == {"none", "disconnected", "release",
          "mediaLoad", "mediaClaim", "mediaDecide", "mediaConnect"}

Operation == [pc      : UiPcs,
              op      : {"none", "make", "answer", "hold", "resume",
                         "refresh", "shutdown"},
              call    : CallIds \cup {NoCall},  \* its argument or new call
              todo    : SUBSET CallIds,         \* lines its loop has left
              line    : CallIds \cup {NoCall},  \* line its loop is at
              prev    : CallIds \cup {NoCall},  \* previous_audio_call_id
              connect : BOOLEAN]                \* should_connect

Frame == [pc : CbPcs, call : CallIds \cup {NoCall}, connect : BOOLEAN]

\* An operation that starts at p, about c and with a loop over todo.
Begin(op, p, c, todo) ==
  [pc |-> p, op |-> op, call |-> c, todo |-> todo,
   line |-> NoCall, prev |-> NoCall, connect |-> FALSE]

Idle == Begin("none", "idle", NoCall, {})

NoFrame == [pc |-> "none", call |-> NoCall, connect |-> FALSE]

\* Every variable keeps its type; in particular the loops over the calls only
\* ever name slots of the engine, never PJSUA_INVALID_ID, whatever was
\* enumerated (HoldOtherConfirmedCalls, RefreshSystemAudioDevices).
TypeOK ==
  /\ EngineTypeOK
  /\ engine \in {"off", "on", "closing"}
  /\ focus \in CallIds \cup {NoCall}
  /\ autoHold \in BOOLEAN
  /\ ui \in Operation
  /\ cb \in [Threads -> Frame]
  /\ unheld \subseteq CallIds
  /\ miswired \subseteq CallIds
  /\ leftOn \subseteq CallIds

Init ==
  /\ call = NoCalls
  /\ engine = "off"
  /\ focus = NoCall
  /\ autoHold = TRUE
  /\ ui = Idle
  /\ cb = [t \in Threads |-> NoFrame]
  /\ unheld = {}
  /\ miswired = {}
  /\ leftOn = {}

-----------------------------------------------------------------------------
(* Shared steps.                                                           *)

history == <<unheld, miswired, leftOn>>

\* t runs the callback p for call c.
Push(t, p, c) ==
  cb' = [cb EXCEPT ![t] = [pc |-> p, call |-> c, connect |-> FALSE]]

\* The callback of t goes to p, or returns when p is "none".
Goto(t, p) ==
  cb' = [cb EXCEPT ![t] = IF p = "none" THEN NoFrame ELSE [@ EXCEPT !.pc = p]]

\* Variant: a callback of held media goes the way of active media.
PushMediaUnconditionally(t, c, m) == Push(t, "mediaLoad", c)

\* CallMediaStateCallback reads the media state first; the dialog lock keeps
\* it unchanged until the callback returns.
PushMedia(t, c, m) ==
  Push(t, IF m = "active" THEN "mediaLoad" ELSE "mediaConnect", c)

\* The dialog lock of c is not held by another thread's callback.
DialogFree(t, c) == \A u \in Threads \ {t} : cb[u].pc = "none" \/ cb[u].call # c

UiIdle == ui.pc = "idle" /\ cb["ui"].pc = "none"
UiAt(p) == ui.pc = p /\ cb["ui"].pc = "none"

\* A failed request leaves c rewired, if it is not over by now.
Miswire(c) == miswired' = miswired \cup {d \in {c} : IsActive(d)}

\* The same of a failed hold, whose line is not held either.
HoldFailed(c) ==
  /\ unheld' = unheld \cup {d \in {c} : IsActive(d)}
  /\ Miswire(c)

\* A callback is about to connect c to the sound device.
Connecting(c) ==
  \E t \in Threads :
    cb[t].pc = "mediaConnect" /\ cb[t].call = c /\ cb[t].connect

Heard(c) == call[c].connected \/ Connecting(c)

\* The focus goes to f and leaves the lines that are heard.
LeaveOn(f) == leftOn' = (leftOn \cup {c \in CallIds : Heard(c)}) \ {f}

\* c is disconnected, for good unless a callback is about to connect it.
Silenced(c) == leftOn' = leftOn \ {d \in {c} : ~Connecting(d)}

\* Forget the history of a call that is over.
Forget(c) == /\ unheld' = unheld \ {c}
             /\ miswired' = miswired \ {c}
             /\ leftOn' = leftOn \ {c}

-----------------------------------------------------------------------------
(* Callbacks, on whichever thread the engine makes them.                   *)

\* CallStateCallback of a disconnected call: the focus is cleared by
\* compare-and-exchange; after a hangup the slot stays with the engine, any
\* other disconnection frees it on return.
DisconnectedCallback(t) ==
  /\ cb[t].pc = "disconnected"
  /\ focus' = IF focus = cb[t].call THEN NoCall ELSE focus
  /\ Goto(t, IF call[cb[t].call].hangingUp THEN "none" ELSE "release")
  /\ UNCHANGED <<call, engine, autoHold, ui, history>>

ReleaseCall(t) ==
  /\ cb[t].pc = "release"
  /\ call' = Release(cb[t].call)
  /\ Goto(t, "none")
  /\ UNCHANGED <<engine, focus, autoHold, ui, history>>

\* CallMediaStateCallback with active media: selected = load().
MediaLoad(t) ==
  /\ cb[t].pc = "mediaLoad"
  /\ Goto(t, IF focus = NoCall THEN "mediaClaim" ELSE "mediaDecide")
  /\ UNCHANGED <<call, engine, focus, autoHold, ui, history>>

\* Variant: the focus is stored, whatever it has become since it was loaded.
MediaClaimStores(t) ==
  /\ cb[t].pc = "mediaClaim"
  /\ focus' = cb[t].call
  /\ Goto(t, "mediaDecide")
  /\ leftOn' = leftOn \ {focus'}
  /\ UNCHANGED <<call, engine, autoHold, ui, unheld, miswired>>

\* Variant: a line is connected only if its own exchange has succeeded.
MediaClaimDecides(t) ==
  /\ cb[t].pc = "mediaClaim"
  /\ focus' = IF focus = NoCall THEN cb[t].call ELSE focus
  /\ cb' = [cb EXCEPT ![t] = [@ EXCEPT !.pc = "mediaConnect",
                                      !.connect = focus = NoCall \/ ~autoHold]]
  /\ leftOn' = leftOn \ {focus'}
  /\ miswired' = miswired \ {cb[t].call}
  /\ UNCHANGED <<call, engine, autoHold, ui, unheld>>

\* compare_exchange(selected, call_id), with selected = PJSUA_INVALID_ID.
MediaClaim(t) ==
  /\ cb[t].pc = "mediaClaim"
  /\ focus' = IF focus = NoCall THEN cb[t].call ELSE focus
  /\ Goto(t, "mediaDecide")
  /\ leftOn' = leftOn \ {focus'}
  /\ UNCHANGED <<call, engine, autoHold, ui, unheld, miswired>>

\* Variant: active media is connected whether or not its call has the focus.
MediaDecideAlways(t) ==
  /\ cb[t].pc = "mediaDecide"
  /\ cb' = [cb EXCEPT ![t] = [@ EXCEPT !.pc = "mediaConnect", !.connect = TRUE]]
  /\ miswired' = miswired \ {cb[t].call}
  /\ UNCHANGED <<call, engine, focus, autoHold, ui, unheld, leftOn>>

\* The argument of ConnectCallAudio is evaluated before the connection.
MediaDecide(t) ==
  /\ cb[t].pc = "mediaDecide"
  /\ cb' = [cb EXCEPT ![t] =
              [@ EXCEPT !.pc = "mediaConnect",
                        !.connect = ~autoHold \/ focus = cb[t].call]]
  /\ miswired' = miswired \ {cb[t].call}
  /\ UNCHANGED <<call, engine, focus, autoHold, ui, unheld, leftOn>>

\* Variant: ConnectCallAudio connects whatever its argument says.
MediaConnectAlways(t) ==
  /\ cb[t].pc = "mediaConnect"
  /\ call' = SetConnected(cb[t].call, TRUE)
  /\ Goto(t, "none")
  /\ miswired' = IF call[cb[t].call].media = "active"
                 THEN miswired ELSE miswired \ {cb[t].call}
  /\ leftOn' = IF cb[t].connect THEN leftOn ELSE leftOn \ {cb[t].call}
  /\ UNCHANGED <<engine, focus, autoHold, ui, unheld>>

MediaConnect(t) ==
  /\ cb[t].pc = "mediaConnect"
  /\ call' = SetConnected(cb[t].call, cb[t].connect)
  /\ Goto(t, "none")
  /\ miswired' = IF call[cb[t].call].media = "active"
                 THEN miswired ELSE miswired \ {cb[t].call}
  /\ leftOn' = IF cb[t].connect THEN leftOn ELSE leftOn \ {cb[t].call}
  /\ UNCHANGED <<engine, focus, autoHold, ui, unheld>>

CallbackStep(t) ==
  \/ DisconnectedCallback(t)
  \/ ReleaseCall(t)
  \/ MediaLoad(t)
  \/ MediaClaim(t)
  \/ MediaDecide(t)
  \/ MediaConnect(t)

-----------------------------------------------------------------------------
(* HoldOtherConfirmedCalls: one line at a time, then back to the operation *)
(* that asked for it.                                                      *)

\* Variant: a line is taken for held by its flag, not by its media.
ToHoldByFlag(d) == call[d].state = "confirmed" /\ ~call[d].localHold

\* The loop is about confirmed lines whose media is not on local hold already.
ToHold(d) == call[d].state = "confirmed" /\ call[d].media # "localHold"

\* The audio of such a line is cut first.
ScanHold(d) ==
  /\ UiAt("scan") /\ d \in ui.todo /\ ToHold(d)
  /\ ui' = [ui EXCEPT !.pc = "holdCut", !.line = d, !.todo = @ \ {d}]
  /\ UNCHANGED <<call, engine, focus, autoHold, cb, history>>

ScanSkip(d) ==
  /\ UiAt("scan") /\ d \in ui.todo /\ ~ToHold(d)
  /\ ui' = [ui EXCEPT !.todo = @ \ {d}]
  /\ unheld' = IF IsActive(d) /\ ~call[d].localHold
               THEN unheld \cup {d} ELSE unheld
  /\ UNCHANGED <<call, engine, focus, autoHold, cb, miswired, leftOn>>

HoldCut ==
  /\ UiAt("holdCut")
  /\ call' = SetConnected(ui.line, FALSE)
  /\ ui' = [ui EXCEPT !.pc = "holdSend"]
  /\ Silenced(ui.line)
  /\ UNCHANGED <<engine, focus, autoHold, cb, unheld, miswired>>

\* pjsua_call_set_hold; a failure is only logged.
HoldSend ==
  /\ UiAt("holdSend")
  /\ ui' = [ui EXCEPT !.pc = "scan", !.line = NoCall]
  /\ \/ /\ CanReinvite(ui.line) /\ DialogFree("ui", ui.line)
        /\ call' = SendHold(ui.line)
        /\ UNCHANGED history
     \/ HoldFailed(ui.line) /\ UNCHANGED <<call, leftOn>>
  /\ UNCHANGED <<engine, focus, autoHold, cb>>

\* Variant: the loop is left before every line is dealt with.
ScanDoneEarly(op) == UiAt("scan") /\ ui.op = op

\* Every line is dealt with, and the operation goes on.
ScanDone(op) == UiAt("scan") /\ ui.todo = {} /\ ui.op = op

HoldOthersStep ==
  \/ \E d \in CallIds : ScanHold(d) \/ ScanSkip(d)
  \/ HoldCut \/ HoldSend

-----------------------------------------------------------------------------
(* MakeCall.  The account and destination checks that return early change  *)
(* nothing.                                                                *)

MakeCall ==
  /\ UiIdle /\ engine = "on"
  /\ EnumCalls # CallIds                    \* pjsua_call_get_count() < 4
  /\ ui' = Begin("make", "scan", NoCall, EnumCalls)
  /\ UNCHANGED <<call, engine, focus, autoHold, cb, history>>

\* pjsua_call_make_call; a failure leaves the other lines as they are now.
MakeCallInvite ==
  /\ ScanDone("make")
  /\ \/ \E c \in CallIds \ EnumCalls :
          /\ call' = PlaceCall(c)
          /\ ui' = [ui EXCEPT !.pc = "select", !.call = c]
     \/ ui' = Idle /\ UNCHANGED call
  /\ UNCHANGED <<engine, focus, autoHold, cb, history>>

\* The new call gets the focus only now, after the engine could already have
\* reported its media or its end.
MakeCallSelect ==
  /\ UiAt("select")
  /\ focus' = ui.call
  /\ unheld' = unheld \ {ui.call}
  /\ LeaveOn(ui.call)
  /\ ui' = Idle
  /\ UNCHANGED <<call, engine, autoHold, cb, miswired>>

-----------------------------------------------------------------------------
(* AnswerCall and RejectCall.                                              *)

\* Variant: the other lines are left as they are.
AnswerCallOnly(c) ==
  /\ UiIdle /\ engine = "on"
  /\ IsActive(c)
  /\ ui' = Begin("answer", "scan", c, {})
  /\ UNCHANGED <<call, engine, focus, autoHold, cb, history>>

AnswerCall(c) ==
  /\ UiIdle /\ engine = "on"
  /\ IsActive(c)
  /\ ui' = Begin("answer", "scan", c,
                 IF autoHold THEN EnumCalls \ {c} ELSE {})
  /\ UNCHANGED <<call, engine, focus, autoHold, cb, history>>

AnswerLoad ==
  /\ ScanDone("answer")
  /\ ui' = [ui EXCEPT !.pc = "answerSelect", !.prev = focus]
  /\ UNCHANGED <<call, engine, focus, autoHold, cb, history>>

AnswerSelect ==
  /\ UiAt("answerSelect")
  /\ focus' = ui.call
  /\ unheld' = unheld \ {ui.call}
  /\ LeaveOn(ui.call)
  /\ ui' = [ui EXCEPT !.pc = "answerSend"]
  /\ UNCHANGED <<call, engine, autoHold, cb, miswired>>

\* pjsua_call_answer(200): the answer is sent; media comes up at once, with
\* its callback on this thread, or later on the worker.
AnswerSend ==
  /\ UiAt("answerSend")
  /\ CanAnswer(ui.call) /\ DialogFree("ui", ui.call)
  /\ ui' = Idle
  /\ \/ \E m \in Negotiated(ui.call) :
          /\ call' = [MediaUpdate(ui.call, m, "none", FALSE)
                        EXCEPT ![ui.call].state = "connecting"]
          /\ PushMedia("ui", ui.call, m)
     \/ call' = [call EXCEPT ![ui.call].state = "connecting"] /\ UNCHANGED cb
  /\ UNCHANGED <<engine, focus, autoHold, history>>

AnswerFails ==
  /\ UiAt("answerSend")
  /\ ui' = [ui EXCEPT !.pc = "answerRestore"]
  /\ UNCHANGED <<call, engine, focus, autoHold, cb, history>>

\* The line that loses the focus again is not put on hold; the one that has
\* it back may have been treated as a background line in between.
AnswerRestore ==
  /\ UiAt("answerRestore")
  /\ focus' = ui.prev
  /\ unheld' = unheld \cup {c \in {ui.call} : IsActive(c)}
  /\ miswired' = miswired \cup {c \in {ui.prev} \ {NoCall} : IsActive(c)}
  /\ LeaveOn(ui.prev)
  /\ ui' = Idle
  /\ UNCHANGED <<call, engine, autoHold, cb>>

\* pjsua_call_answer(486) ends the call, with its callback on this thread; a
\* failure changes nothing.
RejectCall(c) ==
  /\ UiIdle /\ engine = "on"
  /\ CanAnswer(c) /\ DialogFree("ui", c)
  /\ call' = Disconnect(c)
  /\ Push("ui", "disconnected", c)
  /\ Forget(c)
  /\ UNCHANGED <<engine, focus, autoHold, ui>>

-----------------------------------------------------------------------------
(* HangupCall, HoldCall and ResumeCall.                                    *)

\* pjsua_call_hangup reports DISCONNECTED on this thread before it returns.
HangupCall(c) ==
  /\ UiIdle /\ engine = "on"
  /\ IsActive(c) /\ DialogFree("ui", c)
  /\ call' = HangUp(c)
  /\ Push("ui", "disconnected", c)
  /\ Forget(c)
  /\ UNCHANGED <<engine, focus, autoHold, ui>>

HangupInactiveCall(c) ==
  /\ UiIdle /\ engine = "on"
  /\ ~IsActive(c) /\ focus = c
  /\ focus' = NoCall
  /\ UNCHANGED <<call, engine, autoHold, ui, cb, history>>

HoldCall(c) ==
  /\ UiIdle /\ engine = "on"
  /\ IsActive(c)
  /\ ui' = Begin("hold", "cut", c, {})
  /\ UNCHANGED <<call, engine, focus, autoHold, cb, history>>

HoldCallCut ==
  /\ UiAt("cut")
  /\ call' = SetConnected(ui.call, FALSE)
  /\ ui' = [ui EXCEPT !.pc = "send"]
  /\ Silenced(ui.call)
  /\ UNCHANGED <<engine, focus, autoHold, cb, unheld, miswired>>

HoldCallSend ==
  /\ UiAt("send")
  /\ \/ /\ CanReinvite(ui.call) /\ DialogFree("ui", ui.call)
        /\ call' = SendHold(ui.call)
        /\ ui' = [ui EXCEPT !.pc = "clear"]
        /\ UNCHANGED history
     \/ ui' = Idle /\ HoldFailed(ui.call) /\ UNCHANGED <<call, leftOn>>
  /\ UNCHANGED <<engine, focus, autoHold, cb>>

HoldCallClear ==
  /\ UiAt("clear")
  /\ focus' = IF focus = ui.call THEN NoCall ELSE focus
  /\ LeaveOn(focus')
  /\ ui' = Idle
  /\ UNCHANGED <<call, engine, autoHold, cb, unheld, miswired>>

ResumeCall(c) ==
  /\ UiIdle /\ engine = "on"
  /\ IsActive(c)
  /\ ui' = Begin("resume", "scan", c, EnumCalls \ {c})
  /\ UNCHANGED <<call, engine, focus, autoHold, cb, history>>

ResumeSelect ==
  /\ ScanDone("resume")
  /\ focus' = ui.call
  /\ unheld' = unheld \ {ui.call}
  /\ LeaveOn(ui.call)
  /\ ui' = [ui EXCEPT !.pc = "resumeSend"]
  /\ UNCHANGED <<call, engine, autoHold, cb, miswired>>

\* A failed re-INVITE gives neither the focus nor the other lines back.
ResumeSend ==
  /\ UiAt("resumeSend")
  /\ \/ /\ CanReinvite(ui.call) /\ DialogFree("ui", ui.call)
        /\ call' = SendUnhold(ui.call)
        /\ UNCHANGED history
     \/ Miswire(ui.call) /\ UNCHANGED <<call, unheld, leftOn>>
  /\ ui' = Idle
  /\ UNCHANGED <<engine, focus, autoHold, cb>>

-----------------------------------------------------------------------------
(* SetAutoHoldOnIncoming and RefreshSystemAudioDevices.                    *)

SetAutoHoldOnIncoming(b) ==
  /\ UiIdle
  /\ autoHold' = b
  /\ UNCHANGED <<call, engine, focus, ui, cb, history>>

\* The device is closed and reopened; a failure returns before the loop.
RefreshSystemAudioDevices ==
  /\ UiIdle /\ engine = "on"
  /\ ui' = Begin("refresh", "devScan", NoCall, EnumCalls)
  /\ UNCHANGED <<call, engine, focus, autoHold, cb, history>>

\* pjsua_call_get_info, then should_connect; inactive media is skipped.
RefreshScan(d) ==
  /\ UiAt("devScan") /\ d \in ui.todo
  /\ ui' = IF call[d].media = "active"
           THEN [ui EXCEPT !.pc = "devCut", !.line = d, !.todo = @ \ {d},
                           !.connect = ~autoHold \/ focus = d]
           ELSE [ui EXCEPT !.todo = @ \ {d}]
  /\ UNCHANGED <<call, engine, focus, autoHold, cb, history>>

RefreshCut ==
  /\ UiAt("devCut")
  /\ call' = SetConnected(ui.line, FALSE)
  /\ ui' = [ui EXCEPT !.pc = "devConnect"]
  /\ Silenced(ui.line)
  /\ UNCHANGED <<engine, focus, autoHold, cb, unheld, miswired>>

\* Variant: the line is left disconnected after the device is reopened.
RefreshNoConnect ==
  /\ UiAt("devConnect")
  /\ ui' = [ui EXCEPT !.pc = "devScan", !.line = NoCall, !.connect = FALSE]
  /\ UNCHANGED <<call, engine, focus, autoHold, cb, history>>

\* The line is rewired for good if its facts still hold and no callback of it
\* is about to rewire it again.
RefreshConnect ==
  /\ UiAt("devConnect")
  /\ call' = SetConnected(ui.line, ui.connect)
  /\ ui' = [ui EXCEPT !.pc = "devScan", !.line = NoCall, !.connect = FALSE]
  /\ miswired' =
       IF /\ DialogFree("ui", ui.line)
          /\ ui.connect = (call[ui.line].media = "active"
                             /\ (~autoHold \/ focus = ui.line))
       THEN miswired \ {ui.line} ELSE miswired \cup {ui.line}
  /\ leftOn' = IF ui.connect /\ autoHold /\ focus # ui.line
               THEN leftOn \cup {ui.line} ELSE leftOn
  /\ UNCHANGED <<engine, focus, autoHold, cb, unheld>>

RefreshDone ==
  /\ UiAt("devScan") /\ ui.todo = {}
  /\ ui' = Idle
  /\ UNCHANGED <<call, engine, focus, autoHold, cb, history>>

-----------------------------------------------------------------------------
(* Initialize and Shutdown.  A failing Initialize ends in the state it     *)
(* started from (Fail).                                                    *)

Initialize ==
  /\ UiIdle /\ engine = "off"
  /\ engine' = "on"
  /\ UNCHANGED <<call, focus, autoHold, ui, cb, history>>

Shutdown ==
  /\ UiIdle /\ engine = "on"
  /\ engine' = "closing"
  /\ ui' = Begin("shutdown", "join", NoCall, {})
  /\ UNCHANGED <<call, focus, autoHold, cb, history>>

\* Variant: the worker is not joined.
DestroyAtOnce ==
  /\ UiAt("join")
  /\ ui' = [ui EXCEPT !.pc = "hangupAll", !.todo = EnumCalls]
  /\ UNCHANGED <<call, engine, focus, autoHold, cb, history>>

\* pjsua_destroy first joins the worker, then hangs up every call, each with
\* its callback on this thread.
DestroyJoin ==
  /\ UiAt("join")
  /\ cb["worker"].pc = "none"
  /\ ui' = [ui EXCEPT !.pc = "hangupAll", !.todo = EnumCalls]
  /\ UNCHANGED <<call, engine, focus, autoHold, cb, history>>

DestroyHangup(c) ==
  /\ UiAt("hangupAll") /\ c \in ui.todo
  /\ IF call[c].hangingUp
     THEN UNCHANGED <<call, cb>>
     ELSE call' = HangUp(c) /\ Push("ui", "disconnected", c)
  /\ ui' = [ui EXCEPT !.todo = @ \ {c}]
  /\ Forget(c)
  /\ UNCHANGED <<engine, focus, autoHold>>

DestroyDone ==
  /\ UiAt("hangupAll") /\ ui.todo = {}
  /\ ui' = [ui EXCEPT !.pc = "reset"]
  /\ call' = NoCalls
  /\ UNCHANGED <<engine, focus, autoHold, cb, history>>

ShutdownReset ==
  /\ UiAt("reset")
  /\ engine' = "off"
  /\ focus' = NoCall
  /\ ui' = Idle
  /\ UNCHANGED <<call, autoHold, cb, history>>

-----------------------------------------------------------------------------
(* What the network brings, on the worker thread.                          *)

\* Variant: the worker goes on while the engine is being destroyed.
WorkerAlwaysReady(c) ==
  /\ engine # "off"
  /\ cb["worker"].pc = "none"
  /\ DialogFree("worker", c)

WorkerReady(c) ==
  /\ engine = "on"
  /\ cb["worker"].pc = "none"
  /\ DialogFree("worker", c)

\* IncomingCallCallback runs before the slot is visible to the UI thread; its
\* 180 and a failure of it leave the call waiting all the same.  An operation
\* under way for the slot's previous call goes on with this one.
IncomingCall(c) ==
  /\ WorkerReady(c) /\ call[c].state = "free"
  /\ call' = Arrive(c)
  /\ unheld' = unheld \cup ({c} \cap {ui.call, ui.line})
  /\ UNCHANGED <<engine, focus, autoHold, ui, cb, miswired, leftOn>>

\* 180 without, or 183 with, a session description.
Provisional(c) ==
  /\ WorkerReady(c) /\ IsActive(c)
  /\ call[c].state \in {"calling", "early"}
  /\ \/ /\ call' = [call EXCEPT ![c].state = "early"]
        /\ UNCHANGED cb
     \/ \E m \in Negotiated(c) :
          /\ call' = [MediaUpdate(c, m, "none", TRUE)
                        EXCEPT ![c].state = "early"]
          /\ PushMedia("worker", c, m)
  /\ UNCHANGED <<engine, focus, autoHold, ui, history>>

\* 200 to our INVITE.
Accepted(c) ==
  /\ WorkerReady(c) /\ IsActive(c)
  /\ call[c].state \in {"calling", "early"}
  /\ call' = [call EXCEPT ![c].state = "connecting"]
  /\ UNCHANGED <<engine, focus, autoHold, ui, cb, history>>

\* The session description of an accepted or answered call is negotiated.
MediaUp(c) ==
  /\ WorkerReady(c) /\ IsActive(c)
  /\ call[c].state = "connecting" /\ call[c].media = "none"
  /\ \E m \in Negotiated(c) :
       /\ call' = MediaUpdate(c, m, "none", FALSE)
       /\ PushMedia("worker", c, m)
  /\ UNCHANGED <<engine, focus, autoHold, ui, history>>

\* The ACK is sent or received.
Confirmed(c) ==
  /\ WorkerReady(c) /\ IsActive(c)
  /\ call[c].state = "connecting" /\ call[c].media # "none"
  /\ call' = [call EXCEPT ![c].state = "confirmed"]
  /\ UNCHANGED <<engine, focus, autoHold, ui, cb, history>>

\* The peer's re-INVITE is answered.
PeerReinvite(c) ==
  /\ WorkerReady(c) /\ CanReinvite(c)
  /\ \E m \in Negotiated(c), keep \in BOOLEAN :
       /\ call' = MediaUpdate(c, m, "none", keep)
       /\ PushMedia("worker", c, m)
  /\ UNCHANGED <<engine, focus, autoHold, ui, history>>

\* 200 to our re-INVITE: media is updated to the new direction.
ReinviteAccepted(c) ==
  /\ WorkerReady(c) /\ IsActive(c)
  /\ call[c].offer \in {"hold", "unhold"}
  /\ \E m \in Negotiated(c), keep \in BOOLEAN :
       /\ call' = MediaUpdate(c, m, "none", keep)
       /\ PushMedia("worker", c, m)
  /\ unheld' = IF call[c].localHold THEN unheld \ {c} ELSE unheld
  /\ UNCHANGED <<engine, focus, autoHold, ui, miswired, leftOn>>

\* Our re-INVITE is refused or times out: the flag reverts, media stays and
\* no callback tells the service.
ReinviteRefused(c) ==
  /\ WorkerReady(c) /\ IsActive(c)
  /\ call[c].offer \in {"hold", "unhold"}
  /\ call' = RefuseOffer(c)
  /\ IF call[c].offer = "hold"
     THEN HoldFailed(c) ELSE Miswire(c) /\ UNCHANGED unheld
  /\ UNCHANGED <<engine, focus, autoHold, ui, cb, leftOn>>

\* BYE, CANCEL, a final error or a timeout.
PeerEnds(c) ==
  /\ WorkerReady(c) /\ IsActive(c)
  /\ call' = Disconnect(c)
  /\ Push("worker", "disconnected", c)
  /\ Forget(c)
  /\ UNCHANGED <<engine, focus, autoHold, ui>>

\* The BYE or CANCEL of a hangup completes; no second callback is made.
HangupCompletes(c) ==
  /\ WorkerReady(c) /\ call[c].hangingUp
  /\ call' = Release(c)
  /\ UNCHANGED <<engine, focus, autoHold, ui, cb, history>>

-----------------------------------------------------------------------------
UserRequest ==
  \/ "make" \in Requests /\ MakeCall
  \/ \E c \in CallIds :
       \/ "answer" \in Requests /\ (AnswerCall(c) \/ RejectCall(c))
       \/ HangupCall(c) \/ HangupInactiveCall(c)
       \/ "hold" \in Requests /\ (HoldCall(c) \/ ResumeCall(c))
  \/ \E b \in AutoHoldSettings : SetAutoHoldOnIncoming(b)
  \/ "refresh" \in Requests /\ RefreshSystemAudioDevices
  \/ Initialize
  \/ "shutdown" \in Requests /\ Shutdown

UiStep ==
  \/ HoldOthersStep
  \/ MakeCallInvite \/ MakeCallSelect
  \/ AnswerLoad \/ AnswerSelect \/ AnswerSend \/ AnswerFails \/ AnswerRestore
  \/ HoldCallCut \/ HoldCallSend \/ HoldCallClear
  \/ ResumeSelect \/ ResumeSend
  \/ \E d \in CallIds : RefreshScan(d)
  \/ RefreshCut \/ RefreshConnect \/ RefreshDone
  \/ DestroyJoin \/ (\E c \in CallIds : DestroyHangup(c))
  \/ DestroyDone \/ ShutdownReset
  \/ CallbackStep("ui")

NetworkEvent ==
  \E c \in CallIds :
    \/ IncomingCall(c) \/ Provisional(c) \/ Accepted(c)
    \/ MediaUp(c) \/ Confirmed(c)
    \/ PeerReinvite(c)
    \/ ReinviteAccepted(c) \/ ReinviteRefused(c)
    \/ PeerEnds(c) \/ HangupCompletes(c)

Next == UserRequest \/ UiStep \/ CallbackStep("worker") \/ NetworkEvent

Spec == Init /\ [][Next]_vars

\* Both threads keep running, and SIP's transaction timers settle a re-INVITE
\* whatever the peer does, however often other events of the call come first.
Fairness ==
  /\ WF_vars(UiStep)
  /\ WF_vars(CallbackStep("worker"))
  /\ \A c \in CallIds : SF_vars(ReinviteAccepted(c) \/ ReinviteRefused(c))

FairSpec == Spec /\ Fairness

-----------------------------------------------------------------------------
(* Properties.                                                             *)

\* Nothing is under way: no operation, no callback, no re-INVITE of ours.
Settled ==
  /\ engine = "on"
  /\ UiIdle /\ cb["worker"].pc = "none"
  /\ \A c \in CallIds : call[c].offer = "none"

\* The focus leaves a line for another, or goes to a line, only at a statement
\* of MakeCall, AnswerCall or ResumeCall that stores the line the user chose
\* (or gives it back); otherwise a line can only take a free focus, while its
\* audio runs, and only a line that is over or that the user put on hold gives
\* it up.  Callbacks race with those statements through compare-and-exchange.
ByChoice ==
  \/ (UiAt("select") \/ UiAt("answerSelect") \/ ScanDone("resume"))
     /\ focus' = ui.call
  \/ UiAt("answerRestore") /\ focus' = ui.prev

FocusStep ==
  \/ focus' = focus
  \/ ByChoice
  \/ focus = NoCall /\ IsActive(focus') /\ call[focus'].media = "active"
  \/ focus' = NoCall /\ (~IsActive(focus) \/ (ui.op = "hold" /\ ui.call = focus))

FocusMovesOnlyByChoice == [][FocusStep]_vars

\* While auto-hold is on, a line without the focus is heard only if it was
\* heard already when it lost the focus and nothing has silenced it since:
\* whatever comes first, its media, a hold or the selection of another line, a
\* background line is never connected (should_connect in
\* CallMediaStateCallback).
OnlySelectedTalks ==
  Settled => \A c \in CallIds :
               call[c].connected /\ c # focus => c \in leftOn

\* An answered line with the focus and running audio is connected to the sound
\* device ("Select this call first so its conference port is connected to the
\* sound device", AnswerCall), unless a hold of it failed after its audio was
\* cut or a device refresh rewired it from a stale state.
SelectedIsHeard ==
  Settled => \A c \in CallIds :
    /\ focus = c /\ call[c].role = "UAS"
    /\ IsActive(c) /\ call[c].media = "active" /\ ~call[c].connected
    => c \in miswired

\* The same of every line, outgoing ones included.
EverySelectedIsHeard ==
  Settled => \A c \in CallIds :
    /\ focus = c
    /\ IsActive(c) /\ call[c].media = "active" /\ ~call[c].connected
    => c \in miswired

\* The line is disconnected, or a callback is about to disconnect it.
Silent(c) ==
  \/ ~call[c].connected
  \/ \E t \in Threads :
       cb[t].pc = "mediaConnect" /\ cb[t].call = c /\ ~cb[t].connect

\* The operation under way has still a request to make for the line.
Requesting(c) ==
  \/ /\ ui.pc \in {"send", "resumeSend", "answerSend", "answerRestore"}
     /\ ui.call = c
  \/ ui.pc \in {"holdSend", "devConnect"} /\ ui.line = c

\* A media callback of the line is still to connect it, or to decide on it.
Deciding(c) ==
  \E t \in Threads :
    /\ cb[t].call = c
    /\ \/ cb[t].pc \in {"mediaLoad", "mediaClaim", "mediaDecide"}
       \/ cb[t].pc = "mediaConnect" /\ cb[t].connect

\* The line should be heard, is not, and nobody is about to see to it.
Neglected(c) ==
  /\ focus = c /\ IsActive(c) /\ call[c].media = "active" /\ Silent(c)
  /\ ~(c \in miswired \/ call[c].offer # "none" \/ Requesting(c) \/ Deciding(c))

\* How far EverySelectedIsHeard can go wrong: only the statement of MakeCall that
\* selects its call can leave the selected line silent, because its media callback
\* came first; a callback, a hold, a resume or a device refresh cannot, whichever
\* way the call was made.
NeglectStep ==
  \A c \in CallIds :
    Neglected(c)' => Neglected(c) \/ (MakeCallSelect /\ ui.call = c)
OnlyLateSelectNeglects == [][NeglectStep]_vars

\* A line whose negotiated media is on hold, by us or by the peer, is silent.
HeldIsSilent ==
  Settled => \A c \in CallIds :
    call[c].media \in {"localHold", "remoteHold"} /\ call[c].connected
    => c \in miswired

\* While a line has the focus every other confirmed line is on local hold,
\* unless its hold did not take effect.
BackgroundIsHeld ==
  Settled => \A c, d \in CallIds :
    /\ focus = c /\ d # c
    /\ call[d].state = "confirmed" /\ ~call[d].localHold
    => d \in unheld

\* "Before an incoming call is answered, the other connected lines are put on
\* hold" (call panel): a second line is never heard.
OneTalker ==
  Settled => \A c, d \in CallIds :
               call[c].connected /\ call[d].connected => c = d

\* How far that can go wrong while auto-hold is on: a line that is heard beside
\* the selected one is one whose hold did not take effect, or one that a failed
\* request or a device refresh has left rewired.  Nothing else that lines do at
\* the same time, such as a resume that is refused while another line is
\* answered, leaves one on (HoldOtherConfirmedCalls, CallMediaStateCallback).
BackgroundIsExcused ==
  Settled => \A c \in CallIds :
    call[c].connected /\ c # focus => c \in unheld \cup miswired

\* While auto-hold stays on, a line that is heard without the focus falls
\* silent or gets the focus, if its hold does not fail.
BackgroundFallsSilent ==
  []autoHold =>
    \A c \in CallIds :
      call[c].connected /\ focus # c
        ~> ~call[c].connected \/ focus = c \/ c \in unheld

\* Every operation returns; Shutdown does not wait for the worker for ever.
OperationsReturn == ui.pc # "idle" ~> ui.pc = "idle"

\* After Shutdown nothing of the calls is left, and no callback is running
\* that could still use what is torn down.
StoppedIsClean ==
  engine = "off" => /\ focus = NoCall
                    /\ call = NoCalls
                    /\ \A t \in Threads : cb[t].pc = "none"

\* The lines that are heard, or that a callback or a device refresh is bound to
\* connect since it has decided so.
OnAir ==
  {c \in CallIds :
     \/ Heard(c)
     \/ ui.pc \in {"devCut", "devConnect"} /\ ui.line = c /\ ui.connect}

Board == INSTANCE Switchboard
           WITH Lines <- CallIds, NoLine <- NoCall,
                selected <- focus, talking <- OnAir, exclusive <- autoHold

\* Call handling keeps the promise of Switchboard: whatever comes between the
\* decision of a callback or of a device refresh and the connection it makes, a
\* line is put through because it had the focus, or with auto-hold off.
PutThroughBySelection == Board!Spec

==============================================================================

------------------------- MODULE CallService_proofs -------------------------
(***************************************************************************)
(* Theorems about CallService for every set of calls, every set of user    *)
(* requests and every use of the auto-hold switch: type correctness, what  *)
(* Shutdown leaves behind, who may move the focus, and which lines are     *)
(* heard and held.  They follow from one inductive invariant, IInv, which  *)
(* says what each program counter implies about the calls, the callbacks   *)
(* and the engine, and from four more on top of it: AudioInv, BackInv,     *)
(* HeardInv and LooseInv, each with its steps in a part of its own.        *)
(* The last part shows that call handling implements Switchboard.          *)
(***************************************************************************)
EXTENDS CallService, SipEngine_proofs

\* The operation at each statement of the UI thread, and its arguments.
UiOK ==
  /\ ui.op \in {"answer", "hold", "resume"} => ui.call \in CallIds
  /\ ui.pc \in {"answerSelect", "answerSend", "answerRestore"} => ui.op = "answer"
  /\ ui.pc \in {"cut", "send", "clear"} => ui.op = "hold"
  /\ ui.pc = "resumeSend" => ui.op = "resume"
  /\ ui.pc = "select" => ui.call \in CallIds
  /\ ui.pc \in {"holdCut", "holdSend", "devCut", "devConnect"} => ui.line \in CallIds
  /\ ui.pc \in {"devScan", "devCut", "devConnect"} => ui.op = "refresh"

\* A callback is about a call it finds in the state that caused it.
FrameOK(t) ==
  /\ cb[t].pc # "none" => cb[t].call \in CallIds
  /\ cb[t].pc \in {"disconnected", "release"} =>
       call[cb[t].call].state = "disconnected"
  /\ cb[t].pc \in {"mediaLoad", "mediaClaim", "mediaDecide"} =>
       IsActive(cb[t].call) /\ call[cb[t].call].media = "active"

CallbackOK == \A t \in Threads : FrameOK(t)

\* The dialog lock: one thread at a time runs callbacks of a call.
DialogLock ==
  \A t, u \in Threads :
    t # u /\ cb[t].pc # "none" /\ cb[u].pc # "none" => cb[t].call # cb[u].call

\* Shutdown is the only operation of a closing engine; once the worker is
\* joined it stays out.
LifecycleOK ==
  /\ engine = "closing" <=> ui.pc \in {"join", "hangupAll", "reset"}
  /\ ui.pc # "idle" => engine # "off"
  /\ ui.pc \in {"hangupAll", "reset"} => cb["worker"].pc = "none"
  /\ ui.pc = "reset" => call = NoCalls /\ cb["ui"].pc = "none"
  /\ engine = "off" => StoppedIsClean

IInv == TypeOK /\ UiOK /\ CallbackOK /\ DialogLock /\ LifecycleOK

-----------------------------------------------------------------------------
(* Lemmas about the operators of CallService.                              *)

\* An operation stays one when a field gets a value of its type.
LEMMA OperationFields ==
  ASSUME NEW o \in Operation
  PROVE  /\ \A p \in UiPcs : [o EXCEPT !.pc = p] \in Operation
         /\ \A S \in SUBSET CallIds : [o EXCEPT !.todo = S] \in Operation
         /\ \A b \in BOOLEAN : [o EXCEPT !.connect = b] \in Operation
         /\ \A c \in CallIds \cup {NoCall} :
              /\ [o EXCEPT !.call = c] \in Operation
              /\ [o EXCEPT !.line = c] \in Operation
              /\ [o EXCEPT !.prev = c] \in Operation
  BY DEF Operation

\* So it does when it goes on to another statement with a new call, line or
\* loop.
LEMMA OperationMoves ==
  ASSUME NEW o \in Operation, NEW p \in UiPcs
  PROVE  /\ \A c \in CallIds \cup {NoCall} :
              /\ [o EXCEPT !.pc = p, !.call = c] \in Operation
              /\ [o EXCEPT !.pc = p, !.line = c] \in Operation
              /\ [o EXCEPT !.pc = p, !.prev = c] \in Operation
         /\ \A S \in SUBSET CallIds :
              [o EXCEPT !.pc = p, !.todo = S] \in Operation
<1> DEFINE o1 == [o EXCEPT !.pc = p]
<1>1. o1 \in Operation
  BY OperationFields
<1>2. /\ \A c \in CallIds \cup {NoCall} :
           /\ [o1 EXCEPT !.call = c] \in Operation
           /\ [o1 EXCEPT !.line = c] \in Operation
           /\ [o1 EXCEPT !.prev = c] \in Operation
      /\ \A S \in SUBSET CallIds : [o1 EXCEPT !.todo = S] \in Operation
  <2> HIDE DEF o1
  <2> QED
    BY <1>1, OperationFields
<1> QED
  BY <1>2, Zenon

\* So it does when its loop takes up a line, and when it is done with it.
LEMMA OperationLoops ==
  ASSUME NEW o \in Operation, NEW p \in UiPcs, NEW c \in CallIds \cup {NoCall},
         NEW b \in BOOLEAN
  PROVE  /\ \A S \in SUBSET CallIds :
              /\ [o EXCEPT !.pc = p, !.line = c, !.todo = S] \in Operation
              /\ [o EXCEPT !.pc = p, !.line = c, !.todo = S, !.connect = b]
                   \in Operation
         /\ [o EXCEPT !.pc = p, !.line = c, !.connect = b] \in Operation
<1> DEFINE o1 == [o EXCEPT !.pc = p, !.line = c]
<1>1. o1 \in Operation
  BY OperationMoves
<1>2. /\ [o1 EXCEPT !.connect = b] \in Operation
      /\ \A S \in SUBSET CallIds :
           /\ [o1 EXCEPT !.todo = S] \in Operation
           /\ [[o1 EXCEPT !.todo = S] EXCEPT !.connect = b] \in Operation
  <2> HIDE DEF o1
  <2> QED
    BY <1>1, OperationFields
<1> QED
  BY <1>2, Zenon

\* Operations start well-formed.
LEMMA OperationBegins ==
  /\ Idle \in Operation
  /\ \A c \in CallIds \cup {NoCall}, S \in SUBSET CallIds :
       /\ Begin("make", "scan", c, S) \in Operation
       /\ Begin("answer", "scan", c, S) \in Operation
       /\ Begin("resume", "scan", c, S) \in Operation
       /\ Begin("hold", "cut", c, S) \in Operation
       /\ Begin("refresh", "devScan", c, S) \in Operation
       /\ Begin("shutdown", "join", c, S) \in Operation
  BY DEF Begin, Idle, Operation, UiPcs

\* A thread's frame is well-formed when a callback is pushed.
LEMMA FramePushed ==
  ASSUME cb \in [Threads -> Frame], NEW t \in Threads, NEW c \in CallIds,
         NEW p \in CbPcs, Push(t, p, c)
  PROVE  cb' \in [Threads -> Frame]
  BY DEF Push, Frame

\* It stays well-formed wherever the callback goes on or returns.
LEMMA FrameGoes ==
  ASSUME cb \in [Threads -> Frame], NEW t \in Threads, NEW p \in CbPcs,
         Goto(t, p)
  PROVE  cb' \in [Threads -> Frame]
<1>1. NoFrame \in Frame /\ cb[t] \in Frame
  BY DEF NoFrame, Frame, CbPcs
<1>2. [cb[t] EXCEPT !.pc = p] \in Frame
  BY <1>1 DEF Frame
<1> QED
  BY <1>1, <1>2, Zenon DEF Goto

\* Steps that start or advance no callback, and end or begin no call, disturb
\* no callback.
LEMMA CallbacksKept ==
  ASSUME CallbackOK, DialogLock, cb' = cb,
         \A c \in CallIds : /\ call'[c].state = call[c].state
                            /\ call'[c].hangingUp = call[c].hangingUp
                            /\ call'[c].media = call[c].media
  PROVE  CallbackOK' /\ DialogLock'
  BY DEF CallbackOK, FrameOK, DialogLock, IsActive

\* A call that takes a free slot disturbs no callback: none is about the slot.
LEMMA SlotTaken ==
  ASSUME cb \in [Threads -> Frame], CallbackOK, DialogLock, cb' = cb,
         NEW c \in CallIds, call[c].state = "free",
         \A d \in CallIds \ {c} : call'[d] = call[d]
  PROVE  CallbackOK' /\ DialogLock'
<1>1. ASSUME NEW x \in Threads PROVE FrameOK(x)'
  <2>1. FrameOK(x) /\ cb[x].pc \in CbPcs
    BY DEF CallbackOK, Frame
  <2>2. CASE cb[x].pc \in {"none", "mediaConnect"}
    BY <2>1, <2>2 DEF FrameOK
  <2>3. CASE cb[x].pc \notin {"none", "mediaConnect"}
    <3>1. cb[x].call # c /\ cb[x].call \in CallIds
      BY <2>1, <2>3 DEF FrameOK, CbPcs, IsActive
    <3> QED
      BY <2>1, <3>1 DEF FrameOK, IsActive
  <2> QED
    BY <2>2, <2>3
<1> QED
  BY <1>1 DEF CallbackOK, DialogLock

\* A media callback is pushed for a call that is in progress with that media.
LEMMA MediaPushed ==
  ASSUME cb \in [Threads -> Frame], CallbackOK, DialogLock,
         NEW t \in Threads, NEW c \in CallIds, NEW m \in MediaStates,
         cb[t].pc = "none", DialogFree(t, c), PushMedia(t, c, m),
         call'[c].state \notin {"free", "disconnected"},
         ~call'[c].hangingUp, call'[c].media = m,
         \A d \in CallIds \ {c} : call'[d] = call[d]
  PROVE  cb' \in [Threads -> Frame] /\ CallbackOK' /\ DialogLock'
<1> DEFINE p == IF m = "active" THEN "mediaLoad" ELSE "mediaConnect"
<1>0. p \in {"mediaLoad", "mediaConnect"} /\ (p = "mediaLoad" => m = "active")
  OBVIOUS
<1>1. cb' = [cb EXCEPT ![t] = [pc |-> p, call |-> c, connect |-> FALSE]]
  BY DEF PushMedia, Push
<1> HIDE DEF p
<1>2. cb' \in [Threads -> Frame]
  BY <1>0, <1>1 DEF Frame, CbPcs
<1>3. cb'[t].pc = p /\ cb'[t].call = c
  BY <1>1
<1>4. \A x \in Threads \ {t} : cb'[x] = cb[x]
  BY <1>1
<1>5. \A x \in Threads \ {t} : cb[x].pc = "none" \/ cb[x].call # c
  BY DEF DialogFree
<1>6. ASSUME NEW x \in Threads PROVE FrameOK(x)'
  <2>1. CASE x = t
    BY <1>0, <1>3, <2>1 DEF FrameOK, IsActive
  <2>2. CASE x # t
    BY <1>4, <1>5, <2>2 DEF CallbackOK, FrameOK, IsActive
  <2> QED
    BY <2>1, <2>2
<1>7. DialogLock'
  BY <1>3, <1>4, <1>5 DEF DialogLock
<1> QED
  BY <1>2, <1>6, <1>7 DEF CallbackOK

\* A request of the user, which starts an operation or is one engine call.
LEMMA UserSteps ==
  ASSUME IInv, UserRequest
  PROVE  IInv'
<1> USE CallIdsAssumption DEF Threads, history, UiIdle, UiAt
<1>0. /\ EngineTypeOK /\ ui \in Operation /\ cb \in [Threads -> Frame]
      /\ ui.todo \in SUBSET CallIds /\ NoCall \in CallIds \cup {NoCall}
      /\ focus \in CallIds \cup {NoCall}
  BY DEF IInv, TypeOK, Operation
<1>1. CASE MakeCall
  <2>2. ui' \in Operation
    BY <1>1, <1>0, OperationBegins DEF MakeCall, EnumCalls
  <2>3. TypeOK'
    BY <1>1, <2>2 DEF IInv, TypeOK, MakeCall, EngineTypeOK
  <2>4. UiOK' /\ LifecycleOK'
    BY <1>1, <2>3 DEF MakeCall, UiOK, LifecycleOK, Begin
  <2>5. CallbackOK' /\ DialogLock'
    BY <1>1, CallbacksKept DEF IInv, MakeCall
  <2> QED
    BY <2>3, <2>4, <2>5 DEF IInv
<1>2. ASSUME NEW c \in CallIds, AnswerCall(c) PROVE IInv'
  <2>2. ui' \in Operation
    BY <1>2, <1>0, OperationBegins DEF AnswerCall, EnumCalls
  <2>3. TypeOK'
    BY <1>2, <2>2 DEF IInv, TypeOK, AnswerCall, EngineTypeOK
  <2>4. UiOK' /\ LifecycleOK'
    BY <1>2, <2>3 DEF AnswerCall, UiOK, LifecycleOK, Begin
  <2>5. CallbackOK' /\ DialogLock'
    BY <1>2, CallbacksKept DEF IInv, AnswerCall
  <2> QED
    BY <2>3, <2>4, <2>5 DEF IInv
<1>3. ASSUME NEW c \in CallIds, RejectCall(c) PROVE IInv'
  <2>1. call' \in [CallIds -> Call]
    BY <1>3, <1>0, EngineCalls DEF RejectCall
  <2>3. TypeOK'
    BY <1>3, <2>1, FramePushed DEF IInv, TypeOK, RejectCall, EngineTypeOK,
       CbPcs, Forget
  <2>4. UiOK' /\ LifecycleOK'
    BY <1>3, <2>3 DEF IInv, RejectCall, UiOK, LifecycleOK
  <2>5. CallbackOK'
    <3> SUFFICES ASSUME NEW x \in Threads PROVE FrameOK(x)'
      BY DEF CallbackOK
    <3> QED
      BY <1>3, <2>3 DEF IInv, TypeOK, RejectCall, UiOK, LifecycleOK,
         CallbackOK, FrameOK, DialogLock, EngineTypeOK, Call, FreeCall,
         IsActive, Ended, Disconnect, DialogFree, Push
  <2>6. DialogLock'
    BY <1>3, <2>3 DEF IInv, TypeOK, RejectCall, DialogLock, DialogFree, Push
  <2> QED
    BY <2>3, <2>4, <2>5, <2>6 DEF IInv
<1>4. ASSUME NEW c \in CallIds, HangupCall(c) PROVE IInv'
  <2>1. call' \in [CallIds -> Call]
    BY <1>4, <1>0, EngineCalls DEF HangupCall
  <2>3. TypeOK'
    BY <1>4, <2>1, FramePushed DEF IInv, TypeOK, HangupCall, EngineTypeOK,
       CbPcs, Forget
  <2>4. UiOK' /\ LifecycleOK'
    BY <1>4, <2>3 DEF IInv, HangupCall, UiOK, LifecycleOK
  <2>5. CallbackOK'
    <3> SUFFICES ASSUME NEW x \in Threads PROVE FrameOK(x)'
      BY DEF CallbackOK
    <3> QED
      BY <1>4, <2>3 DEF IInv, TypeOK, HangupCall, UiOK, LifecycleOK,
         CallbackOK, FrameOK, DialogLock, EngineTypeOK, Call, FreeCall,
         IsActive, Ended, HangUp, DialogFree, Push
  <2>6. DialogLock'
    BY <1>4, <2>3 DEF IInv, TypeOK, HangupCall, DialogLock, DialogFree, Push
  <2> QED
    BY <2>3, <2>4, <2>5, <2>6 DEF IInv
<1>5. ASSUME NEW c \in CallIds, HangupInactiveCall(c) PROVE IInv'
  <2>3. TypeOK'
    BY <1>5 DEF IInv, TypeOK, HangupInactiveCall, EngineTypeOK
  <2>4. UiOK' /\ LifecycleOK'
    BY <1>5, <2>3 DEF IInv, HangupInactiveCall, UiOK, LifecycleOK
  <2>5. CallbackOK' /\ DialogLock'
    BY <1>5, CallbacksKept DEF IInv, HangupInactiveCall
  <2> QED
    BY <2>3, <2>4, <2>5 DEF IInv
<1>6. ASSUME NEW c \in CallIds, HoldCall(c) PROVE IInv'
  <2>2. ui' \in Operation
    BY <1>6, <1>0, OperationBegins DEF HoldCall
  <2>3. TypeOK'
    BY <1>6, <2>2 DEF IInv, TypeOK, HoldCall, EngineTypeOK
  <2>4. UiOK' /\ LifecycleOK'
    BY <1>6, <2>3 DEF HoldCall, UiOK, LifecycleOK, Begin
  <2>5. CallbackOK' /\ DialogLock'
    BY <1>6, CallbacksKept DEF IInv, HoldCall
  <2> QED
    BY <2>3, <2>4, <2>5 DEF IInv
<1>7. ASSUME NEW c \in CallIds, ResumeCall(c) PROVE IInv'
  <2>2. ui' \in Operation
    BY <1>7, <1>0, OperationBegins DEF ResumeCall, EnumCalls
  <2>3. TypeOK'
    BY <1>7, <2>2 DEF IInv, TypeOK, ResumeCall, EngineTypeOK
  <2>4. UiOK' /\ LifecycleOK'
    BY <1>7, <2>3 DEF ResumeCall, UiOK, LifecycleOK, Begin
  <2>5. CallbackOK' /\ DialogLock'
    BY <1>7, CallbacksKept DEF IInv, ResumeCall
  <2> QED
    BY <2>3, <2>4, <2>5 DEF IInv
<1>8. ASSUME NEW b \in BOOLEAN, SetAutoHoldOnIncoming(b) PROVE IInv'
  <2>3. TypeOK'
    BY <1>8 DEF IInv, TypeOK, SetAutoHoldOnIncoming, EngineTypeOK
  <2>4. UiOK' /\ LifecycleOK'
    BY <1>8, <2>3 DEF IInv, SetAutoHoldOnIncoming, UiOK, LifecycleOK,
       StoppedIsClean
  <2>5. CallbackOK' /\ DialogLock'
    BY <1>8, CallbacksKept DEF IInv, SetAutoHoldOnIncoming
  <2> QED
    BY <2>3, <2>4, <2>5 DEF IInv
<1>9. CASE RefreshSystemAudioDevices
  <2>2. ui' \in Operation
    BY <1>9, <1>0, OperationBegins DEF RefreshSystemAudioDevices, EnumCalls
  <2>3. TypeOK'
    BY <1>9, <2>2 DEF IInv, TypeOK, RefreshSystemAudioDevices, EngineTypeOK
  <2>4. UiOK' /\ LifecycleOK'
    BY <1>9, <2>3 DEF RefreshSystemAudioDevices, UiOK, LifecycleOK, Begin
  <2>5. CallbackOK' /\ DialogLock'
    BY <1>9, CallbacksKept DEF IInv, RefreshSystemAudioDevices
  <2> QED
    BY <2>3, <2>4, <2>5 DEF IInv
<1>10. CASE Initialize
  <2>3. TypeOK'
    BY <1>10 DEF IInv, TypeOK, Initialize, EngineTypeOK
  <2>4. UiOK' /\ LifecycleOK'
    BY <1>10, <2>3 DEF IInv, Initialize, UiOK, LifecycleOK
  <2>5. CallbackOK' /\ DialogLock'
    BY <1>10, CallbacksKept DEF IInv, Initialize
  <2> QED
    BY <2>3, <2>4, <2>5 DEF IInv
<1>11. CASE Shutdown
  <2>2. ui' \in Operation
    BY <1>11, <1>0, OperationBegins DEF Shutdown
  <2>3. TypeOK'
    BY <1>11, <2>2 DEF IInv, TypeOK, Shutdown, EngineTypeOK
  <2>4. UiOK' /\ LifecycleOK'
    BY <1>11, <2>3 DEF Shutdown, UiOK, LifecycleOK, Begin
  <2>5. CallbackOK' /\ DialogLock'
    BY <1>11, CallbacksKept DEF IInv, Shutdown
  <2> QED
    BY <2>3, <2>4, <2>5 DEF IInv
<1> QED
  BY <1>1, <1>2, <1>3, <1>4, <1>5, <1>6, <1>7, <1>8, <1>9, <1>10, <1>11,
     AutoHoldAssumption DEF UserRequest

\* The loop of HoldOtherConfirmedCalls.
LEMMA HoldSteps ==
  ASSUME IInv, HoldOthersStep
  PROVE  IInv'
<1> USE CallIdsAssumption DEF Threads, history, UiIdle, UiAt
<1>0. /\ EngineTypeOK /\ ui \in Operation /\ cb \in [Threads -> Frame]
      /\ ui.todo \in SUBSET CallIds /\ NoCall \in CallIds \cup {NoCall}
      /\ focus \in CallIds \cup {NoCall}
  BY DEF IInv, TypeOK, Operation
<1>1. ASSUME NEW c \in CallIds, ScanHold(c) PROVE IInv'
  <2>2. ui' \in Operation
    BY <1>1, <1>0, OperationFields DEF ScanHold, UiPcs
  <2>3. TypeOK'
    BY <1>1, <2>2 DEF IInv, TypeOK, ScanHold, EngineTypeOK
  <2>4. UiOK' /\ LifecycleOK'
    BY <1>1, <2>3 DEF IInv, ScanHold, UiOK, LifecycleOK
  <2>5. CallbackOK' /\ DialogLock'
    BY <1>1, CallbacksKept DEF IInv, ScanHold
  <2> QED
    BY <2>3, <2>4, <2>5 DEF IInv
<1>2. ASSUME NEW c \in CallIds, ScanSkip(c) PROVE IInv'
  <2>2. ui' \in Operation
    BY <1>2, <1>0, OperationFields DEF ScanSkip
  <2>3. TypeOK'
    BY <1>2, <2>2 DEF IInv, TypeOK, ScanSkip, EngineTypeOK
  <2>4. UiOK' /\ LifecycleOK'
    BY <1>2, <2>3 DEF IInv, ScanSkip, UiOK, LifecycleOK
  <2>5. CallbackOK' /\ DialogLock'
    BY <1>2, CallbacksKept DEF IInv, ScanSkip
  <2> QED
    BY <2>3, <2>4, <2>5 DEF IInv
<1>3. CASE HoldCut
  <2>1. call' \in [CallIds -> Call]
    <3>1. ui.line \in CallIds
      BY <1>3 DEF IInv, HoldCut, UiOK
    <3>2. SetConnected(ui.line, FALSE) \in [CallIds -> Call]
      BY <1>0, <3>1, EngineCalls, Zenon
    <3> QED
      BY <1>3, <3>2 DEF HoldCut
  <2>2. ui' \in Operation
    BY <1>3, <1>0, OperationFields DEF HoldCut, UiPcs
  <2>3. TypeOK'
    BY <1>3, <2>1, <2>2 DEF IInv, TypeOK, HoldCut, EngineTypeOK, Silenced
  <2>4. UiOK' /\ LifecycleOK'
    BY <1>3, <2>3 DEF IInv, TypeOK, HoldCut, UiOK, LifecycleOK, Operation
  <2>5. CallbackOK'
    <3> SUFFICES ASSUME NEW x \in Threads PROVE FrameOK(x)'
      BY DEF CallbackOK
    <3> QED
      BY <1>3, <2>3 DEF IInv, TypeOK, HoldCut, UiOK, LifecycleOK, CallbackOK,
         FrameOK, IsActive, SetConnected
  <2>6. DialogLock'
    BY <1>3, <2>3 DEF HoldCut, DialogLock
  <2> QED
    BY <2>3, <2>4, <2>5, <2>6 DEF IInv
<1>4. CASE HoldSend
  <2>1. call' \in [CallIds -> Call]
    <3>1. ui.line \in CallIds
      BY <1>4 DEF IInv, HoldSend, UiOK
    <3>2. call' = SendHold(ui.line) \/ call' = call
      BY <1>4 DEF HoldSend
    <3> QED
      BY <1>0, <3>1, <3>2, EngineCalls DEF EngineTypeOK
  <2>2. ui' \in Operation
    BY <1>4, <1>0, OperationFields DEF HoldSend, UiPcs
  <2>3. TypeOK'
    BY <1>4, <2>1, <2>2 DEF IInv, TypeOK, HoldSend, EngineTypeOK, UiOK,
       HoldFailed, Miswire
  <2>4. UiOK' /\ LifecycleOK'
    BY <1>4, <2>3 DEF IInv, HoldSend, UiOK, LifecycleOK
  <2>5. CallbackOK'
    <3> SUFFICES ASSUME NEW x \in Threads PROVE FrameOK(x)'
      BY DEF CallbackOK
    <3> QED
      BY <1>4, <2>3 DEF IInv, TypeOK, HoldSend, UiOK, LifecycleOK, CallbackOK,
         FrameOK, DialogLock, EngineTypeOK, Call, IsActive, SendHold,
         DialogFree
  <2>6. DialogLock'
    BY <1>4, <2>3 DEF HoldSend, DialogLock
  <2> QED
    BY <2>3, <2>4, <2>5, <2>6 DEF IInv
<1> QED
  BY <1>1, <1>2, <1>3, <1>4 DEF HoldOthersStep

\* The statements of MakeCall and AnswerCall.
LEMMA CallSteps ==
  ASSUME IInv,
         \/ MakeCallInvite
         \/ MakeCallSelect
         \/ AnswerLoad
         \/ AnswerSelect
         \/ AnswerSend
         \/ AnswerFails
         \/ AnswerRestore
  PROVE  IInv'
<1> USE CallIdsAssumption DEF Threads, history, UiIdle, UiAt
<1>0. /\ EngineTypeOK /\ ui \in Operation /\ cb \in [Threads -> Frame]
      /\ ui.todo \in SUBSET CallIds /\ NoCall \in CallIds \cup {NoCall}
      /\ focus \in CallIds \cup {NoCall}
  BY DEF IInv, TypeOK, Operation
<1>1. CASE MakeCallInvite
  <2>1. CASE /\ ui' = Idle
             /\ UNCHANGED <<call, engine, focus, autoHold, cb, history>>
    <3>1. TypeOK'
      BY <1>0, <2>1, OperationBegins DEF IInv, TypeOK, EngineTypeOK
    <3>2. UiOK' /\ LifecycleOK'
      BY <1>1, <2>1 DEF IInv, MakeCallInvite, UiOK, LifecycleOK, Begin, Idle,
         ScanDone
    <3>3. CallbackOK' /\ DialogLock'
      BY <2>1, CallbacksKept DEF IInv
    <3> QED
      BY <3>1, <3>2, <3>3 DEF IInv
  <2>2. ASSUME NEW c \in CallIds \ EnumCalls,
               call' = PlaceCall(c),
               ui' = [ui EXCEPT !.pc = "select", !.call = c],
               UNCHANGED <<engine, focus, autoHold, cb, history>>
        PROVE  IInv'
    <3>1. call' \in [CallIds -> Call] /\ ui' \in Operation
      BY <1>0, <2>2, EngineCalls, OperationMoves DEF UiPcs
    <3>2. TypeOK'
      BY <2>2, <3>1 DEF IInv, TypeOK, EngineTypeOK
    <3>3. ui'.pc = "select" /\ ui'.call = c /\ ui'.op = ui.op
      BY <1>0, <2>2 DEF Operation
    <3>4. UiOK' /\ LifecycleOK'
      BY <1>1, <2>2, <3>3 DEF IInv, MakeCallInvite, UiOK, LifecycleOK, ScanDone
    <3>5. call[c].state = "free" /\ \A d \in CallIds \ {c} : call'[d] = call[d]
      BY <1>0, <2>2 DEF EngineTypeOK, EnumCalls, PlaceCall
    <3>6. CallbackOK' /\ DialogLock'
      BY <1>0, <2>2, <3>5, SlotTaken DEF IInv
    <3> QED
      BY <3>2, <3>4, <3>6, Zenon DEF IInv
  <2> QED
    BY <1>1, <2>1, <2>2 DEF MakeCallInvite
<1>2. CASE MakeCallSelect
  <2>2. ui' \in Operation
    BY <1>2, <1>0, OperationBegins DEF MakeCallSelect
  <2>3. TypeOK'
    BY <1>2, <2>2 DEF IInv, TypeOK, MakeCallSelect, EngineTypeOK, LeaveOn,
       Operation
  <2>4. UiOK' /\ LifecycleOK'
    BY <1>2, <2>3 DEF IInv, TypeOK, MakeCallSelect, UiOK, LifecycleOK, Begin,
       Idle
  <2>5. CallbackOK' /\ DialogLock'
    BY <1>2, CallbacksKept DEF IInv, MakeCallSelect
  <2> QED
    BY <2>3, <2>4, <2>5 DEF IInv
<1>3. CASE AnswerLoad
  <2>2. ui' \in Operation
    BY <1>3, <1>0, OperationFields DEF AnswerLoad, UiPcs
  <2>3. TypeOK'
    BY <1>3, <2>2 DEF IInv, TypeOK, AnswerLoad, EngineTypeOK
  <2>4. UiOK' /\ LifecycleOK'
    BY <1>3, <2>3 DEF IInv, TypeOK, AnswerLoad, UiOK, LifecycleOK, ScanDone
  <2>5. CallbackOK' /\ DialogLock'
    BY <1>3, CallbacksKept DEF IInv, AnswerLoad
  <2> QED
    BY <2>3, <2>4, <2>5 DEF IInv
<1>4. CASE AnswerSelect
  <2>2. ui' \in Operation
    BY <1>4, <1>0, OperationFields DEF AnswerSelect, UiPcs
  <2>3. TypeOK'
    BY <1>4, <2>2 DEF IInv, TypeOK, AnswerSelect, EngineTypeOK, LeaveOn,
       Operation
  <2>4. UiOK' /\ LifecycleOK'
    BY <1>4, <2>3 DEF IInv, AnswerSelect, UiOK, LifecycleOK
  <2>5. CallbackOK' /\ DialogLock'
    BY <1>4, CallbacksKept DEF IInv, AnswerSelect
  <2> QED
    BY <2>3, <2>4, <2>5 DEF IInv
<1>5. CASE AnswerSend
  <2>0. /\ ui.call \in CallIds /\ cb["ui"].pc = "none" /\ engine = "on"
        /\ DialogFree("ui", ui.call)
        /\ call[ui.call].state = "incoming" /\ ~call[ui.call].hangingUp
    BY <1>5 DEF IInv, TypeOK, AnswerSend, UiOK, LifecycleOK, CanAnswer,
       IsActive
  <2>1. ASSUME NEW m \in Negotiated(ui.call),
               call' = [MediaUpdate(ui.call, m, "none", FALSE)
                          EXCEPT ![ui.call].state = "connecting"],
               PushMedia("ui", ui.call, m)
        PROVE  /\ call' \in [CallIds -> Call] /\ cb' \in [Threads -> Frame]
               /\ CallbackOK' /\ DialogLock'
    <3>0. PICK keep \in BOOLEAN : keep = FALSE
      BY Zenon
    <3> DEFINE table == MediaUpdate(ui.call, m, "none", keep)
    <3>1. m \in MediaStates /\ "none" \in Offers /\ "connecting" \in InvStates
      BY <2>0, NegotiatedType DEF Offers, InvStates
    <3>2. /\ table \in [CallIds -> Call] /\ table[ui.call].media = m
          /\ table[ui.call].hangingUp = call[ui.call].hangingUp
          /\ \A d \in CallIds \ {ui.call} : table[d] = call[d]
      BY <1>0, <2>0, <3>1, MediaUpdates
    <3>3. call' = [table EXCEPT ![ui.call].state = "connecting"]
      BY <2>1, <3>0, Zenon
    <3> HIDE DEF table
    <3>4. /\ call' \in [CallIds -> Call]
          /\ call'[ui.call].state = "connecting"
          /\ call'[ui.call].media = m
          /\ call'[ui.call].hangingUp = call[ui.call].hangingUp
          /\ \A d \in CallIds \ {ui.call} : call'[d] = call[d]
      BY <2>0, <3>1, <3>2, <3>3, StateChange
    <3> QED
      BY <1>0, <2>0, <2>1, <3>1, <3>4, MediaPushed DEF IInv
  <2>2. ASSUME call' = [call EXCEPT ![ui.call].state = "connecting"],
               UNCHANGED cb
        PROVE  /\ call' \in [CallIds -> Call] /\ cb' \in [Threads -> Frame]
               /\ CallbackOK' /\ DialogLock'
    <3>1. /\ call' \in [CallIds -> Call]
          /\ call'[ui.call].state = "connecting"
          /\ call'[ui.call].media = call[ui.call].media
          /\ call'[ui.call].hangingUp = call[ui.call].hangingUp
          /\ \A d \in CallIds \ {ui.call} : call'[d] = call[d]
      BY <1>0, <2>0, <2>2, StateChange DEF EngineTypeOK, InvStates
    <3>2. CallbackOK'
      BY <2>0, <2>2, <3>1 DEF IInv, CallbackOK, FrameOK, IsActive
    <3> QED
      BY <1>0, <2>2, <3>1, <3>2 DEF IInv, DialogLock
  <2>3. /\ call' \in [CallIds -> Call] /\ cb' \in [Threads -> Frame]
        /\ CallbackOK' /\ DialogLock'
    BY <1>5, <2>1, <2>2 DEF AnswerSend
  <2>4. ui' = Idle /\ UNCHANGED <<engine, focus, autoHold, history>>
    BY <1>5 DEF AnswerSend
  <2>5. TypeOK'
    BY <2>3, <2>4, OperationBegins DEF IInv, TypeOK, EngineTypeOK
  <2>6. UiOK' /\ LifecycleOK'
    BY <2>0, <2>4 DEF UiOK, LifecycleOK, Idle, Begin
  <2> QED
    BY <2>3, <2>5, <2>6 DEF IInv
<1>6. CASE AnswerFails
  <2>2. ui' \in Operation
    BY <1>6, <1>0, OperationFields DEF AnswerFails, UiPcs
  <2>3. TypeOK'
    BY <1>6, <2>2 DEF IInv, TypeOK, AnswerFails, EngineTypeOK
  <2>4. UiOK' /\ LifecycleOK'
    BY <1>6, <2>3 DEF IInv, AnswerFails, UiOK, LifecycleOK
  <2>5. CallbackOK' /\ DialogLock'
    BY <1>6, CallbacksKept DEF IInv, AnswerFails
  <2> QED
    BY <2>3, <2>4, <2>5 DEF IInv
<1>7. CASE AnswerRestore
  <2>2. ui' \in Operation
    BY <1>7, <1>0, OperationBegins DEF AnswerRestore
  <2>3. TypeOK'
    BY <1>7, <2>2 DEF IInv, TypeOK, AnswerRestore, EngineTypeOK, UiOK, LeaveOn,
       Operation
  <2>4. UiOK' /\ LifecycleOK'
    BY <1>7, <2>3 DEF IInv, TypeOK, AnswerRestore, UiOK, LifecycleOK, Begin,
       Idle
  <2>5. CallbackOK' /\ DialogLock'
    BY <1>7, CallbacksKept DEF IInv, AnswerRestore
  <2> QED
    BY <2>3, <2>4, <2>5 DEF IInv
<1> QED
  BY <1>1, <1>2, <1>3, <1>4, <1>5, <1>6, <1>7

\* The statements of HoldCall and ResumeCall.
LEMMA LineSteps ==
  ASSUME IInv,
         \/ HoldCallCut
         \/ HoldCallSend
         \/ HoldCallClear
         \/ ResumeSelect
         \/ ResumeSend
  PROVE  IInv'
<1> USE CallIdsAssumption DEF Threads, history, UiIdle, UiAt
<1>0. /\ EngineTypeOK /\ ui \in Operation /\ cb \in [Threads -> Frame]
      /\ ui.todo \in SUBSET CallIds /\ NoCall \in CallIds \cup {NoCall}
      /\ focus \in CallIds \cup {NoCall}
  BY DEF IInv, TypeOK, Operation
<1>1. CASE HoldCallCut
  <2>1. call' \in [CallIds -> Call]
    <3>1. ui.call \in CallIds
      BY <1>1 DEF IInv, HoldCallCut, UiOK
    <3>2. SetConnected(ui.call, FALSE) \in [CallIds -> Call]
      BY <1>0, <3>1, EngineCalls, Zenon
    <3> QED
      BY <1>1, <3>2 DEF HoldCallCut
  <2>2. ui' \in Operation
    BY <1>1, <1>0, OperationFields DEF HoldCallCut, UiPcs
  <2>3. TypeOK'
    BY <1>1, <2>1, <2>2 DEF IInv, TypeOK, HoldCallCut, EngineTypeOK, Silenced
  <2>4. UiOK' /\ LifecycleOK'
    BY <1>1, <2>3 DEF IInv, TypeOK, HoldCallCut, UiOK, LifecycleOK, Operation
  <2>5. CallbackOK'
    <3> SUFFICES ASSUME NEW x \in Threads PROVE FrameOK(x)'
      BY DEF CallbackOK
    <3> QED
      BY <1>1, <2>3 DEF IInv, TypeOK, HoldCallCut, UiOK, LifecycleOK,
         CallbackOK, FrameOK, IsActive, SetConnected
  <2>6. DialogLock'
    BY <1>1, <2>3 DEF HoldCallCut, DialogLock
  <2> QED
    BY <2>3, <2>4, <2>5, <2>6 DEF IInv
<1>2. CASE HoldCallSend
  <2>1. call' \in [CallIds -> Call]
    <3>1. ui.call \in CallIds
      BY <1>2 DEF IInv, HoldCallSend, UiOK
    <3>2. call' = SendHold(ui.call) \/ call' = call
      BY <1>2 DEF HoldCallSend
    <3> QED
      BY <1>0, <3>1, <3>2, EngineCalls DEF EngineTypeOK
  <2>2. ui' \in Operation
    BY <1>2, <1>0, OperationFields, OperationBegins DEF HoldCallSend, UiPcs
  <2>3. TypeOK'
    BY <1>2, <2>1, <2>2 DEF IInv, TypeOK, HoldCallSend, EngineTypeOK, UiOK,
       HoldFailed, Miswire
  <2>4. UiOK' /\ LifecycleOK'
    BY <1>2, <2>3 DEF IInv, TypeOK, HoldCallSend, UiOK, LifecycleOK, Begin,
       Idle, Operation
  <2>5. CallbackOK'
    <3> SUFFICES ASSUME NEW x \in Threads PROVE FrameOK(x)'
      BY DEF CallbackOK
    <3> QED
      BY <1>2, <2>3 DEF IInv, TypeOK, HoldCallSend, UiOK, LifecycleOK,
         CallbackOK, FrameOK, DialogLock, EngineTypeOK, Call, IsActive,
         SendHold, DialogFree
  <2>6. DialogLock'
    BY <1>2, <2>3 DEF HoldCallSend, DialogLock
  <2> QED
    BY <2>3, <2>4, <2>5, <2>6 DEF IInv
<1>3. CASE HoldCallClear
  <2>2. ui' \in Operation
    BY <1>3, <1>0, OperationBegins DEF HoldCallClear
  <2>3. TypeOK'
    BY <1>3, <2>2 DEF IInv, TypeOK, HoldCallClear, EngineTypeOK, LeaveOn
  <2>4. UiOK' /\ LifecycleOK'
    BY <1>3, <2>3 DEF IInv, TypeOK, HoldCallClear, UiOK, LifecycleOK, Begin,
       Idle
  <2>5. CallbackOK' /\ DialogLock'
    BY <1>3, CallbacksKept DEF IInv, HoldCallClear
  <2> QED
    BY <2>3, <2>4, <2>5 DEF IInv
<1>4. CASE ResumeSelect
  <2>2. ui' \in Operation
    BY <1>4, <1>0, OperationFields DEF ResumeSelect, UiPcs
  <2>3. TypeOK'
    BY <1>4, <2>2 DEF IInv, TypeOK, ResumeSelect, EngineTypeOK, LeaveOn,
       Operation
  <2>4. UiOK' /\ LifecycleOK'
    BY <1>4, <2>3 DEF IInv, TypeOK, ResumeSelect, UiOK, LifecycleOK, ScanDone
  <2>5. CallbackOK' /\ DialogLock'
    BY <1>4, CallbacksKept DEF IInv, ResumeSelect
  <2> QED
    BY <2>3, <2>4, <2>5 DEF IInv
<1>5. CASE ResumeSend
  <2>1. call' \in [CallIds -> Call]
    <3>1. ui.call \in CallIds
      BY <1>5 DEF IInv, ResumeSend, UiOK
    <3>2. call' = SendUnhold(ui.call) \/ call' = call
      BY <1>5 DEF ResumeSend
    <3> QED
      BY <1>0, <3>1, <3>2, EngineCalls DEF EngineTypeOK
  <2>2. ui' \in Operation
    BY <1>5, <1>0, OperationBegins DEF ResumeSend
  <2>3. TypeOK'
    BY <1>5, <2>1, <2>2 DEF IInv, TypeOK, ResumeSend, EngineTypeOK, UiOK,
       Miswire
  <2>4. UiOK' /\ LifecycleOK'
    BY <1>5, <2>3 DEF IInv, TypeOK, ResumeSend, UiOK, LifecycleOK, Begin, Idle
  <2>5. CallbackOK'
    <3> SUFFICES ASSUME NEW x \in Threads PROVE FrameOK(x)'
      BY DEF CallbackOK
    <3> QED
      BY <1>5, <2>3 DEF IInv, TypeOK, ResumeSend, UiOK, LifecycleOK,
         CallbackOK, FrameOK, DialogLock, EngineTypeOK, Call, IsActive,
         SendUnhold, DialogFree
  <2>6. DialogLock'
    BY <1>5, <2>3 DEF ResumeSend, DialogLock
  <2> QED
    BY <2>3, <2>4, <2>5, <2>6 DEF IInv
<1> QED
  BY <1>1, <1>2, <1>3, <1>4, <1>5

\* The loop of RefreshSystemAudioDevices.
LEMMA RefreshSteps ==
  ASSUME IInv, (\E d \in CallIds : RefreshScan(d))
         \/ RefreshCut \/ RefreshConnect \/ RefreshDone
  PROVE  IInv'
<1> USE CallIdsAssumption DEF Threads, history, UiIdle, UiAt
<1>0. /\ EngineTypeOK /\ ui \in Operation /\ cb \in [Threads -> Frame]
      /\ ui.todo \in SUBSET CallIds /\ NoCall \in CallIds \cup {NoCall}
      /\ focus \in CallIds \cup {NoCall}
  BY DEF IInv, TypeOK, Operation
<1>1. ASSUME NEW c \in CallIds, RefreshScan(c) PROVE IInv'
  <2>2. ui' \in Operation
    BY <1>1, <1>0, OperationFields DEF RefreshScan, UiPcs
  <2>3. TypeOK'
    BY <1>1, <2>2 DEF IInv, TypeOK, RefreshScan, EngineTypeOK
  <2>1. /\ ui'.op = ui.op /\ ui'.call = ui.call
        /\ ui'.pc = "devScan" \/ (ui'.pc = "devCut" /\ ui'.line = c)
    <3>1. CASE call[c].media = "active"
      BY <1>0, <1>1, <3>1 DEF RefreshScan, Operation
    <3>2. CASE call[c].media # "active"
      BY <1>0, <1>1, <3>2 DEF RefreshScan, Operation
    <3> QED
      BY <3>1, <3>2
  <2>4. UiOK'
    BY <1>1, <2>1 DEF IInv, UiOK, RefreshScan
  <2>6. LifecycleOK'
    BY <1>1, <2>1 DEF IInv, RefreshScan, LifecycleOK, StoppedIsClean
  <2>5. CallbackOK' /\ DialogLock'
    BY <1>1, CallbacksKept DEF IInv, RefreshScan
  <2> QED
    BY <2>3, <2>4, <2>5, <2>6 DEF IInv
<1>2. CASE RefreshCut
  <2>1. call' \in [CallIds -> Call]
    <3>1. ui.line \in CallIds
      BY <1>2 DEF IInv, RefreshCut, UiOK
    <3>2. SetConnected(ui.line, FALSE) \in [CallIds -> Call]
      BY <1>0, <3>1, EngineCalls, Zenon
    <3> QED
      BY <1>2, <3>2 DEF RefreshCut
  <2>2. ui' \in Operation
    BY <1>2, <1>0, OperationFields DEF RefreshCut, UiPcs
  <2>3. TypeOK'
    BY <1>2, <2>1, <2>2 DEF IInv, TypeOK, RefreshCut, EngineTypeOK, Silenced
  <2>4. UiOK' /\ LifecycleOK'
    BY <1>2, <2>3 DEF IInv, TypeOK, RefreshCut, UiOK, LifecycleOK, Operation
  <2>5. CallbackOK'
    <3> SUFFICES ASSUME NEW x \in Threads PROVE FrameOK(x)'
      BY DEF CallbackOK
    <3> QED
      BY <1>2, <2>3 DEF IInv, TypeOK, RefreshCut, UiOK, LifecycleOK,
         CallbackOK, FrameOK, IsActive, SetConnected
  <2>6. DialogLock'
    BY <1>2, <2>3 DEF RefreshCut, DialogLock
  <2> QED
    BY <2>3, <2>4, <2>5, <2>6 DEF IInv
<1>3. CASE RefreshConnect
  <2>1. call' \in [CallIds -> Call]
    BY <1>3, <1>0, EngineCalls DEF IInv, RefreshConnect, UiOK, Operation
  <2>2. ui' \in Operation
    BY <1>3, <1>0, OperationFields DEF RefreshConnect, UiPcs
  <2>3. TypeOK'
    BY <1>3, <2>1, <2>2 DEF IInv, TypeOK, RefreshConnect, EngineTypeOK, UiOK
  <2>4. UiOK' /\ LifecycleOK'
    BY <1>3, <2>3 DEF IInv, RefreshConnect, UiOK, LifecycleOK
  <2>5. CallbackOK'
    <3> SUFFICES ASSUME NEW x \in Threads PROVE FrameOK(x)'
      BY DEF CallbackOK
    <3> QED
      BY <1>3, <2>3 DEF IInv, TypeOK, RefreshConnect, UiOK, LifecycleOK,
         CallbackOK, FrameOK, IsActive, SetConnected
  <2>6. DialogLock'
    BY <1>3, <2>3 DEF RefreshConnect, DialogLock
  <2> QED
    BY <2>3, <2>4, <2>5, <2>6 DEF IInv
<1>4. CASE RefreshDone
  <2>2. ui' \in Operation
    BY <1>4, <1>0, OperationBegins DEF RefreshDone
  <2>3. TypeOK'
    BY <1>4, <2>2 DEF IInv, TypeOK, RefreshDone, EngineTypeOK
  <2>4. UiOK' /\ LifecycleOK'
    BY <1>4, <2>3 DEF IInv, TypeOK, RefreshDone, UiOK, LifecycleOK, Begin, Idle
  <2>5. CallbackOK' /\ DialogLock'
    BY <1>4, CallbacksKept DEF IInv, RefreshDone
  <2> QED
    BY <2>3, <2>4, <2>5 DEF IInv
<1> QED
  BY <1>1, <1>2, <1>3, <1>4

\* The statements of Shutdown.
LEMMA ShutdownSteps ==
  ASSUME IInv, DestroyJoin \/ (\E c \in CallIds : DestroyHangup(c))
         \/ DestroyDone \/ ShutdownReset
  PROVE  IInv'
<1> USE CallIdsAssumption DEF Threads, history, UiIdle, UiAt
<1>0. /\ EngineTypeOK /\ ui \in Operation /\ cb \in [Threads -> Frame]
      /\ ui.todo \in SUBSET CallIds /\ NoCall \in CallIds \cup {NoCall}
      /\ focus \in CallIds \cup {NoCall}
  BY DEF IInv, TypeOK, Operation
<1>1. CASE DestroyJoin
  <2>2. ui' \in Operation
    BY <1>1, <1>0, OperationFields DEF DestroyJoin, EnumCalls, UiPcs
  <2>3. TypeOK'
    BY <1>1, <2>2 DEF IInv, TypeOK, DestroyJoin, EngineTypeOK
  <2>4. UiOK' /\ LifecycleOK'
    BY <1>1, <2>3 DEF IInv, DestroyJoin, UiOK, LifecycleOK
  <2>5. CallbackOK' /\ DialogLock'
    BY <1>1, CallbacksKept DEF IInv, DestroyJoin
  <2> QED
    BY <2>3, <2>4, <2>5 DEF IInv
<1>2. ASSUME NEW c \in CallIds, DestroyHangup(c) PROVE IInv'
  <2>0. /\ \A x \in Threads : cb[x].pc = "none"
        /\ ui.pc = "hangupAll" /\ engine = "closing"
        /\ ui' = [ui EXCEPT !.todo = @ \ {c}]
        /\ unheld' \subseteq CallIds /\ miswired' \subseteq CallIds
        /\ leftOn' \subseteq CallIds
        /\ UNCHANGED <<engine, focus, autoHold>>
    BY <1>2 DEF IInv, TypeOK, DestroyHangup, LifecycleOK, Forget
  <2>1. CASE UNCHANGED <<call, cb>>
    <3>1. TypeOK'
      BY <1>0, <2>0, <2>1, OperationFields DEF IInv, TypeOK, EngineTypeOK
    <3>2. UiOK' /\ LifecycleOK'
      BY <1>0, <2>0, <2>1 DEF IInv, UiOK, LifecycleOK, Operation
    <3>3. CallbackOK' /\ DialogLock'
      BY <2>1, CallbacksKept DEF IInv
    <3> QED
      BY <3>1, <3>2, <3>3 DEF IInv
  <2>2. CASE call' = HangUp(c) /\ Push("ui", "disconnected", c)
    <3>1. call' \in [CallIds -> Call] /\ cb' \in [Threads -> Frame]
      BY <1>0, <2>2, EngineCalls, FramePushed DEF CbPcs
    <3>2. TypeOK'
      BY <1>0, <2>0, <3>1, OperationFields DEF IInv, TypeOK, EngineTypeOK
    <3>3. /\ cb'["ui"].pc = "disconnected" /\ cb'["ui"].call = c
          /\ cb'["worker"] = cb["worker"]
          /\ call'[c].state = "disconnected"
      BY <1>0, <2>2 DEF Push, HangUp, Ended, EngineTypeOK
    <3>4. UiOK' /\ LifecycleOK'
      BY <1>0, <2>0, <3>3 DEF IInv, UiOK, LifecycleOK, Operation
    <3>5. CallbackOK' /\ DialogLock'
      BY <2>0, <3>3 DEF CallbackOK, FrameOK, DialogLock
    <3> QED
      BY <3>2, <3>4, <3>5 DEF IInv
  <2> QED
    BY <1>2, <2>1, <2>2 DEF DestroyHangup
<1>3. CASE DestroyDone
  <2>1. call' \in [CallIds -> Call]
    BY <1>3, <1>0, FixedCalls DEF DestroyDone
  <2>2. ui' \in Operation
    BY <1>3, <1>0, OperationFields DEF DestroyDone, UiPcs
  <2>3. TypeOK'
    BY <1>3, <2>1, <2>2 DEF IInv, TypeOK, DestroyDone, EngineTypeOK
  <2>4. UiOK' /\ LifecycleOK'
    BY <1>3, <2>3 DEF IInv, DestroyDone, UiOK, LifecycleOK
  <2>5. CallbackOK'
    <3> SUFFICES ASSUME NEW x \in Threads PROVE FrameOK(x)'
      BY DEF CallbackOK
    <3> QED
      BY <1>3, <2>3 DEF IInv, TypeOK, DestroyDone, LifecycleOK, FrameOK
  <2>6. DialogLock'
    BY <1>3, <2>3 DEF DestroyDone, DialogLock
  <2> QED
    BY <2>3, <2>4, <2>5, <2>6 DEF IInv
<1>4. CASE ShutdownReset
  <2>2. ui' \in Operation
    BY <1>4, <1>0, OperationBegins DEF ShutdownReset
  <2>3. TypeOK'
    BY <1>4, <2>2 DEF IInv, TypeOK, ShutdownReset, EngineTypeOK
  <2>4. UiOK' /\ LifecycleOK'
    BY <1>4, <2>3 DEF IInv, TypeOK, ShutdownReset, UiOK, LifecycleOK,
       StoppedIsClean, Begin, Idle
  <2>5. CallbackOK' /\ DialogLock'
    BY <1>4, CallbacksKept DEF IInv, ShutdownReset
  <2> QED
    BY <2>3, <2>4, <2>5 DEF IInv
<1> QED
  BY <1>1, <1>2, <1>3, <1>4

\* A callback, on either thread.
LEMMA CallbackSteps ==
  ASSUME IInv, NEW t \in Threads, CallbackStep(t)
  PROVE  IInv'
<1> USE CallIdsAssumption DEF Threads, history, UiIdle, UiAt
<1>0. /\ EngineTypeOK /\ ui \in Operation /\ cb \in [Threads -> Frame]
      /\ ui.todo \in SUBSET CallIds /\ NoCall \in CallIds \cup {NoCall}
      /\ focus \in CallIds \cup {NoCall}
  BY DEF IInv, TypeOK, Operation
<1>1. CASE DisconnectedCallback(t)
  <2>3. TypeOK'
    BY <1>1, FrameGoes DEF IInv, TypeOK, DisconnectedCallback, EngineTypeOK,
       CbPcs
  <2>4. UiOK' /\ LifecycleOK'
    BY <1>1, <2>3 DEF IInv, TypeOK, DisconnectedCallback, UiOK, LifecycleOK,
       StoppedIsClean, Goto
  <2>5. CallbackOK'
    <3> SUFFICES ASSUME NEW x \in Threads PROVE FrameOK(x)'
      BY DEF CallbackOK
    <3> QED
      BY <1>1, <2>3 DEF IInv, TypeOK, DisconnectedCallback, UiOK, LifecycleOK,
         CallbackOK, FrameOK, DialogLock, EngineTypeOK, Call, IsActive, CbPcs,
         Frame, NoFrame, Goto
  <2>6. DialogLock'
    BY <1>1, <2>3 DEF IInv, TypeOK, DisconnectedCallback, DialogLock, NoFrame,
       Goto
  <2> QED
    BY <2>3, <2>4, <2>5, <2>6 DEF IInv
<1>2. CASE ReleaseCall(t)
  <2>1. call' \in [CallIds -> Call]
    BY <1>2, <1>0, EngineCalls, MediaUpdates, StateChange, NegotiatedType DEF
       IInv, ReleaseCall, CallbackOK, FrameOK
  <2>3. TypeOK'
    BY <1>2, <2>1, FrameGoes DEF IInv, TypeOK, ReleaseCall, EngineTypeOK, CbPcs
  <2>4. UiOK' /\ LifecycleOK'
    BY <1>2, <2>3 DEF IInv, TypeOK, ReleaseCall, UiOK, LifecycleOK,
       StoppedIsClean, Goto
  <2>5. CallbackOK'
    <3> SUFFICES ASSUME NEW x \in Threads PROVE FrameOK(x)'
      BY DEF CallbackOK
    <3> QED
      BY <1>2, <2>3 DEF IInv, TypeOK, ReleaseCall, UiOK, LifecycleOK,
         CallbackOK, FrameOK, DialogLock, IsActive, Release, NoFrame, Goto
  <2>6. DialogLock'
    BY <1>2, <2>3 DEF IInv, TypeOK, ReleaseCall, DialogLock, NoFrame, Goto
  <2> QED
    BY <2>3, <2>4, <2>5, <2>6 DEF IInv
<1>3. CASE MediaLoad(t)
  <2>3. TypeOK'
    <3>1. CASE focus = NoCall
      BY <1>0, <1>3, <3>1, FrameGoes DEF IInv, TypeOK, EngineTypeOK, MediaLoad,
         CbPcs
    <3>2. CASE focus # NoCall
      BY <1>0, <1>3, <3>2, FrameGoes DEF IInv, TypeOK, EngineTypeOK, MediaLoad,
         CbPcs
    <3> QED
      BY <3>1, <3>2
  <2>4. UiOK' /\ LifecycleOK'
    BY <1>3, <2>3 DEF IInv, TypeOK, MediaLoad, UiOK, LifecycleOK,
       StoppedIsClean, Goto
  <2>5. CallbackOK'
    <3> SUFFICES ASSUME NEW x \in Threads PROVE FrameOK(x)'
      BY DEF CallbackOK
    <3> QED
      BY <1>3, <2>3 DEF IInv, TypeOK, MediaLoad, UiOK, LifecycleOK, CallbackOK,
         FrameOK, IsActive, Goto
  <2>6. DialogLock'
    BY <1>3, <2>3 DEF IInv, TypeOK, MediaLoad, DialogLock, Goto
  <2> QED
    BY <2>3, <2>4, <2>5, <2>6 DEF IInv
<1>4. CASE MediaClaim(t)
  <2>3. TypeOK'
    BY <1>4, FrameGoes DEF IInv, TypeOK, MediaClaim, EngineTypeOK, CbPcs,
       CallbackOK, FrameOK
  <2>4. UiOK' /\ LifecycleOK'
    BY <1>4, <2>3 DEF IInv, TypeOK, MediaClaim, UiOK, LifecycleOK,
       StoppedIsClean, Goto
  <2>5. CallbackOK'
    <3> SUFFICES ASSUME NEW x \in Threads PROVE FrameOK(x)'
      BY DEF CallbackOK
    <3> QED
      BY <1>4, <2>3 DEF IInv, TypeOK, MediaClaim, UiOK, LifecycleOK,
         CallbackOK, FrameOK, IsActive, Goto
  <2>6. DialogLock'
    BY <1>4, <2>3 DEF IInv, TypeOK, MediaClaim, DialogLock, Goto
  <2> QED
    BY <2>3, <2>4, <2>5, <2>6 DEF IInv
<1>5. CASE MediaDecide(t)
  <2>3. TypeOK'
    <3> DEFINE f1 == [cb[t] EXCEPT !.pc = "mediaConnect"]
               b  == ~autoHold \/ focus = cb[t].call
               f2 == [f1 EXCEPT !.connect = b]
    <3>1. f1 \in Frame
      BY <1>0 DEF Frame, CbPcs
    <3>2. b \in BOOLEAN
      BY Zenon
    <3>3. f2 \in Frame
      <4> HIDE DEF f1, b
      <4> QED
        BY <3>1, <3>2 DEF Frame
    <3>4. cb' = [cb EXCEPT ![t] = f2]
      BY <1>5, Zenon DEF MediaDecide
    <3>5. cb' \in [Threads -> Frame]
      BY <1>0, <3>3, <3>4
    <3> QED
      BY <1>5, <3>5 DEF IInv, TypeOK, EngineTypeOK, MediaDecide
  <2>4. UiOK' /\ LifecycleOK'
    BY <1>5, <2>3 DEF IInv, MediaDecide, UiOK, LifecycleOK, StoppedIsClean
  <2>5. CallbackOK'
    <3> SUFFICES ASSUME NEW x \in Threads PROVE FrameOK(x)'
      BY DEF CallbackOK
    <3> QED
      BY <1>5, <2>3 DEF IInv, TypeOK, MediaDecide, UiOK, CallbackOK, FrameOK,
         IsActive
  <2>6. DialogLock'
    BY <1>5, <2>3 DEF IInv, MediaDecide, DialogLock
  <2> QED
    BY <2>3, <2>4, <2>5, <2>6 DEF IInv
<1>6. CASE MediaConnect(t)
  <2>1. call' \in [CallIds -> Call]
    <3>1. cb[t].call \in CallIds /\ cb[t].connect \in BOOLEAN
      BY <1>0, <1>6 DEF IInv, MediaConnect, CallbackOK, FrameOK, Frame
    <3> QED
      BY <1>0, <1>6, <3>1, EngineCalls DEF MediaConnect
  <2>3. TypeOK'
    BY <1>6, <2>1, FrameGoes DEF IInv, TypeOK, MediaConnect, EngineTypeOK,
       CbPcs
  <2>4. UiOK' /\ LifecycleOK'
    BY <1>6, <2>3 DEF IInv, TypeOK, MediaConnect, UiOK, LifecycleOK,
       StoppedIsClean, Goto
  <2>5. CallbackOK'
    <3> SUFFICES ASSUME NEW x \in Threads PROVE FrameOK(x)'
      BY DEF CallbackOK
    <3> QED
      BY <1>6, <2>3 DEF IInv, TypeOK, MediaConnect, UiOK, LifecycleOK,
         CallbackOK, FrameOK, DialogLock, EngineTypeOK, Call, IsActive,
         SetConnected, CbPcs, Frame, NoFrame, Goto
  <2>6. DialogLock'
    BY <1>6, <2>3 DEF IInv, TypeOK, MediaConnect, DialogLock, NoFrame, Goto
  <2> QED
    BY <2>3, <2>4, <2>5, <2>6 DEF IInv
<1> QED
  BY <1>1, <1>2, <1>3, <1>4, <1>5, <1>6 DEF CallbackStep

\* What the network brings.
LEMMA NetworkSteps ==
  ASSUME IInv, NetworkEvent
  PROVE  IInv'
<1> USE CallIdsAssumption DEF Threads, history, UiIdle, UiAt
<1>0. /\ EngineTypeOK /\ ui \in Operation /\ cb \in [Threads -> Frame]
      /\ ui.todo \in SUBSET CallIds /\ NoCall \in CallIds \cup {NoCall}
      /\ focus \in CallIds \cup {NoCall}
  BY DEF IInv, TypeOK, Operation
<1>1. ASSUME NEW c \in CallIds, IncomingCall(c) PROVE IInv'
  <2>1. call' \in [CallIds -> Call]
    BY <1>1, <1>0, EngineCalls DEF IncomingCall
  <2>3. TypeOK'
    BY <1>1, <2>1 DEF IInv, TypeOK, IncomingCall, EngineTypeOK
  <2>4. UiOK' /\ LifecycleOK'
    BY <1>1, <2>3 DEF IInv, TypeOK, IncomingCall, UiOK, LifecycleOK,
       WorkerReady
  <2>5. call[c].state = "free" /\ \A d \in CallIds \ {c} : call'[d] = call[d]
    BY <1>0, <1>1 DEF IncomingCall, Arrive, EngineTypeOK
  <2>6. CallbackOK' /\ DialogLock'
    BY <1>0, <1>1, <2>5, SlotTaken DEF IInv, IncomingCall
  <2> QED
    BY <2>3, <2>4, <2>5, <2>6 DEF IInv
<1>2. ASSUME NEW c \in CallIds, Provisional(c) PROVE IInv'
  <2>0. /\ cb["worker"].pc = "none" /\ DialogFree("worker", c)
        /\ IsActive(c)
        /\ UNCHANGED <<engine, focus, autoHold, ui, history>>
    BY <1>2 DEF Provisional, WorkerReady
  <2>1. ASSUME call' = [call EXCEPT ![c].state = "early"], UNCHANGED cb
        PROVE  /\ call' \in [CallIds -> Call] /\ cb' \in [Threads -> Frame]
               /\ CallbackOK' /\ DialogLock'
    <3>1. /\ call' \in [CallIds -> Call]
          /\ call'[c].state = "early"
          /\ call'[c].media = call[c].media
          /\ call'[c].hangingUp = call[c].hangingUp
          /\ \A d \in CallIds \ {c} : call'[d] = call[d]
      BY <1>0, <2>1, StateChange DEF EngineTypeOK, InvStates
    <3>2. CallbackOK'
      BY <2>0, <2>1, <3>1 DEF IInv, CallbackOK, FrameOK, IsActive
    <3> QED
      BY <1>0, <2>1, <3>1, <3>2 DEF IInv, DialogLock
  <2>2. ASSUME NEW m \in Negotiated(c),
               call' = [MediaUpdate(c, m, "none", TRUE) EXCEPT ![c].state = "early"],
               PushMedia("worker", c, m)
        PROVE  /\ call' \in [CallIds -> Call] /\ cb' \in [Threads -> Frame]
               /\ CallbackOK' /\ DialogLock'
    <3>0. PICK keep \in BOOLEAN : keep = TRUE
      BY Zenon
    <3> DEFINE table == MediaUpdate(c, m, "none", keep)
    <3>1. m \in MediaStates /\ "none" \in Offers /\ "early" \in InvStates
      BY NegotiatedType DEF Offers, InvStates
    <3>2. /\ table \in [CallIds -> Call] /\ table[c].media = m
          /\ table[c].hangingUp = call[c].hangingUp
          /\ \A d \in CallIds \ {c} : table[d] = call[d]
      BY <1>0, <3>1, MediaUpdates
    <3>3. call' = [table EXCEPT ![c].state = "early"]
      BY <2>2, <3>0, Zenon
    <3> HIDE DEF table
    <3>4. /\ call' \in [CallIds -> Call]
          /\ call'[c].state = "early"
          /\ call'[c].media = m
          /\ call'[c].hangingUp = call[c].hangingUp
          /\ \A d \in CallIds \ {c} : call'[d] = call[d]
      BY <3>1, <3>2, <3>3, StateChange
    <3> QED
      BY <1>0, <2>0, <2>2, <3>1, <3>4, MediaPushed DEF IInv, IsActive, Threads
  <2>3. /\ call' \in [CallIds -> Call] /\ cb' \in [Threads -> Frame]
        /\ CallbackOK' /\ DialogLock'
    BY <1>2, <2>1, <2>2 DEF Provisional
  <2>4. TypeOK'
    BY <2>0, <2>3 DEF IInv, TypeOK, EngineTypeOK
  <2>5. UiOK' /\ LifecycleOK'
    BY <1>2, <2>0 DEF IInv, UiOK, LifecycleOK, Provisional, WorkerReady
  <2> QED
    BY <2>3, <2>4, <2>5 DEF IInv
<1>3. ASSUME NEW c \in CallIds, Accepted(c) PROVE IInv'
  <2>1. call' \in [CallIds -> Call]
    BY <1>0, <1>3, StateChange DEF EngineTypeOK, Accepted, InvStates
  <2>3. TypeOK'
    BY <1>3, <2>1 DEF IInv, TypeOK, Accepted, EngineTypeOK
  <2>4. UiOK' /\ LifecycleOK'
    BY <1>3, <2>3 DEF IInv, TypeOK, Accepted, UiOK, LifecycleOK, WorkerReady
  <2>5. CallbackOK'
    <3> SUFFICES ASSUME NEW x \in Threads PROVE FrameOK(x)'
      BY DEF CallbackOK
    <3> QED
      BY <1>3, <2>3 DEF IInv, TypeOK, Accepted, CallbackOK, FrameOK, IsActive
  <2>6. DialogLock'
    BY <1>3, <2>3 DEF IInv, Accepted, DialogLock
  <2> QED
    BY <2>3, <2>4, <2>5, <2>6 DEF IInv
<1>4. ASSUME NEW c \in CallIds, MediaUp(c) PROVE IInv'
  <2>0. /\ engine = "on" /\ cb["worker"].pc = "none" /\ DialogFree("worker", c)
        /\ IsActive(c)
        /\ unheld' \subseteq CallIds /\ miswired' \subseteq CallIds
        /\ leftOn' \subseteq CallIds
        /\ UNCHANGED <<engine, focus, autoHold, ui>>
    BY <1>4 DEF MediaUp, WorkerReady, IInv, TypeOK
  <2>1. PICK m \in Negotiated(c), keep \in BOOLEAN :
          call' = MediaUpdate(c, m, "none", keep) /\ PushMedia("worker", c, m)
    BY <1>4 DEF MediaUp
  <2>2. m \in MediaStates /\ "none" \in Offers
    BY NegotiatedType DEF Offers
  <2>3. /\ call' \in [CallIds -> Call]
        /\ call'[c].state = call[c].state
        /\ call'[c].media = m
        /\ call'[c].hangingUp = call[c].hangingUp
        /\ \A d \in CallIds \ {c} : call'[d] = call[d]
    BY <1>0, <2>1, <2>2, MediaUpdates
  <2>4. cb' \in [Threads -> Frame] /\ CallbackOK' /\ DialogLock'
    BY <1>0, <2>0, <2>1, <2>2, <2>3, MediaPushed DEF IInv, IsActive
  <2>5. TypeOK'
    BY <2>0, <2>3, <2>4 DEF IInv, TypeOK, EngineTypeOK
  <2>6. UiOK' /\ LifecycleOK'
    BY <2>0 DEF IInv, UiOK, LifecycleOK
  <2> QED
    BY <2>4, <2>5, <2>6 DEF IInv
<1>5. ASSUME NEW c \in CallIds, Confirmed(c) PROVE IInv'
  <2>1. call' \in [CallIds -> Call]
    BY <1>0, <1>5, StateChange DEF EngineTypeOK, Confirmed, InvStates
  <2>3. TypeOK'
    BY <1>5, <2>1 DEF IInv, TypeOK, Confirmed, EngineTypeOK
  <2>4. UiOK' /\ LifecycleOK'
    BY <1>5, <2>3 DEF IInv, TypeOK, Confirmed, UiOK, LifecycleOK, WorkerReady
  <2>5. CallbackOK'
    <3> SUFFICES ASSUME NEW x \in Threads PROVE FrameOK(x)'
      BY DEF CallbackOK
    <3> QED
      BY <1>5, <2>3 DEF IInv, TypeOK, Confirmed, CallbackOK, FrameOK, IsActive
  <2>6. DialogLock'
    BY <1>5, <2>3 DEF IInv, Confirmed, DialogLock
  <2> QED
    BY <2>3, <2>4, <2>5, <2>6 DEF IInv
<1>6. ASSUME NEW c \in CallIds, PeerReinvite(c) PROVE IInv'
  <2>0. /\ engine = "on" /\ cb["worker"].pc = "none" /\ DialogFree("worker", c)
        /\ IsActive(c)
        /\ unheld' \subseteq CallIds /\ miswired' \subseteq CallIds
        /\ leftOn' \subseteq CallIds
        /\ UNCHANGED <<engine, focus, autoHold, ui>>
    BY <1>6 DEF PeerReinvite, WorkerReady, IInv, TypeOK, CanReinvite
  <2>1. PICK m \in Negotiated(c), keep \in BOOLEAN :
          call' = MediaUpdate(c, m, "none", keep) /\ PushMedia("worker", c, m)
    BY <1>6 DEF PeerReinvite
  <2>2. m \in MediaStates /\ "none" \in Offers
    BY NegotiatedType DEF Offers
  <2>3. /\ call' \in [CallIds -> Call]
        /\ call'[c].state = call[c].state
        /\ call'[c].media = m
        /\ call'[c].hangingUp = call[c].hangingUp
        /\ \A d \in CallIds \ {c} : call'[d] = call[d]
    BY <1>0, <2>1, <2>2, MediaUpdates
  <2>4. cb' \in [Threads -> Frame] /\ CallbackOK' /\ DialogLock'
    BY <1>0, <2>0, <2>1, <2>2, <2>3, MediaPushed DEF IInv, IsActive
  <2>5. TypeOK'
    BY <2>0, <2>3, <2>4 DEF IInv, TypeOK, EngineTypeOK
  <2>6. UiOK' /\ LifecycleOK'
    BY <2>0 DEF IInv, UiOK, LifecycleOK
  <2> QED
    BY <2>4, <2>5, <2>6 DEF IInv
<1>7. ASSUME NEW c \in CallIds, ReinviteAccepted(c) PROVE IInv'
  <2>0. /\ engine = "on" /\ cb["worker"].pc = "none" /\ DialogFree("worker", c)
        /\ IsActive(c)
        /\ unheld' \subseteq CallIds /\ miswired' \subseteq CallIds
        /\ leftOn' \subseteq CallIds
        /\ UNCHANGED <<engine, focus, autoHold, ui>>
    BY <1>7 DEF ReinviteAccepted, WorkerReady, IInv, TypeOK
  <2>1. PICK m \in Negotiated(c), keep \in BOOLEAN :
          call' = MediaUpdate(c, m, "none", keep) /\ PushMedia("worker", c, m)
    BY <1>7 DEF ReinviteAccepted
  <2>2. m \in MediaStates /\ "none" \in Offers
    BY NegotiatedType DEF Offers
  <2>3. /\ call' \in [CallIds -> Call]
        /\ call'[c].state = call[c].state
        /\ call'[c].media = m
        /\ call'[c].hangingUp = call[c].hangingUp
        /\ \A d \in CallIds \ {c} : call'[d] = call[d]
    BY <1>0, <2>1, <2>2, MediaUpdates
  <2>4. cb' \in [Threads -> Frame] /\ CallbackOK' /\ DialogLock'
    BY <1>0, <2>0, <2>1, <2>2, <2>3, MediaPushed DEF IInv, IsActive
  <2>5. TypeOK'
    BY <2>0, <2>3, <2>4 DEF IInv, TypeOK, EngineTypeOK
  <2>6. UiOK' /\ LifecycleOK'
    BY <2>0 DEF IInv, UiOK, LifecycleOK
  <2> QED
    BY <2>4, <2>5, <2>6 DEF IInv
<1>8. ASSUME NEW c \in CallIds, ReinviteRefused(c) PROVE IInv'
  <2>1. call' \in [CallIds -> Call]
    BY <1>8, <1>0, EngineCalls DEF ReinviteRefused
  <2>3. TypeOK'
    BY <1>8, <2>1 DEF IInv, TypeOK, ReinviteRefused, EngineTypeOK, Miswire,
       HoldFailed
  <2>4. UiOK' /\ LifecycleOK'
    BY <1>8, <2>3 DEF IInv, TypeOK, ReinviteRefused, UiOK, LifecycleOK,
       WorkerReady
  <2>5. \A d \in CallIds : /\ call'[d].state = call[d].state
                           /\ call'[d].hangingUp = call[d].hangingUp
                           /\ call'[d].media = call[d].media
    BY <1>0, <1>8 DEF ReinviteRefused, RefuseOffer, EngineTypeOK, Call
  <2>6. CallbackOK' /\ DialogLock'
    BY <1>8, <2>5, CallbacksKept DEF IInv, ReinviteRefused
  <2> QED
    BY <2>3, <2>4, <2>5, <2>6 DEF IInv
<1>9. ASSUME NEW c \in CallIds, PeerEnds(c) PROVE IInv'
  <2>1. call' \in [CallIds -> Call]
    BY <1>9, <1>0, EngineCalls DEF PeerEnds
  <2>3. TypeOK'
    BY <1>9, <2>1, FramePushed DEF IInv, TypeOK, PeerEnds, EngineTypeOK, CbPcs,
       Forget
  <2>4. UiOK' /\ LifecycleOK'
    BY <1>9, <2>3 DEF IInv, TypeOK, PeerEnds, UiOK, LifecycleOK, WorkerReady
  <2>5. CallbackOK'
    <3> SUFFICES ASSUME NEW x \in Threads PROVE FrameOK(x)'
      BY DEF CallbackOK
    <3> QED
      BY <1>9, <2>3 DEF IInv, TypeOK, PeerEnds, UiOK, LifecycleOK, CallbackOK,
         FrameOK, DialogLock, EngineTypeOK, Call, FreeCall, IsActive, Ended,
         Disconnect, WorkerReady, DialogFree, Push
  <2>6. DialogLock'
    BY <1>9, <2>3 DEF IInv, TypeOK, PeerEnds, UiOK, DialogLock, WorkerReady,
       DialogFree, Push
  <2> QED
    BY <2>3, <2>4, <2>5, <2>6 DEF IInv
<1>10. ASSUME NEW c \in CallIds, HangupCompletes(c) PROVE IInv'
  <2>1. call' \in [CallIds -> Call]
    BY <1>10, <1>0, EngineCalls DEF HangupCompletes
  <2>3. TypeOK'
    BY <1>10, <2>1 DEF IInv, TypeOK, HangupCompletes, EngineTypeOK
  <2>4. UiOK' /\ LifecycleOK'
    BY <1>10, <2>3 DEF IInv, TypeOK, HangupCompletes, UiOK, LifecycleOK,
       WorkerReady
  <2>5. CallbackOK'
    <3> SUFFICES ASSUME NEW x \in Threads PROVE FrameOK(x)'
      BY DEF CallbackOK
    <3> QED
      BY <1>10, <2>3 DEF IInv, TypeOK, HangupCompletes, UiOK, LifecycleOK,
         CallbackOK, FrameOK, DialogLock, EngineTypeOK, Call, FreeCall,
         IsActive, Release, WorkerReady, DialogFree
  <2>6. DialogLock'
    BY <1>10, <2>3 DEF IInv, HangupCompletes, DialogLock
  <2> QED
    BY <2>3, <2>4, <2>5, <2>6 DEF IInv
<1> QED
  BY <1>1, <1>2, <1>3, <1>4, <1>5, <1>6, <1>7, <1>8, <1>9, <1>10 DEF
     NetworkEvent

-----------------------------------------------------------------------------
(* The inductive invariant and the theorems.                               *)

\* Nothing runs in the initial state.
LEMMA InitInv == Init => IInv
<1> SUFFICES ASSUME Init PROVE IInv
  OBVIOUS
<1> USE DEF Init
<1>1. TypeOK
  <2>1. EngineTypeOK
    BY FixedCalls DEF EngineTypeOK
  <2>2. ui \in Operation
    BY OperationBegins
  <2>3. cb \in [Threads -> Frame]
    BY DEF NoFrame, Frame, CbPcs
  <2> QED
    BY <2>1, <2>2, <2>3 DEF TypeOK
<1>2. UiOK
  BY DEF UiOK, Idle, Begin
<1>3. CallbackOK /\ DialogLock
  BY DEF CallbackOK, FrameOK, DialogLock, NoFrame
<1>4. LifecycleOK
  BY DEF LifecycleOK, StoppedIsClean, Idle, Begin, NoFrame
<1> QED
  BY <1>1, <1>2, <1>3, <1>4 DEF IInv

\* Every step, of either thread or of the network, preserves the invariant.
LEMMA StepInv == IInv /\ [Next]_vars => IInv'
<1> SUFFICES ASSUME IInv, [Next]_vars PROVE IInv'
  OBVIOUS
<1>1. CASE UserRequest
  BY <1>1, UserSteps
<1>2. CASE UiStep
  <2>1. CASE HoldOthersStep
    BY <2>1, HoldSteps
  <2>2. CASE \/ MakeCallInvite \/ MakeCallSelect
             \/ AnswerLoad \/ AnswerSelect \/ AnswerSend \/ AnswerFails
             \/ AnswerRestore
    BY <2>2, CallSteps
  <2>3. CASE \/ HoldCallCut \/ HoldCallSend \/ HoldCallClear
             \/ ResumeSelect \/ ResumeSend
    BY <2>3, LineSteps
  <2>4. CASE \/ \E d \in CallIds : RefreshScan(d)
             \/ RefreshCut \/ RefreshConnect \/ RefreshDone
    BY <2>4, RefreshSteps
  <2>5. CASE \/ DestroyJoin \/ (\E c \in CallIds : DestroyHangup(c))
             \/ DestroyDone \/ ShutdownReset
    BY <2>5, ShutdownSteps
  <2>6. CASE CallbackStep("ui")
    BY <2>6, CallbackSteps DEF Threads
  <2> QED
    BY <1>2, <2>1, <2>2, <2>3, <2>4, <2>5, <2>6 DEF UiStep
<1>3. CASE CallbackStep("worker")
  BY <1>3, CallbackSteps DEF Threads
<1>4. CASE NetworkEvent
  BY <1>4, NetworkSteps
<1>5. CASE UNCHANGED vars
  <2>1. TypeOK' /\ UiOK'
    BY <1>5 DEF IInv, TypeOK, EngineTypeOK, UiOK, vars
  <2>2. CallbackOK' /\ DialogLock'
    BY <1>5, CallbacksKept DEF IInv, vars
  <2>3. LifecycleOK'
    BY <1>5 DEF IInv, LifecycleOK, StoppedIsClean, vars
  <2> QED
    BY <2>1, <2>2, <2>3 DEF IInv
<1> QED
  BY <1>1, <1>2, <1>3, <1>4, <1>5 DEF Next

\* The invariant holds of every state of every instance.
LEMMA Invariance == Spec => []IInv
  BY InitInv, StepInv, PTL DEF Spec

\* Every variable keeps its type: in particular no loop of the service indexes
\* the call table with the invalid id.
THEOREM TypeCorrect == Spec => []TypeOK
<1>1. IInv => TypeOK
  BY DEF IInv
<1> QED
  BY <1>1, Invariance, PTL

\* However calls, callbacks and Shutdown interleave, a stopped service has no
\* focus, no call and no callback running.
THEOREM ShutdownIsClean == Spec => []StoppedIsClean
<1>1. IInv => StoppedIsClean
  BY DEF IInv, LifecycleOK, StoppedIsClean
<1> QED
  BY <1>1, Invariance, PTL

\* However the statements of the UI thread and the callbacks interleave, the
\* focus moves between lines only where the user's request stores it; a line
\* takes a free focus only with running audio, and gives it up only when it is
\* over or the user put it on hold.
THEOREM FocusByChoice == Spec => FocusMovesOnlyByChoice
<1>1. IInv /\ [Next]_vars => [FocusStep]_vars
  <2> SUFFICES ASSUME IInv, Next PROVE FocusStep
    BY DEF FocusStep, vars
  <2>1. CASE focus' = focus
    BY <2>1 DEF FocusStep
  <2>2. CASE \E c \in CallIds : HangupInactiveCall(c)
    BY <2>2 DEF FocusStep, HangupInactiveCall
  <2>3. CASE MakeCallSelect \/ AnswerSelect \/ AnswerRestore \/ ResumeSelect
    BY <2>3 DEF FocusStep, ByChoice, MakeCallSelect, AnswerSelect,
       AnswerRestore, ResumeSelect
  <2>4. CASE HoldCallClear
    BY <2>4 DEF FocusStep, HoldCallClear, UiAt, IInv, UiOK
  <2>5. CASE ShutdownReset
    BY <2>5, CallIdsAssumption DEF FocusStep, ShutdownReset, UiAt, IInv,
       TypeOK, LifecycleOK, NoCalls, FreeCall, IsActive
  <2>6. ASSUME NEW t \in Threads, DisconnectedCallback(t) PROVE FocusStep
    BY <2>6 DEF FocusStep, DisconnectedCallback, IInv, CallbackOK, FrameOK,
       IsActive
  <2>7. ASSUME NEW t \in Threads, MediaClaim(t) PROVE FocusStep
    BY <2>7 DEF FocusStep, MediaClaim, IInv, CallbackOK, FrameOK
  <2> QED
    <3>1. CASE UserRequest
      BY <3>1, <2>1, <2>2 DEF UserRequest, MakeCall, AnswerCall, RejectCall,
         HangupCall, HoldCall, ResumeCall, SetAutoHoldOnIncoming,
         RefreshSystemAudioDevices, Initialize, Shutdown
    <3>2. CASE HoldOthersStep
      BY <3>2, <2>1 DEF HoldOthersStep, ScanHold, ScanSkip, HoldCut, HoldSend
    <3>3. CASE NetworkEvent
      BY <3>3, <2>1 DEF NetworkEvent, IncomingCall, Provisional, Accepted,
         MediaUp, Confirmed, PeerReinvite, ReinviteAccepted, ReinviteRefused,
         PeerEnds, HangupCompletes
    <3>4. ASSUME NEW t \in Threads, CallbackStep(t) PROVE FocusStep
      BY <3>4, <2>1, <2>6, <2>7 DEF CallbackStep, ReleaseCall, MediaLoad,
         MediaDecide, MediaConnect
    <3>5. CASE UiStep /\ ~HoldOthersStep /\ ~CallbackStep("ui")
      BY <3>5, <2>1, <2>3, <2>4, <2>5 DEF UiStep, MakeCallInvite, AnswerLoad,
         AnswerSend, AnswerFails, HoldCallCut, HoldCallSend, ResumeSend,
         RefreshScan, RefreshCut, RefreshConnect, RefreshDone, DestroyJoin,
         DestroyHangup, DestroyDone
    <3> QED
      BY <3>1, <3>2, <3>3, <3>4, <3>5 DEF Next, UiStep, Threads
<1> QED
  BY <1>1, Invariance, PTL DEF Spec, FocusMovesOnlyByChoice

-----------------------------------------------------------------------------

(***************************************************************************)
(* The audio of the lines. A callback rewires its line from what it read   *)
(* under the lock and let go of; AudioInv says what is still true of the   *)
(* line by then, that a held line is connected only where such a callback  *)
(* is still to disconnect it or one is known to have gone wrong, and that  *)
(* no line but the selected one is newly heard.                            *)
(***************************************************************************)

\* A callback that is about to rewire a call finds it in progress, and connects
\* it only while its media is active.
ConnectOK ==
  \A t \in Threads :
    cb[t].pc = "mediaConnect" =>
      /\ IsActive(cb[t].call)
      /\ cb[t].connect => call[cb[t].call].media = "active"

\* Only a call with a conference port is connected.
PortOK == \A c \in CallIds : call[c].connected => HasPort(c)

OnHold(c) == call[c].media \in {"localHold", "remoteHold"}

\* The callback of held media is still to disconnect the call.
Rewiring(c) == \E t \in Threads : cb[t].pc = "mediaConnect" /\ cb[t].call = c

HeldOK ==
  \A c \in CallIds : OnHold(c) /\ call[c].connected => c \in miswired \/ Rewiring(c)

\* The user never turns auto-hold off.
Steady == AutoHoldSettings \subseteq {TRUE}

TalkOK ==
  Steady => /\ autoHold
            /\ \A c \in CallIds \ {focus} : Heard(c) => c \in leftOn

AudioInv == ConnectOK /\ PortOK /\ HeldOK /\ TalkOK

\* A step that connects nothing, ends no call, leaves media alone and starts or
\* ends no rewiring keeps the audio invariant, if the lines that the focus
\* leaves are noted.
LEMMA QuietStep ==
  ASSUME CallbackOK, AudioInv,
         \A t \in Threads :
           cb[t].pc = "mediaConnect" \/ cb'[t].pc = "mediaConnect" => cb'[t] = cb[t],
         \A c \in CallIds : /\ IsActive(c) => IsActive(c)'
                            /\ call'[c].media = call[c].media
                            /\ call'[c].connected => call[c].connected,
         miswired \subseteq miswired',
         Steady => autoHold',
         Steady => \A c \in CallIds \ {focus'} :
                     /\ c = focus \/ c \in leftOn
                     /\ Heard(c) /\ Heard(c)'
                     => c \in leftOn'
  PROVE  AudioInv'
<1>1. \A c \in CallIds : Connecting(c)' => Connecting(c)
  BY DEF Connecting
<1>2. \A c \in CallIds : Heard(c)' => Heard(c)
  BY <1>1 DEF Heard
<1>3. ConnectOK'
  BY DEF AudioInv, ConnectOK, CallbackOK, FrameOK
<1>4. PortOK'
  BY DEF AudioInv, PortOK, HasPort
<1>5. HeldOK'
  BY DEF AudioInv, HeldOK, OnHold, Rewiring
<1>6. TalkOK'
  BY <1>2 DEF AudioInv, TalkOK, Steady
<1> QED
  BY <1>3, <1>4, <1>5, <1>6 DEF AudioInv

\* A step that leaves the calls, the callbacks, the focus and the history as they
\* are keeps it.
LEMMA AudioKept ==
  ASSUME CallbackOK, AudioInv,
         UNCHANGED <<call, cb, focus, autoHold, miswired, leftOn>>
  PROVE  AudioInv'
  BY QuietStep DEF IsActive, AudioInv, TalkOK

\* A step that gives a slot a call without audio keeps it, if no callback is
\* rewiring the slot, and no callback of another slot starts or ends.
LEMMA SlotStep ==
  ASSUME CallbackOK, AudioInv, NEW c \in CallIds,
         ~call'[c].connected,
         \A d \in CallIds \ {c} : call'[d] = call[d],
         \A t \in Threads :
           /\ cb'[t].pc = "mediaConnect" => cb'[t] = cb[t] /\ cb'[t].call # c
           /\ cb[t].pc = "mediaConnect" /\ cb[t].call # c => cb'[t] = cb[t],
         miswired \ {c} \subseteq miswired', leftOn \ {c} \subseteq leftOn',
         autoHold' = autoHold,
         focus' = focus \/ focus = c
  PROVE  AudioInv'
<1>1. \A d \in CallIds : Heard(d)' => d # c /\ Heard(d)
  BY DEF Heard, Connecting
<1>3. ConnectOK'
  BY DEF AudioInv, ConnectOK, CallbackOK, FrameOK, IsActive
<1>4. PortOK'
  BY DEF AudioInv, PortOK, HasPort, IsActive
<1>5. HeldOK'
  BY DEF AudioInv, HeldOK, OnHold, Rewiring
<1>6. TalkOK'
  BY <1>1 DEF AudioInv, TalkOK, Steady
<1> QED
  BY <1>3, <1>4, <1>5, <1>6 DEF AudioInv

\* A media update keeps it: it disconnects what it changes.
LEMMA MediaStep ==
  ASSUME cb \in [Threads -> Frame], CallbackOK, AudioInv,
         NEW t \in Threads, NEW c \in CallIds,
         NEW m \in {"active", "localHold", "remoteHold"},
         cb[t].pc = "none", DialogFree(t, c), PushMedia(t, c, m),
         IsActive(c)', call'[c].media = m,
         call'[c].connected => call[c].connected,
         \A d \in CallIds \ {c} : call'[d] = call[d],
         UNCHANGED <<focus, autoHold, miswired, leftOn>>
  PROVE  AudioInv'
<1>1. /\ cb'[t].call = c /\ cb'[t].connect = FALSE
      /\ cb'[t].pc = IF m = "active" THEN "mediaLoad" ELSE "mediaConnect"
      /\ \A x \in Threads \ {t} : cb'[x] = cb[x]
  BY DEF PushMedia, Push
<1>2. \A x \in Threads \ {t} : cb[x].pc = "none" \/ cb[x].call # c
  BY DEF DialogFree
<1>3. \A d \in CallIds : Heard(d)' => Heard(d)
  BY <1>1 DEF Heard, Connecting
<1>4. ConnectOK'
  <2> SUFFICES ASSUME NEW x \in Threads, cb'[x].pc = "mediaConnect"
               PROVE  (/\ IsActive(cb[x].call)
                       /\ cb[x].connect => call[cb[x].call].media = "active")'
    BY DEF ConnectOK
  <2>1. CASE x = t
    BY <1>1, <2>1
  <2>2. CASE x # t
    BY <1>1, <1>2, <2>2 DEF AudioInv, ConnectOK, CallbackOK, FrameOK, IsActive
  <2> QED
    BY <2>1, <2>2
<1>5. PortOK'
  BY DEF AudioInv, PortOK, HasPort, IsActive
<1>6. HeldOK'
  <2> SUFFICES ASSUME NEW d \in CallIds, OnHold(d)', call'[d].connected
               PROVE  d \in miswired' \/ Rewiring(d)'
    BY DEF HeldOK
  <2>1. CASE d = c
    BY <1>1, <2>1 DEF OnHold, Rewiring
  <2>2. CASE d # c
    <3>1. OnHold(d) /\ call[d].connected
      BY <2>2 DEF OnHold
    <3>2. d \in miswired \/ Rewiring(d)
      BY <3>1 DEF AudioInv, HeldOK
    <3> QED
      BY <1>1, <3>2 DEF Rewiring
  <2> QED
    BY <2>1, <2>2
<1>7. TalkOK'
  BY <1>3 DEF AudioInv, TalkOK, Steady
<1> QED
  BY <1>4, <1>5, <1>6, <1>7 DEF AudioInv

\* The start of the callback of a call that is over keeps it.
LEMMA EndStep ==
  ASSUME cb \in [Threads -> Frame], CallbackOK, AudioInv,
         NEW t \in Threads, NEW c \in CallIds,
         cb[t].pc = "none", DialogFree(t, c), Push(t, "disconnected", c),
         ~call'[c].connected,
         \A d \in CallIds \ {c} : call'[d] = call[d],
         Forget(c), UNCHANGED <<focus, autoHold>>
  PROVE  AudioInv'
<1>1. /\ cb'[t].pc = "disconnected"
      /\ \A x \in Threads \ {t} : cb'[x] = cb[x]
  BY DEF Push
<1>2. \A x \in Threads \ {t} : cb[x].pc = "none" \/ cb[x].call # c
  BY DEF DialogFree
<1>3. \A x \in Threads :
        /\ cb'[x].pc = "mediaConnect" => cb'[x] = cb[x] /\ cb'[x].call # c
        /\ cb[x].pc = "mediaConnect" /\ cb[x].call # c => cb'[x] = cb[x]
  BY <1>1, <1>2
<1>4. miswired \ {c} \subseteq miswired' /\ leftOn \ {c} \subseteq leftOn'
  BY DEF Forget
<1> QED
  BY <1>3, <1>4, SlotStep

\* Cutting a line keeps it: the line is silent then, unless a callback connects it.
LEMMA CutStep ==
  ASSUME EngineTypeOK, CallbackOK, AudioInv, NEW c \in CallIds,
         NEW b \in BOOLEAN, ~b, call' = SetConnected(c, b), Silenced(c),
         UNCHANGED <<focus, autoHold, cb, miswired>>
  PROVE  AudioInv'
<1>1. /\ ~HasPort(c) => call'[c].connected = call[c].connected
      /\ HasPort(c) => call'[c].connected = b
      /\ \A d \in CallIds \ {c} : call'[d] = call[d]
      /\ \A d \in CallIds : /\ call'[d].state = call[d].state
                            /\ call'[d].hangingUp = call[d].hangingUp
                            /\ call'[d].media = call[d].media
  BY ConnectedSet
<1>2. ~call'[c].connected
  BY <1>1 DEF AudioInv, PortOK
<1>3. \A d \in CallIds : /\ IsActive(d) => IsActive(d)'
                         /\ call'[d].media = call[d].media
                         /\ call'[d].connected => call[d].connected
  BY <1>1, <1>2 DEF IsActive
<1>4. \A d \in CallIds : Connecting(d)' = Connecting(d)
  BY DEF Connecting
<1>5. Steady => \A d \in CallIds \ {focus'} :
                  (d = focus \/ d \in leftOn) /\ Heard(d) /\ Heard(d)' => d \in leftOn'
  BY <1>2, <1>4 DEF Heard, Silenced
<1> QED
  BY <1>3, <1>5, QuietStep DEF AudioInv, TalkOK

\* Moving the focus keeps it, as every line it leaves is noted.
LEMMA SelectStep ==
  ASSUME CallbackOK, AudioInv, LeaveOn(focus'), miswired \subseteq miswired',
         UNCHANGED <<call, cb, autoHold>>
  PROVE  AudioInv'
<1>1. \A d \in CallIds : /\ IsActive(d) => IsActive(d)'
                         /\ call'[d].media = call[d].media
                         /\ call'[d].connected => call[d].connected
  BY DEF IsActive
<1>2. \A d \in CallIds \ {focus'} : Heard(d) => d \in leftOn'
  BY DEF LeaveOn
<1>3. Steady => autoHold'
  BY DEF AudioInv, TalkOK
<1> QED
  BY <1>1, <1>2, <1>3, QuietStep

\* A re-INVITE of ours and its end keep it: they leave audio alone.
LEMMA OfferStep ==
  ASSUME CallbackOK, AudioInv,
         \A d \in CallIds : /\ call'[d].state = call[d].state
                            /\ call'[d].hangingUp = call[d].hangingUp
                            /\ call'[d].media = call[d].media
                            /\ call'[d].connected = call[d].connected,
         miswired \subseteq miswired',
         UNCHANGED <<cb, focus, autoHold, leftOn>>
  PROVE  AudioInv'
  BY QuietStep DEF IsActive, AudioInv, TalkOK

\* Requests of the user keep the audio invariant.
LEMMA AudioUserSteps ==
  ASSUME IInv, AudioInv, UserRequest
  PROVE  AudioInv'
<1>0. EngineTypeOK /\ cb \in [Threads -> Frame] /\ CallbackOK
  BY DEF IInv, TypeOK
<1>1. CASE \/ MakeCall \/ RefreshSystemAudioDevices \/ Initialize \/ Shutdown
           \/ \E c \in CallIds : AnswerCall(c) \/ HoldCall(c) \/ ResumeCall(c)
  BY <1>0, <1>1, AudioKept DEF MakeCall, RefreshSystemAudioDevices, Initialize,
     Shutdown, AnswerCall, HoldCall, ResumeCall, history
<1>2. ASSUME NEW c \in CallIds, RejectCall(c) PROVE AudioInv'
  <2>1. ~call'[c].connected /\ \A d \in CallIds \ {c} : call'[d] = call[d]
    BY <1>0, <1>2, SlotReset DEF RejectCall
  <2> QED
    BY <1>0, <1>2, <2>1, EndStep DEF RejectCall, UiIdle, Threads
<1>3. ASSUME NEW c \in CallIds, HangupCall(c) PROVE AudioInv'
  <2>1. ~call'[c].connected /\ \A d \in CallIds \ {c} : call'[d] = call[d]
    BY <1>0, <1>3, SlotReset DEF HangupCall
  <2> QED
    BY <1>0, <1>3, <2>1, EndStep DEF HangupCall, UiIdle, Threads
<1>4. ASSUME NEW c \in CallIds, HangupInactiveCall(c) PROVE AudioInv'
  <2>1. ~Heard(c)
    BY <1>4 DEF HangupInactiveCall, Heard, Connecting, AudioInv, PortOK, HasPort,
       ConnectOK
  <2> QED
    BY <1>0, <1>4, <2>1, QuietStep DEF HangupInactiveCall, history, IsActive,
       AudioInv, TalkOK
<1>5. ASSUME NEW b \in AutoHoldSettings, SetAutoHoldOnIncoming(b) PROVE AudioInv'
  <2>1. Steady => autoHold'
    BY <1>5 DEF Steady, SetAutoHoldOnIncoming
  <2> QED
    BY <1>0, <1>5, <2>1, QuietStep DEF SetAutoHoldOnIncoming, history, IsActive
<1> QED
  BY <1>1, <1>2, <1>3, <1>4, <1>5 DEF UserRequest

\* Statements of the operations keep the audio invariant.
LEMMA AudioUiSteps ==
  ASSUME IInv, AudioInv, UiStep, ~CallbackStep("ui")
  PROVE  AudioInv'
<1>0. /\ EngineTypeOK /\ cb \in [Threads -> Frame] /\ CallbackOK /\ UiOK
      /\ "ui" \in Threads
  BY DEF IInv, TypeOK, Threads
<1>1. CASE \/ \E d \in CallIds : ScanHold(d) \/ ScanSkip(d) \/ RefreshScan(d)
           \/ AnswerLoad \/ AnswerFails \/ RefreshDone \/ DestroyJoin
  BY <1>0, <1>1, AudioKept DEF ScanHold, ScanSkip, RefreshScan, AnswerLoad,
     AnswerFails, RefreshDone, DestroyJoin, history
<1>2. CASE HoldCut \/ HoldCallCut \/ RefreshCut
  <2>1. \E c \in CallIds : call' = SetConnected(c, FALSE) /\ Silenced(c)
    BY <1>0, <1>2 DEF HoldCut, HoldCallCut, RefreshCut, UiOK, UiAt
  <2>2. PICK c \in CallIds, b \in BOOLEAN :
          ~b /\ call' = SetConnected(c, b) /\ Silenced(c)
    BY <2>1, Zenon
  <2> QED
    BY <1>0, <1>2, <2>2, CutStep DEF HoldCut, HoldCallCut, RefreshCut
<1>3. CASE MakeCallSelect \/ AnswerSelect \/ AnswerRestore \/ HoldCallClear
           \/ ResumeSelect
  BY <1>0, <1>3, SelectStep DEF MakeCallSelect, AnswerSelect, AnswerRestore,
     HoldCallClear, ResumeSelect
<1>4. CASE HoldSend \/ HoldCallSend \/ ResumeSend
  <2>1. PICK c \in CallIds :
          call' = SendHold(c) \/ call' = SendUnhold(c) \/ call' = call
    BY <1>0, <1>4 DEF HoldSend, HoldCallSend, ResumeSend, UiOK, UiAt
  <2>2. \A d \in CallIds : /\ call'[d].state = call[d].state
                           /\ call'[d].hangingUp = call[d].hangingUp
                           /\ call'[d].media = call[d].media
                           /\ call'[d].connected = call[d].connected
    BY <1>0, <2>1, OfferSet
  <2>3. /\ miswired \subseteq miswired'
        /\ UNCHANGED <<cb, focus, autoHold, leftOn>>
    BY <1>4 DEF HoldSend, HoldCallSend, ResumeSend, HoldFailed, Miswire, history
  <2> QED
    BY <1>0, <2>2, <2>3, OfferStep
<1>5. CASE MakeCallInvite
  <2>1. CASE call' = call
    BY <1>0, <1>5, <2>1, AudioKept DEF MakeCallInvite, history
  <2>2. ASSUME NEW c \in CallIds \ EnumCalls, call' = PlaceCall(c)
        PROVE  AudioInv'
    <3>1. ~call'[c].connected /\ \A d \in CallIds \ {c} : call'[d] = call[d]
      BY <1>0, <2>2, SlotReset
    <3>2. \A x \in Threads : cb[x].pc = "mediaConnect" => cb[x].call # c
      BY <2>2 DEF AudioInv, ConnectOK, IsActive, EnumCalls
    <3> QED
      BY <1>0, <1>5, <3>1, <3>2, SlotStep DEF MakeCallInvite, history
  <2> QED
    BY <1>5, <2>1, <2>2 DEF MakeCallInvite
<1>6. CASE AnswerSend
  <2>. PICK c \in CallIds : c = ui.call
    BY <1>0, <1>6 DEF AnswerSend, UiAt, UiOK
  <2>0. /\ c = ui.call /\ cb["ui"].pc = "none" /\ DialogFree("ui", c)
        /\ IsActive(c)
        /\ UNCHANGED <<focus, autoHold, miswired, leftOn>>
    BY <1>0, <1>6 DEF AnswerSend, UiAt, UiOK, CanAnswer, history
  <2>1. ASSUME NEW m \in Negotiated(c),
               call' = [MediaUpdate(c, m, "none", FALSE)
                          EXCEPT ![c].state = "connecting"],
               PushMedia("ui", c, m)
        PROVE  AudioInv'
    <3>0. PICK keep \in BOOLEAN : keep = FALSE
      BY Zenon
    <3> DEFINE table == MediaUpdate(c, m, "none", keep)
    <3>1. /\ m \in MediaStates /\ "none" \in Offers /\ "connecting" \in InvStates
          /\ m \in {"active", "localHold", "remoteHold"}
      BY <2>0, NegotiatedType DEF Offers, InvStates, Negotiated
    <3>2. /\ table \in [CallIds -> Call] /\ table[c].media = m
          /\ table[c].hangingUp = call[c].hangingUp
          /\ table[c].connected => call[c].connected
          /\ \A d \in CallIds \ {c} : table[d] = call[d]
      BY <1>0, <2>0, <3>1, MediaUpdates
    <3>3. call' = [table EXCEPT ![c].state = "connecting"]
      BY <2>1, <3>0, Zenon
    <3> HIDE DEF table
    <3>4. /\ call'[c].state = "connecting"
          /\ call'[c].media = m
          /\ call'[c].hangingUp = call[c].hangingUp
          /\ call'[c].connected => call[c].connected
          /\ \A d \in CallIds \ {c} : call'[d] = call[d]
      BY <2>0, <3>1, <3>2, <3>3, StateChange
    <3>5. IsActive(c)'
      BY <2>0, <3>4 DEF IsActive
    <3> QED
      BY <1>0, <2>0, <2>1, <3>1, <3>4, <3>5, MediaStep
  <2>2. ASSUME call' = [call EXCEPT ![c].state = "connecting"], UNCHANGED cb
        PROVE  AudioInv'
    <3>1. /\ call'[c].state = "connecting"
          /\ call'[c].media = call[c].media
          /\ call'[c].hangingUp = call[c].hangingUp
          /\ call'[c].connected = call[c].connected
          /\ \A d \in CallIds \ {c} : call'[d] = call[d]
      BY <1>0, <2>0, <2>2, StateChange DEF EngineTypeOK, InvStates
    <3>2. \A d \in CallIds : /\ IsActive(d) => IsActive(d)'
                             /\ call'[d].media = call[d].media
                             /\ call'[d].connected => call[d].connected
      BY <2>0, <3>1 DEF IsActive
    <3> QED
      BY <1>0, <2>0, <2>2, <3>2, QuietStep DEF AudioInv, TalkOK
  <2> QED
    BY <1>6, <2>0, <2>1, <2>2 DEF AnswerSend
<1>7. CASE RefreshConnect
  <2> DEFINE c == ui.line
             b == ui.connect
  <2>0. /\ c \in CallIds /\ b \in BOOLEAN
        /\ call' = SetConnected(c, b)
        /\ UNCHANGED <<focus, autoHold, cb>>
    BY <1>0, <1>7 DEF RefreshConnect, UiAt, UiOK, IInv, TypeOK, Operation
  <2>1. /\ HasPort(c) => call'[c].connected = b
        /\ ~HasPort(c) => call'[c].connected = call[c].connected
        /\ \A d \in CallIds \ {c} : call'[d] = call[d]
        /\ \A d \in CallIds : /\ call'[d].state = call[d].state
                              /\ call'[d].hangingUp = call[d].hangingUp
                              /\ call'[d].media = call[d].media
    BY <1>0, <2>0, ConnectedSet
  <2>2. \A d \in CallIds : /\ IsActive(d)' = IsActive(d)
                           /\ HasPort(d)' = HasPort(d)
                           /\ Connecting(d)' = Connecting(d)
                           /\ Rewiring(d)' = Rewiring(d)
    BY <2>0, <2>1 DEF IsActive, HasPort, Connecting, Rewiring
  <2>3. ConnectOK'
    BY <1>0, <2>0, <2>1, <2>2 DEF AudioInv, ConnectOK, CallbackOK, FrameOK, IsActive
  <2>4. PortOK'
    BY <2>1, <2>2 DEF AudioInv, PortOK
  <2>5. call'[c].connected => b
    BY <2>0, <2>1 DEF AudioInv, PortOK
  <2>6. HeldOK'
    <3> SUFFICES ASSUME NEW d \in CallIds, OnHold(d)', call'[d].connected
                 PROVE  d \in miswired' \/ Rewiring(d)'
      BY DEF HeldOK
    <3>1. CASE d = c
      BY <1>7, <2>1, <2>5, <3>1 DEF RefreshConnect, OnHold
    <3>2. CASE d # c
      BY <1>7, <2>1, <2>2, <3>2 DEF RefreshConnect, AudioInv, HeldOK, OnHold
    <3> QED
      BY <3>1, <3>2
  <2>7. TalkOK'
    <3>1. ASSUME NEW d \in CallIds \ {focus}, Steady, Heard(d)' PROVE d \in leftOn'
      <4>1. CASE d = c /\ call'[c].connected
        BY <1>7, <2>5, <3>1, <4>1 DEF RefreshConnect, AudioInv, TalkOK
      <4>2. CASE ~(d = c /\ call'[c].connected)
        <5>1. Heard(d)
          BY <2>1, <2>2, <3>1, <4>2 DEF Heard
        <5> QED
          BY <1>7, <3>1, <5>1 DEF RefreshConnect, AudioInv, TalkOK
      <4> QED
        BY <4>1, <4>2
    <3> QED
      BY <2>0, <3>1 DEF AudioInv, TalkOK, Steady
  <2> QED
    BY <2>3, <2>4, <2>6, <2>7 DEF AudioInv
<1>8. ASSUME NEW c \in CallIds, DestroyHangup(c) PROVE AudioInv'
  <2>0. /\ \A x \in Threads : cb[x].pc = "none"
        /\ UNCHANGED <<focus, autoHold>> /\ Forget(c)
    BY <1>8 DEF IInv, DestroyHangup, LifecycleOK, UiAt, Threads
  <2>1. CASE UNCHANGED <<call, cb>> /\ call[c].hangingUp
    <3>1. ~call[c].connected
      BY <2>1 DEF AudioInv, PortOK, HasPort, IsActive
    <3> QED
      BY <1>0, <2>0, <2>1, <3>1, SlotStep DEF Forget
  <2>2. CASE call' = HangUp(c) /\ Push("ui", "disconnected", c)
    <3>1. ~call'[c].connected /\ \A d \in CallIds \ {c} : call'[d] = call[d]
      BY <1>0, <2>2, SlotReset
    <3> QED
      BY <1>0, <2>0, <2>2, <3>1, EndStep DEF DialogFree
  <2> QED
    BY <1>8, <2>1, <2>2 DEF DestroyHangup
<1>9. CASE DestroyDone
  <2>0. /\ \A x \in Threads : cb'[x].pc = "none"
        /\ \A c \in CallIds : ~call'[c].connected
        /\ UNCHANGED autoHold
    BY <1>9 DEF IInv, DestroyDone, LifecycleOK, UiAt, Threads, NoCalls, FreeCall
  <2> QED
    BY <2>0 DEF AudioInv, ConnectOK, PortOK, HeldOK, TalkOK, Heard, Connecting
<1>10. CASE ShutdownReset
  <2>0. /\ \A x \in Threads : cb'[x].pc = "none"
        /\ \A c \in CallIds : ~call'[c].connected
        /\ UNCHANGED autoHold
    BY <1>10 DEF IInv, ShutdownReset, LifecycleOK, UiAt, Threads, NoCalls, FreeCall
  <2> QED
    BY <2>0 DEF AudioInv, ConnectOK, PortOK, HeldOK, TalkOK, Heard, Connecting
<1> QED
  BY <1>1, <1>2, <1>3, <1>4, <1>5, <1>6, <1>7, <1>8, <1>9, <1>10 DEF UiStep,
     HoldOthersStep

\* Callbacks, on either thread, keep the audio invariant.
LEMMA AudioCallbackSteps ==
  ASSUME IInv, AudioInv, NEW t \in Threads, CallbackStep(t)
  PROVE  AudioInv'
<1>0. /\ EngineTypeOK /\ cb \in [Threads -> Frame] /\ CallbackOK
      /\ DialogLock
  BY DEF IInv, TypeOK
<1>a. cb[t].pc # "none"
  BY DEF CallbackStep, DisconnectedCallback, ReleaseCall, MediaLoad, MediaClaim,
     MediaDecide, MediaConnect
<1>. PICK c \in CallIds : c = cb[t].call
  BY <1>0, <1>a DEF CallbackOK, FrameOK
<1>b. \A x \in Threads \ {t} : cb[x].pc = "none" \/ cb[x].call # c
  BY <1>0, <1>a DEF DialogLock
<1>1. CASE DisconnectedCallback(t)
  <2>1. ~call[c].connected
    BY <1>0, <1>1 DEF DisconnectedCallback, CallbackOK, FrameOK, AudioInv, PortOK,
       HasPort, IsActive
  <2>2. /\ cb'[t].pc # "mediaConnect" /\ cb[t].pc # "mediaConnect"
        /\ \A x \in Threads \ {t} : cb'[x] = cb[x]
    BY <1>0, <1>1 DEF DisconnectedCallback, Goto, NoFrame
  <2>3. /\ focus' = focus \/ focus = c
        /\ UNCHANGED <<call, autoHold, miswired, leftOn>>
    BY <1>1 DEF DisconnectedCallback, history
  <2> QED
    BY <1>0, <1>b, <2>1, <2>2, <2>3, SlotStep
<1>2. CASE ReleaseCall(t)
  <2>1. ~call'[c].connected /\ \A d \in CallIds \ {c} : call'[d] = call[d]
    BY <1>0, <1>2, SlotReset DEF ReleaseCall
  <2>2. /\ cb'[t].pc # "mediaConnect" /\ cb[t].pc # "mediaConnect"
        /\ \A x \in Threads \ {t} : cb'[x] = cb[x]
    BY <1>0, <1>2 DEF ReleaseCall, Goto, NoFrame
  <2>3. UNCHANGED <<focus, autoHold, miswired, leftOn>>
    BY <1>2 DEF ReleaseCall, history
  <2> QED
    BY <1>0, <1>b, <2>1, <2>2, <2>3, SlotStep
<1>3. CASE MediaLoad(t) \/ MediaClaim(t)
  <2>0. PICK p \in {"mediaClaim", "mediaDecide"} :
          cb[t].pc \in {"mediaLoad", "mediaClaim"} /\ Goto(t, p)
    BY <1>3 DEF MediaLoad, MediaClaim
  <2>1. /\ cb'[t].pc # "mediaConnect" /\ cb[t].pc # "mediaConnect"
        /\ \A x \in Threads \ {t} : cb'[x] = cb[x]
    BY <1>0, <2>0 DEF Goto
  <2>2. UNCHANGED <<call, autoHold, miswired>>
    BY <1>3 DEF MediaLoad, MediaClaim, history
  <2>3. /\ focus' = focus \/ focus = NoCall
        /\ leftOn \ {focus'} \subseteq leftOn'
    BY <1>3 DEF MediaLoad, MediaClaim, history
  <2>4. \A d \in CallIds : IsActive(d) => IsActive(d)'
    BY <2>2 DEF IsActive
  <2> QED
    BY <1>0, <2>1, <2>2, <2>3, <2>4, CallIdsAssumption, QuietStep DEF AudioInv,
       TalkOK
<1>4. CASE MediaDecide(t)
  <2>1. /\ cb'[t].pc = "mediaConnect" /\ cb'[t].call = c
        /\ \A x \in Threads \ {t} : cb'[x] = cb[x]
        /\ cb'[t].connect => ~autoHold \/ focus = c
    BY <1>0, <1>4 DEF MediaDecide, Frame
  <2>2. /\ UNCHANGED <<call, focus, autoHold, leftOn>>
        /\ miswired \ {c} \subseteq miswired'
    BY <1>4 DEF MediaDecide
  <2>3. IsActive(c) /\ call[c].media = "active"
    BY <1>0, <1>4 DEF MediaDecide, CallbackOK, FrameOK
  <2>4. ConnectOK'
    <3> SUFFICES ASSUME NEW x \in Threads, cb'[x].pc = "mediaConnect"
                 PROVE  (/\ IsActive(cb[x].call)
                         /\ cb[x].connect => call[cb[x].call].media = "active")'
      BY DEF ConnectOK
    <3>1. CASE x = t
      BY <2>1, <2>2, <2>3, <3>1 DEF IsActive
    <3>2. CASE x # t
      BY <2>1, <2>2, <3>2 DEF AudioInv, ConnectOK, IsActive
    <3> QED
      BY <3>1, <3>2
  <2>5. PortOK'
    BY <2>2 DEF AudioInv, PortOK, HasPort, IsActive
  <2>6. HeldOK'
    <3> SUFFICES ASSUME NEW d \in CallIds, OnHold(d)', call'[d].connected
                 PROVE  d \in miswired' \/ Rewiring(d)'
      BY DEF HeldOK
    <3>1. d # c /\ (d \in miswired \/ Rewiring(d))
      BY <2>2, <2>3 DEF AudioInv, HeldOK, OnHold
    <3> QED
      BY <2>1, <2>2, <3>1 DEF Rewiring
  <2>7. TalkOK'
    <3>1. ASSUME NEW d \in CallIds \ {focus}, Steady, Heard(d)' PROVE Heard(d)
      BY <2>1, <2>2, <3>1 DEF Heard, Connecting, AudioInv, TalkOK
    <3> QED
      BY <2>2, <3>1 DEF AudioInv, TalkOK, Steady
  <2> QED
    BY <2>4, <2>5, <2>6, <2>7 DEF AudioInv
<1>5. CASE MediaConnect(t)
  <2>. PICK b \in BOOLEAN : b = cb[t].connect
    BY <1>0 DEF Frame
  <2>1. /\ HasPort(c) => call'[c].connected = b
        /\ ~HasPort(c) => call'[c].connected = call[c].connected
        /\ \A d \in CallIds \ {c} : call'[d] = call[d]
        /\ \A d \in CallIds : /\ call'[d].state = call[d].state
                              /\ call'[d].hangingUp = call[d].hangingUp
                              /\ call'[d].media = call[d].media
    BY <1>0, <1>5, ConnectedSet DEF MediaConnect
  <2>2. /\ cb'[t].pc = "none" /\ cb[t].pc = "mediaConnect"
        /\ \A x \in Threads \ {t} : cb'[x] = cb[x]
    BY <1>0, <1>5 DEF MediaConnect, Goto, NoFrame
  <2>3. /\ UNCHANGED <<focus, autoHold>>
        /\ miswired \ {c} \subseteq miswired'
        /\ leftOn \ {c} \subseteq leftOn'
        /\ b => leftOn' = leftOn
    BY <1>5 DEF MediaConnect
  <2>4. /\ call'[c].connected => b
        /\ b => call[c].media = "active"
    BY <2>1, <2>2 DEF AudioInv, PortOK, ConnectOK
  <2>5. ConnectOK'
    BY <1>0, <2>1, <2>2 DEF AudioInv, ConnectOK, CallbackOK, FrameOK, IsActive
  <2>6. PortOK'
    BY <2>1 DEF AudioInv, PortOK, HasPort, IsActive
  <2>7. HeldOK'
    <3> SUFFICES ASSUME NEW d \in CallIds, OnHold(d)', call'[d].connected
                 PROVE  d \in miswired' \/ Rewiring(d)'
      BY DEF HeldOK
    <3>1. d # c
      BY <2>1, <2>4 DEF OnHold
    <3>2. d \in miswired \/ Rewiring(d)
      BY <2>1, <3>1 DEF AudioInv, HeldOK, OnHold
    <3> QED
      BY <2>2, <2>3, <3>1, <3>2 DEF Rewiring
  <2>8. TalkOK'
    <3>1. ASSUME NEW d \in CallIds \ {focus}, Steady, Heard(d)' PROVE d \in leftOn'
      <4>1. CASE d = c
        <5>1. ~Connecting(c)'
          BY <1>b, <2>2 DEF Connecting
        <5>2. b /\ Connecting(c)
          BY <2>2, <2>4, <3>1, <4>1, <5>1 DEF Heard, Connecting
        <5> QED
          BY <2>3, <3>1, <4>1, <5>2 DEF AudioInv, TalkOK, Heard
      <4>2. CASE d # c
        <5>1. Heard(d)
          BY <2>1, <2>2, <3>1, <4>2 DEF Heard, Connecting
        <5> QED
          BY <2>3, <3>1, <4>2, <5>1 DEF AudioInv, TalkOK
      <4> QED
        BY <4>1, <4>2
    <3> QED
      BY <2>3, <3>1 DEF AudioInv, TalkOK, Steady
  <2> QED
    BY <2>5, <2>6, <2>7, <2>8 DEF AudioInv
<1> QED
  BY <1>1, <1>2, <1>3, <1>4, <1>5 DEF CallbackStep

\* What the network brings keeps the audio invariant.
LEMMA AudioNetworkSteps ==
  ASSUME IInv, AudioInv, NetworkEvent
  PROVE  AudioInv'
<1>0. /\ EngineTypeOK /\ cb \in [Threads -> Frame] /\ CallbackOK
      /\ "worker" \in Threads
  BY DEF IInv, TypeOK, Threads
<1>1. ASSUME NEW c \in CallIds, IncomingCall(c) \/ HangupCompletes(c)
      PROVE  AudioInv'
  <2>1. ~call'[c].connected /\ \A d \in CallIds \ {c} : call'[d] = call[d]
    BY <1>0, <1>1, SlotReset DEF IncomingCall, HangupCompletes
  <2>2. \A x \in Threads : cb[x].pc = "none" \/ cb[x].call # c
    BY <1>1 DEF IncomingCall, HangupCompletes, WorkerReady, DialogFree
  <2>3. UNCHANGED <<cb, focus, autoHold, miswired, leftOn>>
    BY <1>1 DEF IncomingCall, HangupCompletes, history
  <2> QED
    BY <1>0, <2>1, <2>2, <2>3, SlotStep
<1>2. ASSUME NEW c \in CallIds, PeerEnds(c) PROVE AudioInv'
  <2>1. ~call'[c].connected /\ \A d \in CallIds \ {c} : call'[d] = call[d]
    BY <1>0, <1>2, SlotReset DEF PeerEnds
  <2> QED
    BY <1>0, <1>2, <2>1, EndStep DEF PeerEnds, WorkerReady
<1>3. ASSUME NEW c \in CallIds, NEW s \in InvStates \ {"free", "disconnected"},
             IsActive(c), call' = [call EXCEPT ![c].state = s],
             UNCHANGED <<cb, focus, autoHold, miswired, leftOn>>
      PROVE  AudioInv'
  <2>1. /\ call'[c].state = s
        /\ call'[c].media = call[c].media
        /\ call'[c].hangingUp = call[c].hangingUp
        /\ call'[c].connected = call[c].connected
        /\ \A d \in CallIds \ {c} : call'[d] = call[d]
    BY <1>0, <1>3, StateChange DEF EngineTypeOK
  <2>2. \A d \in CallIds : /\ IsActive(d) => IsActive(d)'
                           /\ call'[d].media = call[d].media
                           /\ call'[d].connected => call[d].connected
    BY <1>3, <2>1 DEF IsActive
  <2> QED
    BY <1>0, <1>3, <2>2, QuietStep DEF AudioInv, TalkOK
<1>4. ASSUME NEW c \in CallIds, Accepted(c) \/ Confirmed(c) PROVE AudioInv'
  <2>1. /\ "connecting" \in InvStates \ {"free", "disconnected"}
        /\ "confirmed" \in InvStates \ {"free", "disconnected"}
    BY DEF InvStates
  <2> QED
    BY <1>3, <1>4, <2>1 DEF Accepted, Confirmed, history
<1>5. ASSUME NEW c \in CallIds, Provisional(c) PROVE AudioInv'
  <2>0. /\ cb["worker"].pc = "none" /\ DialogFree("worker", c) /\ IsActive(c)
        /\ UNCHANGED <<focus, autoHold, miswired, leftOn>>
        /\ "early" \in InvStates \ {"free", "disconnected"}
    BY <1>5 DEF Provisional, WorkerReady, InvStates, history
  <2>1. ASSUME call' = [call EXCEPT ![c].state = "early"], UNCHANGED cb
        PROVE  AudioInv'
    BY <1>3, <2>0, <2>1
  <2>2. ASSUME NEW m \in Negotiated(c),
               call' = [MediaUpdate(c, m, "none", TRUE) EXCEPT ![c].state = "early"],
               PushMedia("worker", c, m)
        PROVE  AudioInv'
    <3>0. PICK keep \in BOOLEAN : keep = TRUE
      BY Zenon
    <3> DEFINE table == MediaUpdate(c, m, "none", keep)
    <3>1. /\ m \in MediaStates /\ "none" \in Offers
          /\ m \in {"active", "localHold", "remoteHold"}
      BY NegotiatedType DEF Offers, Negotiated
    <3>2. /\ table \in [CallIds -> Call] /\ table[c].media = m
          /\ table[c].hangingUp = call[c].hangingUp
          /\ table[c].connected => call[c].connected
          /\ \A d \in CallIds \ {c} : table[d] = call[d]
      BY <1>0, <2>0, <3>1, MediaUpdates
    <3>3. call' = [table EXCEPT ![c].state = "early"]
      BY <2>2, <3>0, Zenon
    <3> HIDE DEF table
    <3>4. /\ call'[c].state = "early"
          /\ call'[c].media = m
          /\ call'[c].hangingUp = call[c].hangingUp
          /\ call'[c].connected => call[c].connected
          /\ \A d \in CallIds \ {c} : call'[d] = call[d]
      BY <2>0, <3>1, <3>2, <3>3, StateChange
    <3>5. IsActive(c)'
      BY <2>0, <3>4 DEF IsActive
    <3> QED
      BY <1>0, <2>0, <2>2, <3>1, <3>4, <3>5, MediaStep
  <2> QED
    BY <1>5, <2>1, <2>2 DEF Provisional
<1>6. ASSUME NEW c \in CallIds, MediaUp(c) \/ PeerReinvite(c) \/ ReinviteAccepted(c)
      PROVE  AudioInv'
  <2>0. /\ cb["worker"].pc = "none" /\ DialogFree("worker", c) /\ IsActive(c)
        /\ UNCHANGED <<focus, autoHold, miswired, leftOn>>
    BY <1>6 DEF MediaUp, PeerReinvite, ReinviteAccepted, WorkerReady, CanReinvite,
       history
  <2>1. PICK m \in Negotiated(c), keep \in BOOLEAN :
          call' = MediaUpdate(c, m, "none", keep) /\ PushMedia("worker", c, m)
    BY <1>6 DEF MediaUp, PeerReinvite, ReinviteAccepted
  <2>2. /\ m \in MediaStates /\ "none" \in Offers
        /\ m \in {"active", "localHold", "remoteHold"}
    BY NegotiatedType DEF Offers, Negotiated
  <2>3. /\ call'[c].state = call[c].state
        /\ call'[c].media = m
        /\ call'[c].hangingUp = call[c].hangingUp
        /\ call'[c].connected => call[c].connected
        /\ \A d \in CallIds \ {c} : call'[d] = call[d]
    BY <1>0, <2>1, <2>2, MediaUpdates
  <2>4. IsActive(c)'
    BY <2>0, <2>3 DEF IsActive
  <2> QED
    BY <1>0, <2>0, <2>1, <2>2, <2>3, <2>4, MediaStep
<1>7. ASSUME NEW c \in CallIds, ReinviteRefused(c) PROVE AudioInv'
  <2>1. \A d \in CallIds : /\ call'[d].state = call[d].state
                           /\ call'[d].hangingUp = call[d].hangingUp
                           /\ call'[d].media = call[d].media
                           /\ call'[d].connected = call[d].connected
    BY <1>0, <1>7, OfferSet DEF ReinviteRefused
  <2> QED
    BY <1>0, <1>7, <2>1, OfferStep DEF ReinviteRefused, HoldFailed, Miswire
<1> QED
  BY <1>1, <1>2, <1>4, <1>5, <1>6, <1>7 DEF NetworkEvent

\* No call has audio in the initial state, and the auto-hold switch is on.
LEMMA InitAudio == Init => AudioInv
  BY DEF Init, AudioInv, ConnectOK, PortOK, HeldOK, TalkOK, Heard, Connecting,
     NoCalls, FreeCall, NoFrame

\* Every step of the service preserves the audio invariant.
LEMMA StepAudio == IInv /\ AudioInv /\ [Next]_vars => AudioInv'
<1> SUFFICES ASSUME IInv, AudioInv, [Next]_vars PROVE AudioInv'
  OBVIOUS
<1>1. CASE UserRequest
  BY <1>1, AudioUserSteps
<1>2. CASE CallbackStep("ui") \/ CallbackStep("worker")
  BY <1>2, AudioCallbackSteps DEF Threads
<1>3. CASE UiStep /\ ~CallbackStep("ui")
  BY <1>3, AudioUiSteps
<1>4. CASE NetworkEvent
  BY <1>4, AudioNetworkSteps
<1>5. CASE UNCHANGED vars
  BY <1>5, AudioKept DEF vars, IInv
<1> QED
  BY <1>1, <1>2, <1>3, <1>4, <1>5 DEF Next

\* The audio invariant holds of every state of every instance.
LEMMA AudioInvariance == Spec => []AudioInv
  BY Invariance, InitAudio, StepAudio, PTL DEF Spec

\* However holds, media updates and device refreshes interleave, a line whose
\* media is on hold is silent once nothing is under way, unless a failed request
\* or a refresh that acted on stale facts has rewired it.
THEOREM HeldLinesAreSilent == Spec => []HeldIsSilent
<1>1. IInv /\ AudioInv => HeldIsSilent
  BY DEF IInv, AudioInv, HeldOK, OnHold, Rewiring, HeldIsSilent, Settled, UiIdle,
     Threads
<1> QED
  BY <1>1, Invariance, AudioInvariance, PTL

\* As long as the user leaves auto-hold on, no interleaving connects a line
\* without the focus: what is heard beside the selected line was heard when the
\* focus left it.
THEOREM BackgroundIsNeverConnected ==
  ASSUME AutoHoldSettings \subseteq {TRUE}
  PROVE  Spec => []OnlySelectedTalks
<1>1. AudioInv => OnlySelectedTalks
  BY DEF AudioInv, TalkOK, Steady, Heard, OnlySelectedTalks
<1> QED
  BY <1>1, AudioInvariance, PTL

-----------------------------------------------------------------------------

(***************************************************************************)
(* The lines beside the selected one. BackInv follows the loop that holds  *)
(* them: at every statement, each line that is neither held nor excused is *)
(* the selected one, the one the operation is about to select, or still    *)
(* ahead of the loop.                                                      *)
(***************************************************************************)

\* What the engine's call table says of hangups and of our re-INVITEs.
TableOK ==
  \A c \in CallIds : /\ call[c].hangingUp => call[c].state = "disconnected"
                     /\ call[c].offer # "none" => call[c].state = "confirmed"

\* A line the user placed or answered.
Live(c) == IsActive(c) /\ call[c].state # "incoming"

\* Such a line that is neither on hold nor excused from it.
Open(c) == Live(c) /\ ~call[c].localHold /\ c \notin unheld

\* The lines HoldOtherConfirmedCalls has still to hold.
Left == IF ui.pc = "scan" THEN ui.todo
        ELSE IF ui.pc \in {"holdCut", "holdSend"} THEN ui.todo \cup {ui.line} ELSE {}

\* Only the line with the focus, or one about to get it, is open.
FocusOpen ==
  \A c \in CallIds : Open(c) => c = IF ui.pc = "select" THEN ui.call ELSE focus

\* Before a line gets the focus, the loop closes every other.
OthersLeft ==
  ui.op \in {"make", "answer", "resume"} =>
    \A d \in CallIds :
      Open(d) => \/ d \in Left
                 \/ d = ui.call /\ (ui.op = "make" => ui.pc = "select")

\* At each statement after the focus has moved, the line it is about.
CalleeOK ==
  /\ ui.pc = "clear" => ~Open(ui.call)
  /\ ui.pc = "answerSend" /\ call[ui.call].state = "incoming" =>
       focus = ui.call \/ ui.call \in unheld
  /\ ui.pc = "resumeSend" /\ Live(ui.call) => focus = ui.call

BackOK == FocusOpen /\ OthersLeft /\ CalleeOK

BackInv == TableOK /\ (Steady => BackOK)

\* The operation goes on, with no line dealt with and no focus moved.
GoesOn ==
  \/ ui' = ui
  \/ /\ ui'.op = ui.op /\ ui'.call = ui.call
     /\ Left \subseteq Left'
     /\ ui.pc # "select"
     /\ ui'.pc \notin {"select", "clear", "answerSend", "resumeSend"}

\* Steps that open no line, and take the focus of no line that is in progress.
LEMMA BackQuiet ==
  ASSUME UiOK, BackInv, GoesOn, TableOK',
         \A c \in CallIds :
           /\ Open(c)' => Open(c)
           /\ Live(c)' => Live(c)
           /\ call'[c].state = "incoming" /\ c = ui.call =>
                \/ call[c].state = "incoming" /\ (c \in unheld => c \in unheld')
                \/ c \in unheld'
           /\ focus = c /\ IsActive(c)' => focus' = c
  PROVE  BackInv'
<1> SUFFICES ASSUME Steady PROVE BackOK'
  BY DEF BackInv, Steady
<1>1. BackOK
  BY DEF BackInv
<1>2. \A c \in CallIds : Open(c)' \/ Live(c)' \/ call'[c].state = "incoming" => IsActive(c)'
  BY DEF Open, Live, IsActive, TableOK
<1>3. FocusOpen'
  BY <1>1, <1>2 DEF BackOK, FocusOpen, GoesOn
<1>4. OthersLeft'
  BY <1>1 DEF BackOK, OthersLeft, GoesOn, Left
<1>5. CalleeOK'
  BY <1>1, <1>2 DEF BackOK, CalleeOK, GoesOn, UiOK
<1> QED
  BY <1>3, <1>4, <1>5 DEF BackOK

\* Steps that change neither the state nor the hold of a line.
LEMMA BackKept ==
  ASSUME UiOK, BackInv, GoesOn, UNCHANGED <<focus, unheld>>,
         \A c \in CallIds : /\ call'[c].state = call[c].state
                            /\ call'[c].hangingUp = call[c].hangingUp
                            /\ call'[c].localHold = call[c].localHold
                            /\ call'[c].offer = call[c].offer
  PROVE  BackInv'
<1>1. \A c \in CallIds : /\ Open(c)' => Open(c)
                         /\ Live(c)' => Live(c)
  BY DEF Open, Live, IsActive
<1>2. TableOK'
  BY DEF BackInv, TableOK
<1> QED
  BY <1>1, <1>2, BackQuiet

\* An operation that holds no lines only needs the focus to be on the open one.
LEMMA BackIdle ==
  ASSUME UiOK', TableOK', ui'.op \notin {"make", "answer", "resume"},
         ui'.pc \notin {"clear", "select"},
         Steady => \A c \in CallIds : Open(c)' => focus' = c
  PROVE  BackInv'
  BY DEF BackInv, BackOK, FocusOpen, OthersLeft, CalleeOK, UiOK, Steady

\* A call that begins unanswered, is over, or is given up opens no line.
LEMMA BackSlot ==
  ASSUME EngineTypeOK, UiOK, BackInv, UNCHANGED ui, NEW c \in CallIds,
         \/ call' = Disconnect(c) \/ call' = HangUp(c) \/ call' = Release(c),
         \A d \in CallIds \ {c} : d \in unheld' <=> d \in unheld,
         UNCHANGED focus
  PROVE  BackInv'
<1>1. /\ \A d \in CallIds \ {c} : call'[d] = call[d]
      /\ call'[c].offer = "none" /\ call'[c].state \in {"disconnected", "free"}
      /\ call'[c].hangingUp => call'[c].state = "disconnected"
  BY SlotReset
<1>2. \A d \in CallIds : /\ Open(d)' => Open(d)
                         /\ Live(d)' => Live(d)
  BY <1>1 DEF Open, Live, IsActive
<1>3. TableOK'
  BY <1>1 DEF BackInv, TableOK
<1> QED
  BY <1>1, <1>2, <1>3, BackQuiet DEF GoesOn

\* Requests of the user open no line behind the loop.
LEMMA BackUserSteps ==
  ASSUME IInv, AudioInv, BackInv, UserRequest
  PROVE  BackInv'
<1>0. EngineTypeOK /\ UiOK /\ TableOK /\ UiOK'
  BY UserSteps DEF IInv, TypeOK, BackInv
<1>1. CASE call' = call /\ UNCHANGED <<focus, unheld>>
  <2>0. TableOK' /\ \A c \in CallIds : Open(c)' = Open(c) /\ Live(c)' = Live(c)
    BY <1>0, <1>1 DEF TableOK, Open, Live, IsActive
  <2>1. CASE ui' = ui
    BY <1>0, <1>1, <2>1, BackKept DEF GoesOn
  <2>2. CASE \/ RefreshSystemAudioDevices \/ Shutdown
             \/ \E c \in CallIds : HoldCall(c)
    <3>1. /\ ui'.op \notin {"make", "answer", "resume"}
          /\ ui'.pc \notin {"clear", "select"} /\ ui.pc = "idle"
      BY <2>2 DEF RefreshSystemAudioDevices, Shutdown, HoldCall, Begin, UiIdle
    <3>2. Steady => \A c \in CallIds : Open(c)' => focus' = c
      BY <1>1, <2>0, <3>1 DEF BackInv, BackOK, FocusOpen
    <3> QED
      BY <1>0, <2>0, <3>1, <3>2, BackIdle
  <2>3. CASE MakeCall \/ \E c \in CallIds : AnswerCall(c) \/ ResumeCall(c)
    <3>1. /\ ui'.pc = "scan" /\ ui.pc = "idle"
          /\ Steady => EnumCalls \ {ui'.call} \subseteq ui'.todo
          /\ ui'.op = "make" => ui'.call \notin CallIds
      BY <2>3, CallIdsAssumption DEF MakeCall, AnswerCall, ResumeCall, Begin, UiIdle, AudioInv, TalkOK
    <3>2. \A d \in CallIds : Open(d) => d \in EnumCalls
      BY DEF Open, Live, IsActive, EnumCalls
    <3>3. Steady => FocusOpen' /\ OthersLeft' /\ CalleeOK'
      BY <1>1, <2>0, <3>1, <3>2 DEF BackInv, BackOK, FocusOpen, OthersLeft,
         CalleeOK, Left
    <3> QED
      BY <2>0, <3>3 DEF BackInv, BackOK, Steady
  <2> QED
    BY <1>1, <2>1, <2>2, <2>3 DEF UserRequest, MakeCall, AnswerCall, RejectCall,
       HangupCall, HangupInactiveCall, HoldCall, ResumeCall,
       SetAutoHoldOnIncoming, RefreshSystemAudioDevices, Initialize, Shutdown
<1>2. ASSUME NEW c \in CallIds, RejectCall(c) \/ HangupCall(c) PROVE BackInv'
  BY <1>0, <1>2, BackSlot DEF RejectCall, HangupCall, Forget
<1>3. ASSUME NEW c \in CallIds, HangupInactiveCall(c) PROVE BackInv'
  <2>1. \A d \in CallIds : /\ Open(d)' => Open(d)
                           /\ Live(d)' => Live(d)
                           /\ focus = d => ~IsActive(d)'
    BY <1>3 DEF HangupInactiveCall, Open, Live, IsActive, history
  <2>2. TableOK' /\ GoesOn /\ UNCHANGED <<call, unheld>>
    BY <1>0, <1>3 DEF HangupInactiveCall, TableOK, GoesOn, history
  <2> QED
    BY <1>0, <2>1, <2>2, BackQuiet
<1> QED
  <2>1. CASE \/ MakeCall \/ RefreshSystemAudioDevices \/ Initialize \/ Shutdown
             \/ \E c \in CallIds : AnswerCall(c) \/ HoldCall(c) \/ ResumeCall(c)
             \/ \E b \in AutoHoldSettings : SetAutoHoldOnIncoming(b)
    BY <1>1, <2>1 DEF MakeCall, RefreshSystemAudioDevices, Initialize, Shutdown,
       AnswerCall, HoldCall, ResumeCall, SetAutoHoldOnIncoming, history
  <2> QED
    BY <1>2, <1>3, <2>1 DEF UserRequest

\* The loop and the statements around it open no line either.
LEMMA BackUiSteps ==
  ASSUME IInv, AudioInv, BackInv, UiStep, ~CallbackStep("ui"), IInv'
  PROVE  BackInv'
<1>0. /\ EngineTypeOK /\ UiOK /\ TableOK /\ UiOK' /\ ui \in Operation
      /\ \A c \in CallIds : Steady /\ Open(c) => focus = c \/ ui.pc = "select"
  BY DEF IInv, TypeOK, BackInv, BackOK, FocusOpen
<1>1. CASE \/ \E d \in CallIds : ScanHold(d)
           \/ AnswerLoad \/ AnswerFails \/ DestroyJoin
           \/ \E d \in CallIds : RefreshScan(d)
  <2>1. UNCHANGED <<call, focus, unheld>>
    BY <1>1 DEF ScanHold, AnswerLoad, AnswerFails, RefreshScan, DestroyJoin, history
  <2>2. GoesOn
    <3>1. CASE \E d \in CallIds : ScanHold(d)
      BY <1>0, <3>1 DEF ScanHold, UiAt, GoesOn, Left, Operation
    <3>2. CASE AnswerLoad
      BY <1>0, <3>2 DEF AnswerLoad, ScanDone, UiAt, GoesOn, Left, Operation
    <3>3. CASE AnswerFails \/ DestroyJoin
      BY <1>0, <3>3 DEF AnswerFails, DestroyJoin, UiAt, GoesOn, Left, Operation
    <3>4. CASE \E d \in CallIds : RefreshScan(d)
      BY <1>0, <3>4 DEF RefreshScan, UiAt, GoesOn, Left, Operation
    <3> QED
      BY <1>1, <3>1, <3>2, <3>3, <3>4
  <2> QED
    BY <1>0, <2>1, <2>2, BackKept
<1>2. CASE HoldCut \/ HoldCallCut \/ RefreshCut \/ RefreshConnect
  <2>1. \E c \in CallIds, b \in BOOLEAN : call' = SetConnected(c, b)
    BY <1>0, <1>2 DEF HoldCut, HoldCallCut, RefreshCut, RefreshConnect, UiOK, UiAt,
       Operation
  <2>2. PICK c \in CallIds, b \in BOOLEAN : call' = SetConnected(c, b)
    BY <2>1, Zenon
  <2>3. \A d \in CallIds : /\ call'[d].state = call[d].state
                           /\ call'[d].hangingUp = call[d].hangingUp
                           /\ call'[d].localHold = call[d].localHold
                           /\ call'[d].offer = call[d].offer
    BY <1>0, <2>2, ConnectedSet
  <2>4. GoesOn
    BY <1>0, <1>2 DEF HoldCut, HoldCallCut, RefreshCut, RefreshConnect, UiAt,
       GoesOn, Left, Operation
  <2>5. UNCHANGED <<focus, unheld>>
    BY <1>2 DEF HoldCut, HoldCallCut, RefreshCut, RefreshConnect
  <2> QED
    BY <1>0, <2>3, <2>4, <2>5, BackKept
<1>3. ASSUME NEW d \in CallIds, ScanSkip(d) PROVE BackInv'
  <2>1. /\ ui.pc = "scan" /\ ui'.pc = "scan" /\ ui'.op = ui.op
        /\ ui'.call = ui.call /\ ui'.todo = ui.todo \ {d}
        /\ UNCHANGED <<call, focus>> /\ unheld \subseteq unheld'
    BY <1>0, <1>3 DEF ScanSkip, UiAt, Operation
  <2>2. \A c \in CallIds : Open(c)' => Open(c) /\ c # d
    BY <1>3, <2>1 DEF ScanSkip, Open, Live, IsActive
  <2>3. TableOK'
    BY <1>0, <2>1 DEF TableOK
  <2>4. Steady => FocusOpen' /\ OthersLeft' /\ CalleeOK'
    BY <2>1, <2>2 DEF BackInv, BackOK, FocusOpen, OthersLeft, CalleeOK, Left
  <2> QED
    BY <2>3, <2>4 DEF BackInv, BackOK, Steady
<1>4. CASE HoldSend
  <2> DEFINE c == ui.line
  <2>1. /\ ui.pc = "holdSend" /\ ui'.pc = "scan" /\ ui'.op = ui.op /\ c \in CallIds
        /\ ui'.call = ui.call /\ ui'.todo = ui.todo
        /\ UNCHANGED focus /\ unheld \subseteq unheld'
    BY <1>0, <1>4 DEF HoldSend, UiAt, Operation, UiOK, HoldFailed, history
  <2>2. TableOK' /\ \A d \in CallIds : Open(d)' => Open(d) /\ d # c
    <3>1. CASE call' = call /\ unheld' = unheld \cup {d \in {c} : IsActive(d)}
      BY <1>0, <2>1, <3>1 DEF TableOK, Open, Live, IsActive
    <3>2. CASE CanReinvite(c) /\ call' = SendHold(c) /\ unheld' = unheld
      <4>1. /\ \A d \in CallIds \ {c} : call'[d] = call[d]
            /\ call'[c].localHold
            /\ call'[c].state = call[c].state
            /\ call'[c].hangingUp = call[c].hangingUp
        BY <1>0, <2>1, <3>2, OfferSet
      <4> QED
        BY <1>0, <3>2, <4>1 DEF TableOK, Open, Live, IsActive, CanReinvite
    <3> QED
      BY <1>4, <3>1, <3>2 DEF HoldSend, HoldFailed, history
  <2>3. Steady => FocusOpen' /\ OthersLeft' /\ CalleeOK'
    BY <2>1, <2>2 DEF BackInv, BackOK, FocusOpen, OthersLeft, CalleeOK, Left
  <2> QED
    BY <2>2, <2>3 DEF BackInv, BackOK, Steady
<1>5. CASE MakeCallInvite
  <2>0. ui.pc = "scan" /\ ui.todo = {} /\ ui.op = "make" /\ UNCHANGED <<focus, unheld>>
    BY <1>5 DEF MakeCallInvite, ScanDone, UiAt, history
  <2>1. CASE call' = call /\ ui' = Idle
    <3>1. TableOK' /\ \A c \in CallIds : Open(c)' => Open(c)
      BY <1>0, <2>0, <2>1 DEF TableOK, Open, Live, IsActive
    <3>2. Steady => \A c \in CallIds : Open(c)' => focus' = c
      BY <1>0, <2>0, <3>1
    <3> QED
      BY <1>0, <2>1, <3>1, <3>2, BackIdle DEF Idle, Begin
  <2>2. ASSUME NEW c \in CallIds \ EnumCalls, call' = PlaceCall(c),
               ui' = [ui EXCEPT !.pc = "select", !.call = c]
        PROVE  BackInv'
    <3>1. /\ \A d \in CallIds \ {c} : call'[d] = call[d]
          /\ call'[c].offer = "none"
          /\ call'[c].hangingUp => call'[c].state = "disconnected"
      BY <1>0, <2>2, SlotReset
    <3>2. ui'.pc = "select" /\ ui'.op = "make" /\ ui'.call = c
      BY <1>0, <2>0, <2>2 DEF Operation
    <3>3. ~Open(c)
      BY <2>2 DEF Open, Live, IsActive, EnumCalls
    <3>4. \A d \in CallIds \ {c} : Open(d)' = Open(d)
      BY <2>0, <3>1 DEF Open, Live, IsActive
    <3>5. TableOK'
      BY <1>0, <3>1 DEF TableOK
    <3>6. Steady => \A d \in CallIds \ {c} : ~Open(d)
      BY <2>0 DEF BackInv, BackOK, OthersLeft, Left
    <3>7. Steady => FocusOpen' /\ OthersLeft' /\ CalleeOK'
      BY <3>2, <3>4, <3>6 DEF FocusOpen, OthersLeft, CalleeOK
    <3> QED
      BY <3>5, <3>7 DEF BackInv, BackOK, Steady
  <2> QED
    BY <1>5, <2>1, <2>2 DEF MakeCallInvite
<1>6. CASE AnswerSelect \/ ResumeSelect
  <2>1. /\ ui.pc \in {"answerSelect", "scan"} /\ Left = {} /\ ui.call \in CallIds
        /\ ui.op \in {"answer", "resume"} /\ ui'.op = ui.op
        /\ ui'.pc \in {"answerSend", "resumeSend"} /\ ui'.call = ui.call
        /\ focus' = ui.call /\ unheld' = unheld \ {ui.call} /\ call' = call
    BY <1>0, <1>6 DEF AnswerSelect, ResumeSelect, ScanDone, UiAt, Left, UiOK,
       Operation
  <2>2. \A d \in CallIds \ {ui.call} : Open(d)' = Open(d)
    BY <2>1 DEF Open, Live, IsActive
  <2>3. Steady => \A d \in CallIds \ {ui.call} : ~Open(d)
    BY <2>1 DEF BackInv, BackOK, OthersLeft
  <2>4. TableOK'
    BY <1>0, <2>1 DEF TableOK
  <2>5. Steady => FocusOpen' /\ OthersLeft' /\ CalleeOK'
    BY <2>1, <2>2, <2>3 DEF FocusOpen, OthersLeft, CalleeOK
  <2> QED
    BY <2>4, <2>5 DEF BackInv, BackOK, Steady
<1>7. CASE MakeCallSelect
  <2>1. /\ ui.pc = "select" /\ ui'.op = "none" /\ ui'.pc = "idle"
        /\ focus' = ui.call /\ unheld' = unheld \ {ui.call} /\ call' = call
    BY <1>7 DEF MakeCallSelect, UiAt, Idle, Begin
  <2>2. \A d \in CallIds \ {ui.call} : Open(d)' = Open(d)
    BY <2>1 DEF Open, Live, IsActive
  <2>3. Steady => \A d \in CallIds : Open(d)' => focus' = d
    BY <1>7, <2>1, <2>2 DEF BackInv, BackOK, FocusOpen
  <2>4. TableOK'
    BY <1>0, <2>1 DEF TableOK
  <2> QED
    BY <1>0, <2>1, <2>3, <2>4, BackIdle
<1>8. CASE AnswerSend
  <2>. PICK c \in CallIds : c = ui.call
    BY <1>0, <1>8 DEF AnswerSend, UiAt, UiOK
  <2>0. /\ c = ui.call /\ ui.pc = "answerSend"
        /\ call[c].state = "incoming" /\ ~call[c].hangingUp
        /\ ui'.op = "none" /\ ui'.pc = "idle"
        /\ UNCHANGED <<focus, unheld>>
    BY <1>8 DEF AnswerSend, UiAt, CanAnswer, IsActive, history, Idle, Begin
  <2>1. /\ \A d \in CallIds \ {c} : call'[d] = call[d]
        /\ call'[c].offer = "none"
        /\ ~call'[c].hangingUp
    <3>1. ASSUME NEW m \in Negotiated(c), NEW keep \in BOOLEAN,
                 call' = [MediaUpdate(c, m, "none", keep)
                            EXCEPT ![c].state = "connecting"]
          PROVE  /\ \A d \in CallIds \ {c} : call'[d] = call[d]
                 /\ call'[c].offer = "none"
                 /\ ~call'[c].hangingUp
      <4> DEFINE table == MediaUpdate(c, m, "none", keep)
      <4>1. /\ m \in MediaStates /\ "none" \in Offers /\ "connecting" \in InvStates
        BY NegotiatedType DEF Offers, InvStates
      <4>2. /\ table \in [CallIds -> Call] /\ table[c].offer = "none"
            /\ table[c].hangingUp = call[c].hangingUp
            /\ \A d \in CallIds \ {c} : table[d] = call[d]
        BY <1>0, <4>1, MediaUpdates
      <4>3. call' = [table EXCEPT ![c].state = "connecting"]
        BY <3>1
      <4> HIDE DEF table
      <4> QED
        BY <2>0, <4>1, <4>2, <4>3, StateChange
    <3>2. ASSUME call' = [call EXCEPT ![c].state = "connecting"]
          PROVE  /\ \A d \in CallIds \ {c} : call'[d] = call[d]
                 /\ call'[c].offer = "none"
                 /\ ~call'[c].hangingUp
      <4>1. "connecting" \in InvStates /\ call[c].offer = "none"
        BY <1>0, <2>0 DEF InvStates, TableOK
      <4> QED
        BY <1>0, <2>0, <3>2, <4>1, StateChange DEF EngineTypeOK
    <3>3. TRUE \in BOOLEAN /\ FALSE \in BOOLEAN
      OBVIOUS
    <3> QED
      BY <1>8, <2>0, <3>1, <3>2, <3>3, Zenon DEF AnswerSend
  <2>2. TableOK'
    BY <1>0, <2>1 DEF TableOK
  <2>3. Steady => \A d \in CallIds : Open(d)' => focus' = d
    <3>1. \A d \in CallIds \ {c} : Open(d)' = Open(d)
      BY <2>0, <2>1 DEF Open, Live, IsActive
    <3>2. Steady /\ Open(c)' => focus = c
      BY <2>0 DEF Open, BackInv, BackOK, CalleeOK
    <3> QED
      BY <2>0, <3>1, <3>2 DEF BackInv, BackOK, FocusOpen
  <2> QED
    BY <1>0, <2>0, <2>2, <2>3, BackIdle
<1>9. CASE AnswerRestore
  <2>1. /\ ui.pc = "answerRestore" /\ ui.op = "answer" /\ ui.call \in CallIds
        /\ ui'.op = "none" /\ ui'.pc = "idle" /\ call' = call
        /\ unheld' = unheld \cup {c \in {ui.call} : IsActive(c)}
    BY <1>0, <1>9 DEF AnswerRestore, UiAt, Idle, Begin, UiOK
  <2>2. TableOK' /\ \A c \in CallIds : Open(c)' => Open(c) /\ c # ui.call
    BY <1>0, <2>1 DEF TableOK, Open, Live, IsActive
  <2>3. Steady => \A c \in CallIds : ~Open(c)'
    BY <2>1, <2>2 DEF BackInv, BackOK, OthersLeft, Left
  <2> QED
    BY <1>0, <2>1, <2>2, <2>3, BackIdle
<1>10. CASE HoldCallSend
  <2>. PICK c \in CallIds : c = ui.call
    BY <1>0, <1>10 DEF HoldCallSend, UiAt, UiOK
  <2>0. ui.pc = "send" /\ ui.op = "hold" /\ UNCHANGED focus
    BY <1>0, <1>10 DEF HoldCallSend, UiAt, UiOK
  <2>1. CASE ui' = Idle /\ call' = call /\ HoldFailed(c)
    <3>1. TableOK' /\ \A d \in CallIds : Open(d)' => Open(d)
      BY <1>0, <2>1 DEF TableOK, Open, Live, IsActive, HoldFailed
    <3>2. Steady => \A d \in CallIds : Open(d)' => focus' = d
      BY <2>0, <3>1 DEF BackInv, BackOK, FocusOpen
    <3> QED
      BY <1>0, <2>1, <3>1, <3>2, BackIdle DEF Idle, Begin
  <2>2. CASE /\ CanReinvite(c) /\ call' = SendHold(c) /\ unheld' = unheld
             /\ ui' = [ui EXCEPT !.pc = "clear"]
    <3>0. ui'.pc = "clear" /\ ui'.op = "hold" /\ ui'.call = c
      BY <1>0, <2>0, <2>2 DEF Operation
    <3>1. /\ \A d \in CallIds \ {c} : call'[d] = call[d]
          /\ call'[c].localHold
          /\ call'[c].state = call[c].state
          /\ call'[c].hangingUp = call[c].hangingUp
      BY <1>0, <2>2, OfferSet
    <3>2. TableOK' /\ \A d \in CallIds : Open(d)' => Open(d) /\ d # c
      BY <1>0, <2>2, <3>1 DEF TableOK, Open, Live, IsActive, CanReinvite
    <3>3. Steady => FocusOpen' /\ OthersLeft' /\ CalleeOK'
      BY <2>0, <3>0, <3>2 DEF BackInv, BackOK, FocusOpen, OthersLeft, CalleeOK
    <3> QED
      BY <3>2, <3>3 DEF BackInv, BackOK, Steady
  <2> QED
    BY <1>10, <2>1, <2>2 DEF HoldCallSend, history
<1>11. CASE HoldCallClear
  <2>1. /\ ui.pc = "clear" /\ ui.call \in CallIds /\ UNCHANGED <<call, unheld>>
        /\ ui'.op = "none" /\ ui'.pc = "idle"
        /\ focus' = focus \/ focus = ui.call
    BY <1>0, <1>11 DEF HoldCallClear, UiAt, Idle, Begin, UiOK
  <2>2. TableOK' /\ \A c \in CallIds : Open(c)' = Open(c)
    BY <1>0, <2>1 DEF TableOK, Open, Live, IsActive
  <2>3. Steady => \A c \in CallIds : Open(c)' => focus' = c
    BY <2>1, <2>2 DEF BackInv, BackOK, FocusOpen, CalleeOK
  <2> QED
    BY <1>0, <2>1, <2>2, <2>3, BackIdle
<1>12. CASE ResumeSend
  <2>. PICK c \in CallIds : c = ui.call
    BY <1>0, <1>12 DEF ResumeSend, UiAt, UiOK
  <2>0. /\ ui.pc = "resumeSend" /\ UNCHANGED <<focus, unheld>>
        /\ ui'.op = "none" /\ ui'.pc = "idle"
    BY <1>12 DEF ResumeSend, UiAt, Idle, Begin, history
  <2>1. TableOK' /\ \A d \in CallIds : Open(d)' => Open(d) \/ (d = c /\ Live(c))
    <3>1. CASE call' = call
      BY <1>0, <2>0, <3>1 DEF TableOK, Open, Live, IsActive
    <3>2. CASE CanReinvite(c) /\ call' = SendUnhold(c)
      <4>1. /\ \A d \in CallIds \ {c} : call'[d] = call[d]
            /\ call'[c].state = call[c].state
            /\ call'[c].hangingUp = call[c].hangingUp
        BY <1>0, <3>2, OfferSet
      <4> QED
        BY <1>0, <2>0, <3>2, <4>1 DEF TableOK, Open, Live, IsActive, CanReinvite
    <3> QED
      BY <1>12, <3>1, <3>2 DEF ResumeSend
  <2>2. Steady => \A d \in CallIds : Open(d)' => focus' = d
    BY <2>0, <2>1 DEF BackInv, BackOK, FocusOpen, CalleeOK
  <2> QED
    BY <1>0, <2>0, <2>1, <2>2, BackIdle
<1>13. CASE RefreshDone
  <2>1. /\ ui.pc = "devScan" /\ UNCHANGED <<call, focus, unheld>>
        /\ ui'.op = "none" /\ ui'.pc = "idle"
    BY <1>13 DEF RefreshDone, UiAt, Idle, Begin, history
  <2>2. TableOK' /\ \A c \in CallIds : Open(c)' = Open(c)
    BY <1>0, <2>1 DEF TableOK, Open, Live, IsActive
  <2>3. Steady => \A c \in CallIds : Open(c)' => focus' = c
    BY <2>1, <2>2 DEF BackInv, BackOK, FocusOpen
  <2> QED
    BY <1>0, <2>1, <2>2, <2>3, BackIdle
<1>14. ASSUME NEW c \in CallIds, DestroyHangup(c) PROVE BackInv'
  <2>1. /\ UNCHANGED focus /\ unheld' = unheld \ {c}
        /\ GoesOn
        /\ (call' = call /\ call[c].hangingUp) \/ call' = HangUp(c)
    BY <1>0, <1>14 DEF DestroyHangup, Forget, GoesOn, Left, UiAt, Operation
  <2>2. /\ \A d \in CallIds \ {c} : call'[d] = call[d]
        /\ call'[c].state = "disconnected" /\ call'[c].offer = "none"
    <3>1. CASE call' = HangUp(c)
      BY <1>0, <3>1, SlotReset
    <3>2. CASE call' = call /\ call[c].hangingUp
      BY <1>0, <3>2 DEF TableOK
    <3> QED
      BY <2>1, <3>1, <3>2
  <2>3. TableOK' /\ \A d \in CallIds : /\ Open(d)' => Open(d)
                                       /\ Live(d)' => Live(d)
    BY <1>0, <2>1, <2>2 DEF TableOK, Open, Live, IsActive
  <2>4. \A d \in CallIds : call'[d].state = "incoming" =>
          call[d].state = "incoming" /\ (d \in unheld => d \in unheld')
    BY <2>1, <2>2
  <2> QED
    BY <1>0, <2>1, <2>3, <2>4, BackQuiet
<1>15. CASE DestroyDone \/ ShutdownReset
  <2>1. /\ \A c \in CallIds : call'[c] = FreeCall
        /\ ui'.pc \in {"reset", "idle"} /\ ui.pc \in {"hangupAll", "reset"}
        /\ ui'.pc = "idle" => ui' = Idle
        /\ ui'.op = ui.op \/ ui' = Idle
    BY <1>0, <1>15 DEF DestroyDone, ShutdownReset, UiAt, NoCalls, IInv, LifecycleOK,
       Operation, Idle, Begin
  <2>2. TableOK' /\ \A c \in CallIds : ~Open(c)'
    BY <2>1 DEF TableOK, Open, Live, IsActive, FreeCall
  <2>3. FocusOpen' /\ OthersLeft' /\ CalleeOK'
    BY <2>1, <2>2 DEF FocusOpen, OthersLeft, CalleeOK, Idle, Begin
  <2> QED
    BY <2>2, <2>3 DEF BackInv, BackOK
<1> QED
  BY <1>1, <1>2, <1>3, <1>4, <1>5, <1>6, <1>7, <1>8, <1>9, <1>10, <1>11, <1>12,
     <1>13, <1>14, <1>15 DEF UiStep, HoldOthersStep

\* Nor do callbacks, on either thread.
LEMMA BackCallbackSteps ==
  ASSUME IInv, BackInv, NEW t \in Threads, CallbackStep(t)
  PROVE  BackInv'
<1>0. /\ EngineTypeOK /\ cb \in [Threads -> Frame] /\ CallbackOK /\ UiOK /\ TableOK
      /\ ui' = ui /\ UNCHANGED unheld
  BY DEF IInv, TypeOK, BackInv, CallbackStep, DisconnectedCallback, ReleaseCall,
     MediaLoad, MediaClaim, MediaDecide, MediaConnect, history
<1>a. cb[t].pc # "none"
  BY DEF CallbackStep, DisconnectedCallback, ReleaseCall, MediaLoad, MediaClaim,
     MediaDecide, MediaConnect
<1>. PICK c \in CallIds : c = cb[t].call
  BY <1>0, <1>a DEF CallbackOK, FrameOK
<1>1. CASE DisconnectedCallback(t) \/ MediaClaim(t)
  <2>1. /\ call' = call
        /\ \A d \in CallIds : focus = d /\ IsActive(d) => focus' = d
    BY <1>0, <1>1, CallIdsAssumption DEF DisconnectedCallback, MediaClaim,
       CallbackOK, FrameOK, IsActive
  <2>2. TableOK' /\ \A d \in CallIds : /\ Open(d)' = Open(d)
                                       /\ Live(d)' = Live(d)
                                       /\ IsActive(d)' = IsActive(d)
    BY <1>0, <2>1 DEF TableOK, Open, Live, IsActive
  <2> QED
    BY <1>0, <2>1, <2>2, BackQuiet DEF GoesOn
<1>2. CASE ReleaseCall(t)
  BY <1>0, <1>2, BackSlot DEF ReleaseCall
<1>3. CASE MediaLoad(t) \/ MediaDecide(t)
  BY <1>0, <1>3, BackKept DEF MediaLoad, MediaDecide, GoesOn
<1>4. CASE MediaConnect(t)
  <2>. PICK b \in BOOLEAN : b = cb[t].connect
    BY <1>0 DEF Frame
  <2>1. \A d \in CallIds : /\ call'[d].state = call[d].state
                           /\ call'[d].hangingUp = call[d].hangingUp
                           /\ call'[d].localHold = call[d].localHold
                           /\ call'[d].offer = call[d].offer
    BY <1>0, <1>4, ConnectedSet DEF MediaConnect
  <2> QED
    BY <1>0, <1>4, <2>1, BackKept DEF MediaConnect, GoesOn
<1> QED
  BY <1>1, <1>2, <1>3, <1>4 DEF CallbackStep

\* Nor does what the network brings.
LEMMA BackNetworkSteps ==
  ASSUME IInv, BackInv, NetworkEvent
  PROVE  BackInv'
<1>0. /\ EngineTypeOK /\ UiOK /\ TableOK /\ GoesOn /\ UNCHANGED <<ui, focus>>
  BY DEF IInv, TypeOK, BackInv, GoesOn, NetworkEvent, IncomingCall, Provisional,
     Accepted, MediaUp, Confirmed, PeerReinvite, ReinviteAccepted,
     ReinviteRefused, PeerEnds, HangupCompletes
<1>1. ASSUME NEW c \in CallIds, IncomingCall(c) PROVE BackInv'
  <2>1. /\ \A d \in CallIds \ {c} : call'[d] = call[d]
        /\ call'[c].offer = "none" /\ call'[c].state = "incoming"
        /\ call'[c].hangingUp => call'[c].state = "disconnected"
    BY <1>0, <1>1, SlotReset DEF IncomingCall
  <2>2. unheld \subseteq unheld' /\ (c = ui.call => c \in unheld')
    BY <1>1 DEF IncomingCall
  <2>3. TableOK' /\ \A d \in CallIds : /\ Open(d)' => Open(d)
                                       /\ Live(d)' => Live(d)
    BY <1>0, <2>1, <2>2 DEF TableOK, Open, Live, IsActive
  <2>4. \A d \in CallIds : call'[d].state = "incoming" /\ d = ui.call =>
          \/ call[d].state = "incoming" /\ (d \in unheld => d \in unheld')
          \/ d \in unheld'
    BY <2>1, <2>2
  <2> QED
    BY <1>0, <2>3, <2>4, BackQuiet
<1>2. ASSUME NEW c \in CallIds, PeerEnds(c) \/ HangupCompletes(c) PROVE BackInv'
  BY <1>0, <1>2, BackSlot DEF PeerEnds, HangupCompletes, Forget, history
<1>3. ASSUME NEW c \in CallIds,
             /\ \A d \in CallIds \ {c} : call'[d] = call[d]
             /\ call'[c].hangingUp = call[c].hangingUp
             /\ call'[c].localHold = call[c].localHold
             /\ call'[c].offer = "none"
             /\ \/ call'[c].state = call[c].state
                \/ call'[c].state # "incoming" /\ Live(c) /\ IsActive(c)',
             \A d \in CallIds : d \in unheld =>
               d \in unheld' \/ (d = c /\ call[d].localHold /\ Live(d))
      PROVE  BackInv'
  <2>1. /\ \A d \in CallIds \ {c} : call'[d] = call[d]
        /\ call'[c].hangingUp = call[c].hangingUp
        /\ call'[c].localHold = call[c].localHold
        /\ call'[c].offer = "none"
        /\ \/ call'[c].state = call[c].state
           \/ call'[c].state # "incoming" /\ Live(c) /\ IsActive(c)'
    BY <1>3
  <2>2. TableOK'
    BY <1>0, <2>1 DEF TableOK, IsActive
  <2>3. \A d \in CallIds : /\ Open(d)' => Open(d)
                           /\ Live(d)' => Live(d)
                           /\ call'[d].state = "incoming" => call[d].state = "incoming"
    BY <1>3, <2>1 DEF Open, Live, IsActive
  <2>4. \A d \in CallIds : call'[d].state = "incoming" =>
          call[d].state = "incoming" /\ (d \in unheld => d \in unheld')
    BY <1>3, <2>3 DEF Live
  <2> QED
    BY <1>0, <2>2, <2>3, <2>4, BackQuiet
<1>4. ASSUME NEW c \in CallIds, Accepted(c) \/ Confirmed(c) PROVE BackInv'
  <2>1. PICK s \in {"connecting", "confirmed"} : call' = [call EXCEPT ![c].state = s]
    BY <1>4 DEF Accepted, Confirmed
  <2>2. /\ IsActive(c) /\ call[c].state \in {"calling", "early", "connecting"}
        /\ s \in InvStates /\ unheld' = unheld
    BY <1>4, <2>1 DEF Accepted, Confirmed, InvStates, history
  <2>3. /\ call'[c].state = s
        /\ call'[c].hangingUp = call[c].hangingUp
        /\ call'[c].localHold = call[c].localHold
        /\ call'[c].offer = call[c].offer
        /\ \A d \in CallIds \ {c} : call'[d] = call[d]
    BY <1>0, <2>1, <2>2, StateChange DEF EngineTypeOK
  <2>4. call[c].offer = "none" /\ Live(c) /\ IsActive(c)'
    BY <1>0, <2>2, <2>3 DEF TableOK, Live, IsActive
  <2> QED
    BY <1>3, <2>2, <2>3, <2>4
<1>5. ASSUME NEW c \in CallIds, Provisional(c) PROVE BackInv'
  <2>0. /\ IsActive(c) /\ Live(c) /\ call[c].state \in {"calling", "early"}
        /\ call[c].offer = "none" /\ unheld' = unheld /\ "early" \in InvStates
    BY <1>0, <1>5 DEF Provisional, InvStates, history, Live, TableOK
  <2>1. /\ call'[c].state = "early"
        /\ call'[c].hangingUp = call[c].hangingUp
        /\ call'[c].localHold = call[c].localHold
        /\ call'[c].offer = "none"
        /\ \A d \in CallIds \ {c} : call'[d] = call[d]
    <3>1. CASE call' = [call EXCEPT ![c].state = "early"]
      BY <1>0, <2>0, <3>1, StateChange DEF EngineTypeOK
    <3>2. ASSUME NEW m \in Negotiated(c), NEW keep \in BOOLEAN,
                 call' = [MediaUpdate(c, m, "none", keep) EXCEPT ![c].state = "early"]
          PROVE  /\ call'[c].state = "early"
                 /\ call'[c].hangingUp = call[c].hangingUp
                 /\ call'[c].localHold = call[c].localHold
                 /\ call'[c].offer = "none"
                 /\ \A d \in CallIds \ {c} : call'[d] = call[d]
      <4> DEFINE table == MediaUpdate(c, m, "none", keep)
      <4>1. m \in MediaStates /\ "none" \in Offers
        BY NegotiatedType DEF Offers
      <4>2. /\ table \in [CallIds -> Call] /\ table[c].offer = "none"
            /\ table[c].hangingUp = call[c].hangingUp
            /\ table[c].localHold = call[c].localHold
            /\ \A d \in CallIds \ {c} : table[d] = call[d]
        BY <1>0, <4>1, MediaUpdates
      <4>3. call' = [table EXCEPT ![c].state = "early"]
        BY <3>2
      <4> HIDE DEF table
      <4> QED
        BY <2>0, <4>2, <4>3, StateChange
    <3>3. TRUE \in BOOLEAN
      OBVIOUS
    <3> QED
      BY <1>5, <3>1, <3>2, <3>3, Zenon DEF Provisional
  <2>2. IsActive(c)'
    BY <2>0, <2>1 DEF IsActive
  <2> QED
    BY <1>3, <2>0, <2>1, <2>2
<1>6. ASSUME NEW c \in CallIds, MediaUp(c) \/ PeerReinvite(c) \/ ReinviteAccepted(c)
      PROVE  BackInv'
  <2>1. PICK m \in Negotiated(c), keep \in BOOLEAN :
          call' = MediaUpdate(c, m, "none", keep)
    BY <1>6 DEF MediaUp, PeerReinvite, ReinviteAccepted
  <2>2. m \in MediaStates /\ "none" \in Offers
    BY NegotiatedType DEF Offers
  <2>3. /\ call'[c].state = call[c].state
        /\ call'[c].hangingUp = call[c].hangingUp
        /\ call'[c].localHold = call[c].localHold
        /\ call'[c].offer = "none"
        /\ \A d \in CallIds \ {c} : call'[d] = call[d]
    BY <1>0, <2>1, <2>2, MediaUpdates
  <2>4. \A d \in CallIds : d \in unheld =>
          d \in unheld' \/ (d = c /\ call[d].localHold /\ Live(d))
    <3>1. CASE unheld' = unheld
      BY <3>1
    <3>2. CASE ReinviteAccepted(c)
      <4>1. Live(c)
        BY <1>0, <3>2 DEF ReinviteAccepted, TableOK, Live
      <4> QED
        BY <3>2, <4>1 DEF ReinviteAccepted
    <3> QED
      BY <1>6, <3>1, <3>2 DEF MediaUp, PeerReinvite, history
  <2> QED
    BY <1>3, <2>3, <2>4
<1>7. ASSUME NEW c \in CallIds, ReinviteRefused(c) PROVE BackInv'
  <2>0. /\ IsActive(c) /\ call[c].offer \in {"hold", "unhold"}
        /\ call' = RefuseOffer(c)
        /\ unheld \subseteq unheld'
        /\ call[c].offer = "hold" => c \in unheld'
    BY <1>7 DEF ReinviteRefused, HoldFailed
  <2>1. /\ \A d \in CallIds \ {c} : call'[d] = call[d]
        /\ call'[c].state = call[c].state
        /\ call'[c].hangingUp = call[c].hangingUp
        /\ call'[c].offer = "none"
        /\ call'[c].localHold = (call[c].offer = "unhold")
    BY <1>0, <2>0, OfferSet
  <2>2. TableOK' /\ \A d \in CallIds : /\ Open(d)' => Open(d)
                                       /\ Live(d)' => Live(d)
    BY <1>0, <2>0, <2>1 DEF TableOK, Open, Live, IsActive
  <2>3. \A d \in CallIds : call'[d].state = "incoming" =>
          call[d].state = "incoming" /\ (d \in unheld => d \in unheld')
    BY <2>0, <2>1
  <2> QED
    BY <1>0, <2>2, <2>3, BackQuiet
<1> QED
  BY <1>1, <1>2, <1>4, <1>5, <1>6, <1>7 DEF NetworkEvent

\* There is no call in the initial state, so no line is open.
LEMMA InitBack == Init => BackInv
  BY DEF Init, BackInv, BackOK, TableOK, FocusOpen, OthersLeft, CalleeOK, Open, Live,
     IsActive, NoCalls, FreeCall, Idle, Begin

\* Every step of the service preserves the invariant about the background lines.
LEMMA StepBack == IInv /\ AudioInv /\ BackInv /\ [Next]_vars => BackInv'
<1> SUFFICES ASSUME IInv, AudioInv, BackInv, [Next]_vars PROVE BackInv'
  OBVIOUS
<1>0. IInv'
  BY StepInv
<1>1. CASE UserRequest
  BY <1>1, BackUserSteps
<1>2. CASE CallbackStep("ui") \/ CallbackStep("worker")
  BY <1>2, BackCallbackSteps DEF Threads
<1>3. CASE UiStep /\ ~CallbackStep("ui")
  BY <1>0, <1>3, BackUiSteps
<1>4. CASE NetworkEvent
  BY <1>4, BackNetworkSteps
<1>5. CASE UNCHANGED vars
  BY <1>5, BackKept DEF vars, IInv, GoesOn
<1> QED
  BY <1>1, <1>2, <1>3, <1>4, <1>5 DEF Next

\* It holds of every state of every instance.
LEMMA BackInvariance == Spec => []BackInv
  BY Invariance, AudioInvariance, InitBack, StepBack, PTL DEF Spec

\* As long as the user leaves auto-hold on, every confirmed line beside the
\* selected one is on local hold once nothing is under way, unless its hold
\* did not take effect: no interleaving of the hold loop with calls that come,
\* end or renegotiate leaves one out.
THEOREM OtherLinesAreHeld ==
  ASSUME AutoHoldSettings \subseteq {TRUE}
  PROVE  Spec => []BackgroundIsHeld
<1>1. IInv /\ BackInv => BackgroundIsHeld
  <2> SUFFICES ASSUME IInv, BackInv, Settled, NEW c \in CallIds, NEW d \in CallIds,
                      focus = c, d # c, call[d].state = "confirmed",
                      ~call[d].localHold
               PROVE  d \in unheld
    BY DEF BackgroundIsHeld
  <2>1. Live(d)
    BY DEF Live, IsActive, BackInv, TableOK
  <2>2. FocusOpen /\ ui.pc = "idle"
    BY DEF BackInv, BackOK, Steady, Settled, UiIdle
  <2> QED
    BY <2>1, <2>2 DEF FocusOpen, Open
<1> QED
  BY <1>1, Invariance, BackInvariance, PTL

-----------------------------------------------------------------------------

(***************************************************************************)
(* The selected line. HeardInv says that whenever it should be connected   *)
(* and is not, someone is still to do so: a callback that has not decided  *)
(* yet, the operation under way, or an offer whose answer brings another   *)
(* callback.                                                               *)
(***************************************************************************)

\* A line that takes a slot as an incoming call is unanswered.
Fresh(c) == call[c].role = "UAS" /\ IsActive(c) => call[c].state = "incoming"

\* An unanswered call has no media, and so has a call that took the slot of the one
\* MakeCall is about to select.
UnansweredOK ==
  /\ \A c \in CallIds : call[c].state = "incoming" => call[c].media = "none"
  /\ ui.pc = "select" => Fresh(ui.call)

\* The line should be heard and is not: a line that came in, or one of L.
Owed(c, L) == /\ focus = c /\ (call[c].role = "UAS" \/ c \in L)
              /\ IsActive(c) /\ call[c].media = "active" /\ Silent(c)

Excused(c) ==
  c \in miswired \/ call[c].offer # "none" \/ Requesting(c) \/ Deciding(c)

\* Someone tends to every line that is owed its audio.
Tended(L) == UnansweredOK /\ \A c \in CallIds : Owed(c, L) => Excused(c)

\* What holds of every state speaks of the lines that came in; a single step is
\* reasoned about with further lines in L.
HeardInv == Tended({})

\* Thread t runs a callback of the line.
About(t, c) == cb[t].pc # "none" /\ cb[t].call = c

\* A step keeps the invariant if it does so for the calls it is about, and leaves
\* alone what concerns the others.
LEMMA HeardStep ==
  ASSUME NEW L \in SUBSET CallIds, Tended(L), NEW S \in SUBSET CallIds,
         \A d \in CallIds \ S :
           /\ call'[d] = call[d]
           /\ focus' = d => focus = d
           /\ d \in miswired => d \in miswired'
           /\ Requesting(d) => Requesting(d)'
           /\ \A t \in Threads : About(t, d) \/ About(t, d)' => cb'[t] = cb[t],
         \A d \in S :
           /\ call'[d].state = "incoming" => call'[d].media = "none"
           /\ Fresh(d) /\ ui'.pc = "select" => Fresh(d)'
           /\ Owed(d, L)' => Excused(d)',
         ui'.pc = "select" => ui'.call \in CallIds /\ (ui' = ui \/ Fresh(ui.call)')
  PROVE  Tended(L)'
<1>1. ASSUME NEW d \in CallIds \ S
      PROVE  /\ call'[d].state = "incoming" => call'[d].media = "none"
             /\ Fresh(d) => Fresh(d)'
             /\ Owed(d, L)' => Excused(d)'
  <2>1. IsActive(d)' = IsActive(d)
    BY <1>1 DEF IsActive
  <2>2. Silent(d)' => Silent(d)
    BY <1>1 DEF Silent, About
  <2>3. Deciding(d) => Deciding(d)'
    BY <1>1 DEF Deciding, About
  <2>4. call'[d].state = "incoming" => call'[d].media = "none"
    BY <1>1 DEF Tended, UnansweredOK
  <2>5. Fresh(d) => Fresh(d)'
    BY <1>1, <2>1 DEF Fresh
  <2>6. Owed(d, L)' => Excused(d)'
    BY <1>1, <2>1, <2>2, <2>3 DEF Tended, Owed, Excused
  <2> QED
    BY <2>4, <2>5, <2>6
<1>2. \A d \in CallIds : /\ call'[d].state = "incoming" => call'[d].media = "none"
                         /\ Fresh(d) /\ ui'.pc = "select" => Fresh(d)'
                         /\ Owed(d, L)' => Excused(d)'
  BY <1>1
<1>3. UnansweredOK'
  BY <1>2 DEF Tended, UnansweredOK
<1> QED
  BY <1>2, <1>3 DEF Tended

\* A step that leaves the calls, the callbacks and the focus alone, and no request
\* behind.
LEMMA HeardKept ==
  ASSUME NEW L \in SUBSET CallIds, IInv, Tended(L), UNCHANGED <<call, cb>>,
         focus' = focus \/ focus' = NoCall,
         miswired \subseteq miswired',
         \A d \in CallIds : Requesting(d) => Requesting(d)',
         ui'.pc = "select" => ui' = ui
  PROVE  Tended(L)'
<1>1. ui'.pc = "select" => ui'.call \in CallIds
  BY DEF IInv, UiOK
<1>2. PICK S \in SUBSET CallIds : S = {}
  OBVIOUS
<1>3. \A d \in CallIds \ S :
        /\ call'[d] = call[d] /\ (focus' = d => focus = d)
        /\ d \in miswired => d \in miswired'
        /\ Requesting(d) => Requesting(d)'
        /\ \A t \in Threads : About(t, d) \/ About(t, d)' => cb'[t] = cb[t]
  BY CallIdsAssumption
<1> QED
  BY <1>1, <1>2, <1>3, HeardStep

\* A step about one call.
LEMMA HeardOne ==
  ASSUME NEW L \in SUBSET CallIds, IInv, Tended(L), NEW c \in CallIds,
         \A d \in CallIds \ {c} :
           /\ call'[d] = call[d]
           /\ focus' = d => focus = d
           /\ d \in miswired => d \in miswired'
           /\ Requesting(d) => Requesting(d)'
           /\ \A t \in Threads : About(t, d) \/ About(t, d)' => cb'[t] = cb[t],
         call'[c].state = "incoming" => call'[c].media = "none",
         Fresh(c) /\ ui'.pc = "select" => Fresh(c)',
         Owed(c, L)' => Excused(c)',
         ui'.pc = "select" => ui' = ui
  PROVE  Tended(L)'
<1>1. ui'.pc = "select" => ui'.call \in CallIds
  BY DEF IInv, UiOK
<1>2. PICK S \in SUBSET CallIds : S = {c}
  OBVIOUS
<1> QED
  BY <1>1, <1>2, HeardStep

\* A call that begins unanswered, is over, or is given up is owed nothing.
LEMMA HeardSlot ==
  ASSUME NEW L \in SUBSET CallIds, IInv, Tended(L), NEW c \in CallIds,
         \/ call' = Disconnect(c) \/ call' = HangUp(c) \/ call' = Release(c)
         \/ call' = Arrive(c),
         \A d \in CallIds \ {c} :
           /\ d \in miswired => d \in miswired'
           /\ Requesting(d) => Requesting(d)'
           /\ \A t \in Threads : About(t, d) \/ About(t, d)' => cb'[t] = cb[t],
         ui'.pc = "select" => ui' = ui,
         UNCHANGED focus
  PROVE  Tended(L)'
<1>0. EngineTypeOK
  BY DEF IInv, TypeOK
<1>1. /\ \A d \in CallIds \ {c} : call'[d] = call[d]
      /\ call'[c].media = "none"
      /\ call'[c].state \in {"disconnected", "free", "incoming"}
  BY <1>0, SlotReset
<1>2. ~Owed(c, L)' /\ Fresh(c)'
  BY <1>1 DEF Owed, Fresh, IsActive
<1> QED
  BY <1>1, <1>2, HeardOne

\* A media update: its callback decides on the line.
LEMMA HeardMedia ==
  ASSUME NEW L \in SUBSET CallIds, IInv, Tended(L),
         NEW t \in Threads, NEW c \in CallIds, NEW m,
         cb[t].pc = "none", PushMedia(t, c, m), call'[c].media = m,
         call'[c].state # "incoming",
         \A d \in CallIds \ {c} :
           call'[d] = call[d] /\ (Requesting(d) => Requesting(d)'),
         Fresh(c) /\ ui'.pc = "select" => Fresh(c)',
         ui'.pc = "select" => ui' = ui,
         UNCHANGED <<focus, miswired>>
  PROVE  Tended(L)'
<1>0. cb \in [Threads -> Frame]
  BY DEF IInv, TypeOK
<1>1. /\ cb'[t].call = c
      /\ m = "active" => cb'[t].pc = "mediaLoad"
      /\ \A x \in Threads \ {t} : cb'[x] = cb[x]
  BY <1>0 DEF PushMedia, Push
<1>2. Owed(c, L)' => Excused(c)'
  BY <1>1 DEF Owed, Excused, Deciding
<1>3. \A d \in CallIds \ {c}, x \in Threads :
        About(x, d) \/ About(x, d)' => cb'[x] = cb[x]
  BY <1>1 DEF About
<1> QED
  BY <1>2, <1>3, HeardOne

\* Connecting or disconnecting one line.
LEMMA HeardWiring ==
  ASSUME NEW L \in SUBSET CallIds, IInv, Tended(L),
         NEW c \in CallIds, NEW b \in BOOLEAN,
         call' = SetConnected(c, b), Owed(c, L)' => Excused(c)',
         \A d \in CallIds \ {c} :
           /\ d \in miswired => d \in miswired'
           /\ Requesting(d) => Requesting(d)'
           /\ \A t \in Threads : About(t, d) \/ About(t, d)' => cb'[t] = cb[t],
         ui'.pc = "select" => ui' = ui,
         UNCHANGED focus
  PROVE  Tended(L)'
<1>0. EngineTypeOK
  BY DEF IInv, TypeOK
<1>1. /\ \A d \in CallIds \ {c} : call'[d] = call[d]
      /\ call'[c].state = call[c].state /\ call'[c].role = call[c].role
      /\ call'[c].hangingUp = call[c].hangingUp /\ call'[c].media = call[c].media
  BY <1>0, ConnectedSet
<1>2. call'[c].state = "incoming" => call'[c].media = "none"
  BY <1>1 DEF Tended, UnansweredOK
<1>3. Fresh(c) => Fresh(c)'
  BY <1>1 DEF Fresh, IsActive
<1> QED
  BY <1>1, <1>2, <1>3, HeardOne

\* No request of the user leaves the selected line silent for good.
LEMMA HeardUserSteps ==
  ASSUME NEW L \in SUBSET CallIds, IInv, Tended(L), UserRequest
  PROVE  Tended(L)'
<1>0. /\ ui.pc = "idle" /\ cb \in [Threads -> Frame]
      /\ \A d \in CallIds : ~Requesting(d)
  BY DEF IInv, TypeOK, UserRequest, MakeCall, AnswerCall, RejectCall, HangupCall,
     HangupInactiveCall, HoldCall, ResumeCall, SetAutoHoldOnIncoming,
     RefreshSystemAudioDevices, Initialize, Shutdown, UiIdle, Requesting,
     AutoHoldAssumption
<1>1. CASE \E c \in CallIds : RejectCall(c) \/ HangupCall(c)
  <2>. PICK c \in CallIds : RejectCall(c) \/ HangupCall(c)
    BY <1>1
  <2>1. /\ call' = Disconnect(c) \/ call' = HangUp(c)
        /\ cb["ui"].pc = "none" /\ UNCHANGED <<ui, focus>>
        /\ miswired' = miswired \ {c}
    BY DEF RejectCall, HangupCall, UiIdle, Forget
  <2>2. \A d \in CallIds \ {c}, t \in Threads :
          About(t, d) \/ About(t, d)' => cb'[t] = cb[t]
    BY <1>0, <2>1 DEF RejectCall, HangupCall, Push, About, Threads
  <2> QED
    BY <1>0, <2>1, <2>2, HeardSlot
<1>2. CASE ~ \E c \in CallIds : RejectCall(c) \/ HangupCall(c)
  <2>1. /\ UNCHANGED <<call, cb, miswired>>
        /\ focus' = focus \/ focus' = NoCall
        /\ ui'.pc # "select"
    BY <1>0, <1>2 DEF UserRequest, MakeCall, AnswerCall, HangupInactiveCall,
       HoldCall, ResumeCall, SetAutoHoldOnIncoming, RefreshSystemAudioDevices,
       Initialize, Shutdown, Begin, history
  <2> QED
    BY <1>0, <2>1, HeardKept
<1> QED
  BY <1>1, <1>2

\* Nor does any statement of the operations; MakeCall's selection may leave its
\* own call silent, which is therefore not among the lines of L.
LEMMA HeardUiSteps ==
  ASSUME NEW L \in SUBSET CallIds, IInv, AudioInv, BackInv, Tended(L),
         UiStep, ~CallbackStep("ui"), MakeCallSelect => ui.call \notin L
  PROVE  Tended(L)'
<1>0. /\ EngineTypeOK /\ UiOK /\ TableOK /\ ui \in Operation
      /\ cb \in [Threads -> Frame] /\ CallbackOK /\ DialogLock
  BY DEF IInv, TypeOK, BackInv
<1>1. CASE \/ \E d \in CallIds : ScanHold(d) \/ ScanSkip(d) \/ RefreshScan(d)
           \/ AnswerLoad \/ RefreshDone \/ DestroyJoin
  <2>1. /\ UNCHANGED <<call, cb, focus, miswired>> /\ ui'.pc # "select"
        /\ ui.pc \in {"scan", "devScan", "join"}
    <3>1. CASE \E d \in CallIds : ScanHold(d) \/ ScanSkip(d)
      BY <1>0, <3>1 DEF ScanHold, ScanSkip, UiAt, Operation, history
    <3>2. CASE \E d \in CallIds : RefreshScan(d)
      BY <1>0, <3>2 DEF RefreshScan, UiAt, Operation, history
    <3>3. CASE AnswerLoad \/ DestroyJoin
      BY <1>0, <3>3 DEF AnswerLoad, DestroyJoin, ScanDone, UiAt, Operation, history
    <3>4. CASE RefreshDone
      BY <3>4 DEF RefreshDone, UiAt, Idle, Begin, history
    <3> QED
      BY <1>1, <3>1, <3>2, <3>3, <3>4
  <2> QED
    BY <2>1, HeardKept DEF Requesting
<1>2. CASE AnswerFails \/ HoldCallClear
  <2>1. /\ UNCHANGED <<call, cb, miswired>> /\ ui'.pc # "select"
        /\ focus' = focus \/ focus' = NoCall
        /\ \A d \in CallIds : Requesting(d) => Requesting(d)'
    BY <1>0, <1>2 DEF AnswerFails, HoldCallClear, UiAt, Operation, Idle, Begin,
       history, Requesting
  <2> QED
    BY <2>1, HeardKept
<1>3. CASE HoldCut \/ HoldCallCut \/ RefreshCut
  <2>1. \E c \in CallIds, b \in BOOLEAN : call' = SetConnected(c, b) /\ Requesting(c)'
    BY <1>0, <1>3 DEF HoldCut, HoldCallCut, RefreshCut, UiAt, UiOK, Operation,
       Requesting
  <2>2. PICK c \in CallIds, b \in BOOLEAN :
          call' = SetConnected(c, b) /\ Requesting(c)'
    BY <2>1, Zenon
  <2>3. /\ UNCHANGED <<cb, focus, miswired>> /\ ui'.pc # "select"
        /\ \A d \in CallIds : ~Requesting(d)
    BY <1>0, <1>3 DEF HoldCut, HoldCallCut, RefreshCut, UiAt, Operation, Requesting
  <2> QED
    BY <2>2, <2>3, HeardWiring DEF Excused
<1>4. CASE HoldSend \/ HoldCallSend \/ ResumeSend
  <2> DEFINE Sent(c) == (call' = SendHold(c) \/ call' = SendUnhold(c)) /\ CanReinvite(c)
             Failed(c) == call' = call /\ Miswire(c)
  <2>1. PICK c \in CallIds : /\ Sent(c) \/ Failed(c)
                             /\ \A d \in CallIds \ {c} : ~Requesting(d)
    BY <1>0, <1>4 DEF HoldSend, HoldCallSend, ResumeSend, UiAt, UiOK, Requesting,
       HoldFailed, history
  <2>2. /\ UNCHANGED <<cb, focus>> /\ ui'.pc # "select"
        /\ miswired \subseteq miswired'
    <3>1. ui'.pc \in {"scan", "clear", "idle"}
      <4>1. CASE HoldSend
        BY <1>0, <4>1 DEF HoldSend, Operation
      <4>2. CASE HoldCallSend
        BY <1>0, <4>2 DEF HoldCallSend, Operation, Idle, Begin
      <4>3. CASE ResumeSend
        BY <4>3 DEF ResumeSend, Idle, Begin
      <4> QED
        BY <1>4, <4>1, <4>2, <4>3
    <3> QED
      BY <1>4, <3>1 DEF HoldSend, HoldCallSend, ResumeSend, HoldFailed, Miswire,
         history
  <2>3. CASE Sent(c)
    <3>1. /\ \A d \in CallIds \ {c} : call'[d] = call[d]
          /\ call'[c].state = "confirmed" /\ call'[c].offer # "none"
      BY <1>0, <2>3, OfferSet DEF CanReinvite
    <3> QED
      BY <2>1, <2>2, <3>1, HeardOne DEF Excused, Fresh, CanReinvite
  <2>4. CASE Failed(c)
    <3>1. Owed(c, L)' => Excused(c)'
      BY <2>4 DEF Owed, Excused, Miswire, IsActive
    <3>2. /\ Fresh(c) => Fresh(c)'
          /\ call'[c].state = "incoming" => call'[c].media = "none"
      BY <2>4 DEF Fresh, IsActive, Tended, UnansweredOK
    <3> QED
      BY <2>1, <2>2, <2>4, <3>1, <3>2, HeardOne
  <2> QED
    BY <2>1, <2>3, <2>4
<1>5. CASE MakeCallInvite
  <2>0. /\ ui.pc = "scan" /\ UNCHANGED <<focus, cb, miswired>>
        /\ \A d \in CallIds : ~Requesting(d)
    BY <1>5 DEF MakeCallInvite, ScanDone, UiAt, history, Requesting
  <2>1. CASE call' = call /\ ui' = Idle
    BY <2>0, <2>1, HeardKept DEF Idle, Begin
  <2>2. ASSUME NEW c \in CallIds, call' = PlaceCall(c),
               ui' = [ui EXCEPT !.pc = "select", !.call = c]
        PROVE  Tended(L)'
    <3>1. /\ \A d \in CallIds \ {c} : call'[d] = call[d]
          /\ call'[c].media = "none" /\ call'[c].role = "UAC"
      BY <1>0, <2>2, SlotReset
    <3>2. ui'.pc = "select" /\ ui'.call = c
      BY <1>0, <2>0, <2>2 DEF Operation
    <3>3. ~Owed(c, L)' /\ Fresh(c)' /\ Fresh(ui.call)'
      BY <3>1, <3>2 DEF Owed, Fresh
    <3>4. PICK S \in SUBSET CallIds : S = {c}
      OBVIOUS
    <3> QED
      BY <2>0, <3>1, <3>2, <3>3, <3>4, HeardStep
  <2> QED
    BY <1>5, <2>1, <2>2 DEF MakeCallInvite
<1>6. CASE MakeCallSelect \/ AnswerSelect \/ ResumeSelect
  <2>. PICK c \in CallIds : c = ui.call
    BY <1>0, <1>6 DEF MakeCallSelect, AnswerSelect, ResumeSelect, ScanDone, UiAt,
       UiOK
  <2>1. /\ UNCHANGED <<call, cb, miswired>> /\ focus' = c
        /\ ui'.pc # "select" /\ \A d \in CallIds : ~Requesting(d)
    BY <1>0, <1>6 DEF MakeCallSelect, AnswerSelect, ResumeSelect, ScanDone, UiAt,
       Operation, Idle, Begin, Requesting
  <2>2. Owed(c, L)' => Excused(c)'
    <3>1. CASE MakeCallSelect
      <4>1. Fresh(c) /\ (call[c].state = "incoming" => call[c].media = "none")
        BY <3>1 DEF Tended, UnansweredOK, MakeCallSelect, UiAt
      <4>2. c \notin L
        BY <3>1
      <4> QED
        BY <2>1, <4>1, <4>2 DEF Owed, Fresh, IsActive
    <3>2. CASE AnswerSelect \/ ResumeSelect
      <4>1. Requesting(c)'
        BY <1>0, <3>2 DEF AnswerSelect, ResumeSelect, ScanDone, UiAt, Operation,
           Requesting
      <4> QED
        BY <4>1 DEF Excused
    <3> QED
      BY <1>6, <3>1, <3>2
  <2>3. /\ Fresh(c) => Fresh(c)'
        /\ call'[c].state = "incoming" => call'[c].media = "none"
    BY <2>1 DEF Fresh, IsActive, Tended, UnansweredOK
  <2> QED
    BY <2>1, <2>2, <2>3, HeardOne
<1>7. CASE AnswerSend
  <2>. PICK c \in CallIds : c = ui.call
    BY <1>0, <1>7 DEF AnswerSend, UiAt, UiOK
  <2>0. /\ c = ui.call /\ ui.pc = "answerSend" /\ cb["ui"].pc = "none"
        /\ call[c].state = "incoming" /\ ui'.pc # "select"
        /\ UNCHANGED <<focus, miswired>> /\ "ui" \in Threads
        /\ \A d \in CallIds \ {c} : ~Requesting(d)
    BY <1>7 DEF AnswerSend, UiAt, CanAnswer, history, Idle, Begin, Requesting,
       Threads
  <2>1. ASSUME NEW m \in Negotiated(c), NEW keep \in BOOLEAN,
               call' = [MediaUpdate(c, m, "none", keep) EXCEPT ![c].state = "connecting"],
               PushMedia("ui", c, m)
        PROVE  Tended(L)'
    <3> DEFINE table == MediaUpdate(c, m, "none", keep)
    <3>1. m \in MediaStates /\ "none" \in Offers /\ "connecting" \in InvStates
      BY NegotiatedType DEF Offers, InvStates
    <3>2. /\ table \in [CallIds -> Call] /\ table[c].media = m
          /\ \A d \in CallIds \ {c} : table[d] = call[d]
      BY <1>0, <3>1, MediaUpdates
    <3>3. call' = [table EXCEPT ![c].state = "connecting"]
      BY <2>1
    <3> HIDE DEF table
    <3>4. /\ call'[c].state = "connecting" /\ call'[c].media = m
          /\ \A d \in CallIds \ {c} : call'[d] = call[d]
      BY <3>1, <3>2, <3>3, StateChange
    <3> QED
      BY <2>0, <2>1, <3>4, HeardMedia
  <2>2. ASSUME call' = [call EXCEPT ![c].state = "connecting"], UNCHANGED cb
        PROVE  Tended(L)'
    <3>1. /\ call'[c].state = "connecting" /\ call'[c].media = call[c].media
          /\ \A d \in CallIds \ {c} : call'[d] = call[d]
      BY <1>0, <2>2, StateChange DEF EngineTypeOK, InvStates
    <3>2. ~Owed(c, L)'
      BY <2>0, <3>1 DEF Tended, UnansweredOK, Owed
    <3> QED
      BY <2>0, <2>2, <3>1, <3>2, HeardOne
  <2>3. TRUE \in BOOLEAN /\ FALSE \in BOOLEAN
    OBVIOUS
  <2> QED
    BY <1>7, <2>0, <2>1, <2>2, <2>3, Zenon DEF AnswerSend
<1>8. CASE AnswerRestore
  <2>1. /\ UNCHANGED <<call, cb>> /\ focus' = ui.prev /\ ui.pc = "answerRestore"
        /\ miswired' = miswired \cup {c \in {ui.prev} \ {NoCall} : IsActive(c)}
        /\ ui'.pc # "select"
    BY <1>8 DEF AnswerRestore, UiAt, Idle, Begin
  <2>2. PICK S \in SUBSET CallIds : S = {ui.call, ui.prev} \cap CallIds
    OBVIOUS
  <2>3. \A d \in CallIds \ S :
          /\ call'[d] = call[d]
          /\ focus' = d => focus = d
          /\ d \in miswired => d \in miswired'
          /\ Requesting(d) => Requesting(d)'
          /\ \A t \in Threads : About(t, d) \/ About(t, d)' => cb'[t] = cb[t]
    BY <2>1, <2>2 DEF Requesting
  <2>4. \A d \in S : /\ call'[d].state = "incoming" => call'[d].media = "none"
                     /\ Fresh(d) /\ ui'.pc = "select" => Fresh(d)'
                     /\ Owed(d, L)' => Excused(d)'
    BY <2>1, <2>2, CallIdsAssumption DEF Tended, UnansweredOK, Owed, Excused,
       IsActive
  <2> QED
    BY <2>1, <2>3, <2>4, HeardStep
<1>9. CASE RefreshConnect
  <2>1. PICK c \in CallIds, b \in BOOLEAN :
          c = ui.line /\ b = ui.connect /\ call' = SetConnected(c, b)
    BY <1>0, <1>9 DEF RefreshConnect, UiAt, UiOK, Operation
  <2>2. /\ UNCHANGED <<cb, focus>> /\ ui'.pc # "select" /\ ui.pc = "devConnect"
        /\ cb["ui"].pc = "none"
        /\ \A d \in CallIds \ {c} : /\ ~Requesting(d)
                                    /\ d \in miswired => d \in miswired'
    BY <1>0, <1>9, <2>1 DEF RefreshConnect, UiAt, Operation, Requesting
  <2>3. Owed(c, L)' => Excused(c)'
    <3> SUFFICES ASSUME Owed(c, L)', c \notin miswired' PROVE FALSE
      BY DEF Excused
    <3>1. /\ call'[c].media = call[c].media /\ IsActive(c)' = IsActive(c)
          /\ HasPort(c) => call'[c].connected = b
      BY <1>0, <2>1, ConnectedSet DEF IsActive
    <3>2. /\ focus = c /\ IsActive(c) /\ call[c].media = "active"
          /\ HasPort(c)
      BY <2>2, <3>1 DEF Owed, HasPort
    <3>3. DialogFree("ui", c) /\ b
      BY <1>9, <2>1, <3>2 DEF RefreshConnect
    <3>4. call'[c].connected
      BY <3>1, <3>2, <3>3
    <3>5. ~Silent(c)'
      BY <2>2, <3>3, <3>4 DEF Silent, DialogFree, Threads
    <3> QED
      BY <3>5 DEF Owed
  <2> QED
    BY <2>1, <2>2, <2>3, HeardWiring
<1>10. ASSUME NEW c \in CallIds, DestroyHangup(c) PROVE Tended(L)'
  <2>1. /\ cb["ui"].pc = "none" /\ ui'.pc # "select" /\ UNCHANGED focus
        /\ \A d \in CallIds : ~Requesting(d)
        /\ miswired' = miswired \ {c}
    BY <1>0, <1>10 DEF DestroyHangup, UiAt, Operation, Requesting, Forget
  <2>2. CASE UNCHANGED <<call, cb>> /\ call[c].hangingUp
    <3>1. /\ ~Owed(c, L)' /\ (Fresh(c) => Fresh(c)')
          /\ call'[c].state = "incoming" => call'[c].media = "none"
      BY <2>2 DEF Owed, Fresh, IsActive, Tended, UnansweredOK
    <3> QED
      BY <2>1, <2>2, <3>1, HeardOne
  <2>3. CASE call' = HangUp(c) /\ Push("ui", "disconnected", c)
    <3>1. \A d \in CallIds \ {c}, t \in Threads :
            About(t, d) \/ About(t, d)' => cb'[t] = cb[t]
      BY <1>0, <2>1, <2>3 DEF Push, About, Threads
    <3> QED
      BY <2>1, <2>3, <3>1, HeardSlot
  <2> QED
    BY <1>10, <2>2, <2>3 DEF DestroyHangup
<1>11. CASE DestroyDone \/ ShutdownReset
  <2>1. call' = NoCalls /\ ui'.pc # "select"
    BY <1>0, <1>11 DEF DestroyDone, ShutdownReset, UiAt, IInv, LifecycleOK,
       Operation, Idle, Begin
  <2> QED
    BY <2>1 DEF Tended, UnansweredOK, Owed, NoCalls, FreeCall
<1> QED
  BY <1>1, <1>2, <1>3, <1>4, <1>5, <1>6, <1>7, <1>8, <1>9, <1>10, <1>11 DEF
     UiStep, HoldOthersStep

\* Nor does a callback, on either thread.
LEMMA HeardCallbackSteps ==
  ASSUME NEW L \in SUBSET CallIds, IInv, AudioInv, Tended(L),
         NEW t \in Threads, CallbackStep(t)
  PROVE  Tended(L)'
<1>0. /\ EngineTypeOK /\ cb \in [Threads -> Frame] /\ CallbackOK /\ DialogLock
      /\ ui' = ui
  BY DEF IInv, TypeOK, CallbackStep, DisconnectedCallback, ReleaseCall, MediaLoad,
     MediaClaim, MediaDecide, MediaConnect
<1>a. cb[t].pc # "none"
  BY DEF CallbackStep, DisconnectedCallback, ReleaseCall, MediaLoad, MediaClaim,
     MediaDecide, MediaConnect
<1>. PICK c \in CallIds : c = cb[t].call
  BY <1>0, <1>a DEF CallbackOK, FrameOK
<1>b. \A x \in Threads \ {t} : cb[x].pc = "none" \/ cb[x].call # c
  BY <1>0, <1>a DEF DialogLock
<1>c. /\ \A x \in Threads \ {t} : cb'[x] = cb[x]
      /\ cb'[t].pc = "none" \/ cb'[t].call = c
  <2>1. CASE \E p \in CbPcs : Goto(t, p)
    BY <1>0, <2>1 DEF Goto, NoFrame, Frame
  <2>2. CASE MediaDecide(t)
    BY <1>0, <2>2 DEF MediaDecide, Frame
  <2> QED
    BY <2>1, <2>2 DEF CallbackStep, DisconnectedCallback, ReleaseCall, MediaLoad,
       MediaClaim, MediaConnect, CbPcs
<1>d. \A d \in CallIds \ {c} :
        /\ Requesting(d) => Requesting(d)'
        /\ \A x \in Threads : About(x, d) \/ About(x, d)' => cb'[x] = cb[x]
  BY <1>0, <1>c DEF About, Requesting
<1>1. CASE DisconnectedCallback(t)
  <2>1. /\ call' = call /\ ~IsActive(c) /\ miswired' = miswired
        /\ \A d \in CallIds : focus' = d => focus = d
    BY <1>0, <1>1, CallIdsAssumption DEF DisconnectedCallback, CallbackOK, FrameOK,
       IsActive, history
  <2>2. /\ ~Owed(c, L)' /\ (Fresh(c) => Fresh(c)')
        /\ call'[c].state = "incoming" => call'[c].media = "none"
    BY <2>1 DEF Owed, Fresh, IsActive, Tended, UnansweredOK
  <2> QED
    BY <1>0, <1>d, <2>1, <2>2, HeardOne
<1>2. CASE ReleaseCall(t)
  BY <1>0, <1>2, <1>d, HeardSlot DEF ReleaseCall, history
<1>3. CASE MediaLoad(t) \/ MediaClaim(t) \/ MediaDecide(t)
  <2>1. /\ call' = call /\ miswired \ {c} \subseteq miswired'
        /\ focus' = focus \/ focus' = c
    BY <1>3 DEF MediaLoad, MediaClaim, MediaDecide, history
  <2>2. Owed(c, L)' => Deciding(c)'
    <3>1. CASE MediaLoad(t) \/ MediaClaim(t)
      <4>1. PICK p \in {"mediaClaim", "mediaDecide"} : Goto(t, p)
        BY <3>1 DEF MediaLoad, MediaClaim
      <4>2. cb'[t].pc \in {"mediaClaim", "mediaDecide"} /\ cb'[t].call = c
        BY <1>0, <4>1 DEF Goto, Frame
      <4> QED
        BY <4>2 DEF Deciding
    <3>2. CASE MediaDecide(t)
      <4>1. /\ cb'[t].pc = "mediaConnect" /\ cb'[t].call = c
            /\ focus' = focus
            /\ focus = c => cb'[t].connect
        BY <1>0, <3>2 DEF MediaDecide, Frame
      <4> QED
        BY <4>1 DEF Deciding, Owed
    <3> QED
      BY <1>3, <3>1, <3>2
  <2>3. /\ Fresh(c) => Fresh(c)'
        /\ call'[c].state = "incoming" => call'[c].media = "none"
    BY <2>1 DEF Fresh, IsActive, Tended, UnansweredOK
  <2> QED
    BY <1>0, <1>d, <2>1, <2>2, <2>3, HeardOne DEF Excused
<1>4. CASE MediaConnect(t)
  <2>. PICK b \in BOOLEAN : b = cb[t].connect
    BY <1>0 DEF Frame
  <2>1. /\ HasPort(c) => call'[c].connected = b
        /\ call'[c].role = call[c].role /\ call'[c].state = call[c].state
        /\ call'[c].hangingUp = call[c].hangingUp
        /\ call'[c].media = call[c].media /\ call'[c].offer = call[c].offer
    BY <1>0, <1>4, ConnectedSet DEF MediaConnect
  <2>2. /\ cb'[t].pc = "none" /\ cb[t].pc = "mediaConnect"
        /\ call' = SetConnected(c, b) /\ UNCHANGED focus
        /\ miswired \ {c} \subseteq miswired'
        /\ call[c].media = "active" => miswired' = miswired
    BY <1>0, <1>4 DEF MediaConnect, Goto, NoFrame
  <2>3. Owed(c, L)' => Excused(c)'
    <3> SUFFICES ASSUME Owed(c, L)' PROVE Excused(c)'
      OBVIOUS
    <3>1. /\ focus = c /\ (call[c].role = "UAS" \/ c \in L) /\ IsActive(c)
          /\ call[c].media = "active" /\ HasPort(c)
      BY <2>1, <2>2 DEF Owed, IsActive, HasPort
    <3>2. CASE b
      <4>1. call'[c].connected
        BY <2>1, <3>1, <3>2
      <4>2. ~Silent(c)'
        BY <1>b, <1>c, <2>2, <4>1 DEF Silent
      <4> QED
        BY <4>2 DEF Owed
    <3>3. CASE ~b
      <4>1. Silent(c)
        BY <2>2, <3>3 DEF Silent
      <4>2. ~Deciding(c)
        BY <1>b, <2>2, <3>3 DEF Deciding
      <4>3. c \in miswired \/ call[c].offer # "none" \/ Requesting(c)
        BY <3>1, <4>1, <4>2 DEF Tended, Owed, Excused
      <4> QED
        BY <1>0, <2>1, <2>2, <3>1, <4>3 DEF Excused, Requesting
    <3> QED
      BY <3>2, <3>3
  <2> QED
    BY <1>0, <1>d, <2>2, <2>3, HeardWiring
<1> QED
  BY <1>1, <1>2, <1>3, <1>4 DEF CallbackStep

\* Nor does what the network brings.
LEMMA HeardNetworkSteps ==
  ASSUME NEW L \in SUBSET CallIds, IInv, BackInv, Tended(L), NetworkEvent
  PROVE  Tended(L)'
<1>0. /\ EngineTypeOK /\ TableOK /\ cb \in [Threads -> Frame]
      /\ UNCHANGED <<ui, focus>> /\ "worker" \in Threads
      /\ \A d \in CallIds : Requesting(d)' = Requesting(d)
  BY DEF IInv, TypeOK, BackInv, NetworkEvent, IncomingCall, Provisional, Accepted,
     MediaUp, Confirmed, PeerReinvite, ReinviteAccepted, ReinviteRefused, PeerEnds,
     HangupCompletes, Threads, Requesting
<1>1. ASSUME NEW c \in CallIds, IncomingCall(c) \/ HangupCompletes(c)
      PROVE  Tended(L)'
  <2>1. /\ call' = Arrive(c) \/ call' = Release(c)
        /\ UNCHANGED <<cb, miswired>>
    BY <1>1 DEF IncomingCall, HangupCompletes, history
  <2> QED
    BY <1>0, <2>1, HeardSlot
<1>2. ASSUME NEW c \in CallIds, PeerEnds(c) PROVE Tended(L)'
  <2>1. /\ call' = Disconnect(c) /\ miswired' = miswired \ {c}
        /\ cb["worker"].pc = "none" /\ Push("worker", "disconnected", c)
    BY <1>2 DEF PeerEnds, WorkerReady, Forget
  <2>2. \A d \in CallIds \ {c}, t \in Threads :
          About(t, d) \/ About(t, d)' => cb'[t] = cb[t]
    BY <1>0, <2>1 DEF Push, About, Threads
  <2> QED
    BY <1>0, <2>1, <2>2, HeardSlot
<1>3. ASSUME NEW c \in CallIds, NEW s \in InvStates \ {"incoming"},
             IsActive(c), call[c].state # "incoming",
             call' = [call EXCEPT ![c].state = s], UNCHANGED <<cb, miswired>>
      PROVE  Tended(L)'
  <2>1. /\ call'[c].state = s
        /\ call'[c].role = call[c].role
        /\ call'[c].media = call[c].media
        /\ call'[c].hangingUp = call[c].hangingUp
        /\ call'[c].offer = call[c].offer
        /\ call'[c].connected = call[c].connected
        /\ \A d \in CallIds \ {c} : call'[d] = call[d]
    BY <1>0, <1>3, StateChange DEF EngineTypeOK
  <2>2. Fresh(c) => Fresh(c)'
    BY <1>3, <2>1 DEF Fresh
  <2>3. Owed(c, L)' => Owed(c, L)
    BY <1>0, <1>3, <2>1 DEF Owed, Silent, IsActive
  <2>4. Excused(c) => Excused(c)'
    BY <1>0, <1>3, <2>1 DEF Excused, Deciding
  <2> QED
    BY <1>0, <1>3, <2>1, <2>2, <2>3, <2>4, HeardOne DEF Tended
<1>4. ASSUME NEW c \in CallIds, Accepted(c) \/ Confirmed(c) PROVE Tended(L)'
  <2>1. PICK s \in {"connecting", "confirmed"} : call' = [call EXCEPT ![c].state = s]
    BY <1>4 DEF Accepted, Confirmed
  <2>2. /\ IsActive(c) /\ call[c].state # "incoming"
        /\ s \in InvStates \ {"incoming"} /\ UNCHANGED <<cb, miswired>>
    BY <1>4, <2>1 DEF Accepted, Confirmed, InvStates, history
  <2> QED
    BY <1>3, <2>1, <2>2
<1>5. ASSUME NEW c \in CallIds, Provisional(c) PROVE Tended(L)'
  <2>0. /\ IsActive(c) /\ call[c].state \in {"calling", "early"}
        /\ cb["worker"].pc = "none" /\ UNCHANGED miswired
        /\ "early" \in InvStates \ {"incoming"}
    BY <1>5 DEF Provisional, WorkerReady, InvStates, history
  <2>1. ASSUME call' = [call EXCEPT ![c].state = "early"], UNCHANGED cb
        PROVE  Tended(L)'
    BY <1>3, <2>0, <2>1
  <2>2. ASSUME NEW m \in Negotiated(c), NEW keep \in BOOLEAN,
               call' = [MediaUpdate(c, m, "none", keep) EXCEPT ![c].state = "early"],
               PushMedia("worker", c, m)
        PROVE  Tended(L)'
    <3> DEFINE table == MediaUpdate(c, m, "none", keep)
    <3>1. m \in MediaStates /\ "none" \in Offers
      BY NegotiatedType DEF Offers
    <3>2. /\ table \in [CallIds -> Call] /\ table[c].media = m
          /\ table[c].role = call[c].role
          /\ table[c].hangingUp = call[c].hangingUp
          /\ \A d \in CallIds \ {c} : table[d] = call[d]
      BY <1>0, <3>1, MediaUpdates
    <3>3. call' = [table EXCEPT ![c].state = "early"]
      BY <2>2
    <3> HIDE DEF table
    <3>4. /\ call'[c].state = "early" /\ call'[c].media = m
          /\ call'[c].role = call[c].role
          /\ call'[c].hangingUp = call[c].hangingUp
          /\ \A d \in CallIds \ {c} : call'[d] = call[d]
      BY <2>0, <3>2, <3>3, StateChange
    <3>5. Fresh(c) => Fresh(c)'
      BY <2>0, <3>4 DEF Fresh
    <3> QED
      BY <1>0, <2>0, <2>2, <3>4, <3>5, HeardMedia
  <2>3. TRUE \in BOOLEAN
    OBVIOUS
  <2> QED
    BY <1>5, <2>1, <2>2, <2>3, Zenon DEF Provisional
<1>6. ASSUME NEW c \in CallIds, MediaUp(c) \/ PeerReinvite(c) \/ ReinviteAccepted(c)
      PROVE  Tended(L)'
  <2>1. PICK m \in Negotiated(c), keep \in BOOLEAN :
          call' = MediaUpdate(c, m, "none", keep) /\ PushMedia("worker", c, m)
    BY <1>6 DEF MediaUp, PeerReinvite, ReinviteAccepted
  <2>2. m \in MediaStates /\ "none" \in Offers
    BY NegotiatedType DEF Offers
  <2>3. /\ cb["worker"].pc = "none" /\ UNCHANGED miswired
        /\ call[c].state # "incoming"
    BY <1>0, <1>6 DEF MediaUp, PeerReinvite, ReinviteAccepted, WorkerReady,
       CanReinvite, TableOK, history
  <2>4. /\ call'[c].state = call[c].state
        /\ call'[c].media = m
        /\ call'[c].role = call[c].role
        /\ call'[c].hangingUp = call[c].hangingUp
        /\ \A d \in CallIds \ {c} : call'[d] = call[d]
    BY <1>0, <2>1, <2>2, MediaUpdates
  <2>5. Fresh(c) => Fresh(c)'
    BY <2>4 DEF Fresh, IsActive
  <2> QED
    BY <1>0, <2>1, <2>3, <2>4, <2>5, HeardMedia
<1>7. ASSUME NEW c \in CallIds, ReinviteRefused(c) PROVE Tended(L)'
  <2>0. /\ call' = RefuseOffer(c) /\ UNCHANGED cb
        /\ miswired' = miswired \cup {d \in {c} : IsActive(d)}
        /\ IsActive(c) /\ call[c].offer # "none"
    BY <1>7 DEF ReinviteRefused, HoldFailed, Miswire
  <2>1. /\ \A d \in CallIds \ {c} : call'[d] = call[d]
        /\ call'[c].state = call[c].state
    BY <1>0, <2>0, OfferSet
  <2>2. c \in miswired' /\ call'[c].state = "confirmed"
    BY <1>0, <2>0, <2>1 DEF TableOK
  <2>3. Fresh(c) => Fresh(c)'
    <3>1. call[c].state = "confirmed" /\ call'[c].role = call[c].role
      BY <1>0, <2>0, <2>1, <2>2, OfferSet
    <3> QED
      BY <2>0, <3>1 DEF Fresh
  <2> QED
    BY <1>0, <2>0, <2>1, <2>2, <2>3, HeardOne DEF Excused
<1> QED
  BY <1>1, <1>2, <1>4, <1>5, <1>6, <1>7 DEF NetworkEvent

\* There is no call in the initial state, so none is owed its audio.
LEMMA InitHeard == Init => HeardInv
  BY DEF Init, HeardInv, Tended, UnansweredOK, Owed, NoCalls, FreeCall, Idle, Begin

\* Every step of the service tends to the lines that the step before it tended to,
\* those of L included, except the line that MakeCall selects.
LEMMA StepTended ==
  ASSUME NEW L \in SUBSET CallIds, IInv, AudioInv, BackInv, Tended(L),
         [Next]_vars, MakeCallSelect => ui.call \notin L
  PROVE  Tended(L)'
<1>1. CASE UserRequest
  BY <1>1, HeardUserSteps
<1>2. CASE CallbackStep("ui") \/ CallbackStep("worker")
  BY <1>2, HeardCallbackSteps DEF Threads
<1>3. CASE UiStep /\ ~CallbackStep("ui")
  BY <1>3, HeardUiSteps
<1>4. CASE NetworkEvent
  BY <1>4, HeardNetworkSteps
<1>5. CASE UNCHANGED vars
  BY <1>5, HeardKept DEF vars, Requesting
<1> QED
  BY <1>1, <1>2, <1>3, <1>4, <1>5 DEF Next

\* Every step of the service preserves the invariant about the selected line.
LEMMA StepHeard ==
  IInv /\ AudioInv /\ BackInv /\ HeardInv /\ [Next]_vars => HeardInv'
<1> SUFFICES ASSUME IInv, AudioInv, BackInv, HeardInv, [Next]_vars PROVE HeardInv'
  OBVIOUS
<1>1. PICK L \in SUBSET CallIds : L = {}
  OBVIOUS
<1>2. Tended(L) /\ ui.call \notin L
  BY <1>1 DEF HeardInv
<1>3. Tended(L)'
  BY <1>2, StepTended
<1> QED
  BY <1>1, <1>3 DEF HeardInv

\* It holds of every state of every instance.
LEMMA HeardInvariance == Spec => []HeardInv
  BY Invariance, AudioInvariance, BackInvariance, InitHeard, StepHeard, PTL DEF Spec

\* An answered line that has the focus and running audio is connected to the
\* sound device once nothing is under way, whatever the auto-hold switch says
\* and however its callbacks raced with the statement that selected it, unless a
\* failed request or a refresh that acted on stale facts has rewired it.
THEOREM SelectedLineIsHeard == Spec => []SelectedIsHeard
<1>1. IInv /\ HeardInv => SelectedIsHeard
  BY DEF IInv, HeardInv, Tended, SelectedIsHeard, Settled, UiIdle, Owed, Excused, Silent,
     Requesting, Deciding, Threads
<1> QED
  BY <1>1, Invariance, HeardInvariance, PTL

\* Only MakeCall's selection of its own call can leave the selected line silent
\* with nobody to see to it: no callback, hold, resume, answer or device refresh
\* does, whether the line came in or was called, and however they interleave.
THEOREM OnlyLateSelectionNeglects == Spec => OnlyLateSelectNeglects
<1>1. IInv /\ AudioInv /\ BackInv /\ HeardInv /\ [Next]_vars => [NeglectStep]_vars
  <2> SUFFICES ASSUME IInv, AudioInv, BackInv, HeardInv, [Next]_vars,
                      NEW c \in CallIds, Neglected(c)', ~Neglected(c),
                      ~(MakeCallSelect /\ ui.call = c)
               PROVE  FALSE
    BY DEF NeglectStep
  <2>1. PICK L \in SUBSET CallIds : L = {c}
    OBVIOUS
  <2>2. Tended(L)
    BY <2>1 DEF HeardInv, Tended, Owed, Excused, Neglected
  <2>3. Tended(L)'
    BY <2>1, <2>2, StepTended
  <2> QED
    BY <2>1, <2>3 DEF Tended, Owed, Excused, Neglected
<1> QED
  BY <1>1, Invariance, AudioInvariance, BackInvariance, HeardInvariance, PTL
     DEF Spec, OnlyLateSelectNeglects

-----------------------------------------------------------------------------

(***************************************************************************)
(* The lines that are heard although they are held: a refused resume leaves *)
(* one with the flag set and its old media. LooseInv follows them until the *)
(* loop cuts their audio: until then they have the focus.                  *)
(***************************************************************************)

\* Thread t runs a media callback that may connect its line.
Undecided(t) ==
  \/ cb[t].pc \in {"mediaLoad", "mediaClaim", "mediaDecide"}
  \/ cb[t].pc = "mediaConnect" /\ cb[t].connect

\* Only a confirmed line is on local hold, and none that a callback may connect.
HoldFlagOK ==
  /\ \A c \in CallIds : call[c].localHold => call[c].state = "confirmed"
  /\ \A t \in Threads : Undecided(t) => ~call[cb[t].call].localHold

\* A line that is on local hold and heard, with nothing to excuse it.
Loose(c) ==
  /\ call[c].connected /\ call[c].localHold
  /\ call[c].offer = "none" /\ call[c].media # "localHold"
  /\ c \notin unheld \cup miswired

\* The lines whose audio HoldOtherConfirmedCalls has still to cut.
Ahead == IF ui.pc \in {"scan", "holdSend"} THEN ui.todo
         ELSE IF ui.pc = "holdCut" THEN ui.todo \cup {ui.line} ELSE {}

\* The operation is to select a line, or has done so.
Selecting == ui.op \in {"make", "answer", "resume"} \/ ui.pc = "select"

\* The line has the focus or is about to be cut; before the focus moves, it is cut
\* or about to be selected; before the focus is given up, it is cut.
Placed(c) ==
  /\ focus = c \/ c \in Ahead
  /\ Selecting => \/ c \in Ahead
                  \/ c = ui.call /\ (ui.op = "make" => ui.pc = "select")
  /\ ui.pc = "clear" => c # ui.call

LooseInv ==
  HoldFlagOK /\ (Steady => \A c \in CallIds : Loose(c) => Placed(c))

\* A step about at most one call, which loosens no line, keeps the invariant if
\* the operation stays where it is and the focus on the line that is loose.
LEMMA LooseKept ==
  ASSUME LooseInv, HoldFlagOK', UNCHANGED ui,
         \A d \in CallIds : Loose(d)' => Loose(d) /\ (focus = d => focus' = d)
  PROVE  LooseInv'
<1>1. ASSUME Steady, NEW d \in CallIds, Loose(d)' PROVE Placed(d)'
  <2>1. Placed(d) /\ (focus = d => focus' = d)
    BY <1>1 DEF LooseInv
  <2> QED
    BY <2>1 DEF Placed, Ahead, Selecting
<1> QED
  BY <1>1 DEF LooseInv, Steady

\* So it does where the operation goes on, if each line that is loose is placed.
LEMMA LooseMoved ==
  ASSUME LooseInv, HoldFlagOK',
         Steady => \A d \in CallIds : Loose(d)' => Placed(d)'
  PROVE  LooseInv'
  BY DEF LooseInv, Steady

\* Whatever leaves the calls alone and forgets nothing loosens no line.
LEMMA LooseSame ==
  ASSUME LooseInv, UNCHANGED <<call, cb>>,
         unheld \subseteq unheld', miswired \subseteq miswired'
  PROVE  HoldFlagOK' /\ \A d \in CallIds : Loose(d)' => Loose(d)
  BY DEF LooseInv, HoldFlagOK, Undecided, Loose

\* Nor does a call that begins, is over or gives its slot back.
LEMMA LooseSlot ==
  ASSUME EngineTypeOK, CallbackOK, LooseInv, NEW c \in CallIds,
         \/ call' = PlaceCall(c) \/ call' = Arrive(c) \/ call' = HangUp(c)
         \/ call' = Disconnect(c) \/ call' = Release(c),
         \A t \in Threads : Undecided(t)' => cb'[t] = cb[t],
         unheld \ {c} \subseteq unheld', miswired \ {c} \subseteq miswired'
  PROVE  HoldFlagOK' /\ \A d \in CallIds : Loose(d)' => Loose(d)
<1>1. /\ \A d \in CallIds \ {c} : call'[d] = call[d]
      /\ ~call'[c].connected /\ ~call'[c].localHold
  BY SlotReset
<1>2. \A t \in Threads : Undecided(t)' => Undecided(t) /\ cb[t].call \in CallIds
  BY DEF Undecided, CallbackOK, FrameOK
<1>3. HoldFlagOK'
  BY <1>1, <1>2 DEF LooseInv, HoldFlagOK
<1> QED
  BY <1>1, <1>3 DEF Loose

\* Nor does a media update: of a held line it is the answer to its hold.
LEMMA LooseMedia ==
  ASSUME cb \in [Threads -> Frame], CallbackOK, LooseInv,
         NEW t \in Threads, NEW c \in CallIds, NEW m \in Negotiated(c),
         PushMedia(t, c, m),
         call'[c].media = m, call'[c].localHold = call[c].localHold,
         call'[c].localHold => call'[c].state = "confirmed",
         \A d \in CallIds \ {c} : call'[d] = call[d],
         unheld \ {c} \subseteq unheld', miswired \subseteq miswired',
         \* what it forgets is about a line that is held
         c \in unheld \ unheld' => call[c].localHold,
         call'[c].connected => call[c].connected,
         DialogFree(t, c)
  PROVE  HoldFlagOK' /\ \A d \in CallIds : Loose(d)' => Loose(d)
<1>1. /\ cb'[t].call = c /\ cb'[t].connect = FALSE
      /\ cb'[t].pc = IF m = "active" THEN "mediaLoad" ELSE "mediaConnect"
      /\ \A x \in Threads \ {t} : cb'[x] = cb[x]
  BY DEF PushMedia, Push
<1>2. /\ call[c].localHold => m = "localHold"
      /\ m = "active" => ~call[c].localHold
  BY DEF Negotiated
<1>3. \A x \in Threads \ {t} : cb[x].pc = "none" \/ cb[x].call # c
  BY DEF DialogFree
<1>4. ASSUME NEW x \in Threads, Undecided(x)' PROVE ~call'[cb'[x].call].localHold
  <2>1. CASE x = t
    BY <1>1, <1>2, <1>4, <2>1 DEF Undecided
  <2>2. CASE x # t
    BY <1>1, <1>3, <1>4, <2>2 DEF Undecided, LooseInv, HoldFlagOK, CallbackOK, FrameOK
  <2> QED
    BY <2>1, <2>2
<1>5. HoldFlagOK'
  BY <1>4 DEF LooseInv, HoldFlagOK
<1>6. ~Loose(c)'
  BY <1>2 DEF Loose
<1> QED
  BY <1>5, <1>6 DEF Loose

\* Nor does an offer of ours, nor its end, which leaves the line rewired if its
\* media is not what its flag says.
LEMMA LooseOffer ==
  ASSUME EngineTypeOK, cb \in [Threads -> Frame], CallbackOK, LooseInv, TableOK,
         NEW c \in CallIds,
         \/ call[c].state = "confirmed" /\ (call' = SendHold(c) \/ call' = SendUnhold(c))
         \/ /\ call' = RefuseOffer(c)
            /\ call[c].offer = "unhold" => call[c].state = "confirmed" /\ c \in miswired',
         \A t \in Threads : cb[t].pc = "none" \/ cb[t].call # c,
         cb' = cb, unheld \subseteq unheld', miswired \subseteq miswired'
  PROVE  HoldFlagOK' /\ \A d \in CallIds : Loose(d)' => Loose(d)
<1>1. /\ \A d \in CallIds \ {c} : call'[d] = call[d]
      /\ call'[c].state = call[c].state
      /\ call' = SendHold(c) \/ call' = SendUnhold(c) => call'[c].offer # "none"
      /\ call' = RefuseOffer(c) => call'[c].localHold = (call[c].offer = "unhold")
  <2>1. /\ call' = SendHold(c) \/ call' = SendUnhold(c) \/ call' = RefuseOffer(c)
        /\ "hold" # "none" /\ "unhold" # "none"
    OBVIOUS
  <2> QED
    BY <2>1, OfferSet
<1>2. call'[c].localHold => call'[c].state = "confirmed"
  BY <1>1
<1>3. HoldFlagOK'
  BY <1>1, <1>2 DEF LooseInv, HoldFlagOK, Undecided, CallbackOK, FrameOK
<1>4. ~Loose(c)'
  BY <1>1 DEF Loose
<1> QED
  BY <1>1, <1>3, <1>4 DEF Loose

\* Nor does the progress of a call.
LEMMA LooseProgress ==
  ASSUME EngineTypeOK, CallbackOK, LooseInv, NEW c \in CallIds, NEW s \in InvStates,
         call' = [call EXCEPT ![c].state = s],
         call[c].state # "confirmed", UNCHANGED <<cb, unheld, miswired>>
  PROVE  HoldFlagOK' /\ \A d \in CallIds : Loose(d)' => Loose(d)
<1>1. /\ call'[c].localHold = call[c].localHold
      /\ call'[c].offer = call[c].offer /\ call'[c].media = call[c].media
      /\ call'[c].connected = call[c].connected
      /\ \A d \in CallIds \ {c} : call'[d] = call[d]
  BY StateChange DEF EngineTypeOK
<1>2. HoldFlagOK'
  BY <1>1 DEF LooseInv, HoldFlagOK, Undecided, CallbackOK, FrameOK
<1> QED
  BY <1>1, <1>2 DEF Loose

\* Nor does cutting or connecting the audio of a line: what may connect one finds it
\* off hold, or leaves it noted.
LEMMA LooseWiring ==
  ASSUME EngineTypeOK, CallbackOK, AudioInv, LooseInv, NEW c \in CallIds,
         NEW b \in BOOLEAN, call' = SetConnected(c, b),
         \A t \in Threads : Undecided(t)' => cb'[t] = cb[t],
         unheld \subseteq unheld', miswired \ {c} \subseteq miswired',
         b => ~call[c].localHold
  PROVE  HoldFlagOK' /\ \A d \in CallIds : Loose(d)' => Loose(d) /\ d # c
<1>1. /\ HasPort(c) => call'[c].connected = b
      /\ ~HasPort(c) => call'[c].connected = call[c].connected
      /\ \A d \in CallIds \ {c} : call'[d] = call[d]
      /\ \A d \in CallIds : /\ call'[d].state = call[d].state
                            /\ call'[d].localHold = call[d].localHold
  BY ConnectedSet
<1>2. call'[c].connected => b
  BY <1>1 DEF AudioInv, PortOK
<1>3. HoldFlagOK'
  BY <1>1 DEF LooseInv, HoldFlagOK, Undecided, CallbackOK, FrameOK
<1>4. ~Loose(c)'
  BY <1>1, <1>2 DEF Loose
<1> QED
  BY <1>1, <1>3, <1>4 DEF Loose

\* Requests of the user leave each line that is loose where the operation finds it.
LEMMA LooseUserSteps ==
  ASSUME IInv, AudioInv, BackInv, LooseInv, UserRequest
  PROVE  LooseInv'
<1>0. /\ EngineTypeOK /\ cb \in [Threads -> Frame] /\ CallbackOK /\ ui.pc = "idle"
  BY DEF IInv, TypeOK, UserRequest, MakeCall, AnswerCall, RejectCall, HangupCall,
     HangupInactiveCall, HoldCall, ResumeCall, SetAutoHoldOnIncoming,
     RefreshSystemAudioDevices, Initialize, Shutdown, UiIdle
<1>1. ASSUME NEW c \in CallIds, RejectCall(c) \/ HangupCall(c) PROVE LooseInv'
  <2>1. /\ call' = Disconnect(c) \/ call' = HangUp(c)
        /\ Push("ui", "disconnected", c) /\ UNCHANGED <<ui, focus>>
        /\ unheld' = unheld \ {c} /\ miswired' = miswired \ {c}
    BY <1>1 DEF RejectCall, HangupCall, Forget
  <2>2. \A t \in Threads : Undecided(t)' => cb'[t] = cb[t]
    BY <1>0, <2>1 DEF Undecided, Push, Threads
  <2>3. HoldFlagOK' /\ \A d \in CallIds : Loose(d)' => Loose(d)
    BY <1>0, <2>1, <2>2, LooseSlot
  <2> QED
    BY <2>1, <2>3, LooseKept
<1>2. ASSUME NEW c \in CallIds, HangupInactiveCall(c) PROVE LooseInv'
  <2>1. /\ UNCHANGED <<call, cb, ui, unheld, miswired>> /\ ~Loose(c) /\ focus = c
    BY <1>2 DEF HangupInactiveCall, history, Loose, AudioInv, PortOK, HasPort
  <2>2. HoldFlagOK' /\ \A d \in CallIds : Loose(d)' => Loose(d)
    BY <2>1, LooseSame
  <2> QED
    BY <2>1, <2>2, LooseKept
<1>3. ASSUME UNCHANGED <<call, cb, focus, unheld, miswired>>,
             \/ ui' = ui
             \/ ui'.op \notin {"make", "answer", "resume"} /\ ui'.pc \notin {"select", "clear"}
             \/ /\ Steady => EnumCalls \ {ui'.call} \subseteq ui'.todo
                /\ ui'.pc = "scan"
                /\ ui'.op = "make" => ui'.call \notin CallIds
      PROVE  LooseInv'
  <2>1. HoldFlagOK' /\ \A d \in CallIds : Loose(d)' => Loose(d)
    BY <1>3, LooseSame
  <2>2. \A d \in CallIds : Loose(d) => d \in EnumCalls
    BY DEF Loose, AudioInv, PortOK, HasPort, IsActive, EnumCalls
  <2>3. Steady => \A d \in CallIds : Loose(d)' => Placed(d)'
    BY <1>0, <1>3, <2>1, <2>2 DEF LooseInv, Placed, Ahead, Selecting
  <2> QED
    BY <2>1, <2>3, LooseMoved
<1>4. CASE \/ RefreshSystemAudioDevices \/ Shutdown \/ Initialize
           \/ \E b \in AutoHoldSettings : SetAutoHoldOnIncoming(b)
           \/ \E c \in CallIds : HoldCall(c)
  BY <1>3, <1>4 DEF RefreshSystemAudioDevices, Shutdown, Initialize,
     SetAutoHoldOnIncoming, HoldCall, Begin, history
<1>5. CASE MakeCall \/ \E c \in CallIds : AnswerCall(c) \/ ResumeCall(c)
  <2>1. /\ Steady => EnumCalls \ {ui'.call} \subseteq ui'.todo
        /\ ui'.pc = "scan" /\ (ui'.op = "make" => ui'.call \notin CallIds)
    BY <1>5, CallIdsAssumption DEF MakeCall, AnswerCall, ResumeCall, Begin, AudioInv,
       TalkOK
  <2> QED
    BY <1>3, <1>5, <2>1 DEF MakeCall, AnswerCall, ResumeCall, history
<1> QED
  BY <1>1, <1>2, <1>4, <1>5 DEF UserRequest

\* The loop cuts them, and the statements around it select none but them.
LEMMA LooseUiSteps ==
  ASSUME IInv, AudioInv, BackInv, LooseInv, UiStep, ~CallbackStep("ui")
  PROVE  LooseInv'
<1>0. /\ EngineTypeOK /\ cb \in [Threads -> Frame] /\ CallbackOK /\ UiOK /\ TableOK
      /\ ui \in Operation
  BY DEF IInv, TypeOK, BackInv
<1>1. CASE \/ \E d \in CallIds : ScanHold(d) \/ RefreshScan(d)
           \/ AnswerLoad \/ AnswerFails \/ RefreshDone \/ DestroyJoin
  <2>1. UNCHANGED <<call, cb, focus, unheld, miswired>>
    BY <1>1 DEF ScanHold, RefreshScan, AnswerLoad, AnswerFails, RefreshDone,
       DestroyJoin, history
  <2>2. HoldFlagOK' /\ \A d \in CallIds : Loose(d)' => Loose(d)
    BY <2>1, LooseSame
  <2>3. \A d \in CallIds : Placed(d) => Placed(d)'
    <3>1. CASE \E d \in CallIds : ScanHold(d)
      BY <1>0, <2>1, <3>1 DEF ScanHold, UiAt, Operation, Placed, Ahead, Selecting
    <3>2. CASE AnswerLoad \/ AnswerFails
      BY <1>0, <2>1, <3>2 DEF AnswerLoad, AnswerFails, ScanDone, UiAt, Operation,
         Placed, Ahead, Selecting
    <3>3. CASE \E d \in CallIds : RefreshScan(d)
      <4>1. /\ ui'.pc \in {"devScan", "devCut"} /\ ui.pc = "devScan"
            /\ ui'.op = ui.op /\ ui'.call = ui.call
        BY <1>0, <3>3 DEF RefreshScan, UiAt, Operation
      <4> QED
        BY <2>1, <4>1 DEF Placed, Ahead, Selecting
    <3>4. CASE DestroyJoin
      <4>1. /\ ui'.pc # "clear" /\ ui'.pc # "select" /\ ui'.op = ui.op
            /\ ui.pc \notin {"scan", "holdSend", "holdCut", "select"}
            /\ ui'.call = ui.call
        BY <1>0, <3>4 DEF DestroyJoin, UiAt, Operation
      <4> QED
        BY <2>1, <4>1 DEF Placed, Ahead, Selecting
    <3>5. CASE RefreshDone
      BY <2>1, <3>5 DEF RefreshDone, UiAt, Idle, Begin, Placed, Ahead, Selecting
    <3> QED
      BY <1>1, <3>1, <3>2, <3>3, <3>4, <3>5
  <2>4. Steady => \A d \in CallIds : Loose(d)' => Placed(d)'
    BY <2>2, <2>3 DEF LooseInv
  <2> QED
    BY <2>2, <2>4, LooseMoved
<1>2. ASSUME NEW d \in CallIds, ScanSkip(d) PROVE LooseInv'
  <2>1. /\ UNCHANGED <<call, cb, focus, miswired>> /\ unheld \subseteq unheld'
        /\ ui'.pc = "scan" /\ ui.pc = "scan" /\ ui'.op = ui.op
        /\ ui'.call = ui.call /\ ui'.todo = ui.todo \ {d}
    BY <1>0, <1>2 DEF ScanSkip, UiAt, Operation
  <2>2. HoldFlagOK' /\ \A c \in CallIds : Loose(c)' => Loose(c)
    BY <2>1, LooseSame
  <2>3. ~Loose(d)
    BY <1>2 DEF ScanSkip, ToHold, Loose, LooseInv, HoldFlagOK
  <2>4. \A c \in CallIds \ {d} : Placed(c) => Placed(c)'
    BY <2>1 DEF Placed, Ahead, Selecting
  <2> QED
    BY <2>2, <2>3, <2>4, LooseMoved DEF LooseInv
<1>3. CASE HoldCut \/ HoldCallCut \/ RefreshCut
  <2> DEFINE c == IF HoldCallCut THEN ui.call ELSE ui.line
  <2>1. /\ c \in CallIds /\ call' = SetConnected(c, FALSE)
        /\ UNCHANGED <<cb, focus, unheld, miswired>>
    BY <1>0, <1>3 DEF HoldCut, HoldCallCut, RefreshCut, UiAt, UiOK
  <2>2. PICK d \in CallIds, b \in BOOLEAN :
          d = c /\ ~b /\ call' = SetConnected(d, b)
    BY <2>1, Zenon
  <2>3. HoldFlagOK' /\ \A e \in CallIds : Loose(e)' => Loose(e) /\ e # d
    BY <1>0, <2>1, <2>2, LooseWiring
  <2>4. \A e \in CallIds \ {d} : Placed(e) => Placed(e)'
    BY <1>0, <1>3, <2>1, <2>2 DEF HoldCut, HoldCallCut, RefreshCut, UiAt, Operation,
       Placed, Ahead, Selecting
  <2> QED
    BY <2>3, <2>4, LooseMoved DEF LooseInv
<1>4. CASE HoldSend \/ HoldCallSend \/ ResumeSend
  <2> DEFINE c == IF HoldSend THEN ui.line ELSE ui.call
  <2>1. /\ c \in CallIds /\ cb["ui"].pc = "none" /\ UNCHANGED <<cb, focus>>
        /\ unheld \subseteq unheld' /\ miswired \subseteq miswired'
        /\ \/ call' = call
           \/ /\ CanReinvite(c) /\ DialogFree("ui", c)
              /\ call' = SendHold(c) \/ call' = SendUnhold(c)
    BY <1>0, <1>4 DEF HoldSend, HoldCallSend, ResumeSend, UiAt, UiOK, HoldFailed,
       Miswire, history
  <2>2. HoldFlagOK' /\ \A d \in CallIds : Loose(d)' => Loose(d)
    <3>1. CASE call' = call
      BY <2>1, <3>1, LooseSame
    <3>2. CASE /\ CanReinvite(c) /\ DialogFree("ui", c)
               /\ call' = SendHold(c) \/ call' = SendUnhold(c)
      <4>1. \A t \in Threads : cb[t].pc = "none" \/ cb[t].call # c
        BY <2>1, <3>2 DEF DialogFree
      <4> HIDE DEF c
      <4> QED
        BY <1>0, <2>1, <3>2, <4>1, LooseOffer DEF CanReinvite
    <3> QED
      BY <2>1, <3>1, <3>2
  <2>3. \A d \in CallIds : Loose(d)' /\ Placed(d) => Placed(d)'
    <3>1. CASE HoldSend
      BY <1>0, <2>1, <3>1 DEF HoldSend, UiAt, Operation, Placed, Ahead, Selecting
    <3>2. CASE ResumeSend \/ (HoldCallSend /\ ui' = Idle)
      BY <1>0, <2>1, <3>2 DEF ResumeSend, HoldCallSend, UiAt, UiOK, Placed, Ahead,
         Selecting, Idle, Begin
    <3>3. CASE HoldCallSend /\ ui' = [ui EXCEPT !.pc = "clear"]
      <4>1. /\ ui.pc = "send" /\ ui.op = "hold" /\ ui'.pc = "clear" /\ ui'.op = "hold"
            /\ ui'.call = ui.call /\ ui.call \in CallIds
        BY <1>0, <3>3 DEF HoldCallSend, UiAt, UiOK, Operation
      <4>2. call' = SendHold(ui.call)
        BY <3>3, <4>1 DEF HoldCallSend, Idle, Begin
      <4>3. \A d \in CallIds : d = ui.call => ~Loose(d)'
        <5>1. call'[ui.call].offer = "hold"
          BY <1>0, <4>1, <4>2, OfferSet
        <5> QED
          BY <5>1 DEF Loose
      <4>4. \A d \in CallIds \ {ui.call} : Placed(d) => Placed(d)'
        BY <2>1, <4>1 DEF Placed, Ahead, Selecting
      <4> QED
        BY <4>3, <4>4
    <3>4. HoldCallSend => ui' = Idle \/ ui' = [ui EXCEPT !.pc = "clear"]
      BY Zenon DEF HoldCallSend
    <3> QED
      BY <1>4, <3>1, <3>2, <3>3, <3>4
  <2> QED
    BY <2>2, <2>3, LooseMoved DEF LooseInv
<1>5. CASE MakeCallInvite
  <2>1. /\ UNCHANGED <<cb, focus, unheld, miswired>>
        /\ ui.pc = "scan" /\ ui.todo = {} /\ ui.op = "make"
    BY <1>5 DEF MakeCallInvite, ScanDone, UiAt, history
  <2>2. HoldFlagOK' /\ \A d \in CallIds : Loose(d)' => Loose(d)
    <3>1. CASE call' = call
      BY <2>1, <3>1, LooseSame
    <3>2. ASSUME NEW c \in CallIds, call' = PlaceCall(c)
          PROVE  HoldFlagOK' /\ \A d \in CallIds : Loose(d)' => Loose(d)
      BY <1>0, <2>1, <3>2, LooseSlot DEF Undecided
    <3> QED
      BY <1>5, <3>1, <3>2 DEF MakeCallInvite
  <2>3. Steady => \A d \in CallIds : ~Loose(d)
    BY <2>1 DEF LooseInv, Placed, Ahead, Selecting
  <2> QED
    BY <2>2, <2>3, LooseMoved
<1>6. CASE MakeCallSelect \/ AnswerSelect \/ ResumeSelect
  <2>1. /\ UNCHANGED <<call, cb, miswired>> /\ unheld' = unheld \ {ui.call}
        /\ focus' = ui.call
        /\ Selecting /\ Ahead = {}
        /\ \/ ui'.op \notin {"make", "answer", "resume"} /\ ui'.pc = "idle"
           \/ /\ ui'.pc \in {"answerSend", "resumeSend"} /\ ui'.call = ui.call
              /\ ui'.op # "make"
    BY <1>0, <1>6 DEF MakeCallSelect, AnswerSelect, ResumeSelect, ScanDone, UiAt, UiOK,
       Operation, Selecting, Ahead, Idle, Begin
  <2>2. HoldFlagOK'
    BY <2>1 DEF LooseInv, HoldFlagOK, Undecided
  <2>3. \A d \in CallIds \ {ui.call} : Loose(d)' => Loose(d)
    BY <2>1 DEF Loose
  <2>4. Steady => \A d \in CallIds : Loose(d)' => d = ui.call
    BY <2>1, <2>3 DEF LooseInv, Placed
  <2>5. Steady => \A d \in CallIds : Loose(d)' => Placed(d)'
    BY <2>1, <2>4 DEF Placed, Ahead, Selecting
  <2> QED
    BY <2>2, <2>5, LooseMoved
<1>7. CASE AnswerSend
  <2>. PICK c \in CallIds : c = ui.call
    BY <1>0, <1>7 DEF AnswerSend, UiAt, UiOK
  <2>0. /\ c = ui.call /\ ui.pc = "answerSend" /\ DialogFree("ui", c)
        /\ call[c].state = "incoming" /\ ~call[c].localHold
        /\ ui' = Idle /\ "ui" \in Threads
        /\ UNCHANGED <<focus, unheld, miswired>>
        /\ "connecting" \in InvStates
    BY <1>7 DEF AnswerSend, UiAt, CanAnswer, history, LooseInv, HoldFlagOK, Threads,
       InvStates
  <2>1. HoldFlagOK' /\ \A d \in CallIds : Loose(d)' => Loose(d)
    <3>1. ASSUME NEW m \in Negotiated(c), NEW keep \in BOOLEAN,
                 call' = [MediaUpdate(c, m, "none", keep)
                            EXCEPT ![c].state = "connecting"],
                 PushMedia("ui", c, m)
          PROVE  HoldFlagOK' /\ \A d \in CallIds : Loose(d)' => Loose(d)
      <4> DEFINE table == MediaUpdate(c, m, "none", keep)
      <4>1. /\ m \in MediaStates /\ "none" \in Offers
        BY NegotiatedType DEF Offers
      <4>2. /\ table \in [CallIds -> Call] /\ table[c].media = m
            /\ table[c].localHold = call[c].localHold
            /\ table[c].connected => call[c].connected
            /\ \A d \in CallIds \ {c} : table[d] = call[d]
        BY <1>0, <4>1, MediaUpdates
      <4>3. call' = [table EXCEPT ![c].state = "connecting"]
        BY <3>1
      <4> HIDE DEF table
      <4>4. /\ call'[c].media = m /\ call'[c].localHold = call[c].localHold
            /\ call'[c].connected => call[c].connected
            /\ \A d \in CallIds \ {c} : call'[d] = call[d]
        BY <2>0, <4>2, <4>3, StateChange
      <4> QED
        BY <1>0, <2>0, <3>1, <4>4, LooseMedia
    <3>2. CASE call' = [call EXCEPT ![c].state = "connecting"] /\ UNCHANGED cb
      BY <1>0, <2>0, <3>2, LooseProgress
    <3>3. FALSE \in BOOLEAN
      OBVIOUS
    <3> QED
      BY <1>7, <2>0, <3>1, <3>2, <3>3, Zenon DEF AnswerSend
  <2>2. \A d \in CallIds : Placed(d) => Placed(d)'
    BY <2>0 DEF Placed, Ahead, Selecting, Idle, Begin
  <2> QED
    BY <2>1, <2>2, LooseMoved DEF LooseInv
<1>8. CASE AnswerRestore
  <2>1. /\ UNCHANGED <<call, cb>> /\ ui.pc = "answerRestore" /\ ui.op = "answer"
        /\ unheld \subseteq unheld' /\ miswired \subseteq miswired'
        /\ unheld' = unheld \cup {c \in {ui.call} : IsActive(c)}
    BY <1>0, <1>8 DEF AnswerRestore, UiAt, UiOK
  <2>2. HoldFlagOK' /\ \A d \in CallIds : Loose(d)' => Loose(d)
    BY <2>1, LooseSame
  <2>3. Steady => \A d \in CallIds : Loose(d) => d = ui.call /\ IsActive(d)
    BY <2>1 DEF LooseInv, Placed, Ahead, Selecting, Loose, AudioInv, PortOK, HasPort
  <2>4. Steady => \A d \in CallIds : ~Loose(d)'
    BY <2>1, <2>2, <2>3 DEF Loose
  <2> QED
    BY <2>2, <2>4, LooseMoved
<1>9. CASE HoldCallClear
  <2>1. /\ UNCHANGED <<call, cb, unheld, miswired>> /\ ui.pc = "clear"
        /\ focus' = focus \/ focus = ui.call
        /\ ui' = Idle
    BY <1>9 DEF HoldCallClear, UiAt
  <2>2. HoldFlagOK' /\ \A d \in CallIds : Loose(d)' => Loose(d)
    BY <2>1, LooseSame
  <2>3. \A d \in CallIds : Placed(d) => Placed(d)'
    BY <2>1 DEF Placed, Ahead, Selecting, Idle, Begin
  <2> QED
    BY <2>2, <2>3, LooseMoved DEF LooseInv
<1>10. CASE RefreshConnect
  <2>. PICK c \in CallIds, b \in BOOLEAN : c = ui.line /\ b = ui.connect
    BY <1>0, <1>10 DEF RefreshConnect, UiAt, UiOK, Operation
  <2>0. /\ ui.pc = "devConnect" /\ call' = SetConnected(c, b)
        /\ UNCHANGED <<focus, cb, unheld>>
        /\ miswired \ {c} \subseteq miswired'
        /\ Steady => c \in miswired' \/ ~b \/ focus = c
    BY <1>0, <1>10 DEF RefreshConnect, UiAt, UiOK, Operation, AudioInv, TalkOK
  <2>1. /\ HasPort(c) => call'[c].connected = b
        /\ ~HasPort(c) => call'[c].connected = call[c].connected
        /\ \A d \in CallIds \ {c} : call'[d] = call[d]
        /\ \A d \in CallIds : /\ call'[d].state = call[d].state
                              /\ call'[d].localHold = call[d].localHold
    BY <1>0, <2>0, ConnectedSet
  <2>2. HoldFlagOK'
    BY <1>0, <2>0, <2>1 DEF LooseInv, HoldFlagOK, Undecided, CallbackOK, FrameOK
  <2>3. call'[c].connected => b
    BY <2>0, <2>1 DEF AudioInv, PortOK
  <2>4. \A d \in CallIds \ {c} : Loose(d)' => Loose(d)
    BY <2>0, <2>1 DEF Loose
  <2>5. Steady /\ Loose(c)' => focus' = c
    BY <2>0, <2>3 DEF Loose
  <2>6. ui'.pc = "devScan" /\ ui'.op = "refresh"
    BY <1>0, <1>10, <2>0 DEF RefreshConnect, Operation, UiOK
  <2>7. Steady => \A d \in CallIds : Loose(d)' => focus' = d
    <3>1. Steady => \A d \in CallIds : Loose(d) => focus = d
      BY <2>0 DEF LooseInv, Placed, Ahead
    <3> QED
      BY <2>0, <2>4, <2>5, <3>1
  <2>8. Steady => \A d \in CallIds : Loose(d)' => Placed(d)'
    BY <2>6, <2>7 DEF Placed, Selecting
  <2> QED
    BY <2>2, <2>8, LooseMoved
<1>11. ASSUME NEW c \in CallIds, DestroyHangup(c) PROVE LooseInv'
  <2>1. /\ UNCHANGED focus /\ unheld' = unheld \ {c} /\ miswired' = miswired \ {c}
        /\ ui'.pc = "hangupAll" /\ ui.pc = "hangupAll" /\ ui'.op = ui.op /\ ui'.call = ui.call
    BY <1>0, <1>11 DEF DestroyHangup, Forget, UiAt, Operation
  <2>2. HoldFlagOK' /\ \A d \in CallIds : Loose(d)' => Loose(d)
    <3>1. CASE UNCHANGED <<call, cb>> /\ call[c].hangingUp
      <4>1. ~call[c].connected
        BY <3>1 DEF AudioInv, PortOK, HasPort, IsActive
      <4> QED
        BY <2>1, <3>1, <4>1 DEF LooseInv, HoldFlagOK, Undecided, Loose
    <3>2. CASE call' = HangUp(c) /\ Push("ui", "disconnected", c)
      <4>1. \A t \in Threads : Undecided(t)' => cb'[t] = cb[t]
        BY <1>0, <3>2 DEF Undecided, Push, Threads
      <4> QED
        BY <1>0, <2>1, <3>2, <4>1, LooseSlot
    <3> QED
      BY <1>11, <3>1, <3>2 DEF DestroyHangup
  <2>3. \A d \in CallIds : Placed(d) => Placed(d)'
    BY <2>1 DEF Placed, Ahead, Selecting
  <2> QED
    BY <2>2, <2>3, LooseMoved DEF LooseInv
<1>12. CASE DestroyDone \/ ShutdownReset
  <2>1. /\ \A c \in CallIds : call'[c] = FreeCall
        /\ \A t \in Threads : cb'[t].pc = "none"
    BY <1>0, <1>12 DEF DestroyDone, ShutdownReset, UiAt, NoCalls, IInv, LifecycleOK,
       Threads
  <2> QED
    BY <2>1 DEF LooseInv, HoldFlagOK, Undecided, Loose, FreeCall
<1> QED
  BY <1>1, <1>2, <1>3, <1>4, <1>5, <1>6, <1>7, <1>8, <1>9, <1>10, <1>11, <1>12
     DEF UiStep, HoldOthersStep

\* A callback connects no line that is held.
LEMMA LooseCallbackSteps ==
  ASSUME IInv, AudioInv, BackInv, LooseInv, NEW t \in Threads, CallbackStep(t)
  PROVE  LooseInv'
<1>0. /\ EngineTypeOK /\ cb \in [Threads -> Frame] /\ CallbackOK /\ UNCHANGED ui
  BY DEF IInv, TypeOK, CallbackStep, DisconnectedCallback, ReleaseCall, MediaLoad,
     MediaClaim, MediaDecide, MediaConnect
<1>a. cb[t].pc # "none"
  BY DEF CallbackStep, DisconnectedCallback, ReleaseCall, MediaLoad, MediaClaim,
     MediaDecide, MediaConnect
<1>. PICK c \in CallIds : c = cb[t].call
  BY <1>0, <1>a DEF CallbackOK, FrameOK
<1>1. CASE DisconnectedCallback(t)
  <2>1. /\ UNCHANGED <<call, unheld, miswired>> /\ ~Loose(c)
        /\ focus' = focus \/ focus = c
    BY <1>0, <1>1 DEF DisconnectedCallback, history, CallbackOK, FrameOK, Loose,
       AudioInv, PortOK, HasPort, IsActive
  <2>2. \A x \in Threads : Undecided(x)' => cb'[x] = cb[x]
    BY <1>0, <1>1 DEF DisconnectedCallback, Goto, NoFrame, Undecided
  <2>3. HoldFlagOK' /\ \A d \in CallIds : Loose(d)' => Loose(d)
    BY <2>1, <2>2 DEF LooseInv, HoldFlagOK, Undecided, Loose
  <2> QED
    BY <1>0, <2>1, <2>3, LooseKept
<1>2. CASE ReleaseCall(t)
  <2>1. UNCHANGED <<focus, unheld, miswired>>
    BY <1>2 DEF ReleaseCall, history
  <2>2. \A x \in Threads : Undecided(x)' => cb'[x] = cb[x]
    BY <1>0, <1>2 DEF ReleaseCall, Goto, NoFrame, Undecided
  <2>3. HoldFlagOK' /\ \A d \in CallIds : Loose(d)' => Loose(d)
    BY <1>0, <1>2, <2>1, <2>2, LooseSlot DEF ReleaseCall
  <2> QED
    BY <1>0, <2>1, <2>3, LooseKept
<1>3. CASE MediaLoad(t) \/ MediaClaim(t) \/ MediaDecide(t)
  <2>1. /\ call' = call /\ unheld' = unheld /\ miswired \ {c} \subseteq miswired'
        /\ cb'[t].call = c /\ Undecided(t)
        /\ \A x \in Threads \ {t} : cb'[x] = cb[x]
        /\ focus' = focus \/ focus = NoCall
    <3>1. CASE MediaLoad(t)
      BY <1>0, <3>1 DEF MediaLoad, Goto, Undecided, history, Frame
    <3>2. CASE MediaClaim(t)
      BY <1>0, <3>2 DEF MediaClaim, Goto, Undecided, history, Frame
    <3>3. CASE MediaDecide(t)
      BY <1>0, <3>3 DEF MediaDecide, Goto, Undecided, history, Frame
    <3> QED
      BY <1>3, <3>1, <3>2, <3>3
  <2>2. miswired \subseteq miswired' \/ ~call[c].localHold
    BY <2>1 DEF LooseInv, HoldFlagOK
  <2>3. HoldFlagOK' /\ \A d \in CallIds : Loose(d)' => Loose(d)
    BY <2>1, <2>2 DEF LooseInv, HoldFlagOK, Undecided, Loose
  <2> QED
    BY <1>0, <2>1, <2>3, LooseKept, CallIdsAssumption
<1>4. CASE MediaConnect(t)
  <2>. PICK b \in BOOLEAN : b = cb[t].connect
    BY <1>0 DEF Frame
  <2>1. /\ call' = SetConnected(c, b) /\ UNCHANGED <<focus, unheld>>
        /\ miswired \ {c} \subseteq miswired'
        /\ cb[t].pc = "mediaConnect"
    BY <1>4 DEF MediaConnect
  <2>2. \A x \in Threads : Undecided(x)' => cb'[x] = cb[x]
    BY <1>0, <1>4 DEF MediaConnect, Goto, NoFrame, Undecided
  <2>3. b => ~call[c].localHold
    BY <2>1 DEF LooseInv, HoldFlagOK, Undecided
  <2>4. HoldFlagOK' /\ \A d \in CallIds : Loose(d)' => Loose(d) /\ d # c
    BY <1>0, <2>1, <2>2, <2>3, LooseWiring
  <2> QED
    BY <1>0, <2>1, <2>4, LooseKept
<1> QED
  BY <1>1, <1>2, <1>3, <1>4 DEF CallbackStep

\* What the network brings loosens no line: the refusal of a resume is noted.
LEMMA LooseNetworkSteps ==
  ASSUME IInv, AudioInv, BackInv, LooseInv, NetworkEvent
  PROVE  LooseInv'
<1>0. /\ EngineTypeOK /\ cb \in [Threads -> Frame] /\ CallbackOK /\ TableOK
      /\ UNCHANGED <<ui, focus>> /\ "worker" \in Threads
  BY DEF IInv, TypeOK, BackInv, NetworkEvent, IncomingCall, Provisional, Accepted,
     MediaUp, Confirmed, PeerReinvite, ReinviteAccepted, ReinviteRefused, PeerEnds,
     HangupCompletes, Threads
<1>a. SUFFICES HoldFlagOK' /\ \A d \in CallIds : Loose(d)' => Loose(d)
  BY <1>0, LooseKept
<1> DEFINE Tight == HoldFlagOK' /\ \A d \in CallIds : Loose(d)' => Loose(d)
<1>1. ASSUME NEW c \in CallIds, IncomingCall(c) \/ HangupCompletes(c) PROVE Tight
  <2>1. /\ call' = Arrive(c) \/ call' = Release(c)
        /\ unheld \subseteq unheld' /\ UNCHANGED <<cb, miswired>>
    BY <1>1 DEF IncomingCall, HangupCompletes, history
  <2> QED
    BY <1>0, <2>1, LooseSlot
<1>2. ASSUME NEW c \in CallIds, PeerEnds(c) PROVE Tight
  <2>1. /\ call' = Disconnect(c) /\ Push("worker", "disconnected", c)
        /\ unheld' = unheld \ {c} /\ miswired' = miswired \ {c}
    BY <1>2 DEF PeerEnds, Forget
  <2>2. \A t \in Threads : Undecided(t)' => cb'[t] = cb[t]
    BY <1>0, <2>1 DEF Undecided, Push
  <2> QED
    BY <1>0, <2>1, <2>2, LooseSlot
<1>3. ASSUME NEW c \in CallIds, Accepted(c) \/ Confirmed(c) PROVE Tight
  <2>1. /\ call' = [call EXCEPT ![c].state = "connecting"]
             \/ call' = [call EXCEPT ![c].state = "confirmed"]
        /\ call[c].state # "confirmed" /\ UNCHANGED <<cb, unheld, miswired>>
    BY <1>3 DEF Accepted, Confirmed, history
  <2>2. "connecting" \in InvStates /\ "confirmed" \in InvStates
    BY DEF InvStates
  <2> QED
    BY <1>0, <2>1, <2>2, LooseProgress
<1>4. ASSUME NEW c \in CallIds, Provisional(c) PROVE Tight
  <2>0. /\ call[c].state # "confirmed" /\ ~call[c].localHold
        /\ DialogFree("worker", c) /\ UNCHANGED <<unheld, miswired>>
        /\ "early" \in InvStates
    BY <1>4 DEF Provisional, WorkerReady, history, LooseInv, HoldFlagOK, InvStates
  <2>1. ASSUME NEW m \in Negotiated(c), NEW keep \in BOOLEAN,
               call' = [MediaUpdate(c, m, "none", keep) EXCEPT ![c].state = "early"],
               PushMedia("worker", c, m)
        PROVE  Tight
    <3> DEFINE table == MediaUpdate(c, m, "none", keep)
    <3>1. /\ m \in MediaStates /\ "none" \in Offers
      BY NegotiatedType DEF Offers
    <3>2. /\ table \in [CallIds -> Call] /\ table[c].media = m
          /\ table[c].localHold = call[c].localHold
          /\ table[c].connected => call[c].connected
          /\ \A d \in CallIds \ {c} : table[d] = call[d]
      BY <1>0, <3>1, MediaUpdates
    <3>3. call' = [table EXCEPT ![c].state = "early"]
      BY <2>1
    <3> HIDE DEF table
    <3>4. /\ call'[c].media = m /\ call'[c].localHold = call[c].localHold
          /\ call'[c].connected => call[c].connected
          /\ \A d \in CallIds \ {c} : call'[d] = call[d]
      BY <2>0, <3>2, <3>3, StateChange
    <3> QED
      BY <1>0, <2>0, <2>1, <3>4, LooseMedia
  <2>2. CASE call' = [call EXCEPT ![c].state = "early"] /\ UNCHANGED cb
    BY <1>0, <2>0, <2>2, LooseProgress
  <2>3. TRUE \in BOOLEAN
    OBVIOUS
  <2> QED
    BY <1>4, <2>1, <2>2, <2>3, Zenon DEF Provisional
<1>5. ASSUME NEW c \in CallIds, MediaUp(c) \/ PeerReinvite(c) \/ ReinviteAccepted(c)
      PROVE  Tight
  <2>1. PICK m \in Negotiated(c), keep \in BOOLEAN :
          call' = MediaUpdate(c, m, "none", keep) /\ PushMedia("worker", c, m)
    BY <1>5 DEF MediaUp, PeerReinvite, ReinviteAccepted
  <2>2. /\ m \in MediaStates /\ "none" \in Offers
    BY NegotiatedType DEF Offers
  <2>3. /\ call'[c].media = m /\ call'[c].localHold = call[c].localHold
        /\ call'[c].state = call[c].state
        /\ call'[c].connected => call[c].connected
        /\ \A d \in CallIds \ {c} : call'[d] = call[d]
    BY <1>0, <2>1, <2>2, MediaUpdates
  <2>4. /\ DialogFree("worker", c) /\ miswired' = miswired
        /\ unheld \ {c} \subseteq unheld'
        /\ c \in unheld \ unheld' => call[c].localHold
    BY <1>5 DEF MediaUp, PeerReinvite, ReinviteAccepted, WorkerReady, history
  <2>5. call'[c].localHold => call'[c].state = "confirmed"
    BY <2>3 DEF LooseInv, HoldFlagOK
  <2> QED
    BY <1>0, <2>1, <2>3, <2>4, <2>5, LooseMedia
<1>6. ASSUME NEW c \in CallIds, ReinviteRefused(c) PROVE Tight
  <2>1. /\ call' = RefuseOffer(c) /\ cb' = cb
        /\ cb["worker"].pc = "none" /\ DialogFree("worker", c)
        /\ c \in miswired' /\ call[c].offer # "none"
        /\ unheld \subseteq unheld' /\ miswired \subseteq miswired'
    BY <1>6 DEF ReinviteRefused, WorkerReady, HoldFailed, Miswire
  <2>2. call[c].state = "confirmed" /\ \A t \in Threads : cb[t].pc = "none" \/ cb[t].call # c
    BY <1>0, <2>1 DEF TableOK, DialogFree
  <2> QED
    BY <1>0, <2>1, <2>2, LooseOffer
<1> QED
  BY <1>1, <1>2, <1>3, <1>4, <1>5, <1>6 DEF NetworkEvent

\* No line is on hold in the initial state.
LEMMA InitLoose == Init => LooseInv
  BY DEF Init, LooseInv, HoldFlagOK, Undecided, Loose, NoCalls, FreeCall, NoFrame

\* Every step of the service preserves the invariant about the loose lines.
LEMMA StepLoose ==
  IInv /\ AudioInv /\ BackInv /\ LooseInv /\ [Next]_vars => LooseInv'
<1> SUFFICES ASSUME IInv, AudioInv, BackInv, LooseInv, [Next]_vars PROVE LooseInv'
  OBVIOUS
<1>1. CASE UserRequest
  BY <1>1, LooseUserSteps
<1>2. CASE CallbackStep("ui") \/ CallbackStep("worker")
  BY <1>2, LooseCallbackSteps DEF Threads
<1>3. CASE UiStep /\ ~CallbackStep("ui")
  BY <1>3, LooseUiSteps
<1>4. CASE NetworkEvent
  BY <1>4, LooseNetworkSteps
<1>5. CASE UNCHANGED vars
  <2>1. HoldFlagOK' /\ \A d \in CallIds : Loose(d)' => Loose(d)
    BY <1>5, LooseSame DEF vars, history
  <2> QED
    BY <1>5, <2>1, LooseKept DEF vars
<1> QED
  BY <1>1, <1>2, <1>3, <1>4, <1>5 DEF Next

\* As long as the user leaves auto-hold on, a line that is heard beside the
\* selected one is one whose hold did not take effect, or one that a failed
\* request or a device refresh has rewired: whatever calls, answers, resumes and
\* media updates overlap, nothing else leaves two lines on.
THEOREM BackgroundLinesAreExcused ==
  ASSUME AutoHoldSettings \subseteq {TRUE}
  PROVE  Spec => []BackgroundIsExcused
<1>1. IInv /\ AudioInv /\ BackInv /\ HeardInv /\ LooseInv => BackgroundIsExcused
  <2> SUFFICES ASSUME IInv, AudioInv, BackInv, HeardInv, LooseInv, Settled,
                      NEW c \in CallIds, call[c].connected, c # focus,
                      c \notin unheld \cup miswired
               PROVE  FALSE
    BY DEF BackgroundIsExcused
  <2>1. /\ ui.pc = "idle" /\ call[c].offer = "none"
        /\ \A t \in Threads : cb[t].pc = "none"
    BY DEF Settled, UiIdle, Threads
  <2>2. IsActive(c) /\ call[c].media # "none"
    BY DEF AudioInv, PortOK, HasPort
  <2>3. Live(c)
    BY <2>2 DEF Live, HeardInv, Tended, UnansweredOK
  <2>4. call[c].localHold
    BY <2>1, <2>3 DEF BackInv, BackOK, FocusOpen, Open, Steady
  <2>5. call[c].media # "localHold"
    BY <2>1 DEF AudioInv, HeldOK, OnHold, Rewiring
  <2>6. Loose(c)
    BY <2>1, <2>4, <2>5 DEF Loose
  <2> QED
    BY <2>1, <2>6 DEF LooseInv, Placed, Ahead, Steady
<1>2. Spec => []LooseInv
  BY Invariance, AudioInvariance, BackInvariance, InitLoose, StepLoose, PTL DEF Spec
<1> QED
  BY <1>1, <1>2, Invariance, AudioInvariance, BackInvariance, HeardInvariance, PTL

-----------------------------------------------------------------------------

(***************************************************************************)
(* Call handling implements Switchboard.  A line goes on the air in two    *)
(* steps of its own, where a callback or a device refresh decides to       *)
(* connect it; every other step leaves the lines on the air, or takes some *)
(* off it, or moves the focus while they stay.                             *)
(***************************************************************************)

\* No line goes on the air when nothing new is connected and no callback or
\* refresh has newly decided to connect.
LEMMA OnAirShrinks ==
  ASSUME \A c \in CallIds : call'[c].connected => c \in OnAir,
         \A t \in Threads :
           cb'[t].pc = "mediaConnect" /\ cb'[t].connect => cb'[t] = cb[t],
         ui'.pc \in {"devCut", "devConnect"} /\ ui'.connect =>
           /\ ui.pc \in {"devCut", "devConnect"} /\ ui.connect
           /\ ui'.line = ui.line
  PROVE  OnAir' \subseteq OnAir
<1> SUFFICES ASSUME NEW c \in CallIds,
                    \/ Heard(c)'
                    \/ ui'.pc \in {"devCut", "devConnect"} /\ ui'.line = c /\ ui'.connect
             PROVE  c \in OnAir
  BY DEF OnAir
<1>1. CASE call'[c].connected
  BY <1>1
<1>2. CASE Connecting(c)'
  BY <1>2 DEF Connecting, OnAir, Heard
<1>3. CASE ui'.pc \in {"devCut", "devConnect"} /\ ui'.line = c /\ ui'.connect
  BY <1>3 DEF OnAir
<1> QED
  BY <1>1, <1>2, <1>3 DEF Heard

\* Such a step is a step of the board, if the focus stays where it is.
LEMMA BoardSilence ==
  ASSUME OnAir' \subseteq OnAir, UNCHANGED <<focus, autoHold>>
  PROVE  [Board!Next]_(Board!vars)
  BY DEF Board!Next, Board!Silence, Board!vars

\* So is a step that disconnects at most, and decides nothing.
LEMMA BoardKept ==
  ASSUME \A c \in CallIds : call'[c].connected => call[c].connected,
         \A t \in Threads :
           cb'[t].pc = "mediaConnect" /\ cb'[t].connect => cb'[t] = cb[t],
         ui'.pc \in {"devCut", "devConnect"} /\ ui'.connect =>
           /\ ui.pc \in {"devCut", "devConnect"} /\ ui.connect
           /\ ui'.line = ui.line,
         UNCHANGED <<focus, autoHold>>
  PROVE  [Board!Next]_(Board!vars)
<1>1. \A c \in CallIds : call[c].connected => c \in OnAir
  BY DEF OnAir, Heard
<1> QED
  BY <1>1, OnAirShrinks, BoardSilence

\* A step that leaves the calls alone and decides nothing may move the focus.
LEMMA BoardSelect ==
  ASSUME focus' \in CallIds \cup {NoCall}, UNCHANGED <<call, autoHold>>,
         \A t \in Threads :
           cb[t].pc = "mediaConnect" \/ cb'[t].pc = "mediaConnect" => cb'[t] = cb[t],
         ui.pc \notin {"devCut", "devConnect"},
         ui'.pc \notin {"devCut", "devConnect"}
  PROVE  [Board!Next]_(Board!vars)
<1>1. \A c \in CallIds : Heard(c)' = Heard(c)
  BY DEF Heard, Connecting
<1>2. OnAir' = OnAir
  BY <1>1 DEF OnAir
<1> QED
  BY <1>2 DEF Board!Next, Board!Select

\* A callback of another kind, or of media on hold, decides nothing.
LEMMA FrameStarts ==
  ASSUME cb \in [Threads -> Frame], NEW t \in Threads, NEW c \in CallIds,
         \/ Push(t, "disconnected", c)
         \/ \E m \in MediaStates : PushMedia(t, c, m)
  PROVE  \A x \in Threads :
           cb'[x].pc = "mediaConnect" /\ cb'[x].connect => cb'[x] = cb[x]
<1>1. /\ cb'[t].connect = FALSE
      /\ \A x \in Threads \ {t} : cb'[x] = cb[x]
  BY DEF PushMedia, Push
<1> QED
  BY <1>1

\* The decision to connect c is the board's decision to put it through.
LEMMA BoardPutThrough ==
  ASSUME NEW c \in CallIds, OnAir' = OnAir \cup {c}, autoHold => focus = c,
         UNCHANGED <<focus, autoHold>>
  PROVE  [Board!Next]_(Board!vars)
  BY DEF Board!Next, Board!PutThrough

\* Requests of the user implement the board.
LEMMA BoardUserSteps ==
  ASSUME IInv, UserRequest
  PROVE  [Board!Next]_(Board!vars)
<1>0. EngineTypeOK /\ cb \in [Threads -> Frame] /\ "ui" \in Threads
  BY DEF IInv, TypeOK, Threads
<1>1. CASE \/ MakeCall \/ RefreshSystemAudioDevices \/ Shutdown
           \/ \E c \in CallIds : AnswerCall(c) \/ HoldCall(c) \/ ResumeCall(c)
  <2>1. /\ UNCHANGED <<call, cb, focus, autoHold>>
        /\ ui'.connect = FALSE
    BY <1>1 DEF MakeCall, RefreshSystemAudioDevices, Shutdown, AnswerCall, HoldCall,
       ResumeCall, Begin
  <2> QED
    BY <2>1, BoardKept
<1>2. CASE Initialize
  BY <1>2, BoardKept DEF Initialize
<1>3. ASSUME NEW c \in CallIds, RejectCall(c) \/ HangupCall(c)
      PROVE  [Board!Next]_(Board!vars)
  <2>1. ~call'[c].connected /\ \A d \in CallIds \ {c} : call'[d] = call[d]
    BY <1>0, <1>3, SlotReset DEF RejectCall, HangupCall
  <2>2. Push("ui", "disconnected", c) /\ UNCHANGED <<ui, focus, autoHold>>
    BY <1>3 DEF RejectCall, HangupCall
  <2> QED
    BY <1>0, <2>1, <2>2, FrameStarts, BoardKept
<1>4. ASSUME NEW c \in CallIds, HangupInactiveCall(c)
      PROVE  [Board!Next]_(Board!vars)
  BY <1>4, BoardSelect DEF HangupInactiveCall, UiIdle
<1>5. ASSUME NEW b \in AutoHoldSettings, SetAutoHoldOnIncoming(b)
      PROVE  [Board!Next]_(Board!vars)
  <2>1. UNCHANGED <<call, cb, ui, focus>> /\ autoHold' \in BOOLEAN
    BY <1>5, AutoHoldAssumption DEF SetAutoHoldOnIncoming
  <2>2. \A c \in CallIds : Heard(c)' = Heard(c)
    BY <2>1 DEF Heard, Connecting
  <2>3. OnAir' = OnAir
    BY <2>1, <2>2 DEF OnAir
  <2> QED
    BY <2>1, <2>3 DEF Board!Next, Board!SetExclusive
<1> QED
  BY <1>1, <1>2, <1>3, <1>4, <1>5 DEF UserRequest

\* Statements of the operations implement it.
LEMMA BoardUiSteps ==
  ASSUME IInv, UiStep, ~CallbackStep("ui")
  PROVE  [Board!Next]_(Board!vars)
<1>0. /\ EngineTypeOK /\ cb \in [Threads -> Frame] /\ UiOK /\ TypeOK
      /\ ui \in Operation /\ "ui" \in Threads
  BY DEF IInv, TypeOK, Threads
<1>a. Idle.pc = "idle"
  BY DEF Idle, Begin
<1>1. CASE (\E d \in CallIds : ScanHold(d) \/ ScanSkip(d))
           \/ AnswerLoad \/ AnswerFails \/ RefreshDone \/ DestroyJoin
  <2>1. UNCHANGED <<call, cb, focus, autoHold>>
    BY <1>1 DEF ScanHold, ScanSkip, AnswerLoad, AnswerFails, RefreshDone,
       DestroyJoin
  <2>2. ui'.pc \notin {"devCut", "devConnect"}
    BY <1>0, <1>a, <1>1 DEF ScanHold, ScanSkip, AnswerLoad, AnswerFails, RefreshDone,
       DestroyJoin, UiAt, Operation
  <2> QED
    BY <2>1, <2>2, BoardKept
<1>2. CASE HoldCut \/ HoldCallCut \/ RefreshCut
  <2>1. PICK c \in CallIds : call' = SetConnected(c, FALSE)
    BY <1>0, <1>2 DEF HoldCut, HoldCallCut, RefreshCut, UiOK, UiAt
  <2>2. \A d \in CallIds : call'[d].connected => call[d].connected
    BY <1>0, <2>1 DEF SetConnected, EngineTypeOK, Call
  <2>3. UNCHANGED <<cb, focus, autoHold>>
    BY <1>2 DEF HoldCut, HoldCallCut, RefreshCut
  <2>4. ui'.pc \in {"devCut", "devConnect"} =>
          ui.pc = "devCut" /\ ui'.line = ui.line /\ ui'.connect = ui.connect
    BY <1>0, <1>2 DEF HoldCut, HoldCallCut, RefreshCut, UiAt, Operation
  <2> QED
    BY <2>2, <2>3, <2>4, BoardKept
<1>3. CASE MakeCallSelect \/ AnswerSelect \/ AnswerRestore \/ HoldCallClear
           \/ ResumeSelect
  <2>1. UNCHANGED <<call, cb, autoHold>> /\ focus' \in CallIds \cup {NoCall}
    BY <1>0, <1>3 DEF MakeCallSelect, AnswerSelect, AnswerRestore, HoldCallClear,
       ResumeSelect, ScanDone, UiAt, UiOK, Operation, TypeOK
  <2>2. /\ ui.pc \notin {"devCut", "devConnect"}
        /\ ui'.pc \notin {"devCut", "devConnect"}
    BY <1>0, <1>a, <1>3 DEF MakeCallSelect, AnswerSelect, AnswerRestore,
       HoldCallClear, ResumeSelect, ScanDone, UiAt, Operation
  <2> QED
    BY <2>1, <2>2, BoardSelect
<1>4. CASE HoldSend \/ HoldCallSend \/ ResumeSend
  <2>1. PICK c \in CallIds :
          call' = SendHold(c) \/ call' = SendUnhold(c) \/ call' = call
    BY <1>0, <1>4 DEF HoldSend, HoldCallSend, ResumeSend, UiOK, UiAt
  <2>2. \A d \in CallIds : call'[d].connected = call[d].connected
    <3>1. CASE call' = SendHold(c)
      BY <1>0, <3>1, OfferSet
    <3>2. CASE call' = SendUnhold(c)
      BY <1>0, <3>2, OfferSet
    <3>3. CASE call' = call
      BY <3>3
    <3> QED
      BY <2>1, <3>1, <3>2, <3>3
  <2>3. UNCHANGED <<cb, focus, autoHold>>
    BY <1>4 DEF HoldSend, HoldCallSend, ResumeSend
  <2>4. ui'.pc \notin {"devCut", "devConnect"}
    BY <1>0, <1>a, <1>4 DEF HoldSend, HoldCallSend, ResumeSend, UiAt, Operation
  <2> QED
    BY <2>2, <2>3, <2>4, BoardKept
<1>5. CASE MakeCallInvite
  <2>1. UNCHANGED <<cb, focus, autoHold>>
    BY <1>5 DEF MakeCallInvite
  <2>2. ui'.pc \notin {"devCut", "devConnect"}
    BY <1>0, <1>a, <1>5 DEF MakeCallInvite, Operation
  <2>3. \A d \in CallIds : call'[d].connected => call[d].connected
    <3>1. CASE call' = call
      BY <3>1
    <3>2. ASSUME NEW c \in CallIds \ EnumCalls, call' = PlaceCall(c)
          PROVE  \A d \in CallIds : call'[d].connected => call[d].connected
      BY <1>0, <3>2, SlotReset
    <3> QED
      BY <1>5, <3>1, <3>2 DEF MakeCallInvite
  <2> QED
    BY <2>1, <2>2, <2>3, BoardKept
<1>6. CASE AnswerSend
  <2>. PICK c \in CallIds : c = ui.call
    BY <1>0, <1>6 DEF AnswerSend, UiAt, UiOK
  <2>0. UNCHANGED <<focus, autoHold>> /\ ui' = Idle
    BY <1>6 DEF AnswerSend
  <2>1. CASE \E m \in Negotiated(c) :
               /\ call' = [MediaUpdate(c, m, "none", FALSE)
                             EXCEPT ![c].state = "connecting"]
               /\ PushMedia("ui", c, m)
    <3>0. PICK keep \in BOOLEAN : keep = FALSE
      BY Zenon
    <3>1. PICK m \in Negotiated(c) :
            /\ call' = [MediaUpdate(c, m, "none", keep)
                          EXCEPT ![c].state = "connecting"]
            /\ PushMedia("ui", c, m)
      BY <2>1, <3>0, Zenon
    <3>2. \A d \in CallIds : call'[d].connected => call[d].connected
      <4> DEFINE table == MediaUpdate(c, m, "none", keep)
      <4>1. /\ m \in MediaStates /\ "none" \in Offers /\ "connecting" \in InvStates
        BY NegotiatedType DEF Offers, InvStates
      <4>2. /\ table \in [CallIds -> Call]
            /\ table[c].connected => call[c].connected
            /\ \A d \in CallIds \ {c} : table[d] = call[d]
        BY <1>0, <4>1, MediaUpdates
      <4>3. call' = [table EXCEPT ![c].state = "connecting"]
        BY <3>1, Zenon
      <4> HIDE DEF table
      <4> QED
        BY <4>1, <4>2, <4>3, StateChange
    <3>3. \A x \in Threads :
            cb'[x].pc = "mediaConnect" /\ cb'[x].connect => cb'[x] = cb[x]
      BY <1>0, <3>1, NegotiatedType, FrameStarts
    <3> QED
      BY <1>a, <2>0, <3>2, <3>3, BoardKept
  <2>2. CASE call' = [call EXCEPT ![c].state = "connecting"] /\ UNCHANGED cb
    <3>1. \A d \in CallIds : call'[d].connected = call[d].connected
      BY <1>0, <2>2 DEF EngineTypeOK, Call
    <3> QED
      BY <1>a, <2>0, <2>2, <3>1, BoardKept
  <2> QED
    BY <1>6, <2>1, <2>2 DEF AnswerSend
<1>7. ASSUME NEW d \in CallIds, RefreshScan(d) PROVE [Board!Next]_(Board!vars)
  <2>0. UNCHANGED <<call, cb, focus, autoHold>> /\ ui.pc = "devScan"
    BY <1>7 DEF RefreshScan, UiAt
  <2>1. CASE ui'.pc = "devCut" /\ ui'.connect
    <3>1. ui'.line = d /\ (autoHold => focus = d)
      BY <1>0, <1>7, <2>0, <2>1 DEF RefreshScan, Operation
    <3>2. \A c \in CallIds : Heard(c)' = Heard(c)
      BY <2>0 DEF Heard, Connecting
    <3>3. OnAir' = OnAir \cup {d}
      BY <2>0, <2>1, <3>1, <3>2 DEF OnAir
    <3> QED
      BY <2>0, <3>1, <3>3, BoardPutThrough
  <2>2. CASE ~(ui'.pc = "devCut" /\ ui'.connect)
    <3>1. ui'.pc # "devConnect"
      BY <1>0, <1>7, <2>0 DEF RefreshScan, Operation
    <3> QED
      BY <2>0, <2>2, <3>1, BoardKept
  <2> QED
    BY <2>1, <2>2
<1>8. CASE RefreshConnect
  <2> DEFINE c == ui.line
             b == ui.connect
  <2>0. /\ c \in CallIds /\ b \in BOOLEAN /\ ui.pc = "devConnect"
        /\ call' = SetConnected(c, b)
        /\ UNCHANGED <<focus, autoHold, cb>>
    BY <1>0, <1>8 DEF RefreshConnect, UiAt, UiOK, Operation
  <2>1. /\ HasPort(c) => call'[c].connected = b
        /\ ~HasPort(c) => call'[c].connected = call[c].connected
        /\ \A d \in CallIds \ {c} : call'[d] = call[d]
    BY <1>0, <2>0, ConnectedSet
  <2>2. \A d \in CallIds : call'[d].connected => d \in OnAir
    BY <2>0, <2>1 DEF OnAir, Heard
  <2>3. ui'.connect = FALSE
    BY <1>0, <1>8 DEF RefreshConnect, Operation
  <2>4. OnAir' \subseteq OnAir
    BY <2>0, <2>2, <2>3, OnAirShrinks
  <2> QED
    BY <2>0, <2>4, BoardSilence
<1>9. ASSUME NEW c \in CallIds, DestroyHangup(c) PROVE [Board!Next]_(Board!vars)
  <2>1. UNCHANGED <<focus, autoHold>> /\ ui'.pc = "hangupAll"
    BY <1>0, <1>9 DEF DestroyHangup, UiAt, Operation
  <2>2. CASE UNCHANGED <<call, cb>>
    BY <2>1, <2>2, BoardKept
  <2>3. CASE call' = HangUp(c) /\ Push("ui", "disconnected", c)
    <3>1. ~call'[c].connected /\ \A d \in CallIds \ {c} : call'[d] = call[d]
      BY <1>0, <2>3, SlotReset
    <3> QED
      BY <1>0, <2>1, <2>3, <3>1, FrameStarts, BoardKept
  <2> QED
    BY <1>9, <2>2, <2>3 DEF DestroyHangup
<1>10. CASE DestroyDone
  <2>1. UNCHANGED <<cb, focus, autoHold>> /\ ui'.pc = "reset"
    BY <1>0, <1>10 DEF DestroyDone, Operation
  <2>2. \A d \in CallIds : ~call'[d].connected
    BY <1>10 DEF DestroyDone, NoCalls, FreeCall
  <2> QED
    BY <2>1, <2>2, BoardKept
<1>11. CASE ShutdownReset
  BY <1>a, <1>11, BoardSelect DEF ShutdownReset, UiAt
<1> QED
  BY <1>1, <1>2, <1>3, <1>4, <1>5, <1>6, <1>7, <1>8, <1>9, <1>10, <1>11 DEF UiStep,
     HoldOthersStep

\* Callbacks, on either thread, implement it.
LEMMA BoardCallbackSteps ==
  ASSUME IInv, NEW t \in Threads, CallbackStep(t)
  PROVE  [Board!Next]_(Board!vars)
<1>0. /\ EngineTypeOK /\ cb \in [Threads -> Frame] /\ CallbackOK /\ TypeOK
      /\ DialogLock
  BY DEF IInv, TypeOK
<1>a. cb[t].pc # "none"
  BY DEF CallbackStep, DisconnectedCallback, ReleaseCall, MediaLoad, MediaClaim,
     MediaDecide, MediaConnect
<1>. PICK c \in CallIds : c = cb[t].call
  BY <1>0, <1>a DEF CallbackOK, FrameOK
<1>1. CASE DisconnectedCallback(t) \/ MediaLoad(t) \/ MediaClaim(t)
  <2>1. /\ UNCHANGED <<call, ui, autoHold>> /\ focus' \in CallIds \cup {NoCall}
        /\ cb[t].pc # "mediaConnect"
    BY <1>0, <1>1 DEF DisconnectedCallback, MediaLoad, MediaClaim, TypeOK
  <2>2. /\ cb'[t].pc # "mediaConnect"
        /\ \A x \in Threads \ {t} : cb'[x] = cb[x]
    BY <1>0, <1>1 DEF DisconnectedCallback, MediaLoad, MediaClaim, Goto, NoFrame,
       Frame
  <2>3. \A d \in CallIds : Heard(d)' = Heard(d)
    BY <2>1, <2>2 DEF Heard, Connecting
  <2>4. OnAir' = OnAir
    BY <2>1, <2>3 DEF OnAir
  <2> QED
    BY <2>1, <2>4 DEF Board!Next, Board!Select
<1>2. CASE ReleaseCall(t)
  <2>1. ~call'[c].connected /\ \A d \in CallIds \ {c} : call'[d] = call[d]
    BY <1>0, <1>2, SlotReset DEF ReleaseCall
  <2>2. /\ cb'[t].pc # "mediaConnect"
        /\ \A x \in Threads \ {t} : cb'[x] = cb[x]
    BY <1>0, <1>2 DEF ReleaseCall, Goto, NoFrame
  <2>3. UNCHANGED <<focus, autoHold, ui>>
    BY <1>2 DEF ReleaseCall
  <2> QED
    BY <2>1, <2>2, <2>3, BoardKept
<1>3. CASE MediaDecide(t)
  <2>1. /\ cb'[t].pc = "mediaConnect" /\ cb'[t].call = c
        /\ \A x \in Threads \ {t} : cb'[x] = cb[x]
        /\ cb'[t].connect => ~autoHold \/ focus = c
        /\ cb[t].pc # "mediaConnect"
    BY <1>0, <1>3 DEF MediaDecide, Frame
  <2>2. UNCHANGED <<call, focus, autoHold, ui>>
    BY <1>3 DEF MediaDecide
  <2>3. CASE cb'[t].connect
    <3>1. \A d \in CallIds : Heard(d)' <=> Heard(d) \/ d = c
      BY <2>1, <2>2, <2>3 DEF Heard, Connecting
    <3>2. OnAir' = OnAir \cup {c}
      BY <2>2, <3>1 DEF OnAir
    <3> QED
      BY <2>1, <2>2, <2>3, <3>2, BoardPutThrough
  <2>4. CASE ~cb'[t].connect
    BY <2>1, <2>2, <2>4, BoardKept
  <2> QED
    BY <2>3, <2>4
<1>4. CASE MediaConnect(t)
  <2>. PICK b \in BOOLEAN : b = cb[t].connect
    BY <1>0 DEF Frame
  <2>1. /\ HasPort(c) => call'[c].connected = b
        /\ ~HasPort(c) => call'[c].connected = call[c].connected
        /\ \A d \in CallIds \ {c} : call'[d] = call[d]
    BY <1>0, <1>4, ConnectedSet DEF MediaConnect
  <2>2. /\ cb'[t].pc = "none" /\ cb[t].pc = "mediaConnect"
        /\ \A x \in Threads \ {t} : cb'[x] = cb[x]
        /\ UNCHANGED <<focus, autoHold, ui>>
    BY <1>0, <1>4 DEF MediaConnect, Goto, NoFrame
  <2>3. \A d \in CallIds : call'[d].connected => d \in OnAir
    BY <2>1, <2>2 DEF OnAir, Heard, Connecting
  <2>4. OnAir' \subseteq OnAir
    BY <2>2, <2>3, OnAirShrinks
  <2> QED
    BY <2>2, <2>4, BoardSilence
<1> QED
  BY <1>1, <1>2, <1>3, <1>4 DEF CallbackStep

\* What the network brings implements it.
LEMMA BoardNetworkSteps ==
  ASSUME IInv, NetworkEvent
  PROVE  [Board!Next]_(Board!vars)
<1>0. /\ EngineTypeOK /\ cb \in [Threads -> Frame] /\ "worker" \in Threads
  BY DEF IInv, TypeOK, Threads
<1>1. UNCHANGED <<ui, focus, autoHold>>
  BY DEF NetworkEvent, IncomingCall, Provisional, Accepted, MediaUp, Confirmed,
     PeerReinvite, ReinviteAccepted, ReinviteRefused, PeerEnds, HangupCompletes
<1>2. ASSUME NEW c \in CallIds,
             IncomingCall(c) \/ HangupCompletes(c) \/ PeerEnds(c)
      PROVE  [Board!Next]_(Board!vars)
  <2>1. ~call'[c].connected /\ \A d \in CallIds \ {c} : call'[d] = call[d]
    BY <1>0, <1>2, SlotReset DEF IncomingCall, HangupCompletes, PeerEnds
  <2>2. cb' = cb \/ Push("worker", "disconnected", c)
    BY <1>2 DEF IncomingCall, HangupCompletes, PeerEnds
  <2>3. \A x \in Threads :
          cb'[x].pc = "mediaConnect" /\ cb'[x].connect => cb'[x] = cb[x]
    BY <1>0, <2>2, FrameStarts
  <2> QED
    BY <1>1, <2>1, <2>3, BoardKept
<1>3. ASSUME NEW c \in CallIds, NEW s \in InvStates,
             call' = [call EXCEPT ![c].state = s], UNCHANGED cb
      PROVE  [Board!Next]_(Board!vars)
  <2>1. \A d \in CallIds : call'[d].connected = call[d].connected
    BY <1>0, <1>3 DEF EngineTypeOK, Call
  <2> QED
    BY <1>1, <1>3, <2>1, BoardKept
<1>4. ASSUME NEW c \in CallIds, Accepted(c) \/ Confirmed(c)
      PROVE  [Board!Next]_(Board!vars)
  <2>1. "connecting" \in InvStates /\ "confirmed" \in InvStates
    BY DEF InvStates
  <2> QED
    BY <1>3, <1>4, <2>1 DEF Accepted, Confirmed
<1>5. ASSUME NEW c \in CallIds, NEW m \in Negotiated(c),
             PushMedia("worker", c, m),
             \A d \in CallIds : call'[d].connected => call[d].connected
      PROVE  [Board!Next]_(Board!vars)
  <2>1. \A x \in Threads :
          cb'[x].pc = "mediaConnect" /\ cb'[x].connect => cb'[x] = cb[x]
    BY <1>0, <1>5, NegotiatedType, FrameStarts
  <2> QED
    BY <1>1, <1>5, <2>1, BoardKept
<1>6. ASSUME NEW c \in CallIds, Provisional(c) PROVE [Board!Next]_(Board!vars)
  <2>0. "early" \in InvStates
    BY DEF InvStates
  <2>1. CASE call' = [call EXCEPT ![c].state = "early"] /\ UNCHANGED cb
    BY <1>3, <2>0, <2>1
  <2>2. ASSUME NEW m \in Negotiated(c),
               call' = [MediaUpdate(c, m, "none", TRUE) EXCEPT ![c].state = "early"],
               PushMedia("worker", c, m)
        PROVE  [Board!Next]_(Board!vars)
    <3>0. PICK keep \in BOOLEAN : keep = TRUE
      BY Zenon
    <3> DEFINE table == MediaUpdate(c, m, "none", keep)
    <3>1. m \in MediaStates /\ "none" \in Offers
      BY NegotiatedType DEF Offers
    <3>2. /\ table \in [CallIds -> Call]
          /\ table[c].connected => call[c].connected
          /\ \A d \in CallIds \ {c} : table[d] = call[d]
      BY <1>0, <3>1, MediaUpdates
    <3>3. call' = [table EXCEPT ![c].state = "early"]
      BY <2>2, <3>0, Zenon
    <3> HIDE DEF table
    <3>4. \A d \in CallIds : call'[d].connected => call[d].connected
      BY <2>0, <3>2, <3>3, StateChange
    <3> QED
      BY <1>5, <2>2, <3>4
  <2> QED
    BY <1>6, <2>1, <2>2 DEF Provisional
<1>7. ASSUME NEW c \in CallIds, MediaUp(c) \/ PeerReinvite(c) \/ ReinviteAccepted(c)
      PROVE  [Board!Next]_(Board!vars)
  <2>1. PICK m \in Negotiated(c), keep \in BOOLEAN :
          call' = MediaUpdate(c, m, "none", keep) /\ PushMedia("worker", c, m)
    BY <1>7 DEF MediaUp, PeerReinvite, ReinviteAccepted
  <2>2. m \in MediaStates /\ "none" \in Offers
    BY NegotiatedType DEF Offers
  <2>3. /\ call'[c].connected => call[c].connected
        /\ \A d \in CallIds \ {c} : call'[d] = call[d]
    BY <1>0, <2>1, <2>2, MediaUpdates
  <2> QED
    BY <1>5, <2>1, <2>3
<1>8. ASSUME NEW c \in CallIds, ReinviteRefused(c) PROVE [Board!Next]_(Board!vars)
  <2>1. \A d \in CallIds : call'[d].connected = call[d].connected
    BY <1>0, <1>8, OfferSet DEF ReinviteRefused
  <2> QED
    BY <1>1, <1>8, <2>1, BoardKept DEF ReinviteRefused
<1> QED
  BY <1>2, <1>4, <1>6, <1>7, <1>8 DEF NetworkEvent

\* Whoever else is at work between the decision to connect a line and the
\* connection, and whatever the auto-hold switch is set to, a line is put through
\* only because it is the selected one at that moment or auto-hold is off: call
\* handling implements Switchboard.
THEOREM ImplementsBoard == Spec => PutThroughBySelection
<1>1. Init => Board!Init
  BY DEF Init, Board!Init, OnAir, Heard, Connecting, NoCalls, FreeCall, NoFrame, Idle,
     Begin
<1>2. IInv /\ [Next]_vars => [Board!Next]_(Board!vars)
  <2> SUFFICES ASSUME IInv, [Next]_vars PROVE [Board!Next]_(Board!vars)
    OBVIOUS
  <2>1. CASE UserRequest
    BY <2>1, BoardUserSteps
  <2>2. CASE CallbackStep("ui") \/ CallbackStep("worker")
    BY <2>2, BoardCallbackSteps DEF Threads
  <2>3. CASE UiStep /\ ~CallbackStep("ui")
    BY <2>3, BoardUiSteps
  <2>4. CASE NetworkEvent
    BY <2>4, BoardNetworkSteps
  <2>5. CASE UNCHANGED vars
    BY <2>5, BoardKept DEF vars, IInv
  <2> QED
    BY <2>1, <2>2, <2>3, <2>4, <2>5 DEF Next
<1> QED
  BY <1>1, <1>2, Invariance, PTL DEF Spec, PutThroughBySelection, Board!Spec

=============================================================================

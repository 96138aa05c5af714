--------------------------- MODULE EventDelivery ----------------------------
(***************************************************************************)
(* The hand-over of native events to the platform's thread, which passes   *)
(* them on to Dart (Emit in pjsip_service.cpp and the callbacks of the     *)
(* runners).  Any thread copies the callback under callback_mutex_ and     *)
(* calls the copy after it.                                                *)
(*   - Windows (EnqueuePjsipEvent, FlushPjsipEvents and OnDestroy in       *)
(*     windows/runner/flutter_window.cpp): the callback appends the event  *)
(*     to pending_pjsip_events_ and posts a window message; the UI thread  *)
(*     takes the whole vector for each message.  Closing the window stops  *)
(*     the engine, flushes once more and only then takes the callback away.*)
(*   - Linux and macOS (notify_pjsip_event and invoke_pjsip_event in       *)
(*     linux/runner/my_application.cc, RegisterPjsipBridge in              *)
(*     macos/Runner/PjsipBridge.mm): every event is a piece of work of its *)
(*     own for the main loop, which runs them in the order they were       *)
(*     added; what is queued when the application ends reaches nobody.     *)
(***************************************************************************)
EXTENDS Naturals, Sequences, FiniteSets

CONSTANTS
  Workers,     \* the engine's threads
  MaxEmits,    \* bound on the events of one thread
  QueueLimit   \* messages the window's queue holds, those of others included

ASSUME QueueAssumption ==
  /\ "ui" \notin Workers
  /\ MaxEmits \in Nat /\ QueueLimit \in Nat \ {0}

VARIABLES
  platform,   \* "windows", or "unix" for the main loop of Linux and macOS
  pc,         \* where each thread is inside Emit
  count,      \* events each thread has emitted
  hook,       \* event_callback_ is set
  pending,    \* pending_pjsip_events_, or the work of the main loop
  posted,     \* kPjsipEventMessage in the window's message queue
  refused,    \* history: the last post was refused, with no message of ours queued
  batch,      \* the events FlushPjsipEvents is passing on
  ui,         \* what the UI thread does
  engine,     \* the engine's threads run
  sent, received

vars == <<platform, pc, count, hook, pending, posted, refused, batch, ui, engine,
          sent, received>>

Threads == Workers \cup {"ui"}
Events == Threads \X (1..MaxEmits)

TypeOK ==
  /\ platform \in {"windows", "unix"}
  /\ pc \in [Threads -> {"none", "copied", "pushed"}]
  /\ count \in [Threads -> 0..MaxEmits]
  /\ hook \in BOOLEAN /\ engine \in BOOLEAN /\ refused \in BOOLEAN
  /\ posted \in 0..QueueLimit
  /\ ui \in {"loop", "flush", "destroy", "stopped", "lastFlush", "flushed",
             "gone"}
  /\ pending \in Seq(Events) /\ batch \in Seq(Events)
  /\ sent \in Seq(Events) /\ received \in Seq(Events)

Init ==
  /\ platform \in {"windows", "unix"}
  /\ pc = [t \in Threads |-> "none"]
  /\ count = [t \in Threads |-> 0]
  /\ hook = TRUE /\ engine = FALSE
  /\ pending = <<>> /\ batch = <<>>
  /\ posted = 0 /\ refused = FALSE
  /\ ui = "loop"
  /\ sent = <<>> /\ received = <<>>

-----------------------------------------------------------------------------
(* Emit.                                                                   *)

\* A worker emits while the engine runs; the UI thread emits inside a method
\* call and inside the Shutdown of OnDestroy.
MayEmit(t) ==
  IF t = "ui" THEN ui \in {"loop", "destroy", "stopped"} ELSE engine

EmitCopy(t) ==
  /\ MayEmit(t)
  /\ hook
  /\ pc[t] = "none" /\ count[t] < MaxEmits
  /\ pc' = [pc EXCEPT ![t] = "copied"]
  /\ count' = [count EXCEPT ![t] = count[t] + 1]
  /\ UNCHANGED <<platform, hook, pending, posted, refused, batch, ui, engine,
                 sent, received>>

EnqueuePush(t) ==
  /\ platform = "windows"
  /\ pc[t] = "copied"
  /\ pc' = [pc EXCEPT ![t] = "pushed"]
  /\ pending' = Append(pending, <<t, count[t]>>)
  /\ sent' = Append(sent, <<t, count[t]>>)
  /\ UNCHANGED <<platform, count, hook, posted, refused, batch, ui, engine,
                 received>>

\* The queue takes the message unless it is full, of our messages or of any other.
Post ==
  /\ posted' \in {posted, posted + 1} /\ posted' <= QueueLimit
  /\ refused' = (posted' = 0)

\* Variant: only the event that finds the vector empty posts a message, looking
\* at it after the mutex was released.
PostIfFirst(t) ==
  /\ pc[t] = "pushed"
  /\ pc' = [pc EXCEPT ![t] = "none"]
  /\ IF Len(pending) = 1 THEN Post ELSE UNCHANGED <<posted, refused>>
  /\ UNCHANGED <<platform, count, hook, pending, batch, ui, engine, sent,
                 received>>

\* PostMessage; its result is not looked at.
EnqueuePost(t) ==
  /\ pc[t] = "pushed"
  /\ pc' = [pc EXCEPT ![t] = "none"]
  /\ Post
  /\ UNCHANGED <<platform, count, hook, pending, batch, ui, engine, sent,
                 received>>

\* g_idle_add, dispatch_async.
Notify(t) ==
  /\ platform = "unix"
  /\ pc[t] = "copied"
  /\ pc' = [pc EXCEPT ![t] = "none"]
  /\ pending' = Append(pending, <<t, count[t]>>)
  /\ sent' = Append(sent, <<t, count[t]>>)
  /\ UNCHANGED <<platform, count, hook, posted, refused, batch, ui, engine,
                 received>>

-----------------------------------------------------------------------------
(* The UI thread.                                                          *)

\* A method call that starts the engine.
StartEngine ==
  /\ ui = "loop" /\ pc["ui"] = "none" /\ ~engine
  /\ engine' = TRUE
  /\ UNCHANGED <<platform, pc, count, hook, pending, posted, refused, batch,
                 ui, sent, received>>

\* Variant: the engine's threads are not joined.
StopWithoutJoin ==
  /\ engine
  /\ engine' = FALSE

\* pjsua_destroy: returns when the engine's threads have ended.
StopEngine ==
  /\ engine
  /\ \A t \in Workers : pc[t] = "none"
  /\ engine' = FALSE

Shutdown ==
  /\ ui = "loop" /\ pc["ui"] = "none"
  /\ StopEngine
  /\ UNCHANGED <<platform, pc, count, hook, pending, posted, refused, batch,
                 ui, sent, received>>

\* Variant: the vector is copied, not swapped.
TakeCopy ==
  /\ batch' = pending
  /\ UNCHANGED pending

\* The swap under pjsip_event_mutex_.
Take ==
  /\ batch' = pending
  /\ pending' = <<>>

FlushBegin ==
  /\ ui = "loop" /\ pc["ui"] = "none" /\ posted > 0
  /\ ui' = "flush"
  /\ posted' = posted - 1
  /\ Take
  /\ refused' = FALSE
  /\ UNCHANGED <<platform, pc, count, hook, engine, sent, received>>

FlushOne ==
  /\ ui \in {"flush", "lastFlush"} /\ batch # <<>>
  /\ received' = Append(received, Head(batch))
  /\ batch' = Tail(batch)
  /\ UNCHANGED <<platform, pc, count, hook, pending, posted, refused, ui,
                 engine, sent>>

FlushEnd ==
  /\ ui \in {"flush", "lastFlush"} /\ batch = <<>>
  /\ ui' = IF ui = "flush" THEN "loop" ELSE "flushed"
  /\ UNCHANGED <<platform, pc, count, hook, pending, posted, refused, batch,
                 engine, sent, received>>

\* invoke_pjsip_event, the block of the callback.
Invoke ==
  /\ platform = "unix"
  /\ ui = "loop" /\ pc["ui"] = "none" /\ pending # <<>>
  /\ received' = Append(received, Head(pending))
  /\ pending' = Tail(pending)
  /\ UNCHANGED <<platform, pc, count, hook, posted, refused, batch, ui, engine,
                 sent>>

(* OnDestroy; my_application_shutdown and my_application_dispose.          *)

\* The window is closed; the main loop of unix runs no more of our events.
Destroy ==
  /\ ui = "loop" /\ pc["ui"] = "none"
  /\ ui' = "destroy"
  /\ UNCHANGED <<platform, pc, count, hook, pending, posted, refused, batch,
                 engine, sent, received>>

DestroyShutdown ==
  /\ ui = "destroy" /\ pc["ui"] = "none"
  /\ StopEngine \/ (~engine /\ UNCHANGED engine)
  /\ ui' = "stopped"
  /\ UNCHANGED <<platform, pc, count, hook, pending, posted, refused, batch,
                 sent, received>>

\* Variant: the window is closed without the last flush.
DestroyWithoutFlush ==
  /\ platform = "windows"
  /\ ui = "stopped" /\ pc["ui"] = "none"
  /\ ui' = "lastFlush"
  /\ UNCHANGED <<platform, pc, count, hook, pending, posted, refused, batch,
                 engine, sent, received>>

DestroyFlush ==
  /\ platform = "windows"
  /\ ui = "stopped" /\ pc["ui"] = "none"
  /\ ui' = "lastFlush"
  /\ Take
  /\ UNCHANGED <<platform, pc, count, hook, posted, refused, engine, sent,
                 received>>

\* SetEventCallback(nullptr), and the service and the channel go.
DestroyDone ==
  /\ ui = "flushed"
  /\ ui' = "gone"
  /\ hook' = FALSE
  /\ UNCHANGED <<platform, pc, count, pending, posted, refused, batch, engine,
                 sent, received>>

\* The service and the channel of unix go.
Dispose ==
  /\ platform = "unix"
  /\ ui = "stopped" /\ pc["ui"] = "none"
  /\ ui' = "gone"
  /\ hook' = FALSE
  /\ UNCHANGED <<platform, pc, count, pending, posted, refused, batch, engine,
                 sent, received>>

HandOver(t) == EnqueuePush(t) \/ EnqueuePost(t) \/ Notify(t)

FlushStep == FlushBegin \/ FlushOne \/ FlushEnd \/ Invoke

DestroyStep == DestroyShutdown \/ DestroyFlush \/ DestroyDone \/ Dispose

Next ==
  \/ \E t \in Threads : EmitCopy(t) \/ HandOver(t)
  \/ StartEngine \/ Shutdown \/ FlushStep \/ Destroy \/ DestroyStep

\* Threads are scheduled, and the UI thread handles its messages and ends what it
\* has begun; nobody has to emit, to start the engine or to close the window.
Fairness ==
  /\ \A t \in Threads : WF_vars(HandOver(t))
  /\ WF_vars(FlushStep)
  /\ WF_vars(DestroyStep)

Spec == Init /\ [][Next]_vars /\ Fairness

-----------------------------------------------------------------------------
(* Properties.                                                             *)

\* No thread is inside the callback, which uses the window and the channel, when
\* they are gone: nothing but the join in pjsua_destroy sees to it, since Emit calls the
\* copy outside callback_mutex_ and SetEventCallback(nullptr) waits for nobody.
NoLateCallback ==
  ui = "gone" => \A t \in Threads : pc[t] = "none"

\* On Windows events wait only while something is on its way that takes them: a message, an
\* emitter about to post one, or the last flush.  The exception is the post that the
\* window's queue refused.
NothingStranded ==
  platform = "windows" /\ pending # <<>> =>
    \/ posted > 0
    \/ \E t \in Threads : pc[t] = "pushed"
    \/ ui \in {"destroy", "stopped"}
    \/ refused

\* When the window of Windows is gone every event was passed on, Shutdown's own
\* included.
AllPassedOnAtClose ==
  platform = "windows" /\ ui = "gone" => received = sent

\* The hand-over is an EventChannel, which closes with the window on Windows and
\* with the main loop elsewhere, and is held up by a post that was refused.
Channel ==
  INSTANCE EventChannel
    WITH open <- IF platform = "windows" THEN ui # "gone" ELSE ui = "loop",
         held <- refused
ChannelSpec == Channel!Spec
=============================================================================

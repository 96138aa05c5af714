------------------------ MODULE EventDelivery_proofs ------------------------
(***************************************************************************)
(* Theorems about EventDelivery for every set of threads, every number of  *)
(* events, every length of the message queue and both kinds of platform:   *)
(* type correctness, that nobody is inside the callback when the window is *)
(* gone, that no event waits for a message that nobody posts, that every   *)
(* event was passed on when the window of Windows is gone, and that the    *)
(* hand-over is an EventChannel as far as safety goes.                     *)
(***************************************************************************)
EXTENDS EventDelivery, SequenceTheorems, TLAPS

\* The UI thread has stopped the engine and will not start it again.
Ending == {"stopped", "lastFlush", "flushed", "gone"}

\* The threads of a stopped engine are not inside Emit, and neither is the UI
\* thread while it flushes.
Joined ==
  /\ ~engine => \A w \in Workers : pc[w] = "none"
  /\ ui \in Ending => ~engine
  /\ ui \in {"flush", "lastFlush", "flushed", "gone"} => pc["ui"] = "none"

\* A thread inside Emit has an event to hand over.
HasEvent == \A t \in Threads : pc[t] # "none" => count[t] \in 1..MaxEmits

\* What was handed over has been passed on, is being passed on, or waits, in its
\* order.
InOrder == sent = received \o (batch \o pending)

\* The batch is that of a flush, and nothing waits after the last one.
Emptied ==
  /\ ui \notin {"flush", "lastFlush"} => batch = <<>>
  /\ ui \in {"lastFlush", "flushed"} => pending = <<>>
  /\ platform = "windows" /\ ui = "gone" => pending = <<>>

\* The main loop of unix knows neither messages nor flushes.
NoMessages ==
  platform = "unix" =>
    /\ posted = 0
    /\ ui \notin {"flush", "lastFlush", "flushed"}
    /\ \A t \in Threads : pc[t] # "pushed"

IInv ==
  TypeOK /\ Joined /\ HasEvent /\ InOrder /\ Emptied /\ NoMessages /\ NothingStranded

\* Joined says in particular that nobody calls into a window that is gone.
LEMMA JoinedIsSafe ==
  ASSUME Joined
  PROVE  NoLateCallback
BY DEF Joined, Ending, NoLateCallback, Threads

\* With nothing left in the batch and in the vector everything was passed on.
LEMMA EmptiedIsAll ==
  ASSUME TypeOK, InOrder, Emptied
  PROVE  AllPassedOnAtClose
<1> SUFFICES ASSUME platform = "windows", ui = "gone" PROVE received = sent
  BY DEF AllPassedOnAtClose
<1>1. batch = <<>> /\ pending = <<>>
  BY DEF Emptied
<1>2. received \in Seq(Events) /\ <<>> \in Seq(Events)
  BY EmptySeq DEF TypeOK
<1>3. <<>> \o <<>> = <<>> /\ received \o <<>> = received
  BY <1>2, ConcatEmptySeq
<1> QED
  BY <1>1, <1>3 DEF InOrder

\* An event appended to the vector is the last of all.
LEMMA AppendLast ==
  ASSUME received \in Seq(Events), batch \in Seq(Events),
         pending \in Seq(Events), NEW e \in Events
  PROVE  Append(received \o (batch \o pending), e)
           = received \o (batch \o Append(pending, e))
<1>1. \A q \in Seq(Events) : Append(q, e) = q \o <<e>>
  BY AppendIsConcat
<1>2. <<e>> \in Seq(Events)
  BY SMT
<1>3. batch \o pending \in Seq(Events)
  BY ConcatProperties
<1>4. received \o (batch \o pending) \in Seq(Events)
  BY <1>3, ConcatProperties
<1>5. (received \o (batch \o pending)) \o <<e>>
        = received \o ((batch \o pending) \o <<e>>)
  BY <1>2, <1>3, ConcatAssociative, SMTT(30)
<1>6. (batch \o pending) \o <<e>> = batch \o (pending \o <<e>>)
  BY <1>2, ConcatAssociative, SMTT(30)
<1> QED
  BY <1>1, <1>4, <1>5, <1>6

\* The head of a sequence that follows r comes after all of r.
LEMMA MoveHead ==
  ASSUME NEW r \in Seq(Events), NEW b \in Seq(Events), NEW q \in Seq(Events),
         b # <<>>
  PROVE  /\ r \o (b \o q) = Append(r, Head(b)) \o (Tail(b) \o q)
         /\ Len(r) < Len(r \o (b \o q))
         /\ Head(b) = (r \o (b \o q))[Len(r) + 1]
         /\ Head(b) \in Events /\ Tail(b) \in Seq(Events)
<1>1. /\ Head(b) \in Events /\ Tail(b) \in Seq(Events)
      /\ Len(b) \in Nat \ {0}
      /\ Len(Tail(b)) = Len(b) - 1
  BY HeadTailProperties, EmptySeq, LenProperties
<1>2. /\ b \o q \in Seq(Events)
      /\ Len(b \o q) = Len(b) + Len(q)
      /\ Len(q) \in Nat /\ Len(r) \in Nat
      /\ (b \o q)[1] = Head(b)
  BY <1>1, ConcatProperties, LenProperties
<1>3. /\ Len(r \o (b \o q)) = Len(r) + Len(b \o q)
      /\ (r \o (b \o q))[Len(r) + 1] = (b \o q)[1]
  BY <1>1, <1>2, ConcatProperties
<1>4. r \o (b \o q) = Append(r, Head(b)) \o (Tail(b) \o q)
  BY <1>1, SMTT(30)
<1> QED
  BY <1>1, <1>2, <1>3, <1>4

\* The start of the window.
LEMMA InitIInv == Init => IInv
<1> SUFFICES ASSUME Init PROVE IInv
  OBVIOUS
<1>1. <<>> \in Seq(Events) /\ <<>> \o <<>> = <<>>
  BY EmptySeq, ConcatEmptySeq
<1>2. 0 \in 0..MaxEmits /\ 0 \in 0..QueueLimit
  BY QueueAssumption
<1>3. TypeOK
  BY <1>1, <1>2 DEF TypeOK, Init
<1>4. Joined /\ HasEvent /\ Emptied /\ NoMessages /\ NothingStranded
  BY DEF Joined, Ending, HasEvent, Emptied, NoMessages, NothingStranded, Init,
         Threads
<1>5. InOrder
  BY <1>1 DEF InOrder, Init
<1> QED
  BY <1>3, <1>4, <1>5 DEF IInv

\* A thread takes a copy of the callback and has a new event in hand.
LEMMA EmitCopyStep ==
  ASSUME IInv, NEW t \in Threads, EmitCopy(t)
  PROVE  IInv'
<1> USE DEF IInv, EmitCopy
<1>1. count[t] + 1 \in 1..MaxEmits
  BY QueueAssumption DEF TypeOK
<1>2. TypeOK'
  BY <1>1 DEF TypeOK
<1>3. Joined'
  BY QueueAssumption DEF Joined, Ending, TypeOK, MayEmit, Threads
<1>4. HasEvent'
  BY <1>1 DEF HasEvent, TypeOK
<1>5. InOrder' /\ Emptied'
  BY DEF InOrder, Emptied
<1>6. NothingStranded' /\ NoMessages'
  BY DEF NothingStranded, NoMessages, TypeOK
<1> QED
  BY <1>2, <1>3, <1>4, <1>5, <1>6

\* The event goes to the end of the vector, and its thread will post a message;
\* or to the end of the main loop's work, and its thread is done.
LEMMA HandOverStep ==
  ASSUME IInv, NEW t \in Threads, EnqueuePush(t) \/ Notify(t)
  PROVE  IInv' /\ <<t, count[t]>> \in Events
<1> DEFINE e == <<t, count[t]>>
<1> USE DEF IInv
<1>1. e \in Events
  BY DEF HasEvent, Events, EnqueuePush, Notify
<1>2. /\ received \in Seq(Events) /\ pending \in Seq(Events)
      /\ sent \in Seq(Events) /\ batch \in Seq(Events)
  BY DEF TypeOK
<1>3. /\ pending' = Append(pending, e) /\ sent' = Append(sent, e)
      /\ received' = received /\ batch' = batch
  BY DEF EnqueuePush, Notify
<1> HIDE DEF e
<1>4. pending' \in Seq(Events) /\ sent' \in Seq(Events)
  BY <1>1, <1>2, <1>3, AppendProperties
<1>5. TypeOK'
  BY <1>4 DEF TypeOK, EnqueuePush, Notify
<1>6. Joined'
  BY QueueAssumption DEF Joined, Ending, TypeOK, Threads, EnqueuePush, Notify
<1>7. HasEvent'
  BY DEF HasEvent, TypeOK, EnqueuePush, Notify
<1>8. Append(received \o (batch \o pending), e)
        = received \o (batch \o Append(pending, e))
  BY <1>1, <1>2, AppendLast
<1>9. InOrder'
  BY <1>3, <1>8 DEF InOrder
<1>10. Emptied'
  BY DEF Emptied, Joined, Ending, Threads, EnqueuePush, Notify
<1>11. NothingStranded'
  BY DEF NothingStranded, TypeOK, EnqueuePush, Notify
<1>12. NoMessages'
  BY DEF NoMessages, TypeOK, EnqueuePush, Notify
<1> QED
  BY <1>1, <1>5, <1>6, <1>7, <1>9, <1>10, <1>11, <1>12 DEF e

\* The message is posted, or the queue takes no more.
LEMMA EnqueuePostStep ==
  ASSUME IInv, NEW t \in Threads, EnqueuePost(t)
  PROVE  IInv' /\ UNCHANGED <<sent, received, ui>>
<1> USE DEF IInv, EnqueuePost, Post
<1>1. posted' \in 0..QueueLimit /\ (posted' > 0 \/ refused') /\ refused' \in BOOLEAN
  <2>1. posted' \in 0..QueueLimit
    BY QueueAssumption DEF TypeOK
  <2>2. refused' = (posted' = 0)
    OBVIOUS
  <2>3. posted' > 0 \/ posted' = 0
    BY <2>1
  <2>4. CASE posted' = 0
    BY <2>1, <2>2, <2>4
  <2>5. CASE posted' # 0
    BY <2>1, <2>2, <2>3, <2>5
  <2> QED
    BY <2>4, <2>5
<1>2. TypeOK'
  BY <1>1 DEF TypeOK
<1>3. Joined' /\ HasEvent'
  BY DEF Joined, Ending, HasEvent, TypeOK, Threads
<1>4. InOrder' /\ Emptied'
  BY DEF InOrder, Emptied
<1>5. NothingStranded'
  BY <1>1 DEF NothingStranded
<1>6. NoMessages'
  BY DEF NoMessages
<1> QED
  BY <1>2, <1>3, <1>4, <1>5, <1>6

\* The UI thread takes the vector for its batch, which is empty by then.
LEMMA TakeStep ==
  ASSUME IInv, FlushBegin \/ DestroyFlush
  PROVE  IInv' /\ UNCHANGED <<sent, received>>
<1> USE DEF IInv, FlushBegin, DestroyFlush, Take
<1>1. pending \in Seq(Events) /\ <<>> \in Seq(Events)
  BY EmptySeq DEF TypeOK
<1>2. TypeOK'
  <2>1. posted' \in 0..QueueLimit
    BY QueueAssumption DEF TypeOK
  <2>2. batch' \in Seq(Events) /\ pending' \in Seq(Events)
    BY <1>1
  <2> QED
    BY <2>1, <2>2 DEF TypeOK
<1>3. Joined' /\ HasEvent'
  BY DEF Joined, Ending, HasEvent
<1>4. batch = <<>> /\ batch \o pending = batch' \o pending'
  BY <1>1, ConcatEmptySeq DEF Emptied
<1>5. InOrder'
  BY <1>4 DEF InOrder
<1>6. Emptied' /\ NothingStranded'
  BY DEF Emptied, NothingStranded
<1>7. NoMessages'
  BY DEF NoMessages, TypeOK
<1> QED
  BY <1>2, <1>3, <1>5, <1>6, <1>7

\* The first event of the batch is passed on.
LEMMA FlushOneStep ==
  ASSUME IInv, FlushOne
  PROVE  /\ IInv'
         /\ Len(received) < Len(sent)
         /\ received' = Append(received, sent[Len(received) + 1])
<1> USE DEF IInv, FlushOne
<1>0. /\ received \in Seq(Events) /\ batch \in Seq(Events)
      /\ pending \in Seq(Events)
      /\ sent = received \o (batch \o pending)
  BY DEF TypeOK, InOrder
<1>1. /\ Head(batch) \in Events /\ Tail(batch) \in Seq(Events)
      /\ sent = Append(received, Head(batch)) \o (Tail(batch) \o pending)
      /\ Len(received) < Len(sent)
      /\ Head(batch) = sent[Len(received) + 1]
  BY <1>0, MoveHead
<1>2. TypeOK'
  BY <1>1, AppendProperties DEF TypeOK
<1>3. Joined' /\ HasEvent' /\ Emptied'
  BY DEF Joined, Ending, HasEvent, Emptied
<1>4. InOrder'
  BY <1>1 DEF InOrder
<1>5. NothingStranded' /\ NoMessages'
  BY DEF NothingStranded, NoMessages
<1> QED
  BY <1>1, <1>2, <1>3, <1>4, <1>5

\* The oldest piece of work of the main loop is run: its batch is empty.
LEMMA InvokeStep ==
  ASSUME IInv, Invoke
  PROVE  /\ IInv'
         /\ Len(received) < Len(sent)
         /\ received' = Append(received, sent[Len(received) + 1])
<1>0. /\ received \in Seq(Events) /\ batch \in Seq(Events)
      /\ pending \in Seq(Events) /\ pending # <<>>
      /\ sent = received \o (batch \o pending)
  BY DEF IInv, TypeOK, InOrder, Invoke
<1>1. \A q \in Seq(Events) : batch \o q = q /\ q \o batch = q
  BY ConcatEmptySeq DEF IInv, Emptied, Invoke
<1>2. /\ Head(pending) \in Events /\ Tail(pending) \in Seq(Events)
      /\ received \o (pending \o batch)
           = Append(received, Head(pending)) \o (Tail(pending) \o batch)
      /\ Len(received) < Len(received \o (pending \o batch))
      /\ Head(pending) = (received \o (pending \o batch))[Len(received) + 1]
  BY <1>0, MoveHead
<1>3. /\ Tail(pending) \o batch = Tail(pending) /\ pending \o batch = pending
      /\ batch \o pending = pending /\ batch \o Tail(pending) = Tail(pending)
  BY <1>0, <1>1, <1>2
<1>4. /\ received' = Append(received, Head(pending)) /\ pending' = Tail(pending)
      /\ UNCHANGED <<platform, pc, count, hook, posted, refused, batch, ui, engine,
                     sent>>
      /\ platform = "unix" /\ ui = "loop"
  BY DEF Invoke
<1>5. received' \in Seq(Events) /\ pending' \in Seq(Events)
  BY <1>0, <1>2, <1>4, AppendProperties
<1>6. TypeOK' /\ Joined' /\ HasEvent' /\ Emptied'
  BY <1>4, <1>5 DEF IInv, TypeOK, Joined, Ending, HasEvent, Emptied
<1>7. InOrder'
  BY <1>0, <1>2, <1>3, <1>4 DEF InOrder
<1>8. NothingStranded' /\ NoMessages'
  BY <1>4 DEF IInv, NothingStranded, NoMessages
<1>9. Len(received) < Len(sent) /\ Head(pending) = sent[Len(received) + 1]
  BY <1>0, <1>2, <1>3
<1> QED
  BY <1>4, <1>6, <1>7, <1>8, <1>9 DEF IInv

\* The other steps of the UI thread leave the events alone.
LifeSteps ==
  \/ StartEngine \/ Shutdown \/ FlushEnd \/ Destroy \/ DestroyShutdown \/ DestroyDone
  \/ Dispose

\* They keep the invariant, and are stutters of the channel or its end.
LEMMA LifeStep ==
  ASSUME IInv, LifeSteps
  PROVE  IInv' /\ UNCHANGED <<sent, received>>
<1> USE DEF IInv, LifeSteps, StartEngine, Shutdown, FlushEnd, Destroy,
            DestroyShutdown, DestroyDone, Dispose, StopEngine
<1>1. TypeOK'
  BY DEF TypeOK
<1>2. Joined' /\ HasEvent'
  BY DEF Joined, Ending, HasEvent
<1>3. InOrder'
  BY DEF InOrder
<1>4. Emptied' /\ NothingStranded'
  BY DEF Emptied, NothingStranded
<1>5. NoMessages'
  BY DEF NoMessages
<1> QED
  BY <1>1, <1>2, <1>3, <1>4, <1>5

\* Every step of the hand-over is one of those above.
LEMMA StepsOfNext ==
  ASSUME Next
  PROVE  \/ \E t \in Threads : EmitCopy(t)
         \/ \E t \in Threads : EnqueuePush(t) \/ Notify(t)
         \/ \E t \in Threads : EnqueuePost(t)
         \/ FlushBegin \/ DestroyFlush \/ FlushOne \/ Invoke \/ LifeSteps
BY DEF Next, HandOver, FlushStep, DestroyStep, LifeSteps

\* Every step of the hand-over keeps the invariant.
LEMMA StepIInv == IInv /\ [Next]_vars => IInv'
<1> SUFFICES ASSUME IInv, [Next]_vars PROVE IInv'
  OBVIOUS
<1>1. CASE UNCHANGED vars
  BY <1>1 DEF vars, IInv, TypeOK, Joined, Ending, HasEvent, InOrder, Emptied,
              NoMessages, NothingStranded
<1>2. CASE Next
  BY <1>2, StepsOfNext, EmitCopyStep, HandOverStep, EnqueuePostStep, TakeStep,
     FlushOneStep, InvokeStep, LifeStep
<1> QED
  BY <1>1, <1>2

\* The invariant holds in every state of the hand-over.
LEMMA Invariance == Spec => []IInv
BY InitIInv, StepIInv, PTL DEF Spec

\* Every state of the hand-over has its type.
THEOREM TypeCorrect == Spec => []TypeOK
<1>1. IInv => TypeOK
  BY DEF IInv
<1> QED
  BY <1>1, Invariance, PTL

\* The join in pjsua_destroy is enough: when the window is gone no thread is
\* between its copy of the callback and the end of the call.
THEOREM NoLateCall == Spec => []NoLateCallback
<1>1. IInv => NoLateCallback
  BY JoinedIsSafe DEF IInv
<1> QED
  BY <1>1, Invariance, PTL

\* No event waits in the vector without something on its way that takes it, unless
\* the window's queue refused the last message, which nobody notices.
THEOREM NoneStranded == Spec => []NothingStranded
<1>1. IInv => NothingStranded
  BY DEF IInv
<1> QED
  BY <1>1, Invariance, PTL

\* OnDestroy loses none of the events, those of its own Shutdown included.
THEOREM PassedOnAtClose == Spec => []AllPassedOnAtClose
<1>1. IInv => AllPassedOnAtClose
  BY EmptiedIsAll DEF IInv
<1> QED
  BY <1>1, Invariance, PTL

\* A step of the hand-over is a step of the channel, or none.
LEMMA StepImplements == IInv /\ [Next]_vars => [Channel!Next]_(Channel!vars)
<1> DEFINE isOpen == IF platform = "windows" THEN ui # "gone" ELSE ui = "loop"
<1> SUFFICES ASSUME IInv, [Next]_vars
             PROVE  [Channel!Next]_(Channel!vars)
  OBVIOUS
<1>0. platform \in {"windows", "unix"}
  BY DEF IInv, TypeOK
<1>1. CASE UNCHANGED vars
  BY <1>1 DEF vars, Channel!vars
<1>2. ASSUME NEW t \in Threads, EnqueuePush(t) \/ Notify(t)
      PROVE  Channel!Next
  <2>1. <<t, count[t]>> \in Events
    BY <1>2, HandOverStep
  <2>2. Channel!Send(<<t, count[t]>>)
    BY <1>2 DEF EnqueuePush, Notify, Channel!Send
  <2> QED
    BY <2>1, <2>2 DEF Channel!Next
<1>3. CASE FlushOne \/ Invoke
  <2>1. /\ isOpen /\ UNCHANGED <<sent, ui, platform, refused>>
    BY <1>0, <1>3 DEF FlushOne, Invoke, IInv, NoMessages
  <2>2. /\ Len(received) < Len(sent)
        /\ received' = Append(received, sent[Len(received) + 1])
    BY <1>3, FlushOneStep, InvokeStep
  <2>3. Channel!Receive
    BY <2>1, <2>2 DEF Channel!Receive
  <2> QED
    BY <2>3 DEF Channel!Next
<1>4. CASE DestroyDone
  <2>1. platform = "windows"
    BY <1>0, <1>4 DEF DestroyDone, IInv, NoMessages
  <2>2. Channel!Close
    BY <1>4, <2>1 DEF DestroyDone, Channel!Close
  <2> QED
    BY <2>2 DEF Channel!Next
<1>5. ASSUME NEW t \in Threads, EmitCopy(t) \/ EnqueuePost(t)
      PROVE  [Channel!Next]_(Channel!vars)
  <2>1. CASE EmitCopy(t) \/ refused' = refused
    <3>1. UNCHANGED <<platform, ui, sent, received, refused>>
      BY <1>5, <2>1 DEF EmitCopy, EnqueuePost
    <3> QED
      BY <3>1 DEF Channel!vars
  <2>2. CASE EnqueuePost(t) /\ refused' # refused
    <3>1. refused' = ~refused
      BY <2>2 DEF EnqueuePost, Post, IInv, TypeOK
    <3>2. isOpen
      BY <1>0, <2>2 DEF EnqueuePost, IInv, NoMessages, Joined, Ending, Threads
    <3>3. Channel!Hold
      BY <2>2, <3>1, <3>2 DEF EnqueuePost, Channel!Hold
    <3> QED
      BY <3>3 DEF Channel!Next
  <2> QED
    BY <1>5, <2>1, <2>2
<1>6. CASE FlushBegin \/ DestroyFlush
  <2>1. platform = "windows"
    BY <1>0, <1>6 DEF FlushBegin, DestroyFlush, IInv, NoMessages
  <2>2. CASE refused' = refused
    BY <1>6, <2>1, <2>2 DEF FlushBegin, DestroyFlush, Channel!vars
  <2>3. CASE refused' # refused
    <3>0. FlushBegin
      BY <1>6, <2>3 DEF DestroyFlush
    <3>1. refused' = ~refused /\ ui = "loop"
      BY <2>3, <3>0 DEF FlushBegin, IInv, TypeOK
    <3>2. Channel!Hold
      BY <2>1, <3>0, <3>1 DEF FlushBegin, Channel!Hold
    <3> QED
      BY <3>2 DEF Channel!Next
  <2> QED
    BY <2>2, <2>3
<1>7. CASE Destroy
  <2>1. CASE platform = "windows"
    BY <1>7, <2>1 DEF Destroy, Channel!vars
  <2>2. CASE platform = "unix"
    <3>1. Channel!Close
      BY <1>7, <2>2 DEF Destroy, Channel!Close
    <3> QED
      BY <3>1 DEF Channel!Next
  <2> QED
    BY <1>0, <2>1, <2>2
<1>8. CASE FlushEnd
  <2>1. platform = "windows"
    BY <1>0, <1>8 DEF FlushEnd, IInv, NoMessages
  <2> QED
    BY <1>8, <2>1 DEF FlushEnd, Channel!vars
<1>9. CASE StartEngine \/ Shutdown \/ DestroyShutdown \/ Dispose
  BY <1>0, <1>9 DEF StartEngine, Shutdown, DestroyShutdown, Dispose, Channel!vars
<1> QED
  BY <1>1, <1>2, <1>3, <1>4, <1>5, <1>6, <1>7, <1>8, <1>9, StepsOfNext
     DEF LifeSteps

\* Whatever the threads do, the events arrive in the order in which they were
\* handed over, each at most once and none left out: the hand-over implements
\* the safety of EventChannel.
THEOREM ImplementsChannel == Spec => Channel!Safety
<1>1. Init => Channel!Init
  BY DEF Init, Channel!Init
<1> QED
  BY <1>1, Invariance, StepImplements, PTL DEF Spec, Channel!Safety
=============================================================================

---------------------------- MODULE Bridge_proofs ---------------------------
(***************************************************************************)
(* Theorems about Bridge for every number of requests, of links and of     *)
(* changes of the network: type correctness; that _currentState agrees     *)
(* with the engine as soon as nothing is on its way, and with it the       *)
(* answers the native side is not asked for; and that no change of the     *)
(* network is lost on its way to the engine.                               *)
(***************************************************************************)
EXTENDS Bridge, SequenceTheorems, TLAPS

\* The newest event on its way says whether the engine runs.
EventsAgree ==
  events # <<>> => (events[Len(events)] = "started" <=> engine)

\* A call of the running operation will set _currentState before anything reads
\* it as the state of the engine.
Corrected == todo # <<>> /\ Head(todo) \in {"initialize", "shutdown"}

\* With no event on its way _currentState is right, unless it was misled or is
\* about to be corrected.
StateOK ==
  events = <<>> /\ ~misled /\ ~Corrected => (state = "started" <=> engine)

\* It says "idle" of no running engine, misled or not.
IdleState == events = <<>> /\ state = "idle" => ~engine

\* Only the running operation has calls to make.
IdleOK == ~running => todo = <<>>

IInv == TypeOK /\ EventsAgree /\ StateOK /\ IdleState /\ IdleOK

\* The invariant is stronger than StateAgrees.
LEMMA IInvAgrees ==
  ASSUME IInv
  PROVE  StateAgrees
<1> SUFFICES ASSUME Quiet, ~misled PROVE state = "started" <=> engine
  BY DEF StateAgrees
<1>1. ~running
  BY DEF Quiet, IInv, TypeOK
<1> QED
  BY <1>1 DEF Quiet, IInv, IdleOK, StateOK, Corrected

\* Two events at the end: the last of all is the second of them.
LEMMA TwoMore ==
  ASSUME NEW S, NEW s \in Seq(S), NEW a \in S, NEW b \in S
  PROVE  /\ s \o <<a, b>> \in Seq(S) /\ s \o <<a, b>> # <<>>
         /\ (s \o <<a, b>>)[Len(s \o <<a, b>>)] = b
<1>1. /\ <<a, b>> \in Seq(S) /\ Len(<<a, b>>) = 2 /\ <<a, b>>[2] = b
  BY SMT
<1>2. Len(s) \in Nat
  BY LenProperties
<1>3. /\ s \o <<a, b>> \in Seq(S) /\ Len(s \o <<a, b>>) = Len(s) + 2
      /\ (s \o <<a, b>>)[Len(s) + 2] = b
  BY <1>1, <1>2, ConcatProperties
<1>4. s \o <<a, b>> # <<>>
  BY <1>2, <1>3, EmptySeq
<1> QED
  BY <1>3, <1>4

\* The calls of initialize and of registerAccount begin with "initialize".
LEMMA InitializeFirst ==
  ASSUME NEW s \in Seq(Methods)
  PROVE  /\ <<"initialize">> \o s \in Seq(Methods)
         /\ <<"initialize">> \o s # <<>>
         /\ Head(<<"initialize">> \o s) = "initialize"
<1>1. <<"initialize">> \in Seq(Methods) /\ Len(<<"initialize">>) = 1
      /\ <<"initialize">>[1] = "initialize"
  BY SMT DEF Methods, Operations
<1>2. /\ <<"initialize">> \o s \in Seq(Methods)
      /\ Len(<<"initialize">> \o s) = 1 + Len(s)
      /\ Len(s) \in Nat
      /\ (<<"initialize">> \o s)[1] = "initialize"
  BY <1>1, ConcatProperties, LenProperties
<1>3. <<"initialize">> \o s # <<>>
  BY <1>2, EmptySeq
<1> QED
  BY <1>2, <1>3

\* The three calls that follow the start are calls.
LEMMA SyncCalls == Sync \in Seq(Methods) /\ Sync # <<>>
                   /\ Head(Sync) = "setting"
BY SMT DEF Sync, Methods, Operations

\* The start of the application.
LEMMA InitIInv == Init => IInv
<1> SUFFICES ASSUME Init PROVE IInv
  OBVIOUS
<1> USE DEF Init
<1>1. \A S : <<>> \in Seq(S)
  BY EmptySeq
<1>2. 0 \in 0..MaxLinks /\ 0 \in 0..MaxRequests
  BY BridgeAssumption
<1>3. TypeOK
  BY <1>1, <1>2 DEF TypeOK, States
<1>4. EventsAgree /\ StateOK /\ IdleState /\ IdleOK
  BY DEF EventsAgree, StateOK, IdleState, IdleOK, Corrected
<1> QED
  BY <1>3, <1>4 DEF IInv

\* A request waits behind the others.
LEMMA RequestStep ==
  ASSUME IInv, NEW op \in Operations, Request(op)
  PROVE  IInv'
<1> USE DEF IInv, Request
<1>1. chain' \in Seq(Operations \cup {"handleNetworkChange"}) /\ chain' # <<>>
  <2>1. /\ chain \in Seq(Operations \cup {"handleNetworkChange"})
        /\ op \in Operations \cup {"handleNetworkChange"}
    BY DEF TypeOK
  <2> QED
    BY <2>1, AppendProperties
<1>2. requests' \in 0..MaxRequests
  <2>1. requests \in 0..MaxRequests /\ requests < MaxRequests
        /\ requests' = requests + 1
    BY DEF TypeOK
  <2> QED
    BY <2>1, BridgeAssumption
<1>3. TypeOK'
  BY <1>1, <1>2 DEF TypeOK, native, network
<1>4. EventsAgree' /\ StateOK' /\ IdleState' /\ IdleOK'
  BY DEF EventsAgree, StateOK, IdleState, IdleOK, Corrected, native
<1> QED
  BY <1>3, <1>4

\* An operation begins: it makes up its calls, and says so where the state will
\* be wrong until the first of them.
LEMMA BeginStep ==
  ASSUME IInv, Begin
  PROVE  IInv'
<1> USE DEF IInv
<1>1. /\ UNCHANGED <<events, engine, bound, misled, chain, requests, network,
                     dropped>>
      /\ running' = TRUE /\ chain # <<>>
  BY DEF Begin, BeginInitialize, BeginRegisterAccount, BeginShutdown, BeginOther,
         Begins, native
<1>2. /\ todo' \in Seq(Methods)
      /\ state' \in States
      /\ Corrected' \/ (state' = state /\ todo = <<>>)
      /\ state' = "idle" => state = "idle"
  <2>1. todo = <<>>
    BY DEF Begin, BeginInitialize, BeginRegisterAccount, BeginShutdown,
           BeginOther, Begins, IdleOK
  <2>2. CASE BeginInitialize
    <3>1. <<"initialize">> \o Sync \in Seq(Methods)
          /\ <<"initialize">> \o Sync # <<>>
          /\ Head(<<"initialize">> \o Sync) = "initialize"
      BY SyncCalls, InitializeFirst
    <3> QED
      BY <2>1, <2>2, <3>1, SyncCalls
         DEF BeginInitialize, TypeOK, States, Corrected
  <2>3. CASE BeginRegisterAccount
    <3>1. <<"registerAccount">> \in Seq(Methods)
      BY SMT DEF Methods, Operations
    <3>2. Sync \o <<"registerAccount">> \in Seq(Methods)
      BY <3>1, SyncCalls, ConcatProperties
    <3>3. (<<"initialize">> \o Sync) \o <<"registerAccount">> \in Seq(Methods)
      BY <3>1, SyncCalls, InitializeFirst, ConcatProperties
    <3> QED
      BY <2>1, <2>3, <3>1, <3>3 DEF BeginRegisterAccount, TypeOK
  <2>4. CASE BeginShutdown
    <3>1. <<"shutdown">> \in Seq(Methods) /\ <<"shutdown">> # <<>>
          /\ Head(<<"shutdown">>) = "shutdown" /\ <<>> \in Seq(Methods)
      BY SMT DEF Methods, Operations
    <3> QED
      BY <2>1, <2>4, <3>1 DEF BeginShutdown, TypeOK, States, Corrected
  <2>5. CASE BeginOther
    <3>1. \A op \in Methods : <<op>> \in Seq(Methods)
      BY SMT
    <3>2. todo' \in Seq(Methods)
      BY <2>5, <3>1 DEF BeginOther, Methods, Operations
    <3> QED
      BY <2>1, <2>5, <3>2 DEF BeginOther, TypeOK
  <2> QED
    BY <2>2, <2>3, <2>4, <2>5 DEF Begin
<1>3. TypeOK'
  BY <1>1, <1>2 DEF TypeOK, network
<1>4. EventsAgree' /\ IdleOK'
  BY <1>1 DEF EventsAgree, IdleOK
<1>5. StateOK' /\ IdleState'
  BY <1>1, <1>2 DEF StateOK, IdleState, Corrected
<1> QED
  BY <1>3, <1>4, <1>5

\* The operation ends, and the next one may begin.
LEMMA EndStep ==
  ASSUME IInv, End
  PROVE  IInv'
<1> USE DEF IInv, End
<1>1. Tail(chain) \in Seq(Operations \cup {"handleNetworkChange"})
  BY HeadTailProperties DEF TypeOK
<1>2. TypeOK'
  BY <1>1 DEF TypeOK, native, network
<1>3. EventsAgree' /\ StateOK' /\ IdleState' /\ IdleOK'
  BY DEF EventsAgree, StateOK, IdleState, IdleOK, Corrected, native
<1> QED
  BY <1>2, <1>3

\* The first of the calls that are left is made; the others are calls too.
LEMMA RestOfCalls ==
  ASSUME TypeOK, todo # <<>>
  PROVE  Tail(todo) \in Seq(Methods) /\ <<>> \in Seq(Methods)
BY HeadTailProperties, EmptySeq DEF TypeOK

\* The steps that leave the queue of events and the engine as they are, and whose
\* answer says whether the engine runs.
LEMMA AnswerStep ==
  ASSUME IInv, running, todo # <<>>, todo' \in {Tail(todo), <<>>},
         state' \in States, misled' \in BOOLEAN,
         ~misled' => (state' = "started" <=> engine),
         state' = "idle" => ~engine,
         UNCHANGED <<native, chain, running, requests, network>>,
         dropped' \in BOOLEAN
  PROVE  IInv'
<1> USE DEF IInv
<1>1. TypeOK'
  BY RestOfCalls DEF TypeOK, native, network
<1>2. EventsAgree' /\ StateOK' /\ IdleState' /\ IdleOK'
  BY DEF EventsAgree, StateOK, IdleState, IdleOK, native
<1> QED
  BY <1>1, <1>2

\* The steps that put events on their way, the last one right.
LEMMA EventStep ==
  ASSUME IInv, running, todo # <<>>, todo' \in {Tail(todo), <<>>},
         state' \in States, misled' \in BOOLEAN,
         engine' \in BOOLEAN, bound' \in {bound, links},
         events' \in Seq(States), events' # <<>>,
         events'[Len(events')] = "started" <=> engine',
         UNCHANGED <<chain, running, requests, network>>,
         dropped' \in BOOLEAN
  PROVE  IInv'
<1> USE DEF IInv
<1>1. TypeOK'
  BY RestOfCalls DEF TypeOK, network
<1>2. EventsAgree' /\ StateOK' /\ IdleState' /\ IdleOK'
  BY DEF EventsAgree, StateOK, IdleState, IdleOK
<1> QED
  BY <1>1, <1>2

\* The calls, one by one.
LEMMA CallStep ==
  ASSUME IInv, Call
  PROVE  IInv'
<1> USE DEF IInv
<1>1. events \in Seq(States) /\ engine \in BOOLEAN /\ misled \in BOOLEAN
      /\ dropped \in BOOLEAN /\ state \in States
  BY DEF TypeOK
<1>2. CASE CallInitialize
  <2>1. running /\ todo # <<>>
    BY <1>2 DEF CallInitialize, Calls
  <2>2. CASE engine /\ UNCHANGED native
    BY <1>1, <1>2, <2>1, <2>2, AnswerStep
       DEF CallInitialize, Answers, States, native
  <2>3. CASE ~engine /\ engine' = TRUE
    <3>1. events' = events \o <<"initializing", "started">>
      BY <1>2, <2>3 DEF CallInitialize, native
    <3>2. /\ events' \in Seq(States) /\ events' # <<>>
          /\ events'[Len(events')] = "started"
      BY <1>1, <3>1, TwoMore DEF States
    <3> QED
      BY <1>1, <1>2, <2>1, <2>3, <3>2, EventStep
         DEF CallInitialize, Answers, States, native
  <2>4. CASE ~engine /\ UNCHANGED engine
    <3>1. events' = events \o <<"initializing", "error">>
      BY <1>2, <2>4 DEF CallInitialize, native
    <3>2. /\ events' \in Seq(States) /\ events' # <<>>
          /\ events'[Len(events')] = "error"
      BY <1>1, <3>1, TwoMore DEF States
    <3> QED
      BY <1>1, <1>2, <2>1, <2>4, <3>2, EventStep
         DEF CallInitialize, Answers, States, native
  <2> QED
    BY <1>2, <2>2, <2>3, <2>4 DEF CallInitialize, native
<1>3. CASE CallShutdown
  <2>1. running /\ todo # <<>>
    BY <1>3 DEF CallShutdown, Calls
  <2>2. CASE engine
    <3>1. events' = events \o <<"stopping", "idle">>
      BY <1>3, <2>2 DEF CallShutdown
    <3>2. /\ events' \in Seq(States) /\ events' # <<>>
          /\ events'[Len(events')] = "idle"
      BY <1>1, <3>1, TwoMore DEF States
    <3> QED
      BY <1>1, <1>3, <2>1, <2>2, <3>2, EventStep
         DEF CallShutdown, Answers, States
  <2>3. CASE ~engine
    BY <1>1, <1>3, <2>1, <2>3, AnswerStep
       DEF CallShutdown, Answers, States, native
  <2> QED
    BY <1>1, <2>2, <2>3
<1>4. CASE CallControl
  BY <1>1, <1>4, AnswerStep DEF CallControl, Calls, Answers, States
<1>5. CASE CallSetting
  BY <1>1, <1>5, AnswerStep DEF CallSetting, Calls, Answers, States
<1>6. CASE NoAudioCues
  <2>1. todo # <<>> /\ Head(todo) = "configureAudioCues" /\ running
    BY <1>6 DEF NoAudioCues, Calls
  <2>2. TypeOK'
    BY <1>6, <2>1, RestOfCalls DEF NoAudioCues, TypeOK, native, network
  <2>3. EventsAgree' /\ StateOK' /\ IdleState' /\ IdleOK'
    BY <1>6, <2>1
       DEF NoAudioCues, EventsAgree, StateOK, IdleState, IdleOK, Corrected, native
  <2> QED
    BY <2>2, <2>3
<1>7. CASE CallRegisterAccount
  BY <1>1, <1>7, AnswerStep DEF CallRegisterAccount, Calls, Answers, States
<1>8. CASE CallHandleNetworkChange
  <2>1. running /\ todo # <<>> /\ todo' = Tail(todo)
    BY <1>8 DEF CallHandleNetworkChange, Calls
  <2>2. CASE engine /\ events' = Append(events, "started") /\ bound' = links
             /\ dropped' \in BOOLEAN
    <3>1. /\ events' \in Seq(States) /\ events' # <<>>
          /\ events'[Len(events')] = "started"
      BY <1>1, <2>2, AppendProperties DEF States
    <3> QED
      BY <1>1, <1>8, <2>1, <2>2, <3>1, EventStep
         DEF CallHandleNetworkChange, Answers, States
  <2>3. CASE UNCHANGED <<bound, events>> /\ dropped' \in BOOLEAN
    BY <1>1, <1>8, <2>1, <2>3, AnswerStep
       DEF CallHandleNetworkChange, Answers, States, native
  <2> QED
    BY <1>1, <1>8, <2>2, <2>3 DEF CallHandleNetworkChange
<1>9. CASE CallThrows
  BY <1>1, <1>9, AnswerStep DEF CallThrows, Answers, States
<1> QED
  BY <1>2, <1>3, <1>4, <1>5, <1>6, <1>7, <1>8, <1>9 DEF Call

\* The oldest event is handled; if it was the last one it was right.
LEMMA StatusEventStep ==
  ASSUME IInv, StatusEvent
  PROVE  IInv'
<1> USE DEF IInv, StatusEvent
<1>1. /\ Head(events) \in States /\ Tail(events) \in Seq(States)
      /\ Len(events) \in Nat \ {0} /\ Len(Tail(events)) = Len(events) - 1
      /\ Head(events) = events[1]
      /\ \A i \in 1..Len(Tail(events)) : Tail(events)[i] = events[i + 1]
  <2>1. events \in Seq(States) /\ events # <<>>
    BY DEF TypeOK
  <2>2. /\ Head(events) \in States /\ Tail(events) \in Seq(States)
        /\ Len(Tail(events)) = Len(events) - 1
        /\ \A i \in 1..Len(Tail(events)) : Tail(events)[i] = events[i + 1]
    BY <2>1, HeadTailProperties
  <2>3. Len(events) \in Nat \ {0} /\ Head(events) = events[1]
    BY <2>1, EmptySeq
  <2> QED
    BY <2>2, <2>3
<1>2. TypeOK'
  BY <1>1 DEF TypeOK, network
<1>3. CASE Tail(events) = <<>>
  <2>1. Len(Tail(events)) = 0
    BY <1>3, EmptySeq
  <2>2. Len(events) = 1
    BY <1>1, <2>1
  <2>3. Head(events) = events[Len(events)]
    BY <1>1, <2>2
  <2> QED
    BY <1>2, <1>3, <2>3 DEF EventsAgree, StateOK, IdleState, IdleOK
<1>4. CASE Tail(events) # <<>>
  <2>1. Len(Tail(events)) \in Nat \ {0}
    BY <1>1, <1>4, EmptySeq
  <2>2. Tail(events)[Len(Tail(events))] = events[Len(events)]
    BY <1>1, <2>1
  <2> QED
    BY <1>2, <1>4, <2>2 DEF EventsAgree, StateOK, IdleState, IdleOK
<1> QED
  BY <1>3, <1>4

\* The network and its monitor change no state of the engine.
LEMMA NetworkStep ==
  ASSUME IInv, LinkChanges \/ onChanged \/ Debounced
  PROVE  IInv'
<1> USE DEF IInv
<1>1. /\ UNCHANGED <<todo, running, state, misled, native, requests>>
      /\ dropped' \in BOOLEAN
  BY DEF LinkChanges, onChanged, Debounced, bridge, TypeOK
<1>2. EventsAgree' /\ StateOK' /\ IdleState' /\ IdleOK'
  BY <1>1 DEF EventsAgree, StateOK, IdleState, IdleOK, Corrected, native
<1>3. /\ link' \in Links \cup {NoLink} /\ seen' \in Links \cup {NoLink}
      /\ debounce' \in BOOLEAN
      /\ news' \in Seq(Links \cup {NoLink})
  <2>1. /\ link \in Links \cup {NoLink} /\ seen \in Links \cup {NoLink}
        /\ debounce \in BOOLEAN
        /\ news \in Seq(Links \cup {NoLink})
    BY DEF TypeOK
  <2>2. CASE LinkChanges
    BY <2>1, <2>2, AppendProperties DEF LinkChanges
  <2>3. CASE onChanged
    <3>1. /\ Head(news) \in Links \cup {NoLink}
          /\ Tail(news) \in Seq(Links \cup {NoLink})
      BY <2>1, <2>3, HeadTailProperties DEF onChanged
    <3>2. debounce' \in BOOLEAN
      BY <2>1, <2>3, Zenon DEF onChanged
    <3> QED
      BY <2>1, <2>3, <3>1, <3>2 DEF onChanged
  <2>4. CASE Debounced
    BY <2>1, <2>4 DEF Debounced
  <2> QED
    BY <2>2, <2>3, <2>4
<1>4. links' \in 0..MaxLinks
  <2>1. links \in 0..MaxLinks
    BY DEF TypeOK
  <2>2. links' = links \/ (links < MaxLinks /\ links' = links + 1)
    BY DEF LinkChanges, onChanged, Debounced
  <2> QED
    BY <2>1, <2>2, BridgeAssumption
<1>5. /\ chain' \in Seq(Operations \cup {"handleNetworkChange"})
      /\ chain # <<>> => chain' # <<>>
  <2>1. chain \in Seq(Operations \cup {"handleNetworkChange"})
    BY DEF TypeOK
  <2>2. chain' \in {chain, Append(chain, "handleNetworkChange")}
    BY DEF LinkChanges, onChanged, Debounced, bridge
  <2>3. "handleNetworkChange" \in Operations \cup {"handleNetworkChange"}
    OBVIOUS
  <2> QED
    BY <2>1, <2>2, <2>3, AppendProperties
<1>6. TypeOK'
  BY <1>1, <1>3, <1>4, <1>5 DEF TypeOK, native
<1> QED
  BY <1>2, <1>6

\* Every step keeps the invariant.
LEMMA StepIInv == IInv /\ [Next]_vars => IInv'
<1> SUFFICES ASSUME IInv, [Next]_vars PROVE IInv'
  OBVIOUS
<1>1. CASE UNCHANGED vars
  BY <1>1 DEF vars, bridge, native, network, IInv, TypeOK, EventsAgree, StateOK,
              IdleState, IdleOK, Corrected
<1>2. CASE Next
  BY <1>2, RequestStep, BeginStep, CallStep, EndStep, StatusEventStep, NetworkStep
     DEF Next, Operate
<1> QED
  BY <1>1, <1>2

\* The invariant holds in every state.
LEMMA Invariance == Spec => []IInv
BY InitIInv, StepIInv, PTL DEF Spec

\* Every state has its type.
THEOREM TypeCorrect == Spec => []TypeOK
<1>1. IInv => TypeOK
  BY DEF IInv
<1> QED
  BY <1>1, Invariance, PTL

\* Although answers and events reach _currentState out of order, it says whether
\* the engine runs whenever no operation and no event is on its way.
THEOREM StateFollowsEngine == Spec => []StateAgrees
<1>1. IInv => StateAgrees
  BY IInvAgrees
<1> QED
  BY <1>1, Invariance, PTL

-----------------------------------------------------------------------------
(* What initialize() and shutdown() say.                                   *)

\* With no status event on its way the two answers are true, and an account goes
\* to the engine alone only when that runs, except that a call control on a stopped
\* engine may have made the bridge believe it runs.
THEOREM AlreadyAnswersAreTrue == Spec => AlreadyIsTrue
<1>1. ASSUME IInv, [Next]_vars
      PROVE  [AlreadyStep]_vars
  <2> SUFFICES ASSUME events = <<>>,
                      BeginInitialize \/ BeginRegisterAccount \/ BeginShutdown
               PROVE  AlreadyStep
    BY DEF AlreadyStep
  <2>1. todo = <<>>
    BY <1>1 DEF IInv, IdleOK, BeginInitialize, BeginRegisterAccount, BeginShutdown,
                Begins
  <2>2. /\ ~misled => (state = "started" <=> engine)
        /\ state = "idle" => ~engine
    BY <1>1, <2>1 DEF IInv, StateOK, IdleState, Corrected
  <2>3. BeginInitialize /\ todo' = Sync => state = "started"
    <3> SUFFICES ASSUME <<"initialize">> \o Sync = Sync PROVE FALSE
      BY DEF BeginInitialize
    <3>1. Head(<<"initialize">> \o Sync) = "initialize"
      BY SyncCalls, InitializeFirst
    <3> QED
      BY <3>1, SyncCalls
  <2>4. BeginRegisterAccount /\ Head(todo') = "registerAccount" => state = "started"
    <3> SUFFICES ASSUME Head(<<"initialize">> \o Sync \o <<"registerAccount">>)
                          = "registerAccount"
                 PROVE  FALSE
      BY DEF BeginRegisterAccount
    <3>1. <<"registerAccount">> \in Seq(Methods)
      BY SMT DEF Methods, Operations
    <3>2. Sync \o <<"registerAccount">> \in Seq(Methods)
      BY <3>1, SyncCalls, ConcatProperties
    <3>3. <<"initialize">> \o Sync \o <<"registerAccount">>
            = <<"initialize">> \o (Sync \o <<"registerAccount">>)
      BY SMT DEF Sync
    <3> QED
      BY <3>2, <3>3, InitializeFirst
  <2>5. BeginShutdown /\ todo' = <<>> => state = "idle"
    BY DEF BeginShutdown
  <2> QED
    BY <2>2, <2>3, <2>4, <2>5 DEF AlreadyStep
<1> QED
  BY <1>1, InitIInv, StepIInv, PTL DEF Spec, AlreadyIsTrue

-----------------------------------------------------------------------------
(* Changes of the network on their way to the engine.                      *)

\* What the monitor will have seen before the last report.
Before == IF Len(news) = 1 THEN seen ELSE news[Len(news) - 1]

\* The monitor hears of every change and of the link as it is last of all; a last
\* report that is no news to it was dropped, or the engine is told of it.
NewsOK ==
  /\ news = <<>> => seen = link
  /\ news # <<>> => news[Len(news)] = link
  /\ news # <<>> /\ link = Before => dropped \/ bound = links

\* The operation of the monitor makes its one call.
RunsOK ==
  running /\ Head(chain) = "handleNetworkChange" =>
    todo = <<>> \/ (Head(todo) = "handleNetworkChange" /\ Tail(todo) = <<>>)

LossInv == NewsOK /\ RunsOK /\ NoChangeLost

\* An operation at the end of the chain leaves those before it where they are.
LEMMA TellingAppend ==
  ASSUME IInv, NEW op \in Operations \cup {"handleNetworkChange"},
         chain' = Append(chain, op), UNCHANGED <<running, todo>>
  PROVE  /\ Telling => Telling'
         /\ op = "handleNetworkChange" => Telling'
         /\ RunsOK => RunsOK'
<1>1. /\ chain \in Seq(Operations \cup {"handleNetworkChange"})
      /\ running => chain # <<>>
  BY DEF IInv, TypeOK
<1>2. /\ Len(chain) \in Nat
      /\ Len(Append(chain, op)) = Len(chain) + 1
      /\ \A i \in 1..Len(chain) : Append(chain, op)[i] = chain[i]
      /\ Append(chain, op)[Len(chain) + 1] = op
  BY <1>1, AppendProperties, LenProperties
<1>3. chain # <<>> => Len(chain) >= 1
  BY <1>1, <1>2, EmptySeq
<1>4. Telling => Telling'
  <2> SUFFICES ASSUME NEW i \in 1..Len(chain), chain[i] = "handleNetworkChange",
                      i = 1 /\ running => todo # <<>>
               PROVE  Telling'
    BY DEF Telling
  <2>1. i \in 1..Len(chain') /\ chain'[i] = "handleNetworkChange"
    BY <1>2
  <2> QED
    BY <2>1 DEF Telling
<1>5. op = "handleNetworkChange" => Telling'
  <2>1. Len(chain) + 1 \in 1..Len(chain')
    BY <1>2
  <2>2. Len(chain) + 1 = 1 => ~running
    BY <1>1, <1>2, <1>3
  <2> QED
    BY <1>2, <2>1, <2>2 DEF Telling
<1>6. RunsOK => RunsOK'
  <2>1. chain # <<>> => Head(chain') = Head(chain)
    BY <1>1, <1>2, <1>3
  <2> QED
    BY <1>1, <2>1 DEF RunsOK
<1> QED
  BY <1>4, <1>5, <1>6

\* An operation that ends has made its call.
LEMMA TellingEnd ==
  ASSUME IInv, End
  PROVE  Telling => Telling'
<1> SUFFICES ASSUME NEW i \in 1..Len(chain), chain[i] = "handleNetworkChange",
                    i = 1 /\ running => todo # <<>>
             PROVE  Telling'
  BY DEF Telling
<1>1. i # 1 /\ ~running' /\ chain' = Tail(chain)
  BY DEF End
<1>2. chain \in Seq(Operations \cup {"handleNetworkChange"}) /\ Len(chain) \in Nat
  BY LenProperties DEF IInv, TypeOK
<1>3. chain # <<>>
  BY <1>2, EmptySeq
<1>4. /\ Len(Tail(chain)) = Len(chain) - 1
      /\ \A j \in 1..Len(Tail(chain)) : Tail(chain)[j] = chain[j + 1]
  BY <1>2, <1>3, HeadTailProperties
<1>5. i - 1 \in 1..Len(chain') /\ chain'[i - 1] = "handleNetworkChange"
  BY <1>1, <1>2, <1>4
<1> QED
  BY <1>1, <1>5 DEF Telling

\* The running operation, when it is the monitor's, has its call still to make.
LEMMA TellingFirst ==
  ASSUME IInv, Telling,
         UNCHANGED chain,
         Head(chain) = "handleNetworkChange" => todo' # <<>>
  PROVE  Telling'
<1>1. chain \in Seq(Operations \cup {"handleNetworkChange"})
  BY DEF IInv, TypeOK
<1> PICK i \in 1..Len(chain) : chain[i] = "handleNetworkChange"
  BY DEF Telling
<1>2. i = 1 => Head(chain) = "handleNetworkChange"
  BY <1>1
<1> QED
  BY <1>2 DEF Telling

\* An operation begins: if it is the monitor's it has one call to make.
LEMMA LossBegin ==
  ASSUME IInv, LossInv, Begin
  PROVE  LossInv'
<1>1. /\ UNCHANGED <<chain, engine, bound, network, dropped>>
  BY DEF Begin, BeginInitialize, BeginRegisterAccount, BeginShutdown, BeginOther,
         native
<1>2. Head(chain) = "handleNetworkChange" => todo' = <<"handleNetworkChange">>
  BY DEF Begin, BeginInitialize, BeginRegisterAccount, BeginShutdown, BeginOther,
         Begins
<1>3. /\ <<"handleNetworkChange">> # <<>>
      /\ Head(<<"handleNetworkChange">>) = "handleNetworkChange"
      /\ Tail(<<"handleNetworkChange">>) = <<>>
  BY SMT
<1>4. Telling => Telling'
  BY <1>1, <1>2, <1>3, TellingFirst
<1>5. NewsOK' /\ RunsOK'
  BY <1>1, <1>2, <1>3 DEF LossInv, NewsOK, Before, RunsOK, network
<1> QED
  BY <1>1, <1>4, <1>5 DEF LossInv, NoChangeLost, network

\* A call: the monitor's tells the engine, any other leaves the monitor's
\* operation where it is.
LEMMA LossCall ==
  ASSUME IInv, LossInv, Call
  PROVE  LossInv'
<1> USE DEF LossInv
<1>1. /\ UNCHANGED <<chain, running, network>>
      /\ running /\ todo # <<>> /\ todo' \in {Tail(todo), <<>>}
  BY DEF Call, CallInitialize, CallShutdown, CallControl, CallSetting, NoAudioCues,
         CallRegisterAccount, CallHandleNetworkChange, CallThrows, Calls
<1>2. bound' = links \/ (bound' = bound /\ (dropped => dropped'))
  BY DEF Call, CallInitialize, CallShutdown, CallControl, CallSetting, NoAudioCues,
         CallRegisterAccount, CallHandleNetworkChange, CallThrows, native
<1>3. NewsOK' /\ RunsOK'
  BY <1>1, <1>2 DEF NewsOK, Before, RunsOK, network
<1>4. CASE Head(todo) = "handleNetworkChange"
  <2>1. CallHandleNetworkChange \/ CallThrows
    BY <1>4 DEF Call, CallInitialize, CallShutdown, CallControl, CallSetting,
                NoAudioCues, CallRegisterAccount, Calls
  <2>2. bound' = links \/ dropped' \/ ~engine'
    BY <1>4, <2>1 DEF CallHandleNetworkChange, CallThrows, native
  <2> QED
    BY <1>1, <1>3, <2>2 DEF NoChangeLost, network
<1>5. CASE Head(todo) # "handleNetworkChange"
  <2>1. Head(chain) # "handleNetworkChange"
    BY <1>1, <1>5 DEF RunsOK
  <2>2. Telling => Telling'
    BY <1>1, <2>1, TellingFirst
  <2>3. bound' = links \/ (engine' => engine)
    BY DEF Call, CallInitialize, CallShutdown, CallControl, CallSetting, NoAudioCues,
           CallRegisterAccount, CallHandleNetworkChange, CallThrows, native
  <2> QED
    BY <1>1, <1>2, <1>3, <2>2, <2>3 DEF NoChangeLost, network
<1> QED
  BY <1>4, <1>5

\* The link changes: the report of it is the last of all, and no news when the link
\* is one of the same kind.
LEMMA LossLink ==
  ASSUME IInv, LossInv, LinkChanges
  PROVE  LossInv'
<1> DEFINE L == Links \cup {NoLink}
<1>1. news \in Seq(L) /\ link' \in L /\ news' = Append(news, link')
  BY DEF IInv, TypeOK, LinkChanges
<1>2. /\ Len(news) \in Nat
      /\ Len(news') = Len(news) + 1 /\ news' # <<>>
      /\ \A i \in 1..Len(news) : news'[i] = news[i]
      /\ news'[Len(news) + 1] = link'
  BY <1>1, AppendProperties, LenProperties
<1>3. Before' = link
  <2>1. CASE news = <<>>
    <3>1. Len(news) = 0
      BY <1>1, <2>1, EmptySeq
    <3> QED
      BY <1>2, <2>1, <3>1 DEF Before, LossInv, NewsOK, LinkChanges
  <2>2. CASE news # <<>>
    <3>1. Len(news) >= 1
      BY <1>1, <1>2, <2>2, EmptySeq
    <3>2. Before' = news'[Len(news)] /\ news'[Len(news)] = news[Len(news)]
      BY <1>2, <3>1 DEF Before
    <3> QED
      BY <2>2, <3>2 DEF LossInv, NewsOK
  <2> QED
    BY <2>1, <2>2
<1>4. NewsOK'
  BY <1>2, <1>3 DEF NewsOK, LinkChanges
<1> QED
  BY <1>2, <1>4 DEF LossInv, RunsOK, NoChangeLost, LinkChanges, bridge

\* The monitor hears of a change: of the last one it makes a timer, unless the
\* network is down or the change is no news to it.
LEMMA LossReport ==
  ASSUME IInv, LossInv, onChanged
  PROVE  LossInv'
<1> DEFINE L == Links \cup {NoLink}
<1>1. /\ news \in Seq(L) /\ news # <<>>
      /\ news' = Tail(news) /\ seen' = Head(news)
      /\ UNCHANGED <<link, links, chain, todo, running, engine, bound, dropped>>
  BY DEF IInv, TypeOK, onChanged, bridge, native
<1>2. /\ Len(news) \in Nat /\ Len(news) >= 1 /\ Head(news) = news[1]
      /\ Tail(news) \in Seq(L) /\ Len(Tail(news)) = Len(news) - 1
      /\ \A i \in 1..Len(Tail(news)) : Tail(news)[i] = news[i + 1]
  <2>1. Len(news) \in Nat \ {0} /\ Head(news) = news[1]
    BY <1>1, EmptySeq
  <2>2. /\ Tail(news) \in Seq(L) /\ Len(Tail(news)) = Len(news) - 1
        /\ \A i \in 1..Len(Tail(news)) : Tail(news)[i] = news[i + 1]
    BY <1>1, HeadTailProperties
  <2> QED
    BY <2>1, <2>2
<1>3. /\ news[Len(news)] = link
      /\ link = Before => dropped \/ bound = links
  BY <1>1 DEF LossInv, NewsOK
<1>4. CASE Tail(news) = <<>>
  <2>0. Len(Tail(news)) = 0
    BY <1>4, EmptySeq
  <2>1. Len(news) = 1 /\ Head(news) = link
    BY <1>2, <1>3, <2>0
  <2>2. Head(news) = seen => dropped \/ bound = links
    BY <1>3, <2>1 DEF Before
  <2>3. Head(news) # seen => debounce' = (Head(news) # NoLink)
    BY DEF onChanged
  <2>4. NewsOK'
    BY <1>1, <1>4, <2>1 DEF NewsOK
  <2> QED
    BY <1>1, <2>1, <2>2, <2>3, <2>4 DEF LossInv, RunsOK, NoChangeLost
<1>5. CASE Tail(news) # <<>>
  <2>1. Len(Tail(news)) >= 1
    BY <1>2, <1>5, EmptySeq
  <2>2. news'[Len(news')] = link'
    BY <1>1, <1>2, <1>3, <2>1
  <2>3. Before' = Before
    BY <1>1, <1>2, <2>1 DEF Before
  <2>4. NewsOK'
    BY <1>1, <1>3, <1>5, <2>2, <2>3 DEF NewsOK
  <2> QED
    BY <1>1, <1>5, <2>4 DEF LossInv, RunsOK, NoChangeLost
<1> QED
  BY <1>4, <1>5

\* The timer runs out: with the engine on it makes an operation or notes that it
\* did not.
LEMMA LossTimer ==
  ASSUME IInv, LossInv, Debounced
  PROVE  LossInv'
<1>1. NewsOK'
  BY DEF LossInv, NewsOK, Before, Debounced, native
<1>2. CASE state = "started"
  <2>1. chain' = Append(chain, "handleNetworkChange") /\ UNCHANGED <<running, todo>>
    BY <1>2 DEF Debounced
  <2>2. Telling' /\ (RunsOK => RunsOK')
    BY <2>1, TellingAppend
  <2> QED
    BY <1>1, <2>2 DEF LossInv, NoChangeLost
<1>3. CASE state # "started"
  <2>1. RunsOK' /\ (Telling => Telling')
    BY <1>3 DEF LossInv, RunsOK, Telling, Debounced
  <2>2. dropped' \/ ~engine'
    BY <1>3 DEF Debounced, native
  <2> QED
    BY <1>1, <2>1, <2>2 DEF LossInv, NoChangeLost
<1> QED
  BY <1>2, <1>3

\* Every step keeps the changes on their way.
LEMMA LossStep == IInv /\ LossInv /\ [Next]_vars => LossInv'
<1> SUFFICES ASSUME IInv, LossInv, [Next]_vars PROVE LossInv'
  OBVIOUS
<1>1. CASE UNCHANGED vars
  BY <1>1 DEF vars, bridge, native, network, LossInv, NewsOK, Before, RunsOK,
              NoChangeLost, Telling
<1>2. ASSUME NEW op \in Operations, Request(op) PROVE LossInv'
  <2>1. chain' = Append(chain, op) /\ UNCHANGED <<running, todo>>
    BY <1>2 DEF Request
  <2>2. (Telling => Telling') /\ RunsOK'
    BY <2>1, TellingAppend DEF LossInv
  <2> QED
    BY <1>2, <2>2 DEF LossInv, NewsOK, Before, NoChangeLost, Request, native, network
<1>3. CASE End
  <2>1. Telling => Telling'
    BY <1>3, TellingEnd
  <2> QED
    BY <1>3, <2>1 DEF LossInv, NewsOK, Before, RunsOK, NoChangeLost, End, native,
                             network
<1>4. CASE StatusEvent
  BY <1>4 DEF StatusEvent, LossInv, NewsOK, Before, RunsOK, NoChangeLost, Telling,
              network
<1> QED
  BY <1>1, <1>2, <1>3, <1>4, LossBegin, LossCall, LossLink, LossReport, LossTimer
     DEF Next, Operate

\* However changes of the network, the timer and the operations of the bridge
\* interleave, the last change is on its way to a running engine until it was told.
THEOREM ChangesAreNotLost == Spec => []NoChangeLost
<1>1. Init => LossInv
  <2> SUFFICES ASSUME Init PROVE LossInv
    OBVIOUS
  <2>1. Len(news) = 0
    BY EmptySeq DEF Init
  <2> QED
    BY <2>1 DEF Init, LossInv, NewsOK, RunsOK, NoChangeLost
<1>2. LossInv => NoChangeLost
  BY DEF LossInv
<1> QED
  BY <1>1, <1>2, LossStep, InitIInv, StepIInv, PTL DEF Spec
=============================================================================

------------------------------- MODULE Bridge -------------------------------
(***************************************************************************)
(* PjsipNativeBridge (lib/pjsip_native_bridge.dart) with the life cycle of *)
(* PjsipService behind it and PjsipNetworkMonitor                          *)
(* (lib/pjsip_network_monitor.dart) on top of it.  Operations wait in one  *)
(* chain; an operation makes native calls one after the other, and the     *)
(* answer of each, as well as each status event, overwrites _currentState, *)
(* which the next operation and the network monitor decide upon.           *)
(*                                                                         *)
(* A native call runs on the platform thread and its answer leaves before  *)
(* the events the call has emitted: those wait in the event channel (see   *)
(* EventChannel) until that thread is back in its loop.  So a call and its *)
(* answer are one step here, and its events come later, in order.          *)
(***************************************************************************)
EXTENDS Naturals, Sequences

CONSTANTS
  Links,         \* network connections
  NoLink,        \* ConnectivityResult.none
  MaxRequests,   \* bound on the user's requests
  MaxLinks       \* bound on the changes of the network

ASSUME BridgeAssumption ==
  /\ NoLink \notin Links
  /\ MaxRequests \in Nat /\ MaxLinks \in Nat

VARIABLES
  engine,     \* initialized_
  bound,      \* the change of the network the engine was last told of, or began with
  events,     \* status events on their way to Dart
  chain,      \* the operations behind _operationTail, the first one running
  todo,       \* native calls the running operation has still to make
  running,    \* the first operation has begun
  state,      \* _currentState
  requests,   \* requests so far
  misled,     \* history: what was last published of the engine was not true
  link, news, seen, debounce,   \* the network, see below
  links,      \* changes of the network so far
  dropped     \* history: a change was dropped on its way and the engine has not
              \* been told of a later one

bridge == <<chain, todo, running, state, misled>>
native == <<engine, bound, events>>
network == <<link, news, seen, debounce, links>>
vars == <<bridge, native, requests, network, dropped>>

States == {"idle", "initializing", "started", "stopping", "error"}
\* "setting" is status and setAutoHoldOnIncoming; getAudioDeviceState, which
\* publishes nothing here, is left out of the calls that follow initialize.
Operations ==
  {"initialize", "registerAccount", "setting", "callControl", "shutdown"}
Sync == <<"setting", "configureAudioCues">>
Methods ==
  Operations \cup {"configureAudioCues", "handleNetworkChange"}

TypeOK ==
  /\ engine \in BOOLEAN
  /\ bound \in 0..MaxLinks
  /\ events \in Seq(States)
  /\ chain \in Seq(Operations \cup {"handleNetworkChange"})
  /\ todo \in Seq(Methods)
  /\ running \in BOOLEAN /\ (running => chain # <<>>)
  /\ state \in States
  /\ misled \in BOOLEAN /\ dropped \in BOOLEAN /\ debounce \in BOOLEAN
  /\ link \in Links \cup {NoLink} /\ seen \in Links \cup {NoLink}
  /\ news \in Seq(Links \cup {NoLink})
  /\ requests \in 0..MaxRequests /\ links \in 0..MaxLinks

Init ==
  /\ engine = FALSE /\ bound = 0 /\ events = <<>>
  /\ chain = <<>> /\ todo = <<>> /\ running = FALSE
  /\ state = "idle"
  /\ requests = 0
  /\ misled = FALSE /\ dropped = FALSE
  /\ link \in Links /\ seen = link
  /\ news = <<>> /\ debounce = FALSE /\ links = 0

-----------------------------------------------------------------------------
(* The chain of operations.                                                *)

\* _enqueue, for a button or the start of the application; the call panel offers
\* call controls only for calls it shows.
Request(op) ==
  /\ requests < MaxRequests
  /\ op = "callControl" => engine
  /\ requests' = requests + 1
  /\ chain' = Append(chain, op)
  /\ UNCHANGED <<todo, running, state, misled, native, network, dropped>>

Begins(op) == chain # <<>> /\ Head(chain) = op /\ ~running

BeginInitialize ==
  /\ Begins("initialize")
  /\ running' = TRUE
  /\ \/ /\ state = "started"
        /\ todo' = Sync
        /\ UNCHANGED state
     \/ /\ state # "started"
        /\ todo' = <<"initialize">> \o Sync
        /\ state' = "initializing"
  /\ UNCHANGED <<chain, misled, native, requests, network, dropped>>

BeginRegisterAccount ==
  /\ Begins("registerAccount")
  /\ running' = TRUE
  /\ todo' = IF state = "started" THEN <<"registerAccount">>
             ELSE <<"initialize">> \o Sync \o <<"registerAccount">>
  /\ UNCHANGED <<chain, state, misled, native, requests, network, dropped>>

BeginShutdown ==
  /\ Begins("shutdown")
  /\ running' = TRUE
  /\ \/ /\ state = "idle"
        /\ todo' = <<>>
        /\ UNCHANGED state
     \/ /\ state # "idle"
        /\ todo' = <<"shutdown">>
        /\ state' = "stopping"
  /\ UNCHANGED <<chain, misled, native, requests, network, dropped>>

BeginOther ==
  /\ \E op \in {"setting", "callControl", "handleNetworkChange"} :
       Begins(op) /\ todo' = <<op>>
  /\ running' = TRUE
  /\ UNCHANGED <<chain, state, misled, native, requests, network, dropped>>

\* The operation returns or throws, which it also does when the setting that the
\* engine has taken cannot be saved: the next one begins all the same.
End ==
  /\ running /\ todo = <<>>
  /\ running' = FALSE
  /\ chain' = Tail(chain)
  /\ UNCHANGED <<todo, state, misled, native, requests, network,
                 dropped>>

-----------------------------------------------------------------------------
(* Native calls.                                                           *)

Calls(m) == running /\ todo # <<>> /\ Head(todo) = m

\* _invoke publishes the state of the answer, given by an engine that is on or off.
Answers(s, on) ==
  /\ state' = s
  /\ misled' = ((s = "started") # on)

\* _invoke throws, for the platform has no handler or answers with an error: it
\* publishes an error, whether the engine runs or not, and the operation makes no
\* further call.  Only _syncAudioCuePaths goes on.
CallThrows ==
  /\ running /\ todo # <<>>
  /\ todo' = IF Head(todo) = "configureAudioCues" THEN Tail(todo) ELSE <<>>
  /\ Answers("error", engine)
  /\ dropped' = (dropped \/ (engine /\ Head(todo) = "handleNetworkChange"))
  /\ UNCHANGED <<chain, running, native, requests, network>>

\* PjsipService::Initialize; Fail leaves the engine stopped, and the operation
\* makes no further call.
CallInitialize ==
  /\ Calls("initialize")
  /\ \/ /\ engine
        /\ Answers("started", TRUE) /\ todo' = Tail(todo)
        /\ UNCHANGED <<native, dropped>>
     \/ /\ ~engine
        /\ engine' = TRUE
        /\ bound' = links /\ dropped' = FALSE
        /\ events' = events \o <<"initializing", "started">>
        /\ Answers("started", TRUE) /\ todo' = Tail(todo)
     \/ /\ ~engine
        /\ events' = events \o <<"initializing", "error">>
        /\ UNCHANGED <<engine, bound, dropped>>
        /\ Answers("error", FALSE) /\ todo' = <<>>
  /\ UNCHANGED <<chain, running, requests, network>>

CallShutdown ==
  /\ Calls("shutdown")
  /\ todo' = Tail(todo)
  /\ engine' = FALSE
  /\ events' = IF engine THEN events \o <<"stopping", "idle">> ELSE events
  /\ Answers("idle", FALSE)
  /\ UNCHANGED <<bound, chain, running, requests, network, dropped>>

\* MakeCall, AnswerCall, HangupCall, TransferCall, SendDtmf ... answer "started"
\* whether the engine runs or not.
CallControl ==
  /\ Calls("callControl")
  /\ todo' = Tail(todo)
  /\ UNCHANGED native
  /\ Answers("started", engine)
  /\ UNCHANGED <<chain, running, requests, network, dropped>>

\* GetStatus, SetAutoHoldOnIncoming, ConfigureAudioCues.
CallSetting ==
  /\ \E m \in {"setting", "configureAudioCues"} : Calls(m)
  /\ todo' = Tail(todo)
  /\ UNCHANGED native
  /\ Answers(IF engine THEN "started" ELSE "idle", engine)
  /\ UNCHANGED <<chain, running, requests, network, dropped>>

\* _syncAudioCuePaths makes no call when the sounds cannot be unpacked.
NoAudioCues ==
  /\ Calls("configureAudioCues")
  /\ todo' = Tail(todo)
  /\ UNCHANGED <<chain, running, state, misled, native, requests, network, dropped>>

CallRegisterAccount ==
  /\ Calls("registerAccount")
  /\ todo' = Tail(todo)
  /\ UNCHANGED native
  /\ Answers(IF engine THEN "started" ELSE "error", engine)
  /\ UNCHANGED <<chain, running, requests, network, dropped>>

\* HandleNetworkChange; pjsua_handle_ip_change may fail.
CallHandleNetworkChange ==
  /\ Calls("handleNetworkChange")
  /\ todo' = Tail(todo)
  /\ \/ /\ engine
        /\ bound' = links /\ dropped' = FALSE
        /\ events' = Append(events, "started")
     \/ /\ engine
        /\ dropped' = TRUE
        /\ UNCHANGED <<bound, events>>
     \/ /\ ~engine
        /\ UNCHANGED <<bound, events, dropped>>
  /\ UNCHANGED engine
  /\ Answers(IF engine THEN "started" ELSE "idle", engine)
  /\ UNCHANGED <<chain, running, requests, network>>

\* Variant: the newest event is delivered first.
NewestStatusEvent ==
  /\ events # <<>>
  /\ state' = events[Len(events)]
  /\ events' = SubSeq(events, 1, Len(events) - 1)
  /\ UNCHANGED <<chain, todo, running, misled, engine, bound, requests,
                 network, dropped>>

\* _handleNativeCall with a status event.
StatusEvent ==
  /\ events # <<>>
  /\ state' = Head(events)
  /\ events' = Tail(events)
  /\ UNCHANGED <<chain, todo, running, misled, engine, bound, requests,
                 network, dropped>>

-----------------------------------------------------------------------------
(* The network monitor: the system's link, the changes it has still to     *)
(* report, _lastResults, and the timer _debounce.                          *)

\* A change between two networks of one kind is reported as what the monitor has
\* seen already.
LinkChanges ==
  /\ links < MaxLinks /\ links' = links + 1
  /\ link' \in Links \cup {NoLink} /\ (link = NoLink => link' # NoLink)
  /\ news' = Append(news, link')
  /\ dropped' = (dropped \/ link' = link)
  /\ UNCHANGED <<seen, debounce, bridge, native, requests>>

\* Variant: a link that is back is taken for no change.
ChangedIgnoresReturn ==
  /\ news # <<>>
  /\ news' = Tail(news)
  /\ seen' = IF Head(news) = NoLink THEN seen ELSE Head(news)
  /\ debounce' = IF Head(news) = seen THEN debounce ELSE Head(news) # NoLink
  /\ UNCHANGED <<link, links, bridge, native, requests, dropped>>

onChanged ==
  /\ news # <<>>
  /\ news' = Tail(news)
  /\ seen' = Head(news)
  /\ debounce' = IF Head(news) = seen THEN debounce ELSE Head(news) # NoLink
  /\ UNCHANGED <<link, links, bridge, native, requests, dropped>>

\* Variant: the engine is told only when no operation waits.
DebouncedIfQuiet ==
  /\ debounce
  /\ debounce' = FALSE
  /\ chain' = IF state = "started" /\ chain = <<>>
              THEN Append(chain, "handleNetworkChange") ELSE chain
  /\ dropped' = (dropped \/ (state # "started" /\ engine))
  /\ UNCHANGED <<link, news, seen, links, todo, running, state, misled,
                 native, requests>>

\* The timer runs out: nothing is done, and nothing is kept for later, when
\* _currentState is not "started".
Debounced ==
  /\ debounce
  /\ debounce' = FALSE
  /\ chain' = IF state = "started" THEN Append(chain, "handleNetworkChange")
              ELSE chain
  /\ dropped' = (dropped \/ (state # "started" /\ engine))
  /\ UNCHANGED <<link, news, seen, links, todo, running, state, misled,
                 native, requests>>

-----------------------------------------------------------------------------

Begin ==
  BeginInitialize \/ BeginRegisterAccount \/ BeginShutdown \/ BeginOther

Call ==
  \/ CallInitialize \/ CallShutdown \/ CallControl \/ CallSetting
  \/ NoAudioCues \/ CallRegisterAccount \/ CallHandleNetworkChange
  \/ CallThrows

Operate == Begin \/ Call \/ End

Next ==
  \/ \E op \in Operations : Request(op)
  \/ Operate \/ StatusEvent
  \/ LinkChanges \/ onChanged \/ Debounced

\* The event loop of Dart and the platform thread are fair to each other; the
\* user asks for nothing and the network does not change unless they like to.
Fairness ==
  /\ WF_vars(Operate) /\ WF_vars(StatusEvent)
  /\ WF_vars(onChanged) /\ WF_vars(Debounced)

Spec == Init /\ [][Next]_vars /\ Fairness

-----------------------------------------------------------------------------
(* Properties.                                                             *)

Quiet == chain = <<>> /\ events = <<>>

\* With nothing on its way _currentState tells whether the engine runs, in
\* spite of events that arrive after the answers that are newer than they are;
\* what can mislead it is a call control on a stopped engine, and a call to a
\* running one that throws.
StateAgrees == Quiet /\ ~misled => (state = "started" <=> engine)

\* What is decided on _currentState without asking the native side is right:
\* "already initialized", "already stopped" and an account that is registered
\* without initialize.  Wrong are at most decisions made while status events are
\* still on their way, and those that take a stopped engine for a running one
\* after a call control on it.
AlreadyStep ==
  events = <<>> =>
    /\ BeginInitialize /\ todo' = Sync => engine \/ misled
    /\ BeginRegisterAccount /\ Head(todo') = "registerAccount" => engine \/ misled
    /\ BeginShutdown /\ todo' = <<>> => ~engine
AlreadyIsTrue == [][AlreadyStep]_vars

\* An operation of the monitor still has to call the engine.
Telling ==
  \E i \in 1..Len(chain) :
    chain[i] = "handleNetworkChange" /\ (i = 1 /\ running => todo # <<>>)

\* While the engine runs and the network is up, a change that the engine was not
\* told of is on its way to it: no report, no restart of the timer and no operation
\* before it, thrown out of or not, swallows the last one (_onChanged, _debounce).
\* Dropped are a change between two networks of one kind, one whose timer met a
\* state that is not "started", and one whose call the engine refused or never got.
NoChangeLost ==
  engine /\ link # NoLink /\ bound # links /\ ~dropped =>
    news # <<>> \/ debounce \/ Telling

\* When the network is up again the engine is told of its last change, unless that
\* one was dropped.
Recovers == <>[](engine /\ link # NoLink => bound = links \/ dropped)
=============================================================================

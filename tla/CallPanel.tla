----------------------------- MODULE CallPanel -----------------------------
(***************************************************************************)
(* The cards of the call panel (lib/pjsip_call_panel.dart), drawn from     *)
(* _calls of pjsip_native_bridge.dart, which call events keep up to date.  *)
(* EmitCall of pjsip_service.cpp reads the call and then emits what it has *)
(* read.  The engine's callbacks do both under the lock of the dialog, so  *)
(* that a change and its event are one step here, but the slot of a call   *)
(* that is over is freed in another.  MakeCall reads and emits on the      *)
(* platform thread, under no lock that the dialog knows: two steps.        *)
(* CallService has the calls themselves in detail.                         *)
(***************************************************************************)
EXTENDS Naturals, Sequences

CONSTANTS
  MaxSlots,    \* ua_config.max_calls, 4 in the code
  MaxCalls,    \* bound on the calls
  MaxEvents,   \* bound on the events on their way
  MaxStarts    \* bound on the starts of the engine

ASSUME PanelAssumption ==
  /\ MaxSlots \in Nat \ {0}
  /\ MaxCalls \in Nat /\ MaxEvents \in Nat /\ MaxStarts \in Nat

VARIABLES
  engine,     \* initialized_
  call,       \* what each slot of the engine does
  number,     \* the number of the call that has, or last had, the slot
  calls,      \* calls so far
  ui,         \* the platform thread: a step of MakeCall or Shutdown, and its slot
  read,       \* what EmitCall of MakeCall has read
  events,     \* call events on their way to Dart
  cards,      \* _calls
  since,      \* connectedAt: the call that was connected then, 0 for none
  muted,      \* microphoneMuted
  silent,     \* the microphone's level in the conference bridge is 0
  overtaken,  \* history: slots whose last event was older than the one before
  wiped,      \* history: those of them where it told a live call's end
  starts

native == <<engine, call, number, calls, silent, starts>>
panel == <<cards, since, muted>>
histories == <<overtaken, wiped>>
vars == <<native, ui, read, events, panel, histories>>

Slots == 0..(MaxSlots - 1)
\* "ending": hung up here, the slot is kept until the peer agrees; "over": ended by
\* the peer, the slot is kept until the callback has returned.
States == {"calling", "early", "incoming", "confirmed"}
Event == [slot : Slots, number : 0..MaxCalls, state : States \cup {"disconnected"}]
NoEvent == [slot |-> 0, number |-> 0, state |-> "disconnected"]
NoCard == NoEvent

Live(s) == call[s] \in States

TypeOK ==
  /\ engine \in BOOLEAN /\ muted \in BOOLEAN /\ silent \in BOOLEAN
  /\ call \in [Slots -> States \cup {"free", "ending", "over"}]
  /\ number \in [Slots -> 0..MaxCalls] /\ calls \in 0..MaxCalls
  /\ ui \in {"idle", "made", "read", "shutdown"} \X Slots
  /\ read \in Event
  /\ events \in Seq(Event)
  /\ cards \in [Slots -> Event]
  /\ since \in [Slots -> 0..MaxCalls]
  /\ overtaken \subseteq Slots /\ wiped \subseteq Slots
  /\ starts \in 0..MaxStarts

Idle == <<"idle", 0>>

Init ==
  /\ engine = FALSE /\ starts = 0
  /\ call = [s \in Slots |-> "free"]
  /\ number = [s \in Slots |-> 0] /\ calls = 0
  /\ ui = Idle /\ read = NoEvent /\ events = <<>>
  /\ cards = [s \in Slots |-> NoCard]
  /\ since = [s \in Slots |-> 0]
  /\ muted = FALSE /\ silent = FALSE
  /\ overtaken = {} /\ wiped = {}

\* What pjsua_call_get_info says of a call in state st.
Info(s, st) ==
  [slot |-> s, number |-> number[s],
   state |-> IF st \in {"ending", "over"} THEN "disconnected" ELSE st]

Room == Len(events) < MaxEvents

\* A change of a call and the event of its callback; an event that says that the
\* call is over puts the panel right again.
Changes(s, st) ==
  /\ Room
  /\ call' = [call EXCEPT ![s] = st]
  /\ events' = Append(events, Info(s, st))
  /\ overtaken' = IF st \in {"over", "ending"} THEN overtaken \ {s} ELSE overtaken
  /\ wiped' = wiped \ {s}

\* What event e says of its slot is so.
Right(e) ==
  IF Live(e.slot) THEN e = Info(e.slot, call[e.slot]) ELSE e.state = "disconnected"

-----------------------------------------------------------------------------
(* Method calls, on the platform thread.                                   *)

\* Initialize: the new conference bridge has its levels at normal.
Initialize ==
  /\ ui = Idle /\ ~engine /\ starts < MaxStarts
  /\ engine' = TRUE /\ silent' = FALSE
  /\ starts' = starts + 1
  /\ UNCHANGED <<call, number, calls, ui, read, events, panel, histories>>

\* A free slot becomes a call, and the engine's callback tells of it.
Begins(s, st) ==
  /\ call[s] = "free" /\ calls < MaxCalls /\ Room
  /\ call' = [call EXCEPT ![s] = st]
  /\ calls' = calls + 1
  /\ number' = [number EXCEPT ![s] = calls']
  /\ events' = Append(events, [slot |-> s, number |-> calls', state |-> st])
  /\ wiped' = wiped \ {s}

MakeCall ==
  /\ ui = Idle /\ engine
  /\ \E s \in Slots : Begins(s, "calling") /\ ui' = <<"made", s>>
  /\ UNCHANGED <<engine, silent, starts, read, panel, overtaken>>

\* pjsua_call_get_info of EmitCall, under PJSUA_LOCK alone; it fails when the slot
\* is free.
MakeCallRead ==
  /\ ui[1] = "made"
  /\ LET s == ui[2] IN
       IF call[s] = "free" THEN ui' = Idle /\ UNCHANGED read
       ELSE ui' = <<"read", s>> /\ read' = Info(s, call[s])
  /\ UNCHANGED <<native, events, panel, histories>>

MakeCallEmit ==
  /\ ui[1] = "read" /\ Room
  /\ events' = Append(events, read)
  /\ LET s == read.slot IN
       /\ overtaken' = IF Right(read) THEN overtaken ELSE overtaken \cup {s}
       /\ wiped' = IF Live(s) /\ read.state = "disconnected" THEN wiped \cup {s}
                   ELSE wiped \ {s}
  /\ ui' = Idle /\ read' = NoEvent
  /\ UNCHANGED <<native, panel>>

\* HangupCall for a card: pjsua_call_hangup ends the call for us at once.  "Call
\* is already disconnected" is a success that emits nothing.
HangupCall(s) ==
  /\ ui = Idle
  /\ cards[s] # NoCard /\ Live(s)
  /\ Changes(s, "ending")
  /\ UNCHANGED <<engine, number, calls, silent, starts, ui, read, panel>>

Shutdown ==
  /\ ui = Idle /\ engine
  /\ ui' = <<"shutdown", 0>>
  /\ UNCHANGED <<native, read, events, panel, histories>>

\* pjsua_call_hangup_all
ShutdownHangup(s) ==
  /\ ui[1] = "shutdown" /\ Live(s)
  /\ Changes(s, "ending")
  /\ UNCHANGED <<engine, number, calls, silent, starts, ui, read, panel>>

ShutdownDone ==
  /\ ui[1] = "shutdown"
  /\ \A s \in Slots : ~Live(s)
  /\ engine' = FALSE
  /\ call' = [s \in Slots |-> "free"]
  /\ ui' = Idle
  /\ UNCHANGED <<number, calls, silent, starts, read, events, panel, histories>>

\* SetMicrophoneMuted refuses on a stopped engine; the panel, which offers the
\* button on the card of a connected call, does not look at the result.
SetMicrophoneMuted ==
  /\ ui = Idle
  /\ \E s \in Slots : cards[s].state = "confirmed"
  /\ muted' = ~muted
  /\ silent' = IF engine THEN muted' ELSE silent
  /\ UNCHANGED <<engine, call, number, calls, starts, ui, read, events, cards,
                 since, histories>>

-----------------------------------------------------------------------------
(* The engine's worker.                                                    *)

Progresses(from) ==
  CASE from = "calling" -> {"early", "confirmed"}
    [] from \in {"early", "incoming"} -> {"confirmed"}
    [] OTHER -> {}

IncomingCall ==
  /\ engine /\ ui[1] # "shutdown"
  /\ \E s \in Slots : Begins(s, "incoming")
  /\ UNCHANGED <<engine, silent, starts, ui, read, panel, overtaken>>

\* Provisional and final answers, ours included.
Progress(s) ==
  /\ \E st \in Progresses(call[s]) : Changes(s, st)
  /\ UNCHANGED <<engine, number, calls, silent, starts, ui, read, panel>>

\* The peer ends the call, or we reject it.
Disconnect(s) ==
  /\ Live(s)
  /\ Changes(s, "over")
  /\ UNCHANGED <<engine, number, calls, silent, starts, ui, read, panel>>

\* The slot is freed: the peer agrees to a call being over, for which there is no
\* callback, or the callback of Disconnect has returned.
Release(s) ==
  /\ call[s] \in {"ending", "over"}
  /\ call' = [call EXCEPT ![s] = "free"]
  /\ UNCHANGED <<engine, number, calls, silent, starts, ui, read, events, panel,
                 histories>>

-----------------------------------------------------------------------------
(* Dart.                                                                   *)

\* Variant: the newest event is handled first.
HandleCallNewest ==
  /\ events # <<>>
  /\ LET e == events[Len(events)] IN
       /\ cards' = [cards EXCEPT ![e.slot] =
                      IF e.state = "disconnected" THEN NoCard ELSE e]
       /\ since' = [since EXCEPT ![e.slot] =
                      IF e.state = "disconnected" THEN 0
                      ELSE IF e.state = "confirmed" /\ @ = 0 THEN e.number
                      ELSE @]
  /\ events' = SubSeq(events, 1, Len(events) - 1)
  /\ UNCHANGED <<native, ui, read, muted, histories>>

\* Variant: the time is left alone when a call ends.
HandleCallKeepsTime ==
  /\ events # <<>>
  /\ LET e == Head(events) IN
       /\ cards' = [cards EXCEPT ![e.slot] =
                      IF e.state = "disconnected" THEN NoCard ELSE e]
       /\ since' = [since EXCEPT ![e.slot] =
                      IF e.state = "confirmed" /\ @ = 0 THEN e.number ELSE @]
  /\ events' = Tail(events)
  /\ UNCHANGED <<native, ui, read, muted, histories>>

\* _handleNativeCall with a call event, and the listener of the panel.
HandleCall ==
  /\ events # <<>>
  /\ LET e == Head(events) IN
       /\ cards' = [cards EXCEPT ![e.slot] =
                      IF e.state = "disconnected" THEN NoCard ELSE e]
       /\ since' = [since EXCEPT ![e.slot] =
                      IF e.state = "disconnected" THEN 0
                      ELSE IF e.state = "confirmed" /\ @ = 0 THEN e.number
                      ELSE @]
  /\ events' = Tail(events)
  /\ UNCHANGED <<native, ui, read, muted, histories>>

Next ==
  \/ Initialize \/ MakeCall \/ MakeCallRead \/ MakeCallEmit
  \/ Shutdown \/ ShutdownDone \/ SetMicrophoneMuted
  \/ IncomingCall
  \/ \E s \in Slots :
       HangupCall(s) \/ ShutdownHangup(s) \/ Progress(s) \/ Disconnect(s)
         \/ Release(s)
  \/ HandleCall

Spec == Init /\ [][Next]_vars

-----------------------------------------------------------------------------
(* Properties.                                                             *)

Quiet == ui = Idle /\ events = <<>>

\* Every live call has a card on which it can be ended, whatever calls its slot had
\* before.  The exception is the call whose slot MakeCall has just announced as
\* disconnected, of the call it had made there, and no event has come since.
EveryCallHasCard ==
  Quiet => \A s \in Slots : Live(s) => cards[s] # NoCard \/ s \in wiped

\* With nothing on its way the cards say what the calls do, and no card counts
\* the time of a call before its own, except where the event of MakeCall was
\* overtaken by the callbacks of its call.
CardsAgree ==
  Quiet => \A s \in Slots \ overtaken :
    /\ IF Live(s) THEN cards[s] = Info(s, call[s]) ELSE cards[s] = NoCard
    /\ since[s] # 0 => Live(s) /\ since[s] = number[s]
=============================================================================

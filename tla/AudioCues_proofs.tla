-------------------------- MODULE AudioCues_proofs --------------------------
(***************************************************************************)
(* Theorems about AudioCues for every set of calls and of player slots:    *)
(* type correctness, with it that the engine never runs out of players;    *)
(* that at most one cue is left playing; that the hang-up tone plays once, *)
(* for a call that was connected; that the other tones have a call that    *)
(* asks for them; which players outlive their engine and that no cue takes *)
(* another one's; and that the threads block each other only in one cycle  *)
(* of the two locks.                                                       *)
(***************************************************************************)
EXTENDS AudioCues, SipEngine_proofs, FiniteSetTheorems, WellFoundedInduction

Players == [id : [Cues -> PlayerIds \cup {NoPlayer}], live : SUBSET PlayerIds]

\* Every player the engine has is one the service keeps.
PlayersOK(p) ==
  /\ p \in Players
  /\ p.live \subseteq {p.id[k] : k \in Cues}

\* At most one cue has a player.
One(p) ==
  \A j, k \in Cues : p.id[j] # NoPlayer /\ p.id[k] # NoPlayer => j = k

\* A state callback, and one that saw the end of a call, is about a call.
FrameKnown(f) ==
  f.pc = "handle" \/ f.state = "disconnected" => f.call \in CallIds

\* Only a thread that has a refresh ahead of it leaves two cues playing.
RefreshDue ==
  \/ One(cues)
  \/ \E t \in Threads : cb[t].pc \in {"enum", "scan", "apply"}

IInv ==
  /\ TypeOK
  /\ \A t \in Threads : FrameKnown(cb[t])
  /\ PlayersOK(cues)
  /\ RefreshDue

-----------------------------------------------------------------------------
(* Players.                                                                *)

\* A set of numbers that is not empty has a least one.
LEMMA LeastPlayer ==
  ASSUME NEW S \in SUBSET Nat, S # {}
  PROVE  \E n \in S : \A m \in S : n <= m
<1>1. PICK n \in S : \A m \in S : ~ (<<m, n>> \in OpToRel(<, Nat))
  BY WFMin, NatLessThanWellFounded
<1>2. \A m \in S : ~ (m < n)
  BY <1>1 DEF OpToRel
<1> QED
  BY <1>2

\* While a cue has no player the engine has a free slot.
LEMMA FreePlayer ==
  ASSUME NEW p, PlayersOK(p), NEW k \in Cues, p.id[k] = NoPlayer
  PROVE  PlayerIds \ p.live # {}
<1>1. PICK x, y : p.live \subseteq {x, y}
  BY PlayersAssumption DEF PlayersOK, Players, Cues
<1>2. /\ IsFiniteSet({x, y})
      /\ Cardinality({x, y}) <= 2
  <2>1. IsFiniteSet({x}) /\ Cardinality({x}) = 1
    BY FS_Singleton
  <2>2. {x, y} = {x} \cup {y}
    OBVIOUS
  <2> QED
    BY <2>1, <2>2, FS_AddElement
<1>3. SUFFICES ASSUME PlayerIds \subseteq {x, y}
               PROVE  FALSE
  BY <1>1
<1>4. Cardinality(PlayerIds) <= Cardinality({x, y})
  BY <1>2, <1>3, FS_Subset
<1> QED
  BY <1>2, <1>4, PlayersAssumption, FS_CardinalityType

\* Stopping a cue leaves it without a player and the others alone.
LEMMA StopCue ==
  ASSUME NEW p, PlayersOK(p), NEW k \in Cues
  PROVE  /\ PlayersOK(Stop(p, k))
         /\ Stop(p, k).id[k] = NoPlayer
         /\ \A j \in Cues : j # k => Stop(p, k).id[j] = p.id[j]
<1> DEFINE q == Stop(p, k)
<1>1. q \in Players
  BY DEF Stop, PlayersOK, Players
<1>2. /\ q.id[k] = NoPlayer
      /\ \A j \in Cues : j # k => q.id[j] = p.id[j]
      /\ q.live = p.live \ {p.id[k]}
  BY DEF Stop, PlayersOK, Players
<1> HIDE DEF q
<1>3. q.live \subseteq {q.id[j] : j \in Cues}
  BY <1>2 DEF PlayersOK
<1>4. PlayersOK(q)
  BY <1>1, <1>3 DEF PlayersOK
<1> QED
  BY <1>2, <1>4 DEF q

\* Starting a cue leaves the others alone, whether or not it succeeds.
LEMMA StartCue ==
  ASSUME NEW p, PlayersOK(p), NEW k \in Cues, NEW q \in Start(p, k)
  PROVE  /\ PlayersOK(q)
         /\ \A j \in Cues : j # k => q.id[j] = p.id[j]
<1>1. CASE q = p
  BY <1>1
<1>2. CASE q # p
  <2> DEFINE F == PlayerIds \ p.live
             first == CHOOSE n \in F : \A m \in F : n <= m
  <2>1. /\ p.id[k] = NoPlayer
        /\ q = [id |-> [p.id EXCEPT ![k] = first],
                live |-> p.live \cup {first}]
    BY <1>2 DEF Start
  <2>2. F # {} /\ F \in SUBSET Nat
    BY <2>1, FreePlayer, PlayersAssumption
  <2>3. first \in PlayerIds
    BY <2>2, LeastPlayer
  <2> HIDE DEF first
  <2>4. /\ q \in Players
        /\ q.id[k] = first
        /\ \A j \in Cues \ {k} : q.id[j] = p.id[j]
        /\ q.live = p.live \cup {first}
    BY <2>1, <2>3 DEF PlayersOK, Players
  <2>5. q.live \subseteq {q.id[j] : j \in Cues}
    BY <2>1, <2>4, PlayersAssumption DEF PlayersOK, Players
  <2> QED
    BY <2>4, <2>5 DEF PlayersOK
<1> QED
  BY <1>1, <1>2

\* A refresh leaves at most one cue playing.
LEMMA RefreshCues ==
  ASSUME PlayersOK(cues), NEW incoming \in BOOLEAN, NEW ringback \in BOOLEAN,
         NEW q \in Refreshed(incoming, ringback)
  PROVE  PlayersOK(q) /\ One(q)
<1> DEFINE silent == Stop(cues, "ringtone")
<1>0. /\ "ringtone" \in Cues /\ "ringback" \in Cues /\ "hangup" \in Cues
      /\ \A k \in Cues : k \in {"ringtone", "ringback", "hangup"}
  BY DEF Cues
<1>1. CASE incoming
  <2> DEFINE p1 == Stop(cues, "ringback")
             p2 == Stop(p1, "hangup")
  <2>1. PlayersOK(p1) /\ p1.id["ringback"] = NoPlayer
    BY <1>0, StopCue
  <2> HIDE DEF p1
  <2>2. /\ PlayersOK(p2) /\ p2.id["hangup"] = NoPlayer
        /\ p2.id["ringback"] = NoPlayer
    BY <1>0, <2>1, StopCue, Zenon
  <2>3. q \in Start(p2, "ringtone")
    BY <1>1 DEF Refreshed, p1
  <2> HIDE DEF p2
  <2>4. /\ PlayersOK(q)
        /\ q.id["hangup"] = NoPlayer /\ q.id["ringback"] = NoPlayer
    BY <1>0, <2>2, <2>3, StartCue
  <2> QED
    BY <1>0, <2>4 DEF One
<1>2. PlayersOK(silent) /\ silent.id["ringtone"] = NoPlayer
  BY <1>0, StopCue
<1>3. CASE ~incoming /\ ringback
  <2> DEFINE p1 == Stop(silent, "hangup")
  <2>1. q \in Start(p1, "ringback")
    BY <1>3 DEF Refreshed
  <2> HIDE DEF silent
  <2>2. /\ PlayersOK(p1) /\ p1.id["hangup"] = NoPlayer
        /\ p1.id["ringtone"] = NoPlayer
    BY <1>0, <1>2, StopCue, Zenon
  <2> HIDE DEF p1
  <2>3. /\ PlayersOK(q)
        /\ q.id["hangup"] = NoPlayer /\ q.id["ringtone"] = NoPlayer
    BY <1>0, <2>1, <2>2, StartCue
  <2> QED
    BY <1>0, <2>3 DEF One
<1>4. CASE ~incoming /\ ~ringback
  <2>1. q = Stop(silent, "ringback")
    BY <1>4 DEF Refreshed
  <2> HIDE DEF silent
  <2>2. /\ PlayersOK(q) /\ q.id["ringback"] = NoPlayer
        /\ q.id["ringtone"] = NoPlayer
    BY <1>0, <1>2, <2>1, StopCue, Zenon
  <2> QED
    BY <1>0, <2>2 DEF One
<1> QED
  BY <1>1, <1>3, <1>4

-----------------------------------------------------------------------------
(* Frames.                                                                 *)

\* A frame stays one as its refresh goes on.
LEMMA FrameFields ==
  ASSUME NEW f \in Frame
  PROVE  /\ \A p \in {"none", "handle", "play", "enum", "scan", "apply"} :
              [f EXCEPT !.pc = p] \in Frame
         /\ \A b \in BOOLEAN : /\ [f EXCEPT !.late = b] \in Frame
                               /\ [f EXCEPT !.incoming = b] \in Frame
                               /\ [f EXCEPT !.ringback = b] \in Frame
         /\ \A S \in SUBSET CallIds : [f EXCEPT !.todo = S] \in Frame
  BY DEF Frame

\* Frames start well-formed.
LEMMA FrameBegins ==
  /\ NoFrame \in Frame
  /\ \A c \in CallIds, s \in InvStates, again \in BOOLEAN :
       [NoFrame EXCEPT !.pc = "handle", !.call = c, !.state = s, !.again = again]
         \in Frame
  /\ \A c \in CallIds \cup {NoCall}, locked \in BOOLEAN :
       [NoFrame EXCEPT !.pc = "enum", !.call = c, !.locked = locked] \in Frame
  /\ \A c \in CallIds \cup {NoCall} :
       [NoFrame EXCEPT !.pc = "enum", !.call = c] \in Frame
  BY DEF NoFrame, Frame, InvStates

\* A thread that starts to report a call keeps the invariant.
LEMMA Reported ==
  ASSUME IInv, NEW t \in Threads, ~Running(t), NEW c \in CallIds,
         NEW s \in InvStates, NEW again \in BOOLEAN, Report(t, c, s, again),
         call' \in [CallIds -> Call], talked' \subseteq CallIds, UNCHANGED rest
  PROVE  IInv'
<1> DEFINE f == [NoFrame EXCEPT !.pc = "handle", !.call = c, !.state = s,
                                !.again = again]
<1>1. cb' = [cb EXCEPT ![t] = f] /\ f \in Frame /\ FrameKnown(f)
  BY FrameBegins DEF Report, FrameKnown, NoFrame
<1> HIDE DEF f
<1>2. TypeOK'
  BY <1>1 DEF IInv, TypeOK, EngineTypeOK, rest
<1>3. \A u \in Threads : FrameKnown(cb'[u])
  BY <1>1 DEF IInv, TypeOK
<1>4. RefreshDue'
  BY <1>1 DEF IInv, TypeOK, RefreshDue, One, Running, rest
<1> QED
  BY <1>2, <1>3, <1>4 DEF IInv, PlayersOK, FrameKnown, rest

\* So does one that starts a callback that only refreshes.
LEMMA RefreshBegun ==
  ASSUME IInv, NEW t \in Threads, ~Running(t), NEW c \in CallIds \cup {NoCall},
         Refresh(t, c), call' \in [CallIds -> Call], talked' = talked,
         UNCHANGED rest
  PROVE  IInv'
<1> DEFINE f == [NoFrame EXCEPT !.pc = "enum", !.call = c]
<1>1. /\ cb' = [cb EXCEPT ![t] = f] /\ f \in Frame /\ FrameKnown(f)
      /\ f.pc = "enum"
  BY FrameBegins DEF Refresh, FrameKnown, NoFrame
<1> HIDE DEF f
<1>2. TypeOK'
  BY <1>1 DEF IInv, TypeOK, EngineTypeOK, rest
<1>3. \A u \in Threads : FrameKnown(cb'[u])
  BY <1>1 DEF IInv, TypeOK
<1>4. RefreshDue'
  BY <1>1 DEF IInv, TypeOK, RefreshDue
<1> QED
  BY <1>2, <1>3, <1>4 DEF IInv, PlayersOK, FrameKnown, rest

\* A thread's step within its callback keeps the invariant when its frame stays
\* well-formed and its refresh is still due.
LEMMA FrameMoves ==
  ASSUME IInv, NEW t \in Threads, NEW f \in Frame, FrameKnown(f),
         f.pc \in {"enum", "scan", "apply"}, cb' = [cb EXCEPT ![t] = f],
         PlayersOK(cues)', mutex' \in Threads \cup {NoThread},
         connected' \subseteq CallIds, played' \subseteq CallIds,
         UNCHANGED <<call, phase, talked, disorder>>
  PROVE  IInv'
<1>1. TypeOK'
  BY DEF IInv, TypeOK, EngineTypeOK, PlayersOK, Players
<1>2. \A u \in Threads : FrameKnown(cb'[u])
  BY DEF IInv, TypeOK
<1>3. RefreshDue'
  BY DEF IInv, TypeOK, RefreshDue
<1> QED
  BY <1>1, <1>2, <1>3 DEF IInv, FrameKnown

-----------------------------------------------------------------------------
(* Every step preserves the invariant.                                     *)

\* The invariant holds initially.
LEMMA InitHolds == Init => IInv
<1> SUFFICES ASSUME Init PROVE IInv
  OBVIOUS
<1>1. TypeOK
  BY FixedCalls, FrameBegins
  DEF Init, TypeOK, EngineTypeOK, NoCues, Threads, NoThread
<1>2. \A t \in Threads : FrameKnown(cb[t])
  BY DEF Init, NoFrame, FrameKnown
<1>3. PlayersOK(cues) /\ One(cues)
  BY DEF Init, NoCues, PlayersOK, Players, One
<1> QED
  BY <1>1, <1>2, <1>3 DEF IInv, RefreshDue

\* HandleCallAudioCueState notes what a call reports of itself.
LEMMA HandleStep ==
  ASSUME IInv, NEW t \in Threads, Handle(t)
  PROVE  IInv'
<1> DEFINE play == cb[t].state = "disconnected"
                   /\ cb[t].call \in connected \ played
           f == [cb[t] EXCEPT !.pc = IF play THEN "play" ELSE "enum"]
<1>1. cb[t] \in Frame /\ cb[t].call \in CallIds /\ cb[t].pc = "handle"
  BY DEF IInv, TypeOK, FrameKnown, Handle
<1>2. /\ connected' \subseteq CallIds /\ played' \subseteq CallIds
      /\ mutex' \in Threads \cup {NoThread}
      /\ UNCHANGED <<call, phase, cues, talked, disorder>>
  BY <1>1 DEF Handle, IInv, TypeOK
<1>3. cb' = [cb EXCEPT ![t] = f]
  BY DEF Handle, IInv, TypeOK
<1>4. /\ f \in Frame /\ FrameKnown(f)
      /\ f.pc = IF play THEN "play" ELSE "enum"
  BY <1>1 DEF Frame, FrameKnown
<1> HIDE DEF f
<1>5. TypeOK'
  BY <1>2, <1>3, <1>4 DEF IInv, TypeOK, EngineTypeOK
<1>6. \A u \in Threads : FrameKnown(cb'[u])
  BY <1>3, <1>4 DEF IInv, TypeOK
<1>7. RefreshDue'
  BY <1>1, <1>2, <1>3 DEF IInv, TypeOK, RefreshDue, One
<1> QED
  BY <1>2, <1>5, <1>6, <1>7 DEF IInv, PlayersOK, FrameKnown

\* The hang-up tone is started by a thread that has yet to refresh.
LEMMA PlayStep ==
  ASSUME IInv, NEW t \in Threads, PlayHangup(t)
  PROVE  IInv'
<1> DEFINE f == [cb[t] EXCEPT !.pc = "enum"]
           p == Stop(cues, "hangup")
<1>1. "hangup" \in Cues
  BY DEF Cues
<1>2. PlayersOK(p)
  BY <1>1, StopCue DEF IInv
<1>3. cues' \in Start(p, "hangup")
  BY DEF PlayHangup
<1> HIDE DEF p
<1>4. PlayersOK(cues')
  BY <1>1, <1>2, <1>3, StartCue
<1>5. /\ cb[t] \in Frame /\ FrameKnown(cb[t])
      /\ cb' = [cb EXCEPT ![t] = f]
      /\ mutex' = NoThread
      /\ UNCHANGED <<call, phase, connected, played, talked, disorder>>
  BY DEF PlayHangup, IInv, TypeOK
<1>6. f \in Frame /\ f.pc = "enum" /\ FrameKnown(f)
  BY <1>5 DEF Frame, FrameKnown
<1> HIDE DEF f
<1>7. PlayersOK(cues)'
  BY <1>4 DEF PlayersOK
<1>8. connected \subseteq CallIds /\ played \subseteq CallIds
  BY DEF IInv, TypeOK
<1> QED
  BY <1>5, <1>6, <1>7, <1>8, FrameMoves

\* A refresh lists the calls.
LEMMA EnumerateStep ==
  ASSUME IInv, NEW t \in Threads, Enumerate(t)
  PROVE  IInv'
<1> DEFINE S == IF phase = "off" THEN {} ELSE EnumCalls
           f == [cb[t] EXCEPT !.pc = "scan", !.late = FALSE, !.todo = S]
<1>1. /\ cb[t] \in Frame /\ FrameKnown(cb[t])
      /\ cb' = [cb EXCEPT ![t] = f]
      /\ UNCHANGED <<call, phase, mutex, cues, connected, played, talked,
                     disorder>>
  BY DEF Enumerate, IInv, TypeOK
<1>2. S \in SUBSET CallIds
  BY DEF EnumCalls
<1> HIDE DEF S
<1>3. f \in Frame /\ f.pc = "scan" /\ FrameKnown(f)
  BY <1>1, <1>2 DEF Frame, FrameKnown
<1> HIDE DEF f
<1>4. /\ PlayersOK(cues)' /\ mutex \in Threads \cup {NoThread}
      /\ connected \subseteq CallIds /\ played \subseteq CallIds
  BY <1>1 DEF IInv, TypeOK, PlayersOK
<1> QED
  BY <1>1, <1>3, <1>4, FrameMoves

\* A refresh looks at a call.
LEMMA LookAtStep ==
  ASSUME IInv, NEW t \in Threads, NEW c \in CallIds, LookAt(t, c)
  PROVE  IInv'
<1> DEFINE S == cb[t].todo \ {c}
           i == cb[t].incoming \/ Waiting(c)
           r == cb[t].ringback \/ Ringing(c)
           f == [cb[t] EXCEPT !.todo = S, !.incoming = i, !.ringback = r]
<1>0. cb[t] \in Frame /\ FrameKnown(cb[t]) /\ cb[t].pc = "scan"
  BY DEF LookAt, IInv, TypeOK
<1>1. /\ cb' = [cb EXCEPT ![t] = f]
      /\ UNCHANGED <<call, phase, mutex, cues, connected, played, talked,
                     disorder>>
  BY <1>0 DEF LookAt, Frame
<1>2. S \in SUBSET CallIds
  BY <1>0 DEF Frame
<1>3. i \in BOOLEAN /\ r \in BOOLEAN
  BY Zenon
<1> HIDE DEF S, i, r
<1>4. f \in Frame /\ f.pc = "scan" /\ FrameKnown(f)
  BY <1>0, <1>2, <1>3 DEF Frame, FrameKnown
<1> HIDE DEF f
<1>5. /\ PlayersOK(cues)' /\ mutex \in Threads \cup {NoThread}
      /\ connected \subseteq CallIds /\ played \subseteq CallIds
  BY <1>1 DEF IInv, TypeOK, PlayersOK
<1> QED
  BY <1>1, <1>4, <1>5, FrameMoves

\* A refresh has looked at all calls and takes the mutex.
LEMMA TakeMutexStep ==
  ASSUME IInv, NEW t \in Threads, TakeMutex(t)
  PROVE  IInv'
<1> DEFINE f == [cb[t] EXCEPT !.pc = "apply"]
<1>1. /\ cb[t] \in Frame /\ FrameKnown(cb[t])
      /\ cb' = [cb EXCEPT ![t] = f]
      /\ mutex' = t
      /\ UNCHANGED <<call, phase, cues, connected, played, talked, disorder>>
  BY DEF TakeMutex, IInv, TypeOK
<1>2. f \in Frame /\ f.pc = "apply" /\ FrameKnown(f)
  BY <1>1 DEF Frame, FrameKnown
<1> HIDE DEF f
<1>3. /\ PlayersOK(cues)'
      /\ connected \subseteq CallIds /\ played \subseteq CallIds
  BY <1>1 DEF IInv, TypeOK, PlayersOK
<1> QED
  BY <1>1, <1>2, <1>3, FrameMoves

\* A refresh changes the players: after it one cue plays at most.
LEMMA ApplyStep ==
  ASSUME IInv, NEW t \in Threads, Apply(t)
  PROVE  IInv'
<1> DEFINE f == [NoFrame EXCEPT !.pc = "enum", !.call = cb[t].call,
                                !.locked = TRUE]
           g(u) == [cb[u] EXCEPT !.late = TRUE]
           h(u) == IF u # t THEN g(u) ELSE IF cb[t].again THEN f ELSE NoFrame
<1>1. cb[t] \in Frame /\ FrameKnown(cb[t])
  BY DEF IInv, TypeOK
<1>2. PlayersOK(cues') /\ One(cues')
  BY <1>1, RefreshCues DEF Apply, IInv, Frame
<1>3. cb' = [u \in Threads |-> h(u)]
  BY Zenon DEF Apply
<1>4. \A u \in Threads : g(u) \in Frame /\ FrameKnown(g(u))
  <2> TAKE u \in Threads
  <2>1. cb[u] \in Frame /\ FrameKnown(cb[u])
    BY DEF IInv, TypeOK
  <2>2. g(u) \in Frame
    BY <2>1, FrameFields, Zenon
  <2>3. g(u).pc = cb[u].pc /\ g(u).state = cb[u].state /\ g(u).call = cb[u].call
    BY <2>1 DEF Frame
  <2> HIDE DEF g
  <2> QED
    BY <2>1, <2>2, <2>3 DEF FrameKnown
<1>5. /\ f \in Frame /\ FrameKnown(f)
      /\ NoFrame \in Frame /\ FrameKnown(NoFrame)
  <2>1. f \in Frame
    <3>1. cb[t].call \in CallIds \cup {NoCall} /\ TRUE \in BOOLEAN
      BY <1>1 DEF Frame
    <3> QED
      BY <3>1, FrameBegins, Zenon
  <2>2. FrameKnown(f) /\ FrameKnown(NoFrame)
    BY DEF NoFrame, FrameKnown
  <2> QED
    BY <2>1, <2>2, FrameBegins
<1> HIDE DEF f, g
<1>6. \A u \in Threads : cb'[u] \in Frame /\ FrameKnown(cb'[u])
  BY <1>3, <1>4, <1>5
<1>7. cb' \in [Threads -> Frame]
  BY <1>3, <1>6
<1>8. call' \in [CallIds -> Call]
  BY <1>1, EngineCalls DEF Apply, IInv, TypeOK, EngineTypeOK, FrameKnown
<1>9. TypeOK'
  BY <1>1, <1>2, <1>7, <1>8
  DEF Apply, IInv, TypeOK, EngineTypeOK, PlayersOK, Players, Frame
<1> QED
  BY <1>2, <1>6, <1>9 DEF IInv, RefreshDue, PlayersOK, One, FrameKnown

\* What happens to a call starts a callback of it, and changes no player.
LEMMA CallEventStep ==
  ASSUME IInv, NEW c \in CallIds, CallEvent(c)
  PROVE  IInv'
<1>0. /\ "ui" \in Threads /\ "worker" \in Threads
      /\ InvStates = {"free", "calling", "incoming", "early", "connecting",
                      "confirmed", "disconnected"}
      /\ EngineTypeOK /\ talked \subseteq CallIds
  BY DEF Threads, InvStates, IInv, TypeOK
<1>1. CASE MakeCall(c)
  BY <1>0, <1>1, Reported, EngineCalls DEF MakeCall, Ready
<1>2. CASE IncomingCall(c)
  BY <1>0, <1>2, Reported, EngineCalls DEF IncomingCall, Ready
<1>3. ASSUME NEW t \in Threads, NEW s \in InvStates, Progress(t, c, s)
      PROVE  IInv'
  <2>1. call' \in [CallIds -> Call]
    BY <1>0, <1>3, StateChange DEF Progress, EngineTypeOK
  <2>2. talked' \subseteq CallIds
    BY <1>0, <1>3 DEF Progress
  <2> QED
    BY <1>3, <2>1, <2>2, Reported DEF Progress, Ready
<1>4. CASE AnswerCall(c) \/ Provisional(c) \/ Accepted(c) \/ Confirmed(c)
  BY <1>0, <1>3, <1>4 DEF AnswerCall, Provisional, Accepted, Confirmed
<1>5. CASE MediaUp(c)
  <2>1. call' \in [CallIds -> Call]
    <3>1. /\ "active" \in MediaStates /\ "none" \in Offers /\ FALSE \in BOOLEAN
          /\ call' = MediaUpdate(c, "active", "none", FALSE)
      BY <1>5 DEF MediaUp, MediaStates, Offers
    <3> QED
      BY <1>0, <3>1, MediaUpdates, Zenon
  <2> QED
    BY <1>0, <1>5, <2>1, RefreshBegun DEF MediaUp, Ready
<1>6. CASE PeerEnds(c)
  BY <1>0, <1>6, Reported, EngineCalls DEF PeerEnds, Ready
<1>7. CASE HangupCall(c)
  BY <1>0, <1>7, Reported, EngineCalls DEF HangupCall, Ready
<1>8. CASE HangupCompletes(c)
  <2>1. /\ call' \in [CallIds -> Call]
        /\ UNCHANGED <<rest, cb, talked>>
    BY <1>0, <1>8, EngineCalls DEF HangupCompletes
  <2> QED
    BY <2>1 DEF IInv, TypeOK, EngineTypeOK, rest, FrameKnown, PlayersOK,
                RefreshDue, One
<1>9. CASE DestroyHangup(c)
  BY <1>0, <1>9, Reported, EngineCalls DEF DestroyHangup
<1> QED
  BY <1>1, <1>2, <1>4, <1>5, <1>6, <1>7, <1>8, <1>9 DEF CallEvent

\* Initialize and Shutdown keep the invariant.
LEMMA LifecycleStep ==
  ASSUME IInv, Lifecycle
  PROVE  IInv'
<1>1. CASE Initialize
  BY <1>1 DEF Initialize, IInv, TypeOK, EngineTypeOK, FrameKnown, PlayersOK,
              RefreshDue, One
<1>2. CASE StopAllAudioCues
  <2> DEFINE p1 == Stop(cues, "ringtone")
             p2 == Stop(p1, "ringback")
  <2>0. /\ "ringtone" \in Cues /\ "ringback" \in Cues /\ "hangup" \in Cues
        /\ \A k \in Cues : k \in {"ringtone", "ringback", "hangup"}
    BY DEF Cues
  <2>1. PlayersOK(p1) /\ p1.id["ringtone"] = NoPlayer
    BY <2>0, StopCue DEF IInv
  <2>2. cues' = Stop(p2, "hangup")
    BY <1>2 DEF StopAllAudioCues
  <2> HIDE DEF p1
  <2>3. /\ PlayersOK(p2) /\ p2.id["ringtone"] = NoPlayer
        /\ p2.id["ringback"] = NoPlayer
    BY <2>0, <2>1, StopCue, Zenon
  <2> HIDE DEF p2
  <2>4. /\ PlayersOK(cues') /\ cues'.id["ringtone"] = NoPlayer
        /\ cues'.id["ringback"] = NoPlayer /\ cues'.id["hangup"] = NoPlayer
    BY <2>0, <2>2, <2>3, StopCue, Zenon
  <2>5. One(cues')
    BY <2>0, <2>4 DEF One
  <2>6. TypeOK'
    BY <1>2, <2>4
    DEF StopAllAudioCues, IInv, TypeOK, EngineTypeOK, PlayersOK, Players
  <2> QED
    BY <1>2, <2>4, <2>5, <2>6
    DEF StopAllAudioCues, IInv, RefreshDue, PlayersOK, One, FrameKnown
<1>3. CASE DestroyJoin
  BY <1>3 DEF DestroyJoin, IInv, TypeOK, EngineTypeOK, FrameKnown, PlayersOK,
              RefreshDue, One
<1>4. CASE DestroyDone
  <2>1. /\ cues' \in Players /\ cues'.id = cues.id /\ cues'.live = {}
    BY <1>4 DEF DestroyDone, IInv, PlayersOK, Players
  <2>2. TypeOK'
    BY <1>4, <2>1, FixedCalls
    DEF DestroyDone, IInv, TypeOK, EngineTypeOK, Players
  <2> QED
    BY <1>4, <2>1, <2>2
    DEF DestroyDone, IInv, RefreshDue, PlayersOK, One, FrameKnown
<1> QED
  BY <1>1, <1>2, <1>3, <1>4 DEF Lifecycle

\* So every step keeps it.
LEMMA StepHolds == IInv /\ [Next]_vars => IInv'
<1> SUFFICES ASSUME IInv, [Next]_vars PROVE IInv'
  OBVIOUS
<1>1. ASSUME NEW t \in Threads, ThreadStep(t) PROVE IInv'
  BY <1>1, HandleStep, PlayStep, EnumerateStep, LookAtStep, TakeMutexStep,
     ApplyStep DEF ThreadStep
<1>2. CASE RefreshRequest
  <2>1. "ui" \in Threads /\ call \in [CallIds -> Call]
    BY DEF Threads, IInv, TypeOK, EngineTypeOK
  <2> QED
    BY <1>2, <2>1, RefreshBegun DEF RefreshRequest, Ready
<1>3. CASE UNCHANGED vars
  BY <1>3 DEF vars, IInv, TypeOK, EngineTypeOK, FrameKnown, PlayersOK,
              RefreshDue, One
<1> QED
  BY <1>1, <1>2, <1>3, CallEventStep, LifecycleStep DEF Next

\* The invariant holds of every behaviour of the cues.
THEOREM Invariance == Spec => []IInv
  BY InitHolds, StepHolds, PTL DEF Spec

\* Every variable keeps its type; a refresh looks at calls that exist, and there
\* is a free player whenever StartAudioCueLocked asks for one, as the service
\* keeps at most three.
THEOREM TypeCorrect == Spec => []TypeOK
<1>1. IInv => TypeOK
  BY DEF IInv
<1> QED
  BY <1>1, Invariance, PTL

\* The hang-up tone and the two tones of RefreshAudioCues are started in
\* different critical sections, on two threads, yet no two are left playing.
THEOREM OneCueLeft == Spec => []OneCue
<1>1. IInv => OneCue
  <2> SUFFICES ASSUME IInv, Settled PROVE One(cues)
    BY DEF OneCue, One
  <2> QED
    BY DEF IInv, RefreshDue, Settled, Running
<1> QED
  BY <1>1, Invariance, PTL

-----------------------------------------------------------------------------
(***************************************************************************)
(* Callbacks and their calls. CallbackInv says what a callback reported of *)
(* its call still holds of it, and that only one thread is in callbacks of *)
(* a call. Every step is one of a few kinds, Begins, Continues and Ends    *)
(* among them, whose effect on calls and callbacks is all that the two     *)
(* parts after this one need.                                              *)
(***************************************************************************)

\* A thread runs a callback of the call, or has yet to note what the call reports.
Busy(t, c) == Running(t) /\ cb[t].call = c
Pending(c) == \E t \in Threads : cb[t].pc = "handle" /\ cb[t].call = c

\* Only a call that is over is being hung up.
TableOK == \A c \in CallIds : call[c].hangingUp => call[c].state = "disconnected"

\* The call of a callback is still as the callback reported it, and a refresh that
\* changes the players has looked at all calls.
SaysOK(t) ==
  LET f == cb[t]
  IN /\ Running(t) /\ f.call \in CallIds => call[f.call].state # "free"
     /\ Running(t) /\ f.state = "disconnected" =>
          call[f.call].state = "disconnected" /\ ~f.again
     /\ f.pc = "handle" => \/ call[f.call].state = f.state
                           \/ call[f.call].state = "incoming" /\ f.state = "early"
     /\ f.pc = "apply" => f.todo = {}

\* The dialog lock: one thread at a time runs callbacks of a call.
DialogLock == \A c \in CallIds : \A t, u \in Threads : Busy(t, c) /\ Busy(u, c) => t = u

\* The worker is joined before the calls are hung up, and no call outlives that.
PhaseOK ==
  /\ phase \in {"off", "hangupAll"} => ~Running("worker")
  /\ phase = "off" => ~Running("ui") /\ \A c \in CallIds : ~IsActive(c)

CallbackInv ==
  TableOK /\ (\A t \in Threads : SaysOK(t)) /\ DialogLock /\ PhaseOK

\* A callback of call c begins on thread t, as the engine reports a new call, the
\* progress or the end of one, or its media.
Begins(t, c) ==
  LET f == cb'[t]
      s == call'[c].state
  IN /\ ~Running(t) /\ \A u \in Threads : ~Busy(u, c)
     /\ \A u \in Threads \ {t} : cb'[u] = cb[u]
     /\ \A d \in CallIds \ {c} : call'[d] = call[d] /\ (d \in talked' <=> d \in talked)
     /\ UNCHANGED <<phase, cues, connected, played, disorder>>
     /\ phase # "off" /\ (t = "worker" => phase \in {"on", "join"})
     /\ f.call = c /\ f.pc \in {"handle", "enum"} /\ ~f.incoming /\ ~f.ringback
     /\ f.state = "disconnected" => s = "disconnected" /\ ~f.again
     /\ f.pc = "handle" => \/ s = f.state
                           \/ s = "incoming" /\ f.state = "early"
     /\ s # "free" /\ (call'[c].hangingUp => s = "disconnected")
     /\ \/ /\ call[c].state = "free" /\ s \notin {"confirmed", "disconnected"}
           /\ f.pc = "handle" /\ c \notin talked'
        \/ /\ IsActive(c) /\ call[c].state # "confirmed" /\ s # "disconnected"
           /\ f.pc = "handle"
           /\ c \in talked' <=> c \in talked \/ s = "confirmed"
        \/ /\ IsActive(c) /\ s = "disconnected"
           /\ f.pc = "handle" /\ (c \in talked' <=> c \in talked)
        \/ /\ IsActive(c) /\ s = call[c].state
           /\ f.pc = "enum" /\ (c \in talked' <=> c \in talked)

\* A callback is under way on thread t, and goes on about the same call.
Continues(t) ==
  LET f == cb'[t]
  IN /\ Running(t) /\ \A u \in Threads \ {t} : cb'[u] = cb[u]
     /\ f.pc \in {"play", "enum", "scan", "apply"}
     /\ f.call = cb[t].call /\ f.state = cb[t].state /\ f.again = cb[t].again
     /\ f.pc = "apply" => f.todo = {}
     /\ UNCHANGED <<call, phase, talked, disorder>>

\* A callback ends, or is over but for the refresh of a new call; an ended call
\* gives up its slot.
Ends(t) ==
  LET f == cb'[t]
  IN /\ cb[t].pc = "apply" /\ cb[t].todo = {}
     /\ f.pc \in {"none", "enum"} /\ f.state = "free" /\ ~f.incoming /\ ~f.ringback
     /\ f.pc = "enum" => f.call = cb[t].call /\ cb[t].again
     /\ \A u \in Threads \ {t} :
          /\ cb'[u].late
          /\ \A k \in {"pc", "call", "state", "again", "todo", "incoming", "ringback"} :
               cb'[u][k] = cb[u][k]
     /\ \A c \in CallIds :
          \/ call'[c] = call[c]
          \/ /\ c = cb[t].call /\ cb[t].state = "disconnected"
             /\ call'[c] = FreeCall
     /\ UNCHANGED <<phase, connected, played, talked>>

\* The event reports the call to one of the threads, unless it is the answer to
\* our BYE.
LEMMA EventBegins ==
  ASSUME IInv, CallbackInv, NEW c \in CallIds, CallEvent(c), ~HangupCompletes(c)
  PROVE  \E t \in Threads : Begins(t, c)
<1>0. /\ "ui" \in Threads /\ "worker" \in Threads
      /\ EngineTypeOK /\ cb \in [Threads -> Frame]
      /\ call \in [CallIds -> Call]
  BY DEF Threads, IInv, TypeOK, EngineTypeOK
<1>1. ASSUME NEW t \in Threads, NEW s \in InvStates, NEW again \in BOOLEAN,
             Report(t, c, s, again)
      PROVE  /\ cb'[t].pc = "handle" /\ cb'[t].call = c /\ cb'[t].state = s
             /\ cb'[t].again = again /\ ~cb'[t].incoming /\ ~cb'[t].ringback
             /\ \A u \in Threads \ {t} : cb'[u] = cb[u]
  BY <1>0, <1>1 DEF Report, NoFrame
<1>2. ASSUME call[c].state = "free"
      PROVE  \A u \in Threads : ~Busy(u, c)
  BY <1>2 DEF CallbackInv, SaysOK, Busy
<1>3. /\ \A s \in {"calling", "early", "connecting", "confirmed", "disconnected"} :
           s \in InvStates
      /\ TRUE \in BOOLEAN /\ FALSE \in BOOLEAN
  BY DEF InvStates
<1>4. CASE MakeCall(c)
  <2>1. /\ ~Running("ui") /\ phase = "on" /\ call[c].state = "free"
        /\ Report("ui", c, "calling", FALSE) /\ UNCHANGED rest
        /\ talked' = talked \ {c} /\ call' = PlaceCall(c)
    BY <1>4 DEF MakeCall, Ready
  <2>2. /\ call'[c].state = "calling" /\ ~call'[c].hangingUp
        /\ \A d \in CallIds \ {c} : call'[d] = call[d]
    BY <1>0, <2>1, SlotReset
  <2>3. /\ cb'["ui"].pc = "handle" /\ cb'["ui"].call = c
        /\ cb'["ui"].state = "calling"
        /\ ~cb'["ui"].incoming /\ ~cb'["ui"].ringback
        /\ \A u \in Threads \ {"ui"} : cb'[u] = cb[u]
    BY <1>0, <1>1, <1>3, <2>1
  <2>4. Begins("ui", c)
    BY <1>2, <2>1, <2>2, <2>3 DEF Begins, rest
  <2> QED
    BY <1>0, <2>4
<1>5. CASE IncomingCall(c)
  <2>1. /\ ~Running("worker") /\ phase \in {"on", "join"} /\ call[c].state = "free"
        /\ Report("worker", c, "early", TRUE) /\ UNCHANGED rest
        /\ talked' = talked \ {c} /\ call' = Arrive(c)
    BY <1>5 DEF IncomingCall, Ready
  <2>2. /\ call'[c].state = "incoming" /\ ~call'[c].hangingUp
        /\ \A d \in CallIds \ {c} : call'[d] = call[d]
    BY <1>0, <2>1, SlotReset
  <2>3. /\ cb'["worker"].pc = "handle" /\ cb'["worker"].call = c
        /\ cb'["worker"].state = "early"
        /\ ~cb'["worker"].incoming /\ ~cb'["worker"].ringback
        /\ \A u \in Threads \ {"worker"} : cb'[u] = cb[u]
    BY <1>0, <1>1, <1>3, <2>1
  <2>4. Begins("worker", c)
    BY <1>2, <2>1, <2>2, <2>3 DEF Begins, rest
  <2> QED
    BY <1>0, <2>4
<1>6. ASSUME NEW t \in Threads, NEW s \in {"early", "connecting", "confirmed"},
             Progress(t, c, s), call[c].state # "confirmed"
      PROVE  Begins(t, c)
  <2>1. /\ ~Running(t) /\ DialogFree(t, c) /\ IsActive(c)
        /\ phase # "off" /\ (t = "worker" => phase \in {"on", "join"})
        /\ Report(t, c, s, FALSE) /\ UNCHANGED rest
        /\ talked' = IF s = "confirmed" THEN talked \cup {c} ELSE talked
        /\ call' = [call EXCEPT ![c].state = s]
    BY <1>6 DEF Progress, Ready
  <2>2. \A u \in Threads : ~Busy(u, c)
    BY <2>1 DEF DialogFree, Busy
  <2>3. /\ call'[c].state = s /\ call'[c].hangingUp = call[c].hangingUp
        /\ \A d \in CallIds \ {c} : call'[d] = call[d]
    BY <1>0, <1>3, <2>1, StateChange
  <2>4. /\ cb'[t].pc = "handle" /\ cb'[t].call = c /\ cb'[t].state = s
        /\ ~cb'[t].incoming /\ ~cb'[t].ringback
        /\ \A u \in Threads \ {t} : cb'[u] = cb[u]
    BY <1>1, <1>3, <2>1
  <2>5. /\ c \in talked' <=> c \in talked \/ s = "confirmed"
        /\ \A d \in CallIds \ {c} : d \in talked' <=> d \in talked
    BY <2>1
  <2>6. s \notin {"free", "disconnected"} /\ ~call[c].hangingUp
    BY <2>1 DEF IsActive
  <2> QED
    BY <1>6, <2>1, <2>2, <2>3, <2>4, <2>5, <2>6 DEF Begins, rest
<1>7. CASE AnswerCall(c) \/ Provisional(c) \/ Accepted(c) \/ Confirmed(c)
  BY <1>0, <1>6, <1>7 DEF AnswerCall, Provisional, Accepted, Confirmed
<1>8. CASE MediaUp(c)
  <2>1. /\ ~Running("worker") /\ phase \in {"on", "join"} /\ DialogFree("worker", c)
        /\ IsActive(c) /\ call' = MediaUpdate(c, "active", "none", FALSE)
        /\ Refresh("worker", c) /\ UNCHANGED <<rest, talked>>
    BY <1>8 DEF MediaUp, Ready
  <2>2. \A u \in Threads : ~Busy(u, c)
    BY <2>1 DEF DialogFree, Busy
  <2>3. /\ call'[c].state = call[c].state /\ call'[c].hangingUp = call[c].hangingUp
        /\ \A d \in CallIds \ {c} : call'[d] = call[d]
    <3>1. "active" \in MediaStates /\ "none" \in Offers
      BY DEF MediaStates, Offers
    <3>2. PICK keep \in BOOLEAN : call' = MediaUpdate(c, "active", "none", keep)
      BY <2>1, Zenon
    <3> QED
      BY <1>0, <3>1, <3>2, MediaUpdates
  <2>4. /\ cb'["worker"].pc = "enum" /\ cb'["worker"].call = c
        /\ cb'["worker"].state = "free"
        /\ ~cb'["worker"].incoming /\ ~cb'["worker"].ringback
        /\ \A u \in Threads \ {"worker"} : cb'[u] = cb[u]
    BY <1>0, <2>1 DEF Refresh, NoFrame
  <2>5. Begins("worker", c)
    BY <2>1, <2>2, <2>3, <2>4 DEF Begins, rest, IsActive
  <2> QED
    BY <1>0, <2>5
<1>9. ASSUME NEW t \in Threads, ~Running(t), \A u \in Threads : ~Busy(u, c),
             IsActive(c), call' = HangUp(c) \/ call' = Disconnect(c),
             Report(t, c, "disconnected", FALSE), UNCHANGED <<rest, talked>>,
             phase # "off", t = "worker" => phase \in {"on", "join"}
      PROVE  Begins(t, c)
  <2>1. /\ call'[c].state = "disconnected"
        /\ \A d \in CallIds \ {c} : call'[d] = call[d]
    BY <1>0, <1>9, SlotReset
  <2>2. /\ cb'[t].pc = "handle" /\ cb'[t].call = c
        /\ cb'[t].state = "disconnected" /\ ~cb'[t].again
        /\ ~cb'[t].incoming /\ ~cb'[t].ringback
        /\ \A u \in Threads \ {t} : cb'[u] = cb[u]
    BY <1>1, <1>3, <1>9
  <2> QED
    BY <1>9, <2>1, <2>2 DEF Begins, rest
<1>10. CASE PeerEnds(c)
  BY <1>0, <1>9, <1>10 DEF PeerEnds, Ready, DialogFree, Busy
<1>11. CASE HangupCall(c)
  BY <1>0, <1>9, <1>11 DEF HangupCall, Ready, DialogFree, Busy
<1>12. CASE DestroyHangup(c)
  BY <1>0, <1>9, <1>12 DEF DestroyHangup, CallbackInv, PhaseOK, Busy, Threads
<1> QED
  BY <1>4, <1>5, <1>7, <1>8, <1>10, <1>11, <1>12 DEF CallEvent

\* Up to its end, a callback goes on about the same call.
LEMMA ThreadContinues ==
  ASSUME IInv, NEW t \in Threads, ThreadStep(t), ~Apply(t)
  PROVE  Continues(t)
<1>1. cb \in [Threads -> Frame] /\ cb[t] \in Frame
  BY DEF IInv, TypeOK
<1>2. CASE Handle(t)
  BY <1>1, <1>2 DEF Handle, Continues, Running, Frame
<1>3. CASE PlayHangup(t)
  BY <1>1, <1>3 DEF PlayHangup, Continues, Running, Frame
<1>4. CASE Enumerate(t)
  BY <1>1, <1>4 DEF Enumerate, Continues, Running, Frame
<1>5. ASSUME NEW c \in CallIds, LookAt(t, c)
      PROVE  Continues(t)
  BY <1>1, <1>5 DEF LookAt, Continues, Running, Frame
<1>6. CASE TakeMutex(t)
  BY <1>1, <1>6 DEF TakeMutex, Continues, Running, Frame
<1> QED
  BY <1>2, <1>3, <1>4, <1>5, <1>6 DEF ThreadStep

\* Then it ends.
LEMMA ApplyEnds ==
  ASSUME IInv, CallbackInv, NEW t \in Threads, Apply(t)
  PROVE  Ends(t)
<1>1. cb \in [Threads -> Frame] /\ \A u \in Threads : cb[u] \in Frame
  BY DEF IInv, TypeOK
<1> DEFINE f == [NoFrame EXCEPT !.pc = "enum", !.call = cb[t].call, !.locked = TRUE]
           g(u) == [cb[u] EXCEPT !.late = TRUE]
<1>2. /\ f.pc = "enum" /\ f.call = cb[t].call /\ f.state = "free"
      /\ ~f.incoming /\ ~f.ringback
      /\ NoFrame.pc = "none" /\ NoFrame.state = "free"
      /\ ~NoFrame.incoming /\ ~NoFrame.ringback
  BY DEF NoFrame
<1>3. ASSUME NEW u \in Threads
      PROVE  /\ g(u).late /\ g(u).pc = cb[u].pc /\ g(u).call = cb[u].call
             /\ g(u).state = cb[u].state /\ g(u).again = cb[u].again
             /\ g(u).todo = cb[u].todo /\ g(u).incoming = cb[u].incoming
             /\ g(u).ringback = cb[u].ringback
  BY <1>1 DEF Frame
<1>4. /\ cb'[t] = IF cb[t].again THEN f ELSE NoFrame
      /\ \A u \in Threads \ {t} : cb'[u] = g(u)
  BY Zenon DEF Apply
<1>5. /\ cb[t].pc = "apply" /\ cb[t].todo = {}
      /\ UNCHANGED <<phase, connected, played, talked>>
      /\ call' = IF cb[t].state = "disconnected" /\ ~call[cb[t].call].hangingUp
                 THEN Release(cb[t].call) ELSE call
  BY DEF Apply, CallbackInv, SaysOK
<1>6. ASSUME NEW c \in CallIds
      PROVE  \/ call'[c] = call[c]
             \/ /\ c = cb[t].call /\ cb[t].state = "disconnected"
                /\ call'[c] = FreeCall
  BY <1>5 DEF Release, IInv, TypeOK, EngineTypeOK
<1> HIDE DEF f, g
<1> QED
  BY <1>2, <1>3, <1>4, <1>5, <1>6 DEF Ends

\* The start of a callback keeps what is said of callbacks.
LEMMA CallbackBegins ==
  ASSUME IInv, CallbackInv, NEW t \in Threads, NEW c \in CallIds, Begins(t, c)
  PROVE  CallbackInv'
<1>1. \A d \in CallIds \ {c} : call'[d] = call[d]
  BY DEF Begins
<1>2. TableOK'
  BY DEF Begins, CallbackInv, TableOK
<1>3. ASSUME NEW u \in Threads PROVE SaysOK(u)'
  <2>1. CASE u = t
    BY <2>1 DEF Begins, SaysOK, Running
  <2>2. CASE u # t
    <3>1. cb'[u] = cb[u] /\ ~Busy(u, c)
      BY <2>2 DEF Begins
    <3>2. FrameKnown(cb[u]) /\ SaysOK(u)
      BY DEF IInv, CallbackInv
    <3>3. Running(u) /\ cb[u].call \in CallIds => call'[cb[u].call] = call[cb[u].call]
      BY <1>1, <3>1 DEF Busy
    <3>4. cb[u].pc = "handle" => Running(u)
      BY DEF Running
    <3> QED
      BY <3>1, <3>2, <3>3, <3>4 DEF SaysOK, FrameKnown, Running
  <2> QED
    BY <2>1, <2>2
<1>4. DialogLock'
  BY DEF Begins, CallbackInv, DialogLock, Busy, Running
<1>5. PhaseOK'
  BY DEF Begins, CallbackInv, PhaseOK, Running, Threads
<1> QED
  BY <1>2, <1>3, <1>4, <1>5 DEF CallbackInv

\* So does its going on.
LEMMA CallbackContinues ==
  ASSUME IInv, CallbackInv, NEW t \in Threads, Continues(t)
  PROVE  CallbackInv'
<1>1. TableOK'
  BY DEF Continues, CallbackInv, TableOK
<1>2. ASSUME NEW u \in Threads PROVE SaysOK(u)'
  BY DEF Continues, CallbackInv, SaysOK, Running
<1>3. DialogLock'
  BY DEF Continues, CallbackInv, DialogLock, Busy, Running
<1>4. PhaseOK'
  BY DEF Continues, CallbackInv, PhaseOK, Running, Threads, IsActive
<1> QED
  BY <1>1, <1>2, <1>3, <1>4 DEF CallbackInv

\* A slot is given up by a call that is over, and that no other callback is about.
LEMMA CallbackEnds ==
  ASSUME IInv, CallbackInv, NEW t \in Threads, Ends(t)
  PROVE  CallbackInv'
<1>0. Running(t)
  BY DEF Ends, Running
<1>1. \A c \in CallIds :
        call'[c] = call[c] \/ (Busy(t, c) /\ call'[c] = FreeCall /\ ~cb[t].again)
  BY <1>0 DEF Ends, CallbackInv, SaysOK, Busy
<1>2. TableOK'
  BY <1>1 DEF CallbackInv, TableOK, FreeCall
<1>3. \A u \in Threads \ {t} :
        /\ cb'[u].pc = cb[u].pc /\ cb'[u].call = cb[u].call
        /\ cb'[u].state = cb[u].state /\ cb'[u].again = cb[u].again
        /\ cb'[u].todo = cb[u].todo
  BY DEF Ends
<1>4. ASSUME NEW u \in Threads PROVE SaysOK(u)'
  <2>1. CASE u = t
    BY <1>0, <1>1, <2>1 DEF Ends, CallbackInv, SaysOK, Busy, Running
  <2>2. CASE u # t
    <3>1. FrameKnown(cb[u]) /\ SaysOK(u)
      BY DEF IInv, CallbackInv
    <3>2. Running(u) /\ cb[u].call \in CallIds => call'[cb[u].call] = call[cb[u].call]
      BY <1>1, <2>2 DEF CallbackInv, DialogLock, Busy
    <3> QED
      BY <1>3, <2>2, <3>1, <3>2 DEF SaysOK, FrameKnown, Running
  <2> QED
    BY <2>1, <2>2
<1>5. \A u \in Threads, c \in CallIds : Busy(u, c)' => Busy(u, c)
  BY <1>0, <1>3 DEF Ends, Busy, Running
<1>6. DialogLock'
  BY <1>5 DEF CallbackInv, DialogLock
<1>7. PhaseOK'
  BY <1>0, <1>1, <1>3 DEF Ends, CallbackInv, PhaseOK, Running, Threads, IsActive,
     FreeCall
<1> QED
  BY <1>2, <1>4, <1>6, <1>7 DEF CallbackInv

\* What else happens to a slot: the peer answers our BYE, with no callback.
LEMMA Answered ==
  ASSUME IInv, CallbackInv, NEW c \in CallIds, HangupCompletes(c)
  PROVE  /\ call[c].state = "disconnected" /\ call'[c] = FreeCall
         /\ \A d \in CallIds \ {c} : call'[d] = call[d]
         /\ \A t \in Threads : ~Busy(t, c)
  BY DEF HangupCompletes, Release, Ready, DialogFree, Busy, IInv, TypeOK,
     EngineTypeOK, CallbackInv, TableOK

\* Every step keeps what is said of callbacks.
LEMMA StepCallback == IInv /\ CallbackInv /\ [Next]_vars => CallbackInv'
<1> SUFFICES ASSUME IInv, CallbackInv, [Next]_vars PROVE CallbackInv'
  OBVIOUS
<1>0. /\ cb \in [Threads -> Frame] /\ "ui" \in Threads
      /\ \A u \in Threads : FrameKnown(cb[u])
  BY DEF IInv, TypeOK, Threads
<1>1. ASSUME NEW t \in Threads, ThreadStep(t) PROVE CallbackInv'
  BY <1>1, ThreadContinues, ApplyEnds, CallbackContinues, CallbackEnds DEF Continues
<1>2. ASSUME NEW c \in CallIds, CallEvent(c) PROVE CallbackInv'
  <2>1. CASE HangupCompletes(c)
    <3>1. /\ \A t \in Threads : ~Busy(t, c)
          /\ \A d \in CallIds \ {c} : call'[d] = call[d]
          /\ call'[c] = FreeCall /\ UNCHANGED <<cb, phase>>
      BY <1>2, <2>1, Answered DEF HangupCompletes, rest
    <3>2. \A u \in Threads : SaysOK(u)'
      BY <1>0, <3>1 DEF CallbackInv, SaysOK, Busy, Running, FrameKnown
    <3>3. TableOK' /\ DialogLock' /\ PhaseOK'
      BY <3>1 DEF CallbackInv, TableOK, DialogLock, PhaseOK, Busy, Running, FreeCall,
         IsActive
    <3> QED
      BY <3>2, <3>3 DEF CallbackInv
  <2> QED
    BY <1>2, <2>1, EventBegins, CallbackBegins
<1>3. CASE RefreshRequest
  <2>1. /\ cb'["ui"].pc = "enum" /\ cb'["ui"].call = NoCall
        /\ cb'["ui"].state = "free"
        /\ \A u \in Threads \ {"ui"} : cb'[u] = cb[u]
        /\ UNCHANGED <<call, phase>> /\ phase = "on"
    BY <1>0, <1>3 DEF RefreshRequest, Ready, Refresh, NoFrame, rest
  <2>2. \A u \in Threads : SaysOK(u)'
    BY <2>1, CallIdsAssumption DEF CallbackInv, SaysOK, Running
  <2>3. TableOK' /\ DialogLock' /\ PhaseOK'
    BY <2>1, CallIdsAssumption DEF CallbackInv, TableOK, DialogLock, PhaseOK, Busy,
       Running
  <2> QED
    BY <2>2, <2>3 DEF CallbackInv
<1>4. CASE Initialize \/ StopAllAudioCues \/ DestroyJoin
  BY <1>4 DEF Initialize, StopAllAudioCues, DestroyJoin, CallbackInv, TableOK,
     SaysOK, DialogLock, PhaseOK, Busy, Running
<1>5. CASE DestroyDone
  <2>1. /\ \A u \in Threads : ~Running(u) /\ ~Running(u)'
        /\ \A c \in CallIds : call'[c] = FreeCall
        /\ cb' = cb /\ phase' = "off"
    BY <1>5 DEF DestroyDone, CallbackInv, PhaseOK, Threads, NoCalls, Running
  <2> QED
    BY <2>1 DEF CallbackInv, TableOK, SaysOK, DialogLock, PhaseOK, Busy, Running,
       FreeCall, IsActive, Threads
<1>6. CASE UNCHANGED vars
  BY <1>6 DEF vars, CallbackInv, TableOK, SaysOK, DialogLock, PhaseOK, Busy, Running,
     IsActive
<1> QED
  BY <1>1, <1>2, <1>3, <1>4, <1>5, <1>6 DEF Next, Lifecycle

\* No callback runs in the initial state.
LEMMA InitCallback == Init => CallbackInv
  BY DEF Init, NoCalls, FreeCall, NoFrame, CallbackInv, TableOK, SaysOK, DialogLock,
     PhaseOK, Busy, Running, IsActive, Threads

\* What is said of callbacks holds in every state of every instance.
LEMMA CallbackInvariance == Spec => []CallbackInv
  BY Invariance, InitCallback, StepCallback, PTL DEF Spec

-----------------------------------------------------------------------------
(***************************************************************************)
(* The hang-up tone. ToneInv relates connected_call_ids_ and               *)
(* hangup_played_call_ids_ to the history of the slot's call, before and   *)
(* after its last report has been noted.                                   *)
(***************************************************************************)

\* What the two sets say of a slot, before and after its call has reported.
SlotOK(c) ==
  LET confirmed == call[c].state = "confirmed"
  IN /\ IsActive(c) /\ ~Pending(c) =>
          c \notin played /\ (c \in connected <=> confirmed)
     /\ IsActive(c) /\ Pending(c) =>
          IF confirmed THEN c \notin played ELSE c \notin connected
     /\ ~IsActive(c) /\ Pending(c) =>
          c \notin played /\ (c \in connected <=> c \in talked)

ToneOK(c) ==
  /\ c \in connected => IsActive(c) \/ Pending(c)
  /\ IsActive(c) => (c \in talked <=> call[c].state = "confirmed")
  /\ phase = "on" => SlotOK(c)

ToneInv == \A c \in CallIds : ToneOK(c)

\* What is said of a slot stays true while the sets and the callbacks about to
\* change them do.
LEMMA ToneKept ==
  ASSUME NEW c \in CallIds, ToneOK(c), phase' = "on" => phase = "on",
         c \in connected' <=> c \in connected, c \in played' <=> c \in played,
         c \in talked' <=> c \in talked, Pending(c)' <=> Pending(c),
         IsActive(c)' <=> IsActive(c),
         call'[c].state = "confirmed" <=> call[c].state = "confirmed"
  PROVE  ToneOK(c)'
  BY DEF ToneOK, SlotOK

\* An event is reported to a thread that will note it.
LEMMA ToneBegins ==
  ASSUME IInv, CallbackInv, ToneInv, NEW t \in Threads, NEW c \in CallIds,
         Begins(t, c)
  PROVE  ToneInv'
<1> SUFFICES ASSUME NEW d \in CallIds PROVE ToneOK(d)'
  BY DEF ToneInv
<1>1. ToneOK(d)
  BY DEF ToneInv
<1>2. cb[t].pc # "handle" /\ ~Pending(c)
  BY DEF Begins, Pending, Busy, Running
<1>3. Pending(c)' <=> cb'[t].pc = "handle"
  BY <1>2 DEF Begins, Pending
<1>4. CASE d # c
  <2>1. Pending(d)' <=> Pending(d)
    BY <1>2, <1>4 DEF Begins, Pending
  <2> QED
    BY <1>1, <1>4, <2>1, ToneKept DEF Begins, IsActive
<1>5. CASE d = c
  <2>1. UNCHANGED <<phase, connected, played>>
    BY DEF Begins
  <2>2. IsActive(c)' <=> call'[c].state # "disconnected"
    BY DEF Begins, IsActive
  <2>3. CASE call[c].state = "free"
    BY <1>1, <1>2, <1>3, <1>5, <2>1, <2>2, <2>3 DEF Begins, ToneOK, SlotOK, IsActive
  <2>4. CASE IsActive(c) /\ call[c].state # "free"
    <3>1. /\ c \in talked <=> call[c].state = "confirmed"
          /\ phase = "on" => /\ c \notin played
                             /\ c \in connected <=> call[c].state = "confirmed"
      BY <1>1, <1>2, <1>5, <2>4 DEF ToneOK, SlotOK
    <3>2. CASE call'[c].state = "disconnected"
      <4>1. Pending(c)' /\ (c \in talked' <=> c \in talked)
        BY <1>3, <2>4, <3>2 DEF Begins, IsActive
      <4> QED
        BY <1>5, <2>1, <2>2, <3>1, <3>2, <4>1 DEF ToneOK, SlotOK
    <3>3. CASE call'[c].state # "disconnected" /\ Pending(c)'
      <4>1. /\ call[c].state # "confirmed"
            /\ c \in talked' <=> c \in talked \/ call'[c].state = "confirmed"
        BY <1>3, <2>4, <3>3 DEF Begins
      <4> QED
        BY <1>5, <2>1, <2>2, <3>1, <3>3, <4>1 DEF ToneOK, SlotOK
    <3>4. CASE call'[c].state # "disconnected" /\ ~Pending(c)'
      <4>1. call'[c].state = call[c].state /\ (c \in talked' <=> c \in talked)
        BY <1>3, <2>4, <3>4 DEF Begins
      <4> QED
        BY <1>5, <2>1, <2>2, <3>1, <3>4, <4>1 DEF ToneOK, SlotOK
    <3> QED
      BY <3>2, <3>3, <3>4
  <2> QED
    BY <2>3, <2>4 DEF Begins, IsActive
<1> QED
  BY <1>4, <1>5

\* Noting it brings the sets up to date.
LEMMA ToneHandle ==
  ASSUME IInv, CallbackInv, ToneInv, NEW t \in Threads, Handle(t)
  PROVE  ToneInv'
<1> SUFFICES ASSUME NEW d \in CallIds PROVE ToneOK(d)'
  BY DEF ToneInv
<1> DEFINE c == cb[t].call
           s == call[c].state
<1>1. /\ ToneOK(d) /\ c \in CallIds /\ cb[t].pc = "handle" /\ Running(t)
      /\ \/ s = cb[t].state
         \/ s = "incoming" /\ cb[t].state = "early"
  BY DEF ToneInv, Handle, IInv, FrameKnown, CallbackInv, SaysOK, Running
<1>2. cb'[t].pc # "handle" /\ \A u \in Threads \ {t} : cb'[u] = cb[u]
  BY DEF Handle, IInv, TypeOK
<1>3. UNCHANGED <<call, phase, talked>>
  BY DEF Handle
<1>4. IsActive(d)' <=> IsActive(d)
  BY <1>3 DEF IsActive
<1>5. CASE d # c
  <2>1. Pending(d)' <=> Pending(d)
    BY <1>1, <1>2, <1>5 DEF Pending
  <2>2. (d \in connected' <=> d \in connected) /\ (d \in played' <=> d \in played)
    BY <1>5 DEF Handle
  <2> QED
    BY <1>1, <1>3, <1>4, <2>1, <2>2, ToneKept
<1>6. CASE d = c
  <2>1. Pending(d) /\ ~Pending(d)'
    BY <1>1, <1>2, <1>6 DEF Pending, CallbackInv, DialogLock, Busy, Running
  <2>2. s # "free" /\ (IsActive(d) <=> s # "disconnected")
    BY <1>1, <1>6 DEF CallbackInv, SaysOK, TableOK, IsActive
  <2>3. CASE s = "confirmed"
    <3>1. d \in connected' /\ (d \in played' <=> d \in played)
      BY <1>1, <1>6, <2>3 DEF Handle
    <3> QED
      BY <1>1, <1>3, <1>4, <1>6, <2>1, <2>2, <2>3, <3>1 DEF ToneOK, SlotOK
  <2>4. CASE s = "disconnected"
    <3>1. d \notin connected'
      BY <1>1, <1>6, <2>4 DEF Handle
    <3> QED
      BY <1>3, <1>4, <1>6, <2>1, <2>2, <2>4, <3>1 DEF ToneOK, SlotOK
  <2>5. CASE s \notin {"confirmed", "disconnected"}
    <3>1. (d \in connected' <=> d \in connected) /\ d \notin played'
      BY <1>1, <1>6, <2>5 DEF Handle
    <3> QED
      BY <1>1, <1>3, <1>4, <1>6, <2>1, <2>2, <2>5, <3>1 DEF ToneOK, SlotOK
  <2> QED
    BY <2>3, <2>4, <2>5
<1> QED
  BY <1>5, <1>6

\* Every step keeps what is said of the sets.
LEMMA StepTone == IInv /\ CallbackInv /\ ToneInv /\ [Next]_vars => ToneInv'
<1> SUFFICES ASSUME IInv, CallbackInv, ToneInv, [Next]_vars PROVE ToneInv'
  OBVIOUS
<1>0. cb \in [Threads -> Frame] /\ "ui" \in Threads
  BY DEF IInv, TypeOK, Threads
<1>1. ASSUME NEW t \in Threads, ThreadStep(t) PROVE ToneInv'
  <2>1. CASE Handle(t)
    BY <2>1, ToneHandle
  <2>2. CASE Apply(t)
    <3>1. Ends(t) /\ Running(t)
      BY <2>2, ApplyEnds DEF Ends, Running
    <3>2. ASSUME NEW c \in CallIds PROVE ToneOK(c)'
      <4>1. Pending(c)' <=> Pending(c)
        BY <3>1 DEF Ends, Pending
      <4>2. call'[c] = call[c] \/ (call'[c] = FreeCall /\ call[c].state = "disconnected")
        BY <3>1 DEF Ends, CallbackInv, SaysOK
      <4>3. /\ IsActive(c)' <=> IsActive(c)
            /\ call'[c].state = "confirmed" <=> call[c].state = "confirmed"
        BY <4>2 DEF IsActive, FreeCall
      <4> QED
        BY <3>1, <4>1, <4>3, ToneKept DEF ToneInv, Ends
    <3> QED
      BY <3>2 DEF ToneInv
  <2>3. CASE ~Handle(t) /\ ~Apply(t)
    <3>1. /\ Continues(t) /\ cb[t].pc # "handle" /\ UNCHANGED <<connected, played>>
      BY <1>1, <2>3, ThreadContinues DEF ThreadStep, PlayHangup, Enumerate, LookAt,
         TakeMutex
    <3>2. \A c \in CallIds : Pending(c)' <=> Pending(c)
      BY <3>1 DEF Continues, Pending
    <3>3. UNCHANGED <<call, phase, connected, played, talked>>
      BY <3>1 DEF Continues
    <3>4. \A c \in CallIds : IsActive(c)' <=> IsActive(c)
      BY <3>3 DEF IsActive
    <3>5. \A c \in CallIds : ToneOK(c)'
      BY <3>2, <3>3, <3>4, ToneKept DEF ToneInv
    <3> QED
      BY <3>5 DEF ToneInv
  <2> QED
    BY <2>1, <2>2, <2>3
<1>2. ASSUME NEW c \in CallIds, CallEvent(c) PROVE ToneInv'
  <2>1. CASE HangupCompletes(c)
    <3>1. /\ call[c].state = "disconnected" /\ call'[c] = FreeCall
          /\ \A d \in CallIds \ {c} : call'[d] = call[d]
          /\ UNCHANGED <<cb, phase, connected, played, talked>>
      BY <2>1, Answered DEF HangupCompletes, rest
    <3>2. \A d \in CallIds : /\ Pending(d)' <=> Pending(d)
                             /\ IsActive(d)' <=> IsActive(d)
                             /\ call'[d].state = "confirmed" <=> call[d].state = "confirmed"
      BY <3>1 DEF Pending, IsActive, FreeCall
    <3> QED
      BY <3>1, <3>2, ToneKept DEF ToneInv
  <2> QED
    BY <1>2, <2>1, EventBegins, ToneBegins
<1>3. CASE RefreshRequest
  <2>1. /\ \A u \in Threads : cb'[u].pc = "handle" => cb'[u] = cb[u]
        /\ \A u \in Threads : cb[u].pc = "handle" => cb'[u] = cb[u]
        /\ UNCHANGED <<call, phase, connected, played, talked>>
    BY <1>0, <1>3 DEF RefreshRequest, Ready, Refresh, NoFrame, Running, rest
  <2>2. \A c \in CallIds : Pending(c)' <=> Pending(c)
    BY <2>1 DEF Pending
  <2> QED
    BY <2>1, <2>2, ToneKept DEF ToneInv, IsActive
<1>4. CASE StopAllAudioCues \/ DestroyJoin
  <2>1. /\ phase' # "on" /\ UNCHANGED <<call, cb, talked>>
        /\ connected' = {} \/ connected' = connected
    BY <1>4 DEF StopAllAudioCues, DestroyJoin
  <2> QED
    BY <2>1 DEF ToneInv, ToneOK, Pending, IsActive
<1>5. CASE Initialize \/ DestroyDone
  <2>1. /\ UNCHANGED <<cb, connected, talked>>
        /\ \A u \in Threads : ~Running(u)
        /\ \A c \in CallIds : ~IsActive(c) /\ ~IsActive(c)'
    BY <1>5 DEF Initialize, DestroyDone, CallbackInv, PhaseOK, Threads, NoCalls,
       FreeCall, IsActive
  <2>2. \A c \in CallIds : ~Pending(c) /\ ~Pending(c)'
    BY <2>1 DEF Pending, Running
  <2> QED
    BY <2>1, <2>2 DEF ToneInv, ToneOK, SlotOK
<1>6. CASE UNCHANGED vars
  BY <1>6 DEF vars, ToneInv, ToneOK, SlotOK, Pending, IsActive
<1> QED
  BY <1>1, <1>2, <1>3, <1>4, <1>5, <1>6 DEF Next, Lifecycle

\* No slot was used in the initial state.
LEMMA InitTone == Init => ToneInv
  BY DEF Init, NoCalls, FreeCall, NoFrame, ToneInv, ToneOK, SlotOK, Pending, IsActive

\* A call that was connected gets the hang-up tone when it ends, exactly once, and
\* no other call gets it: the sets that decide it are right by then for every
\* sequence of calls in a slot, on whichever thread their callbacks run.
THEOREM TonePlaysOnce == Spec => HangupToneOnce
<1>1. IInv /\ CallbackInv /\ ToneInv /\ [Next]_vars => [HangupToneStep]_vars
  <2> SUFFICES ASSUME IInv, CallbackInv, ToneInv, Next,
                      NEW t \in Threads, cb[t].pc = "handle", cb'[t].pc # "handle",
                      phase = "on"
               PROVE  cb'[t].pc = "play" <=>
                        cb[t].state = "disconnected" /\ cb[t].call \in talked
    BY DEF HangupToneStep
  <2>1. Handle(t)
    <3>1. ASSUME NEW u \in Threads, ThreadStep(u) PROVE Handle(t)
      <4>1. u # t => cb'[t].pc = cb[t].pc
        <5>1. CASE Apply(u)
          BY <5>1, ApplyEnds DEF Ends
        <5>2. CASE ~Apply(u)
          BY <3>1, <5>2, ThreadContinues DEF Continues
        <5> QED
          BY <5>1, <5>2
      <4> QED
        BY <3>1, <4>1 DEF ThreadStep, PlayHangup, Enumerate, LookAt, TakeMutex, Apply
    <3>2. ASSUME NEW c \in CallIds, CallEvent(c) PROVE FALSE
      BY <3>2, EventBegins DEF Begins, HangupCompletes, Running
    <3>3. CASE RefreshRequest
      BY <3>3 DEF RefreshRequest, Ready, Refresh, Running, IInv, TypeOK
    <3>4. CASE Lifecycle
      BY <3>4 DEF Lifecycle, Initialize, StopAllAudioCues, DestroyJoin, DestroyDone
    <3> QED
      BY <3>1, <3>2, <3>3, <3>4 DEF Next
  <2> DEFINE c == cb[t].call
  <2>2. c \in CallIds /\ Pending(c) /\ ToneOK(c)
    BY DEF IInv, FrameKnown, ToneInv, Pending
  <2>3. cb[t].state = "disconnected" => ~IsActive(c)
    BY DEF CallbackInv, SaysOK, IsActive, Running
  <2>4. cb'[t].pc = "play" <=> cb[t].state = "disconnected" /\ c \in connected \ played
    BY <2>1 DEF Handle, IInv, TypeOK
  <2> QED
    BY <2>2, <2>3, <2>4 DEF ToneOK, SlotOK
<1>2. Spec => []ToneInv
  BY Invariance, CallbackInvariance, InitTone, StepTone, PTL DEF Spec
<1> QED
  BY <1>1, <1>2, Invariance, CallbackInvariance, PTL DEF Spec, HangupToneOnce

-----------------------------------------------------------------------------
(***************************************************************************)
(* The ringtone and the ringback tone. ReasonInv says that a refresh that  *)
(* is not overtaken, and the only one under way, has found what the calls  *)
(* it has looked at ask for: whoever changes a call meanwhile has a        *)
(* refresh of its own ahead, and marks this one overtaken if it is applied *)
(* first.                                                                  *)
(***************************************************************************)

\* What a refresh that was not overtaken has found so far, unless another thread
\* is yet to refresh.
ScanOK(t) ==
  LET f == cb[t]
  IN /\ f.pc \in {"handle", "play", "enum"} => ~f.incoming /\ ~f.ringback
     /\ /\ f.pc \in {"scan", "apply"} /\ ~f.late
        /\ \A u \in Threads \ {t} : ~Running(u)
        => /\ f.incoming <=> \E c \in CallIds \ f.todo : Waiting(c)
           /\ f.ringback <=> \E c \in CallIds \ f.todo : Ringing(c)

\* The tones that play have their reason.
Reasoned ==
  /\ cues.id["ringtone"] # NoPlayer => \E c \in CallIds : Waiting(c)
  /\ cues.id["ringback"] # NoPlayer => /\ \E c \in CallIds : Ringing(c)
                                       /\ \A c \in CallIds : ~Waiting(c)

ReasonInv ==
  /\ \A t \in Threads : ScanOK(t)
  /\ (\A t \in Threads : ~Running(t)) /\ ~disorder => Reasoned

\* A refresh leaves playing only the tone it decided on.
LEMMA RefreshTones ==
  ASSUME PlayersOK(cues), NEW incoming \in BOOLEAN, NEW ringback \in BOOLEAN,
         NEW q \in Refreshed(incoming, ringback)
  PROVE  /\ q.id["ringtone"] # NoPlayer => incoming
         /\ q.id["ringback"] # NoPlayer => ~incoming /\ ringback
<1> DEFINE p1 == Stop(cues, "ringback")
           p2 == Stop(p1, "hangup")
           r1 == Stop(cues, "ringtone")
           r2 == Stop(r1, "hangup")
           r3 == Stop(r1, "ringback")
<1>0. /\ "ringtone" \in Cues /\ "ringback" \in Cues /\ "hangup" \in Cues
  BY DEF Cues
<1>1. PlayersOK(p1) /\ p1.id["ringback"] = NoPlayer
  BY <1>0, StopCue
<1>2. PlayersOK(r1) /\ r1.id["ringtone"] = NoPlayer
  BY <1>0, StopCue
<1>3. /\ incoming => q \in Start(p2, "ringtone")
      /\ ~incoming /\ ringback => q \in Start(r2, "ringback")
      /\ ~incoming /\ ~ringback => q = r3
  BY DEF Refreshed
<1> HIDE DEF p1, r1
<1>4. PlayersOK(p2) /\ p2.id["ringback"] = NoPlayer
  BY <1>0, <1>1, StopCue, Zenon
<1>5. PlayersOK(r2) /\ r2.id["ringtone"] = NoPlayer
  BY <1>0, <1>2, StopCue, Zenon
<1>6. r3.id["ringtone"] = NoPlayer /\ r3.id["ringback"] = NoPlayer
  BY <1>0, <1>2, StopCue, Zenon
<1> HIDE DEF p2, r2, r3
<1>7. incoming => q.id["ringback"] = NoPlayer
  BY <1>0, <1>3, <1>4, StartCue
<1>8. ~incoming /\ ringback => q.id["ringtone"] = NoPlayer
  BY <1>0, <1>3, <1>5, StartCue
<1> QED
  BY <1>3, <1>6, <1>7, <1>8

\* While another thread is yet to refresh, nothing more is asked of a refresh.
LEMMA OthersRunning ==
  ASSUME NEW t \in Threads, Running(t)', \A u \in Threads \ {t} : cb'[u] = cb[u],
         \A u \in Threads : ScanOK(u), ScanOK(t)'
  PROVE  ReasonInv'
<1>1. ASSUME NEW u \in Threads \ {t} PROVE ScanOK(u)'
  BY <1>1 DEF ScanOK
<1> QED
  BY <1>1 DEF ReasonInv

\* A step that starts and ends no callback, and changes none of the calls the tones
\* are for and no tone.
LEMMA ReasonKept ==
  ASSUME ReasonInv, cb' = cb, cues'.id = cues.id, disorder' = disorder,
         \A c \in CallIds : /\ Waiting(c)' <=> Waiting(c)
                            /\ Ringing(c)' <=> Ringing(c)
  PROVE  ReasonInv'
<1>1. \A t \in Threads : ScanOK(t)'
  BY DEF ReasonInv, ScanOK, Running
<1>2. Reasoned => Reasoned'
  BY DEF Reasoned
<1> QED
  BY <1>1, <1>2 DEF ReasonInv, Running

\* A call that is over, or whose slot is free, asks for no tone.
LEMMA NoTone ==
  ASSUME NEW c \in CallIds, call[c].state \in {"free", "disconnected"}
  PROVE  ~Waiting(c) /\ ~Ringing(c)
  BY DEF Waiting, Ringing

\* What a refresh has found is right as long as it is the only one.
LEMMA ReasonScans ==
  ASSUME IInv, CallbackInv, ReasonInv, NEW t \in Threads, ThreadStep(t), ~Apply(t)
  PROVE  ReasonInv'
<1>0. /\ cb[t] \in Frame /\ cb \in [Threads -> Frame] /\ Continues(t)
      /\ ScanOK(t)
  BY ThreadContinues DEF IInv, TypeOK, ReasonInv
<1>1. /\ Running(t)' /\ call' = call /\ \A u \in Threads \ {t} : cb'[u] = cb[u]
      /\ \A u \in Threads \ {t} : Running(u)' <=> Running(u)
  BY <1>0 DEF Continues, Running
<1>2. CASE Handle(t) \/ PlayHangup(t)
  <2>1. /\ cb'[t].pc \in {"play", "enum"} /\ cb[t].pc \in {"handle", "play"}
        /\ cb'[t].incoming = cb[t].incoming /\ cb'[t].ringback = cb[t].ringback
    BY <1>0, <1>2 DEF Handle, PlayHangup, Frame
  <2>2. ScanOK(t)'
    BY <1>0, <2>1 DEF ScanOK
  <2> QED
    BY <1>1, <2>2, OthersRunning DEF ReasonInv
<1>3. CASE Enumerate(t)
  <2>1. /\ cb[t].pc = "enum" /\ cb'[t].pc = "scan" /\ phase # "off"
        /\ cb'[t].incoming = cb[t].incoming /\ cb'[t].ringback = cb[t].ringback
        /\ cb'[t].todo = EnumCalls
    BY <1>0, <1>3 DEF Enumerate, Frame, CallbackInv, PhaseOK, Running, Threads
  <2>2. ~cb[t].incoming /\ ~cb[t].ringback
    BY <1>0, <2>1 DEF ScanOK
  <2>3. \A c \in CallIds \ EnumCalls : ~Waiting(c)' /\ ~Ringing(c)'
    BY <1>1 DEF EnumCalls, Waiting, Ringing
  <2>4. ScanOK(t)'
    BY <2>1, <2>2, <2>3 DEF ScanOK
  <2> QED
    BY <1>1, <2>4, OthersRunning DEF ReasonInv
<1>4. ASSUME NEW c \in CallIds, LookAt(t, c) PROVE ReasonInv'
  <2>1. /\ cb[t].pc = "scan" /\ cb'[t].pc = "scan" /\ cb'[t].late = cb[t].late
        /\ cb'[t].todo = cb[t].todo \ {c} /\ c \in cb[t].todo
        /\ cb'[t].incoming <=> cb[t].incoming \/ Waiting(c)
        /\ cb'[t].ringback <=> cb[t].ringback \/ Ringing(c)
    BY <1>0, <1>4 DEF LookAt, Frame
  <2>2. CallIds \ cb'[t].todo = (CallIds \ cb[t].todo) \cup {c}
    BY <2>1
  <2>3. \A d \in CallIds : (Waiting(d)' <=> Waiting(d)) /\ (Ringing(d)' <=> Ringing(d))
    BY <1>1 DEF Waiting, Ringing
  <2>4. ScanOK(t)'
    BY <1>0, <1>1, <2>1, <2>2, <2>3 DEF ScanOK
  <2> QED
    BY <1>1, <2>4, OthersRunning DEF ReasonInv
<1>5. CASE TakeMutex(t)
  <2>1. /\ cb[t].pc = "scan" /\ cb'[t].pc = "apply" /\ cb'[t].late = cb[t].late
        /\ cb'[t].todo = cb[t].todo
        /\ cb'[t].incoming = cb[t].incoming /\ cb'[t].ringback = cb[t].ringback
    BY <1>0, <1>5 DEF TakeMutex, Frame
  <2>2. \A d \in CallIds : (Waiting(d)' <=> Waiting(d)) /\ (Ringing(d)' <=> Ringing(d))
    BY <1>1 DEF Waiting, Ringing
  <2>3. ScanOK(t)'
    BY <1>0, <1>1, <2>1, <2>2 DEF ScanOK
  <2> QED
    BY <1>1, <2>3, OthersRunning DEF ReasonInv
<1> QED
  BY <1>2, <1>3, <1>4, <1>5 DEF ThreadStep

\* The refresh that is applied last, and was not overtaken, decides rightly.
LEMMA ReasonApplies ==
  ASSUME IInv, CallbackInv, ReasonInv, NEW t \in Threads, Apply(t)
  PROVE  ReasonInv'
<1>0. Ends(t) /\ cb[t] \in Frame
  BY ApplyEnds DEF IInv, TypeOK
<1>1. \A u \in Threads \ {t} : cb'[u].late /\ cb'[u].pc = cb[u].pc
                               /\ cb'[u].incoming = cb[u].incoming
                               /\ cb'[u].ringback = cb[u].ringback
  BY <1>0 DEF Ends
<1>2. ASSUME NEW u \in Threads PROVE ScanOK(u)'
  BY <1>0, <1>1 DEF Ends, ScanOK, ReasonInv
<1>3. ASSUME \A u \in Threads : ~Running(u)', ~disorder' PROVE Reasoned'
  <2>1. /\ ~cb[t].late /\ cb[t].pc = "apply" /\ cb[t].todo = {}
        /\ \A u \in Threads \ {t} : ~Running(u)
    BY <1>0, <1>1, <1>3 DEF Apply, Ends, Running
  <2>2. /\ cb[t].incoming <=> \E c \in CallIds : Waiting(c)
        /\ cb[t].ringback <=> \E c \in CallIds : Ringing(c)
    BY <2>1 DEF ReasonInv, ScanOK
  <2>3. \A c \in CallIds : /\ Waiting(c)' <=> Waiting(c)
                           /\ Ringing(c)' <=> Ringing(c)
    <3> TAKE c \in CallIds
    <3>1. call'[c] = call[c] \/ (call[c].state = "disconnected" /\ call'[c] = FreeCall)
      BY <1>0 DEF Ends, CallbackInv, SaysOK, Running
    <3> QED
      BY <3>1 DEF FreeCall, Waiting, Ringing
  <2>4. cues' \in Refreshed(cb[t].incoming, cb[t].ringback)
    BY DEF Apply
  <2>5. /\ cues'.id["ringtone"] # NoPlayer => cb[t].incoming
        /\ cues'.id["ringback"] # NoPlayer => ~cb[t].incoming /\ cb[t].ringback
    BY <1>0, <2>4, RefreshTones DEF IInv, Frame
  <2> QED
    BY <2>2, <2>3, <2>5 DEF Reasoned
<1> QED
  BY <1>2, <1>3 DEF ReasonInv

\* Every step keeps what is said of the tones and of the refreshes.
LEMMA StepReason == IInv /\ CallbackInv /\ ReasonInv /\ [Next]_vars => ReasonInv'
<1> SUFFICES ASSUME IInv, CallbackInv, ReasonInv, [Next]_vars PROVE ReasonInv'
  OBVIOUS
<1>0. cb \in [Threads -> Frame] /\ "ui" \in Threads
  BY DEF IInv, TypeOK, Threads
<1>1. ASSUME NEW t \in Threads, ThreadStep(t) PROVE ReasonInv'
  BY <1>1, ReasonScans, ReasonApplies
<1>2. ASSUME NEW c \in CallIds, CallEvent(c) PROVE ReasonInv'
  <2>1. CASE HangupCompletes(c)
    <3>1. /\ call[c].state = "disconnected" /\ call'[c] = FreeCall
          /\ \A d \in CallIds \ {c} : call'[d] = call[d]
          /\ UNCHANGED <<cb, cues, disorder>>
      BY <2>1, Answered DEF HangupCompletes, rest
    <3>2. \A d \in CallIds : /\ Waiting(d)' <=> Waiting(d)
                             /\ Ringing(d)' <=> Ringing(d)
      BY <3>1 DEF Waiting, Ringing, FreeCall
    <3> QED
      BY <3>1, <3>2, ReasonKept
  <2>2. ASSUME NEW t \in Threads, Begins(t, c) PROVE ReasonInv'
    <3>1. ScanOK(t)' /\ Running(t)' /\ \A u \in Threads \ {t} : cb'[u] = cb[u]
      BY <2>2 DEF Begins, ScanOK, Running
    <3> QED
      BY <3>1, OthersRunning DEF ReasonInv
  <2> QED
    BY <1>2, <2>1, <2>2, EventBegins
<1>3. CASE RefreshRequest
  <2>1. /\ cb'["ui"].pc = "enum" /\ ~cb'["ui"].incoming /\ ~cb'["ui"].ringback
        /\ \A u \in Threads \ {"ui"} : cb'[u] = cb[u]
    BY <1>0, <1>3 DEF RefreshRequest, Refresh, NoFrame
  <2>2. ScanOK("ui")' /\ Running("ui")'
    BY <2>1 DEF ScanOK, Running
  <2> QED
    BY <1>0, <2>1, <2>2, OthersRunning DEF ReasonInv
<1>4. CASE Initialize \/ DestroyJoin
  BY <1>4, ReasonKept DEF Initialize, DestroyJoin, Waiting, Ringing
<1>5. CASE StopAllAudioCues
  <2> DEFINE p1 == Stop(cues, "ringtone")
             p2 == Stop(p1, "ringback")
  <2>1. "ringtone" \in Cues /\ "ringback" \in Cues /\ "hangup" \in Cues
    BY DEF Cues
  <2>2. PlayersOK(p1) /\ p1.id["ringtone"] = NoPlayer
    BY <2>1, StopCue DEF IInv
  <2>3. cues' = Stop(p2, "hangup") /\ UNCHANGED <<call, cb, disorder>>
    BY <1>5 DEF StopAllAudioCues
  <2> HIDE DEF p1
  <2>4. PlayersOK(p2) /\ p2.id["ringtone"] = NoPlayer /\ p2.id["ringback"] = NoPlayer
    BY <2>1, <2>2, StopCue, Zenon
  <2> HIDE DEF p2
  <2>5. cues'.id["ringtone"] = NoPlayer /\ cues'.id["ringback"] = NoPlayer
    BY <2>1, <2>3, <2>4, StopCue, Zenon
  <2>6. Reasoned'
    BY <2>5 DEF Reasoned
  <2>7. \A u \in Threads : ScanOK(u)'
    BY <2>3 DEF ReasonInv, ScanOK, Running, Waiting, Ringing
  <2> QED
    BY <2>6, <2>7 DEF ReasonInv
<1>6. CASE DestroyDone
  <2>1. /\ UNCHANGED <<cb, disorder>> /\ cues'.id = cues.id
        /\ \A c \in CallIds : ~IsActive(c) /\ call'[c] = FreeCall
    BY <1>6 DEF DestroyDone, NoCalls, IInv, PlayersOK, Players
  <2>2. \A c \in CallIds : call[c].state \in {"free", "disconnected"}
    BY <2>1 DEF IsActive, CallbackInv, TableOK
  <2>3. \A c \in CallIds : /\ Waiting(c)' <=> Waiting(c)
                           /\ Ringing(c)' <=> Ringing(c)
    BY <2>1, <2>2 DEF Waiting, Ringing, FreeCall
  <2> QED
    BY <2>1, <2>3, ReasonKept
<1>7. CASE UNCHANGED vars
  BY <1>7, ReasonKept DEF vars, Waiting, Ringing
<1> QED
  BY <1>1, <1>2, <1>3, <1>4, <1>5, <1>6, <1>7 DEF Next, Lifecycle

\* No tone plays in the initial state.
LEMMA InitReason == Init => ReasonInv
  BY DEF Init, NoCues, NoFrame, ReasonInv, ScanOK, Reasoned, Running, Cues

\* However the two threads' refreshes overtake each other, once all is quiet the
\* tone that plays is one that some call asks for, unless the refresh applied last
\* was itself overtaken: a change of a call that a refresh has missed is always
\* followed by another refresh.
THEOREM TonesHaveReason == Spec => []CueHasReason
<1>1. ReasonInv => CueHasReason
  BY DEF ReasonInv, Reasoned, CueHasReason, Settled
<1>2. Spec => []ReasonInv
  BY Invariance, CallbackInvariance, InitReason, StepReason, PTL DEF Spec
<1> QED
  BY <1>1, <1>2, PTL

\* Callbacks that come after StopAllAudioCues leave at most the hang-up tone with a
\* player of an engine that is gone: their last refresh finds no call that waits or
\* rings, since pjsua_destroy has ended all of them.
THEOREM OnlyToneIsLeft == Spec => []OnlyToneOutlives
<1>1. CallbackInv /\ ReasonInv => OnlyToneOutlives
  <2> SUFFICES ASSUME CallbackInv, ReasonInv, phase = "off", ~disorder,
                      NEW k \in Cues, cues.id[k] # NoPlayer
               PROVE  k = "hangup"
    BY DEF OnlyToneOutlives
  <2>1. \A t \in Threads : ~Running(t)
    BY DEF CallbackInv, PhaseOK, Threads
  <2>2. \A c \in CallIds : ~Waiting(c) /\ ~Ringing(c)
    <3>1. \A c \in CallIds : call[c].state \in {"free", "disconnected"}
      BY DEF CallbackInv, PhaseOK, TableOK, IsActive
    <3> QED
      BY <3>1, NoTone
  <2> QED
    BY <2>1, <2>2 DEF ReasonInv, Reasoned, Cues
<1>2. Spec => []ReasonInv
  BY Invariance, CallbackInvariance, InitReason, StepReason, PTL DEF Spec
<1> QED
  BY <1>1, <1>2, CallbackInvariance, PTL

-----------------------------------------------------------------------------
(***************************************************************************)
(* The locks. LockInv says who holds which: audio_cue_mutex_ belongs to    *)
(* the thread that plays a tone or applies a refresh, and PJSUA_LOCK is    *)
(* held through a callback by the worker only, in the refresh that follows *)
(* an incoming call.                                                       *)
(***************************************************************************)

LockInv ==
  /\ \A t \in Threads : cb[t].pc \in {"play", "apply"} <=> mutex = t
  /\ ~cb["ui"].locked /\ ~cb["ui"].again
  /\ cb["worker"].locked => cb["worker"].pc \in {"enum", "scan", "apply"}

\* A callback that begins holds no lock, and only that of an incoming call will.
LEMMA LockBegins ==
  ASSUME IInv, LockInv, NEW t \in Threads, ~Running(t), mutex' = mutex,
         NEW c, NEW s, NEW again \in BOOLEAN, t = "ui" => ~again,
         Report(t, c, s, again) \/ Refresh(t, c)
  PROVE  LockInv'
<1>1. /\ cb'[t].pc \in {"handle", "enum"} /\ ~cb'[t].locked
      /\ t = "ui" => ~cb'[t].again
      /\ \A u \in Threads \ {t} : cb'[u] = cb[u]
  <2>0. cb \in [Threads -> Frame]
    BY DEF IInv, TypeOK
  <2>1. CASE Report(t, c, s, again)
    BY <2>0, <2>1 DEF Report, NoFrame
  <2>2. CASE Refresh(t, c)
    BY <2>0, <2>2 DEF Refresh, NoFrame
  <2> QED
    BY <2>1, <2>2
<1> QED
  BY <1>1 DEF LockInv, Running, Threads

\* A thread's step takes and leaves the locks as LockInv says.
LEMMA LockThread ==
  ASSUME IInv, LockInv, NEW t \in Threads, ThreadStep(t)
  PROVE  LockInv'
<1>0. /\ cb \in [Threads -> Frame] /\ mutex \in Threads \cup {NoThread}
      /\ \A u \in Threads : u # NoThread /\ cb[u] \in Frame
  BY DEF IInv, TypeOK, Threads, NoThread
<1>1. ASSUME ~Apply(t)
      PROVE  /\ \A u \in Threads \ {t} : cb'[u] = cb[u]
             /\ cb'[t].locked = cb[t].locked /\ cb'[t].again = cb[t].again
             /\ \/ /\ cb[t].pc = "handle" /\ mutex = NoThread
                   /\ \/ cb'[t].pc = "play" /\ mutex' = t
                      \/ cb'[t].pc = "enum" /\ mutex' = NoThread
                \/ cb[t].pc = "play" /\ cb'[t].pc = "enum" /\ mutex' = NoThread
                \/ /\ cb[t].pc \in {"enum", "scan"} /\ cb'[t].pc = "scan"
                   /\ mutex' = mutex
                \/ /\ cb[t].pc = "scan" /\ cb'[t].pc = "apply"
                   /\ mutex = NoThread /\ mutex' = t
  <2>1. CASE Handle(t)
    BY <1>0, <2>1 DEF Handle, Frame
  <2>2. CASE PlayHangup(t)
    BY <1>0, <2>2 DEF PlayHangup, Frame
  <2>3. CASE Enumerate(t)
    BY <1>0, <2>3 DEF Enumerate, Frame
  <2>4. ASSUME NEW c \in CallIds, LookAt(t, c)
        PROVE  /\ \A u \in Threads \ {t} : cb'[u] = cb[u]
               /\ cb'[t].locked = cb[t].locked /\ cb'[t].again = cb[t].again
               /\ cb[t].pc = "scan" /\ cb'[t].pc = "scan" /\ mutex' = mutex
    BY <1>0, <2>4 DEF LookAt, Frame
  <2>5. CASE TakeMutex(t)
    BY <1>0, <2>5 DEF TakeMutex, Frame
  <2> QED
    BY <1>1, <2>1, <2>2, <2>3, <2>4, <2>5 DEF ThreadStep
<1>2. CASE ~Apply(t)
  <2>1. cb'[t].pc \in {"play", "apply"} <=> mutex' = t
    BY <1>0, <1>1, <1>2 DEF LockInv
  <2>2. \A u \in Threads \ {t} : mutex' = u <=> mutex = u
    BY <1>0, <1>1, <1>2 DEF LockInv
  <2>3. cb'[t].locked /\ t = "worker" => cb'[t].pc \in {"enum", "scan", "apply"}
    BY <1>1, <1>2 DEF LockInv
  <2> QED
    BY <1>1, <1>2, <2>1, <2>2, <2>3 DEF LockInv, Threads
<1>3. CASE Apply(t)
  <2>1. /\ mutex = t /\ mutex' = NoThread /\ cb[t].pc = "apply"
        /\ cb'[t] = IF cb[t].again THEN [NoFrame EXCEPT !.pc = "enum",
                                                        !.call = cb[t].call,
                                                        !.locked = TRUE]
                    ELSE NoFrame
        /\ \A u \in Threads \ {t} : cb'[u] = [cb[u] EXCEPT !.late = TRUE]
    BY <1>3, Zenon DEF Apply, LockInv
  <2>2. /\ cb'[t].pc = IF cb[t].again THEN "enum" ELSE "none"
        /\ cb'[t].locked => cb[t].again
        /\ ~cb'[t].again
    <3>1. CASE cb[t].again
      BY <2>1, <3>1 DEF NoFrame
    <3>2. CASE ~cb[t].again
      BY <2>1, <3>2 DEF NoFrame
    <3> QED
      BY <3>1, <3>2
  <2>3. \A u \in Threads \ {t} :
          /\ cb'[u].pc = cb[u].pc /\ cb'[u].locked = cb[u].locked
          /\ cb'[u].again = cb[u].again
    <3>1. \A f \in Frame : LET g == [f EXCEPT !.late = TRUE]
                          IN g.pc = f.pc /\ g.locked = f.locked /\ g.again = f.again
      BY DEF Frame
    <3> QED
      BY <1>0, <2>1, <3>1, Zenon
  <2>4. \A u \in Threads : cb'[u].pc \in {"play", "apply"} <=> mutex' = u
    <3>1. cb'[t].pc \notin {"play", "apply"} /\ \A u \in Threads : mutex' # u
      BY <1>0, <2>1, <2>2
    <3>2. \A u \in Threads \ {t} : cb[u].pc \notin {"play", "apply"}
      BY <2>1 DEF LockInv
    <3> QED
      BY <2>3, <3>1, <3>2
  <2>5. t = "worker" \/ ~cb[t].again
    BY DEF LockInv, Threads
  <2>6. ~cb'["ui"].locked /\ ~cb'["ui"].again
    BY <2>2, <2>3, <2>5 DEF LockInv, Threads
  <2>7. cb'["worker"].locked => cb'["worker"].pc \in {"enum", "scan", "apply"}
    BY <2>2, <2>3 DEF LockInv, Threads
  <2> QED
    BY <2>4, <2>6, <2>7 DEF LockInv
<1> QED
  BY <1>2, <1>3

\* Every step keeps what is said of the locks.
LEMMA StepLock == IInv /\ LockInv /\ [Next]_vars => LockInv'
<1> SUFFICES ASSUME IInv, LockInv, [Next]_vars PROVE LockInv'
  OBVIOUS
<1>0. "ui" \in Threads /\ "worker" \in Threads
  BY DEF Threads
<1>1. ASSUME NEW t \in Threads, ThreadStep(t) PROVE LockInv'
  BY <1>1, LockThread
<1>2. ASSUME NEW c \in CallIds, CallEvent(c) PROVE LockInv'
  <2>1. CASE HangupCompletes(c)
    BY <2>1 DEF HangupCompletes, LockInv, rest
  <2>2. CASE IncomingCall(c)
    <3>1. /\ ~Running("worker") /\ mutex' = mutex
          /\ Report("worker", c, "early", TRUE)
      BY <2>2 DEF IncomingCall, Ready, rest
    <3> QED
      BY <1>0, <3>1, LockBegins
  <2>3. CASE MediaUp(c)
    <3>1. ~Running("worker") /\ mutex' = mutex /\ Refresh("worker", c)
      BY <2>3 DEF MediaUp, Ready, rest
    <3> QED
      BY <1>0, <3>1, LockBegins
  <2>4. CASE ~HangupCompletes(c) /\ ~IncomingCall(c) /\ ~MediaUp(c)
    <3>1. PICK t \in Threads, s \in InvStates :
            ~Running(t) /\ mutex' = mutex /\ Report(t, c, s, FALSE)
      BY <1>0, <1>2, <2>4 DEF CallEvent, MakeCall, AnswerCall, Provisional, Accepted,
         Confirmed, Progress, PeerEnds, HangupCall, DestroyHangup, Ready, InvStates,
         rest
    <3> QED
      BY <3>1, LockBegins
  <2> QED
    BY <2>1, <2>2, <2>3, <2>4
<1>3. CASE RefreshRequest
  BY <1>0, <1>3, LockBegins DEF RefreshRequest, Ready, rest
<1>4. CASE Lifecycle
  BY <1>4 DEF Lifecycle, Initialize, StopAllAudioCues, DestroyJoin, DestroyDone,
     LockInv
<1>5. CASE UNCHANGED vars
  BY <1>5 DEF vars, LockInv
<1> QED
  BY <1>1, <1>2, <1>3, <1>4, <1>5 DEF Next

\* No lock is held in the initial state.
LEMMA InitLock == Init => LockInv
  BY DEF Init, NoFrame, LockInv, Threads, NoThread

\* For any number of calls, the threads block each other only in the cycle of the
\* finding "lock_order": whoever waits for a lock otherwise waits for a thread that
\* goes on.
THEOREM OnlyTheCycleBlocks == Spec => []OnlyCycleBlocks
<1>1. IInv /\ LockInv => OnlyCycleBlocks
  <2> SUFFICES ASSUME IInv, LockInv, NoLockCycle, NEW t \in Threads, Running(t),
                      \A u \in Threads : ~Unblocked(u)
               PROVE  FALSE
    BY DEF OnlyCycleBlocks
  <2>1. mutex \in Threads \cup {NoThread} /\ Threads = {"ui", "worker"}
    BY DEF IInv, TypeOK, Threads
  <2>2. PjsuaFree("worker")
    BY DEF LockInv, PjsuaFree, Threads
  <2>3. Running("worker") => NeedsMutex("worker")
    BY <2>1, <2>2 DEF Unblocked
  <2>4. mutex # NoThread
    <3>1. SUFFICES ASSUME mutex = NoThread PROVE FALSE
      OBVIOUS
    <3>2. ~NeedsMutex(t) /\ ~NeedsMutex("worker")
      BY <2>1, <3>1 DEF Unblocked
    <3>3. ~cb["worker"].locked
      BY <2>3, <3>2 DEF LockInv, Running
    <3> QED
      BY <2>1, <2>2, <3>2, <3>3 DEF Unblocked, PjsuaFree, LockInv
  <2>5. mutex = "ui"
    <3>1. cb["worker"].pc \in {"play", "apply"} => ~NeedsMutex("worker")
      BY DEF NeedsMutex
    <3> QED
      BY <2>1, <2>3, <2>4, <3>1 DEF LockInv, Running
  <2>6. cb["ui"].pc \in {"play", "apply"} /\ ~NeedsMutex("ui") /\ Running("ui")
    BY <2>1, <2>5 DEF LockInv, NeedsMutex, Running
  <2>7. cb["worker"].locked
    BY <2>1, <2>6 DEF Unblocked, PjsuaFree
  <2>8. cb["worker"].pc = "scan" /\ cb["worker"].todo = {}
    BY <2>3, <2>7 DEF LockInv, NeedsMutex, Running
  <2> QED
    BY <2>1, <2>5, <2>6, <2>7, <2>8 DEF NoLockCycle, Unblocked
<1>2. Spec => []LockInv
  BY Invariance, InitLock, StepLock, PTL DEF Spec
<1> QED
  BY <1>1, <1>2, Invariance, PTL

-----------------------------------------------------------------------------
(***************************************************************************)
(* The players. What a cue does to its own player it does to no other      *)
(* cue's, as long as each has one of its own.                              *)
(***************************************************************************)

\* PlayersOwned, of any players.
Owned(p) ==
  \A k \in Cues : p.id[k] # NoPlayer =>
    /\ p.id[k] \in p.live
    /\ \A j \in Cues : p.id[j] = p.id[k] => j = k

\* Stopping a cue leaves the other cues their players.
LEMMA StopOwned ==
  ASSUME NEW p, PlayersOK(p), Owned(p), NEW k \in Cues
  PROVE  Owned(Stop(p, k))
<1> DEFINE q == Stop(p, k)
<1>1. /\ q.id[k] = NoPlayer
      /\ \A j \in Cues \ {k} : q.id[j] = p.id[j]
      /\ q.live = p.live \ {p.id[k]}
  BY DEF Stop, PlayersOK, Players
<1> HIDE DEF q
<1>2. Owned(q)
  BY <1>1 DEF Owned
<1> QED
  BY <1>2 DEF q

\* The engine gives a cue that starts a player no other cue has.
LEMMA StartOwned ==
  ASSUME NEW p, PlayersOK(p), Owned(p), NEW k \in Cues, NEW q \in Start(p, k)
  PROVE  Owned(q)
<1>1. CASE q = p
  BY <1>1
<1>2. CASE q # p
  <2> DEFINE F == PlayerIds \ p.live
             first == CHOOSE n \in F : \A m \in F : n <= m
  <2>1. /\ p.id[k] = NoPlayer
        /\ q = [id |-> [p.id EXCEPT ![k] = first],
                live |-> p.live \cup {first}]
    BY <1>2 DEF Start
  <2>2. F # {} /\ F \in SUBSET Nat
    BY <2>1, FreePlayer, PlayersAssumption
  <2>3. first \in F
    BY <2>2, LeastPlayer
  <2> HIDE DEF first
  <2>4. /\ q.id[k] = first /\ first \notin p.live
        /\ \A j \in Cues \ {k} : q.id[j] = p.id[j]
        /\ q.live = p.live \cup {first}
    BY <2>1, <2>3 DEF PlayersOK, Players
  <2>5. first # NoPlayer
    BY <2>3, PlayersAssumption
  <2> QED
    BY <2>4, <2>5 DEF Owned
<1> QED
  BY <1>1, <1>2

\* So a refresh leaves each cue a player of its own, or none.
LEMMA RefreshOwned ==
  ASSUME PlayersOK(cues), Owned(cues), NEW incoming, NEW ringback,
         NEW q \in Refreshed(incoming, ringback)
  PROVE  Owned(q)
<1> DEFINE p1 == Stop(cues, "ringback")
           p2 == Stop(p1, "hangup")
           r1 == Stop(cues, "ringtone")
           r2 == Stop(r1, "hangup")
           r3 == Stop(r1, "ringback")
<1>0. /\ "ringtone" \in Cues /\ "ringback" \in Cues /\ "hangup" \in Cues
  BY DEF Cues
<1>1. PlayersOK(p1) /\ Owned(p1) /\ PlayersOK(r1) /\ Owned(r1)
  BY <1>0, StopCue, StopOwned
<1>2. q \in Start(p2, "ringtone") \/ q \in Start(r2, "ringback") \/ q = r3
  BY DEF Refreshed
<1> HIDE DEF p1, r1
<1>3. /\ PlayersOK(p2) /\ Owned(p2) /\ PlayersOK(r2) /\ Owned(r2) /\ Owned(r3)
  BY <1>0, <1>1, StopCue, StopOwned, Zenon
<1> HIDE DEF p2, r2, r3
<1> QED
  BY <1>0, <1>2, <1>3, StartOwned

\* Whatever calls come and end and on whichever thread, only the end of the engine
\* takes a player that the service keeps; which one it can be OnlyToneIsLeft says.
THEOREM PlayersAreOwned == Spec => PlayersStayOwned
<1>1. IInv /\ [Next]_vars => [PlayersStep]_vars
  <2> SUFFICES ASSUME IInv, Next, Owned(cues),
                      ~(phase = "hangupAll" /\ phase' = "off")
               PROVE  Owned(cues')
    BY DEF PlayersStep, PlayersOwned, Owned
  <2>0. PlayersOK(cues) /\ \A k \in Cues : k \in {"ringtone", "ringback", "hangup"}
    BY DEF IInv, Cues
  <2>1. ASSUME NEW t \in Threads, ThreadStep(t) PROVE Owned(cues')
    <3>1. CASE PlayHangup(t)
      <4> DEFINE p == Stop(cues, "hangup")
      <4>1. "hangup" \in Cues
        BY DEF Cues
      <4>2. PlayersOK(p) /\ Owned(p) /\ cues' \in Start(p, "hangup")
        BY <2>0, <3>1, <4>1, StopCue, StopOwned DEF PlayHangup
      <4> HIDE DEF p
      <4> QED
        BY <4>1, <4>2, StartOwned
    <3>2. CASE Apply(t)
      BY <2>0, <3>2, RefreshOwned DEF Apply
    <3>3. CASE ~PlayHangup(t) /\ ~Apply(t)
      BY <2>1, <3>3 DEF ThreadStep, Handle, Enumerate, LookAt, TakeMutex
    <3> QED
      BY <3>1, <3>2, <3>3
  <2>2. CASE StopAllAudioCues
    <3> DEFINE p1 == Stop(cues, "ringtone")
               p2 == Stop(p1, "ringback")
    <3>1. "ringtone" \in Cues /\ "ringback" \in Cues /\ "hangup" \in Cues
      BY DEF Cues
    <3>2. PlayersOK(p1) /\ Owned(p1) /\ cues' = Stop(p2, "hangup")
      BY <2>0, <2>2, <3>1, StopCue, StopOwned DEF StopAllAudioCues
    <3> HIDE DEF p1
    <3>3. PlayersOK(p2) /\ Owned(p2)
      BY <3>1, <3>2, StopCue, StopOwned, Zenon
    <3> HIDE DEF p2
    <3> QED
      BY <3>1, <3>2, <3>3, StopOwned
  <2>3. CASE Initialize \/ DestroyJoin \/ RefreshRequest
    BY <2>3 DEF Initialize, DestroyJoin, RefreshRequest, rest
  <2>4. ASSUME NEW c \in CallIds, CallEvent(c) PROVE Owned(cues')
    BY <2>4 DEF CallEvent, MakeCall, IncomingCall, AnswerCall, Provisional, Accepted,
       Confirmed, Progress, MediaUp, PeerEnds, HangupCall, HangupCompletes,
       DestroyHangup, rest
  <2> QED
    BY <2>1, <2>2, <2>3, <2>4 DEF Next, Lifecycle, DestroyDone
<1> QED
  BY <1>1, Invariance, PTL DEF Spec, PlayersStayOwned
==============================================================================

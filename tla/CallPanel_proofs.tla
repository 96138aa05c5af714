-------------------------- MODULE CallPanel_proofs --------------------------
(***************************************************************************)
(* Theorems about CallPanel for every number of slots, calls, events and   *)
(* starts: type correctness, that every live call has a card once the      *)
(* events have come in, and that the cards and the call times agree with   *)
(* the calls, with the exceptions that MakeCall's own event makes when it  *)
(* was overtaken.                                                          *)
(***************************************************************************)
EXTENDS CallPanel, SequenceTheorems, TLAPS

-----------------------------------------------------------------------------
(* What the panel will show when the events on their way have come in.     *)

CardOf(e) == IF e.state = "disconnected" THEN NoCard ELSE e

\* Slot s has card v once evs have come in, on top of its card c.
Shows(s, evs, c, v) ==
  \/ \E n \in 1..Len(evs) :
       /\ evs[n].slot = s /\ CardOf(evs[n]) = v
       /\ \A m \in 1..Len(evs) : m > n => evs[m].slot # s
  \/ (\A m \in 1..Len(evs) : evs[m].slot # s) /\ c = v

Ends(e, s) == e.slot = s /\ e.state = "disconnected"

\* Slot s counts the time of call k, or of none, once evs have come in, on top of
\* the time c; k is 0 when the slot has no call.
Counts(s, evs, c, k) ==
  /\ \A m \in 1..Len(evs) :
       /\ evs[m].slot = s /\ evs[m].state = "confirmed"
       /\ \A n \in 1..Len(evs) : n > m => ~Ends(evs[n], s)
       => k # 0 /\ evs[m].number = k
  /\ (\A n \in 1..Len(evs) : ~Ends(evs[n], s)) /\ c # 0 => c = k

\* An appended event is the last of its slot and of no other.
LEMMA ShowsAppend ==
  ASSUME NEW evs \in Seq(Event), NEW e \in Event, NEW s \in Slots, NEW c, NEW v,
         \/ e.slot = s /\ CardOf(e) = v
         \/ e.slot # s /\ Shows(s, evs, c, v)
  PROVE  Shows(s, Append(evs, e), c, v)
<1> DEFINE new == Append(evs, e)
<1>1. /\ Len(evs) \in Nat /\ Len(new) = Len(evs) + 1
      /\ \A n \in 1..Len(evs) : new[n] = evs[n]
      /\ new[Len(evs) + 1] = e
  BY AppendProperties, LenProperties
<1> HIDE DEF new
<1>2. CASE e.slot = s /\ CardOf(e) = v
  <2>1. /\ Len(new) \in 1..Len(new) /\ new[Len(new)] = e
        /\ \A m \in 1..Len(new) : ~(m > Len(new))
    BY <1>1
  <2> QED
    BY <1>2, <2>1 DEF Shows, new
<1>3. CASE e.slot # s /\ \E n \in 1..Len(evs) :
             /\ evs[n].slot = s /\ CardOf(evs[n]) = v
             /\ \A m \in 1..Len(evs) : m > n => evs[m].slot # s
  <2>1. PICK n \in 1..Len(evs) :
             /\ evs[n].slot = s /\ CardOf(evs[n]) = v
             /\ \A m \in 1..Len(evs) : m > n => evs[m].slot # s
    BY <1>3
  <2>2. n \in 1..Len(new) /\ new[n] = evs[n]
    BY <1>1
  <2>3. ASSUME NEW m \in 1..Len(new), m > n
        PROVE  new[m].slot # s
    BY <1>1, <1>3, <2>1, <2>3
  <2> QED
    BY <2>1, <2>2, <2>3 DEF Shows, new
<1>4. CASE e.slot # s /\ (\A m \in 1..Len(evs) : evs[m].slot # s) /\ c = v
  <2>1. ASSUME NEW m \in 1..Len(new)
        PROVE  new[m].slot # s
    BY <1>1, <1>4
  <2> QED
    BY <1>4, <2>1 DEF Shows, new
<1> QED
  BY <1>2, <1>3, <1>4 DEF Shows

\* Handling the oldest event does not change what will be shown.
LEMMA ShowsTail ==
  ASSUME NEW evs \in Seq(Event), evs # <<>>, NEW s \in Slots, NEW c, NEW v, NEW d,
         d = IF Head(evs).slot = s THEN CardOf(Head(evs)) ELSE c,
         Shows(s, evs, c, v)
  PROVE  Shows(s, Tail(evs), d, v)
<1> DEFINE new == Tail(evs)
<1>1. /\ Len(evs) \in Nat \ {0} /\ Len(new) = Len(evs) - 1
      /\ \A n \in 1..Len(new) : new[n] = evs[n + 1]
  BY HeadTailProperties, EmptySeq
<1>2. Head(evs) = evs[1]
  OBVIOUS
<1> HIDE DEF new
<1>3. CASE \E n \in 1..Len(evs) :
             /\ evs[n].slot = s /\ CardOf(evs[n]) = v
             /\ \A m \in 1..Len(evs) : m > n => evs[m].slot # s
  <2>1. PICK n \in 1..Len(evs) :
             /\ evs[n].slot = s /\ CardOf(evs[n]) = v
             /\ \A m \in 1..Len(evs) : m > n => evs[m].slot # s
    BY <1>3
  <2>2. CASE n = 1
    <3>1. ASSUME NEW m \in 1..Len(new)
          PROVE  new[m].slot # s
      <4>1. m + 1 \in 1..Len(evs) /\ m + 1 > n
        BY <1>1, <2>2
      <4> QED
        BY <1>1, <2>1, <4>1
    <3>2. d = v
      BY <1>2, <2>1, <2>2
    <3> QED
      BY <3>1, <3>2 DEF Shows, new
  <2>3. CASE n > 1
    <3>1. n - 1 \in 1..Len(new) /\ new[n - 1] = evs[n]
      BY <1>1, <2>3
    <3>2. ASSUME NEW m \in 1..Len(new), m > n - 1
          PROVE  new[m].slot # s
      <4>1. m + 1 \in 1..Len(evs) /\ m + 1 > n
        BY <1>1, <3>2
      <4> QED
        BY <1>1, <2>1, <4>1
    <3> QED
      BY <2>1, <3>1, <3>2 DEF Shows, new
  <2> QED
    BY <2>2, <2>3
<1>4. CASE (\A m \in 1..Len(evs) : evs[m].slot # s) /\ c = v
  <2>1. ASSUME NEW m \in 1..Len(new)
        PROVE  new[m].slot # s
    <3>1. m + 1 \in 1..Len(evs)
      BY <1>1
    <3> QED
      BY <1>1, <1>4, <3>1
  <2>2. 1 \in 1..Len(evs)
    BY <1>1
  <2>3. d = v
    BY <1>2, <1>4, <2>2
  <2> QED
    BY <2>1, <2>3 DEF Shows, new
<1> QED
  BY <1>3, <1>4 DEF Shows

\* The end of a call leaves no time to count.
LEMMA CountsEnd ==
  ASSUME NEW evs \in Seq(Event), NEW e \in Event, NEW s \in Slots, NEW c, NEW k,
         Ends(e, s)
  PROVE  Counts(s, Append(evs, e), c, k)
<1> DEFINE new == Append(evs, e)
<1>1. /\ Len(evs) \in Nat /\ Len(new) = Len(evs) + 1 /\ new[Len(evs) + 1] = e
  BY AppendProperties, LenProperties
<1> HIDE DEF new
<1>2. Len(new) \in 1..Len(new) /\ Ends(new[Len(new)], s)
  BY <1>1
<1>3. ASSUME NEW m \in 1..Len(new), new[m].slot = s, new[m].state = "confirmed"
      PROVE  \E n \in 1..Len(new) : n > m /\ Ends(new[n], s)
  <2>1. m # Len(new)
    BY <1>2, <1>3 DEF Ends
  <2>2. Len(new) > m
    BY <1>1, <2>1
  <2> QED
    BY <1>2, <2>2
<1> QED
  BY <1>2, <1>3 DEF Counts, new

\* Another event counts for its own call only; the slot may have got that call
\* when it had none.
LEMMA CountsAppend ==
  ASSUME NEW evs \in Seq(Event), NEW e \in Event, NEW s \in Slots, NEW c, NEW k,
         NEW l, ~Ends(e, s), Counts(s, evs, c, k), k \in {l, 0},
         e.slot = s /\ e.state = "confirmed" => l # 0 /\ e.number = l
  PROVE  Counts(s, Append(evs, e), c, l)
<1> DEFINE new == Append(evs, e)
<1>1. /\ Len(evs) \in Nat /\ Len(new) = Len(evs) + 1
      /\ \A n \in 1..Len(evs) : new[n] = evs[n]
      /\ new[Len(evs) + 1] = e
  BY AppendProperties, LenProperties
<1> HIDE DEF new
<1>2. ASSUME NEW m \in 1..Len(new), new[m].slot = s, new[m].state = "confirmed",
             \A n \in 1..Len(new) : n > m => ~Ends(new[n], s)
      PROVE  l # 0 /\ new[m].number = l
  <2>1. CASE m = Len(new)
    BY <1>1, <1>2, <2>1
  <2>2. CASE m # Len(new)
    <3>1. m \in 1..Len(evs) /\ new[m] = evs[m]
      BY <1>1, <2>2
    <3>2. ASSUME NEW n \in 1..Len(evs), n > m
          PROVE  ~Ends(evs[n], s)
      BY <1>1, <1>2, <3>2
    <3>3. k # 0 /\ evs[m].number = k
      BY <1>2, <3>1, <3>2 DEF Counts
    <3> QED
      BY <3>1, <3>3
  <2> QED
    BY <2>1, <2>2
<1>3. ASSUME \A n \in 1..Len(new) : ~Ends(new[n], s), c # 0
      PROVE  c = l
  <2>1. ASSUME NEW n \in 1..Len(evs)
        PROVE  ~Ends(evs[n], s)
    <3>1. n \in 1..Len(new) /\ new[n] = evs[n]
      BY <1>1
    <3> QED
      BY <1>3, <3>1
  <2>2. c = k
    BY <1>3, <2>1 DEF Counts
  <2> QED
    BY <1>3, <2>2
<1> QED
  BY <1>2, <1>3 DEF Counts, new

\* Handling the oldest event does not change what will be counted.
LEMMA CountsTail ==
  ASSUME NEW evs \in Seq(Event), evs # <<>>, NEW s \in Slots, NEW c, NEW k, NEW d,
         Head(evs).slot # s => d = c,
         Head(evs).slot = s =>
           d = IF Head(evs).state = "disconnected" THEN 0
               ELSE IF Head(evs).state = "confirmed" /\ c = 0
               THEN Head(evs).number ELSE c,
         Counts(s, evs, c, k)
  PROVE  Counts(s, Tail(evs), d, k)
<1> DEFINE new == Tail(evs)
<1>1. /\ Len(evs) \in Nat \ {0} /\ Len(new) = Len(evs) - 1
      /\ \A n \in 1..Len(new) : new[n] = evs[n + 1]
  BY HeadTailProperties, EmptySeq
<1>2. Head(evs) = evs[1] /\ 1 \in 1..Len(evs)
  BY <1>1
<1> HIDE DEF new
<1>3. \A n \in 1..Len(evs) : n > 1 => n - 1 \in 1..Len(new) /\ new[n - 1] = evs[n]
  BY <1>1
<1>4. ASSUME NEW m \in 1..Len(new), new[m].slot = s, new[m].state = "confirmed",
             \A n \in 1..Len(new) : n > m => ~Ends(new[n], s)
      PROVE  k # 0 /\ new[m].number = k
  <2>1. m + 1 \in 1..Len(evs) /\ evs[m + 1] = new[m]
    BY <1>1
  <2>2. ASSUME NEW n \in 1..Len(evs), n > m + 1
        PROVE  ~Ends(evs[n], s)
    <3>1. n > 1 /\ n - 1 > m
      BY <1>1, <2>2
    <3> QED
      BY <1>3, <1>4, <3>1
  <2> QED
    BY <1>4, <2>1, <2>2 DEF Counts
<1>5. ASSUME \A n \in 1..Len(new) : ~Ends(new[n], s), d # 0
      PROVE  d = k
  <2>1. ASSUME NEW n \in 1..Len(evs), n > 1
        PROVE  ~Ends(evs[n], s)
    BY <1>3, <1>5, <2>1
  <2>2. ~Ends(evs[1], s)
    BY <1>2, <1>5 DEF Ends
  <2>3. \A n \in 1..Len(evs) : ~Ends(evs[n], s)
    <3>1. \A n \in 1..Len(evs) : n = 1 \/ n > 1
      BY <1>1
    <3> QED
      BY <2>1, <2>2, <3>1
  <2>4. CASE d = c
    BY <1>5, <2>3, <2>4 DEF Counts
  <2>5. CASE d # c
    <3>1. evs[1].slot = s /\ evs[1].state = "confirmed" /\ d = evs[1].number
      BY <1>2, <1>5, <2>5
    <3> QED
      BY <1>2, <2>3, <3>1 DEF Counts
  <2> QED
    BY <2>4, <2>5
<1> QED
  BY <1>4, <1>5 DEF Counts, new
-----------------------------------------------------------------------------
(* The invariant.                                                          *)

Card(s) == IF Live(s) THEN Info(s, call[s]) ELSE NoCard
Current(s) == IF Live(s) THEN number[s] ELSE 0

\* A live call will have a card unless it was wiped, and the right one unless it
\* was overtaken.
CardsComing ==
  \A s \in Slots : \E v \in Event :
    /\ Shows(s, events, cards[s], v)
    /\ Live(s) => v # NoCard \/ s \in wiped
    /\ s \notin overtaken => v = Card(s)

\* The time that will be counted is that of the slot's call.
TimesComing == \A s \in Slots \ overtaken : Counts(s, events, since[s], Current(s))

Numbered == \A s \in Slots : Live(s) => number[s] # 0

IInv == TypeOK /\ CardsComing /\ TimesComing /\ Numbered

\* The first slot is one, and its empty card is a card.
LEMMA Types == /\ 0 \in Slots /\ NoCard \in Event /\ NoEvent \in Event
               /\ 0 \in 0..MaxCalls /\ 0 \in 0..MaxStarts
<1>1. 0 \in Slots
  BY PanelAssumption DEF Slots
<1>2. 0 \in 0..MaxCalls /\ 0 \in 0..MaxStarts
  BY PanelAssumption
<1>3. NoCard \in Event
  BY <1>1, <1>2 DEF NoCard, NoEvent, Event
<1> QED
  BY <1>1, <1>2, <1>3 DEF NoCard

\* The start.
LEMMA InitIInv == Init => IInv
<1> SUFFICES ASSUME Init PROVE IInv
  OBVIOUS
<1>1. <<>> \in Seq(Event) /\ Len(<<>>) = 0
  BY EmptySeq
<1>2. TypeOK
  BY <1>1, Types DEF Init, TypeOK, Idle
<1>3. \A s \in Slots : ~Live(s)
  BY DEF Init, Live, States
<1>4. ASSUME NEW s \in Slots
      PROVE  Shows(s, events, cards[s], NoCard) /\ Counts(s, events, since[s], 0)
  BY <1>1 DEF Init, Shows, Counts
<1>5. CardsComing
  BY <1>3, <1>4, Types DEF CardsComing, Card
<1>6. TimesComing
  BY <1>3, <1>4 DEF TimesComing, Current
<1>7. Numbered
  BY <1>3 DEF Numbered
<1> QED
  BY <1>2, <1>5, <1>6, <1>7 DEF IInv

\* An event of slot s keeps what is coming, if it is true of the call there, or
\* ends it, or leaves it a card that counts as overtaken.
LEMMA EventComing ==
  ASSUME TypeOK, CardsComing, TimesComing,
         NEW s \in Slots, NEW e \in Event, e.slot = s,
         events' = Append(events, e), UNCHANGED <<cards, since>>,
         \A t \in Slots \ {s} : /\ call'[t] = call[t] /\ number'[t] = number[t]
                                /\ t \in overtaken' <=> t \in overtaken
                                /\ t \in wiped' <=> t \in wiped,
         Live(s)' => CardOf(e) # NoCard \/ s \in wiped',
         s \notin overtaken' => CardOf(e) = Card(s)',
         s \notin overtaken' =>
           \/ e.state = "disconnected"
           \/ /\ s \notin overtaken
              /\ Current(s) \in {Current(s)', 0}
              /\ e.state = "confirmed" => Current(s)' # 0 /\ e.number = Current(s)'
  PROVE  CardsComing' /\ TimesComing' /\ events' \in Seq(Event)
<1>0. events \in Seq(Event)
  BY DEF TypeOK
<1>1. events' \in Seq(Event)
  BY <1>0, AppendProperties
<1>2. CardOf(e) \in Event
  BY Types DEF CardOf
<1>3. ASSUME NEW t \in Slots \ {s}
      PROVE  (Live(t)' <=> Live(t)) /\ Card(t)' = Card(t) /\ Current(t)' = Current(t)
  BY <1>3 DEF Live, Card, Current, Info
<1>4. ASSUME NEW t \in Slots
      PROVE  \E v \in Event : /\ Shows(t, events', cards'[t], v)
                              /\ Live(t)' => v # NoCard \/ t \in wiped'
                              /\ t \notin overtaken' => v = Card(t)'
  <2>1. CASE t = s
    <3>1. Shows(s, events', cards'[s], CardOf(e))
      BY <1>0, <1>2, ShowsAppend
    <3> QED
      BY <1>2, <2>1, <3>1
  <2>2. CASE t # s
    <3>1. PICK v \in Event : /\ Shows(t, events, cards[t], v)
                             /\ Live(t) => v # NoCard \/ t \in wiped
                             /\ t \notin overtaken => v = Card(t)
      BY DEF CardsComing
    <3>2. Shows(t, events', cards'[t], v)
      BY <1>0, <2>2, <3>1, ShowsAppend
    <3> QED
      BY <1>3, <2>2, <3>1, <3>2
  <2> QED
    BY <2>1, <2>2
<1>5. ASSUME NEW t \in Slots, t \notin overtaken'
      PROVE  Counts(t, events', since'[t], Current(t)')
  <2>1. CASE t = s /\ e.state = "disconnected"
    BY <1>0, <2>1, CountsEnd DEF Ends
  <2>2. CASE t = s /\ e.state # "disconnected"
    <3>1. /\ s \notin overtaken /\ Current(s) \in {Current(s)', 0}
          /\ e.state = "confirmed" => Current(s)' # 0 /\ e.number = Current(s)'
      BY <1>5, <2>2
    <3>2. Counts(s, events, since[s], Current(s)) /\ ~Ends(e, s)
      BY <2>2, <3>1 DEF TimesComing, Ends
    <3> QED
      BY <1>0, <2>2, <3>1, <3>2, CountsAppend
  <2>3. CASE t # s
    <3>1. t \notin overtaken /\ Current(t)' = Current(t)
      BY <1>3, <1>5, <2>3
    <3>2. Counts(t, events, since[t], Current(t)) /\ ~Ends(e, t)
      BY <2>3, <3>1 DEF TimesComing, Ends
    <3> QED
      BY <1>0, <2>3, <3>1, <3>2, CountsAppend
  <2> QED
    BY <2>1, <2>2, <2>3
<1> QED
  BY <1>1, <1>4, <1>5 DEF CardsComing, TimesComing
\* A call begins in a free slot.
LEMMA BeginsStep ==
  ASSUME IInv, NEW s \in Slots, NEW st \in {"calling", "incoming"}, Begins(s, st),
         UNCHANGED <<engine, silent, starts, read, panel, overtaken>>,
         ui' \in {"idle", "made", "read", "shutdown"} \X Slots
  PROVE  IInv'
<1> DEFINE e == [slot |-> s, number |-> calls', state |-> st]
<1>1. /\ TypeOK /\ CardsComing /\ TimesComing /\ Numbered
      /\ call[s] = "free" /\ calls < MaxCalls
      /\ call' = [call EXCEPT ![s] = st]
      /\ calls' = calls + 1
      /\ number' = [number EXCEPT ![s] = calls']
      /\ events' = Append(events, e)
      /\ wiped' = wiped \ {s}
      /\ UNCHANGED <<engine, silent, starts, read, cards, since, muted, overtaken>>
  BY DEF IInv, Begins, panel
<1>2. calls' \in 1..MaxCalls
  BY <1>1, PanelAssumption DEF TypeOK
<1>3. e \in Event /\ e.slot = s /\ e.state = st /\ e.number = calls' /\ CardOf(e) = e
  BY <1>2 DEF Event, States, CardOf
<1>4. call'[s] = st /\ number'[s] = calls' /\ ~Live(s) /\ Live(s)'
  BY <1>1 DEF TypeOK, Live, States
<1>5. e # NoCard
  BY <1>3 DEF NoCard, NoEvent
<1>6. CardOf(e) = Card(s)'
  BY <1>3, <1>4 DEF Card, Info
<1>7. Current(s) = 0 /\ e.state # "confirmed"
  BY <1>3, <1>4 DEF Current
<1>8. \A t \in Slots \ {s} : call'[t] = call[t] /\ number'[t] = number[t]
  BY <1>1 DEF TypeOK
<1> HIDE DEF e
<1>9. CardsComing' /\ TimesComing' /\ events' \in Seq(Event)
  <2>1. \A t \in Slots \ {s} : (t \in wiped' <=> t \in wiped)
    BY <1>1
  <2> QED
    BY <1>1, <1>3, <1>5, <1>6, <1>7, <1>8, <2>1, EventComing
<1>10. TypeOK'
  <2>1. call' \in [Slots -> States \cup {"free", "ending", "over"}]
    BY <1>1 DEF TypeOK, States
  <2>2. number' \in [Slots -> 0..MaxCalls] /\ calls' \in 0..MaxCalls
    BY <1>1, <1>2 DEF TypeOK
  <2>3. wiped' \subseteq Slots
    BY <1>1 DEF TypeOK
  <2> QED
    BY <1>1, <1>9, <2>1, <2>2, <2>3 DEF TypeOK
<1>11. Numbered'
  <2>1. ASSUME NEW t \in Slots, Live(t)'
        PROVE  number'[t] # 0
    <3>1. CASE t = s
      BY <1>2, <1>4, <3>1
    <3>2. CASE t # s
      BY <1>1, <1>8, <2>1, <3>2 DEF Numbered, Live
    <3> QED
      BY <3>1, <3>2
  <2> QED
    BY <2>1 DEF Numbered
<1> QED
  BY <1>9, <1>10, <1>11 DEF IInv

\* A live call changes or ends.
LEMMA ChangesStep ==
  ASSUME IInv, NEW s \in Slots,
         NEW st \in {"early", "confirmed", "over", "ending"},
         Live(s), Changes(s, st),
         UNCHANGED <<engine, number, calls, silent, starts, ui, read, panel>>
  PROVE  IInv'
<1> DEFINE e == Info(s, st)
<1>1. /\ TypeOK /\ CardsComing /\ TimesComing /\ Numbered
      /\ call' = [call EXCEPT ![s] = st]
      /\ events' = Append(events, e)
      /\ overtaken' = IF st \in {"over", "ending"} THEN overtaken \ {s}
                      ELSE overtaken
      /\ wiped' = wiped \ {s}
      /\ UNCHANGED <<engine, number, calls, silent, starts, ui, read, cards, since,
                     muted>>
  BY DEF IInv, Changes, panel
<1>2. /\ e \in Event /\ e.slot = s /\ e.number = number[s]
      /\ e.state = IF st \in {"ending", "over"} THEN "disconnected" ELSE st
  BY <1>1 DEF Info, Event, States, TypeOK
<1>3. \A t \in Slots \ {s} : call'[t] = call[t]
  BY <1>1 DEF TypeOK
<1>4. call'[s] = st
  BY <1>1 DEF TypeOK
<1>5. Live(s)' <=> st \in {"early", "confirmed"}
  BY <1>4 DEF Live, States
<1>6. e.state # "disconnected" => CardOf(e) = e /\ e # NoCard
  BY DEF CardOf, NoCard, NoEvent
<1>7. Live(s)' => CardOf(e) # NoCard
  BY <1>2, <1>5, <1>6
<1>8. CardOf(e) = Card(s)'
  <2>1. CASE st \in {"early", "confirmed"}
    <3>1. Card(s)' = [slot |-> s, number |-> number[s], state |-> st]
      BY <1>1, <1>4, <1>5, <2>1 DEF Card, Info
    <3>2. CardOf(e) = e
      BY <1>2, <1>6, <2>1
    <3> QED
      BY <2>1, <3>1, <3>2 DEF Info
  <2>2. CASE st \in {"over", "ending"}
    <3>1. e.state = "disconnected"
      BY <1>2, <2>2
    <3>2. CardOf(e) = NoCard
      BY <3>1 DEF CardOf
    <3>3. Card(s)' = NoCard
      BY <1>5, <2>2 DEF Card, NoCard
    <3> QED
      BY <3>2, <3>3
  <2> QED
    BY <2>1, <2>2
<1>9. s \notin overtaken' =>
        \/ e.state = "disconnected"
        \/ /\ s \notin overtaken
           /\ Current(s) \in {Current(s)', 0}
           /\ e.state = "confirmed" => Current(s)' # 0 /\ e.number = Current(s)'
  <2>1. CASE st \in {"over", "ending"}
    BY <1>2, <2>1
  <2>2. CASE st \in {"early", "confirmed"}
    <3>1. Current(s)' = number[s] /\ Current(s) = number[s] /\ number[s] # 0
      BY <1>1, <1>5, <2>2 DEF Current, Numbered
    <3> QED
      BY <1>1, <1>2, <2>2, <3>1
  <2> QED
    BY <2>1, <2>2
<1> HIDE DEF e
<1>10. CardsComing' /\ TimesComing' /\ events' \in Seq(Event)
  <2>1. \A t \in Slots \ {s} : /\ t \in overtaken' <=> t \in overtaken
                               /\ t \in wiped' <=> t \in wiped
    BY <1>1
  <2> QED
    BY <1>1, <1>2, <1>3, <1>7, <1>8, <1>9, <2>1, EventComing
<1>11. TypeOK'
  <2>1. call' \in [Slots -> States \cup {"free", "ending", "over"}]
    BY <1>1 DEF TypeOK, States
  <2>2. overtaken' \subseteq Slots /\ wiped' \subseteq Slots
    BY <1>1 DEF TypeOK
  <2> QED
    BY <1>1, <1>10, <2>1, <2>2 DEF TypeOK
<1>12. Numbered'
  <2>1. ASSUME NEW t \in Slots, Live(t)'
        PROVE  number[t] # 0
    BY <1>1, <1>3, <2>1 DEF Numbered, Live
  <2> QED
    BY <1>1, <2>1 DEF Numbered
<1> QED
  BY <1>10, <1>11, <1>12 DEF IInv

\* An event of slot s that leaves every call as it is.
LEMMA EmitComing ==
  ASSUME IInv, NEW s \in Slots, NEW e \in Event, e.slot = s,
         events' = Append(events, e),
         overtaken' \in {overtaken, overtaken \cup {s}},
         wiped' \in {wiped \cup {s}, wiped \ {s}},
         UNCHANGED <<engine, call, number, calls, silent, starts, panel>>,
         ui' = Idle, read' = NoEvent,
         Live(s)' => CardOf(e) # NoCard \/ s \in wiped',
         s \notin overtaken' => CardOf(e) = Card(s)',
         s \notin overtaken' =>
           \/ e.state = "disconnected"
           \/ /\ s \notin overtaken
              /\ Current(s) \in {Current(s)', 0}
              /\ e.state = "confirmed" => Current(s)' # 0 /\ e.number = Current(s)'
  PROVE  IInv'
<1>1. TypeOK /\ CardsComing /\ TimesComing /\ Numbered /\ UNCHANGED <<cards, since>>
  BY DEF IInv, panel
<1>2. \A t \in Slots \ {s} : /\ call'[t] = call[t] /\ number'[t] = number[t]
                             /\ t \in overtaken' <=> t \in overtaken
                             /\ t \in wiped' <=> t \in wiped
  OBVIOUS
<1>3. CardsComing' /\ TimesComing' /\ events' \in Seq(Event)
  BY <1>1, <1>2, EventComing
<1>4. TypeOK'
  <2>1. overtaken' \subseteq Slots /\ wiped' \subseteq Slots
    BY <1>1 DEF TypeOK
  <2> QED
    BY <1>1, <1>3, <2>1, Types DEF TypeOK, Idle, panel
<1>5. Numbered'
  BY <1>1 DEF Numbered, Live
<1> QED
  BY <1>3, <1>4, <1>5 DEF IInv

\* EmitCall of MakeCall emits what it has read, which no longer counts when it is
\* not what the call does now.
LEMMA MakeCallEmitStep ==
  ASSUME IInv, MakeCallEmit
  PROVE  IInv'
<1>0. PICK s \in Slots : s = read.slot
  BY DEF IInv, TypeOK, Event
<1>1. /\ TypeOK /\ CardsComing /\ TimesComing /\ Numbered
      /\ read \in Event
      /\ events' = Append(events, read)
      /\ overtaken' = IF Right(read) THEN overtaken ELSE overtaken \cup {s}
      /\ wiped' = IF Live(s) /\ read.state = "disconnected" THEN wiped \cup {s}
                  ELSE wiped \ {s}
      /\ ui' = Idle /\ read' = NoEvent
      /\ UNCHANGED <<engine, call, number, calls, silent, starts, panel>>
  BY <1>0 DEF IInv, MakeCallEmit, native, panel, TypeOK
<1>2. /\ Live(s)' <=> Live(s)
      /\ Card(s)' = Card(s) /\ Current(s)' = Current(s)
  BY <1>1 DEF Live, Card, Current, Info
<1>3. read.state # "disconnected" => CardOf(read) = read /\ read # NoCard
  BY DEF CardOf, NoCard, NoEvent
<1>4. Live(s)' => CardOf(read) # NoCard \/ s \in wiped'
  BY <1>1, <1>2, <1>3
<1>5. ASSUME s \notin overtaken'
      PROVE  s \notin overtaken /\ Right(read)
  BY <1>1, <1>5
<1>6. CASE Live(s)
  <2>1. ASSUME s \notin overtaken'
        PROVE  /\ s \notin overtaken /\ read = Info(s, call[s])
               /\ read.number = number[s] /\ read.state # "disconnected"
    <3>1. s \notin overtaken /\ read = Info(s, call[s])
      BY <1>0, <1>5, <1>6, <2>1 DEF Right
    <3> QED
      BY <1>6, <3>1 DEF Info, Live, States
  <2>2. s \notin overtaken' => CardOf(read) = Card(s)'
    BY <1>2, <1>3, <1>6, <2>1 DEF Card
  <2>3. Current(s) = number[s] /\ number[s] # 0
    BY <1>1, <1>6 DEF Current, Numbered
  <2> QED
    BY <1>0, <1>1, <1>2, <1>4, <2>1, <2>2, <2>3, EmitComing
<1>7. CASE ~Live(s)
  <2>1. ASSUME s \notin overtaken'
        PROVE  read.state = "disconnected" /\ CardOf(read) = Card(s)'
    <3>1. read.state = "disconnected"
      BY <1>0, <1>5, <1>7, <2>1 DEF Right
    <3> QED
      BY <1>2, <1>7, <3>1 DEF CardOf, Card
  <2> QED
    BY <1>0, <1>1, <1>2, <1>4, <2>1, EmitComing
<1> QED
  BY <1>6, <1>7

\* Steps that emit nothing, and leave every live call as it is.
LEMMA SilentStep ==
  ASSUME IInv, TypeOK',
         UNCHANGED <<events, cards, since, overtaken, wiped, number>>,
         \A s \in Slots : call'[s] = call[s] \/ (~Live(s) /\ call'[s] = "free")
  PROVE  IInv'
<1>1. ASSUME NEW s \in Slots
      PROVE  (Live(s)' <=> Live(s)) /\ Card(s)' = Card(s) /\ Current(s)' = Current(s)
  <2>1. Live(s)' <=> Live(s)
    BY DEF Live, States
  <2>2. Live(s) => call'[s] = call[s]
    OBVIOUS
  <2> QED
    BY <2>1, <2>2 DEF Card, Current, Info
<1>2. CardsComing'
  BY <1>1 DEF IInv, CardsComing
<1>3. TimesComing'
  BY <1>1 DEF IInv, TimesComing
<1>4. Numbered'
  BY <1>1 DEF IInv, Numbered
<1> QED
  BY <1>2, <1>3, <1>4 DEF IInv

\* The oldest event comes in.
LEMMA HandleStep ==
  ASSUME IInv, HandleCall
  PROVE  IInv'
<1> DEFINE e == Head(events)
           card(s) == IF e.slot = s THEN CardOf(e) ELSE cards[s]
           time(s) == IF e.state = "disconnected" THEN 0
                      ELSE IF e.state = "confirmed" /\ since[s] = 0 THEN e.number
                      ELSE since[s]
<1>1. /\ TypeOK /\ CardsComing /\ TimesComing /\ Numbered
      /\ events \in Seq(Event) /\ events # <<>> /\ events' = Tail(events)
      /\ cards' = [cards EXCEPT ![e.slot] = CardOf(e)]
      /\ since' = [since EXCEPT ![e.slot] = time(e.slot)]
      /\ UNCHANGED <<engine, call, number, calls, silent, starts, ui, read, muted,
                     overtaken, wiped>>
  BY DEF IInv, TypeOK, HandleCall, native, histories, CardOf
<1>2. e \in Event /\ Tail(events) \in Seq(Event)
  BY <1>1, HeadTailProperties
<1>3. e.slot \in Slots /\ e.number \in 0..MaxCalls
  BY <1>2 DEF Event
<1>4. CardOf(e) \in Event
  BY <1>2, Types DEF CardOf
<1>5. ASSUME NEW s \in Slots
      PROVE  cards'[s] = card(s) /\ since'[s] = IF e.slot = s THEN time(s) ELSE since[s]
  BY <1>1, <1>3 DEF TypeOK
<1>6. ASSUME NEW s \in Slots
      PROVE  (Live(s)' <=> Live(s)) /\ Card(s)' = Card(s) /\ Current(s)' = Current(s)
  BY <1>1 DEF Live, Card, Current, Info
<1>7. CardsComing'
  <2>1. ASSUME NEW s \in Slots
        PROVE  \E v \in Event : /\ Shows(s, events', cards'[s], v)
                                /\ Live(s)' => v # NoCard \/ s \in wiped'
                                /\ s \notin overtaken' => v = Card(s)'
    <3>1. PICK v \in Event : /\ Shows(s, events, cards[s], v)
                             /\ Live(s) => v # NoCard \/ s \in wiped
                             /\ s \notin overtaken => v = Card(s)
      BY <1>1 DEF CardsComing
    <3>2. Shows(s, Tail(events), cards'[s], v)
      BY <1>1, <1>5, <3>1, ShowsTail
    <3> QED
      BY <1>1, <1>6, <3>1, <3>2
  <2> QED
    BY <2>1 DEF CardsComing
<1>8. TimesComing'
  <2>1. ASSUME NEW s \in Slots, s \notin overtaken'
        PROVE  Counts(s, events', since'[s], Current(s)')
    <3>1. Counts(s, events, since[s], Current(s))
      BY <1>1, <2>1 DEF TimesComing
    <3>2. Counts(s, Tail(events), since'[s], Current(s))
      BY <1>1, <1>5, <3>1, CountsTail
    <3> QED
      BY <1>1, <1>6, <3>2
  <2> QED
    BY <2>1 DEF TimesComing
<1>9. TypeOK'
  <2>1. cards' \in [Slots -> Event]
    BY <1>1, <1>3, <1>4 DEF TypeOK
  <2>2. time(e.slot) \in 0..MaxCalls
    BY <1>1, <1>3, Types DEF TypeOK
  <2>3. since' \in [Slots -> 0..MaxCalls]
    BY <1>1, <1>3, <2>2 DEF TypeOK
  <2> QED
    BY <1>1, <1>2, <2>1, <2>3 DEF TypeOK
<1>10. Numbered'
  BY <1>1, <1>6 DEF Numbered
<1> QED
  BY <1>7, <1>8, <1>9, <1>10 DEF IInv

-----------------------------------------------------------------------------
(* Every step, and the theorems.                                           *)

\* A step keeps the invariant.
LEMMA StepIInv == IInv /\ [Next]_vars => IInv'
<1> SUFFICES ASSUME IInv, [Next]_vars PROVE IInv'
  OBVIOUS
<1>1. /\ TypeOK /\ CardsComing /\ TimesComing /\ Numbered
      /\ ui[2] \in Slots
  BY DEF IInv, TypeOK
<1>2. ASSUME Initialize PROVE IInv'
  <2>0. starts' \in 0..MaxStarts /\ engine' = TRUE /\ silent' = FALSE
    BY <1>1, <1>2, PanelAssumption DEF TypeOK, Initialize
  <2>1. TypeOK'
    BY <1>1, <1>2, <2>0 DEF TypeOK, Initialize, panel, histories
  <2> QED
    BY <1>2, <2>1, SilentStep DEF Initialize, panel, histories
<1>3. ASSUME MakeCall PROVE IInv'
  <2>1. PICK s \in Slots : Begins(s, "calling") /\ ui' = <<"made", s>>
    BY <1>3 DEF MakeCall
  <2> QED
    BY <1>3, <2>1, BeginsStep DEF MakeCall
<1>4. ASSUME MakeCallRead PROVE IInv'
  <2>0. PICK s \in Slots : s = ui[2]
    BY <1>1
  <2>1. CASE call[s] = "free"
    <3>1. ui' = Idle /\ UNCHANGED <<native, events, panel, histories, read>>
      BY <1>4, <2>0, <2>1 DEF MakeCallRead
    <3>2. TypeOK'
      BY <1>1, <3>1, Types DEF TypeOK, Idle, native, panel, histories
    <3> QED
      BY <3>1, <3>2, SilentStep DEF native, panel, histories
  <2>2. CASE call[s] # "free"
    <3>1. /\ ui' = <<"read", s>> /\ read' = Info(s, call[s])
          /\ UNCHANGED <<native, events, panel, histories>>
      BY <1>4, <2>0, <2>2 DEF MakeCallRead
    <3>2. read' \in Event
      BY <1>1, <2>2, <3>1 DEF Info, Event, States, TypeOK
    <3>3. TypeOK'
      BY <1>1, <3>1, <3>2 DEF TypeOK, native, panel, histories
    <3> QED
      BY <3>1, <3>3, SilentStep DEF native, panel, histories
  <2> QED
    BY <2>1, <2>2
<1>5. ASSUME Shutdown PROVE IInv'
  <2>1. TypeOK'
    BY <1>1, <1>5, Types DEF TypeOK, Shutdown, native, panel, histories
  <2> QED
    BY <1>5, <2>1, SilentStep DEF Shutdown, native, panel, histories
<1>6. ASSUME ShutdownDone PROVE IInv'
  <2>1. TypeOK'
    BY <1>1, <1>6, Types DEF TypeOK, ShutdownDone, panel, histories, Idle
  <2>2. \A s \in Slots : ~Live(s) /\ call'[s] = "free"
    BY <1>6 DEF ShutdownDone
  <2> QED
    BY <1>6, <2>1, <2>2, SilentStep DEF ShutdownDone, panel, histories
<1>7. ASSUME SetMicrophoneMuted PROVE IInv'
  <2>1. muted' \in BOOLEAN /\ silent' \in BOOLEAN
    BY <1>1, <1>7 DEF TypeOK, SetMicrophoneMuted, histories
  <2>2. TypeOK'
    BY <1>1, <1>7, <2>1 DEF TypeOK, SetMicrophoneMuted, histories
  <2> QED
    BY <1>7, <2>2, SilentStep DEF SetMicrophoneMuted, histories
<1>8. ASSUME IncomingCall PROVE IInv'
  <2>1. PICK s \in Slots : Begins(s, "incoming")
    BY <1>8 DEF IncomingCall
  <2>2. ui' = ui /\ ui' \in {"idle", "made", "read", "shutdown"} \X Slots
    BY <1>1, <1>8 DEF IncomingCall, TypeOK
  <2> QED
    BY <1>8, <2>1, <2>2, BeginsStep DEF IncomingCall
<1>9. ASSUME NEW s \in Slots, HangupCall(s) PROVE IInv'
  BY <1>9, ChangesStep DEF HangupCall
<1>10. ASSUME NEW s \in Slots, ShutdownHangup(s) PROVE IInv'
  BY <1>10, ChangesStep DEF ShutdownHangup
<1>11. ASSUME NEW s \in Slots, Progress(s) PROVE IInv'
  <2>1. PICK st \in Progresses(call[s]) : Changes(s, st)
    BY <1>11 DEF Progress
  <2>2. Live(s) /\ st \in {"early", "confirmed"}
    BY <1>1, <2>1 DEF Progresses, Live, States, TypeOK
  <2> QED
    BY <1>11, <2>1, <2>2, ChangesStep DEF Progress
<1>12. ASSUME NEW s \in Slots, Disconnect(s) PROVE IInv'
  BY <1>12, ChangesStep DEF Disconnect
<1>13. ASSUME NEW s \in Slots, Release(s) PROVE IInv'
  <2>1. TypeOK'
    BY <1>1, <1>13 DEF TypeOK, Release, panel, histories
  <2>2. \A t \in Slots : call'[t] = call[t] \/ (~Live(t) /\ call'[t] = "free")
    BY <1>1, <1>13 DEF Release, TypeOK, Live, States
  <2> QED
    BY <1>13, <2>1, <2>2, SilentStep DEF Release, panel, histories
<1>14. ASSUME UNCHANGED vars PROVE IInv'
  <2>1. TypeOK'
    BY <1>1, <1>14 DEF TypeOK, vars, native, panel, histories
  <2> QED
    BY <1>14, <2>1, SilentStep DEF vars, native, panel, histories
<1> QED
  BY <1>2, <1>3, <1>4, <1>5, <1>6, <1>7, <1>8, <1>9, <1>10, <1>11, <1>12, <1>13,
     <1>14, MakeCallEmitStep, HandleStep DEF Next

LEMMA Invariance == Spec => []IInv
  BY InitIInv, StepIInv, PTL DEF Spec

\* Every variable keeps its type.
THEOREM TypeCorrect == Spec => []TypeOK
<1>1. IInv => TypeOK
  BY DEF IInv
<1> QED
  BY <1>1, Invariance, PTL

\* With nothing on its way the card of a slot is the one that was coming.
LEMMA NothingComing ==
  ASSUME IInv, Quiet, NEW s \in Slots
  PROVE  /\ Live(s) => cards[s] # NoCard \/ s \in wiped
         /\ s \notin overtaken => cards[s] = Card(s) /\ (since[s] # 0 => since[s] = Current(s))
<1>1. \A n \in 1..Len(events) : FALSE
  BY EmptySeq DEF Quiet
<1>2. PICK v \in Event : /\ Shows(s, events, cards[s], v)
                         /\ Live(s) => v # NoCard \/ s \in wiped
                         /\ s \notin overtaken => v = Card(s)
  BY DEF IInv, CardsComing
<1>3. cards[s] = v
  BY <1>1, <1>2 DEF Shows
<1>4. s \notin overtaken => Counts(s, events, since[s], Current(s))
  BY DEF IInv, TimesComing
<1> QED
  BY <1>1, <1>2, <1>3, <1>4 DEF Counts

\* A live call can be ended from the panel, whatever the events were, except in a
\* slot that MakeCall's late event has just told the end of (EmitCall and
\* _handleNativeCall).
THEOREM CardForEveryCall == Spec => []EveryCallHasCard
<1>1. IInv => EveryCallHasCard
  BY NothingComing DEF EveryCallHasCard
<1> QED
  BY <1>1, Invariance, PTL

\* The cards and the call times agree with the calls, except in a slot whose
\* MakeCall event was overtaken by the callbacks of the call.
THEOREM CardsAgreeAlways == Spec => []CardsAgree
<1>1. ASSUME IInv PROVE CardsAgree
  <2>1. ASSUME Quiet, NEW s \in Slots \ overtaken
        PROVE  /\ IF Live(s) THEN cards[s] = Info(s, call[s]) ELSE cards[s] = NoCard
               /\ since[s] # 0 => Live(s) /\ since[s] = number[s]
    <3>1. cards[s] = Card(s) /\ (since[s] # 0 => since[s] = Current(s))
      BY <1>1, <2>1, NothingComing
    <3> QED
      BY <3>1 DEF Card, Current
  <2> QED
    BY <2>1 DEF CardsAgree
<1> QED
  BY <1>1, Invariance, PTL
=============================================================================

--------------------------- MODULE Accounts_proofs --------------------------
(***************************************************************************)
(* Theorems about Accounts for every number of places, of events and of    *)
(* starts and every set of users: type correctness, that every account of  *)
(* the engine has its card once the events have come in, that a card shows *)
(* the configuration of its own account and claims nothing that is not so  *)
(* of its session, that no event brings an account back that was removed,  *)
(* and that an account is configured twice only when it was given without  *)
(* a port.                                                                 *)
(***************************************************************************)
EXTENDS Accounts, SequenceTheorems, TLAPS

\* Once the events evs have come in, on top of the cards sh, place i has a card.
Announced(i, evs, sh) ==
  \/ \E n \in 1..Len(evs) :
       /\ evs[n].id = i /\ evs[n].kind # "unregistered"
       /\ \A m \in 1..Len(evs) : m > n => evs[m].id # i
  \/ /\ \A m \in 1..Len(evs) : evs[m].id # i
     /\ sh[i] # "none"

\* The account of place i is about to be announced anew.
Due(i) == op = <<"register", i>> \/ (held # None /\ held.id = i)

\* An account that is not about to be is announced, unless it was itself called
\* unregistered.
Announcements ==
  \A i \in Ids : acc[i] # "none" /\ ~Due(i) /\ amiss[i] # "removed"
                   => Announced(i, events, shown)

\* The account that is being removed is gone already.
Removal == op[1] = "unregister" => acc[op[2]] = "none"

\* The event in the worker's hands is of an account there is; if it calls the
\* account unregistered, that is on record.
Callback ==
  held # None => /\ acc[held.id] # "none"
                 /\ held.kind = "unregistered" => amiss[held.id] = "removed"

\* The account that is being registered has the configuration that was given; the
\* others have that of their cards.
Configurations ==
  \A i \in Ids :
    /\ op = <<"register", i>> => given # None /\ accounts[i] = Stored(given)
    /\ op # <<"register", i>> /\ accounts[i] # None /\ configs[i] # None
         => accounts[i] = Stored(configs[i])

IInv == TypeOK /\ Announcements /\ Removal /\ Callback /\ Configurations

-----------------------------------------------------------------------------
(* Announcements.                                                          *)

\* An event that is no removal announces its place, and no event takes the
\* announcement of another place away.
LEMMA AnnouncedAppend ==
  ASSUME NEW evs \in Seq(Event), NEW e \in Event, NEW sh, NEW i \in Ids,
         \/ e.id = i /\ e.kind # "unregistered"
         \/ e.id # i /\ Announced(i, evs, sh)
  PROVE  Announced(i, Append(evs, e), sh)
<1> DEFINE new == Append(evs, e)
<1>1. /\ Len(evs) \in Nat /\ Len(new) = Len(evs) + 1
      /\ \A n \in 1..Len(evs) : new[n] = evs[n]
      /\ new[Len(evs) + 1] = e
  BY AppendProperties, LenProperties
<1> HIDE DEF new
<1>2. CASE e.id = i /\ e.kind # "unregistered"
  <2>1. /\ Len(new) \in 1..Len(new) /\ new[Len(new)] = e
        /\ \A m \in 1..Len(new) : ~(m > Len(new))
    BY <1>1
  <2> QED
    BY <1>2, <2>1 DEF Announced, new
<1>3. CASE e.id # i /\ \E n \in 1..Len(evs) :
             /\ evs[n].id = i /\ evs[n].kind # "unregistered"
             /\ \A m \in 1..Len(evs) : m > n => evs[m].id # i
  <2>1. PICK n \in 1..Len(evs) :
             /\ evs[n].id = i /\ evs[n].kind # "unregistered"
             /\ \A m \in 1..Len(evs) : m > n => evs[m].id # i
    BY <1>3
  <2>2. n \in 1..Len(new) /\ new[n] = evs[n]
    BY <1>1
  <2>3. ASSUME NEW m \in 1..Len(new), m > n
        PROVE  new[m].id # i
    BY <1>1, <1>3, <2>1, <2>3
  <2> QED
    BY <2>1, <2>2, <2>3 DEF Announced, new
<1>4. CASE e.id # i /\ (\A m \in 1..Len(evs) : evs[m].id # i) /\ sh[i] # "none"
  <2>1. ASSUME NEW m \in 1..Len(new)
        PROVE  new[m].id # i
    BY <1>1, <1>4
  <2> QED
    BY <1>4, <2>1 DEF Announced, new
<1> QED
  BY <1>2, <1>3, <1>4 DEF Announced

\* Handling the oldest event changes no announcement.
LEMMA AnnouncedTail ==
  ASSUME NEW evs \in Seq(Event), evs # <<>>, NEW i \in Ids,
         NEW sh, NEW sh2,
         Head(evs).id # i => sh2[i] = sh[i],
         Head(evs).id = i => sh2[i] = ShowOf(Head(evs).kind),
         Announced(i, evs, sh)
  PROVE  Announced(i, Tail(evs), sh2)
<1> DEFINE new == Tail(evs)
<1>1. /\ Len(evs) \in Nat \ {0} /\ Len(new) = Len(evs) - 1
      /\ \A n \in 1..Len(new) : new[n] = evs[n + 1]
  BY HeadTailProperties, EmptySeq
<1>2. Head(evs) = evs[1]
  OBVIOUS
<1> HIDE DEF new
<1>3. CASE \E n \in 1..Len(evs) :
             /\ evs[n].id = i /\ evs[n].kind # "unregistered"
             /\ \A m \in 1..Len(evs) : m > n => evs[m].id # i
  <2>1. PICK n \in 1..Len(evs) :
             /\ evs[n].id = i /\ evs[n].kind # "unregistered"
             /\ \A m \in 1..Len(evs) : m > n => evs[m].id # i
    BY <1>3
  <2>2. CASE n = 1
    <3>1. ASSUME NEW m \in 1..Len(new)
          PROVE  new[m].id # i
      <4>1. m + 1 \in 1..Len(evs) /\ m + 1 > n
        BY <1>1, <2>2
      <4> QED
        BY <1>1, <2>1, <4>1
    <3>2. sh2[i] # "none"
      <4>1. evs[1].kind # "none"
        <5>1. evs[1] \in Event
          BY <1>1, ElementOfSeq
        <5> QED
          BY <5>1 DEF Event, Kinds
      <4> QED
        BY <1>2, <2>1, <2>2, <4>1 DEF ShowOf
    <3> QED
      BY <3>1, <3>2 DEF Announced, new
  <2>3. CASE n # 1
    <3>1. /\ n - 1 \in 1..Len(new) /\ new[n - 1] = evs[n]
      BY <1>1, <2>3
    <3>2. ASSUME NEW m \in 1..Len(new), m > n - 1
          PROVE  new[m].id # i
      <4>1. m + 1 \in 1..Len(evs) /\ m + 1 > n
        BY <1>1, <3>2
      <4> QED
        BY <1>1, <2>1, <4>1
    <3> QED
      BY <2>1, <3>1, <3>2 DEF Announced, new
  <2> QED
    BY <2>2, <2>3
<1>4. CASE (\A m \in 1..Len(evs) : evs[m].id # i) /\ sh[i] # "none"
  <2>1. ASSUME NEW m \in 1..Len(new)
        PROVE  new[m].id # i
    <3>1. m + 1 \in 1..Len(evs)
      BY <1>1
    <3> QED
      BY <1>1, <1>4, <3>1
  <2>2. Head(evs).id # i
    BY <1>1, <1>2, <1>4
  <2> QED
    BY <1>4, <2>1, <2>2 DEF Announced, new
<1> QED
  BY <1>3, <1>4 DEF Announced

\* With no event on its way an announced place has its card.
LEMMA AnnouncedIsShown ==
  ASSUME Announcements, Quiet
  PROVE  AccountsAreShown
<1> SUFFICES ASSUME NEW i \in Ids, acc[i] # "none", amiss[i] # "removed"
             PROVE  shown[i] # "none"
  BY DEF AccountsAreShown
<1>1. ~Due(i) /\ Len(events) = 0
  BY DEF Quiet, Idle, Due
<1>2. Announced(i, events, shown)
  BY <1>1 DEF Announcements
<1> QED
  BY <1>1, <1>2 DEF Announced

-----------------------------------------------------------------------------
(* Steps.                                                                  *)

\* What TypeOK says of a place, of the queue and of a configuration.
LEMMA Types ==
  ASSUME TypeOK
  PROVE  /\ events \in Seq(Event)
         /\ op[2] \in Ids
         /\ \A c \in Configs : Stored(c) \in Configs /\ c # None
         /\ Idle \in {"idle", "register", "unregister", "shutdown"} \X Ids
<1>1. 0 \in Ids
  BY AccountsAssumption DEF Ids
<1>2. \A c \in Configs : Stored(c) \in Configs
  BY DEF Stored, Configs
<1>3. \A c \in Configs : c # None
  BY AccountsAssumption DEF Configs
<1> QED
  BY <1>1, <1>2, <1>3 DEF TypeOK, Idle

\* The answer of a method call is an event that announces its place, or one of a
\* removed account.
LEMMA EmitStep ==
  ASSUME TypeOK, Announcements, NEW i \in Ids, NEW kind \in Kinds, Emit(i, kind),
         UNCHANGED <<acc, shown, amiss, held>>,
         op' = Idle, op[1] = "register" => op[2] = i,
         kind = "unregistered" => acc[i] = "none"
  PROVE  events' \in Seq(Event) /\ Announcements'
<1> DEFINE e == [id |-> i, kind |-> kind]
<1>1. e \in Event /\ e.id = i /\ e.kind = kind
  BY DEF Event
<1>2. events' = Append(events, e) /\ events \in Seq(Event)
  BY Types DEF Emit
<1> HIDE DEF e
<1>3. events' \in Seq(Event)
  BY <1>1, <1>2, AppendProperties
<1>4. ASSUME NEW j \in Ids, acc[j] # "none", ~Due(j)', amiss[j] # "removed"
      PROVE  Announced(j, events', shown)
  <2>1. CASE j = i
    <3>1. kind # "unregistered"
      BY <1>4, <2>1
    <3> QED
      BY <1>1, <1>2, <2>1, <3>1, AnnouncedAppend
  <2>2. CASE j # i
    <3>1. ~Due(j)
      BY <1>4, <2>2 DEF Due
    <3>2. Announced(j, events, shown)
      BY <1>4, <3>1 DEF Announcements
    <3> QED
      BY <1>1, <1>2, <2>2, <3>2, AnnouncedAppend
  <2> QED
    BY <2>1, <2>2
<1>5. Announcements'
  BY <1>4 DEF Announcements
<1> QED
  BY <1>3, <1>5

\* The start.
LEMMA InitIInv == Init => IInv
<1> SUFFICES ASSUME Init PROVE IInv
  OBVIOUS
<1> USE DEF Init
<1>1. <<>> \in Seq(Event)
  BY EmptySeq
<1>2. 0 \in Ids /\ 0 \in 0..MaxStarts
  BY AccountsAssumption DEF Ids
<1>3. TypeOK
  BY <1>1, <1>2 DEF TypeOK, Sessions, Wrongs, Idle
<1>4. Announcements /\ Removal /\ Callback /\ Configurations
  BY DEF Announcements, Removal, Callback, Configurations, Idle
<1> QED
  BY <1>3, <1>4 DEF IInv

\* Initialize.
LEMMA InitializeStep == ASSUME IInv, Initialize PROVE IInv'
<1> USE DEF IInv, Initialize
<1>1. starts' \in 0..MaxStarts
  <2>1. starts \in 0..MaxStarts
    BY DEF TypeOK
  <2> QED
    BY <2>1, AccountsAssumption
<1>2. TypeOK'
  BY <1>1 DEF TypeOK, dart
<1>3. Announcements' /\ Removal' /\ Callback' /\ Configurations'
  BY DEF Announcements, Due, Removal, Callback, Configurations, dart
<1> QED
  BY <1>2, <1>3

\* RegisterAccount: the new account is the one being registered.
LEMMA RegisterAccountStep ==
  ASSUME IInv, NEW c \in Configs, RegisterAccount(c)
  PROVE  IInv'
<1> USE DEF IInv
<1>1. PICK i \in Free :
        /\ acc' = [acc EXCEPT ![i] = "trying"]
        /\ accounts' = [accounts EXCEPT ![i] = Stored(c)]
        /\ amiss' = [amiss EXCEPT ![i] = "no"]
        /\ op' = <<"register", i>>
  BY DEF RegisterAccount
<1>2. /\ op = Idle /\ held = None /\ given' = c
      /\ UNCHANGED <<engine, held, events, dart, starts>>
  BY DEF RegisterAccount
<1>3. i \in Ids /\ acc[i] = "none"
  BY <1>1 DEF Free
<1>4. Stored(c) \in Configs /\ c # None
  BY Types
<1>5. TypeOK'
  BY <1>1, <1>2, <1>3, <1>4 DEF TypeOK, Sessions, Wrongs, dart
<1>6. Announcements'
  <2>1. SUFFICES ASSUME NEW j \in Ids, acc'[j] # "none", ~Due(j)',
                        amiss'[j] # "removed"
                 PROVE  Announced(j, events, shown)
    BY <1>2 DEF Announcements, dart
  <2>2. j # i
    BY <1>1, <2>1 DEF Due
  <2>3. acc[j] # "none" /\ amiss[j] # "removed" /\ ~Due(j)
    BY <1>1, <1>2, <2>1, <2>2 DEF TypeOK, Due, Idle
  <2> QED
    BY <2>3 DEF Announcements
<1>7. Removal' /\ Callback'
  BY <1>1, <1>2 DEF Removal, Callback
<1>8. Configurations'
  <2>1. SUFFICES ASSUME NEW j \in Ids
                 PROVE  /\ j = i => given' # None /\ accounts'[j] = Stored(given')
                        /\ j # i /\ accounts'[j] # None /\ configs[j] # None
                             => accounts'[j] = Stored(configs[j])
    BY <1>1, <1>2 DEF Configurations, dart
  <2>2. CASE j = i
    BY <1>1, <1>2, <1>3, <1>4, <2>2 DEF TypeOK
  <2>3. CASE j # i
    <3>1. accounts'[j] = accounts[j] /\ op # <<"register", j>>
      BY <1>1, <1>2, <2>3 DEF TypeOK, Idle
    <3> QED
      BY <2>3, <3>1 DEF Configurations
  <2> QED
    BY <2>2, <2>3
<1> QED
  BY <1>5, <1>6, <1>7, <1>8

\* The answer of RegisterAccount: the card takes over the configuration.
LEMMA RegisterAnswerStep ==
  ASSUME IInv, RegisterAnswer
  PROVE  IInv'
<1> USE DEF IInv
<1>1. /\ op[1] = "register" /\ op[2] \in Ids /\ op = <<"register", op[2]>>
      /\ op' = Idle /\ given' = None
      /\ configs' = [configs EXCEPT ![op[2]] = given]
      /\ UNCHANGED <<native, held, shown, selected, starts>>
      /\ Emit(op[2], "registering")
  BY DEF RegisterAnswer, TypeOK
<1>2. events' \in Seq(Event) /\ Announcements'
  BY <1>1, EmitStep DEF Kinds, native
<1>3. given \in Configs /\ accounts[op[2]] = Stored(given)
  BY <1>1 DEF Configurations, TypeOK
<1>4. TypeOK'
  BY <1>1, <1>2, <1>3, Types DEF TypeOK, native
<1>5. Removal' /\ Callback'
  BY <1>1 DEF Removal, Callback, Idle, native
<1>6. Configurations'
  <2>1. SUFFICES ASSUME NEW j \in Ids, accounts[j] # None, configs'[j] # None
                 PROVE  accounts[j] = Stored(configs'[j])
    BY <1>1 DEF Configurations, Idle, native
  <2>2. CASE j = op[2]
    BY <1>1, <1>3, <2>2 DEF TypeOK
  <2>3. CASE j # op[2]
    <3>1. configs'[j] = configs[j] /\ op # <<"register", j>>
      BY <1>1, <2>3 DEF TypeOK
    <3> QED
      BY <2>1, <3>1 DEF Configurations
  <2> QED
    BY <2>2, <2>3
<1> QED
  BY <1>2, <1>4, <1>5, <1>6

\* UnregisterAccount for an account the engine does not have.
LEMMA UnregisterNothingStep ==
  ASSUME IInv, NEW i \in Ids, UnregisterNothing(i)
  PROVE  IInv'
<1> USE DEF IInv, UnregisterNothing
<1>1. TypeOK'
  BY DEF TypeOK
<1>2. Announcements' /\ Removal' /\ Callback'
  BY DEF Announcements, Due, Removal, Callback
<1>3. ASSUME NEW j \in Ids
      PROVE  /\ op' # <<"register", j>>
             /\ accounts'[j] # None /\ configs'[j] # None
                  => accounts'[j] = Stored(configs'[j])
  <2>1. op' = op /\ op # <<"register", j>>
    BY DEF Idle
  <2>2. CASE j = i
    BY <2>1, <2>2 DEF TypeOK
  <2>3. CASE j # i
    <3>1. accounts'[j] = accounts[j] /\ configs'[j] = configs[j]
      BY <2>3 DEF TypeOK
    <3> QED
      BY <2>1, <3>1 DEF Configurations
  <2> QED
    BY <2>1, <2>2, <2>3
<1>4. Configurations'
  BY <1>3 DEF Configurations
<1> QED
  BY <1>1, <1>2, <1>4

\* UnregisterAccount: the place is free before anything is said of it.
LEMMA UnregisterAccountStep ==
  ASSUME IInv, NEW i \in Ids, UnregisterAccount(i)
  PROVE  IInv'
<1> USE DEF IInv, UnregisterAccount
<1>1. TypeOK'
  BY DEF TypeOK, Sessions, Wrongs, dart
<1>2. ASSUME NEW j \in Ids
      PROVE  op # <<"register", j>> /\ op' # <<"register", j>>
  BY DEF Idle
<1>3. Announcements'
  <2>1. ASSUME NEW j \in Ids, acc'[j] # "none", amiss'[j] # "removed"
        PROVE  Announced(j, events, shown)
    <3>1. acc[j] # "none" /\ amiss[j] # "removed"
      BY <2>1 DEF TypeOK
    <3> QED
      BY <1>2, <3>1 DEF Announcements, Due
  <2> QED
    BY <2>1 DEF Announcements, dart
<1>4. Removal' /\ Callback'
  BY DEF Removal, Callback, TypeOK
<1>5. ASSUME NEW j \in Ids, accounts'[j] # None, configs'[j] # None
      PROVE  accounts'[j] = Stored(configs'[j])
  <2>1. j # i /\ accounts'[j] = accounts[j] /\ configs'[j] = configs[j]
    BY <1>5 DEF TypeOK, dart
  <2> QED
    BY <1>2, <1>5, <2>1 DEF Configurations
<1>6. Configurations'
  BY <1>2, <1>5 DEF Configurations
<1> QED
  BY <1>1, <1>3, <1>4, <1>6

\* The answer of UnregisterAccount: the place is still free.
LEMMA UnregisterAnswerStep ==
  ASSUME IInv, UnregisterAnswer
  PROVE  IInv'
<1> USE DEF IInv
<1>1. /\ op[1] = "unregister" /\ op[2] \in Ids /\ op' = Idle
      /\ configs' = [configs EXCEPT ![op[2]] = None]
      /\ UNCHANGED <<native, given, held, shown, selected, starts>>
      /\ Emit(op[2], "unregistered")
  BY DEF UnregisterAnswer, TypeOK
<1>2. acc[op[2]] = "none"
  BY <1>1 DEF Removal
<1>3. events' \in Seq(Event) /\ Announcements'
  BY <1>1, <1>2, EmitStep DEF Kinds, native
<1>4. TypeOK'
  BY <1>1, <1>3, Types DEF TypeOK, native
<1>5. Removal' /\ Callback'
  BY <1>1 DEF Removal, Callback, Idle, native
<1>6. ASSUME NEW j \in Ids, accounts[j] # None, configs'[j] # None
      PROVE  accounts[j] = Stored(configs'[j])
  <2>1. configs'[j] = configs[j] /\ op # <<"register", j>>
    BY <1>1, <1>6 DEF TypeOK
  <2> QED
    BY <1>6, <2>1 DEF Configurations
<1>7. Configurations'
  BY <1>1, <1>6 DEF Configurations, Idle, native
<1> QED
  BY <1>3, <1>4, <1>5, <1>7

\* Shutdown and its answer: after it there are no accounts.
LEMMA ShutdownStep ==
  ASSUME IInv, Shutdown \/ ShutdownAnswer
  PROVE  IInv'
<1> USE DEF IInv
<1>1. CASE Shutdown
  <2>1. /\ op = Idle /\ op' = <<"shutdown", 0>> /\ 0 \in Ids
        /\ held = None
        /\ UNCHANGED <<engine, accounts, amiss, given, held, events, dart, starts>>
    BY <1>1, Types DEF Shutdown, Idle
  <2>2. PICK busy \in SUBSET Ids :
          acc' = [i \in Ids |-> IF acc[i] = "online" /\ i \notin busy
                                THEN "leaving" ELSE acc[i]]
    BY <1>1 DEF Shutdown
  <2>3. ASSUME NEW i \in Ids
        PROVE  /\ acc'[i] \in Sessions
               /\ acc'[i] = "none" <=> acc[i] = "none"
    BY <2>2 DEF TypeOK, Sessions
  <2>4. acc' \in [Ids -> Sessions]
    BY <2>2, <2>3
  <2>5. TypeOK'
    BY <2>1, <2>4 DEF TypeOK, dart
  <2>6. Announcements'
    BY <2>1, <2>3 DEF Announcements, Due, dart, Idle
  <2>7. Removal' /\ Callback' /\ Configurations'
    BY <2>1 DEF Removal, Callback, Configurations, dart, Idle
  <2> QED
    BY <2>5, <2>6, <2>7
<1>2. CASE ShutdownAnswer
  <2>1. TypeOK'
    BY <1>2, Types DEF ShutdownAnswer, TypeOK, Sessions, Wrongs, dart
  <2>2. Announcements' /\ Removal' /\ Callback' /\ Configurations'
    BY <1>2 DEF ShutdownAnswer, Announcements, Removal, Callback, Configurations,
                dart, Idle
  <2> QED
    BY <2>1, <2>2
<1> QED
  BY <1>1, <1>2

\* An answer, a retry or a new REGISTER changes the session of an account there
\* is, with an event at most for that account.
LEMMA SessionEffect ==
  ASSUME TypeOK, NEW i \in Ids, RegcAnswered(i) \/ Retry(i) \/ UpdateContact(i)
  PROVE  /\ held = None /\ acc[i] # "none"
         /\ \E s \in Sessions \ {"none"} : acc' = [acc EXCEPT ![i] = s]
         /\ \E w \in Wrongs : amiss' = [amiss EXCEPT ![i] = w]
         /\ \/ held' = None /\ (amiss[i] = "removed" => amiss'[i] = "removed")
            \/ /\ \E kind \in Kinds : held' = [id |-> i, kind |-> kind]
               /\ held'.kind = "unregistered" => amiss'[i] = "removed"
         /\ UNCHANGED <<engine, accounts, op, given, events, dart, starts>>
<1>1. amiss \in [Ids -> Wrongs] /\ acc \in [Ids -> Sessions]
  BY DEF TypeOK
<1>2. CASE RegcAnswered(i)
  <2>1. PICK o \in Outcomes(acc[i]) :
          /\ acc' = [acc EXCEPT ![i] = o[1]]
          /\ held' = [id |-> i, kind |-> o[2]]
          /\ amiss' = [amiss EXCEPT ![i] = Wrong(o[1], o[2])]
    BY <1>2 DEF RegcAnswered, Holds
  <2>2. acc[i] \in {"trying", "online", "leaving"}
    BY <2>1 DEF Outcomes
  <2>3. /\ o[1] \in Sessions \ {"none"} /\ o[2] \in Kinds
        /\ o[2] = "unregistered" => o[1] = "online"
    BY <2>1, <2>2 DEF Outcomes, Sessions, Kinds
  <2>4. /\ Wrong(o[1], o[2]) \in Wrongs
        /\ o[2] = "unregistered" => Wrong(o[1], o[2]) = "removed"
    BY <2>3 DEF Wrong, Wrongs
  <2>5. amiss'[i] = Wrong(o[1], o[2]) /\ held'.kind = o[2]
    BY <1>1, <2>1
  <2>6. held = None /\ UNCHANGED <<engine, accounts, op, given, events, dart, starts>>
    BY <1>2 DEF RegcAnswered
  <2> QED
    BY <2>1, <2>2, <2>3, <2>4, <2>5, <2>6
<1>3. CASE Retry(i)
  BY <1>1, <1>3 DEF Retry, Sessions
<1>4. CASE UpdateContact(i)
  <2>1. PICK w \in {amiss[i], "kept"} :
          /\ amiss' = [amiss EXCEPT ![i] = w]
          /\ amiss[i] = "removed" => w = "removed"
    BY <1>1, <1>4 DEF UpdateContact
  <2>2. w \in Wrongs /\ amiss'[i] = w
    BY <1>1, <2>1 DEF Wrongs
  <2>3. /\ held = None /\ held' = None /\ acc[i] # "none"
        /\ acc' = [acc EXCEPT ![i] = "trying"]
        /\ UNCHANGED <<engine, accounts, op, given, events, dart, starts>>
    BY <1>4 DEF UpdateContact
  <2> QED
    BY <2>1, <2>2, <2>3 DEF Sessions
<1> QED
  BY <1>2, <1>3, <1>4

LEMMA SessionStep ==
  ASSUME IInv, NEW i \in Ids, RegcAnswered(i) \/ Retry(i) \/ UpdateContact(i)
  PROVE  IInv'
<1> USE DEF IInv
<1>1. /\ held = None /\ acc[i] # "none"
      /\ \E s \in Sessions \ {"none"} : acc' = [acc EXCEPT ![i] = s]
      /\ \E w \in Wrongs : amiss' = [amiss EXCEPT ![i] = w]
      /\ UNCHANGED <<engine, accounts, op, given, events, dart, starts>>
  BY SessionEffect
<1>2. \/ held' = None /\ (amiss[i] = "removed" => amiss'[i] = "removed")
      \/ /\ \E kind \in Kinds : held' = [id |-> i, kind |-> kind]
         /\ held'.kind = "unregistered" => amiss'[i] = "removed"
  BY SessionEffect
<1>3. held' \in Event \cup {None} /\ (held' # None => held'.id = i)
  BY <1>2 DEF Event
<1>4. TypeOK'
  BY <1>1, <1>3 DEF TypeOK, dart
<1>5. /\ \A j \in Ids : acc'[j] = "none" <=> acc[j] = "none"
      /\ \A j \in Ids \ {i} : amiss'[j] = amiss[j]
  BY <1>1 DEF TypeOK
<1>6. Announcements'
  <2>1. SUFFICES ASSUME NEW j \in Ids, acc'[j] # "none", ~Due(j)',
                        amiss'[j] # "removed"
                 PROVE  Announced(j, events, shown)
    BY <1>1 DEF Announcements, dart
  <2>2. held' # None => j # i
    BY <1>3, <2>1 DEF Due
  <2>3. held' = None \/ j # i
    BY <2>2
  <2>4. amiss[j] # "removed"
    BY <1>2, <1>5, <2>1, <2>2, NoneIsNoEvent DEF Event
  <2>5. ~Due(j) /\ acc[j] # "none"
    BY <1>1, <1>5, <2>1 DEF Due
  <2> QED
    BY <2>4, <2>5 DEF Announcements
<1>7. Removal'
  BY <1>1, <1>5 DEF Removal, TypeOK
<1>8. Callback'
  BY <1>1, <1>2, <1>3, <1>5 DEF Callback
<1>9. Configurations'
  BY <1>1 DEF Configurations, dart
<1> QED
  BY <1>4, <1>6, <1>7, <1>8, <1>9

\* RegistrationStateCallback takes an announcement back only where that is on
\* record.
LEMMA CallbackStep ==
  ASSUME IInv, RegistrationStateCallback
  PROVE  IInv'
<1> USE DEF IInv
<1>1. /\ held \in Event
      /\ held.kind = "unregistered" => amiss[held.id] = "removed"
      /\ events' = Append(events, [id |-> held.id, kind |-> held.kind])
      /\ held' = None
      /\ UNCHANGED <<native, op, given, dart, starts>>
  BY DEF RegistrationStateCallback, Emit, TypeOK, Callback
<1>2. /\ [id |-> held.id, kind |-> held.kind] = held
      /\ held.id \in Ids
  BY <1>1 DEF Event
<1>3. events \in Seq(Event)
  BY DEF TypeOK
<1>4. events' = Append(events, held)
  BY <1>1, <1>2
<1>5. events' \in Seq(Event)
  BY <1>1, <1>3, <1>4, AppendProperties
<1>6. TypeOK'
  BY <1>1, <1>5 DEF TypeOK, native, dart
<1>7. ASSUME NEW j \in Ids, acc[j] # "none", ~Due(j)', amiss[j] # "removed"
      PROVE  Announced(j, events', shown)
  <2>1. CASE j = held.id
    <3>1. held.kind # "unregistered"
      BY <1>1, <1>7, <2>1
    <3> QED
      BY <1>1, <1>3, <1>4, <2>1, <3>1, AnnouncedAppend
  <2>2. CASE j # held.id
    <3>1. ~Due(j)
      BY <1>1, <1>7, <2>2 DEF Due
    <3>2. Announced(j, events, shown)
      BY <1>7, <3>1 DEF Announcements
    <3> QED
      BY <1>1, <1>3, <1>4, <2>2, <3>2, AnnouncedAppend
  <2> QED
    BY <2>1, <2>2
<1>8. Announcements'
  BY <1>1, <1>7 DEF Announcements, native, dart
<1>9. Removal' /\ Callback' /\ Configurations'
  BY <1>1 DEF Removal, Callback, Configurations, native, dart
<1> QED
  BY <1>6, <1>8, <1>9

\* What the handling of the oldest event does to the cards.
LEMMA HandleEffect ==
  ASSUME TypeOK, HandleRegistration
  PROVE  LET e == Head(events) IN
         /\ e \in Event /\ Tail(events) \in Seq(Event)
         /\ events # <<>> /\ events' = Tail(events)
         /\ shown' = [shown EXCEPT ![e.id] = ShowOf(e.kind)]
         /\ configs' = [configs EXCEPT ![e.id] =
                          IF e.kind = "unregistered" THEN None ELSE configs[e.id]]
         /\ selected' \in Ids \cup {None}
         /\ UNCHANGED <<native, op, given, held, starts>>
<1>1. Head(events) \in Event /\ Tail(events) \in Seq(Event)
  BY HeadTailProperties DEF TypeOK, HandleRegistration
<1>2. selected' \in Ids \cup {None}
  BY DEF HandleRegistration, Select, Online, TypeOK
<1> QED
  BY <1>1, <1>2 DEF HandleRegistration

\* Handling an event changes no announcement, and of the configurations it only
\* takes away.
LEMMA HandleStep ==
  ASSUME IInv, HandleRegistration
  PROVE  IInv'
<1> USE DEF IInv
<1> DEFINE e == Head(events)
<1>1. /\ e \in Event /\ Tail(events) \in Seq(Event)
      /\ events # <<>> /\ events' = Tail(events)
      /\ shown' = [shown EXCEPT ![e.id] = ShowOf(e.kind)]
      /\ configs' = [configs EXCEPT ![e.id] =
                       IF e.kind = "unregistered" THEN None ELSE configs[e.id]]
      /\ selected' \in Ids \cup {None}
      /\ UNCHANGED <<native, op, given, held, starts>>
  BY HandleEffect
<1>2. events \in Seq(Event)
  BY DEF TypeOK
<1>3. e.id \in Ids /\ ShowOf(e.kind) \in {"none", "registering", "registered", "failed"}
  BY <1>1 DEF Event, Kinds, ShowOf
<1>4. TypeOK'
  BY <1>1, <1>3 DEF TypeOK, native
<1>5. ASSUME NEW j \in Ids, acc[j] # "none", ~Due(j), amiss[j] # "removed"
      PROVE  Announced(j, events', shown')
  <2>1. Announced(j, events, shown)
    BY <1>5 DEF Announcements
  <2>2. /\ e.id # j => shown'[j] = shown[j]
        /\ e.id = j => shown'[j] = ShowOf(e.kind)
    BY <1>1, <1>3 DEF TypeOK
  <2> QED
    BY <1>1, <1>2, <2>1, <2>2, AnnouncedTail
<1>6. Announcements'
  BY <1>1, <1>5 DEF Announcements, Due, native
<1>7. Removal' /\ Callback'
  BY <1>1 DEF Removal, Callback, native
<1>8. \A j \in Ids : configs'[j] \in {configs[j], None}
  BY <1>1, <1>3 DEF TypeOK
<1>9. Configurations'
  BY <1>1, <1>8 DEF Configurations, native
<1> QED
  BY <1>4, <1>6, <1>7, <1>9

\* Every step keeps the invariant.
LEMMA StepIInv == IInv /\ [Next]_vars => IInv'
<1> SUFFICES ASSUME IInv, [Next]_vars PROVE IInv'
  OBVIOUS
<1>1. CASE UNCHANGED vars
  BY <1>1 DEF vars, native, dart, IInv, TypeOK, Announcements, Due, Removal, Callback,
              Configurations
<1>2. CASE Next
  BY <1>2, InitializeStep, RegisterAccountStep, RegisterAnswerStep,
     UnregisterNothingStep, UnregisterAccountStep, UnregisterAnswerStep,
     ShutdownStep, SessionStep, CallbackStep, HandleStep
     DEF Next
<1> QED
  BY <1>1, <1>2

\* The invariant holds in every state.
LEMMA Invariance == Spec => []IInv
BY InitIInv, StepIInv, PTL DEF Spec

\* Every state has its type.
THEOREM TypeCorrect == Spec => []TypeOK
<1>1. IInv => TypeOK
  BY DEF IInv
<1> QED
  BY <1>1, Invariance, PTL

\* No order of answers and events, of one account or of several that have the
\* same place one after the other, leaves an account of the engine without its
\* card, but for the one the last answer to which was called "unregistered".
THEOREM EveryAccountShown == Spec => []AccountsAreShown
<1>1. IInv => AccountsAreShown
  BY AnnouncedIsShown DEF IInv, AccountsAreShown
<1> QED
  BY <1>1, Invariance, PTL

\* The configuration on a card is never that of an earlier account of its place.
THEOREM OwnConfiguration == Spec => []ConfigIsOfAccount
<1>1. IInv => ConfigIsOfAccount
  BY DEF IInv, Configurations, ConfigIsOfAccount, Idle
<1> QED
  BY <1>1, Invariance, PTL

-----------------------------------------------------------------------------
(* Nothing is brought back, as long as the engine has been started once.   *)

\* An event of another place announces nothing here.
LEMMA AnnouncedBefore ==
  ASSUME NEW evs \in Seq(Event), NEW e \in Event, NEW sh, NEW i \in Ids,
         e.id # i, Announced(i, Append(evs, e), sh)
  PROVE  Announced(i, evs, sh)
<1> DEFINE new == Append(evs, e)
<1>1. /\ Len(evs) \in Nat /\ Len(new) = Len(evs) + 1
      /\ \A n \in 1..Len(evs) : new[n] = evs[n]
      /\ new[Len(evs) + 1] = e
  BY AppendProperties, LenProperties
<1>2. Announced(i, new, sh)
  OBVIOUS
<1> HIDE DEF new
<1>3. CASE \E n \in 1..Len(new) :
             /\ new[n].id = i /\ new[n].kind # "unregistered"
             /\ \A m \in 1..Len(new) : m > n => new[m].id # i
  <2>1. PICK n \in 1..Len(new) :
             /\ new[n].id = i /\ new[n].kind # "unregistered"
             /\ \A m \in 1..Len(new) : m > n => new[m].id # i
    BY <1>3
  <2>2. n \in 1..Len(evs) /\ new[n] = evs[n]
    BY <1>1, <2>1
  <2>3. ASSUME NEW m \in 1..Len(evs), m > n
        PROVE  evs[m].id # i
    BY <1>1, <2>1, <2>3
  <2> QED
    BY <2>1, <2>2, <2>3 DEF Announced
<1>4. CASE (\A m \in 1..Len(new) : new[m].id # i) /\ sh[i] # "none"
  <2>1. ASSUME NEW m \in 1..Len(evs)
        PROVE  evs[m].id # i
    BY <1>1, <1>4
  <2> QED
    BY <1>4, <2>1 DEF Announced
<1> QED
  BY <1>2, <1>3, <1>4 DEF Announced

\* The event of a removal takes the announcement back.
LEMMA RemovalAnnouncesNothing ==
  ASSUME NEW evs \in Seq(Event), NEW e \in Event, NEW sh, NEW i \in Ids,
         e.id = i, e.kind = "unregistered"
  PROVE  ~Announced(i, Append(evs, e), sh)
<1> DEFINE new == Append(evs, e)
<1>1. Len(evs) \in Nat /\ Len(new) = Len(evs) + 1 /\ new[Len(evs) + 1] = e
  BY AppendProperties, LenProperties
<1> HIDE DEF new
<1>2. Len(new) \in 1..Len(new) /\ new[Len(new)] = e
  BY <1>1
<1>3. ASSUME NEW n \in 1..Len(new), new[n].id = i, new[n].kind # "unregistered"
      PROVE  \E m \in 1..Len(new) : m > n /\ new[m].id = i
  <2>1. n # Len(new)
    BY <1>2, <1>3
  <2>2. Len(new) > n
    BY <1>1, <2>1
  <2> QED
    BY <1>2, <2>2
<1> QED
  BY <1>2, <1>3 DEF Announced, new

\* What is announced when the oldest event has been handled was announced before.
LEMMA AnnouncedTailBefore ==
  ASSUME NEW evs \in Seq(Event), evs # <<>>, NEW i \in Ids,
         NEW sh, NEW sh2,
         Head(evs).id # i => sh2[i] = sh[i],
         Head(evs).id = i => sh2[i] = ShowOf(Head(evs).kind),
         Announced(i, Tail(evs), sh2)
  PROVE  Announced(i, evs, sh)
<1> DEFINE new == Tail(evs)
<1>1. /\ Len(evs) \in Nat \ {0} /\ Len(new) = Len(evs) - 1
      /\ \A n \in 1..Len(new) : new[n] = evs[n + 1]
  BY HeadTailProperties, EmptySeq
<1>2. Head(evs) = evs[1] /\ Announced(i, new, sh2)
  OBVIOUS
<1> HIDE DEF new
<1>3. \A m \in 1..Len(evs) : m > 1 => m - 1 \in 1..Len(new) /\ new[m - 1] = evs[m]
  BY <1>1
<1>4. CASE \E n \in 1..Len(new) :
             /\ new[n].id = i /\ new[n].kind # "unregistered"
             /\ \A m \in 1..Len(new) : m > n => new[m].id # i
  <2>1. PICK n \in 1..Len(new) :
             /\ new[n].id = i /\ new[n].kind # "unregistered"
             /\ \A m \in 1..Len(new) : m > n => new[m].id # i
    BY <1>4
  <2>2. n + 1 \in 1..Len(evs) /\ evs[n + 1] = new[n]
    BY <1>1
  <2>3. ASSUME NEW m \in 1..Len(evs), m > n + 1
        PROVE  evs[m].id # i
    <3>1. m > 1 /\ m - 1 > n
      BY <1>1, <2>3
    <3> QED
      BY <1>3, <2>1, <3>1
  <2> QED
    BY <2>1, <2>2, <2>3 DEF Announced
<1>5. CASE (\A m \in 1..Len(new) : new[m].id # i) /\ sh2[i] # "none"
  <2>1. \A m \in 1..Len(evs) : m > 1 => evs[m].id # i
    BY <1>3, <1>5
  <2>2. CASE evs[1].id = i
    <3>1. evs[1].kind # "unregistered" /\ 1 \in 1..Len(evs)
      BY <1>1, <1>2, <1>5, <2>2 DEF ShowOf
    <3> QED
      BY <2>1, <2>2, <3>1 DEF Announced
  <2>3. CASE evs[1].id # i
    <3>1. \A m \in 1..Len(evs) : evs[m].id # i
      BY <1>1, <2>1, <2>3
    <3>2. sh[i] # "none"
      BY <1>2, <1>5, <2>3
    <3> QED
      BY <3>1, <3>2 DEF Announced
  <2> QED
    BY <2>2, <2>3
<1> QED
  BY <1>2, <1>4, <1>5 DEF Announced

\* The engine has not been stopped.
Young == starts = 0 \/ (starts = 1 /\ engine)

\* What is announced is an account, or one whose removal is still to be announced.
Revival ==
  Young => \A i \in Ids : Announced(i, events, shown)
                            => acc[i] # "none" \/ op = <<"unregister", i>>

\* The events still to be emitted are about accounts there are.
Emitters ==
  /\ held # None => acc[held.id] # "none"
  /\ op[1] = "register" => acc[op[2]] # "none"

Started == engine \/ op[1] = "shutdown" => starts # 0

RInv == Revival /\ Emitters /\ Started

\* Nothing is announced at the start.
LEMMA InitRInv == Init => RInv
<1> SUFFICES ASSUME Init PROVE RInv
  OBVIOUS
<1>1. Len(events) = 0 /\ \A i \in Ids : shown[i] = "none"
  BY DEF Init
<1>2. \A i \in Ids : ~Announced(i, events, shown)
  BY <1>1 DEF Announced
<1>3. Emitters /\ Started
  BY DEF Emitters, Started, Init, Idle
<1> QED
  BY <1>2, <1>3 DEF RInv, Revival

\* The steps that emit an event.
LEMMA EmitRInv ==
  ASSUME IInv, RInv, RegisterAnswer \/ UnregisterAnswer \/ RegistrationStateCallback
  PROVE  RInv'
<1> USE DEF RInv
<1>1. events \in Seq(Event) /\ op[2] \in Ids
  BY Types DEF IInv
<1>2. UNCHANGED <<engine, acc, shown, starts>>
  BY DEF RegisterAnswer, UnregisterAnswer, RegistrationStateCallback, native, dart
<1>3. Emitters' /\ Started'
  BY <1>2 DEF RegisterAnswer, UnregisterAnswer, RegistrationStateCallback,
              Emitters, Started, Idle
<1>4. CASE UnregisterAnswer
  <2>1. PICK e \in Event : /\ e.id = op[2] /\ e.kind = "unregistered"
                           /\ events' = Append(events, e)
    BY <1>1, <1>4 DEF UnregisterAnswer, Emit, Event, Kinds
  <2>2. ASSUME NEW j \in Ids, Young, Announced(j, events', shown)
        PROVE  acc[j] # "none"
    <3>1. j # e.id
      BY <1>1, <2>1, <2>2, RemovalAnnouncesNothing
    <3>2. Announced(j, events, shown)
      BY <1>1, <2>1, <2>2, <3>1, AnnouncedBefore
    <3>3. op # <<"unregister", j>>
      BY <2>1, <3>1
    <3> QED
      BY <2>2, <3>2, <3>3 DEF Revival
  <2> QED
    BY <1>2, <1>3, <2>2 DEF Revival, Young
<1>5. CASE RegisterAnswer \/ RegistrationStateCallback
  <2>1. PICK e \in Event : /\ acc[e.id] # "none"
                           /\ events' = Append(events, e)
    <3>1. CASE RegisterAnswer
      <4>1. [id |-> op[2], kind |-> "registering"] \in Event
        BY <1>1 DEF Event, Kinds
      <4> QED
        BY <3>1, <4>1 DEF RegisterAnswer, Emit, Emitters
    <3>2. CASE RegistrationStateCallback
      <4>1. held \in Event /\ held = [id |-> held.id, kind |-> held.kind]
        BY <3>2 DEF RegistrationStateCallback, IInv, TypeOK, Event
      <4> QED
        BY <3>2, <4>1 DEF RegistrationStateCallback, Emit, Emitters
    <3> QED
      BY <1>5, <3>1, <3>2
  <2>2. \A j \in Ids : op' = <<"unregister", j>> <=> op = <<"unregister", j>>
    BY <1>5 DEF RegisterAnswer, RegistrationStateCallback, Idle
  <2>3. ASSUME NEW j \in Ids, Young, Announced(j, events', shown)
        PROVE  acc[j] # "none" \/ op = <<"unregister", j>>
    <3>1. CASE j = e.id
      BY <2>1, <3>1
    <3>2. CASE j # e.id
      <4>1. Announced(j, events, shown)
        BY <1>1, <2>1, <2>3, <3>2, AnnouncedBefore
      <4> QED
        BY <2>3, <4>1 DEF Revival
    <3> QED
      BY <3>1, <3>2
  <2> QED
    BY <1>2, <1>3, <2>2, <2>3 DEF Revival, Young
<1> QED
  BY <1>4, <1>5

\* Handling an event announces nothing.
LEMMA HandleRInv ==
  ASSUME IInv, RInv, HandleRegistration
  PROVE  RInv'
<1> USE DEF RInv
<1> DEFINE e == Head(events)
<1>1. /\ e \in Event /\ events # <<>> /\ events' = Tail(events)
      /\ shown' = [shown EXCEPT ![e.id] = ShowOf(e.kind)]
      /\ UNCHANGED <<native, op, given, held, starts>>
  BY HandleEffect DEF IInv
<1>2. events \in Seq(Event) /\ e.id \in Ids
  BY <1>1 DEF IInv, TypeOK, Event
<1>3. Emitters' /\ Started'
  BY <1>1 DEF Emitters, Started, native
<1>4. ASSUME NEW j \in Ids, Young, Announced(j, events', shown')
      PROVE  acc[j] # "none" \/ op = <<"unregister", j>>
  <2>1. /\ e.id # j => shown'[j] = shown[j]
        /\ e.id = j => shown'[j] = ShowOf(e.kind)
    BY <1>1, <1>2 DEF IInv, TypeOK
  <2>2. Announced(j, events, shown)
    BY <1>1, <1>2, <1>4, <2>1, AnnouncedTailBefore
  <2> QED
    BY <1>4, <2>2 DEF Revival
<1> QED
  BY <1>1, <1>3, <1>4 DEF Revival, Young, native

\* The other steps leave the events and the cards alone.
LEMMA OtherRInv ==
  ASSUME IInv, RInv,
         \/ Initialize \/ Shutdown \/ ShutdownAnswer
         \/ \E c \in Configs : RegisterAccount(c)
         \/ \E i \in Ids : \/ UnregisterAccount(i) \/ UnregisterNothing(i)
                           \/ RegcAnswered(i) \/ Retry(i) \/ UpdateContact(i)
  PROVE  RInv'
<1> USE DEF RInv
<1>1. UNCHANGED <<events, shown>>
  BY DEF Initialize, Shutdown, ShutdownAnswer, RegisterAccount, UnregisterAccount,
         UnregisterNothing, RegcAnswered, Retry, UpdateContact, dart
<1>2. acc \in [Ids -> Sessions] /\ starts \in 0..MaxStarts
      /\ held \in Event \cup {None} /\ op[2] \in Ids
  BY DEF IInv, TypeOK
<1>3. CASE Initialize
  BY <1>1, <1>2, <1>3, AccountsAssumption
     DEF Initialize, Revival, Young, Emitters, Started, Idle
<1>4. CASE Shutdown
  <2>1. PICK busy \in SUBSET Ids :
          acc' = [i \in Ids |-> IF acc[i] = "online" /\ i \notin busy
                                THEN "leaving" ELSE acc[i]]
    BY <1>4 DEF Shutdown
  <2>2. \A i \in Ids : acc'[i] = "none" <=> acc[i] = "none"
    BY <2>1
  <2> QED
    BY <1>1, <1>4, <2>2
       DEF Shutdown, Revival, Young, Emitters, Started, Idle
<1>5. CASE ShutdownAnswer
  BY <1>1, <1>2, <1>5
     DEF ShutdownAnswer, Revival, Young, Emitters, Started, Idle
<1>6. ASSUME NEW c \in Configs, RegisterAccount(c)
      PROVE  RInv'
  <2>1. PICK i \in Free : /\ acc' = [acc EXCEPT ![i] = "trying"]
                          /\ op' = <<"register", i>>
    BY <1>6 DEF RegisterAccount
  <2>2. /\ i \in Ids /\ acc'[i] = "trying"
        /\ \A j \in Ids : acc[j] # "none" => acc'[j] # "none"
    BY <1>2, <2>1 DEF Free
  <2> QED
    BY <1>1, <1>6, <2>1, <2>2
       DEF RegisterAccount, Revival, Young, Emitters, Started, Idle
<1>7. ASSUME NEW i \in Ids, UnregisterAccount(i)
      PROVE  RInv'
  <2>1. \A j \in Ids : j # i => acc'[j] = acc[j]
    BY <1>2, <1>7 DEF UnregisterAccount
  <2> QED
    BY <1>1, <1>7, <2>1
       DEF UnregisterAccount, Revival, Young, Emitters, Started, Idle
<1>8. ASSUME NEW i \in Ids, UnregisterNothing(i)
      PROVE  RInv'
  BY <1>1, <1>8 DEF UnregisterNothing, Revival, Young, Emitters, Started
<1>9. ASSUME NEW i \in Ids, RegcAnswered(i) \/ Retry(i) \/ UpdateContact(i)
      PROVE  RInv'
  <2>0. TypeOK
    BY DEF IInv
  <2>1. /\ acc[i] # "none"
        /\ \A j \in Ids : acc'[j] = "none" <=> acc[j] = "none"
    BY <1>2, <1>9, <2>0, SessionEffect
  <2>2. UNCHANGED <<engine, op, starts>>
    BY <1>9, <2>0, SessionEffect
  <2>3. held' = held \/ held'.id = i
    BY <1>9, <2>0, SessionEffect
  <2>4. held # None => held.id \in Ids
    BY <1>2 DEF Event
  <2> QED
    BY <1>1, <1>2, <2>1, <2>2, <2>3, <2>4
       DEF Revival, Young, Emitters, Started
<1> QED
  BY <1>3, <1>4, <1>5, <1>6, <1>7, <1>8, <1>9

\* Every step keeps it.
LEMMA StepRInv == IInv /\ RInv /\ [Next]_vars => RInv'
<1> SUFFICES ASSUME IInv, RInv, [Next]_vars PROVE RInv'
  OBVIOUS
<1>1. CASE UNCHANGED vars
  BY <1>1 DEF vars, native, dart, RInv, Revival, Young, Emitters, Started
<1>2. CASE Next
  BY <1>2, EmitRInv, HandleRInv, OtherRInv DEF Next
<1> QED
  BY <1>1, <1>2

\* As long as the engine has never been stopped, an answer of the registrar that
\* comes late does not show an account again that was removed: regc_cb holds
\* PJSUA_LOCK from its look at the session to the event, and pjsua_acc_del waits.
THEOREM RemovedStaysRemoved == Spec => []NoneRevived
<1>1. ASSUME RInv PROVE NoneRevived
  <2>1. SUFFICES ASSUME Quiet, engine, starts = 1, NEW i \in Ids, shown[i] # "none"
                 PROVE  acc[i] # "none"
    BY DEF NoneRevived
  <2>2. Len(events) = 0 /\ op # <<"unregister", i>> /\ Young
    BY <2>1 DEF Quiet, Idle, Young
  <2>3. Announced(i, events, shown)
    BY <2>1, <2>2 DEF Announced
  <2> QED
    BY <1>1, <2>2, <2>3 DEF RInv, Revival
<1>2. RInv => NoneRevived
  BY <1>1
<1> QED
  BY <1>2, Invariance, InitRInv, StepRInv, PTL DEF Spec
-----------------------------------------------------------------------------
(* What the cards claim.                                                   *)

\* Once the events evs have come in, on top of the cards sh, place i shows v.
Coming(i, evs, sh, v) ==
  \/ \E n \in 1..Len(evs) :
       /\ evs[n].id = i /\ ShowOf(evs[n].kind) = v
       /\ \A m \in 1..Len(evs) : m > n => evs[m].id # i
  \/ /\ \A m \in 1..Len(evs) : evs[m].id # i
     /\ sh[i] = v

\* The session of place i is as a card that shows v says, or it is on record that
\* it is not.
Fits(i, v) ==
  /\ v = "registered" => \/ acc[i] = "online" /\ amiss[i] = "no"
                        \/ amiss[i] = "kept"
  /\ v = "failed" => acc[i] \in {"failed", "trying"}

\* Until Shutdown begins, what is said of an account fits its session, except that
\* what is coming may be overtaken by what is due.
ClaimInv ==
  op[1] # "shutdown" =>
    /\ held # None => Fits(held.id, ShowOf(held.kind))
    /\ \A i \in Ids : acc[i] # "none" =>
         /\ acc[i] # "leaving"
         /\ ~Due(i) => \A v : Coming(i, events, shown, v) => Fits(i, v)

\* The last event of a place is what its card will show.
LEMMA ComingAppend ==
  ASSUME NEW evs \in Seq(Event), NEW e \in Event, NEW sh, NEW i \in Ids, NEW v,
         Coming(i, Append(evs, e), sh, v)
  PROVE  \/ e.id = i /\ v = ShowOf(e.kind)
         \/ e.id # i /\ Coming(i, evs, sh, v)
<1> DEFINE new == Append(evs, e)
<1>1. /\ Len(evs) \in Nat /\ Len(new) = Len(evs) + 1
      /\ \A n \in 1..Len(evs) : new[n] = evs[n]
      /\ new[Len(evs) + 1] = e
  BY AppendProperties, LenProperties
<1>2. Coming(i, new, sh, v)
  OBVIOUS
<1> HIDE DEF new
<1>3. Len(new) \in 1..Len(new) /\ new[Len(new)] = e
  BY <1>1
<1>4. CASE \E n \in 1..Len(new) :
             /\ new[n].id = i /\ ShowOf(new[n].kind) = v
             /\ \A m \in 1..Len(new) : m > n => new[m].id # i
  <2>1. PICK n \in 1..Len(new) :
             /\ new[n].id = i /\ ShowOf(new[n].kind) = v
             /\ \A m \in 1..Len(new) : m > n => new[m].id # i
    BY <1>4
  <2>2. CASE n = Len(new)
    BY <1>3, <2>1, <2>2
  <2>3. CASE n # Len(new)
    <3>1. n \in 1..Len(evs) /\ new[n] = evs[n] /\ Len(new) > n
      BY <1>1, <2>1, <2>3
    <3>2. e.id # i
      BY <1>3, <2>1, <3>1
    <3>3. ASSUME NEW m \in 1..Len(evs), m > n
          PROVE  evs[m].id # i
      BY <1>1, <2>1, <3>3
    <3> QED
      BY <2>1, <3>1, <3>2, <3>3 DEF Coming
  <2> QED
    BY <2>2, <2>3
<1>5. CASE (\A m \in 1..Len(new) : new[m].id # i) /\ sh[i] = v
  <2>1. e.id # i
    BY <1>3, <1>5
  <2>2. ASSUME NEW m \in 1..Len(evs)
        PROVE  evs[m].id # i
    BY <1>1, <1>5
  <2> QED
    BY <1>5, <2>1, <2>2 DEF Coming
<1> QED
  BY <1>2, <1>4, <1>5 DEF Coming

\* Handling the oldest event changes nothing of what a card will show.
LEMMA ComingTail ==
  ASSUME NEW evs \in Seq(Event), evs # <<>>, NEW i \in Ids, NEW v,
         NEW sh, NEW sh2,
         Head(evs).id # i => sh2[i] = sh[i],
         Head(evs).id = i => sh2[i] = ShowOf(Head(evs).kind),
         Coming(i, Tail(evs), sh2, v)
  PROVE  Coming(i, evs, sh, v)
<1> DEFINE new == Tail(evs)
<1>1. /\ Len(evs) \in Nat \ {0} /\ Len(new) = Len(evs) - 1
      /\ \A n \in 1..Len(new) : new[n] = evs[n + 1]
  BY HeadTailProperties, EmptySeq
<1>2. Head(evs) = evs[1] /\ Coming(i, new, sh2, v)
  OBVIOUS
<1> HIDE DEF new
<1>3. \A m \in 1..Len(evs) : m > 1 => m - 1 \in 1..Len(new) /\ new[m - 1] = evs[m]
  BY <1>1
<1>4. CASE \E n \in 1..Len(new) :
             /\ new[n].id = i /\ ShowOf(new[n].kind) = v
             /\ \A m \in 1..Len(new) : m > n => new[m].id # i
  <2>1. PICK n \in 1..Len(new) :
             /\ new[n].id = i /\ ShowOf(new[n].kind) = v
             /\ \A m \in 1..Len(new) : m > n => new[m].id # i
    BY <1>4
  <2>2. n + 1 \in 1..Len(evs) /\ evs[n + 1] = new[n]
    BY <1>1
  <2>3. ASSUME NEW m \in 1..Len(evs), m > n + 1
        PROVE  evs[m].id # i
    <3>1. m > 1 /\ m - 1 > n
      BY <1>1, <2>3
    <3> QED
      BY <1>3, <2>1, <3>1
  <2> QED
    BY <2>1, <2>2, <2>3 DEF Coming
<1>5. CASE (\A m \in 1..Len(new) : new[m].id # i) /\ sh2[i] = v
  <2>1. \A m \in 1..Len(evs) : m > 1 => evs[m].id # i
    BY <1>3, <1>5
  <2>2. CASE evs[1].id = i
    <3>1. ShowOf(evs[1].kind) = v /\ 1 \in 1..Len(evs)
      BY <1>1, <1>2, <1>5, <2>2
    <3> QED
      BY <2>1, <2>2, <3>1 DEF Coming
  <2>3. CASE evs[1].id # i
    <3>1. \A m \in 1..Len(evs) : evs[m].id # i
      BY <1>1, <2>1, <2>3
    <3>2. sh[i] = v
      BY <1>2, <1>5, <2>3
    <3> QED
      BY <3>1, <3>2 DEF Coming
  <2> QED
    BY <2>2, <2>3
<1> QED
  BY <1>2, <1>4, <1>5 DEF Coming

\* The steps that emit an event: the last thing said of a place fits.
LEMMA EmitClaims ==
  ASSUME IInv, ClaimInv,
         RegisterAnswer \/ UnregisterAnswer \/ RegistrationStateCallback
  PROVE  ClaimInv'
<1>1. events \in Seq(Event) /\ op[2] \in Ids /\ op = <<op[1], op[2]>>
      /\ held \in Event \cup {None}
  BY DEF IInv, TypeOK
<1>2. UNCHANGED <<acc, amiss, shown>>
  BY DEF RegisterAnswer, UnregisterAnswer, RegistrationStateCallback, native,
     dart
<1>3. PICK e \in Event :
        /\ events' = Append(events, e)
        /\ acc[e.id] # "none" /\ op[1] # "shutdown" => Fits(e.id, ShowOf(e.kind))
        /\ \A i \in Ids : i # e.id /\ Due(i) => Due(i)'
        /\ op'[1] # "shutdown" => op[1] # "shutdown"
        /\ held' \in {held, None}
  <2>1. CASE RegisterAnswer
    <3> DEFINE e == [id |-> op[2], kind |-> "registering"]
    <3>1. e \in Event /\ e.id = op[2] /\ ShowOf(e.kind) = "registering"
      BY <1>1 DEF Event, Kinds, ShowOf
    <3>2. events' = Append(events, e) /\ held' = held /\ op[1] = "register"
      BY <2>1 DEF RegisterAnswer, Emit
    <3>3. Fits(e.id, ShowOf(e.kind))
      BY <3>1 DEF Fits
    <3>4. \A i \in Ids : i # e.id /\ Due(i) => Due(i)'
      BY <3>1, <3>2 DEF Due
    <3> HIDE DEF e
    <3> QED
      BY <3>1, <3>2, <3>3, <3>4
  <2>2. CASE UnregisterAnswer
    <3> DEFINE e == [id |-> op[2], kind |-> "unregistered"]
    <3>1. e \in Event /\ e.id = op[2]
      BY <1>1 DEF Event, Kinds
    <3>2. events' = Append(events, e) /\ held' = held /\ op[1] = "unregister"
      BY <2>2 DEF UnregisterAnswer, Emit
    <3>3. acc[op[2]] = "none"
      BY <3>2 DEF IInv, Removal
    <3>4. \A i \in Ids : Due(i) => Due(i)'
      BY <3>2 DEF Due
    <3> HIDE DEF e
    <3> QED
      BY <3>1, <3>2, <3>3, <3>4
  <2>3. CASE RegistrationStateCallback
    <3>1. held \in Event /\ held # None /\ held = [id |-> held.id, kind |-> held.kind]
      BY <1>1, <2>3 DEF RegistrationStateCallback, Event
    <3>2. events' = Append(events, held) /\ held' = None /\ op' = op
      BY <2>3, <3>1 DEF RegistrationStateCallback, Emit
    <3>3. \A i \in Ids : i # held.id /\ Due(i) => Due(i)'
      BY <3>2 DEF Due
    <3> QED
      BY <3>1, <3>2, <3>3 DEF ClaimInv
  <2> QED
    BY <2>1, <2>2, <2>3
<1>4. ASSUME op'[1] # "shutdown", NEW i \in Ids, acc[i] # "none", ~Due(i)', NEW v,
             Coming(i, events', shown, v)
      PROVE  Fits(i, v)
  <2>1. CASE e.id = i
    <3>1. v = ShowOf(e.kind)
      BY <1>1, <1>3, <1>4, <2>1, ComingAppend
    <3> QED
      BY <1>3, <1>4, <2>1, <3>1
  <2>2. CASE e.id # i
    <3>1. Coming(i, events, shown, v) /\ ~Due(i)
      BY <1>1, <1>3, <1>4, <2>2, ComingAppend
    <3> QED
      BY <1>3, <1>4, <3>1 DEF ClaimInv
  <2> QED
    BY <2>1, <2>2
<1> QED
  BY <1>2, <1>3, <1>4 DEF ClaimInv, Fits

\* The oldest event is handled.
LEMMA HandleClaims ==
  ASSUME IInv, ClaimInv, HandleRegistration
  PROVE  ClaimInv'
<1> DEFINE e == Head(events)
<1>1. /\ e \in Event /\ events # <<>> /\ events' = Tail(events)
      /\ shown' = [shown EXCEPT ![e.id] = ShowOf(e.kind)]
      /\ UNCHANGED <<native, op, given, held, starts>>
  BY HandleEffect DEF IInv
<1>2. events \in Seq(Event) /\ e.id \in Ids
  BY <1>1 DEF IInv, TypeOK, Event
<1>3. ASSUME NEW j \in Ids, NEW v, Coming(j, events', shown', v)
      PROVE  Coming(j, events, shown, v)
  <2>1. /\ e.id # j => shown'[j] = shown[j]
        /\ e.id = j => shown'[j] = ShowOf(e.kind)
    BY <1>1, <1>2 DEF IInv, TypeOK
  <2> QED
    BY <1>1, <1>2, <1>3, <2>1, ComingTail
<1> HIDE DEF e
<1> QED
  BY <1>1, <1>3 DEF ClaimInv, Fits, Due, native

\* The other steps leave the events and the cards alone.
LEMMA OtherClaims ==
  ASSUME IInv, ClaimInv,
         \/ Initialize \/ Shutdown \/ ShutdownAnswer
         \/ \E c \in Configs : RegisterAccount(c)
         \/ \E i \in Ids : \/ UnregisterAccount(i) \/ UnregisterNothing(i)
                           \/ RegcAnswered(i) \/ Retry(i) \/ UpdateContact(i)
  PROVE  ClaimInv'
<1>1. UNCHANGED <<events, shown>>
  BY DEF Initialize, Shutdown, ShutdownAnswer, RegisterAccount, UnregisterAccount,
         UnregisterNothing, RegcAnswered, Retry, UpdateContact, dart
<1>2. /\ acc \in [Ids -> Sessions] /\ amiss \in [Ids -> Wrongs]
      /\ held \in Event \cup {None}
  BY DEF IInv, TypeOK
<1>3. CASE Initialize \/ \E i \in Ids : UnregisterNothing(i)
  <2>1. UNCHANGED <<acc, amiss, op, held>>
    BY <1>3 DEF Initialize, UnregisterNothing
  <2> QED
    BY <1>1, <2>1 DEF ClaimInv, Fits, Due
<1>4. CASE Shutdown
  BY <1>4 DEF Shutdown, ClaimInv
<1>5. CASE ShutdownAnswer
  <2>1. held' = None /\ \A i \in Ids : acc'[i] = "none"
    BY <1>5 DEF ShutdownAnswer
  <2> QED
    BY <2>1 DEF ClaimInv
<1>6. ASSUME NEW c \in Configs, RegisterAccount(c)
      PROVE  ClaimInv'
  <2>1. PICK i \in Free : /\ acc' = [acc EXCEPT ![i] = "trying"]
                          /\ amiss' = [amiss EXCEPT ![i] = "no"]
                          /\ op' = <<"register", i>>
    BY <1>6 DEF RegisterAccount
  <2>2. /\ i \in Ids /\ acc'[i] = "trying"
        /\ \A j \in Ids \ {i} : acc'[j] = acc[j] /\ amiss'[j] = amiss[j]
    BY <1>2, <2>1 DEF Free
  <2>3. op = Idle /\ held = None /\ held' = None
    BY <1>6 DEF RegisterAccount
  <2>4. Due(i)' /\ \A j \in Ids : ~Due(j)
    BY <2>1, <2>3 DEF Due, Idle
  <2> QED
    BY <1>1, <2>2, <2>3, <2>4 DEF ClaimInv, Fits, Idle
<1>7. ASSUME NEW i \in Ids, UnregisterAccount(i)
      PROVE  ClaimInv'
  <2>1. /\ acc'[i] = "none"
        /\ \A j \in Ids \ {i} : acc'[j] = acc[j] /\ amiss'[j] = amiss[j]
    BY <1>2, <1>7 DEF UnregisterAccount
  <2>2. op = Idle /\ held = None /\ held' = None
    BY <1>7 DEF UnregisterAccount
  <2>3. \A j \in Ids : ~Due(j)
    BY <2>2 DEF Due, Idle
  <2> QED
    BY <1>1, <2>1, <2>2, <2>3 DEF ClaimInv, Fits, Idle
<1>8. ASSUME NEW i \in Ids, RegcAnswered(i)
      PROVE  ClaimInv'
  <2>1. PICK o \in Outcomes(acc[i]) :
          /\ acc' = [acc EXCEPT ![i] = o[1]]
          /\ held' = [id |-> i, kind |-> o[2]]
          /\ amiss' = [amiss EXCEPT ![i] = Wrong(o[1], o[2])]
    BY <1>8 DEF RegcAnswered, Holds
  <2>2. /\ held = None /\ op' = op
        /\ \A j \in Ids \ {i} : acc'[j] = acc[j] /\ amiss'[j] = amiss[j]
        /\ acc'[i] = o[1] /\ amiss'[i] = Wrong(o[1], o[2])
    BY <1>2, <1>8, <2>1 DEF RegcAnswered
  <2>3. acc[i] # "none"
    BY <2>1 DEF Outcomes
  <2>4. CASE acc[i] = "leaving"
    BY <2>2, <2>4 DEF ClaimInv
  <2>5. CASE acc[i] # "leaving"
    <3>1. /\ o[1] \in {"online", "off", "failed"} /\ o[2] \in Kinds
          /\ o[2] = "registered" => o[1] \in {"online", "off"}
          /\ o[2] = "failed" => o[1] = "failed"
      BY <2>1, <2>5 DEF Outcomes, Kinds
    <3>2. held' # None /\ held'.id = i /\ held'.kind = o[2]
      BY <2>1, <3>1, NoneIsNoEvent DEF Event
    <3>3. /\ ShowOf(held'.kind) = "registered" => o[2] = "registered"
          /\ ShowOf(held'.kind) = "failed" => o[2] = "failed"
      BY <3>1, <3>2 DEF ShowOf, Kinds
    <3>4. o[2] = "registered" => \/ o[1] = "online" /\ Wrong(o[1], o[2]) = "no"
                                \/ Wrong(o[1], o[2]) = "kept"
      BY <3>1 DEF Wrong
    <3>5. Fits(i, ShowOf(held.kind))' /\ acc'[i] # "leaving"
      BY <2>2, <3>1, <3>3, <3>4 DEF Fits
    <3>6. Due(i)' /\ \A j \in Ids \ {i} : Due(j)' => Due(j)
      BY <2>2, <3>2 DEF Due
    <3>7. \A j \in Ids \ {i} : ~Due(j)
            => ~Due(j)' /\ \A v : Fits(j, v) => Fits(j, v)'
      BY <2>2, <3>2 DEF Due, Fits
    <3>8. \A j \in Ids \ {i} : ~Due(j)' => ~Due(j)
      BY <2>2, <3>2 DEF Due
    <3> QED
      BY <1>1, <2>2, <3>2, <3>5, <3>6, <3>7, <3>8 DEF ClaimInv
  <2> QED
    BY <2>4, <2>5
<1>9. ASSUME NEW i \in Ids, Retry(i) \/ UpdateContact(i)
      PROVE  ClaimInv'
  <2>1. /\ acc[i] \in {"failed", "online", "off"} /\ acc'[i] = "trying"
        /\ UNCHANGED <<op, held>> /\ held = None
        /\ \A j \in Ids \ {i} : acc'[j] = acc[j] /\ amiss'[j] = amiss[j]
    BY <1>2, <1>9 DEF Retry, UpdateContact
  <2>2. /\ acc[i] = "online" /\ amiss[i] = "no" => amiss'[i] = "kept"
        /\ amiss[i] = "kept" => amiss'[i] = "kept"
    BY <1>2, <1>9 DEF Retry, UpdateContact
  <2>3. \A v : Fits(i, v) => Fits(i, v)'
    BY <2>1, <2>2 DEF Fits
  <2> QED
    BY <1>1, <2>1, <2>3 DEF ClaimInv, Fits, Due
<1> QED
  BY <1>3, <1>4, <1>5, <1>6, <1>7, <1>8, <1>9

\* Every step keeps it.
LEMMA StepClaims == IInv /\ ClaimInv /\ [Next]_vars => ClaimInv'
<1> SUFFICES ASSUME IInv, ClaimInv, [Next]_vars PROVE ClaimInv'
  OBVIOUS
<1>1. CASE UNCHANGED vars
  BY <1>1 DEF vars, native, dart, ClaimInv, Fits, Due
<1>2. CASE Next
  BY <1>2, EmitClaims, HandleClaims, OtherClaims DEF Next
<1> QED
  BY <1>1, <1>2

\* However late answers and events are, and whichever accounts had the place
\* before, a card claims nothing that its account's session is not, but for the
\* "registered" of a session that a 200 ended or the engine replaced.
THEOREM StatusFitsSession == Spec => []StatusIsTrue
<1>1. Init => ClaimInv
  BY DEF Init, ClaimInv
<1>2. ASSUME ClaimInv PROVE StatusIsTrue
  <2>1. SUFFICES ASSUME Quiet, NEW i \in Ids, acc[i] # "none"
                 PROVE  Fits(i, shown[i])
    BY DEF StatusIsTrue, Fits
  <2>2. Len(events) = 0 /\ ~Due(i) /\ op[1] # "shutdown"
    BY <2>1 DEF Quiet, Idle, Due
  <2>3. Coming(i, events, shown, shown[i])
    BY <2>2 DEF Coming
  <2> QED
    BY <1>2, <2>1, <2>2, <2>3 DEF ClaimInv
<1>3. ClaimInv => StatusIsTrue
  BY <1>2
<1> QED
  BY <1>1, <1>3, Invariance, StepClaims, PTL DEF Spec
-----------------------------------------------------------------------------
(* Accounts that are configured twice.                                     *)

\* The configuration place i was, or is being, registered with.
ConfigOf(i) == IF op = <<"register", i>> THEN given ELSE configs[i]

\* Of two places with the same account one was given no port.
OnePortless ==
  \A i, j \in Ids :
    /\ i # j
    /\ accounts[i] # None /\ accounts[i] = accounts[j]
    /\ ConfigOf(i) # None /\ ConfigOf(j) # None
    => 0 \in {ConfigOf(i).port, ConfigOf(j).port}

\* A configuration with a port is stored as it is.
LEMMA StoredWithPort ==
  ASSUME NEW c \in Configs, c.port # 0
  PROVE  Stored(c) = c
<1>1. c.port = 5060
  BY DEF Configs
<1>2. c.port > 0
  BY <1>1
<1> QED
  BY <1>2 DEF Stored, Configs

\* RegisterAccount lets a second account in only if its port is not known.
LEMMA RegisterOnePortless ==
  ASSUME TypeOK, OnePortless, NEW c \in Configs, RegisterAccount(c)
  PROVE  OnePortless'
<1>1. PICK i \in Ids : /\ accounts' = [accounts EXCEPT ![i] = Stored(c)]
                       /\ op' = <<"register", i>>
  BY DEF RegisterAccount, Free
<1>2. op = Idle /\ given' = c /\ configs' = configs /\ ~Configured(c)
  BY DEF RegisterAccount, dart
<1>3. accounts'[i] = Stored(c) /\ \A j \in Ids \ {i} : accounts'[j] = accounts[j]
  BY <1>1 DEF TypeOK
<1>4. ConfigOf(i)' = c /\ \A j \in Ids \ {i} : ConfigOf(j)' = configs[j]
  BY <1>1, <1>2 DEF ConfigOf
<1>5. \A j \in Ids : ConfigOf(j) = configs[j]
  BY <1>2 DEF ConfigOf, Idle
<1>6. ASSUME NEW j \in Ids \ {i}, accounts'[j] = Stored(c)
      PROVE  c.port = 0
  <2>1. accounts[j] = Stored(c)
    BY <1>3, <1>6
  <2>2. accounts[j] # c
    BY <1>2 DEF Configured
  <2> QED
    BY <2>1, <2>2, StoredWithPort
<1>7. SUFFICES ASSUME NEW j \in Ids, NEW k \in Ids, j # k,
                      accounts'[j] # None, accounts'[j] = accounts'[k],
                      ConfigOf(j)' # None, ConfigOf(k)' # None
               PROVE  0 \in {ConfigOf(j)'.port, ConfigOf(k)'.port}
  BY DEF OnePortless
<1>8. CASE j = i
  BY <1>3, <1>4, <1>6, <1>7, <1>8
<1>9. CASE k = i
  BY <1>3, <1>4, <1>6, <1>7, <1>9
<1>10. CASE j # i /\ k # i
  BY <1>3, <1>4, <1>5, <1>7, <1>10 DEF OnePortless
<1> QED
  BY <1>8, <1>9, <1>10

\* Every other step adds no account and changes the configuration of none, but
\* for those it takes away.
LEMMA FewerOnePortless ==
  ASSUME OnePortless,
         \A i \in Ids : accounts'[i] \in {accounts[i], None},
         \A i \in Ids : ConfigOf(i)' \in {ConfigOf(i), None}
  PROVE  OnePortless'
BY DEF OnePortless

\* Every step keeps it.
LEMMA StepOnePortless == TypeOK /\ OnePortless /\ [Next]_vars => OnePortless'
<1> SUFFICES ASSUME TypeOK, OnePortless, [Next]_vars PROVE OnePortless'
  OBVIOUS
<1>0. /\ accounts \in [Ids -> Configs \cup {None}]
      /\ configs \in [Ids -> Configs \cup {None}]
      /\ op[2] \in Ids
  BY DEF TypeOK
<1>1. CASE \E c \in Configs : RegisterAccount(c)
  BY <1>1, RegisterOnePortless
<1>2. CASE RegisterAnswer
  <2>1. /\ accounts' = accounts /\ op' = Idle /\ op[1] = "register"
        /\ configs' = [configs EXCEPT ![op[2]] = given]
    BY <1>2 DEF RegisterAnswer, native
  <2>2. op = <<"register", op[2]>>
    BY <2>1 DEF TypeOK
  <2>3. \A i \in Ids : ConfigOf(i)' = ConfigOf(i)
    BY <1>0, <2>1, <2>2 DEF ConfigOf, Idle
  <2> QED
    BY <2>1, <2>3, FewerOnePortless
<1>3. CASE \E i \in Ids : UnregisterNothing(i)
  <2>1. PICK i \in Ids : UnregisterNothing(i)
    BY <1>3
  <2>2. /\ accounts' = [accounts EXCEPT ![i] = None] /\ op = Idle /\ op' = op
        /\ configs' = [configs EXCEPT ![i] = None]
    BY <2>1 DEF UnregisterNothing
  <2> QED
    BY <1>0, <2>2, FewerOnePortless DEF ConfigOf, Idle
<1>4. CASE \E i \in Ids : UnregisterAccount(i)
  <2>1. PICK i \in Ids : UnregisterAccount(i)
    BY <1>4
  <2>2. /\ accounts' = [accounts EXCEPT ![i] = None] /\ op = Idle
        /\ op' = <<"unregister", i>> /\ configs' = configs
    BY <2>1 DEF UnregisterAccount, dart
  <2> QED
    BY <1>0, <2>2, FewerOnePortless DEF ConfigOf, Idle
<1>5. CASE UnregisterAnswer
  <2>1. /\ accounts' = accounts /\ op' = Idle /\ op[1] = "unregister"
        /\ configs' = [configs EXCEPT ![op[2]] = None]
    BY <1>5 DEF UnregisterAnswer, native
  <2> QED
    BY <1>0, <2>1, FewerOnePortless DEF ConfigOf, Idle
<1>6. CASE Shutdown
  <2>1. accounts' = accounts /\ op = Idle /\ op'[1] = "shutdown" /\ configs' = configs
    BY <1>6 DEF Shutdown, dart
  <2> QED
    BY <1>0, <2>1, FewerOnePortless DEF ConfigOf, Idle
<1>7. CASE ShutdownAnswer
  <2>1. /\ accounts' = [i \in Ids |-> None] /\ op' = Idle /\ op[1] = "shutdown"
        /\ configs' = configs
    BY <1>7 DEF ShutdownAnswer, dart
  <2> QED
    BY <1>0, <2>1, FewerOnePortless DEF ConfigOf, Idle
<1>8. CASE HandleRegistration
  <2>1. \A i \in Ids : configs'[i] \in {configs[i], None}
    BY <1>0, <1>8 DEF HandleRegistration
  <2>2. UNCHANGED <<accounts, op, given>>
    BY <1>8 DEF HandleRegistration, native
  <2> QED
    BY <2>1, <2>2, FewerOnePortless DEF ConfigOf
<1>9. CASE Initialize \/ RegistrationStateCallback
           \/ (\E i \in Ids : RegcAnswered(i) \/ Retry(i) \/ UpdateContact(i))
           \/ UNCHANGED vars
  <2>1. UNCHANGED <<accounts, op, given, configs>>
    BY <1>9 DEF Initialize, RegistrationStateCallback, RegcAnswered, Retry,
                UpdateContact, native, dart, vars
  <2> QED
    BY <2>1, FewerOnePortless DEF ConfigOf
<1> QED
  BY <1>1, <1>2, <1>3, <1>4, <1>5, <1>6, <1>7, <1>8, <1>9 DEF Next

\* The check for a duplicate misses only accounts that are given without a port:
\* whatever is registered, removed and registered again, in any order with the
\* events, one of two equal accounts has a configuration without.
THEOREM TwiceOnlyWithoutPort == Spec => []DuplicateOnlyWithoutPort
<1>1. Init => OnePortless
  BY DEF Init, OnePortless
<1>2. OnePortless => DuplicateOnlyWithoutPort
  BY DEF OnePortless, DuplicateOnlyWithoutPort, ConfigOf, Idle
<1>3. IInv => TypeOK
  BY DEF IInv
<1> QED
  BY <1>1, <1>2, <1>3, Invariance, StepOnePortless, PTL DEF Spec
=============================================================================

------------------------------ MODULE Accounts ------------------------------
(***************************************************************************)
(* SIP accounts: RegisterAccount, UnregisterAccount, Shutdown and          *)
(* RegistrationStateCallback of pjsip_service.cpp, the accounts of pjsua   *)
(* behind them (pjsua_acc.c), and what pjsip_native_bridge.dart and the    *)
(* two panels make of the registration events.                             *)
(*                                                                         *)
(* The answer of a method call changes the maps of the Dart side at once;  *)
(* the events of the call and those of the engine's worker come after it,  *)
(* in the order in which they were emitted (see EventChannel).             *)
(***************************************************************************)
EXTENDS Naturals, Sequences, FiniteSets

CONSTANTS
  MaxAcc,       \* pjsua_var.acc has MaxAcc places, 0 .. MaxAcc - 1
  Users,        \* user names of the account dialog
  None,         \* no account, no configuration, no event
  MaxEvents,    \* bound on the events on their way
  MaxStarts     \* bound on the starts of the engine

ASSUME AccountsAssumption ==
  /\ MaxAcc \in Nat \ {0}
  /\ None \notin [user : Users, port : {0, 5060}]
  /\ MaxEvents \in Nat /\ MaxStarts \in Nat

VARIABLES
  engine,     \* initialized_
  acc,        \* the registration of each place: see Sessions
  accounts,   \* accounts_
  op,         \* the method call in progress, <<"idle", 0>> when there is none
  given,      \* the configuration that call was given
  held,       \* the worker is inside regc_cb with PJSUA_LOCK: the event it will
              \* emit, or None
  events,     \* registration events on their way to Dart
  shown,      \* _registrations
  configs,    \* _accountConfigs
  selected,   \* selectedAccountId of the call panel
  amiss,      \* history: what the engine said last of an account is not so
  starts

native == <<engine, acc, accounts, amiss>>
dart == <<shown, configs, selected>>
vars == <<native, op, given, held, events, dart, starts>>

Ids == 0..(MaxAcc - 1)
Configs == [user : Users, port : {0, 5060}]

\* "off": the session is gone and nothing tries again, but for a change of the
\* network; "leaving": an un-REGISTER is on its way.  A session that is "online"
\* may have a REGISTER on its way too, for a refresh or a change of the network.
Sessions == {"none", "trying", "online", "failed", "leaving", "off"}
Kinds == {"registering", "registered", "failed", "unregistered"}
Event == [id : Ids, kind : Kinds]
ASSUME NoneIsNoEvent == None \notin Event

Idle == <<"idle", 0>>

\* "removed": a live session was called unregistered; "kept": one that is gone, or
\* was given up for a new one, was called registered.
Wrongs == {"no", "removed", "kept"}

TypeOK ==
  /\ engine \in BOOLEAN
  /\ acc \in [Ids -> Sessions]
  /\ accounts \in [Ids -> Configs \cup {None}]
  /\ op \in {"idle", "register", "unregister", "shutdown"} \X Ids
  /\ given \in Configs \cup {None}
  /\ held \in Event \cup {None}
  /\ events \in Seq(Event)
  /\ shown \in [Ids -> {"none", "registering", "registered", "failed"}]
  /\ configs \in [Ids -> Configs \cup {None}]
  /\ selected \in Ids \cup {None}
  /\ amiss \in [Ids -> Wrongs]
  /\ starts \in 0..MaxStarts

Init ==
  /\ engine = FALSE /\ starts = 0
  /\ acc = [i \in Ids |-> "none"]
  /\ accounts = [i \in Ids |-> None]
  /\ op = Idle /\ given = None /\ held = None
  /\ events = <<>>
  /\ shown = [i \in Ids |-> "none"]
  /\ configs = [i \in Ids |-> None]
  /\ selected = None
  /\ amiss = [i \in Ids |-> "no"]

Emit(i, kind) == events' = Append(events, [id |-> i, kind |-> kind])
Room == Len(events) < MaxEvents

-----------------------------------------------------------------------------
(* Method calls, on the platform thread.                                   *)

Initialize ==
  /\ op = Idle /\ ~engine /\ starts < MaxStarts
  /\ engine' = TRUE
  /\ starts' = starts + 1
  /\ UNCHANGED <<acc, accounts, amiss, op, given, held, events, dart>>

\* Port 0 becomes the port of the transport when the account is stored.
Stored(c) == [c EXCEPT !.port = IF c.port > 0 THEN c.port ELSE 5060]

\* Variant: only registered accounts are compared.
ConfiguredOnline(c) == \E i \in Ids : accounts[i] = c /\ acc[i] = "online"

\* "This SIP account is already configured".
Configured(c) == \E i \in Ids : accounts[i] = c

Free == {i \in Ids : acc[i] = "none"}

\* pjsua_acc_add takes the first free place and sends the REGISTER; a call that
\* is refused changes nothing.
RegisterAccount(c) ==
  /\ op = Idle /\ engine
  /\ ~Configured(c)
  /\ held = None
  /\ \E i \in Free :
       /\ \A j \in Free : i <= j
       /\ acc' = [acc EXCEPT ![i] = "trying"]
       /\ accounts' = [accounts EXCEPT ![i] = Stored(c)]
       /\ amiss' = [amiss EXCEPT ![i] = "no"]
       /\ op' = <<"register", i>>
  /\ given' = c
  /\ UNCHANGED <<engine, held, events, dart, starts>>

\* Variant: a configuration that is there is kept.
RegisterKeeps ==
  /\ op[1] = "register" /\ Room
  /\ Emit(op[2], "registering")
  /\ configs' = [configs EXCEPT ![op[2]] = IF @ = None THEN given ELSE @]
  /\ op' = Idle /\ given' = None
  /\ UNCHANGED <<native, held, shown, selected, starts>>

\* EmitRegistration("Registration request sent") without any lock of the engine;
\* the answer puts the configuration in _accountConfigs.
RegisterAnswer ==
  /\ op[1] = "register" /\ Room
  /\ Emit(op[2], "registering")
  /\ configs' = [configs EXCEPT ![op[2]] = given]
  /\ op' = Idle /\ given' = None
  /\ UNCHANGED <<native, held, shown, selected, starts>>

\* The panel offers to remove what it shows.  "No SIP account is configured" is a
\* success too, and emits nothing.
UnregisterNothing(i) ==
  /\ op = Idle
  /\ shown[i] # "none" /\ acc[i] = "none"
  /\ accounts' = [accounts EXCEPT ![i] = None]
  /\ configs' = [configs EXCEPT ![i] = None]
  /\ UNCHANGED <<engine, acc, amiss, op, given, held, events, shown, selected,
                 starts>>

\* Variant: the account is deleted while the worker is inside its callback.
UnregisterAnyTime(i) ==
  /\ op = Idle
  /\ shown[i] # "none" /\ acc[i] # "none"
  /\ acc' = [acc EXCEPT ![i] = "none"]
  /\ accounts' = [accounts EXCEPT ![i] = None]
  /\ amiss' = [amiss EXCEPT ![i] = "no"]
  /\ op' = <<"unregister", i>>
  /\ UNCHANGED <<engine, given, held, events, dart, starts>>

\* pjsua_acc_del, under PJSUA_LOCK: later answers to its session find another
\* session in its place and are dropped (regc_cb).
UnregisterAccount(i) ==
  /\ op = Idle
  /\ shown[i] # "none" /\ acc[i] # "none"
  /\ held = None
  /\ acc' = [acc EXCEPT ![i] = "none"]
  /\ accounts' = [accounts EXCEPT ![i] = None]
  /\ amiss' = [amiss EXCEPT ![i] = "no"]
  /\ op' = <<"unregister", i>>
  /\ UNCHANGED <<engine, given, held, events, dart, starts>>

UnregisterAnswer ==
  /\ op[1] = "unregister" /\ Room
  /\ Emit(op[2], "unregistered")
  /\ configs' = [configs EXCEPT ![op[2]] = None]
  /\ op' = Idle
  /\ UNCHANGED <<native, given, held, shown, selected, starts>>

\* pjsua_destroy sends an un-REGISTER for each session that is not busy with
\* a refresh, and waits a while.
Shutdown ==
  /\ op = Idle /\ engine
  /\ held = None
  /\ op' = <<"shutdown", 0>>
  /\ \E busy \in SUBSET Ids :
       acc' = [i \in Ids |-> IF acc[i] = "online" /\ i \notin busy
                             THEN "leaving" ELSE acc[i]]
  /\ UNCHANGED <<engine, accounts, amiss, given, held, events, dart, starts>>

\* The workers are gone, answered or not; accounts_.clear().
ShutdownAnswer ==
  /\ op[1] = "shutdown"
  /\ held = None
  /\ engine' = FALSE
  /\ acc' = [i \in Ids |-> "none"]
  /\ accounts' = [i \in Ids |-> None]
  /\ amiss' = [i \in Ids |-> "no"]
  /\ op' = Idle
  /\ UNCHANGED <<given, held, events, dart, starts>>

-----------------------------------------------------------------------------
(* The worker.                                                             *)

Holds(i, kind) == held' = [id |-> i, kind |-> kind]

\* What regc_cb makes of an answer to the session s, with what the event will say.
\* The event says "registered" of a 200 when the time to the next REGISTER is not
\* 0, which is how PJSIP_EXPIRES_NOT_SPECIFIED, what a session that is gone has,
\* looks too.  That time is 0 while another REGISTER is on its way, and in the
\* last second of a very short grant: Dart takes this for "unregistered".  Another
\* 2xx is "registering" to Dart.
Outcomes(s) ==
  LET granted == {"online"} \X {"registered", "unregistered", "registering"}
      ended == {"off"} \X {"registered", "registering"}
  IN CASE s \in {"trying", "online"} -> granted \cup ended \cup {<<"failed", "failed">>}
       [] s = "leaving" -> ended \cup {<<"off", "failed">>}
       [] OTHER -> {}

Wrong(session, kind) ==
  CASE session = "online" /\ kind = "unregistered" -> "removed"
    [] session = "off" /\ kind = "registered" -> "kept"
    [] OTHER -> "no"

\* A 2xx without an expiry ends the session, whether it answers an un-REGISTER or
\* not, and nothing tries again.
RegcAnswered(i) ==
  /\ held = None
  /\ \E o \in Outcomes(acc[i]) :
       /\ acc' = [acc EXCEPT ![i] = o[1]]
       /\ Holds(i, o[2])
       /\ amiss' = [amiss EXCEPT ![i] = Wrong(o[1], o[2])]
  /\ UNCHANGED <<engine, accounts, op, given, events, dart, starts>>

\* RegistrationStateCallback emits, and regc_cb releases PJSUA_LOCK.
RegistrationStateCallback ==
  /\ held # None /\ Room
  /\ Emit(held.id, held.kind)
  /\ held' = None
  /\ UNCHANGED <<native, op, given, dart, starts>>

\* The retry timer: a new session, no event.
Retry(i) ==
  /\ held = None /\ op[1] # "shutdown"
  /\ acc[i] = "failed"
  /\ acc' = [acc EXCEPT ![i] = "trying"]
  /\ UNCHANGED <<engine, accounts, amiss, op, given, held, events, dart, starts>>

\* HandleNetworkChange, account by account, or what it left to the end of a
\* transport: a REGISTER of the session there is (see Sessions), of a new one where
\* there is none or the old one is busy.  A failed session is as in Retry.
UpdateContact(i) ==
  /\ held = None /\ op[1] # "shutdown"
  /\ acc[i] \in {"online", "off"}
  /\ acc' = [acc EXCEPT ![i] = "trying"]
  /\ amiss' = [amiss EXCEPT ![i] = IF acc[i] = "online" /\ @ = "no" THEN "kept"
                                  ELSE @]
  /\ UNCHANGED <<engine, accounts, op, given, held, events, dart, starts>>

-----------------------------------------------------------------------------
(* Dart.                                                                   *)

ShowOf(kind) == IF kind = "unregistered" THEN "none" ELSE kind

Online == {i \in Ids : shown'[i] = "registered"}

\* The listener of the call panel.
Select ==
  IF selected \in Online THEN selected' = selected
  ELSE IF Online = {} THEN selected' = None
  ELSE selected' \in Online

\* Variant: the newest event is handled first.
HandleNewest ==
  /\ events # <<>>
  /\ LET e == events[Len(events)] IN
       /\ shown' = [shown EXCEPT ![e.id] = ShowOf(e.kind)]
       /\ configs' = [configs EXCEPT ![e.id] =
                        IF e.kind = "unregistered" THEN None ELSE @]
  /\ Select
  /\ events' = SubSeq(events, 1, Len(events) - 1)
  /\ UNCHANGED <<native, op, given, held, starts>>

\* _handleNativeCall with a registration event.
HandleRegistration ==
  /\ events # <<>>
  /\ LET e == Head(events) IN
       /\ shown' = [shown EXCEPT ![e.id] = ShowOf(e.kind)]
       /\ configs' = [configs EXCEPT ![e.id] =
                        IF e.kind = "unregistered" THEN None ELSE @]
  /\ Select
  /\ events' = Tail(events)
  /\ UNCHANGED <<native, op, given, held, starts>>

Next ==
  \/ Initialize \/ Shutdown \/ ShutdownAnswer
  \/ \E c \in Configs : RegisterAccount(c)
  \/ RegisterAnswer
  \/ \E i \in Ids : UnregisterAccount(i) \/ UnregisterNothing(i)
  \/ UnregisterAnswer
  \/ \E i \in Ids : RegcAnswered(i) \/ Retry(i) \/ UpdateContact(i)
  \/ RegistrationStateCallback
  \/ HandleRegistration

Spec == Init /\ [][Next]_vars

-----------------------------------------------------------------------------
(* Properties.                                                             *)

Quiet == op = Idle /\ held = None /\ events = <<>>

\* Every account of the engine has its card, so that it can be removed, whatever
\* the order in which answers and events came: an event of an account that was
\* removed never wipes out the account that has taken its place.  The exception is
\* the account that was itself called unregistered while its session was alive, by
\* the last answer it got.
AccountsAreShown ==
  Quiet => \A i \in Ids :
    acc[i] # "none" => shown[i] # "none" \/ amiss[i] = "removed"

\* What a card claims of an account the engine has is true of its session,
\* whatever came of the sessions and accounts its place had before: it says
\* "failed" until a retry succeeds, and "registered" only of one that is, unless
\* a 200 has ended the session or a change of the network has replaced it, of
\* which nothing is said, and no other answer has come since.
StatusIsTrue ==
  Quiet => \A i \in Ids : acc[i] # "none" =>
    /\ shown[i] = "registered" => acc[i] = "online" \/ amiss[i] = "kept"
    /\ shown[i] = "failed" => acc[i] \in {"failed", "trying"}

\* A card shows the configuration of the account it stands for, or none.
ConfigIsOfAccount ==
  op = Idle =>
    \A i \in Ids : accounts[i] # None /\ configs[i] # None =>
      accounts[i] = Stored(configs[i])

\* The same account has two places only when it was given without a port, which
\* RegisterAccount compares before it knows it.
DuplicateOnlyWithoutPort ==
  op = Idle =>
    \A i, j \in Ids :
      /\ i # j
      /\ accounts[i] # None /\ accounts[i] = accounts[j]
      /\ configs[i] # None /\ configs[j] # None
      => 0 \in {configs[i].port, configs[j].port}

\* As long as the engine has never been stopped, no event brings back an
\* account that was removed.
NoneRevived ==
  Quiet /\ engine /\ starts = 1 =>
    \A i \in Ids : shown[i] # "none" => acc[i] # "none"
=============================================================================

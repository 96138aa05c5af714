---------------------------- MODULE EventChannel ----------------------------
(***************************************************************************)
(* What PjsipService's event callback promises the Dart side, whatever the *)
(* platform: the events arrive in the order in which they were handed      *)
(* over, none twice and none left out, and each of them arrives unless the *)
(* application closes first or the system holds the events up.             *)
(***************************************************************************)
EXTENDS Naturals, Sequences

CONSTANT Events

VARIABLES
  sent,       \* the events handed over, in order
  received,   \* the events the channel has passed to Dart, in order
  open,       \* the application still runs
  held        \* the system has refused to wake the application

vars == <<sent, received, open, held>>

Init ==
  /\ sent = <<>> /\ received = <<>>
  /\ open = TRUE /\ held = FALSE

Send(e) ==
  /\ sent' = Append(sent, e)
  /\ UNCHANGED <<received, open, held>>

Receive ==
  /\ open
  /\ Len(received) < Len(sent)
  /\ received' = Append(received, sent[Len(received) + 1])
  /\ UNCHANGED <<sent, open, held>>

\* Events that wait are held up, or no longer.
Hold ==
  /\ open
  /\ held' = ~held
  /\ UNCHANGED <<sent, received, open>>

Close ==
  /\ open
  /\ open' = FALSE
  /\ UNCHANGED <<sent, received, held>>

Next == Receive \/ Hold \/ Close \/ \E e \in Events : Send(e)

Safety == Init /\ [][Next]_vars
Spec == Safety /\ WF_vars(~held /\ Receive)
=============================================================================

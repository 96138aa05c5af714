----------------------------- MODULE MCAccounts -----------------------------
\* Two users, interchangeable.
EXTENDS Accounts, TLC
CONSTANTS u1, u2
MCSymmetry == Permutations({u1, u2})
-----------------------------------------------------------------------------
(* What the repository says or the user expects and the code does not do: no *)
(* run checks these, TLC finds each violated (see the README).               *)

\* RegisterAccount: no account is configured twice.
NoDuplicate ==
  \A i, j \in Ids : accounts[i] # None /\ accounts[i] = accounts[j] => i = j

\* The account panel: an account is not shown after it was removed, nor is one
\* that went with the engine.
RemovedIsGone ==
  Quiet => \A i \in Ids : shown[i] # "none" => acc[i] # "none"

\* The account panel: an account the engine has is shown, so that it can be removed.
AccountHasCard ==
  Quiet => \A i \in Ids : acc[i] # "none" => shown[i] # "none"

\* An account that is shown as registered has a registration.
RegisteredIsOnline ==
  Quiet => \A i \in Ids :
    acc[i] # "none" /\ shown[i] = "registered" => acc[i] = "online"

\* The answer to an un-REGISTER is no registration.
OnlineIsRegistered ==
  [][\A i \in Ids : held' = [id |-> i, kind |-> "registered"] /\ held' # held
       => acc'[i] = "online"]_vars

\* The call panel: after an account has registered a number can be dialled.
RegisteredCanDial ==
  Quiet /\ (\E i \in Ids : acc[i] = "online") => selected # None
=============================================================================

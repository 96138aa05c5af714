---------------------------- MODULE MCCallPanel ----------------------------
\* Two slots; calls, events and starts are bounded by the configuration.
EXTENDS CallPanel
-----------------------------------------------------------------------------
(* What the repository says or the user expects and the code does not do: no *)
(* run checks these, TLC finds each violated (see the README).               *)

\* The call panel shows the calls there are, each on a card.
OnlyCallsHaveCards == Quiet => \A s \in Slots : cards[s] # NoCard => Live(s)

\* Every live call has a card: a late event of the call before does not take it.
LiveHasCard == Quiet => \A s \in Slots : Live(s) => cards[s] # NoCard

\* The call panel shows the microphone as muted when it is.
MutedIsSilent == Quiet /\ engine /\ muted => silent
=============================================================================

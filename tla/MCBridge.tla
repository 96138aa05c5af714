------------------------------ MODULE MCBridge ------------------------------
EXTENDS Bridge
CONSTANTS wifi, lan
-----------------------------------------------------------------------------
(* What the repository says or the user expects and the code does not do: no *)
(* run checks these, TLC finds each violated (see the README).               *)

\* initialize() answers "PJSIP is already initialized".
AlreadyInitializedIsTrue ==
  [][BeginInitialize /\ todo' = Sync => engine]_vars

\* The monitor announces that SIP is about to be recovered.
AnnouncedIsDone == <>[](engine /\ link # NoLink /\ ~debounce => bound = links)
=============================================================================

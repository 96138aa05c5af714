------------------------------ MODULE SipEngine ------------------------------
(***************************************************************************)
(* The call table of the vendored pjsua engine, as far as the service in   *)
(* native/pjsip_service.cpp can observe and change it: one record per call *)
(* slot, and one operator per engine call, each atomic because the engine  *)
(* holds the dialog lock or PJSUA_LOCK for its duration.  The operators    *)
(* are guards and next values of "call"; CallService composes them with    *)
(* the callbacks the engine makes on its two threads.                      *)
(***************************************************************************)
EXTENDS FiniteSets

CONSTANTS
  CallIds,   \* the engine's call slots; the service configures four
  NoCall     \* PJSUA_INVALID_ID

ASSUME CallIdsAssumption == IsFiniteSet(CallIds) /\ NoCall \notin CallIds

VARIABLE call   \* pjsua_var.calls

\* PJSIP_INV_STATE_*; "free" is a slot whose inv is NULL, and "incoming" is an
\* unanswered incoming call, before and after its 180.
InvStates == {"free", "calling", "incoming", "early", "connecting",
              "confirmed", "disconnected"}
\* PJSUA_CALL_MEDIA_*
MediaStates == {"none", "active", "localHold", "remoteHold"}
\* Our re-INVITE in progress in the dialog.
Offers == {"none", "hold", "unhold"}

Call == [state     : InvStates,
         role      : {"UAC", "UAS"},
         hangingUp : BOOLEAN,        \* pjsua_call.hanging_up
         localHold : BOOLEAN,        \* pjsua_call.local_hold
         offer     : Offers,
         media     : MediaStates,    \* state of the call's audio media
         connected : BOOLEAN]        \* its conference port <-> sound device

FreeCall == [state |-> "free", role |-> "UAC", hangingUp |-> FALSE,
             localHold |-> FALSE, offer |-> "none", media |-> "none",
             connected |-> FALSE]

EngineTypeOK == call \in [CallIds -> Call]

NoCalls == [c \in CallIds |-> FreeCall]

-----------------------------------------------------------------------------
(* Queries.                                                                *)

\* Variant: the list is read one entry too far.
EnumCallsTooFar == {c \in CallIds : call[c].state # "free"} \cup {NoCall}

\* pjsua_enum_calls: every slot with an invite session.
EnumCalls == {c \in CallIds : call[c].state # "free"}

\* pjsua_call_is_active
IsActive(c) == /\ ~call[c].hangingUp
               /\ call[c].state \notin {"free", "disconnected"}

\* pjsua_call_get_conf_port: a conference port exists while media runs.
HasPort(c) == IsActive(c) /\ call[c].media # "none"

-----------------------------------------------------------------------------
(* What the service asks of the engine.                                    *)

\* pjsua_conf_connect or pjsua_conf_disconnect, both directions.
SetConnected(c, b) ==
  IF HasPort(c) THEN [call EXCEPT ![c].connected = b] ELSE call

\* pjsua_call_make_call: a free slot becomes an outgoing call.
PlaceCall(c) == [call EXCEPT ![c] = [FreeCall EXCEPT !.state = "calling"]]

\* pjsua_call_on_incoming: a free slot becomes an unanswered incoming call.
Arrive(c) ==
  [call EXCEPT ![c] = [FreeCall EXCEPT !.state = "incoming", !.role = "UAS"]]

\* pjsua_call_answer with a final code needs an unanswered incoming INVITE.
CanAnswer(c) == /\ IsActive(c)
                /\ call[c].state = "incoming"

\* pjsua_call_set_hold and pjsua_call_reinvite need a confirmed call with no
\* re-INVITE of ours in progress; they fail for other reasons too, such as a
\* re-INVITE of the peer.
CanReinvite(c) == /\ IsActive(c)
                  /\ call[c].state = "confirmed"
                  /\ call[c].offer = "none"

SendHold(c) ==
  [call EXCEPT ![c] = [@ EXCEPT !.localHold = TRUE, !.offer = "hold"]]

\* PJ_TRUE as options is PJSUA_CALL_UNHOLD.
SendUnhold(c) ==
  [call EXCEPT ![c] = [@ EXCEPT !.localHold = FALSE, !.offer = "unhold"]]

\* The peer refuses our re-INVITE, or does not answer: the flag reverts, and
\* media and callbacks are left alone.
RefuseOffer(c) ==
  [call EXCEPT ![c] = [@ EXCEPT !.localHold = call[c].offer = "unhold",
                                !.offer = "none"]]

\* An ended call that still has its slot; its media is deinitialised, and
\* nothing else of it is read again.
Ended == [FreeCall EXCEPT !.state = "disconnected"]

\* pjsua_call_hangup: the call is over for the service at once, its slot only
\* when the peer agrees.
HangUp(c) == [call EXCEPT ![c] = [Ended EXCEPT !.hangingUp = TRUE]]

\* The invite session reaches DISCONNECTED.
Disconnect(c) == [call EXCEPT ![c] = Ended]

\* inv = NULL and reset_call.
Release(c) == [call EXCEPT ![c] = FreeCall]

-----------------------------------------------------------------------------
(* Media negotiation.                                                      *)

\* The media state apply_med_update computes from the negotiated direction;
\* the peer chooses whether it lets us send.
Negotiated(c) ==
  IF call[c].localHold THEN {"localHold"} ELSE {"active", "remoteHold"}

\* A new direction restarts the stream, and with it a new, unconnected
\* conference port; an unchanged one may keep the stream.
MediaUpdate(c, m, offer, keep) ==
  [call EXCEPT ![c] =
     [@ EXCEPT !.media = m, !.offer = offer,
               !.connected = call[c].connected /\ keep /\ m = call[c].media]]
==============================================================================

-------------------------- MODULE SipEngine_proofs --------------------------
(***************************************************************************)
(* Lemmas about the operators of SipEngine: every engine call leaves a     *)
(* well-formed call table.                                                 *)
(***************************************************************************)
EXTENDS SipEngine, TLAPS

\* A record of the call table stays one when a field gets a value of its type.
LEMMA CallFields ==
  ASSUME NEW r \in Call
  PROVE  /\ \A s \in InvStates : [r EXCEPT !.state = s] \in Call
         /\ \A m \in MediaStates : [r EXCEPT !.media = m] \in Call
         /\ \A o \in Offers : [r EXCEPT !.offer = o] \in Call
         /\ \A b \in BOOLEAN : /\ [r EXCEPT !.hangingUp = b] \in Call
                               /\ [r EXCEPT !.localHold = b] \in Call
                               /\ [r EXCEPT !.connected = b] \in Call
  BY DEF Call

\* A table stays one when a slot gets a record.
LEMMA CallTable ==
  ASSUME EngineTypeOK, NEW c \in CallIds
  PROVE  /\ call[c] \in Call
         /\ \A r \in Call : [call EXCEPT ![c] = r] \in [CallIds -> Call]
  BY DEF EngineTypeOK

\* The records the engine puts into a slot as a whole.
LEMMA FixedCalls ==
  /\ FreeCall \in Call
  /\ Ended \in Call
  /\ [Ended EXCEPT !.hangingUp = TRUE] \in Call
  /\ NoCalls \in [CallIds -> Call]
<1>1. FreeCall \in Call
  BY DEF FreeCall, Call, InvStates, MediaStates, Offers
<1>2. Ended \in Call
  BY <1>1, CallFields DEF Ended, InvStates, MediaStates, Offers
<1>3. [Ended EXCEPT !.hangingUp = TRUE] \in Call
  BY <1>2, CallFields DEF InvStates, MediaStates, Offers
<1>4. NoCalls \in [CallIds -> Call]
  BY <1>1 DEF NoCalls
<1> QED
  BY <1>1, <1>2, <1>3, <1>4

\* Every engine call keeps the call table well-formed.
LEMMA EngineCalls ==
  ASSUME EngineTypeOK, NEW c \in CallIds
  PROVE  /\ \A b \in BOOLEAN : SetConnected(c, b) \in [CallIds -> Call]
         /\ PlaceCall(c) \in [CallIds -> Call]
         /\ Arrive(c) \in [CallIds -> Call]
         /\ SendHold(c) \in [CallIds -> Call]
         /\ SendUnhold(c) \in [CallIds -> Call]
         /\ RefuseOffer(c) \in [CallIds -> Call]
         /\ HangUp(c) \in [CallIds -> Call]
         /\ Disconnect(c) \in [CallIds -> Call]
         /\ Release(c) \in [CallIds -> Call]
<1> DEFINE ringing == [FreeCall EXCEPT !.state = "incoming"]
           Flagged(b) == [call[c] EXCEPT !.localHold = b]
<1>0. /\ {"calling", "incoming"} \subseteq InvStates
      /\ {"none", "hold", "unhold"} \subseteq Offers
      /\ TRUE \in BOOLEAN /\ FALSE \in BOOLEAN
      /\ (call[c].offer = "unhold") \in BOOLEAN
  BY Zenon DEF InvStates, Offers
<1>1. \A b \in BOOLEAN : SetConnected(c, b) \in [CallIds -> Call]
  BY DEF SetConnected, EngineTypeOK, Call
<1>2. PlaceCall(c) \in [CallIds -> Call]
  BY <1>0, FixedCalls, CallFields, CallTable DEF PlaceCall
<1>3. Arrive(c) \in [CallIds -> Call]
  <2>1. ringing \in Call
    BY <1>0, FixedCalls, CallFields
  <2>2. [ringing EXCEPT !.role = "UAS"] \in Call
    <3> HIDE DEF ringing
    <3> QED
      BY <2>1 DEF Call
  <2> QED
    BY <2>2, CallTable, Zenon DEF Arrive
<1>4. \A b \in BOOLEAN, o \in Offers : [Flagged(b) EXCEPT !.offer = o] \in Call
  <2>1. \A b \in BOOLEAN : Flagged(b) \in Call
    BY CallTable, CallFields
  <2> HIDE DEF Flagged
  <2> QED
    BY <2>1, CallFields
<1>5. SendHold(c) \in [CallIds -> Call]
  BY <1>0, <1>4, CallTable, Zenon DEF SendHold
<1>6. SendUnhold(c) \in [CallIds -> Call]
  BY <1>0, <1>4, CallTable, Zenon DEF SendUnhold
<1>7. RefuseOffer(c) \in [CallIds -> Call]
  BY <1>0, <1>4, CallTable, Zenon DEF RefuseOffer
<1>8. /\ HangUp(c) \in [CallIds -> Call]
      /\ Disconnect(c) \in [CallIds -> Call]
      /\ Release(c) \in [CallIds -> Call]
  BY FixedCalls, CallTable DEF HangUp, Disconnect, Release
<1> QED
  BY <1>1, <1>2, <1>3, <1>5, <1>6, <1>7, <1>8

\* A media update changes media, our offer and the connection of one call, and
\* leaves the table well-formed.
LEMMA MediaUpdates ==
  ASSUME EngineTypeOK, NEW c \in CallIds, NEW m \in MediaStates,
         NEW o \in Offers, NEW keep \in BOOLEAN,
         NEW table, table = MediaUpdate(c, m, o, keep)
  PROVE  /\ table \in [CallIds -> Call]
         /\ table[c].media = m
         /\ table[c].state = call[c].state
         /\ table[c].hangingUp = call[c].hangingUp
         /\ table[c].role = call[c].role
         /\ table[c].localHold = call[c].localHold
         /\ table[c].offer = o
         /\ table[c].connected => call[c].connected
         /\ \A d \in CallIds \ {c} : table[d] = call[d]
<1> DEFINE r1 == [call[c] EXCEPT !.media = m]
           r2 == [r1 EXCEPT !.offer = o]
           k  == call[c].connected /\ keep /\ m = call[c].media
           r3 == [r2 EXCEPT !.connected = k]
<1>1. r1 \in Call
  BY CallTable, CallFields
<1>2. r2 \in Call
  BY <1>1, CallFields
<1>3. k \in BOOLEAN
  BY Zenon
<1>4. r3 \in Call
  BY <1>2, <1>3, CallFields, Zenon
<1>5. table = [call EXCEPT ![c] = r3]
  BY Zenon DEF MediaUpdate
<1>6. /\ r3.media = m
      /\ r3.state = call[c].state
      /\ r3.hangingUp = call[c].hangingUp
      /\ r3.role = call[c].role
      /\ r3.localHold = call[c].localHold
      /\ r3.offer = o
      /\ r3.connected = k
  BY CallTable DEF Call
<1> HIDE DEF r3
<1> QED
  BY <1>4, <1>5, <1>6, CallTable DEF EngineTypeOK

\* A table stays one when a slot changes state, and nothing else changes.
LEMMA StateChange ==
  ASSUME NEW table \in [CallIds -> Call], NEW c \in CallIds,
         NEW s \in InvStates, NEW table2,
         table2 = [table EXCEPT ![c].state = s]
  PROVE  /\ table2 \in [CallIds -> Call]
         /\ table2[c].state = s
         /\ table2[c].media = table[c].media
         /\ table2[c].hangingUp = table[c].hangingUp
         /\ table2[c].role = table[c].role
         /\ table2[c].localHold = table[c].localHold
         /\ table2[c].offer = table[c].offer
         /\ table2[c].connected = table[c].connected
         /\ \A d \in CallIds \ {c} : table2[d] = table[d]
  BY DEF Call

\* The negotiated states are media states.
LEMMA NegotiatedType ==
  ASSUME NEW c \in CallIds
  PROVE  Negotiated(c) \subseteq MediaStates
  BY DEF Negotiated, MediaStates

\* Connecting and disconnecting a call changes only its connection, and that
\* only while it has a conference port.
LEMMA ConnectedSet ==
  ASSUME EngineTypeOK, NEW c \in CallIds, NEW b \in BOOLEAN, NEW table,
         table = SetConnected(c, b)
  PROVE  /\ HasPort(c) => table[c].connected = b
         /\ ~HasPort(c) => table[c].connected = call[c].connected
         /\ \A d \in CallIds \ {c} : table[d] = call[d]
         /\ \A d \in CallIds : /\ table[d].state = call[d].state
                               /\ table[d].role = call[d].role
                               /\ table[d].hangingUp = call[d].hangingUp
                               /\ table[d].localHold = call[d].localHold
                               /\ table[d].offer = call[d].offer
                               /\ table[d].media = call[d].media
  BY DEF SetConnected, EngineTypeOK, Call

\* A re-INVITE of ours, and the end of one that is refused, change the hold flag
\* and the offer of one call.
LEMMA OfferSet ==
  ASSUME EngineTypeOK, NEW c \in CallIds, NEW table,
         \/ table = SendHold(c)
         \/ table = SendUnhold(c)
         \/ table = RefuseOffer(c)
  PROVE  /\ \A d \in CallIds \ {c} : table[d] = call[d]
         /\ \A d \in CallIds : /\ table[d].state = call[d].state
                               /\ table[d].role = call[d].role
                               /\ table[d].hangingUp = call[d].hangingUp
                               /\ table[d].media = call[d].media
                               /\ table[d].connected = call[d].connected
         /\ table = SendHold(c) => table[c].localHold /\ table[c].offer = "hold"
         /\ table = SendUnhold(c) => table[c].offer = "unhold"
         /\ table = RefuseOffer(c) =>
              /\ table[c].offer = "none"
              /\ table[c].localHold = (call[c].offer = "unhold")
<1> DEFINE Offering(b, o) == [call EXCEPT ![c] = [@ EXCEPT !.localHold = b, !.offer = o]]
<1>1. ASSUME NEW b \in BOOLEAN, NEW o \in Offers
      PROVE  /\ \A d \in CallIds \ {c} : Offering(b, o)[d] = call[d]
             /\ \A d \in CallIds : /\ Offering(b, o)[d].state = call[d].state
                                   /\ Offering(b, o)[d].role = call[d].role
                                   /\ Offering(b, o)[d].hangingUp = call[d].hangingUp
                                   /\ Offering(b, o)[d].media = call[d].media
                                   /\ Offering(b, o)[d].connected = call[d].connected
             /\ Offering(b, o)[c].localHold = b /\ Offering(b, o)[c].offer = o
  BY DEF EngineTypeOK, Call
<1>2. SendHold(c) = Offering(TRUE, "hold") /\ SendUnhold(c) = Offering(FALSE, "unhold")
  BY DEF SendHold, SendUnhold
<1>3. RefuseOffer(c) = Offering(call[c].offer = "unhold", "none")
  BY DEF RefuseOffer
<1>4. /\ "none" \in Offers /\ "hold" \in Offers /\ "unhold" \in Offers
      /\ TRUE \in BOOLEAN /\ FALSE \in BOOLEAN
      /\ (call[c].offer = "unhold") \in BOOLEAN
  BY Zenon DEF Offers
<1> HIDE DEF Offering
<1>5. PICK hold \in BOOLEAN, offer \in Offers : table = Offering(hold, offer)
  BY <1>2, <1>3, <1>4, Zenon
<1>6. /\ SendHold(c)[c].localHold = TRUE /\ SendHold(c)[c].offer = "hold"
      /\ SendUnhold(c)[c].offer = "unhold"
  <2>1. /\ Offering(TRUE, "hold")[c].localHold = TRUE
        /\ Offering(TRUE, "hold")[c].offer = "hold"
        /\ Offering(FALSE, "unhold")[c].offer = "unhold"
    BY <1>1, <1>4
  <2> QED
    BY <1>2, <2>1
<1>7. /\ RefuseOffer(c)[c].offer = "none"
      /\ RefuseOffer(c)[c].localHold = (call[c].offer = "unhold")
  <2>1. ASSUME NEW b \in BOOLEAN
        PROVE  Offering(b, "none")[c].offer = "none" /\ Offering(b, "none")[c].localHold = b
    BY <1>1, <1>4
  <2> QED
    BY <1>3, <1>4, <2>1, Zenon
<1>8. /\ table = SendHold(c) => table[c].localHold /\ table[c].offer = "hold"
      /\ table = SendUnhold(c) => table[c].offer = "unhold"
      /\ table = RefuseOffer(c) =>
           table[c].offer = "none" /\ table[c].localHold = (call[c].offer = "unhold")
  BY <1>6, <1>7, Zenon
<1>9. /\ \A d \in CallIds \ {c} : table[d] = call[d]
      /\ \A d \in CallIds : /\ table[d].state = call[d].state
                            /\ table[d].role = call[d].role
                            /\ table[d].hangingUp = call[d].hangingUp
                            /\ table[d].media = call[d].media
                            /\ table[d].connected = call[d].connected
  BY <1>1, <1>5
<1> QED
  BY <1>8, <1>9, Zenon

\* A slot whose call begins, is over, or is given up: no media, no connection, no
\* hold and no offer.
LEMMA SlotReset ==
  ASSUME EngineTypeOK, NEW c \in CallIds, NEW table,
         \/ table = PlaceCall(c) \/ table = Arrive(c) \/ table = HangUp(c)
         \/ table = Disconnect(c) \/ table = Release(c)
  PROVE  /\ \A d \in CallIds \ {c} : table[d] = call[d]
         /\ table[c].media = "none" /\ ~table[c].connected
         /\ ~table[c].localHold /\ table[c].offer = "none"
         /\ table[c].hangingUp => table[c].state = "disconnected"
         /\ table = PlaceCall(c) => table[c].state = "calling" /\ table[c].role = "UAC"
         /\ table = Arrive(c) => table[c].state = "incoming"
         /\ table = HangUp(c) => table[c].state = "disconnected"
         /\ table = Disconnect(c) => table[c].state = "disconnected"
         /\ table = Release(c) => table[c].state = "free"
<1> DEFINE Fresh(r) == /\ r.media = "none" /\ ~r.connected
                       /\ ~r.localHold /\ r.offer = "none"
                       /\ r.hangingUp => r.state = "disconnected"
           placed == [FreeCall EXCEPT !.state = "calling"]
           arrived == [FreeCall EXCEPT !.state = "incoming", !.role = "UAS"]
           hungUp == [Ended EXCEPT !.hangingUp = TRUE]
           With(r) == [call EXCEPT ![c] = r]
<1>1. /\ Fresh(placed) /\ placed.state = "calling" /\ placed.role = "UAC"
      /\ Fresh(arrived) /\ arrived.state = "incoming"
      /\ Fresh(hungUp) /\ hungUp.state = "disconnected"
      /\ Fresh(Ended) /\ Ended.state = "disconnected"
      /\ Fresh(FreeCall) /\ FreeCall.state = "free"
  BY DEF Ended, FreeCall
<1>2. ASSUME NEW r
      PROVE  With(r)[c] = r /\ \A d \in CallIds \ {c} : With(r)[d] = call[d]
  BY DEF EngineTypeOK
<1>3. /\ PlaceCall(c) = With(placed) /\ Arrive(c) = With(arrived)
      /\ HangUp(c) = With(hungUp) /\ Disconnect(c) = With(Ended)
      /\ Release(c) = With(FreeCall)
  BY DEF PlaceCall, Arrive, HangUp, Disconnect, Release
<1> HIDE DEF placed, arrived, hungUp, With
<1>4. /\ table = PlaceCall(c) => table[c] = placed
      /\ table = Arrive(c) => table[c] = arrived
      /\ table = HangUp(c) => table[c] = hungUp
      /\ table = Disconnect(c) => table[c] = Ended
      /\ table = Release(c) => table[c] = FreeCall
      /\ \A d \in CallIds \ {c} : table[d] = call[d]
  BY <1>2, <1>3
<1> QED
  BY <1>1, <1>4
==============================================================================

--------------------------- MODULE DeliveryPromise ---------------------------
(***************************************************************************)
(* What the delivery of messages promises, whatever ids, sessions, parked  *)
(* plaintexts and retries it takes: the peer decides on a message that was *)
(* sent, the sender is told of a delivery that was decided, and neither is *)
(* ever taken back.                                                        *)
(***************************************************************************)
CONSTANT Msgs

VARIABLES
    sent,     \* messages the user sent
    settled,  \* messages the peer's device came to a verdict on
    told      \* messages the sender shows as delivered

vars == <<sent, settled, told>>

Init == sent = {} /\ settled = {} /\ told = {}

Send(m) == sent' = sent \cup {m} /\ UNCHANGED <<settled, told>>

Settle(m) == m \in sent /\ settled' = settled \cup {m} /\ UNCHANGED <<sent, told>>

Tell(m) == m \in settled /\ told' = told \cup {m} /\ UNCHANGED <<sent, settled>>

Next == \E m \in Msgs : Send(m) \/ Settle(m) \/ Tell(m)

Spec == Init /\ [][Next]_vars
=============================================================================

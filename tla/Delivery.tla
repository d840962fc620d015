------------------------------ MODULE Delivery ------------------------------
(***************************************************************************)
(* Two devices and the mailboxes between them: the sender's Outbox, the    *)
(* peer's Inbox, and the events of Mailbox.                                *)
(***************************************************************************)
EXTENDS Outbox, Inbox

vars == <<outboxVars, inboxVars, mailVars>>

TypeOK == MailboxTypeOK /\ OutboxTypeOK /\ InboxTypeOK

Init == MailboxInit /\ OutboxInit /\ InboxInit

Next ==
    \/ OutboxNext /\ UNCHANGED inboxVars
    \/ InboxNext /\ UNCHANGED outboxVars
    \/ Restore /\ UNCHANGED <<outboxVars, inboxVars>>

Spec == Init /\ [][Next]_vars

\* A device on which a task can run, a timer is due or mail can be fetched
\* takes a step in the end.  Which one is left open: with bounded events no
\* order of them runs for ever.  Nobody owes a message, an acceptance or an
\* expiry.
Fairness ==
    /\ WF_vars(SenderProgress /\ UNCHANGED inboxVars)
    /\ WF_vars(PeerProgress /\ UNCHANGED outboxVars)

FairSpec == Spec /\ Fairness

-----------------------------------------------------------------------------

\* The sender shows a message as delivered only when the peer's device decided
\* on it: handled it, refused it or dropped it for good.  Every "ok" the peer
\* sends without handling anything (a duplicate ratchet step, a handled mark)
\* has to rest on such a verdict.
DeliveredIsDecided ==
    \A m \in delivered : \E r \in decided : origin[r] = m

\* A message the user sent is in the outbox exactly once until the peer's
\* receipt for it arrived, through renames, replacements, repairs and stops.
OutboxHoldsUndelivered ==
    \A m \in Msgs :
        (\E r \in Rids : origin[r] = m) =>
            IF m \in delivered THEN Rows(m) = {} ELSE \E r \in Rids : Rows(m) = {r}

\* The content behind one receipt id is handled at most once, whatever copies
\* of it arrive, are opened again or are retried from this device.
HandledOnce == \A r \in Rids : runs[r] <= 1

\* The mailbox drops an envelope only when this device needs it no more: its
\* plaintext is parked here, its outcome decided, or an error asks for another
\* (acknowledge_pending_messages: "either way it is durable").
AckedIsDurable ==
    [][\A f \in toPeer :
        f \notin toPeer' => f.rid \in pending' \cup decided' \cup errored']_vars

\* Every message is settled: it is reported to its sender as delivered, or the
\* peer's device came to a verdict that withholds the receipt.
EveryMessageIsSettled ==
    \A m \in Msgs : (\E r \in Rids : origin[r] = m)
        ~> (m \in delivered \/ \E r \in decided \ handled : origin[r] = m)

\* A receipt handle_plaintext_content parked for a session rebuild is freed
\* again; only one that failed too often waits for the peer to write.
ParkedIsReleased ==
    \A r \in Rids : (r \in parked /\ failures[r] < MaxFailures) ~> (r \notin parked)

\* What a conversation promises its users, see DeliveryPromise.
Sent == {m \in Msgs : \E r \in Rids : origin[r] = m}
Settled == {m \in Msgs : \E r \in decided : origin[r] = m}

Promise == INSTANCE DeliveryPromise WITH sent <- Sent, settled <- Settled, told <- delivered

\* Delivery implements DeliveryPromise.
KeepsPromise == Promise!Spec
=============================================================================

------------------------------- MODULE Outbox -------------------------------
(***************************************************************************)
(* The sender's side of a conversation: the receipts table, the tasks that *)
(* encrypt and submit its rows, and the handling of what the peer answers. *)
(* The columns of a row are sets of receipt ids.  Time only matters as the *)
(* resend suppression window: a row that was just sent is `recent`.        *)
(***************************************************************************)
EXTENDS Mailbox

CONSTANTS
    MaxFailures   \* MAX_DECRYPTION_FAILURES

ASSUME OutboxAssumption == MaxFailures \in Nat \ {0}

VARIABLES
    origin,      \* the message a receipt id was created for, or NoMsg
    queued,      \* ids with a row in receipts
    acked,       \* ack_by_server_at is set
    recent,      \* last_retry lies inside the suppression window
    marked,      \* mark_for_retry is set
    parked,      \* deferred_until_session is set
    failures,    \* decryption_failures
    answered,    \* ids claimed in the sender's own received_receipts
    delivered,   \* messages with an ackByUserAt action
    current,     \* session new ciphertexts are encrypted under, 0 for none
    resetBefore, \* the peer has a row in signal_session_resets
    listed,      \* ids each sending task has yet to take up
    task,        \* the sending tasks: the queue flush and a direct delivery
    rebuilds     \* session rebuilds under way: [why, at]

rowVars == <<origin, queued, acked, recent, marked, parked, failures>>
taskVars == <<listed, task, rebuilds>>
sessionVars == <<current, resetBefore>>
outboxVars == <<rowVars, answered, delivered, sessionVars, taskVars>>

Tasks == {"flush", "direct"}
Repairs == {"PeerReset", "RepeatedFailures"}
Rebuild == [why : Repairs, at : {"owed", "fetching"}]

OutboxTypeOK ==
    /\ origin \in [Rids -> Msgs \cup {NoMsg}]
    /\ queued \subseteq Rids
    /\ acked \subseteq queued
    /\ recent \subseteq acked
    /\ marked \subseteq queued
    /\ parked \subseteq queued
    /\ failures \in [Rids -> Nat]
    /\ answered \subseteq Rids
    /\ delivered \subseteq Msgs
    /\ current \in 0..newest
    /\ resetBefore \in BOOLEAN
    /\ listed \in [Tasks -> SUBSET Rids]
    /\ task \in [Tasks -> [at : {"idle", "loaded", "accepted"}, rid : Rids]]
    /\ rebuilds \subseteq Rebuild

Idle == [at |-> "idle", rid |-> 1]

OutboxInit ==
    /\ origin = [r \in Rids |-> NoMsg]
    /\ queued = {}
    /\ acked = {}
    /\ recent = {}
    /\ marked = {}
    /\ parked = {}
    /\ failures = [r \in Rids |-> 0]
    /\ answered = {}
    /\ delivered = {}
    /\ current = 0
    /\ resetBefore = FALSE
    /\ listed = [t \in Tasks |-> {}]
    /\ task = [t \in Tasks |-> Idle]
    /\ rebuilds = {}

Rows(m) == {r \in queued : origin[r] = m}

\* Receipt ids are random; taking them in order loses nothing.
IsFresh(r) ==
    /\ origin[r] = NoMsg
    /\ \A q \in Rids : q < r => origin[q] # NoMsg

\* Mutant: the suppression window is not looked at, only the acknowledgement.
DueUnacknowledged(r) == r \notin acked

\* receipt_is_due
Due(r) == r \notin recent

\* send_c2c_message_to_contact: queue the message, replacing the receipt of an
\* earlier attempt, and spawn its delivery.  The replacement keeps last_retry
\* but not the acknowledgement, which is what makes it due.
Send(m) ==
    \E r \in Rids :
        /\ m \notin delivered
        /\ IsFresh(r)
        /\ IF \E q \in Rids : origin[q] = m THEN Event("sendAgain") ELSE UNCHANGED events
        /\ origin' = [origin EXCEPT ![r] = m]
        /\ queued' = (queued \ Rows(m)) \cup {r}
        /\ acked' = acked \ Rows(m)
        /\ recent' = recent \ Rows(m)
        /\ marked' = marked \ Rows(m)
        /\ parked' = parked \ Rows(m)
        /\ listed' = [listed EXCEPT !["direct"] = @ \cup {r}]
        /\ UNCHANGED <<failures, answered, delivered, sessionVars, task, rebuilds>>
        /\ UNCHANGED <<toPeer, toSender, newest, broken>>

\* The suppression window of a row runs out.
Elapse(r) ==
    /\ r \in recent
    /\ recent' = recent \ {r}
    /\ UNCHANGED <<origin, queued, acked, marked, parked, failures>>
    /\ UNCHANGED <<answered, delivered, sessionVars, taskVars, mailVars>>

\* due_receipt_ids
DueIds == {r \in queued \ parked : (r \in acked => r \in marked) /\ Due(r)}

\* flush_queued_receipts lists what is due, once, before it sends any of it.
Sweep ==
    /\ task["flush"].at = "idle" /\ listed["flush"] = {}
    /\ DueIds # {}
    /\ listed' = [listed EXCEPT !["flush"] = DueIds]
    /\ UNCHANGED <<rowVars, answered, delivered, sessionVars, task, rebuilds, mailVars>>

\* send_queued_receipt reads the row of an id it was given.  A row that is gone
\* or was sent meanwhile is left alone; one parked meanwhile is not.
Load(t, r) ==
    /\ task[t].at = "idle"
    /\ r \in listed[t]
    /\ listed' = [listed EXCEPT ![t] = @ \ {r}]
    /\ task' = IF r \in queued /\ Due(r)
               THEN [task EXCEPT ![t] = [at |-> "loaded", rid |-> r]]
               ELSE task
    /\ UNCHANGED <<rowVars, answered, delivered, sessionVars, rebuilds, mailVars>>

\* The session a ciphertext goes out under: the current one, or, when there is
\* none, one built from the prekey bundle the server returns.
SessionFor(s) == s = IF current = 0 THEN newest + 1 ELSE current

\* establish_signal_session releases everything parked for the peer.
Released == IF current = 0 THEN {} ELSE parked

\* encrypt_v2_with_session_recovery, and the server takes the envelope.
PostCiphertext(r, s) ==
    /\ SessionFor(s)
    /\ s \in Sessions
    /\ newest' = IF s > newest THEN s ELSE newest
    /\ current' = s
    /\ parked' = Released
    /\ \E e \in Envs :
        /\ \A f \in toPeer : f.id # e
        /\ \A d \in Envs : d < e => \E f \in toPeer : f.id = d
        /\ toPeer' = toPeer \cup {[id |-> e, rid |-> r, sess |-> s]}
    /\ UNCHANGED <<origin, queued, acked, recent, marked, failures>>
    /\ UNCHANGED <<answered, delivered, resetBefore, listed, rebuilds, toSender, broken>>

\* The server answers that it took the envelope.
Submit(t, s) ==
    /\ task[t].at = "loaded"
    /\ PostCiphertext(task[t].rid, s)
    /\ task' = [task EXCEPT ![t].at = "accepted"]
    /\ UNCHANGED events

\* The envelope arrives but its answer does not; handing the envelope to the
\* operating system (hand_to_os) leaves the row the same way.
SubmitUnheard(t, s) ==
    /\ Event("noResponse")
    /\ task[t].at = "loaded"
    /\ PostCiphertext(task[t].rid, s)
    /\ task' = [task EXCEPT ![t] = Idle]

\* The server is out of reach or rejects the envelope: the row stays due.
SubmitFails(t) ==
    /\ Event("noResponse")
    /\ task[t].at = "loaded"
    /\ task' = [task EXCEPT ![t] = Idle]
    /\ UNCHANGED <<rowVars, answered, delivered, sessionVars, listed, rebuilds>>
    /\ UNCHANGED <<toPeer, toSender, newest, broken>>

\* No session, and the peer has published no bundle: park the receipt.
DeferUntilSession(t) ==
    /\ Event("noBundle")
    /\ task[t].at = "loaded"
    /\ current = 0
    /\ parked' = parked \cup ({task[t].rid} \cap queued)
    /\ task' = [task EXCEPT ![t] = Idle]
    /\ UNCHANGED <<origin, queued, acked, recent, marked, failures>>
    /\ UNCHANGED <<answered, delivered, sessionVars, listed, rebuilds>>
    /\ UNCHANGED <<toPeer, toSender, newest, broken>>

\* The second transaction of send_queued_receipt.  The row it read may have
\* been renamed or deleted meanwhile; the update then matches nothing.
CommitAccepted(t) ==
    /\ task[t].at = "accepted"
    /\ LET sent == {task[t].rid} \cap queued
       IN  /\ acked' = acked \cup sent
           /\ recent' = recent \cup sent
           /\ marked' = marked \ sent
    /\ task' = [task EXCEPT ![t] = Idle]
    /\ UNCHANGED <<origin, queued, parked, failures>>
    /\ UNCHANGED <<answered, delivered, sessionVars, listed, rebuilds, mailVars>>

-----------------------------------------------------------------------------

\* Mutant: the acknowledgement outlives its row.
ForgetRow(r) ==
    /\ queued' = queued \ {r}
    /\ recent' = recent \ {r}
    /\ marked' = marked \ {r}
    /\ parked' = parked \ {r}
    /\ UNCHANGED acked

\* A row leaves the table.
Forget(r) ==
    /\ queued' = queued \ {r}
    /\ acked' = acked \ {r}
    /\ recent' = recent \ {r}
    /\ marked' = marked \ {r}
    /\ parked' = parked \ {r}

\* handle_sender_delivery_receipt; a copy whose id is claimed runs it again.
DeliveryReceipt(m) ==
    \E y \in toSender :
        /\ y.kind = "ok"
        /\ origin[y.rid] = m
        /\ Acked(toSender, y, toSender')
        /\ answered' = answered \cup {y.rid}
        /\ delivered' = IF y.rid \in queued THEN delivered \cup {m} ELSE delivered
        /\ Forget(y.rid)
        /\ UNCHANGED <<origin, failures, sessionVars, taskVars, toPeer, newest, broken>>

IsError(y) == y \in toSender /\ y.kind # "ok"

\* A second copy of an error finds its id claimed.
ErrorAgain(y) ==
    /\ IsError(y)
    /\ y.rid \in answered
    /\ Acked(toSender, y, toSender')
    /\ UNCHANGED <<outboxVars, toPeer, newest, broken>>

\* An error for a receipt that is gone only reports the peer's reset.
ErrorWithoutRow(y) ==
    /\ IsError(y)
    /\ y.rid \notin answered \cup queued
    /\ Acked(toSender, y, toSender')
    /\ answered' = answered \cup {y.rid}
    /\ rebuilds' = IF y.kind = "reset"
                   THEN rebuilds \cup {[why |-> "PeerReset", at |-> "owed"]}
                   ELSE rebuilds
    /\ UNCHANGED <<rowVars, delivered, sessionVars, listed, task, toPeer, newest, broken>>

\* The session is suspect once this message, or another one, failed before.
Suspect(r) == failures[r] > 0 \/ \E q \in queued \ {r} : failures[q] > 0

Exhausted(r) == failures[r] + 1 >= MaxFailures

\* The rebuild an error calls for, as a set of at most one repair.
Repair(r, kind) ==
    IF kind = "reset" THEN {"PeerReset"}
    ELSE IF Suspect(r) /\ ~Exhausted(r) THEN {"RepeatedFailures"}
    ELSE {}

\* Mutant: the requeued receipt is a new row beside the old one.
Copied(column, r, n, on) == column \cup (IF on THEN {n} ELSE {})

\* Replace the id r by n in a column that is set for the new row iff `on`.
Renamed(column, r, n, on) == (column \ {r}) \cup (IF on THEN {n} ELSE {})

\* handle_plaintext_content: requeue the receipt under a new id, and park it
\* when its session is to be rebuilt or it has failed too often.
Requeue(y) ==
    \E n \in Rids :
        /\ IsError(y)
        /\ y.rid \in queued \ answered
        /\ IsFresh(n)
        /\ Acked(toSender, y, toSender')
        /\ LET r == y.rid
               repair == Repair(r, y.kind)
           IN  /\ origin' = [origin EXCEPT ![n] = origin[r]]
               /\ queued' = Renamed(queued, r, n, TRUE)
               /\ marked' = Renamed(marked, r, n, TRUE)
               /\ failures' = [failures EXCEPT ![n] = failures[r] + 1]
               /\ acked' = Renamed(acked, r, n, Suspect(r))
               /\ recent' = Renamed(recent, r, n, Suspect(r))
               /\ parked' = Renamed(parked, r, n,
                                    repair # {} \/ Exhausted(r) \/ r \in parked)
               /\ answered' = answered \cup {r}
               /\ rebuilds' = rebuilds \cup [why : repair, at : {"owed"}]
        /\ UNCHANGED <<delivered, sessionVars, listed, task, toPeer, newest, broken>>

\* Mutant: nothing parked is freed.
ReleaseNothing == UNCHANGED parked

\* release_deferred_receipts: everything parked for the peer may go out.
ReleaseDeferred == parked' = {}

\* The spawned rebuild claims a session reset and archives the session.  The
\* first claim for a peer is always granted, a later one only outside the
\* cooldown and within the budget; refused, the rebuild frees what was parked.
ClaimRebuild(b) ==
    /\ b \in rebuilds
    /\ b.at = "owed"
    /\ \/ /\ current' = 0
          /\ resetBefore' = TRUE
          /\ rebuilds' = (rebuilds \ {b}) \cup {[b EXCEPT !.at = "fetching"]}
          /\ UNCHANGED parked
       \/ /\ resetBefore
          /\ ReleaseDeferred
          /\ rebuilds' = rebuilds \ {b}
          /\ UNCHANGED sessionVars
    /\ UNCHANGED <<origin, queued, acked, recent, marked, failures>>
    /\ UNCHANGED <<answered, delivered, listed, task, mailVars>>

\* establish_signal_session succeeds and everything parked goes out again; a
\* peer that asked for it gets its failed messages without further delay.
FinishRebuild(b) ==
    /\ b \in rebuilds
    /\ b.at = "fetching"
    /\ newest + 1 \in Sessions
    /\ newest' = newest + 1
    /\ current' = newest + 1
    /\ ReleaseDeferred
    /\ LET failed == {r \in queued : b.why = "PeerReset" /\ failures[r] > 0}
       IN  acked' = acked \ failed /\ recent' = recent \ failed
    /\ rebuilds' = rebuilds \ {b}
    /\ UNCHANGED <<origin, queued, marked, failures>>
    /\ UNCHANGED <<answered, delivered, resetBefore, listed, task>>
    /\ UNCHANGED <<toPeer, toSender, broken, events>>

\* The bundle cannot be fetched: the receipt is freed all the same.
RebuildFails(b) ==
    /\ Event("noBundle")
    /\ b \in rebuilds
    /\ b.at = "fetching"
    /\ ReleaseDeferred
    /\ rebuilds' = rebuilds \ {b}
    /\ UNCHANGED <<origin, queued, acked, recent, marked, failures>>
    /\ UNCHANGED <<answered, delivered, sessionVars, listed, task>>
    /\ UNCHANGED <<toPeer, toSender, newest, broken>>

\* A message from the peer opens here: everything queued for the peer is
\* marked for retry and whatever waited for a session is freed.  A peer that
\* retired its session writes through a new one, which becomes the current.
PeerWrites(s) ==
    /\ Event("peerWrites")
    /\ s \in {current, newest + 1} \cap Sessions
    /\ newest' = IF s > newest THEN s ELSE newest
    /\ current' = s
    /\ resetBefore' = FALSE
    /\ ReleaseDeferred
    /\ marked' = queued
    /\ UNCHANGED <<origin, queued, acked, recent, failures>>
    /\ UNCHANGED <<answered, delivered, taskVars, toPeer, toSender, broken>>

\* The sender's process dies, or its tasks are cancelled on the way to the
\* background: the database stays, the tasks do not.
SenderStops ==
    /\ Event("senderStops")
    /\ listed' = [t \in Tasks |-> {}]
    /\ task' = [t \in Tasks |-> Idle]
    /\ rebuilds' = {}
    /\ UNCHANGED <<rowVars, answered, delivered, sessionVars, toPeer, toSender, newest, broken>>

\* Steps the sender's runtime owes once they can be taken.
SenderProgress ==
    \/ Sweep \/ \E r \in Rids : Elapse(r) \/ \E t \in Tasks : Load(t, r)
    \/ \E t \in Tasks : CommitAccepted(t) \/ \E s \in Sessions : Submit(t, s)
    \/ \E m \in Msgs : DeliveryReceipt(m)
    \/ \E y \in toSender : ErrorAgain(y) \/ ErrorWithoutRow(y) \/ Requeue(y)
    \/ \E b \in rebuilds : ClaimRebuild(b) \/ FinishRebuild(b)

SenderFaults ==
    \/ \E t \in Tasks :
        SubmitFails(t) \/ DeferUntilSession(t) \/ \E s \in Sessions : SubmitUnheard(t, s)
    \/ \E b \in rebuilds : RebuildFails(b)
    \/ SenderStops

OutboxNext ==
    \/ \E m \in Msgs : Send(m)
    \/ SenderProgress
    \/ SenderFaults
    \/ \E s \in Sessions : PeerWrites(s)
=============================================================================

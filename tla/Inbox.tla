------------------------------- MODULE Inbox -------------------------------
(***************************************************************************)
(* The receiver's side of a conversation: handle_decoded_server_message,   *)
(* the received_receipts table it claims ids in, the retry of messages     *)
(* parked on the device, and the queue of replies.                         *)
(*                                                                         *)
(* Opening a ciphertext is durable in the signal database at once; the     *)
(* app database learns of it one commit later (Park), and of the outcome   *)
(* another commit later (Handle).  A handler can be cut off between any    *)
(* two of them.                                                            *)
(***************************************************************************)
EXTENDS Mailbox

CONSTANTS
    MaxAttempts,  \* MAX_PARKED_ATTEMPTS
    Outcomes      \* what handling a message may come to in a run

OutcomeKinds == {"ack", "refuse", "ignore", "defer", "fail", "permanent"}

ASSUME InboxAssumption ==
    /\ MaxAttempts \in Nat \ {0}
    /\ Outcomes \subseteq OutcomeKinds

VARIABLES
    opened,      \* envelopes whose ratchet step is spent
    claimed,     \* ids with a row in received_receipts
    pending,     \* pending_plaintext is set
    waiting,     \* pending_waits_for_acceptance is set
    handled,     \* handled_at is set
    attempts,    \* pending_attempts
    accepted,    \* the sender is an accepted contact
    handler,     \* what runs under the in-flight lock of each id
    reply,       \* the terminal reply queued under each id
    posting,     \* replies the server took whose rows are not deleted yet
    decided,     \* ghost: ids whose content was handled, refused or dropped
    runs,        \* ghost: how often the content of an id was handled
    errored      \* ghost: ids ever answered with a decryption error

rowsIn == <<claimed, pending, waiting, handled, attempts>>
ghosts == <<decided, runs, errored>>
inboxVars == <<opened, rowsIn, accepted, handler, reply, posting, ghosts>>

Stages == {"free", "opened", "parked"}

InboxTypeOK ==
    /\ opened \subseteq Envs
    /\ claimed \subseteq Rids
    /\ pending \subseteq claimed
    /\ waiting \subseteq pending
    /\ handled \subseteq claimed
    /\ attempts \in [Rids -> 0..MaxAttempts]
    /\ accepted \in BOOLEAN
    /\ handler \in [Rids -> [at : Stages, env : 0..MaxEnvelopes]]
    /\ \A r \in Rids : handler[r].at = "parked" => r \in claimed
    /\ reply \in [Rids -> {"none"} \cup ReplyKinds]
    /\ posting \subseteq Rids
    /\ decided \subseteq Rids
    /\ runs \in [Rids -> Nat]
    /\ errored \subseteq Rids

Free == [at |-> "free", env |-> 0]

InboxInit ==
    /\ opened = {}
    /\ claimed = {}
    /\ pending = {}
    /\ waiting = {}
    /\ handled = {}
    /\ attempts = [r \in Rids |-> 0]
    /\ accepted \in (IF "defer" \in Outcomes THEN BOOLEAN ELSE {TRUE})
    /\ handler = [r \in Rids |-> Free]
    /\ reply = [r \in Rids |-> "none"]
    /\ posting = {}
    /\ decided = {}
    /\ runs = [r \in Rids |-> 0]
    /\ errored = {}

\* INSERT OR IGNORE of a reply under the id of the receipt it answers.
QueueReply(r, kind) ==
    reply' = IF reply[r] = "none" THEN [reply EXCEPT ![r] = kind] ELSE reply

\* The mailbox row of the envelope a handler is done with is acknowledged.
\* Nothing is acknowledged for a message retried from this device.
AckEnvelope(e) ==
    \/ /\ toPeer' = {f \in toPeer : f.id # e}
       /\ opened' = opened \ {e}
       /\ UNCHANGED events
    \/ e # 0 /\ Event("redelivery") /\ UNCHANGED <<toPeer, opened>>

NoMail == UNCHANGED <<toSender, newest, broken>>

-----------------------------------------------------------------------------

\* handle_message up to the decryption: the ratchet step is spent.
Open(e) ==
    /\ e \in toPeer
    /\ handler[e.rid] = Free
    /\ e.rid \notin pending
    /\ e.id \notin opened
    /\ e.sess \notin broken
    /\ opened' = opened \cup {e.id}
    /\ handler' = [handler EXCEPT ![e.rid] = [at |-> "opened", env |-> e.id]]
    /\ UNCHANGED <<rowsIn, accepted, reply, posting, ghosts, mailVars>>

\* Mutant: the claim is committed without the plaintext.
ClaimOnly(r) == claimed' = claimed \cup {r} /\ UNCHANGED pending

\* claim_received and store_pending_plaintext
StorePlaintext(r) == claimed' = claimed \cup {r} /\ pending' = pending \cup {r}

\* Mutant: nothing tells a copy that was handled from one that was not.
NeverHandled(r) == FALSE

\* was_handled
WasHandled(r) == r \in handled

\* The first transaction ends: claim and plaintext are committed together.
Park(r) ==
    /\ handler[r].at = "opened"
    /\ ~WasHandled(r)
    /\ StorePlaintext(r)
    /\ handler' = [handler EXCEPT ![r].at = "parked"]
    /\ UNCHANGED <<opened, waiting, handled, attempts, accepted>>
    /\ UNCHANGED <<reply, posting, ghosts, mailVars>>

\* A fresh copy of a message whose handled mark is set is only acknowledged.
AckHandled(r) ==
    /\ handler[r].at = "opened"
    /\ WasHandled(r)
    /\ QueueReply(r, "ok")
    /\ AckEnvelope(handler[r].env)
    /\ handler' = [handler EXCEPT ![r] = Free]
    /\ UNCHANGED <<rowsIn, accepted, posting, ghosts>> /\ NoMail

\* The ratchet has consumed this ciphertext before: acknowledge it.
AckDuplicate(e) ==
    /\ e \in toPeer
    /\ handler[e.rid] = Free
    /\ e.rid \notin pending
    /\ e.id \in opened
    /\ claimed' = claimed \cup {e.rid}
    /\ QueueReply(e.rid, "ok")
    /\ AckEnvelope(e.id)
    /\ UNCHANGED <<pending, waiting, handled, attempts, accepted>>
    /\ UNCHANGED <<handler, posting, ghosts>> /\ NoMail

\* The session cannot open it: claim the id and answer with an error, asking
\* for a new session when the reset budget allows (reset_unusable_session).
CannotOpen(e) ==
    /\ e \in toPeer
    /\ handler[e.rid] = Free
    /\ e.rid \notin pending
    /\ e.id \notin opened
    /\ e.sess \in broken
    /\ claimed' = claimed \cup {e.rid}
    /\ \E kind \in {"unknown", "reset"} : QueueReply(e.rid, kind)
    /\ errored' = errored \cup {e.rid}
    /\ AckEnvelope(e.id)
    /\ UNCHANGED <<pending, waiting, handled, attempts, accepted>>
    /\ UNCHANGED <<handler, posting, decided, runs>> /\ NoMail

\* A copy of a message whose plaintext is parked resumes from it.
Resume(e) ==
    /\ e \in toPeer
    /\ handler[e.rid] = Free
    /\ e.rid \in pending
    /\ handler' = [handler EXCEPT ![e.rid] = [at |-> "parked", env |-> e.id]]
    /\ UNCHANGED <<opened, rowsIn, accepted, reply, posting, ghosts, mailVars>>

\* retry_parked_messages takes up a parked message that is due.
RetryParked(r) ==
    /\ r \in pending
    /\ handler[r] = Free
    /\ r \in waiting => accepted
    /\ handler' = [handler EXCEPT ![r] = [at |-> "parked", env |-> 0]]
    /\ UNCHANGED <<opened, rowsIn, accepted, reply, posting, ghosts, mailVars>>

Done(r) ==
    /\ handler[r].at = "parked"
    /\ AckEnvelope(handler[r].env)
    /\ handler' = [handler EXCEPT ![r] = Free]
    /\ UNCHANGED <<accepted, posting>> /\ NoMail

\* clear_pending_plaintext
ClearPending(r) ==
    /\ pending' = pending \ {r}
    /\ waiting' = waiting \ {r}
    /\ attempts' = [attempts EXCEPT ![r] = 0]

\* Mutant: the plaintext goes as it does after every other outcome.
ParkNothing(r) == ClearPending(r)

\* park_until_accepted
ParkUntilAccepted(r) ==
    /\ waiting' = waiting \cup ({r} \cap pending)
    /\ UNCHANGED <<pending, attempts>>

\* The second transaction, the content handled: Delivery::Ack.
HandleAck(r) ==
    /\ "ack" \in Outcomes /\ accepted
    /\ Done(r)
    /\ ClearPending(r)
    /\ handled' = handled \cup {r}
    /\ QueueReply(r, "ok")
    /\ decided' = decided \cup {r}
    /\ runs' = [runs EXCEPT ![r] = @ + 1]
    /\ UNCHANGED <<claimed, errored>>

\* Delivery::Withhold: the content is ignored, or answered with a retry
\* control that replaces whatever reply is queued under its id.
HandleWithhold(r) ==
    /\ accepted
    /\ Done(r)
    /\ ClearPending(r)
    /\ \/ "ignore" \in Outcomes /\ UNCHANGED <<reply, errored>>
       \/ /\ "refuse" \in Outcomes
          /\ reply' = [reply EXCEPT ![r] = "unknown"]
          /\ errored' = errored \cup {r}
    /\ decided' = decided \cup {r}
    /\ UNCHANGED <<claimed, handled, runs>>

\* Delivery::Deferred: the plaintext waits here until the sender is accepted.
HandleDefer(r) ==
    /\ ~accepted
    /\ Done(r)
    /\ ParkUntilAccepted(r)
    /\ UNCHANGED <<claimed, handled, reply, ghosts>>

\* retry_parked_later: a failure that can never go away, or one too many,
\* drops the message; any other is counted and retried from this device.
HandleFails(r) ==
    /\ Done(r)
    /\ \/ "permanent" \in Outcomes /\ ClearPending(r)
       \/ /\ "fail" \in Outcomes
          /\ IF r \in pending /\ attempts[r] + 1 < MaxAttempts
             THEN /\ attempts' = [attempts EXCEPT ![r] = @ + 1]
                  /\ waiting' = waiting \ {r}
                  /\ UNCHANGED pending
             ELSE ClearPending(r)
    /\ decided' = IF r \in pending' THEN decided ELSE decided \cup {r}
    /\ UNCHANGED <<claimed, handled, reply, runs, errored>>

\* drop_expired_parked, at any time a message may have been parked too long.
Expire(r) ==
    /\ "permanent" \in Outcomes
    /\ r \in pending
    /\ ClearPending(r)
    /\ decided' = decided \cup {r}
    /\ UNCHANGED <<opened, claimed, handled, accepted, handler, reply>>
    /\ UNCHANGED <<posting, runs, errored, mailVars>>

\* The user accepts the sender.
Accept ==
    /\ ~accepted
    /\ accepted' = TRUE
    /\ UNCHANGED <<opened, rowsIn, handler, reply, posting, ghosts, mailVars>>

\* The flush submits a reply, and deletes its row once the server took it.
PostReply(r) ==
    /\ posting = {}
    /\ reply[r] # "none"
    /\ toSender' = toSender \cup {[rid |-> r, kind |-> reply[r]]}
    /\ posting' = {r}
    /\ UNCHANGED <<opened, rowsIn, accepted, handler, reply, ghosts>>
    /\ UNCHANGED <<toPeer, newest, broken, events>>

DeleteReply(r) ==
    /\ r \in posting
    /\ reply' = [reply EXCEPT ![r] = "none"]
    /\ posting' = {}
    /\ UNCHANGED <<opened, rowsIn, accepted, handler, ghosts, mailVars>>

\* The process dies or its tasks are cancelled.  A handler cut off between the
\* ratchet step and the commit of the plaintext is the ratchet gap.
PeerStops ==
    /\ \/ Event("ratchetGap")
       \/ Event("peerStops") /\ \A r \in Rids : handler[r].at # "opened"
    /\ handler' = [r \in Rids |-> Free]
    /\ posting' = {}
    /\ UNCHANGED <<opened, rowsIn, accepted, reply, ghosts, toPeer>> /\ NoMail

\* A handler between the ratchet step and the end of its first transaction
\* holds the one writer connection of the app database.
WriterFree == \A r \in Rids : handler[r].at # "opened"

FirstCommit(r) == Park(r) \/ AckHandled(r)

FromMailbox(e) == Open(e) \/ AckDuplicate(e) \/ CannotOpen(e) \/ Resume(e)

SecondCommit(r) ==
    HandleAck(r) \/ HandleWithhold(r) \/ HandleDefer(r) \/ HandleFails(r)

PeerProgress ==
    \/ \E r \in Rids : FirstCommit(r)
    \/ /\ WriterFree
       /\ \/ \E e \in toPeer : FromMailbox(e)
          \/ \E r \in Rids :
                SecondCommit(r) \/ RetryParked(r) \/ PostReply(r) \/ DeleteReply(r)

InboxNext ==
    \/ PeerProgress
    \/ WriterFree /\ (Accept \/ \E r \in Rids : Expire(r))
    \/ PeerStops
=============================================================================

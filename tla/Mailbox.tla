------------------------------ MODULE Mailbox ------------------------------
(***************************************************************************)
(* What lies between the two devices: the server's mailboxes and the       *)
(* Signal sessions, both outside this repository and modelled from how     *)
(* api/messages and signal/engine use them.                                *)
(*                                                                         *)
(* A mailbox keeps an envelope until the client acknowledges it, so a      *)
(* client sees it again after every interruption; the socket and the       *)
(* notification worker may see copies in any order.  A session is numbered *)
(* in the order the two devices opened them.  A device that restores a     *)
(* backup can follow none of the sessions opened until then.               *)
(***************************************************************************)
EXTENDS Naturals, FiniteSets

CONSTANTS
    Msgs,          \* messages the sender writes for the peer
    NoMsg,         \* marks a receipt id nobody has used
    Events,        \* the faults and other bounded events a run admits
    MaxReceipts,   \* bound: receipt ids
    MaxEnvelopes,  \* bound: envelopes in the peer's mailbox at a time
    MaxSessions,   \* bound: Signal sessions
    MaxEvents      \* bound: how many of them

EventKinds == {"senderStops", "peerStops", "ratchetGap", "noResponse",
               "noBundle", "redelivery", "restore", "sendAgain", "peerWrites"}

ASSUME MailboxAssumption ==
    /\ NoMsg \notin Msgs
    /\ Events \subseteq EventKinds
    /\ MaxReceipts \in Nat \ {0}
    /\ MaxEnvelopes \in Nat \ {0}
    /\ MaxSessions \in Nat \ {0}
    /\ MaxEvents \in Nat

Rids == 1..MaxReceipts
Envs == 1..MaxEnvelopes
Sessions == 1..MaxSessions

\* A reply names the receipt it answers: a delivery receipt ("ok"), or a
\* decryption error with or without the request for a new session.
ReplyKinds == {"ok", "unknown", "reset"}

VARIABLES
    toPeer,      \* the peer's mailbox: ciphertexts [id, rid, sess]
    toSender,    \* the sender's mailbox: replies [rid, kind]
    newest,      \* number of sessions opened so far
    broken,      \* sessions whose ciphertexts the peer cannot open
    events       \* bound counter

mailVars == <<toPeer, toSender, newest, broken, events>>

Envelope == [id : Envs, rid : Rids, sess : Sessions]
Reply == [rid : Rids, kind : ReplyKinds]

MailboxTypeOK ==
    /\ toPeer \subseteq Envelope
    /\ toSender \subseteq Reply
    /\ newest \in 0..MaxSessions
    /\ broken \subseteq Sessions
    /\ events \in 0..MaxEvents

MailboxInit ==
    /\ toPeer = {}
    /\ toSender = {}
    /\ newest = 0
    /\ broken = {}
    /\ events = 0

Event(kind) ==
    /\ kind \in Events
    /\ events < MaxEvents
    /\ events' = events + 1

\* A mailbox drops what was acknowledged; a lost acknowledgement leaves it.
Acked(box, env, box2) ==
    \/ box2 = box \ {env} /\ UNCHANGED events
    \/ Event("redelivery") /\ box2 = box

\* The peer's device is restored from a backup.
Restore ==
    /\ Event("restore")
    /\ newest > 0
    /\ broken' = 1..newest
    /\ UNCHANGED <<toPeer, toSender, newest>>
=============================================================================

-------------------------- MODULE DeliveryProofs --------------------------
(***************************************************************************)
(* Delivery for every choice of messages, receipt ids, envelopes, sessions *)
(* and events: type correctness, and its safety by one inductive invariant *)
(* in four parts, each from the ones before it.                            *)
(*                                                                         *)
(*   UsedIds    a receipt id that is anywhere was created for a message    *)
(*   MailIds    handlers and ratchet steps name envelopes that are there   *)
(*   Verdicts   whatever reads as "this was handled" rests on a verdict;   *)
(*              it needs the ratchet gap to be closed                      *)
(*   Once       the handled mark and the parked plaintext exclude another  *)
(*              run of the content                                         *)
(***************************************************************************)
EXTENDS Delivery, TLAPS

---------------------------------------------------------------------------
(* Type correctness.                                                       *)

\* At start both devices and the mailboxes are empty.
LEMMA InitTypes == Init => TypeOK
<1> SUFFICES ASSUME Init PROVE TypeOK
  OBVIOUS
<1> USE MailboxAssumption, InboxAssumption, OutboxAssumption
     DEF MailboxAssumption, InboxAssumption, OutboxAssumption, Init
<1>1. MailboxTypeOK
  BY DEF MailboxTypeOK, MailboxInit
<1>2. 1 \in Rids
  BY DEF Rids
<1>3. OutboxTypeOK
  <2>1. resetBefore \in BOOLEAN
    BY DEF OutboxInit
  <2>2. Idle \in [at : {"idle", "loaded", "accepted"}, rid : Rids]
    BY <1>2 DEF Idle
  <2>3. task \in [Tasks -> [at : {"idle", "loaded", "accepted"}, rid : Rids]]
    BY <2>2 DEF OutboxInit
  <2>4. QED
    BY <2>1, <2>3 DEF OutboxTypeOK, OutboxInit, MailboxInit
<1>4. InboxTypeOK
  <2>1. accepted \in BOOLEAN
    BY Zenon DEF InboxInit
  <2>2. Free \in [at : Stages, env : 0..MaxEnvelopes]
    BY DEF Free, Stages
  <2>3. handler \in [Rids -> [at : Stages, env : 0..MaxEnvelopes]]
    BY <2>2 DEF InboxInit
  <2>4. attempts \in [Rids -> 0..MaxAttempts]
    BY DEF InboxInit
  <2>5. \A r \in Rids : handler[r].at = "parked" => r \in claimed
    BY DEF InboxInit, Free
  <2>6. QED
    BY <2>1, <2>3, <2>4, <2>5 DEF InboxTypeOK, InboxInit
<1>5. QED
  BY <1>1, <1>3, <1>4 DEF TypeOK

\* What the sender's device does leaves all three parts well-typed.
LEMMA OutboxTypes == TypeOK /\ OutboxNext /\ UNCHANGED inboxVars => TypeOK'
<1> SUFFICES ASSUME TypeOK, OutboxNext, UNCHANGED inboxVars PROVE TypeOK'
  OBVIOUS
<1> USE MailboxAssumption DEF MailboxAssumption
<1>0. InboxTypeOK'
  BY DEF TypeOK, InboxTypeOK, inboxVars, rowsIn, ghosts
<1>a. SUFFICES MailboxTypeOK' /\ OutboxTypeOK'
  BY <1>0 DEF TypeOK
<1> USE DEF TypeOK, MailboxTypeOK, OutboxTypeOK, mailVars, rowVars, sessionVars, taskVars
<1>i. Idle \in [at : {"idle", "loaded", "accepted"}, rid : Rids]
  BY DEF Idle, Rids
<1>e. ASSUME NEW k, Event(k) PROVE events' \in 0..MaxEvents
  BY <1>e DEF Event
<1>1. ASSUME NEW m \in Msgs, Send(m) PROVE MailboxTypeOK' /\ OutboxTypeOK'
  <2>1. events' \in 0..MaxEvents
    BY <1>1, <1>e DEF Send
  <2>2. PICK r \in Rids :
            /\ origin' = [origin EXCEPT ![r] = m]
            /\ queued' = (queued \ Rows(m)) \cup {r}
            /\ acked' = acked \ Rows(m) /\ recent' = recent \ Rows(m)
            /\ marked' = marked \ Rows(m) /\ parked' = parked \ Rows(m)
            /\ listed' = [listed EXCEPT !["direct"] = @ \cup {r}]
            /\ UNCHANGED <<failures, answered, delivered, sessionVars, task, rebuilds>>
            /\ UNCHANGED <<toPeer, toSender, newest, broken>>
    BY <1>1 DEF Send
  <2>3. listed' \in [Tasks -> SUBSET Rids]
    BY <2>2 DEF Tasks
  <2>4. origin' \in [Rids -> Msgs \cup {NoMsg}]
    BY <2>2
  <2>5. QED
    BY <2>1, <2>2, <2>3, <2>4
<1>2. ASSUME NEW r \in Rids, Elapse(r) PROVE MailboxTypeOK' /\ OutboxTypeOK'
  BY <1>2 DEF Elapse
<1>3. ASSUME Sweep PROVE MailboxTypeOK' /\ OutboxTypeOK'
  BY <1>3 DEF Sweep, DueIds, Tasks
<1>4. ASSUME NEW t \in Tasks, NEW r \in Rids, Load(t, r) PROVE MailboxTypeOK' /\ OutboxTypeOK'
  BY <1>4 DEF Load
<1>5. ASSUME NEW t \in Tasks, CommitAccepted(t) PROVE MailboxTypeOK' /\ OutboxTypeOK'
  BY <1>5, <1>i DEF CommitAccepted
<1>6. ASSUME NEW r \in Rids, NEW s \in Sessions, PostCiphertext(r, s)
      PROVE /\ toPeer' \subseteq Envelope
            /\ newest' \in 0..MaxSessions /\ current' \in 0..newest'
            /\ parked' \subseteq queued
  <2>1. newest' \in 0..MaxSessions /\ current' \in 0..newest'
    BY <1>6 DEF PostCiphertext, Sessions, SessionFor
  <2>2. QED
    BY <1>6, <2>1 DEF PostCiphertext, Envelope, Released
<1>7. ASSUME NEW t \in Tasks, NEW s \in Sessions, Submit(t, s)
      PROVE MailboxTypeOK' /\ OutboxTypeOK'
  <2>1. PostCiphertext(task[t].rid, s)
    BY <1>7 DEF Submit
  <2>2. QED
    BY <1>6, <1>7, <2>1 DEF Submit, PostCiphertext
<1>8. ASSUME NEW t \in Tasks, NEW s \in Sessions, SubmitUnheard(t, s)
      PROVE MailboxTypeOK' /\ OutboxTypeOK'
  <2>1. PostCiphertext(task[t].rid, s) /\ events' \in 0..MaxEvents
    BY <1>8, <1>e DEF SubmitUnheard
  <2>2. QED
    BY <1>6, <1>8, <1>i, <2>1 DEF SubmitUnheard, PostCiphertext
<1>9. ASSUME NEW t \in Tasks, SubmitFails(t) PROVE MailboxTypeOK' /\ OutboxTypeOK'
  BY <1>9, <1>e, <1>i DEF SubmitFails
<1>10. ASSUME NEW t \in Tasks, DeferUntilSession(t) PROVE MailboxTypeOK' /\ OutboxTypeOK'
  BY <1>10, <1>e, <1>i DEF DeferUntilSession
<1>11. ASSUME NEW y, y \in toSender, Acked(toSender, y, toSender')
       PROVE toSender' \subseteq Reply /\ events' \in 0..MaxEvents
  BY <1>11, <1>e DEF Acked
<1>12. ASSUME NEW m \in Msgs, DeliveryReceipt(m) PROVE MailboxTypeOK' /\ OutboxTypeOK'
  <2>1. PICK y \in toSender :
            /\ Acked(toSender, y, toSender')
            /\ answered' = answered \cup {y.rid}
            /\ delivered' = IF y.rid \in queued THEN delivered \cup {m} ELSE delivered
            /\ Forget(y.rid)
            /\ UNCHANGED <<origin, failures, sessionVars, taskVars, toPeer, newest, broken>>
    BY <1>12 DEF DeliveryReceipt
  <2>2. y.rid \in Rids
    BY DEF Reply
  <2>3. QED
    BY <1>11, <2>1, <2>2 DEF Forget
<1>13. ASSUME NEW y \in toSender, ErrorAgain(y) PROVE MailboxTypeOK' /\ OutboxTypeOK'
  BY <1>11, <1>13 DEF ErrorAgain, outboxVars
<1>14. ASSUME NEW y \in toSender, ErrorWithoutRow(y) PROVE MailboxTypeOK' /\ OutboxTypeOK'
  <2>1. y.rid \in Rids
    BY DEF Reply
  <2>2. rebuilds' \subseteq Rebuild
    BY <1>14 DEF ErrorWithoutRow, Rebuild, Repairs
  <2>3. QED
    BY <1>11, <1>14, <2>1, <2>2 DEF ErrorWithoutRow
<1>15. ASSUME NEW y \in toSender, Requeue(y) PROVE MailboxTypeOK' /\ OutboxTypeOK'
  <2> DEFINE r == y.rid
             repair == Repair(r, y.kind)
  <2>1. PICK n \in Rids :
            /\ Acked(toSender, y, toSender')
            /\ r \in queued
            /\ origin' = [origin EXCEPT ![n] = origin[r]]
            /\ queued' = Renamed(queued, r, n, TRUE)
            /\ marked' = Renamed(marked, r, n, TRUE)
            /\ failures' = [failures EXCEPT ![n] = failures[r] + 1]
            /\ acked' = Renamed(acked, r, n, Suspect(r))
            /\ recent' = Renamed(recent, r, n, Suspect(r))
            /\ parked' = Renamed(parked, r, n,
                                 repair # {} \/ Exhausted(r) \/ r \in parked)
            /\ answered' = answered \cup {r}
            /\ rebuilds' = rebuilds \cup [why : repair, at : {"owed"}]
            /\ UNCHANGED <<delivered, sessionVars, listed, task, toPeer, newest, broken>>
    BY <1>15 DEF Requeue
  <2>2. r \in Rids
    BY DEF Reply
  <2>3. repair \subseteq Repairs
    BY DEF Repair, Repairs
  <2>4. rebuilds' \subseteq Rebuild
    BY <2>1, <2>3 DEF Rebuild
  <2>5. /\ acked' \subseteq queued' /\ recent' \subseteq acked'
        /\ marked' \subseteq queued' /\ parked' \subseteq queued'
    BY <2>1 DEF Renamed
  <2>6. queued' \subseteq Rids
    BY <2>1 DEF Renamed
  <2>7. origin' \in [Rids -> Msgs \cup {NoMsg}] /\ failures' \in [Rids -> Nat]
    BY <2>1, <2>2
  <2>8. QED
    BY <1>11, <2>1, <2>2, <2>4, <2>5, <2>6, <2>7
<1>16. ASSUME NEW b \in rebuilds, ClaimRebuild(b) PROVE MailboxTypeOK' /\ OutboxTypeOK'
  <2>1. rebuilds' \subseteq Rebuild
    BY <1>16 DEF ClaimRebuild, Rebuild, ReleaseDeferred
  <2>2. current' \in 0..newest' /\ newest' \in 0..MaxSessions
    BY <1>16 DEF ClaimRebuild, ReleaseDeferred
  <2>3. parked' \subseteq queued'
    BY <1>16 DEF ClaimRebuild, ReleaseDeferred
  <2>4. resetBefore' \in BOOLEAN
    BY <1>16, Zenon DEF ClaimRebuild, ReleaseDeferred
  <2>5. QED
    BY <1>16, <2>1, <2>2, <2>3, <2>4 DEF ClaimRebuild, ReleaseDeferred
<1>17. ASSUME NEW b \in rebuilds, FinishRebuild(b) PROVE MailboxTypeOK' /\ OutboxTypeOK'
  BY <1>17 DEF FinishRebuild, Sessions, ReleaseDeferred
<1>18. ASSUME NEW b \in rebuilds, RebuildFails(b) PROVE MailboxTypeOK' /\ OutboxTypeOK'
  BY <1>18, <1>e DEF RebuildFails, ReleaseDeferred
<1>19. ASSUME NEW s \in Sessions, PeerWrites(s) PROVE MailboxTypeOK' /\ OutboxTypeOK'
  <2>1. newest' \in 0..MaxSessions /\ current' \in 0..newest'
    BY <1>19 DEF PeerWrites, Sessions, ReleaseDeferred
  <2>2. QED
    BY <1>19, <1>e, <2>1 DEF PeerWrites, ReleaseDeferred
<1>20. ASSUME SenderStops PROVE MailboxTypeOK' /\ OutboxTypeOK'
  BY <1>20, <1>e, <1>i DEF SenderStops
<1>21. QED
  BY <1>1, <1>2, <1>3, <1>4, <1>5, <1>7, <1>8, <1>9, <1>10, <1>12, <1>13, <1>14, <1>15,
     <1>16, <1>17, <1>18, <1>19, <1>20
     DEF OutboxNext, SenderProgress, SenderFaults

\* What the peer's device does leaves all three parts well-typed.
LEMMA InboxTypes == TypeOK /\ InboxNext /\ UNCHANGED outboxVars => TypeOK'
<1> SUFFICES ASSUME TypeOK, InboxNext, UNCHANGED outboxVars PROVE TypeOK'
  OBVIOUS
<1> USE MailboxAssumption, InboxAssumption DEF MailboxAssumption, InboxAssumption
<1> DEFINE Well == MailboxTypeOK' /\ InboxTypeOK' /\ newest' = newest
<1>a. SUFFICES Well
  BY DEF TypeOK, OutboxTypeOK, outboxVars, rowVars, sessionVars, taskVars
<1> USE DEF TypeOK, MailboxTypeOK, InboxTypeOK, mailVars, rowsIn, ghosts, NoMail
<1>e. ASSUME NEW k, Event(k) PROVE events' \in 0..MaxEvents
  BY <1>e DEF Event
<1>f. Free \in [at : Stages, env : 0..MaxEnvelopes]
  BY DEF Free, Stages
<1>g. \A e \in toPeer : e.id \in Envs /\ e.id \in 0..MaxEnvelopes /\ e.rid \in Rids
  BY DEF Envelope, Envs
<1>h. ASSUME NEW e, AckEnvelope(e)
      PROVE toPeer' \subseteq Envelope /\ opened' \subseteq Envs /\ events' \in 0..MaxEvents
  BY <1>h, <1>e DEF AckEnvelope
<1>q. ASSUME NEW r \in Rids, NEW kind \in ReplyKinds, QueueReply(r, kind)
      PROVE reply' \in [Rids -> {"none"} \cup ReplyKinds]
  BY <1>q DEF QueueReply
<1>c. ASSUME NEW r \in Rids, ClearPending(r)
      PROVE /\ pending' \subseteq claimed /\ waiting' \subseteq pending'
            /\ attempts' \in [Rids -> 0..MaxAttempts]
  BY <1>c DEF ClearPending
<1>k. {"ok", "unknown", "reset"} \subseteq ReplyKinds
  BY DEF ReplyKinds
<1>1. ASSUME NEW e \in toPeer, Open(e) PROVE Well
  <2>1. [at |-> "opened", env |-> e.id] \in [at : Stages, env : 0..MaxEnvelopes]
    BY <1>g DEF Stages
  <2>2. handler' \in [Rids -> [at : Stages, env : 0..MaxEnvelopes]]
    BY <1>1, <2>1 DEF Open
  <2>3. QED
    BY <1>1, <1>g, <2>2 DEF Open
<1>2. ASSUME NEW r \in Rids, Park(r) PROVE Well
  BY <1>2 DEF Park, Stages, StorePlaintext, WasHandled
<1>3. ASSUME NEW r \in Rids, AckHandled(r) PROVE Well
  <2>1. reply' \in [Rids -> {"none"} \cup ReplyKinds]
    BY <1>3, <1>k, <1>q DEF AckHandled, WasHandled
  <2>2. QED
    BY <1>3, <1>f, <1>h, <2>1 DEF AckHandled, WasHandled
<1>4. ASSUME NEW e \in toPeer, AckDuplicate(e) PROVE Well
  <2>1. reply' \in [Rids -> {"none"} \cup ReplyKinds]
    BY <1>4, <1>g, <1>k, <1>q DEF AckDuplicate
  <2>2. QED
    BY <1>4, <1>g, <1>h, <2>1 DEF AckDuplicate
<1>5. ASSUME NEW e \in toPeer, CannotOpen(e) PROVE Well
  <2>1. reply' \in [Rids -> {"none"} \cup ReplyKinds]
    BY <1>5, <1>g, <1>k, <1>q DEF CannotOpen
  <2>2. QED
    BY <1>5, <1>g, <1>h, <2>1 DEF CannotOpen
<1>6. ASSUME NEW e \in toPeer, Resume(e) PROVE Well
  <2>1. [at |-> "parked", env |-> e.id] \in [at : Stages, env : 0..MaxEnvelopes]
    BY <1>g DEF Stages
  <2>2. handler' \in [Rids -> [at : Stages, env : 0..MaxEnvelopes]]
    BY <1>6, <2>1 DEF Resume
  <2>3. QED
    BY <1>6, <2>2 DEF Resume
<1>7. ASSUME NEW r \in Rids, RetryParked(r) PROVE Well
  <2>1. [at |-> "parked", env |-> 0] \in [at : Stages, env : 0..MaxEnvelopes]
    BY DEF Stages
  <2>2. handler' \in [Rids -> [at : Stages, env : 0..MaxEnvelopes]]
    BY <1>7, <2>1 DEF RetryParked
  <2>3. QED
    BY <1>7, <2>2 DEF RetryParked
<1>8. ASSUME NEW r \in Rids, Done(r)
      PROVE /\ MailboxTypeOK' /\ newest' = newest /\ opened' \subseteq Envs
            /\ handler' \in [Rids -> [at : Stages, env : 0..MaxEnvelopes]]
            /\ \A q \in Rids : handler'[q].at = "parked" => q \in claimed
            /\ r \in claimed /\ accepted' = accepted /\ posting' = posting
  BY <1>8, <1>f, <1>h DEF Done, Free
<1>b. ASSUME accepted' = accepted PROVE accepted' \in BOOLEAN
  BY <1>b, Zenon
<1>9. ASSUME NEW r \in Rids, HandleAck(r) PROVE Well
  <2>1. reply' \in [Rids -> {"none"} \cup ReplyKinds]
    BY <1>9, <1>k, <1>q DEF HandleAck
  <2>2. handled' \subseteq claimed' /\ decided' \subseteq Rids
    BY <1>8, <1>9 DEF HandleAck
  <2>3. runs' \in [Rids -> Nat]
    BY <1>9 DEF HandleAck
  <2>4. pending' \subseteq claimed' /\ waiting' \subseteq pending'
    BY <1>9, <1>c DEF HandleAck
  <2>5. attempts' \in [Rids -> 0..MaxAttempts]
    BY <1>9, <1>c DEF HandleAck
  <2>6. QED
    BY <1>8, <1>9, <1>b, <2>1, <2>2, <2>3, <2>4, <2>5 DEF HandleAck
<1>10. ASSUME NEW r \in Rids, HandleWithhold(r) PROVE Well
  <2>1. reply' \in [Rids -> {"none"} \cup ReplyKinds]
    BY <1>10, <1>k DEF HandleWithhold
  <2>2. errored' \subseteq Rids
    BY <1>10 DEF HandleWithhold
  <2>3. QED
    BY <1>8, <1>10, <1>b, <1>c, <2>1, <2>2 DEF HandleWithhold
<1>11. ASSUME NEW r \in Rids, HandleDefer(r) PROVE Well
  BY <1>8, <1>11, <1>b DEF HandleDefer, ParkUntilAccepted
<1>12. ASSUME NEW r \in Rids, HandleFails(r) PROVE Well
  <2>1. /\ pending' \subseteq claimed /\ waiting' \subseteq pending'
        /\ attempts' \in [Rids -> 0..MaxAttempts]
    BY <1>12, <1>c DEF HandleFails
  <2>2. decided' \subseteq Rids
    BY <1>12 DEF HandleFails
  <2>3. Done(r) /\ UNCHANGED <<claimed, handled, reply, runs, errored>>
    BY <1>12 DEF HandleFails
  <2>4. QED
    BY <1>8, <1>b, <2>1, <2>2, <2>3
<1>13. ASSUME NEW r \in Rids, Expire(r) PROVE Well
  BY <1>13, <1>b, <1>c DEF Expire
<1>14. ASSUME Accept PROVE Well
  BY <1>14 DEF Accept
<1>15. ASSUME NEW r \in Rids, PostReply(r) PROVE Well
  <2>1. [rid |-> r, kind |-> reply[r]] \in Reply
    BY <1>15 DEF PostReply, Reply
  <2>2. QED
    BY <1>15, <1>b, <2>1 DEF PostReply
<1>16. ASSUME NEW r \in Rids, DeleteReply(r) PROVE Well
  BY <1>16, <1>b DEF DeleteReply
<1>17. ASSUME PeerStops PROVE Well
  <2>1. events' \in 0..MaxEvents
    BY <1>17, <1>e DEF PeerStops
  <2>2. \A r \in Rids : handler'[r].at # "parked"
    BY <1>17 DEF PeerStops, Free
  <2>3. QED
    BY <1>17, <1>b, <1>f, <2>1, <2>2 DEF PeerStops
<1>18. QED
  BY <1>1, <1>2, <1>3, <1>4, <1>5, <1>6, <1>7, <1>9, <1>10, <1>11, <1>12, <1>13, <1>14,
     <1>15, <1>16, <1>17
     DEF InboxNext, PeerProgress, FirstCommit, FromMailbox, SecondCommit

\* Every step of the two devices preserves the types.
LEMMA TypesStep == TypeOK /\ [Next]_vars => TypeOK'
<1>1. TypeOK /\ Restore /\ UNCHANGED <<outboxVars, inboxVars>> => TypeOK'
  BY MailboxAssumption
     DEF MailboxAssumption, TypeOK, MailboxTypeOK, OutboxTypeOK, InboxTypeOK, Restore, Event,
         outboxVars, inboxVars, rowVars, sessionVars, taskVars, rowsIn, ghosts, Sessions
<1>2. TypeOK /\ UNCHANGED vars => TypeOK'
  BY DEF TypeOK, MailboxTypeOK, OutboxTypeOK, InboxTypeOK, vars, mailVars,
         outboxVars, inboxVars, rowVars, sessionVars, taskVars, rowsIn, ghosts
<1>3. QED
  BY OutboxTypes, InboxTypes, <1>1, <1>2 DEF Next

\* Every reachable state of Delivery is well-typed, for every choice of the
\* messages, the events and the bounds.
THEOREM TypesHold == Spec => []TypeOK
  BY InitTypes, TypesStep, PTL DEF Spec

---------------------------------------------------------------------------
(* The parts of the invariant.                                             *)

Used == {r \in Rids : origin[r] # NoMsg}

UsedIds ==
    /\ queued \subseteq Used
    /\ \A t \in Tasks : task[t].at # "idle" => task[t].rid \in Used
    /\ \A f \in toPeer : f.rid \in Used
    /\ \A y \in toSender : y.rid \in Used
    /\ \A r \in Rids : handler[r].at # "free" \/ reply[r] # "none" => r \in Used
    /\ pending \subseteq Used
    /\ decided \subseteq Used

MailIds ==
    /\ \A f, g \in toPeer : f.id = g.id => f = g
    /\ \A i \in opened : \E f \in toPeer : f.id = i
    /\ \A r \in Rids : handler[r].env # 0 =>
            \E f \in toPeer : f.id = handler[r].env /\ f.rid = r
    /\ \A r \in Rids : handler[r].at = "opened" => handler[r].env # 0

\* The ratchet step of an envelope is spent, and its content is still to come.
InHand(f) == handler[f.rid].at = "opened" /\ handler[f.rid].env = f.id

Verdicts ==
    /\ handled \subseteq decided
    /\ \A r \in Rids : reply[r] = "ok" => r \in decided
    /\ \A y \in toSender : y.kind = "ok" => y.rid \in decided
    /\ \A r \in Rids : handler[r].at = "parked" => r \in pending \cup decided
    /\ \A f \in toPeer : f.id \in opened => f.rid \in pending \cup decided \/ InHand(f)

Once ==
    /\ \A r \in Rids : runs[r] = IF r \in handled THEN 1 ELSE 0
    /\ pending \cap handled = {}
    /\ \A r \in Rids : handler[r].at = "parked" => r \notin handled

\* What the sender's device may change for the peer's: it takes mail from one
\* mailbox, adds at most one new envelope to the other, and never takes back
\* what a receipt id stands for.
LEMMA OutboxFrame ==
    ASSUME TypeOK, UsedIds, OutboxNext
    PROVE  /\ \A r \in Used : r \in Used' /\ origin'[r] = origin[r]
           /\ queued' \subseteq Used'
           /\ \A t \in Tasks : task'[t].at # "idle" => task'[t].rid \in Used'
           /\ toSender' \subseteq toSender
           /\ \/ toPeer' = toPeer
              \/ \E f \in Envelope : /\ f.rid \in Used
                                     /\ \A g \in toPeer : g.id # f.id
                                     /\ toPeer' = toPeer \cup {f}
<1> DEFINE SameIds == \A r \in Used : r \in Used' /\ origin'[r] = origin[r]
           RowsUsed == queued' \subseteq Used'
           TasksUsed == \A t \in Tasks : task'[t].at # "idle" => task'[t].rid \in Used'
           Taken == toSender' \subseteq toSender
           Added == \/ toPeer' = toPeer
                    \/ \E f \in Envelope : /\ f.rid \in Used
                                           /\ \A g \in toPeer : g.id # f.id
                                           /\ toPeer' = toPeer \cup {f}
           Frame == SameIds /\ RowsUsed /\ TasksUsed /\ Taken /\ Added
<1>a. SUFFICES Frame
  OBVIOUS
<1>t. /\ origin \in [Rids -> Msgs \cup {NoMsg}]
      /\ task \in [Tasks -> [at : {"idle", "loaded", "accepted"}, rid : Rids]]
      /\ toPeer \subseteq Envelope /\ toSender \subseteq Reply /\ queued \subseteq Rids
  BY DEF TypeOK, OutboxTypeOK, MailboxTypeOK
<1>n. NoMsg \notin Msgs
  BY MailboxAssumption DEF MailboxAssumption
<1> USE <1>t, <1>n DEF Used, UsedIds, mailVars, rowVars, sessionVars, taskVars
<1>1. ASSUME NEW m \in Msgs, Send(m) PROVE Frame
  <2>1. PICK r \in Rids :
            /\ IsFresh(r)
            /\ origin' = [origin EXCEPT ![r] = m]
            /\ queued' = (queued \ Rows(m)) \cup {r}
            /\ UNCHANGED <<task, toPeer, toSender>>
    BY <1>1 DEF Send
  <2>2. QED
    BY <2>1 DEF IsFresh
<1>2. ASSUME NEW r \in Rids, Elapse(r) PROVE Frame
  BY <1>2 DEF Elapse
<1>3. ASSUME Sweep PROVE Frame
  BY <1>3 DEF Sweep
<1>4. ASSUME NEW t \in Tasks, NEW r \in Rids, Load(t, r) PROVE Frame
  BY <1>4 DEF Load
<1>5. ASSUME NEW t \in Tasks, CommitAccepted(t) PROVE Frame
  BY <1>5 DEF CommitAccepted, Idle
<1>6. ASSUME NEW r \in Used, NEW s \in Sessions, PostCiphertext(r, s)
      PROVE Added /\ UNCHANGED <<origin, queued, toSender>>
  <2>1. PICK e \in Envs :
            /\ \A f \in toPeer : f.id # e
            /\ toPeer' = toPeer \cup {[id |-> e, rid |-> r, sess |-> s]}
    BY <1>6 DEF PostCiphertext
  <2>2. [id |-> e, rid |-> r, sess |-> s] \in Envelope
    BY DEF Envelope
  <2>3. QED
    BY <1>6, <2>1, <2>2 DEF PostCiphertext
<1>7. ASSUME NEW t \in Tasks, NEW s \in Sessions, Submit(t, s) PROVE Frame
  BY <1>6, <1>7 DEF Submit
<1>8. ASSUME NEW t \in Tasks, NEW s \in Sessions, SubmitUnheard(t, s) PROVE Frame
  BY <1>6, <1>8 DEF SubmitUnheard, Idle
<1>9. ASSUME NEW t \in Tasks, SubmitFails(t) PROVE Frame
  BY <1>9 DEF SubmitFails, Idle
<1>10. ASSUME NEW t \in Tasks, DeferUntilSession(t) PROVE Frame
  BY <1>10 DEF DeferUntilSession, Idle
<1>11. ASSUME NEW m \in Msgs, DeliveryReceipt(m) PROVE Frame
  BY <1>11 DEF DeliveryReceipt, Acked, Forget
<1>12. ASSUME NEW y \in toSender, ErrorAgain(y) PROVE Frame
  BY <1>12 DEF ErrorAgain, Acked, outboxVars
<1>13. ASSUME NEW y \in toSender, ErrorWithoutRow(y) PROVE Frame
  BY <1>13 DEF ErrorWithoutRow, Acked
<1>14. ASSUME NEW y \in toSender, Requeue(y) PROVE Frame
  <2>1. PICK n \in Rids :
            /\ IsFresh(n)
            /\ y.rid \in queued
            /\ Acked(toSender, y, toSender')
            /\ origin' = [origin EXCEPT ![n] = origin[y.rid]]
            /\ queued' = Renamed(queued, y.rid, n, TRUE)
            /\ UNCHANGED <<task, toPeer>>
    BY <1>14 DEF Requeue
  <2>2. QED
    BY <2>1 DEF IsFresh, Acked, Renamed
<1>15. ASSUME NEW b \in rebuilds, ClaimRebuild(b) PROVE Frame
  BY <1>15 DEF ClaimRebuild, ReleaseDeferred
<1>16. ASSUME NEW b \in rebuilds, FinishRebuild(b) PROVE Frame
  BY <1>16 DEF FinishRebuild, ReleaseDeferred
<1>17. ASSUME NEW b \in rebuilds, RebuildFails(b) PROVE Frame
  BY <1>17 DEF RebuildFails, ReleaseDeferred
<1>18. ASSUME NEW s \in Sessions, PeerWrites(s) PROVE Frame
  BY <1>18 DEF PeerWrites, ReleaseDeferred
<1>19. ASSUME SenderStops PROVE Frame
  BY <1>19 DEF SenderStops, Idle
<1>20. QED
  BY <1>1, <1>2, <1>3, <1>4, <1>5, <1>7, <1>8, <1>9, <1>10, <1>11, <1>12, <1>13, <1>14,
     <1>15, <1>16, <1>17, <1>18, <1>19
     DEF OutboxNext, SenderProgress, SenderFaults

\* What the peer's device may change for the sender's: it takes mail from one
\* mailbox and adds the replies it queued to the other.
LEMMA InboxFrame ==
    ASSUME TypeOK, InboxNext
    PROVE  /\ toPeer' \subseteq toPeer
           /\ \A y \in toSender' :
                y \in toSender \/ (reply[y.rid] # "none" /\ y.kind = reply[y.rid])
<1> DEFINE Frame == /\ toPeer' \subseteq toPeer
                    /\ \A y \in toSender' :
                        y \in toSender \/ (reply[y.rid] # "none" /\ y.kind = reply[y.rid])
<1> SUFFICES Frame
  OBVIOUS
<1>1. ASSUME NEW e, AckEnvelope(e), NoMail PROVE Frame
  BY <1>1 DEF AckEnvelope, NoMail
<1>2. ASSUME UNCHANGED <<toPeer, toSender>> PROVE Frame
  BY <1>2
<1>3. ASSUME NEW e \in toPeer, FromMailbox(e) PROVE Frame
  BY <1>1, <1>2, <1>3 DEF FromMailbox, Open, AckDuplicate, CannotOpen, Resume, mailVars
<1>4. ASSUME NEW r \in Rids, FirstCommit(r) PROVE Frame
  BY <1>1, <1>2, <1>4 DEF FirstCommit, Park, AckHandled, mailVars, StorePlaintext, WasHandled
<1>5. ASSUME NEW r \in Rids, SecondCommit(r) PROVE Frame
  BY <1>1, <1>5 DEF SecondCommit, HandleAck, HandleWithhold, HandleDefer, HandleFails, Done, ParkUntilAccepted
<1>6. ASSUME NEW r \in Rids, RetryParked(r) \/ DeleteReply(r) \/ Expire(r) PROVE Frame
  BY <1>2, <1>6 DEF RetryParked, DeleteReply, Expire, mailVars
<1>7. ASSUME NEW r \in Rids, PostReply(r) PROVE Frame
  BY <1>7 DEF PostReply
<1>8. ASSUME Accept \/ PeerStops PROVE Frame
  BY <1>2, <1>8 DEF Accept, PeerStops, mailVars, NoMail
<1>9. QED
  BY <1>3, <1>4, <1>5, <1>6, <1>7, <1>8 DEF InboxNext, PeerProgress

\* Ids in the peer's tables came in with an envelope, and every envelope was
\* encrypted for a row of the outbox.
LEMMA UsedStep == TypeOK /\ UsedIds /\ [Next]_vars => UsedIds'
<1> SUFFICES ASSUME TypeOK, UsedIds, [Next]_vars PROVE UsedIds'
  OBVIOUS
<1>1. CASE OutboxNext /\ UNCHANGED inboxVars
  BY <1>1, OutboxFrame DEF UsedIds, inboxVars, rowsIn, ghosts
<1>2. CASE InboxNext /\ UNCHANGED outboxVars
  <2>1. Used' = Used /\ UNCHANGED <<queued, task>>
    BY <1>2 DEF Used, outboxVars, rowVars, taskVars
  <2>2. toPeer' \subseteq toPeer
    BY <1>2, InboxFrame
  <2>3. \A y \in toSender' : y.rid \in Used
    <3> SUFFICES ASSUME NEW y \in toSender', y \notin toSender PROVE y.rid \in Used
      BY DEF UsedIds
    <3>1. toSender' \subseteq Reply
      BY <1>2, InboxTypes DEF TypeOK, MailboxTypeOK
    <3>2. y.rid \in Rids
      BY <3>1 DEF Reply
    <3>3. QED
      BY <1>2, <3>2, InboxFrame DEF UsedIds
  <2> DEFINE InUse == /\ \A r \in Rids : handler'[r].at # "free" \/ reply'[r] # "none" => r \in Used
                      /\ pending' \subseteq Used /\ decided' \subseteq Used
  <2>a. /\ handler \in [Rids -> [at : Stages, env : 0..MaxEnvelopes]]
        /\ reply \in [Rids -> {"none"} \cup ReplyKinds]
    BY DEF TypeOK, InboxTypeOK
  <2>4. InUse
    <3> USE <2>a DEF UsedIds, rowsIn, ghosts, QueueReply, ClearPending, Free
    <3>1. ASSUME NEW e \in toPeer, FromMailbox(e) PROVE InUse
      BY <3>1 DEF FromMailbox, Open, AckDuplicate, CannotOpen, Resume
    <3>2. ASSUME NEW r \in Rids, FirstCommit(r) PROVE InUse
      BY <3>2 DEF FirstCommit, Park, AckHandled, StorePlaintext, WasHandled
    <3>3. ASSUME NEW r \in Rids, HandleAck(r) PROVE InUse
      BY <3>3 DEF HandleAck, Done
    <3>4. ASSUME NEW r \in Rids, HandleWithhold(r) PROVE InUse
      BY <3>4 DEF HandleWithhold, Done
    <3>5. ASSUME NEW r \in Rids, HandleDefer(r) PROVE InUse
      BY <3>5 DEF HandleDefer, Done, ParkUntilAccepted
    <3>6. ASSUME NEW r \in Rids, HandleFails(r) PROVE InUse
      BY <3>6 DEF HandleFails, Done
    <3>7. ASSUME NEW r \in Rids, RetryParked(r) \/ PostReply(r) \/ DeleteReply(r) PROVE InUse
      BY <3>7 DEF RetryParked, PostReply, DeleteReply
    <3>8. ASSUME NEW r \in Rids, Expire(r) PROVE InUse
      BY <3>8 DEF Expire
    <3>9. ASSUME Accept \/ PeerStops PROVE InUse
      BY <3>9 DEF Accept, PeerStops
    <3>10. QED
      BY <1>2, <3>1, <3>2, <3>3, <3>4, <3>5, <3>6, <3>7, <3>8, <3>9
         DEF InboxNext, PeerProgress, SecondCommit
  <2>5. QED
    BY <2>1, <2>2, <2>3, <2>4 DEF UsedIds
<1>3. CASE Restore /\ UNCHANGED <<outboxVars, inboxVars>>
  BY <1>3 DEF Restore, UsedIds, Used, outboxVars, rowVars, taskVars, inboxVars, rowsIn, ghosts
<1>4. CASE UNCHANGED vars
  BY <1>4 DEF vars, mailVars, UsedIds, Used, outboxVars, rowVars, taskVars,
              inboxVars, rowsIn, ghosts
<1>5. QED
  BY <1>1, <1>2, <1>3, <1>4 DEF Next

\* A handler keeps its envelope in the mailbox until it is done with it, and
\* the marks of spent ratchet steps go with their envelopes.
LEMMA MailStep == TypeOK /\ MailIds /\ UsedIds /\ [Next]_vars => MailIds'
<1> SUFFICES ASSUME TypeOK, MailIds, UsedIds, [Next]_vars PROVE MailIds'
  OBVIOUS
<1>1. CASE OutboxNext /\ UNCHANGED inboxVars
  <2>1. toPeer' = toPeer \/ \E f \in Envelope : /\ \A g \in toPeer : g.id # f.id
                                                /\ toPeer' = toPeer \cup {f}
    BY <1>1, OutboxFrame
  <2>2. UNCHANGED <<opened, handler>>
    BY <1>1 DEF inboxVars
  <2>3. QED
    BY <2>1, <2>2 DEF MailIds
<1>2. CASE InboxNext /\ UNCHANGED outboxVars
  <2>a. /\ handler \in [Rids -> [at : Stages, env : 0..MaxEnvelopes]]
        /\ \A e \in toPeer : e.id # 0 /\ e.id \in Envs /\ e.rid \in Rids
    BY DEF TypeOK, InboxTypeOK, MailboxTypeOK, Envelope, Envs
  <2> USE <2>a DEF MailIds, Free, mailVars
  <2>b. ASSUME NEW e, AckEnvelope(e) PROVE
           /\ toPeer' \subseteq toPeer
           /\ \A f \in toPeer : f.id # e => f \in toPeer'
           /\ opened' \subseteq opened /\ \A i \in opened' : \E f \in toPeer' : f.id = i
    BY <2>b DEF AckEnvelope
  <2>1. ASSUME NEW e \in toPeer, Open(e) PROVE MailIds'
    BY <2>1 DEF Open
  <2>2. ASSUME NEW e \in toPeer, AckDuplicate(e) PROVE MailIds'
    BY <2>2, <2>b DEF AckDuplicate
  <2>3. ASSUME NEW e \in toPeer, CannotOpen(e) PROVE MailIds'
    BY <2>3, <2>b DEF CannotOpen
  <2>4. ASSUME NEW e \in toPeer, Resume(e) PROVE MailIds'
    BY <2>4 DEF Resume
  <2>5. ASSUME NEW r \in Rids, Park(r) PROVE MailIds'
    BY <2>5 DEF Park, StorePlaintext, WasHandled
  <2>c. ASSUME NEW r \in Rids, AckEnvelope(handler[r].env), handler' = [handler EXCEPT ![r] = Free]
        PROVE MailIds'
    BY <2>b, <2>c
  <2>6. ASSUME NEW r \in Rids, AckHandled(r) PROVE MailIds'
    BY <2>6, <2>c DEF AckHandled, WasHandled
  <2>7. ASSUME NEW r \in Rids, SecondCommit(r) PROVE MailIds'
    BY <2>7, <2>c DEF SecondCommit, HandleAck, HandleWithhold, HandleDefer, HandleFails, Done, ParkUntilAccepted
  <2>8. ASSUME NEW r \in Rids, RetryParked(r) PROVE MailIds'
    BY <2>8 DEF RetryParked
  <2>9. ASSUME NEW r \in Rids, PostReply(r) \/ DeleteReply(r) \/ Expire(r) PROVE MailIds'
    BY <2>9 DEF PostReply, DeleteReply, Expire
  <2>10. ASSUME Accept \/ PeerStops PROVE MailIds'
    BY <2>10 DEF Accept, PeerStops
  <2>11. QED
    BY <1>2, <2>1, <2>2, <2>3, <2>4, <2>5, <2>6, <2>7, <2>8, <2>9, <2>10
       DEF InboxNext, PeerProgress, FromMailbox, FirstCommit
<1>3. CASE UNCHANGED <<toPeer, opened, handler>>
  BY <1>3 DEF MailIds
<1>4. QED
  BY <1>1, <1>2, <1>3 DEF Next, Restore, inboxVars, vars, mailVars

\* Nothing reads as handled without a verdict.  Only a handler cut off between
\* the ratchet step and the commit of the plaintext would leave an opened
\* envelope that is neither decided, nor parked, nor in hand.
LEMMA VerdictStep ==
    ASSUME "ratchetGap" \notin Events
    PROVE  TypeOK /\ MailIds /\ Verdicts /\ UsedIds /\ [Next]_vars => Verdicts'
<1> SUFFICES ASSUME TypeOK, MailIds, Verdicts, UsedIds, [Next]_vars PROVE Verdicts'
  OBVIOUS
<1>1. CASE OutboxNext /\ UNCHANGED inboxVars
  <2>1. toPeer' = toPeer \/ \E f \in Envelope : /\ \A g \in toPeer : g.id # f.id
                                                /\ toPeer' = toPeer \cup {f}
    BY <1>1, OutboxFrame
  <2>2. UNCHANGED <<opened, handler, reply, handled, pending, decided>>
    BY <1>1 DEF inboxVars, rowsIn, ghosts
  <2>3. \A y \in toSender' : y.kind = "ok" => y.rid \in decided
    BY <1>1, OutboxFrame DEF Verdicts
  <2>4. \A f \in toPeer' : f.id \in opened => f.rid \in pending \cup decided \/ InHand(f)
    BY <2>1 DEF Verdicts, MailIds
  <2>5. QED
    BY <2>2, <2>3, <2>4 DEF Verdicts, InHand
<1>2. CASE InboxNext /\ UNCHANGED outboxVars
  <2>a. /\ handler \in [Rids -> [at : Stages, env : 0..MaxEnvelopes]]
        /\ reply \in [Rids -> {"none"} \cup ReplyKinds]
        /\ \A e \in toPeer : e.id # 0 /\ e.id \in Envs /\ e.rid \in Rids
    BY DEF TypeOK, InboxTypeOK, MailboxTypeOK, Envelope, Envs
  <2>b. ASSUME NEW e, AckEnvelope(e)
        PROVE toPeer' \subseteq toPeer /\ opened' \subseteq opened
    BY <2>b DEF AckEnvelope
  <2> USE <2>a DEF Verdicts, MailIds, InHand, Free, mailVars, QueueReply, NoMail
  <2>1. ASSUME NEW e \in toPeer, Open(e) PROVE Verdicts'
    BY <2>1 DEF Open, rowsIn, ghosts
  <2>2. ASSUME NEW e \in toPeer, AckDuplicate(e) PROVE Verdicts'
    <3>1. e.rid \in decided
      BY <2>2 DEF AckDuplicate
    <3>2. QED
      BY <2>2, <2>b, <3>1 DEF AckDuplicate, ghosts
  <2>3. ASSUME NEW e \in toPeer, CannotOpen(e) PROVE Verdicts'
    BY <2>3, <2>b DEF CannotOpen
  <2>4. ASSUME NEW e \in toPeer, Resume(e) PROVE Verdicts'
    BY <2>4 DEF Resume, rowsIn, ghosts
  <2>5. ASSUME NEW r \in Rids, Park(r) PROVE Verdicts'
    BY <2>5 DEF Park, ghosts, StorePlaintext, WasHandled
  <2>6. ASSUME NEW r \in Rids, AckHandled(r) PROVE Verdicts'
    BY <2>6, <2>b DEF AckHandled, rowsIn, ghosts, WasHandled
  <2>7. ASSUME NEW r \in Rids, HandleAck(r) PROVE Verdicts'
    BY <2>7, <2>b DEF HandleAck, Done, ClearPending
  <2>8. ASSUME NEW r \in Rids, HandleWithhold(r) PROVE Verdicts'
    BY <2>8, <2>b DEF HandleWithhold, Done, ClearPending
  <2>9. ASSUME NEW r \in Rids, HandleDefer(r) PROVE Verdicts'
    BY <2>9, <2>b DEF HandleDefer, Done, ghosts, ParkUntilAccepted
  <2>10. ASSUME NEW r \in Rids, HandleFails(r) PROVE Verdicts'
    BY <2>10, <2>b DEF HandleFails, Done, ClearPending
  <2>11. ASSUME NEW r \in Rids, RetryParked(r) PROVE Verdicts'
    BY <2>11 DEF RetryParked, rowsIn, ghosts
  <2>12. ASSUME NEW r \in Rids, PostReply(r) PROVE Verdicts'
    BY <2>12 DEF PostReply, rowsIn, ghosts
  <2>13. ASSUME NEW r \in Rids, DeleteReply(r) PROVE Verdicts'
    BY <2>13 DEF DeleteReply, rowsIn, ghosts
  <2>14. ASSUME NEW r \in Rids, Expire(r) PROVE Verdicts'
    BY <2>14 DEF Expire, ClearPending
  <2>15. ASSUME Accept PROVE Verdicts'
    BY <2>15 DEF Accept, rowsIn, ghosts
  <2>16. ASSUME PeerStops PROVE Verdicts'
    <3>1. \A r \in Rids : handler[r].at # "opened"
      BY <2>16 DEF PeerStops, Event
    <3>2. QED
      BY <2>16, <3>1 DEF PeerStops, rowsIn, ghosts
  <2>17. QED
    BY <1>2, <2>1, <2>2, <2>3, <2>4, <2>5, <2>6, <2>7, <2>8, <2>9, <2>10, <2>11, <2>12,
       <2>13, <2>14, <2>15, <2>16
       DEF InboxNext, PeerProgress, FromMailbox, FirstCommit, SecondCommit
<1>3. CASE UNCHANGED <<toPeer, toSender, inboxVars>>
  BY <1>3 DEF Verdicts, InHand, inboxVars, rowsIn, ghosts
<1>4. QED
  BY <1>1, <1>2, <1>3 DEF Next, Restore, vars, mailVars

\* The content of an id runs only out of a parked plaintext, and a plaintext is
\* parked only while the handled mark is not set.
LEMMA OnceStep == TypeOK /\ Once /\ [Next]_vars => Once'
<1> SUFFICES ASSUME TypeOK, Once, [Next]_vars PROVE Once'
  OBVIOUS
<1>1. CASE UNCHANGED <<runs, handled, pending, handler>>
  BY <1>1 DEF Once
<1>2. CASE InboxNext /\ UNCHANGED outboxVars
  <2>a. /\ handler \in [Rids -> [at : Stages, env : 0..MaxEnvelopes]]
        /\ runs \in [Rids -> Nat]
        /\ \A e \in toPeer : e.rid \in Rids
    BY DEF TypeOK, InboxTypeOK, MailboxTypeOK, Envelope
  <2> USE <2>a DEF Once, Free
  <2>1. ASSUME NEW e \in toPeer, FromMailbox(e) PROVE Once'
    BY <2>1 DEF FromMailbox, Open, AckDuplicate, CannotOpen, Resume, rowsIn, ghosts
  <2>2. ASSUME NEW r \in Rids, Park(r) PROVE Once'
    BY <2>2 DEF Park, ghosts, StorePlaintext, WasHandled
  <2>3. ASSUME NEW r \in Rids, AckHandled(r) PROVE Once'
    BY <2>3 DEF AckHandled, rowsIn, ghosts, WasHandled
  <2>4. ASSUME NEW r \in Rids, HandleAck(r) PROVE Once'
    <3>1. r \notin handled /\ handler' = [handler EXCEPT ![r] = Free]
      BY <2>4 DEF HandleAck, Done
    <3>2. /\ handled' = handled \cup {r} /\ pending' = pending \ {r}
          /\ runs' = [runs EXCEPT ![r] = @ + 1]
      BY <2>4 DEF HandleAck, ClearPending
    <3>3. \A q \in Rids : runs'[q] = IF q \in handled' THEN 1 ELSE 0
      BY <3>1, <3>2
    <3>4. QED
      BY <3>1, <3>2, <3>3
  <2>5. ASSUME NEW r \in Rids, HandleWithhold(r) PROVE Once'
    BY <2>5 DEF HandleWithhold, Done, ClearPending
  <2>6. ASSUME NEW r \in Rids, HandleDefer(r) PROVE Once'
    BY <2>6 DEF HandleDefer, Done, ghosts, ParkUntilAccepted
  <2>7. ASSUME NEW r \in Rids, HandleFails(r) PROVE Once'
    BY <2>7 DEF HandleFails, Done, ClearPending
  <2>8. ASSUME NEW r \in Rids, RetryParked(r) PROVE Once'
    BY <2>8 DEF RetryParked, rowsIn, ghosts
  <2>9. ASSUME NEW r \in Rids, PostReply(r) \/ DeleteReply(r) PROVE Once'
    BY <2>9 DEF PostReply, DeleteReply, rowsIn, ghosts
  <2>10. ASSUME NEW r \in Rids, Expire(r) PROVE Once'
    BY <2>10 DEF Expire, ClearPending
  <2>11. ASSUME Accept \/ PeerStops PROVE Once'
    BY <2>11 DEF Accept, PeerStops, rowsIn, ghosts
  <2>12. QED
    BY <1>2, <2>1, <2>2, <2>3, <2>4, <2>5, <2>6, <2>7, <2>8, <2>9, <2>10, <2>11
       DEF InboxNext, PeerProgress, FirstCommit, SecondCommit
<1>3. QED
  BY <1>1, <1>2 DEF Next, inboxVars, rowsIn, ghosts, vars

\* A row is only ever added for a message that has none, or in the place of
\* the one it has, and only removed with the delivery recorded.
LEMMA OutboxHoldsStep ==
    TypeOK /\ UsedIds /\ OutboxHoldsUndelivered /\ [Next]_vars => OutboxHoldsUndelivered'
<1> SUFFICES ASSUME TypeOK, UsedIds, OutboxHoldsUndelivered, [Next]_vars
             PROVE  OutboxHoldsUndelivered'
  OBVIOUS
<1>1. CASE UNCHANGED <<origin, queued, delivered>>
  BY <1>1 DEF OutboxHoldsUndelivered, Rows
<1>2. CASE OutboxNext /\ UNCHANGED inboxVars
  <2>a. /\ origin \in [Rids -> Msgs \cup {NoMsg}] /\ NoMsg \notin Msgs
        /\ queued \subseteq Rids
        /\ \A r \in queued : origin[r] # NoMsg
        /\ \A y \in toSender : y.rid \in Rids
    BY MailboxAssumption
       DEF MailboxAssumption, TypeOK, OutboxTypeOK, MailboxTypeOK, Reply, UsedIds, Used
  <2> USE <2>a DEF OutboxHoldsUndelivered, Rows
  <2>1. ASSUME NEW m \in Msgs, Send(m) PROVE OutboxHoldsUndelivered'
    <3>1. PICK r \in Rids :
              /\ m \notin delivered /\ origin[r] = NoMsg
              /\ origin' = [origin EXCEPT ![r] = m]
              /\ queued' = (queued \ Rows(m)) \cup {r}
              /\ delivered' = delivered
      BY <2>1 DEF Send, IsFresh
    <3>2. r \notin queued
      BY <3>1
    <3>3. Rows(m)' = {r}
      BY <3>1, <3>2
    <3>4. \A l \in Msgs \ {m} : Rows(l)' = Rows(l)
      BY <3>1, <3>2
    <3>5. \A l \in Msgs \ {m} : \A q \in Rids : origin'[q] = l => origin[q] = l
      BY <3>1
    <3>6. QED
      BY <3>1, <3>3, <3>4, <3>5
  <2>2. ASSUME NEW m \in Msgs, DeliveryReceipt(m) PROVE OutboxHoldsUndelivered'
    <3>1. PICK y \in toSender :
              /\ origin[y.rid] = m
              /\ delivered' = IF y.rid \in queued THEN delivered \cup {m} ELSE delivered
              /\ queued' = queued \ {y.rid}
              /\ origin' = origin
      BY <2>2 DEF DeliveryReceipt, Forget
    <3>2. CASE y.rid \notin queued
      BY <3>1, <3>2
    <3>3. CASE y.rid \in queued
      <4>1. \E q \in Rids : Rows(m) = {q}
        BY <3>1, <3>3
      <4>2. Rows(m) = {y.rid}
        BY <3>1, <3>3, <4>1
      <4>3. Rows(m)' = {}
        BY <3>1, <4>2
      <4>4. \A l \in Msgs \ {m} : Rows(l)' = Rows(l)
        BY <3>1
      <4>5. QED
        BY <3>1, <3>3, <4>3, <4>4
    <3>4. QED
      BY <3>2, <3>3
  <2>3. ASSUME NEW y \in toSender, Requeue(y) PROVE OutboxHoldsUndelivered'
    <3>1. PICK n \in Rids :
              /\ y.rid \in queued /\ origin[n] = NoMsg
              /\ origin' = [origin EXCEPT ![n] = origin[y.rid]]
              /\ queued' = (queued \ {y.rid}) \cup {n}
              /\ delivered' = delivered
      BY <2>3 DEF Requeue, IsFresh, Renamed
    <3> DEFINE m == origin[y.rid]
    <3>2. m \in Msgs /\ n \notin queued
      BY <3>1
    <3>3. y.rid \in Rows(m)
      BY <3>1
    <3>4. m \notin delivered /\ \E q \in Rids : Rows(m) = {q}
      BY <3>2, <3>3
    <3>5. Rows(m) = {y.rid}
      BY <3>3, <3>4
    <3>6. \A q \in queued : q # y.rid => origin[q] # m
      BY <3>5
    <3>7. \A q \in queued' : origin'[q] = m <=> q = n
      BY <3>1, <3>2, <3>6
    <3>8. {q \in queued' : origin'[q] = m} = {n}
      BY <3>1, <3>7
    <3>9. \A l \in Msgs \ {m} : {q \in queued' : origin'[q] = l} = {q \in queued : origin[q] = l}
      BY <3>1, <3>2
    <3>10. \A l \in Msgs \ {m} : \A q \in Rids : origin'[q] = l => origin[q] = l
      BY <3>1
    <3>11. ASSUME NEW l \in Msgs, \E q \in Rids : origin'[q] = l
           PROVE  IF l \in delivered' THEN {q \in queued' : origin'[q] = l} = {}
                  ELSE \E p \in Rids : {q \in queued' : origin'[q] = l} = {p}
      <4>1. CASE l = m
        BY <3>1, <3>4, <3>8, <4>1
      <4>2. CASE l # m
        BY <3>1, <3>9, <3>10, <3>11, <4>2
      <4>3. QED
        BY <4>1, <4>2
    <3>12. QED
      BY <3>11
  <2>4. ASSUME UNCHANGED <<origin, queued, delivered>> PROVE OutboxHoldsUndelivered'
    BY <2>4
  <2> USE DEF rowVars, sessionVars, taskVars, mailVars
  <2>5. ASSUME SenderProgress,
               ~ \E m \in Msgs : DeliveryReceipt(m), ~ \E y \in toSender : Requeue(y)
        PROVE  OutboxHoldsUndelivered'
    BY <2>4, <2>5 DEF SenderProgress, Elapse, Sweep, Load, CommitAccepted, Submit,
        PostCiphertext, ErrorAgain, ErrorWithoutRow, ClaimRebuild, FinishRebuild, outboxVars, ReleaseDeferred
  <2>6. ASSUME SenderFaults PROVE OutboxHoldsUndelivered'
    BY <2>4, <2>6 DEF SenderFaults, SubmitFails, DeferUntilSession, SubmitUnheard,
        PostCiphertext, RebuildFails, SenderStops, ReleaseDeferred
  <2>7. ASSUME NEW s \in Sessions, PeerWrites(s) PROVE OutboxHoldsUndelivered'
    BY <2>4, <2>7 DEF PeerWrites, ReleaseDeferred
  <2>8. QED
    BY <1>2, <2>1, <2>2, <2>3, <2>5, <2>6, <2>7 DEF OutboxNext, SenderProgress
<1>3. QED
  BY <1>1, <1>2 DEF Next, outboxVars, rowVars, vars

\* Every step of the two devices is a step of DeliveryPromise or none of its
\* business: a first id for a message sends it, a verdict on an id in use
\* settles its message, and only a delivery receipt tells the sender.
LEMMA PromiseStep ==
    TypeOK /\ UsedIds /\ Verdicts /\ [Next]_vars => [Promise!Next]_(Promise!vars)
<1> SUFFICES ASSUME TypeOK, UsedIds, Verdicts, [Next]_vars
             PROVE  [Promise!Next]_(Promise!vars)
  OBVIOUS
<1> DEFINE Nothing == Sent' = Sent /\ Settled' = Settled /\ delivered' = delivered
           Goal == [Promise!Next]_(Promise!vars)
<1>n. ASSUME Nothing PROVE Goal
  BY <1>n DEF Promise!vars
<1>1. CASE UNCHANGED <<origin, decided, delivered>>
  BY <1>1, <1>n DEF Sent, Settled
<1>2. CASE OutboxNext /\ UNCHANGED inboxVars
  <2>a. /\ origin \in [Rids -> Msgs \cup {NoMsg}] /\ NoMsg \notin Msgs
        /\ \A r \in queued : r \in Rids /\ origin[r] # NoMsg
        /\ \A r \in decided : r \in Rids /\ origin[r] # NoMsg
    BY MailboxAssumption DEF MailboxAssumption, TypeOK, OutboxTypeOK, UsedIds, Used
  <2>b. decided' = decided
    BY <1>2 DEF inboxVars, ghosts
  <2> USE <2>a, <2>b DEF Sent, Settled
  <2>1. ASSUME NEW m \in Msgs, Send(m) PROVE Goal
    <3>1. PICK r \in Rids :
              /\ origin[r] = NoMsg /\ origin' = [origin EXCEPT ![r] = m]
              /\ delivered' = delivered
      BY <2>1 DEF Send, IsFresh
    <3>2. Sent' = Sent \cup {m}
      BY <3>1
    <3>3. Settled' = Settled
      BY <3>1
    <3>4. QED
      BY <3>1, <3>2, <3>3 DEF Promise!Next, Promise!Send
  <2>2. ASSUME NEW m \in Msgs, DeliveryReceipt(m) PROVE Goal
    <3>1. PICK y \in toSender :
              /\ y.kind = "ok" /\ origin[y.rid] = m /\ origin' = origin
              /\ delivered' = IF y.rid \in queued THEN delivered \cup {m} ELSE delivered
      BY <2>2 DEF DeliveryReceipt
    <3>2. m \in Settled
      BY <3>1 DEF Verdicts
    <3>3. Sent' = Sent /\ Settled' = Settled
      BY <3>1
    <3>4. CASE y.rid \in queued
      BY <3>1, <3>2, <3>3, <3>4 DEF Promise!Next, Promise!Tell
    <3>5. CASE y.rid \notin queued
      BY <3>1, <3>3, <3>5, <1>n
    <3>6. QED
      BY <3>4, <3>5
  <2>3. ASSUME NEW y \in toSender, Requeue(y) PROVE Goal
    <3>1. PICK n \in Rids :
              /\ y.rid \in queued /\ origin[n] = NoMsg
              /\ origin' = [origin EXCEPT ![n] = origin[y.rid]]
              /\ delivered' = delivered
      BY <2>3 DEF Requeue, IsFresh
    <3>2. \A q \in Rids : q # n => origin'[q] = origin[q]
      BY <3>1
    <3>3. origin'[n] = origin[y.rid] /\ y.rid # n /\ n \notin decided
      BY <3>1
    <3>4. Sent' = Sent
      BY <3>1, <3>2, <3>3
    <3>5. Settled' = Settled
      BY <3>2, <3>3
    <3>6. QED
      BY <3>1, <3>4, <3>5, <1>n
  <2>4. ASSUME UNCHANGED <<origin, delivered>> PROVE Goal
    BY <2>4, <1>1
  <2> USE DEF rowVars, sessionVars, taskVars, mailVars
  <2>5. ASSUME SenderProgress,
               ~ \E m \in Msgs : DeliveryReceipt(m), ~ \E y \in toSender : Requeue(y)
        PROVE  Goal
    BY <2>4, <2>5 DEF SenderProgress, Elapse, Sweep, Load, CommitAccepted, Submit,
        PostCiphertext, ErrorAgain, ErrorWithoutRow, ClaimRebuild, FinishRebuild, outboxVars, ReleaseDeferred
  <2>6. ASSUME SenderFaults PROVE Goal
    BY <2>4, <2>6 DEF SenderFaults, SubmitFails, DeferUntilSession, SubmitUnheard,
        PostCiphertext, RebuildFails, SenderStops, ReleaseDeferred
  <2>7. ASSUME NEW s \in Sessions, PeerWrites(s) PROVE Goal
    BY <2>4, <2>7 DEF PeerWrites, ReleaseDeferred
  <2>8. QED
    BY <1>2, <2>1, <2>2, <2>3, <2>5, <2>6, <2>7 DEF OutboxNext, SenderProgress
<1>3. CASE InboxNext /\ UNCHANGED outboxVars
  <2>1. UNCHANGED <<origin, delivered>>
    BY <1>3 DEF outboxVars, rowVars
  <2>2. decided' = decided \/ \E r \in Rids : decided' = decided \cup {r}
    BY <1>3 DEF InboxNext, PeerProgress, FirstCommit, FromMailbox, SecondCommit,
         Open, Park, AckHandled, AckDuplicate, CannotOpen, Resume, RetryParked,
         HandleAck, HandleWithhold, HandleDefer, HandleFails, Expire, Accept,
         PostReply, DeleteReply, PeerStops, ghosts, StorePlaintext, WasHandled, ParkUntilAccepted
  <2>3. CASE decided' = decided
    BY <2>1, <2>3, <1>1
  <2>4. ASSUME NEW r \in Rids, decided' = decided \cup {r} PROVE Goal
    <3>1. r \in Used
      BY <2>1, <2>4, UsedStep DEF UsedIds, Used
    <3>2. origin[r] \in Msgs
      BY <3>1 DEF Used, TypeOK, OutboxTypeOK
    <3>3. origin[r] \in Sent /\ Sent' = Sent
      BY <2>1, <3>2 DEF Sent
    <3>4. Settled' = Settled \cup {origin[r]}
      BY <2>1, <2>4, <3>2 DEF Settled
    <3>5. QED
      BY <2>1, <3>2, <3>3, <3>4 DEF Promise!Next, Promise!Settle
  <2>5. QED
    BY <2>2, <2>3, <2>4
<1>4. QED
  BY <1>1, <1>2, <1>3 DEF Next, inboxVars, outboxVars, rowVars, ghosts, vars

\* All four parts and the types hold at the start.
LEMMA InitSafety == Init => UsedIds /\ MailIds /\ Verdicts /\ Once /\ OutboxHoldsUndelivered
<1> SUFFICES ASSUME Init PROVE UsedIds /\ MailIds /\ Verdicts /\ Once /\ OutboxHoldsUndelivered
  OBVIOUS
<1> USE DEF Init, MailboxInit, OutboxInit, InboxInit
<1>1. UsedIds
  BY DEF UsedIds, Used, Idle, Free
<1>2. MailIds
  BY DEF MailIds, Free
<1>3. Verdicts
  BY DEF Verdicts, Free
<1>4. Once
  BY DEF Once, Free
<1>5. OutboxHoldsUndelivered
  BY MailboxAssumption DEF MailboxAssumption, OutboxHoldsUndelivered
<1>6. QED
  BY <1>1, <1>2, <1>3, <1>4, <1>5

\* The outbox holds every undelivered message exactly once, whatever the
\* faults, the ratchet gap included.
THEOREM OutboxIsComplete == Spec => []OutboxHoldsUndelivered
<1> DEFINE Inv == TypeOK /\ UsedIds /\ OutboxHoldsUndelivered
<1>1. Init => Inv
  BY InitTypes, InitSafety
<1>2. Inv /\ [Next]_vars => Inv'
  BY TypesStep, UsedStep, OutboxHoldsStep
<1>3. QED
  BY <1>1, <1>2, PTL DEF Spec

\* No content is handled twice under one receipt id, whatever the faults, the
\* ratchet gap included.
THEOREM HandledAtMostOnce == Spec => []HandledOnce
<1> DEFINE Inv == TypeOK /\ Once
<1>1. Init => Inv
  BY InitTypes, InitSafety
<1>2. Inv /\ [Next]_vars => Inv'
  BY TypesStep, OnceStep
<1>3. Once => HandledOnce
  BY DEF Once, HandledOnce
<1>4. QED
  BY <1>1, <1>2, <1>3, PTL DEF Spec

SafetyInv == TypeOK /\ UsedIds /\ MailIds /\ Verdicts

\* With the ratchet gap closed, the first three parts are an invariant.
LEMMA SafetyHolds == ASSUME "ratchetGap" \notin Events PROVE Spec => []SafetyInv
<1>1. Init => SafetyInv
  BY InitTypes, InitSafety DEF SafetyInv
<1>2. SafetyInv /\ [Next]_vars => SafetyInv'
  BY TypesStep, UsedStep, MailStep, VerdictStep DEF SafetyInv
<1>3. QED
  BY <1>1, <1>2, PTL DEF Spec

\* With the ratchet gap closed, the two devices implement DeliveryPromise.
THEOREM PromiseKept == ASSUME "ratchetGap" \notin Events PROVE Spec => KeepsPromise
<1>1. Init => Promise!Init
  BY MailboxAssumption DEF MailboxAssumption, Init, MailboxInit, OutboxInit, InboxInit,
     Promise!Init, Sent, Settled
<1>2. SafetyInv /\ [Next]_vars => [Promise!Next]_(Promise!vars)
  BY PromiseStep DEF SafetyInv
<1>3. QED
  BY <1>1, <1>2, SafetyHolds, PTL DEF Spec, KeepsPromise, Promise!Spec

\* With the ratchet gap closed, "delivered" on the sender's screen means that
\* the peer's device came to a verdict on the message.
THEOREM DeliveredMeansDecided ==
    ASSUME "ratchetGap" \notin Events PROVE Spec => []DeliveredIsDecided
<1> DEFINE Inv == SafetyInv /\ delivered \subseteq Settled
<1>1. Init => Inv
  BY InitTypes, InitSafety DEF SafetyInv, Init, OutboxInit
<1>2. Inv /\ [Next]_vars => (delivered \subseteq Settled)'
  BY PromiseStep
     DEF SafetyInv, Promise!Next, Promise!vars, Promise!Send, Promise!Settle, Promise!Tell
<1>3. SafetyInv /\ [Next]_vars => SafetyInv'
  BY TypesStep, UsedStep, MailStep, VerdictStep DEF SafetyInv
<1>4. Inv => DeliveredIsDecided
  BY DEF DeliveredIsDecided, Settled
<1>5. QED
  BY <1>1, <1>2, <1>3, <1>4, PTL DEF Spec

\* With the ratchet gap closed, the mailbox drops no envelope this device
\* still needs.
THEOREM MailboxAckIsDurable ==
    ASSUME "ratchetGap" \notin Events PROVE Spec => AckedIsDurable
<1> DEFINE Safe == \A f \in toPeer :
                    f \notin toPeer' => f.rid \in pending' \cup decided' \cup errored'
<1>1. ASSUME SafetyInv, [Next]_vars PROVE [Safe]_vars
  <2> SUFFICES ASSUME NEW f \in toPeer, f \notin toPeer'
               PROVE  f.rid \in pending' \cup decided' \cup errored'
    OBVIOUS
  <2>1. ~(OutboxNext /\ UNCHANGED inboxVars)
    BY <1>1, OutboxFrame DEF SafetyInv
  <2>2. InboxNext
    BY <1>1, <2>1 DEF Next, Restore, vars, mailVars
  <2> USE DEF SafetyInv, Verdicts, MailIds
  <2>a. ASSUME NEW e, AckEnvelope(e) PROVE f.id = e
    BY <2>a DEF AckEnvelope
  <2>b. f.id # 0
    BY <1>1 DEF TypeOK, MailboxTypeOK, Envelope, Envs
  <2>3. ASSUME NEW e \in toPeer, FromMailbox(e)
        PROVE f.rid \in pending' \cup decided' \cup errored'
    <3>1. AckEnvelope(e.id)
      BY <2>3 DEF FromMailbox, Open, AckDuplicate, CannotOpen, Resume, mailVars
    <3>2. f = e
      BY <1>1, <2>a, <3>1
    <3>3. QED
      BY <1>1, <2>3, <3>2 DEF FromMailbox, Open, AckDuplicate, CannotOpen, Resume, mailVars,
         InHand, ghosts, Free
  <2>4. ASSUME NEW r \in Rids, AckEnvelope(handler[r].env) PROVE f.rid = r
    BY <1>1, <2>4, <2>a, <2>b
  <2>5. ASSUME NEW r \in Rids, FirstCommit(r)
        PROVE f.rid \in pending' \cup decided' \cup errored'
    BY <1>1, <2>4, <2>5 DEF FirstCommit, Park, AckHandled, mailVars, ghosts, StorePlaintext, WasHandled
  <2>6. ASSUME NEW r \in Rids, SecondCommit(r)
        PROVE f.rid \in pending' \cup decided' \cup errored'
    BY <1>1, <2>4, <2>6 DEF SecondCommit, HandleAck, HandleWithhold, HandleDefer, HandleFails,
       Done, ghosts, ParkUntilAccepted
  <2>7. QED
    BY <2>2, <2>3, <2>5, <2>6 DEF InboxNext, PeerProgress, RetryParked, PostReply, DeleteReply,
       Expire, Accept, PeerStops, mailVars
<1>2. QED
  BY <1>1, SafetyHolds, PTL DEF Spec, AckedIsDurable
=============================================================================

----------------------------- MODULE FlushClaim -----------------------------
(***************************************************************************)
(* The coalescing of overlapping queue flushes: FlushClaim and FlushGuard  *)
(* of api/messages/incoming/messages.rs.  A caller commits work to the     *)
(* queue and then asks for a flush.  One flush runs at a time; a request   *)
(* made meanwhile marks the claim dirty and then either returns, or, for a *)
(* worker about to close its socket (Waiting), sleeps until the flush it   *)
(* found has ended and claims again.                                       *)
(*                                                                         *)
(* A pass scans the whole queue.  It may fail, and the task that runs it   *)
(* may be cancelled at any await; both drop the guard.                     *)
(***************************************************************************)
EXTENDS Naturals, FiniteSets

CONSTANTS
    Callers,     \* tasks that commit work and ask for a flush
    Waiting,     \* those that use retransmit_queued_receipts_and_wait
    MaxAborts    \* bound: how many tasks may fail or be cancelled

ASSUME FlushAssumption == Waiting \subseteq Callers /\ MaxAborts \in Nat

VARIABLES
    running,     \* FlushState.running
    dirty,       \* FlushState.dirty
    pc,          \* where each caller is
    registered,  \* callers whose Notified future is enabled
    notified,    \* registered callers the notification has reached
    queue,       \* callers whose committed work no pass has read yet
    orphaned,    \* ghost: queued work whose flush, or whose caller, was aborted
    aborts       \* bound counter

vars == <<running, dirty, pc, registered, notified, queue, orphaned, aborts>>

Phases == {"idle", "asking", "asleep", "scanning", "scanned", "done"}

\* The tasks that hold a FlushGuard.
Owners == {c \in Callers : pc[c] \in {"scanning", "scanned"}}

TypeOK ==
    /\ running \in BOOLEAN
    /\ dirty \in BOOLEAN
    /\ pc \in [Callers -> Phases]
    /\ notified \subseteq registered
    /\ registered \subseteq Waiting
    /\ orphaned \subseteq queue
    /\ queue \subseteq Callers
    /\ aborts \in 0..MaxAborts

Init ==
    /\ running = FALSE
    /\ dirty = FALSE
    /\ pc = [c \in Callers |-> "idle"]
    /\ registered = {}
    /\ notified = {}
    /\ queue = {}
    /\ orphaned = {}
    /\ aborts = 0

\* A caller commits a row to the queue; its request for a flush follows.
CommitWork(c) ==
    /\ pc[c] \in {"idle", "done"}
    /\ queue' = queue \cup {c}
    /\ orphaned' = orphaned \ {c}
    /\ pc' = [pc EXCEPT ![c] = "asking"]
    /\ UNCHANGED <<running, dirty, registered, notified, aborts>>

\* A waiting caller enables its notification before it tries to claim.
Register(c) ==
    /\ c \in Waiting \ registered
    /\ pc[c] = "asking"
    /\ registered' = registered \cup {c}
    /\ UNCHANGED <<running, dirty, pc, notified, queue, orphaned, aborts>>

\* FlushGuard::claim finds no flush running and starts one.
ClaimFree(c) ==
    /\ pc[c] = "asking"
    /\ c \in Waiting => c \in registered
    /\ ~running
    /\ running' = TRUE
    /\ dirty' = FALSE
    /\ pc' = [pc EXCEPT ![c] = "scanning"]
    /\ registered' = registered \ {c}
    /\ notified' = notified \ {c}
    /\ UNCHANGED <<queue, orphaned, aborts>>

\* FlushGuard::claim finds one running and marks it dirty.
ClaimBusy(c) ==
    /\ pc[c] = "asking"
    /\ c \in Waiting => c \in registered
    /\ running
    /\ dirty' = TRUE
    /\ pc' = [pc EXCEPT ![c] = IF c \in Waiting THEN "asleep" ELSE "done"]
    /\ UNCHANGED <<running, registered, notified, queue, orphaned, aborts>>

\* A waiting caller whose flush ended goes round its loop.
Wake(c) ==
    /\ pc[c] = "asleep"
    /\ c \in notified
    /\ pc' = [pc EXCEPT ![c] = "asking"]
    /\ registered' = registered \ {c}
    /\ notified' = notified \ {c}
    /\ UNCHANGED <<running, dirty, queue, orphaned, aborts>>

\* One pass of flush_queued_receipts reads every row that is due.
Scan(c) ==
    /\ pc[c] = "scanning"
    /\ queue' = {}
    /\ orphaned' = {}
    /\ pc' = [pc EXCEPT ![c] = "scanned"]
    /\ UNCHANGED <<running, dirty, registered, notified, aborts>>

\* Mutant: the flag a request left is not looked at.
AskedUnseen == FALSE

\* A request was made while this flush ran.
AskedMeanwhile == dirty

\* release_or_take_dirty finds the flag set: keep the claim, scan once more.
TakeDirty(c) ==
    /\ pc[c] = "scanned"
    /\ AskedMeanwhile
    /\ dirty' = FALSE
    /\ pc' = [pc EXCEPT ![c] = "scanning"]
    /\ UNCHANGED <<running, registered, notified, queue, orphaned, aborts>>


\* Notify::notify_waiters reaches every future enabled before the call.
Announced == registered

\* Mutants: a claim that stays taken, and one that is freed in silence.
WakeWaiters == notified' = Announced /\ UNCHANGED running
FreeSilently == running' = FALSE /\ UNCHANGED notified

\* The claim is free for the next caller, and everybody asleep tries for it.
FreeClaim == running' = FALSE /\ notified' = Announced

\* release_or_take_dirty, nothing asked meanwhile: the flush ends.
Release(c) ==
    /\ pc[c] = "scanned"
    /\ ~AskedMeanwhile
    /\ FreeClaim
    /\ pc' = [pc EXCEPT ![c] = "done"]
    /\ UNCHANGED <<dirty, registered, queue, orphaned, aborts>>

\* A pass fails or its task is cancelled: Drop frees the claim and wakes the
\* waiters.  The dirty flag stays as it is, so the work of callers that set it
\* and returned lies in the queue until somebody asks again.
DropGuard(c) ==
    /\ c \in Owners
    /\ aborts < MaxAborts
    /\ FreeClaim
    /\ pc' = [pc EXCEPT ![c] = "done"]
    /\ orphaned' = orphaned \cup {d \in queue : pc[d] \notin {"asking", "asleep"}}
    /\ aborts' = aborts + 1
    /\ UNCHANGED <<dirty, registered, queue>>

\* A caller is cancelled before it claimed, or while it sleeps.
Cancel(c) ==
    /\ pc[c] \in {"asking", "asleep"}
    /\ aborts < MaxAborts
    /\ pc' = [pc EXCEPT ![c] = "done"]
    /\ registered' = registered \ {c}
    /\ notified' = notified \ {c}
    /\ orphaned' = orphaned \cup (queue \cap {c})
    /\ aborts' = aborts + 1
    /\ UNCHANGED <<running, dirty, queue>>

Progress(c) ==
    \/ Register(c) \/ ClaimFree(c) \/ ClaimBusy(c) \/ Wake(c)
    \/ Scan(c) \/ TakeDirty(c) \/ Release(c)

Next == \E c \in Callers : CommitWork(c) \/ Progress(c) \/ DropGuard(c) \/ Cancel(c)

\* A task that can run is polled; new work and failures are not owed to anyone.
Fairness == \A c \in Callers : WF_vars(Progress(c))

Spec == Init /\ [][Next]_vars /\ Fairness

-----------------------------------------------------------------------------

\* At most one task flushes, and the claim is taken exactly while one does:
\* scans of one queue never overlap, and no failure leaves the claim taken
\* (FlushGuard's Drop), which would block every later flush.
OneFlush ==
    /\ \A c, d \in Owners : c = d
    /\ running <=> Owners # {}

\* A request that was coalesced into a running flush is not forgotten: queued
\* work whose caller has gone home is still ahead of a pass, unless the flush
\* it was handed to was dropped (release_or_take_dirty under one lock).
NoLostRequest ==
    \A c \in queue \ orphaned :
        \/ pc[c] \in {"asking", "asleep", "scanning"}
        \/ \E d \in Owners : pc[d] = "scanning" \/ dirty

\* A worker that sleeps is still registered, and either a flush runs whose end
\* will notify it, or it was notified: a flush that ends between its claim and
\* its await, by a drop too, does not leave it asleep.
NoLostWakeup ==
    \A c \in Callers :
        pc[c] = "asleep" => c \in registered /\ (c \in notified \/ Owners # {})

\* Every request is served: work somebody asked a flush for is read by a pass,
\* however the flushes around it end, unless its own flush or caller was
\* aborted.  A worker that waits is served even when the flush it found fails
\* (retransmit_queued_receipts_and_wait registers before it claims).
WorkIsRead ==
    \A c \in Callers : (c \in queue) ~> (c \notin queue \ orphaned)

\* Once no new work arrives, a worker that sleeps until the running flush is
\* over wakes up: no notification falls between its claim and its await.  (An
\* endless stream of requests may keep one flush running for good.)
SleeperWakes ==
    <>[][~ \E c \in Callers : CommitWork(c)]_vars
        => \A c \in Waiting : (pc[c] = "asleep") ~> (pc[c] # "asleep")
=============================================================================

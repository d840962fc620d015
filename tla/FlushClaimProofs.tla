-------------------------- MODULE FlushClaimProofs --------------------------
(***************************************************************************)
(* Invariants of FlushClaim for every set of callers and every number of   *)
(* aborted tasks.  TypeOK, OneFlush, NoLostRequest and NoLostWakeup are    *)
(* inductive together: the latter two need OneFlush, because only the one  *)
(* owner's release can end the passes and the notification still owed.     *)
(***************************************************************************)
EXTENDS FlushClaim, TLAPS

IInv == TypeOK /\ OneFlush /\ NoLostRequest /\ NoLostWakeup

\* The claim, the flags and the callers keep the types of FlushState.
LEMMA TypeStep == TypeOK /\ [Next]_vars => TypeOK'
<1> SUFFICES ASSUME TypeOK, [Next]_vars PROVE TypeOK'
  OBVIOUS
<1> USE FlushAssumption DEF FlushAssumption, TypeOK, Phases
<1>1. ASSUME NEW c \in Callers, CommitWork(c) PROVE TypeOK'
  BY <1>1 DEF CommitWork
<1>2. ASSUME NEW c \in Callers, Register(c) PROVE TypeOK'
  BY <1>2 DEF Register
<1>3. ASSUME NEW c \in Callers, ClaimFree(c) PROVE TypeOK'
  BY <1>3 DEF ClaimFree
<1>4. ASSUME NEW c \in Callers, ClaimBusy(c) PROVE TypeOK'
  BY <1>4 DEF ClaimBusy
<1>5. ASSUME NEW c \in Callers, Wake(c) PROVE TypeOK'
  BY <1>5 DEF Wake
<1>6. ASSUME NEW c \in Callers, Scan(c) PROVE TypeOK'
  BY <1>6 DEF Scan
<1>7. ASSUME NEW c \in Callers, TakeDirty(c) PROVE TypeOK'
  BY <1>7 DEF TakeDirty, AskedMeanwhile
<1>8. ASSUME NEW c \in Callers, Release(c) PROVE TypeOK'
  BY <1>8 DEF Release, Announced, FreeClaim, AskedMeanwhile
<1>9. ASSUME NEW c \in Callers, DropGuard(c) PROVE TypeOK'
  <2>1. aborts' \in 0..MaxAborts
    BY <1>9 DEF DropGuard, FreeClaim
  <2>2. QED
    BY <1>9, <2>1 DEF DropGuard, Announced, FreeClaim
<1>10. ASSUME NEW c \in Callers, Cancel(c) PROVE TypeOK'
  BY <1>10 DEF Cancel
<1>11. CASE UNCHANGED vars
  BY <1>11 DEF vars
<1>12. QED
  BY <1>1, <1>2, <1>3, <1>4, <1>5, <1>6, <1>7, <1>8, <1>9, <1>10, <1>11
     DEF Next, Progress

\* A claim is taken by one task at a time and given back by whichever way its
\* owner leaves.
LEMMA OneFlushStep == TypeOK /\ OneFlush /\ [Next]_vars => OneFlush'
<1> SUFFICES ASSUME TypeOK, OneFlush, [Next]_vars PROVE OneFlush'
  OBVIOUS
<1> USE DEF TypeOK, Phases, OneFlush, Owners
<1>1. ASSUME NEW c \in Callers, CommitWork(c) PROVE OneFlush'
  BY <1>1 DEF CommitWork
<1>2. ASSUME NEW c \in Callers, Register(c) PROVE OneFlush'
  BY <1>2 DEF Register
<1>3. ASSUME NEW c \in Callers, ClaimFree(c) PROVE OneFlush'
  BY <1>3 DEF ClaimFree
<1>4. ASSUME NEW c \in Callers, ClaimBusy(c) PROVE OneFlush'
  BY <1>4 DEF ClaimBusy
<1>5. ASSUME NEW c \in Callers, Wake(c) PROVE OneFlush'
  BY <1>5 DEF Wake
<1>6. ASSUME NEW c \in Callers, Scan(c) PROVE OneFlush'
  BY <1>6 DEF Scan
<1>7. ASSUME NEW c \in Callers, TakeDirty(c) PROVE OneFlush'
  BY <1>7 DEF TakeDirty, AskedMeanwhile
<1>8. ASSUME NEW c \in Callers, Release(c) PROVE OneFlush'
  BY <1>8 DEF Release, FreeClaim, AskedMeanwhile
<1>9. ASSUME NEW c \in Callers, DropGuard(c) PROVE OneFlush'
  BY <1>9 DEF DropGuard, FreeClaim
<1>10. ASSUME NEW c \in Callers, Cancel(c) PROVE OneFlush'
  BY <1>10 DEF Cancel
<1>11. CASE UNCHANGED vars
  BY <1>11 DEF vars
<1>12. QED
  BY <1>1, <1>2, <1>3, <1>4, <1>5, <1>6, <1>7, <1>8, <1>9, <1>10, <1>11
     DEF Next, Progress

\* No step leaves queued work without a pass to come: the owner of the claim
\* may only let go of it when nobody asked since its last scan.
LEMMA NoLostRequestStep == IInv /\ [Next]_vars => NoLostRequest'
<1> SUFFICES ASSUME IInv, [Next]_vars PROVE NoLostRequest'
  OBVIOUS
<1> USE DEF IInv, TypeOK, Phases, OneFlush, NoLostRequest, Owners
<1>1. ASSUME NEW c \in Callers, CommitWork(c) PROVE NoLostRequest'
  BY <1>1 DEF CommitWork
<1>2. ASSUME NEW c \in Callers, Register(c) PROVE NoLostRequest'
  BY <1>2 DEF Register
<1>3. ASSUME NEW c \in Callers, ClaimFree(c) PROVE NoLostRequest'
  BY <1>3 DEF ClaimFree
<1>4. ASSUME NEW c \in Callers, ClaimBusy(c) PROVE NoLostRequest'
  BY <1>4 DEF ClaimBusy
<1>5. ASSUME NEW c \in Callers, Wake(c) PROVE NoLostRequest'
  BY <1>5 DEF Wake
<1>6. ASSUME NEW c \in Callers, Scan(c) PROVE NoLostRequest'
  BY <1>6 DEF Scan
<1>7. ASSUME NEW c \in Callers, TakeDirty(c) PROVE NoLostRequest'
  BY <1>7 DEF TakeDirty, AskedMeanwhile
<1>8. ASSUME NEW c \in Callers, Release(c) PROVE NoLostRequest'
  BY <1>8 DEF Release, FreeClaim, AskedMeanwhile
<1>9. ASSUME NEW c \in Callers, DropGuard(c) PROVE NoLostRequest'
  BY <1>9 DEF DropGuard, FreeClaim
<1>10. ASSUME NEW c \in Callers, Cancel(c) PROVE NoLostRequest'
  BY <1>10 DEF Cancel
<1>11. CASE UNCHANGED vars
  BY <1>11 DEF vars
<1>12. QED
  BY <1>1, <1>2, <1>3, <1>4, <1>5, <1>6, <1>7, <1>8, <1>9, <1>10, <1>11
     DEF Next, Progress

\* Whoever frees the claim notifies all who sleep, and nobody goes to sleep
\* unless the claim is taken.
LEMMA NoLostWakeupStep == IInv /\ [Next]_vars => NoLostWakeup'
<1> SUFFICES ASSUME IInv, [Next]_vars PROVE NoLostWakeup'
  OBVIOUS
<1> USE DEF IInv, TypeOK, Phases, OneFlush, NoLostWakeup, Owners
<1>1. ASSUME NEW c \in Callers, CommitWork(c) PROVE NoLostWakeup'
  BY <1>1 DEF CommitWork
<1>2. ASSUME NEW c \in Callers, Register(c) PROVE NoLostWakeup'
  BY <1>2 DEF Register
<1>3. ASSUME NEW c \in Callers, ClaimFree(c) PROVE NoLostWakeup'
  BY <1>3 DEF ClaimFree
<1>4. ASSUME NEW c \in Callers, ClaimBusy(c) PROVE NoLostWakeup'
  BY <1>4 DEF ClaimBusy
<1>5. ASSUME NEW c \in Callers, Wake(c) PROVE NoLostWakeup'
  BY <1>5 DEF Wake
<1>6. ASSUME NEW c \in Callers, Scan(c) PROVE NoLostWakeup'
  BY <1>6 DEF Scan
<1>7. ASSUME NEW c \in Callers, TakeDirty(c) PROVE NoLostWakeup'
  BY <1>7 DEF TakeDirty, AskedMeanwhile
<1>8. ASSUME NEW c \in Callers, Release(c) PROVE NoLostWakeup'
  BY <1>8 DEF Release, FreeClaim, Announced, AskedMeanwhile
<1>9. ASSUME NEW c \in Callers, DropGuard(c) PROVE NoLostWakeup'
  BY <1>9 DEF DropGuard, FreeClaim, Announced
<1>10. ASSUME NEW c \in Callers, Cancel(c) PROVE NoLostWakeup'
  BY <1>10 DEF Cancel
<1>11. CASE UNCHANGED vars
  BY <1>11 DEF vars
<1>12. QED
  BY <1>1, <1>2, <1>3, <1>4, <1>5, <1>6, <1>7, <1>8, <1>9, <1>10, <1>11
     DEF Next, Progress

\* At start no flush runs and nothing is queued.
LEMMA InitIInv == Init => IInv
<1> SUFFICES ASSUME Init PROVE IInv
  OBVIOUS
<1>1. TypeOK
  <2>1. aborts \in 0..MaxAborts
    BY FlushAssumption DEF FlushAssumption, Init
  <2>2. pc \in [Callers -> Phases]
    BY DEF Init, Phases
  <2>3. running \in BOOLEAN /\ dirty \in BOOLEAN
    BY DEF Init
  <2>4. QED
    BY <2>1, <2>2, <2>3 DEF Init, TypeOK
<1>2. Owners = {}
  BY DEF Init, Owners
<1>3. OneFlush
  <2>1. running = FALSE
    BY DEF Init
  <2>2. QED
    BY <1>2, <2>1, Zenon DEF OneFlush
<1>4. NoLostRequest
  BY DEF Init, NoLostRequest
<1>5. NoLostWakeup
  BY DEF Init, NoLostWakeup
<1>6. QED
  BY <1>1, <1>3, <1>4, <1>5 DEF IInv

\* The inductive invariant holds in every reachable state.
THEOREM FlushInvariant == Spec => []IInv
<1>1. IInv /\ [Next]_vars => IInv'
  BY TypeStep, OneFlushStep, NoLostRequestStep, NoLostWakeupStep DEF IInv
<1>2. QED
  BY InitIInv, <1>1, PTL DEF Spec

\* Scans of one queue never overlap and the claim is never left taken.
THEOREM FlushesExclude == Spec => []OneFlush
  BY FlushInvariant, PTL DEF IInv

\* A request coalesced into a running flush is never forgotten.
THEOREM RequestsKept == Spec => []NoLostRequest
  BY FlushInvariant, PTL DEF IInv

\* No sleeping worker misses the end of the flush it waits for.
THEOREM WakeupsKept == Spec => []NoLostWakeup
  BY FlushInvariant, PTL DEF IInv
=============================================================================

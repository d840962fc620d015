----------------------------- MODULE DbSafety -----------------------------
(***************************************************************************)
(* Who owns the databases, for any number of epochs, jobs, pools, callers  *)
(* and reports: the inductive invariant of DbLifecycle, the safety         *)
(* properties it implies and the refinement of DatabaseOwner.              *)
(***************************************************************************)
EXTENDS DbTypes

Alive(e) == phase[e] \in {"starting", "ready"}
NoneAlive == \A e \in Epochs : ~Alive(e)

\* An activation acts under TRANSITION, and one that opens an epoch finds none
\* alive.
Activations ==
    \A a \in Activators :
        /\ actAt[a] \notin {"idle", "lock"} => transition = a
        /\ actAt[a] = "retire" => actEpoch[a] = attached
        /\ actAt[a] \in {"attach", "check"} =>
               phase[actEpoch[a]] = "starting" /\ epochAt[actEpoch[a]] = "none"
        /\ actAt[a] = "register" => NoneAlive

\* An epoch is the one the context knows, or its activation still sees to it.
Known(e) ==
    \/ attached = e
    \/ \E a \in Activators :
          /\ transition = a
          /\ actEpoch[a] = e
          /\ actAt[a] \in {"attach", "check", "await", "closing"}

OneEpoch ==
    /\ \A e \in Epochs : Alive(e) => Known(e)
    /\ \A e, f \in Epochs : Alive(e) /\ Alive(f) => e = f
    /\ \A e \in Epochs : phase[e] = "ready" => attached = e
    /\ \A e \in Epochs : epochAt[e] # "none" => Alive(e)
    /\ \A e \in Epochs : epochAt[e] \in {"claim", "opened"} => context # "none"

ResetWaits ==
    /\ resetAt \in {"lock", "hidingAgain", "drained", "native", "permit"} => transition = "reset"
    /\ resetAt = "drained" => resetEpoch = attached
    /\ resetAt \in {"native", "permit"} => NoneAlive

Serial == Activations /\ OneEpoch /\ ResetWaits

\* Who holds the permit, and that nothing is left of those that are over.
EpochPermits ==
    \A e \in Epochs :
        /\ epochAt[e] \in {"init", "claim", "opened"} => permit = e
        /\ ~Alive(e) => e \notin leases /\ permit # e /\ checkouts[e] = {}

JobPermits ==
    \A j \in Jobs :
        /\ jobAt[j] \in {"admitted", "preparing", "hidden", "drained", "working"} => permit = j
        /\ jobAt[j] \in {"new", "registered", "admission", "done"} =>
               permit # j /\ checkouts[j] = {}
        /\ jobAt[j] \in {"new", "done"} => j \notin leases
        /\ jobAt[j] \in {"preparing", "hidden", "drained"} => context # "none"

Permits ==
    /\ EpochPermits
    /\ JobPermits
    /\ resetAt = "done" => permit = "closed"

\* Whose the pools are.  An epoch that gave the permit back has all of them.
PoolOwners ==
    \A p \in Pools :
        /\ Live(p) => context # "none" /\ pool[p].owner \in Ops
        /\ pool[p].state = "closing" => lifecycle = pool[p].owner
        /\ \A j \in Jobs : pool[p].owner = j => permit = j \/ (jobAt[j] = "done" /\ ~Live(p))
        /\ \A e \in Epochs : pool[p].owner = e /\ Live(p) =>
               /\ epochAt[e] # "none"
               /\ permit = e \/ \A q \in Pools : pool[q].owner = e /\ Live(q)

ServingOwns ==
    \A e \in Epochs : epochAt[e] \in {"opened", "serving"} =>
        \A p \in Pools : pool[p] = [state |-> "open", owner |-> e]

ReadyServes == \A e \in Epochs : phase[e] = "ready" => e \in cancelled \/ epochAt[e] = "serving"

Ownership == PoolOwners /\ ServingOwns /\ ReadyServes

IInv == TypeOK /\ AwaitsEpoch /\ Serial /\ Permits /\ Ownership
-----------------------------------------------------------------------------
(* One epoch at a time *)

\* What leaves the activations, the epochs and the reset where they are keeps
\* them in order.
LEMMA SerialFrame ==
  ASSUME Serial, context # "none" => context' # "none",
         UNCHANGED <<phase, epochAt, attached, transition, actAt, actEpoch, resetAt, resetEpoch>>
  PROVE  Serial'
BY DEF Serial, Activations, OneEpoch, ResetWaits, Known, Alive, NoneAlive

\* An activation opens an epoch when none is left, and lets go of it when the
\* context knows it or it is over.
LEMMA ActivationSerial ==
  ASSUME IInv, NEW a \in Activators, Call(a) \/ ActivationStep(a), UNCHANGED <<jobAt, resetVars>>
  PROVE  Serial'
<1> USE ForegroundAssumption
     DEF IInv, Serial, Goto, resetVars, actFrame, ForegroundAssumption, Alive
<1>t. /\ DOMAIN actAt = Activators /\ actAt = [x \in Activators |-> actAt[x]]
      /\ actEpoch \in [Activators -> Epochs \cup {Nobody}]
      /\ DOMAIN phase = Epochs /\ phase = [f \in Epochs |-> phase[f]]
      /\ DOMAIN epochAt = Epochs /\ epochAt = [f \in Epochs |-> epochAt[f]]
      /\ attached \in Epochs \cup {Nobody}
      /\ Nobody \notin Epochs
  BY Domains DEF Ops
<1>h. actAt[a] \in {"idle", "lock"} \/
      (/\ transition = a
       /\ \A b \in Activators \ {a} : actAt[b] \in {"idle", "lock"}
       /\ resetAt \notin {"lock", "hidingAgain", "drained", "native", "permit"})
  BY <1>t DEF Activations, ResetWaits
<1>1. ASSUME Call(a) \/ Enter(a) \/ Look(a) \/ MarkActive(a) PROVE Serial'
  <2> USE DEF Call, Enter, Look, MarkActive, Leave
  <2>1. UNCHANGED <<phase, epochAt, attached, actEpoch, context>>
    BY <1>1 DEF poolVars
  <2>2. Activations'
    <3>1. \/ actAt'[a] \in {"idle", "lock"}
          \/ transition' = a /\ actAt'[a] \in {"look", "seen", "choose"}
      BY <1>1, <1>t, <1>h
    <3>2. \A b \in Activators \ {a} : /\ actAt'[b] = actAt[b]
                                      /\ actAt[b] \in {"idle", "lock"} \/ transition' = transition
      BY <1>1, <1>t, <1>h DEF Activations
    <3>3. QED
      BY <2>1, <3>1, <3>2 DEF Activations, NoneAlive
  <2>3. OneEpoch'
    BY <1>1, <1>t, <1>h, <2>1 DEF OneEpoch, Known
  <2>4. ResetWaits'
    BY <1>1, <1>t, <1>h, <2>1 DEF ResetWaits, NoneAlive
  <2>5. QED
    BY <2>2, <2>3, <2>4
<1>2. ASSUME Choose(a) \/ Retire(a) PROVE Serial'
  <2> USE DEF Choose, Retire, Leave
  <2>1. UNCHANGED <<phase, epochAt, attached, context>>
    BY <1>2 DEF poolVars
  <2>2. \A e \in Epochs : Alive(e) => attached = e
    BY <1>2, <1>h, <1>t DEF OneEpoch, Known
  <2>3. actAt'[a] = "register" => NoneAlive
    <3>1. CASE Choose(a)
      BY <1>t, <2>2, <3>1 DEF KnownEpoch, NoneAlive
    <3>2. CASE Retire(a)
      <4>1. actAt'[a] = "register" => phase[attached] = "closed"
        BY <1>t, <3>2 DEF Activations
      <4>2. QED
        BY <2>2, <4>1 DEF NoneAlive
    <3>3. QED
      BY <1>2, <3>1, <3>2
  <2>4. Activations'
    <3>1. actAt'[a] \in {"idle", "register", "retire"}
      BY <1>2, <1>t
    <3>2. actAt'[a] = "retire" => actEpoch'[a] = attached
      BY <1>2, <1>t DEF KnownEpoch
    <3>3. actAt'[a] = "idle" \/ transition' = a
      BY <1>2, <1>t, <1>h
    <3>4. \A b \in Activators \ {a} : actAt'[b] = actAt[b] /\ actAt[b] \in {"idle", "lock"}
      BY <1>2, <1>t, <1>h
    <3>5. QED
      BY <2>1, <2>3, <3>1, <3>2, <3>3, <3>4 DEF Activations, NoneAlive
  <2>5. OneEpoch'
    BY <2>1, <2>2 DEF OneEpoch, Known
  <2>6. ResetWaits'
    BY <1>2, <2>1, <1>h DEF ResetWaits
  <2>7. QED
    BY <2>4, <2>5, <2>6
<1>3. ASSUME NEW e \in Epochs, OpenEpoch(a, e) PROVE Serial'
  <2> USE DEF OpenEpoch
  <2>1. NoneAlive
    BY <1>3 DEF Activations
  <2>2. epochAt[e] = "none"
    BY <2>1 DEF NoneAlive, OneEpoch
  <2>3. \A f \in Epochs : Alive(f)' => f = e
    BY <1>3, <1>t, <2>1 DEF NoneAlive
  <2>4. Activations'
    BY <1>3, <1>t, <1>h, <2>2 DEF Activations
  <2>5. OneEpoch'
    BY <1>3, <1>t, <1>h, <2>1, <2>3 DEF OneEpoch, Known, NoneAlive
  <2>6. ResetWaits'
    BY <1>3, <1>h DEF ResetWaits
  <2>7. QED
    BY <2>4, <2>5, <2>6
<1>4. ASSUME Attach(a) \/ CheckActive(a) PROVE Serial'
  <2> USE DEF Attach, CheckActive
  <2>1. /\ actEpoch[a] \in Epochs /\ transition = a
        /\ phase[actEpoch[a]] = "starting" /\ epochAt[actEpoch[a]] = "none"
    BY <1>4 DEF Activations, AwaitsEpoch
  <2>2. UNCHANGED <<phase, transition, actEpoch, context>> 
    BY <1>4 DEF poolVars
  <2>3. \A f \in Epochs : Alive(f) => f = actEpoch[a]
    BY <2>1 DEF OneEpoch
  <2>4. Activations'
    BY <1>4, <1>t, <1>h, <2>1, <2>2 DEF Activations, NoneAlive
  <2>5. OneEpoch'
    BY <1>4, <1>t, <1>h, <2>1, <2>2, <2>3 DEF OneEpoch, Known
  <2>6. ResetWaits'
    BY <1>4, <1>h DEF ResetWaits
  <2>7. QED
    BY <2>4, <2>5, <2>6
<1>5. ASSUME Await(a) \/ TryAgain(a) PROVE Serial'
  <2> USE DEF Await, TryAgain, Leave
  <2>1. UNCHANGED <<phase, epochAt, attached, context>>
    BY <1>5 DEF poolVars
  <2>2. actEpoch[a] \in Epochs /\ transition = a
    BY <1>5 DEF Activations, AwaitsEpoch
  <2>3. actAt'[a] = "closing" \/ \A f \in Epochs : Alive(f) => attached = f
    BY <1>5, <1>t, <1>h, <2>2 DEF OneEpoch, Known, IsReady
  <2>4. Activations'
    BY <1>5, <1>t, <1>h, <2>1, <2>2 DEF Activations, NoneAlive
  <2>5. OneEpoch'
    BY <1>5, <1>t, <1>h, <2>1, <2>2, <2>3 DEF OneEpoch, Known
  <2>6. ResetWaits'
    BY <1>5, <2>1, <1>h DEF ResetWaits
  <2>7. QED
    BY <2>4, <2>5, <2>6
<1>6. QED
  BY <1>1, <1>2, <1>3, <1>4, <1>5 DEF ActivationStep

\* Only an epoch that is alive has an owner task, which serves as the one the
\* context knows and ends with it.
LEMMA EpochSerial ==
  ASSUME IInv, NEW e \in Epochs, EpochStep(e), UNCHANGED <<jobAt, resetVars>>
  PROVE  Serial'
<1> USE DEF IInv, Serial, EpochTo, resetVars, epochFrame
<1>t. /\ DOMAIN phase = Epochs /\ phase = [f \in Epochs |-> phase[f]]
      /\ DOMAIN epochAt = Epochs /\ epochAt = [f \in Epochs |-> epochAt[f]]
      /\ attached \in Epochs \cup {Nobody}
  BY Domains
<1>a. Alive(e) /\ epochAt[e] # "none"
  BY DEF OneEpoch, EpochStep, Preempt, AdmitEpoch, InitEpoch, ClaimForFlutter, Serve, Stop,
         FinishForeground, PoolsRetired, CloseEpoch
<1>b. /\ \A f \in Epochs : Alive(f) => f = e
      /\ \A x \in Activators :
            /\ actAt[x] # "register"
            /\ actAt[x] \in {"attach", "check"} => actEpoch[x] # e
      /\ UNCHANGED <<transition, actAt, actEpoch>>
  BY <1>a DEF OneEpoch, Activations, NoneAlive, EpochStep, Preempt, AdmitEpoch, InitEpoch,
              ClaimForFlutter, Serve, Stop, FinishForeground, PoolsRetired, CloseEpoch
<1>c. \A x \in Activators : actAt[x] \notin {"attach", "check", "register"}
  BY <1>b DEF Activations, AwaitsEpoch, Alive
<1>1. ASSUME UNCHANGED <<phase, attached>>, context # "none" => context' # "none",
             epochAt'[e] # "none", epochAt'[e] \in {"claim", "opened"} => context' # "none",
             \A f \in Epochs \ {e} : epochAt'[f] = epochAt[f]
      PROVE  Serial'
  <2>1. Activations'
    BY <1>1, <1>b, <1>c DEF Activations, NoneAlive, Alive
  <2>2. OneEpoch'
    BY <1>1, <1>a, <1>b DEF OneEpoch, Known, Alive
  <2>3. ResetWaits'
    BY <1>1, <1>b DEF ResetWaits, NoneAlive, Alive
  <2>4. QED
    BY <2>1, <2>2, <2>3
<1>2. ASSUME Preempt(e) \/ AdmitEpoch(e) \/ Stop(e) \/ FinishForeground(e) \/ PoolsRetired(e)
      PROVE  Serial'
  BY <1>1, <1>2, <1>t DEF Preempt, AdmitEpoch, Stop, FinishForeground, PoolsRetired, poolVars
<1>3. ASSUME InitEpoch(e) \/ ClaimForFlutter(e) PROVE Serial'
  BY <1>1, <1>3, <1>t DEF InitEpoch, ClaimForFlutter, Create, poolVars, OneEpoch
<1>4. ASSUME Serve(e) PROVE Serial'
  <2> USE DEF Serve
  <2>1. context = context'
    BY <1>4 DEF poolVars
  <2>2. attached' = e \/ (attached' = attached /\ phase' = phase)
    BY <1>4 DEF OneEpoch
  <2>3. resetAt = "drained" => attached' = attached
    BY <1>4, <1>a, ForegroundAssumption DEF ResetWaits, OneEpoch, Known, ForegroundAssumption
  <2>4. \A x \in Activators : actAt[x] # "retire" \/ attached' = attached
    BY <1>4, <1>a DEF OneEpoch, Known, Activations
  <2>5. Activations'
    BY <1>b, <1>c, <2>4 DEF Activations
  <2>6. OneEpoch'
    BY <1>4, <1>t, <1>a, <1>b, <2>1, <2>2 DEF OneEpoch, Known, Alive
  <2>7. ResetWaits'
    BY <1>4, <1>a, <1>b, <2>3 DEF ResetWaits, NoneAlive, Alive
  <2>8. QED
    BY <2>5, <2>6, <2>7
<1>5. ASSUME CloseEpoch(e) PROVE Serial'
  <2> USE DEF CloseEpoch
  <2>1. context = context' /\ attached' = attached /\ NoneAlive'
    BY <1>5, <1>t, <1>b DEF poolVars, NoneAlive, Alive
  <2>2. Activations'
    BY <1>b, <1>c, <2>1 DEF Activations
  <2>3. OneEpoch'
    BY <1>5, <1>t, <1>b, <2>1 DEF OneEpoch, NoneAlive, Alive
  <2>4. ResetWaits'
    BY <1>b, <2>1 DEF ResetWaits
  <2>5. QED
    BY <2>2, <2>3, <2>4
<1>6. QED
  BY <1>2, <1>3, <1>4, <1>5 DEF EpochStep

\* Native jobs leave the app's epochs to the app.
LEMMA JobSerial ==
  ASSUME IInv, NEW j \in Jobs, CreateJob(j) \/ DropRun(j) \/ SessionAsked(j) \/ JobStep(j),
         UNCHANGED resetVars
  PROVE  Serial'
<1>1. UNCHANGED <<phase, epochAt, attached, transition, actAt, actEpoch>>
  BY DEF CreateJob, DropRun, SessionAsked, JobStep, StartRun, AdmitJob, InitJob, SeeHidden, WatchEpoch,
         EpochDrained, SharePools, TakePools, TurnMissed, StopJob, FinishNative, NativeClosed,
         EndJob, jobFrame
<1>2. context # "none" => context' # "none"
  BY DEF CreateJob, DropRun, SessionAsked, JobStep, StartRun, AdmitJob, InitJob, SeeHidden, WatchEpoch,
         EpochDrained, SharePools, TakePools, TurnMissed, StopJob, FinishNative, NativeClosed,
         EndJob, poolVars, Create
<1>3. QED
  BY <1>1, <1>2, SerialFrame DEF IInv, resetVars

\* A reset holds TRANSITION until the last epoch is over, so that no other can
\* follow.
LEMMA ResetSerial ==
  ASSUME IInv, BeginReset \/ ResetStep
  PROVE  Serial'
<1> USE ForegroundAssumption DEF IInv, Serial, ResetTo, ForegroundAssumption
<1>t. /\ DOMAIN phase = Epochs /\ phase = [f \in Epochs |-> phase[f]]
      /\ Nobody \notin Epochs
  BY Domains DEF Ops
<1>1. UNCHANGED <<phase, epochAt, attached, actAt, actEpoch, context>>
  BY DEF BeginReset, ResetStep, LockTransition, HideAgain, WatchLastEpoch, LastEpochDrained,
         StopNative, CloseAdmission, fgVars, poolVars
<1>2. ASSUME resetAt \in {"lock", "hidingAgain", "drained", "native", "permit"}
      PROVE  /\ \A a \in Activators : actAt[a] \in {"idle", "lock"}
             /\ \A e \in Epochs : Alive(e) => attached = e
  BY <1>2 DEF ResetWaits, Activations, OneEpoch, Known
<1>3. ASSUME BeginReset \/ LockTransition PROVE Serial'
  <2>1. transition' = transition \/ (transition = Nobody /\ transition' = "reset")
    BY <1>3 DEF BeginReset, LockTransition
  <2>2. Activations'
    BY <1>1, <2>1 DEF Activations, Alive, NoneAlive
  <2>3. OneEpoch'
    BY <1>1, <2>1 DEF OneEpoch, Known, Alive
  <2>4. ResetWaits'
    BY <1>3 DEF BeginReset, LockTransition, ResetWaits
  <2>5. QED
    BY <2>2, <2>3, <2>4
<1>4. ASSUME HideAgain \/ WatchLastEpoch \/ LastEpochDrained \/ StopNative PROVE Serial'
  <2>1. transition' = transition
    BY <1>4 DEF HideAgain, WatchLastEpoch, LastEpochDrained, StopNative, fgVars
  <2>2. Activations' /\ OneEpoch'
    BY <1>1, <2>1 DEF Activations, OneEpoch, Known, Alive, NoneAlive
  <2>3. ResetWaits'
    BY <1>t, <1>1, <1>2, <1>4, <2>1
       DEF HideAgain, WatchLastEpoch, LastEpochDrained, StopNative, ResetWaits, NoneAlive, Alive,
           fgVars
  <2>4. QED
    BY <2>2, <2>3
<1>5. ASSUME CloseAdmission PROVE Serial'
  <2>1. Activations' /\ OneEpoch'
    BY <1>1, <1>2, <1>5 DEF CloseAdmission, Activations, OneEpoch, Known, Alive
  <2>2. ResetWaits'
    BY <1>5 DEF CloseAdmission, ResetWaits
  <2>3. QED
    BY <2>1, <2>2
<1>6. QED
  BY <1>3, <1>4, <1>5 DEF ResetStep

\* Every step keeps one epoch at a time.
LEMMA SerialKept == IInv /\ Next => Serial'
<1> SUFFICES ASSUME IInv, Next PROVE Serial'
  OBVIOUS
<1>1. ASSUME PlatformNext, UNCHANGED <<jobAt, resetVars>> PROVE Serial'
  <2>1. ASSUME NEW visible \in BOOLEAN, Report(visible) PROVE Serial'
    <3>1. /\ UNCHANGED <<phase, epochAt, attached, transition, actEpoch, context, resetAt,
                       resetEpoch>>
          /\ \A a \in Activators : actAt'[a] = actAt[a] \/ (actAt[a] = "idle" /\ actAt'[a] = "lock")
      BY <1>1, <2>1 DEF Report, poolVars, resetVars, IInv, TypeOK, ForegroundTypeOK
    <3>2. QED
      BY <3>1 DEF IInv, Serial, Activations, OneEpoch, ResetWaits, Known, Alive, NoneAlive
  <2>2. ASSUME VisibilityStep PROVE Serial'
    BY <1>1, <2>2, SerialFrame DEF IInv, VisibilityStep, HideForeground, HideNative, RequestSuspend,
                                  poolVars, resetVars
  <2>3. QED
    BY <1>1, <2>1, <2>2 DEF PlatformNext
<1>2. ASSUME NEW o \in Ops, UNCHANGED <<fgVars, jobAt, resetVars>>,
             \/ \E p \in Pools : Borrow(o, p) \/ Return(o, p)
             \/ UNCHANGED poolVars
      PROVE  Serial'
  BY <1>2, SerialFrame DEF IInv, Borrow, Return, poolVars, fgVars, resetVars
<1>3. QED
  BY <1>1, <1>2, Steps, ActivationSerial, EpochSerial, JobSerial, ResetSerial


-----------------------------------------------------------------------------
(* One holder of the permit *)

\* The names an owner can have are distinct.
LEMMA Names ==
  /\ \A e \in Epochs : e \in Ops /\ e \notin Jobs
  /\ \A j \in Jobs : j \in Ops /\ j \notin Epochs
  /\ \A o \in Ops : o # Nobody /\ o # "free" /\ o # "closed"
BY OpsAssumption DEF OpsAssumption, Ops

LEMMA PermitsFrame ==
  ASSUME Permits, context # "none" => context' # "none", resetAt' = "done" => resetAt = "done",
         UNCHANGED <<phase, epochAt, jobAt, leases, permit, checkouts>>
  PROVE  Permits'
BY DEF Permits, EpochPermits, JobPermits, Alive

\* An activation registers an epoch before it is admitted.
LEMMA ActivationPermits ==
  ASSUME IInv, NEW a \in Activators, Call(a) \/ ActivationStep(a), UNCHANGED <<jobAt, resetVars>>
  PROVE  Permits'
<1> USE DEF IInv, resetVars, actFrame
<1>t. /\ DOMAIN phase = Epochs /\ phase = [f \in Epochs |-> phase[f]]
      /\ DOMAIN epochAt = Epochs /\ epochAt = [f \in Epochs |-> epochAt[f]]
  BY Domains
<1>1. ASSUME NEW e \in Epochs, OpenEpoch(a, e) PROVE Permits'
  <2>1. /\ UNCHANGED <<permit, checkouts, epochAt, jobAt, context, resetAt>>
        /\ leases' = leases \cup {e}
        /\ \A f \in Epochs : Alive(f)' <=> (Alive(f) \/ f = e)
    BY <1>1, <1>t DEF OpenEpoch, Register, Alive
  <2>2. QED
    BY <2>1, Names DEF Permits, EpochPermits, JobPermits
<1>2. ASSUME CheckActive(a) PROVE Permits'
  <2>1. /\ UNCHANGED <<permit, checkouts, leases, phase, jobAt, context, resetAt>>
        /\ \A f \in Epochs : epochAt'[f] = epochAt[f] \/ epochAt'[f] = "admission"
    BY <1>2, <1>t DEF CheckActive, poolVars
  <2>2. QED
    BY <2>1 DEF Permits, EpochPermits, JobPermits, Alive
<1>3. ASSUME Call(a) \/ Enter(a) \/ Look(a) \/ MarkActive(a) \/ Choose(a) \/ Retire(a) \/ Attach(a)
             \/ Await(a) \/ TryAgain(a)
      PROVE  Permits'
  BY <1>3, PermitsFrame DEF Call, Enter, Look, MarkActive, Choose, Retire, Attach, Await, TryAgain,
                            opVars, poolVars
<1>4. QED
  BY <1>1, <1>2, <1>3 DEF ActivationStep

\* An epoch is admitted with the permit and closes without it.
LEMMA EpochPermitsKept ==
  ASSUME IInv, NEW e \in Epochs, EpochStep(e), UNCHANGED <<jobAt, resetVars>>
  PROVE  Permits'
<1> USE DEF IInv, EpochTo, resetVars, epochFrame
<1>t. /\ DOMAIN phase = Epochs /\ phase = [f \in Epochs |-> phase[f]]
      /\ DOMAIN epochAt = Epochs /\ epochAt = [f \in Epochs |-> epochAt[f]]
  BY Domains
<1>a. epochAt[e] # "none" => Alive(e)
  BY DEF Serial, OneEpoch
<1>1. ASSUME UNCHANGED <<phase, leases, permit, checkouts>>, context # "none" => context' # "none",
             \A f \in Epochs \ {e} : epochAt'[f] = epochAt[f],
             epochAt'[e] \in {"init", "claim", "opened"} => permit = e
      PROVE  Permits'
  BY <1>1 DEF Permits, EpochPermits, JobPermits, Alive
<1>2. ASSUME Preempt(e) \/ Stop(e) \/ FinishForeground(e) \/ PoolsRetired(e) PROVE Permits'
  BY <1>1, <1>2, <1>t DEF Preempt, Stop, FinishForeground, PoolsRetired, opVars, poolVars
<1>3. ASSUME InitEpoch(e) \/ ClaimForFlutter(e) PROVE Permits'
  <2>1. permit = e
    BY <1>3 DEF InitEpoch, ClaimForFlutter, Permits, EpochPermits
  <2>2. QED
    BY <1>1, <1>3, <1>t, <2>1 DEF InitEpoch, ClaimForFlutter, Create, opVars, poolVars
<1>4. ASSUME AdmitEpoch(e) PROVE Permits'
  <2>1. /\ UNCHANGED <<phase, leases, checkouts, context>>
        /\ \A f \in Epochs \ {e} : epochAt'[f] = epochAt[f]
        /\ Alive(e)
    BY <1>4, <1>t, <1>a DEF AdmitEpoch, poolVars
  <2>2. \/ permit = "free" /\ permit' = e /\ epochAt'[e] = "init"
        \/ permit' = permit /\ epochAt'[e] = "failed"
    BY <1>4, <1>t DEF AdmitEpoch, Admit
  <2>3. EpochPermits'
    BY <2>1, <2>2, Names DEF Permits, EpochPermits, Alive
  <2>4. JobPermits'
    BY <2>1, <2>2, Names DEF Permits, JobPermits
  <2>5. QED
    BY <2>2, <2>3, <2>4 DEF Permits
<1>5. ASSUME Serve(e) PROVE Permits'
  <2>1. /\ UNCHANGED <<leases, checkouts, context>>
        /\ \A f \in Epochs : Alive(f)' <=> Alive(f)
        /\ \A f \in Epochs \ {e} : epochAt'[f] = epochAt[f]
        /\ epochAt'[e] \in {"serving", "stopping"}
    BY <1>5, <1>t, <1>a DEF Serve, poolVars, Alive
  <2>2. permit' = permit \/ (permit = e /\ permit' = "free")
    BY <1>5 DEF Serve, GiveBack
  <2>3. EpochPermits'
    BY <2>1, <2>2, Names DEF Permits, EpochPermits
  <2>4. JobPermits' /\ (resetAt' = "done" => permit' = "closed")
    BY <2>1, <2>2, Names DEF Permits, JobPermits
  <2>5. QED
    BY <2>3, <2>4 DEF Permits
<1>6. ASSUME CloseEpoch(e) PROVE Permits'
  <2>1. /\ UNCHANGED <<checkouts, context>>
        /\ leases' = leases \ {e}
        /\ checkouts[e] = {}
        /\ \A f \in Epochs \ {e} : (Alive(f)' <=> Alive(f)) /\ epochAt'[f] = epochAt[f]
        /\ epochAt'[e] = "none"
    BY <1>6, <1>t DEF CloseEpoch, Deregister, Drained, poolVars, Alive
  <2>2. permit' # e /\ (permit' = permit \/ (permit = e /\ permit' = "free"))
    BY <1>6, Names DEF CloseEpoch, GiveBack
  <2>3. EpochPermits'
    BY <2>1, <2>2, Names DEF Permits, EpochPermits
  <2>4. JobPermits' /\ (resetAt' = "done" => permit' = "closed")
    BY <2>1, <2>2, Names DEF Permits, JobPermits
  <2>5. QED
    BY <2>3, <2>4 DEF Permits
<1>7. QED
  BY <1>2, <1>3, <1>4, <1>5, <1>6 DEF EpochStep

\* A native job touches the pools under the permit and ends without it.
LEMMA JobPermitsKept ==
  ASSUME IInv, NEW j \in Jobs, CreateJob(j) \/ DropRun(j) \/ SessionAsked(j) \/ JobStep(j),
         UNCHANGED resetVars
  PROVE  Permits'
<1> USE DEF IInv, JobTo, resetVars, jobFrame
<1>t. DOMAIN jobAt = Jobs /\ jobAt = [i \in Jobs |-> jobAt[i]]
  BY DEF TypeOK, NativeTypeOK
<1>1. ASSUME UNCHANGED <<phase, epochAt, permit, checkouts>>,
             context # "none" => context' # "none",
             \A i \in Jobs \ {j} : jobAt'[i] = jobAt[i],
             \A o \in Ops \ {j} : o \in leases' <=> o \in leases,
             /\ jobAt'[j] \in {"admitted", "preparing", "hidden", "drained", "working"} => permit = j
             /\ jobAt'[j] \in {"new", "registered", "admission", "done"} =>
                    permit # j /\ checkouts[j] = {}
             /\ jobAt'[j] \in {"new", "done"} => j \notin leases'
             /\ jobAt'[j] \in {"preparing", "hidden", "drained"} => context' # "none"
      PROVE  Permits'
  <2>1. EpochPermits'
    BY <1>1, Names DEF Permits, EpochPermits, Alive
  <2>2. JobPermits'
    BY <1>1, Names DEF Permits, JobPermits
  <2>3. QED
    BY <1>1, <2>1, <2>2 DEF Permits
<1>2. ASSUME CreateJob(j) \/ DropRun(j) \/ StartRun(j) PROVE Permits'
  BY <1>1, <1>2, <1>t DEF CreateJob, DropRun, StartRun, Register, Deregister, poolVars, Permits,
                          JobPermits
<1>3. ASSUME InitJob(j) PROVE Permits'
  BY <1>1, <1>3, <1>t DEF InitJob, Create, opVars, poolVars, Permits, JobPermits
<1>4. ASSUME SeeHidden(j) \/ WatchEpoch(j) \/ EpochDrained(j) \/ SharePools(j) \/ TakePools(j) \/ TurnMissed(j)
      PROVE  Permits'
  BY <1>1, <1>4, <1>t DEF SeeHidden, WatchEpoch, EpochDrained, SharePools, TakePools, TurnMissed, opVars,
                          poolVars, Permits, JobPermits
<1>5. ASSUME StopJob(j) \/ FinishNative(j) \/ NativeClosed(j) PROVE Permits'
  BY <1>1, <1>5, <1>t DEF StopJob, FinishNative, NativeClosed, opVars, poolVars
<1>6. ASSUME AdmitJob(j) PROVE Permits'
  <2>1. CASE Admit(j) /\ JobTo(j, "admitted") /\ UNCHANGED leases
    <3>1. /\ UNCHANGED <<phase, epochAt, checkouts, leases, context>>
          /\ permit = "free" /\ permit' = j /\ jobAt'[j] = "admitted"
          /\ \A i \in Jobs \ {j} : jobAt'[i] = jobAt[i]
      BY <1>6, <1>t, <2>1 DEF AdmitJob, Admit, poolVars
    <3>2. EpochPermits'
      BY <3>1, Names DEF Permits, EpochPermits, Alive
    <3>3. JobPermits'
      BY <3>1, Names DEF Permits, JobPermits
    <3>4. QED
      BY <3>1, <3>2, <3>3, Names DEF Permits
  <2>2. CASE UNCHANGED permit
    BY <1>1, <1>6, <1>t, <2>2, Names DEF AdmitJob, Admit, Deregister, poolVars, Permits, JobPermits
  <2>3. QED
    BY <1>6, <2>1, <2>2 DEF AdmitJob
<1>7. ASSUME EndJob(j) PROVE Permits'
  <2>1. /\ UNCHANGED <<phase, epochAt, checkouts, context>>
        /\ leases' = leases \ {j} /\ checkouts[j] = {} /\ jobAt'[j] = "done"
        /\ \A i \in Jobs \ {j} : jobAt'[i] = jobAt[i]
    BY <1>7, <1>t DEF EndJob, Drained, Deregister, poolVars
  <2>2. permit' # j /\ (permit' = permit \/ (permit = j /\ permit' = "free"))
    BY <1>7, Names DEF EndJob, GiveBack
  <2>3. EpochPermits'
    BY <2>1, <2>2, Names DEF Permits, EpochPermits, Alive
  <2>4. JobPermits' /\ (resetAt' = "done" => permit' = "closed")
    BY <2>1, <2>2, Names DEF Permits, JobPermits
  <2>5. QED
    BY <2>3, <2>4 DEF Permits
<1>8. QED
  BY <1>2, <1>3, <1>4, <1>5, <1>6, <1>7 DEF SessionAsked, JobStep

\* Every step keeps the permit with one holder that is not over.
LEMMA PermitsKept == IInv /\ Next => Permits'
<1> SUFFICES ASSUME IInv, Next PROVE Permits'
  OBVIOUS
<1>1. ASSUME PlatformNext, UNCHANGED <<jobAt, resetVars>> PROVE Permits'
  BY <1>1, PermitsFrame DEF IInv, PlatformNext, VisibilityStep, Report, HideForeground, HideNative,
                            RequestSuspend, opVars, poolVars, resetVars
<1>2. ASSUME NEW o \in Ops, UNCHANGED <<fgVars, jobAt, resetVars>>,
             \/ \E p \in Pools : (Works(o) /\ Borrow(o, p)) \/ Return(o, p)
             \/ Expire(o) /\ UNCHANGED poolVars
      PROVE  Permits'
  <2>1. UNCHANGED <<phase, epochAt, jobAt, leases, permit, context, resetAt>>
    BY <1>2 DEF Borrow, Return, Expire, fgVars, resetVars, poolVars
  <2>2. /\ \A q \in Ops \ {o} : checkouts'[q] = checkouts[q]
        /\ checkouts[o] = {} /\ ~Works(o) => checkouts'[o] = {}
    BY <1>2 DEF Borrow, Return, Expire, IInv, TypeOK, OperationsTypeOK
  <2>3. EpochPermits'
    BY <2>1, <2>2, Names DEF IInv, Permits, EpochPermits, Alive, Works, Serial, OneEpoch
  <2>4. JobPermits'
    BY <2>1, <2>2, Names DEF IInv, Permits, JobPermits, Works
  <2>5. QED
    BY <2>1, <2>3, <2>4 DEF IInv, Permits
<1>3. ASSUME BeginReset \/ ResetStep PROVE Permits'
  <2>1. CASE CloseAdmission
    <3>1. /\ UNCHANGED <<phase, epochAt, jobAt, leases, checkouts, context>>
          /\ permit = "free" /\ permit' = "closed"
      BY <2>1 DEF CloseAdmission, poolVars
    <3>2. QED
      BY <3>1, Names DEF IInv, Permits, EpochPermits, JobPermits, Alive
  <2>2. CASE ~CloseAdmission
    BY <1>3, <2>2, PermitsFrame
       DEF IInv, BeginReset, ResetStep, ResetTo, LockTransition, HideAgain, WatchLastEpoch,
           LastEpochDrained, StopNative, opVars, poolVars, fgVars
  <2>3. QED
    BY <2>1, <2>2
<1>4. QED
  BY <1>1, <1>2, <1>3, Steps, ActivationPermits, EpochPermitsKept, JobPermitsKept

-----------------------------------------------------------------------------
(* One owner of the pools *)

\* What closing and reopening do to the pools when nobody else is closing any.
LEMMA BeginClosingEffect ==
  ASSUME IInv, NEW o \in Ops, lifecycle = Nobody, BeginClosing(o)
  PROVE  /\ lifecycle' = o
         /\ \A p \in Pools : /\ pool'[p].owner = pool[p].owner
                             /\ Live(p)' <=> Live(p)
                             /\ pool[p].owner # o => pool'[p] = pool[p]
                             /\ pool'[p].state = "closing" => pool[p].owner = o
<1>1. \A p \in Pools : pool[p].state # "closing"
  BY Names DEF IInv, Ownership, PoolOwners, Live
<1>2. QED
  BY <1>1 DEF BeginClosing, IInv, TypeOK, PoolsTypeOK, Live, OwnedBy

LEMMA EndClosingEffect ==
  ASSUME IInv, NEW o \in Ops, EndClosing(o)
  PROVE  /\ lifecycle' = Nobody
         /\ \A p \in Pools : /\ pool'[p].owner = pool[p].owner
                             /\ pool[p].owner # o => pool'[p] = pool[p]
                             /\ pool[p].owner = o => pool'[p].state = "closed"
                             /\ pool'[p].state # "closing"
<1>1. \A p \in Pools : pool[p].state = "closing" => pool[p].owner = o
  BY DEF IInv, Ownership, PoolOwners, EndClosing
<1>2. QED
  BY <1>1 DEF EndClosing, IInv, TypeOK, PoolsTypeOK, OwnedBy

LEMMA ReopenedEffect ==
  ASSUME IInv, NEW o \in Ops, NEW S, lifecycle = Nobody, pool' = Reopened(o, S)
  PROVE  \A p \in Pools : /\ Live(p) => pool[p].state = "open" /\ pool'[p] = pool[p]
                          /\ \/ pool'[p] = pool[p]
                             \/ pool'[p] = [state |-> "open", owner |-> o]
                          /\ pool'[p].state # "closing"
<1>1. \A p \in Pools : pool[p].state # "closing"
  BY Names DEF IInv, Ownership, PoolOwners, Live
<1>2. QED
  BY <1>1 DEF Reopened, IInv, TypeOK, PoolsTypeOK, Live

\* What leaves the pools alone, drops no permit and ends nobody.
LEMMA OwnershipFrame ==
  ASSUME IInv, UNCHANGED <<pool, lifecycle>>, context # "none" => context' # "none",
         permit \in Ops => permit' = permit,
         cancelled \subseteq cancelled',
         \A j \in Jobs : jobAt[j] = "done" => jobAt'[j] = "done",
         \A e \in Epochs :
            /\ epochAt[e] # "none" => epochAt'[e] # "none"
            /\ epochAt'[e] \in {"opened", "serving"} => epochAt[e] \in {"opened", "serving"}
            /\ phase'[e] = "ready" =>
                   phase[e] = "ready" /\ (e \in cancelled' \/ epochAt'[e] = epochAt[e])
  PROVE  Ownership'
<1>1. PoolOwners'
  BY Names DEF IInv, Ownership, PoolOwners, Live
<1>2. ServingOwns'
  BY DEF IInv, Ownership, ServingOwns
<1>3. ReadyServes'
  BY DEF IInv, Ownership, ReadyServes
<1>4. QED
  BY <1>1, <1>2, <1>3 DEF Ownership

\* Activations leave the pools alone.  A new epoch owns none.
LEMMA ActivationOwnership ==
  ASSUME IInv, NEW a \in Activators, Call(a) \/ ActivationStep(a), UNCHANGED <<jobAt, resetVars>>
  PROVE  Ownership'
<1> USE DEF actFrame
<1>t. /\ DOMAIN phase = Epochs /\ phase = [f \in Epochs |-> phase[f]]
      /\ DOMAIN epochAt = Epochs /\ epochAt = [f \in Epochs |-> epochAt[f]]
      /\ Nobody \notin Ops
  BY Domains DEF IInv
<1>1. ASSUME NEW e \in Epochs, OpenEpoch(a, e) PROVE Ownership'
  <2>1. epochAt[e] = "none"
    BY <1>1 DEF OpenEpoch, IInv, Serial, OneEpoch, Activations, NoneAlive
  <2>2. \A p \in Pools : /\ pool'[p].state = pool[p].state
                         /\ pool'[p].owner = pool[p].owner \/ pool'[p].owner = Nobody
                         /\ pool[p].owner # e => pool'[p] = pool[p]
                         /\ pool[p].owner = e => ~Live(p)
    BY <1>1, <2>1 DEF OpenEpoch, OwnedBy, IInv, TypeOK, PoolsTypeOK, Ownership, PoolOwners
  <2>3. UNCHANGED <<context, lifecycle, permit, jobAt, epochAt>>
    BY <1>1 DEF OpenEpoch
  <2>4. PoolOwners'
    BY <2>2, <2>3, <1>t, Names DEF PoolOwners, Live, IInv, Ownership
  <2>5. ServingOwns'
    BY <2>1, <2>2, <2>3, Names DEF ServingOwns, IInv, Ownership
  <2>6. ReadyServes'
    BY <1>1, <1>t, <2>3 DEF OpenEpoch, ReadyServes, IInv, Ownership
  <2>7. QED
    BY <2>4, <2>5, <2>6 DEF Ownership
<1>2. ASSUME CheckActive(a) PROVE Ownership'
  <2>1. epochAt[actEpoch[a]] = "none" /\ actEpoch[a] \in Epochs /\ phase[actEpoch[a]] = "starting"
    BY <1>2 DEF CheckActive, IInv, Serial, Activations, AwaitsEpoch
  <2>2. QED
    BY <1>2, <1>t, <2>1, OwnershipFrame DEF CheckActive, Cancel, poolVars
<1>3. ASSUME Call(a) \/ Enter(a) \/ Look(a) \/ MarkActive(a) \/ Choose(a) \/ Retire(a) \/ Attach(a)
             \/ Await(a) \/ TryAgain(a)
      PROVE  Ownership'
  <2>1. UNCHANGED <<pool, lifecycle, context, permit, jobAt, epochAt, phase>>
    BY <1>3 DEF Call, Enter, Look, MarkActive, Choose, Retire, Attach, Await, TryAgain, opVars,
                poolVars
  <2>2. cancelled \subseteq cancelled'
    BY <1>3 DEF Call, Enter, Look, MarkActive, Choose, Retire, Attach, Await, TryAgain, opVars,
                Cancel
  <2>3. QED
    BY <2>1, <2>2, OwnershipFrame
<1>4. QED
  BY <1>1, <1>2, <1>3 DEF ActivationStep

\* An epoch takes over pools that nobody else has open, keeps all of them when
\* it gives the permit back, and ends with none.
LEMMA EpochOwnership ==
  ASSUME IInv, NEW e \in Epochs, EpochStep(e), UNCHANGED <<jobAt, resetVars>>
  PROVE  Ownership'
<1> USE DEF EpochTo, epochFrame
<1>t. /\ DOMAIN phase = Epochs /\ phase = [f \in Epochs |-> phase[f]]
      /\ DOMAIN epochAt = Epochs /\ epochAt = [f \in Epochs |-> epochAt[f]]
      /\ e \in Ops /\ "app" \in Pools
  BY Domains, Names, OpsAssumption DEF IInv, OpsAssumption
<1>a. /\ epochAt[e] # "none"
      /\ \A f \in Epochs : Alive(f) \/ epochAt[f] # "none" => f = e
  BY DEF IInv, Serial, OneEpoch, EpochStep, Preempt, AdmitEpoch, InitEpoch, ClaimForFlutter,
         Serve, Stop, FinishForeground, PoolsRetired, CloseEpoch
<1>o. \A f \in Epochs \ {e} : epochAt[f] = "none" /\ phase[f] # "ready"
  BY <1>a DEF Alive
<1>p. Ownership
  BY DEF IInv
<1>r. phase[e] = "ready" => e \in cancelled \/ epochAt[e] = "serving"
  BY <1>p DEF Ownership, ReadyServes
\* As no other epoch is alive, the invariant is about e and the jobs.
<1>1. ASSUME PoolOwners',
             \A f \in Epochs \ {e} : epochAt'[f] = epochAt[f] /\ phase'[f] = phase[f],
             epochAt'[e] \in {"opened", "serving"} =>
                 \A p \in Pools : pool'[p] = [state |-> "open", owner |-> e],
             phase'[e] = "ready" => e \in cancelled' \/ epochAt'[e] = "serving"
      PROVE  Ownership'
  BY <1>1, <1>o DEF Ownership, ServingOwns, ReadyServes
<1>2. ASSUME Preempt(e) \/ AdmitEpoch(e) \/ Stop(e) PROVE Ownership'
  <2>1. UNCHANGED <<pool, lifecycle, context, jobAt, phase>> /\ cancelled \subseteq cancelled'
    BY <1>2 DEF Preempt, AdmitEpoch, Stop, CancelNative, Cancel, poolVars
  <2>2. permit \in Ops => permit' = permit
    BY <1>2, Names DEF Preempt, AdmitEpoch, Stop, Admit
  <2>3. \A f \in Epochs : /\ epochAt[f] # "none" => epochAt'[f] # "none"
                          /\ epochAt'[f] \in {"opened", "serving"} => epochAt'[f] = epochAt[f]
                          /\ f # e => epochAt'[f] = epochAt[f]
    BY <1>2, <1>t DEF Preempt, AdmitEpoch, Stop
  <2>4. phase[e] = "ready" => e \in cancelled'
    BY <1>2, <1>r DEF Preempt, AdmitEpoch, Stop, CancelNative, Cancel
  <2>5. QED
    BY <2>1, <2>2, <2>3, <2>4, OwnershipFrame
<1>3. ASSUME InitEpoch(e) PROVE Ownership'
  <2>1. permit = e /\ permit' = permit /\ UNCHANGED <<cancelled, phase, jobAt>>
    BY <1>3 DEF InitEpoch, Create, opVars, IInv, Permits, EpochPermits
  <2>2. /\ epochAt'[e] \in {"claim", "failed"}
        /\ \A f \in Epochs \ {e} : epochAt'[f] = epochAt[f]
    BY <1>3, <1>t DEF InitEpoch
  <2>3. phase[e] = "ready" => e \in cancelled
    BY <1>3, <1>r DEF InitEpoch
  <2>4. CASE Create(e, "Flutter")
    <3>1. /\ \A p \in Pools : pool'[p] = [state |-> "open", owner |-> e]
          /\ context' # "none"
      BY <2>4 DEF Create
    <3>2. PoolOwners'
      BY <1>t, <2>1, <2>2, <3>1, Names DEF PoolOwners, Live
    <3>3. QED
      BY <1>1, <2>1, <2>2, <2>3, <3>2
  <2>5. CASE UNCHANGED <<opVars, poolVars>>
    BY <2>1, <2>2, <2>3, <2>5, OwnershipFrame DEF opVars, poolVars
  <2>6. QED
    BY <1>3, <2>4, <2>5 DEF InitEpoch
<1>4. ASSUME ClaimForFlutter(e) PROVE Ownership'
  <2>1. /\ permit = e /\ context # "none" /\ lifecycle = Nobody
        /\ UNCHANGED <<permit, context, lifecycle, cancelled, phase, jobAt>>
    BY <1>4 DEF ClaimForFlutter, opVars, IInv, Permits, EpochPermits, Serial, OneEpoch
  <2>2. /\ epochAt'[e] \in {"opened", "failed"}
        /\ \A f \in Epochs \ {e} : epochAt'[f] = epochAt[f]
    BY <1>4, <1>t DEF ClaimForFlutter
  <2>3. phase[e] = "ready" => e \in cancelled
    BY <1>4, <1>r DEF ClaimForFlutter
  <2>4. CASE Adopt(e)
    <3>1. \A p \in Pools : pool'[p] = [state |-> "open", owner |-> e]
      BY <2>4 DEF Adopt
    <3>2. PoolOwners'
      BY <1>t, <2>1, <2>2, <3>1, Names DEF PoolOwners, Live
    <3>3. QED
      BY <1>1, <2>1, <2>2, <2>3, <3>1, <3>2
  <2>5. CASE ReopenFails(e) /\ EpochTo(e, "failed")
    <3>1. PICK S : pool' = Reopened(e, S)
      BY <2>5 DEF ReopenFails
    <3>2. \A p \in Pools : /\ pool'[p] = pool[p] \/ pool'[p] = [state |-> "open", owner |-> e]
                           /\ pool'[p].state # "closing"
      BY <1>t, <2>1, <3>1, ReopenedEffect
    <3>3. PoolOwners'
      BY <1>t, <1>o, <1>p, <2>1, <2>2, <3>2, Names DEF Ownership, PoolOwners, Live
    <3>4. epochAt'[e] = "failed"
      BY <1>t, <2>5
    <3>5. QED
      BY <1>1, <2>1, <2>2, <2>3, <3>3, <3>4
  <2>6. QED
    BY <1>4, <2>4, <2>5 DEF ClaimForFlutter
<1>5. ASSUME Serve(e) PROVE Ownership'
  <2>1. UNCHANGED <<pool, lifecycle, context, cancelled, jobAt>>
    BY <1>5 DEF Serve, poolVars
  <2>2. CASE epochAt[e] = "opened" /\ e \notin cancelled
    <3>1. /\ epochAt'[e] = "serving"
          /\ \A f \in Epochs \ {e} : epochAt'[f] = epochAt[f] /\ phase'[f] = phase[f]
      BY <1>5, <1>t, <2>2 DEF Serve
    <3>2. \A p \in Pools : pool[p] = [state |-> "open", owner |-> e]
      BY <1>p, <2>2 DEF Ownership, ServingOwns
    <3>3. PoolOwners'
      BY <1>p, <2>1, <3>1, <3>2, Names DEF Ownership, PoolOwners, Live
    <3>4. QED
      BY <1>1, <2>1, <3>1, <3>2, <3>3
  <2>3. CASE ~(epochAt[e] = "opened" /\ e \notin cancelled)
    <3>1. /\ epochAt'[e] = "stopping" /\ UNCHANGED <<permit, phase>>
          /\ \A f \in Epochs \ {e} : epochAt'[f] = epochAt[f]
      BY <1>5, <1>t, <2>3 DEF Serve
    <3>2. phase[e] = "ready" => e \in cancelled
      BY <1>5, <1>r DEF Serve
    <3>3. QED
      BY <2>1, <3>1, <3>2, OwnershipFrame
  <2>4. QED
    BY <2>2, <2>3
<1>6. ASSUME FinishForeground(e) PROVE Ownership'
  <2>1. /\ UNCHANGED <<permit, context, cancelled, phase, jobAt>>
        /\ lifecycle = Nobody
        /\ epochAt'[e] \in {"drain", "closing"}
        /\ \A f \in Epochs \ {e} : epochAt'[f] = epochAt[f]
    BY <1>6, <1>t DEF FinishForeground, opVars
  <2>2. phase[e] = "ready" => e \in cancelled
    BY <1>6, <1>r DEF FinishForeground
  <2>3. CASE UNCHANGED <<pool, lifecycle>>
    BY <2>1, <2>2, <2>3, OwnershipFrame
  <2>4. CASE BeginClosing(e)
    <3>1. PoolOwners'
      BY <1>t, <1>p, <2>1, <2>4, BeginClosingEffect, Names DEF Ownership, PoolOwners, Live
    <3>2. QED
      BY <1>1, <2>1, <2>2, <3>1
  <2>5. QED
    BY <1>6, <2>3, <2>4 DEF FinishForeground
<1>7. ASSUME PoolsRetired(e) PROVE Ownership'
  <2>1. /\ UNCHANGED <<permit, context, cancelled, phase, jobAt>>
        /\ epochAt'[e] = "drain"
        /\ \A f \in Epochs \ {e} : epochAt'[f] = epochAt[f]
    BY <1>7, <1>t DEF PoolsRetired, opVars
  <2>2. phase[e] = "ready" => e \in cancelled
    BY <1>7, <1>r DEF PoolsRetired
  <2>3. EndClosing(e)
    BY <1>7 DEF PoolsRetired
  <2>4. PoolOwners'
    BY <1>t, <1>o, <1>p, <2>1, <2>3, EndClosingEffect, Names DEF Ownership, PoolOwners, Live
  <2>5. QED
    BY <1>1, <2>1, <2>2, <2>4
<1>8. ASSUME CloseEpoch(e) PROVE Ownership'
  <2>1. /\ UNCHANGED <<pool, lifecycle, context, cancelled, jobAt>>
        /\ epochAt'[e] = "none" /\ phase'[e] # "ready"
        /\ \A f \in Epochs \ {e} : epochAt'[f] = epochAt[f] /\ phase'[f] = phase[f]
    BY <1>8, <1>t DEF CloseEpoch, poolVars
  <2>2. \A p \in Pools : pool[p].owner = e => ~Live(p)
    BY <1>8 DEF CloseEpoch, Drained, OwnedBy
  <2>3. permit' = permit \/ permit = e
    BY <1>8 DEF CloseEpoch, GiveBack
  <2>4. PoolOwners'
    BY <1>p, <1>o, <2>1, <2>2, <2>3, Names DEF Ownership, PoolOwners, Live
  <2>5. QED
    BY <1>1, <2>1, <2>4
<1>9. QED
  BY <1>2, <1>3, <1>4, <1>5, <1>6, <1>7, <1>8 DEF EpochStep

\* A native job opens pools under the permit, shares those of an epoch, and ends
\* when its own are closed.
LEMMA JobOwnership ==
  ASSUME IInv, NEW j \in Jobs, CreateJob(j) \/ DropRun(j) \/ SessionAsked(j) \/ JobStep(j),
         UNCHANGED resetVars
  PROVE  Ownership'
<1> USE DEF JobTo, jobFrame
<1>t. /\ DOMAIN jobAt = Jobs /\ jobAt = [i \in Jobs |-> jobAt[i]]
      /\ j \in Ops /\ "app" \in Pools
  BY Names, OpsAssumption DEF IInv, TypeOK, NativeTypeOK, OpsAssumption
<1>p. Ownership
  BY DEF IInv
<1>f. UNCHANGED <<phase, epochAt>>
  BY DEF CreateJob, DropRun, SessionAsked, JobStep, StartRun, AdmitJob, InitJob, SeeHidden, WatchEpoch,
         EpochDrained, SharePools, TakePools, TurnMissed, StopJob, FinishNative, NativeClosed,
         EndJob
<1>d. \A i \in Jobs : jobAt[i] = "done" => jobAt'[i] = "done"
  BY <1>t DEF CreateJob, DropRun, SessionAsked, JobStep, StartRun, AdmitJob, InitJob, SeeHidden, WatchEpoch,
         EpochDrained, SharePools, TakePools, TurnMissed, StopJob, FinishNative, NativeClosed,
         EndJob
<1>1. ASSUME PoolOwners', ServingOwns', UNCHANGED cancelled PROVE Ownership'
  BY <1>1, <1>p, <1>f DEF Ownership, ReadyServes
<1>2. ASSUME UNCHANGED <<pool, lifecycle>>, context # "none" => context' # "none",
             permit \in Ops => permit' = permit, cancelled \subseteq cancelled'
      PROVE  Ownership'
  BY <1>2, <1>f, <1>d, OwnershipFrame
<1>3. ASSUME CreateJob(j) \/ DropRun(j) \/ StartRun(j) \/ AdmitJob(j) \/ SeeHidden(j) \/ WatchEpoch(j)
             \/ EpochDrained(j) \/ SharePools(j) \/ TurnMissed(j) \/ StopJob(j)
      PROVE  Ownership'
  <2>1. UNCHANGED poolVars /\ (permit \in Ops => permit' = permit)
    BY <1>3, Names DEF CreateJob, DropRun, StartRun, AdmitJob, Admit, SeeHidden, WatchEpoch, EpochDrained,
                       SharePools, TurnMissed, StopJob, opVars
  <2>2. cancelled \subseteq cancelled'
    BY <1>3 DEF CreateJob, DropRun, StartRun, AdmitJob, SeeHidden, WatchEpoch, EpochDrained,
                       SharePools, TurnMissed, StopJob, opVars, Cancel
  <2>3. QED
    BY <1>2, <2>1, <2>2 DEF poolVars
<1>4. ASSUME InitJob(j) PROVE Ownership'
  <2>1. CASE Create(j, "Notification")
    <3>1. permit = j /\ UNCHANGED <<permit, cancelled>>
      BY <1>4, <2>1 DEF InitJob, Create, opVars, IInv, Permits, JobPermits
    <3>2. /\ \A p \in Pools : ~Live(p)
          /\ \A p \in Pools : pool'[p] = [state |-> "open", owner |-> j]
          /\ context' # "none"
      BY <2>1, <1>p DEF Create, Ownership, PoolOwners
    <3>3. PoolOwners'
      BY <3>1, <3>2, Names DEF PoolOwners, Live
    <3>4. ServingOwns'
      BY <1>t, <1>p, <1>f, <3>2 DEF Ownership, ServingOwns, Live
    <3>5. QED
      BY <1>1, <3>1, <3>3, <3>4
  <2>2. CASE UNCHANGED <<opVars, poolVars>>
    BY <1>2, <2>2 DEF opVars, poolVars
  <2>3. QED
    BY <1>4, <2>1, <2>2 DEF InitJob
<1>5. ASSUME TakePools(j) PROVE Ownership'
  <2>1. /\ permit = j /\ context # "none" /\ lifecycle = Nobody
        /\ UNCHANGED <<permit, context, lifecycle, cancelled>>
    BY <1>5 DEF TakePools, opVars, IInv, Permits, JobPermits
  <2>2. PICK S : pool' = Reopened(j, S)
    BY <1>5 DEF TakePools, ReopenFails
  <2>3. \A p \in Pools : /\ Live(p) => pool'[p] = pool[p]
                         /\ pool'[p] = pool[p] \/ pool'[p] = [state |-> "open", owner |-> j]
                         /\ pool'[p].state # "closing"
    BY <1>t, <2>1, <2>2, ReopenedEffect
  <2>4. PoolOwners'
    BY <1>p, <1>f, <1>d, <2>1, <2>3, Names DEF Ownership, PoolOwners, Live
  <2>5. ServingOwns'
    BY <1>p, <1>f, <2>3 DEF Ownership, ServingOwns, Live
  <2>6. QED
    BY <1>1, <2>1, <2>4, <2>5
<1>6. ASSUME FinishNative(j) PROVE Ownership'
  <2>1. lifecycle = Nobody /\ UNCHANGED <<permit, context, cancelled>>
    BY <1>6 DEF FinishNative, opVars
  <2>2. CASE UNCHANGED <<pool, lifecycle>>
    BY <1>2, <2>1, <2>2
  <2>3. CASE BeginClosing(j)
    <3>1. PoolOwners'
      BY <1>t, <1>p, <1>f, <1>d, <2>1, <2>3, BeginClosingEffect, Names
         DEF Ownership, PoolOwners, Live
    <3>2. ServingOwns'
      BY <1>t, <1>p, <1>f, <2>1, <2>3, BeginClosingEffect, Names DEF Ownership, ServingOwns
    <3>3. QED
      BY <1>1, <2>1, <3>1, <3>2
  <2>4. QED
    BY <1>6, <2>2, <2>3 DEF FinishNative
<1>7. ASSUME NativeClosed(j) PROVE Ownership'
  <2>1. EndClosing(j) /\ UNCHANGED <<permit, context, cancelled>>
    BY <1>7 DEF NativeClosed, opVars
  <2>2. PoolOwners'
    BY <1>t, <1>p, <1>f, <1>d, <2>1, EndClosingEffect, Names DEF Ownership, PoolOwners, Live
  <2>3. ServingOwns'
    BY <1>t, <1>p, <1>f, <2>1, EndClosingEffect, Names DEF Ownership, ServingOwns
  <2>4. QED
    BY <1>1, <2>1, <2>2, <2>3
<1>8. ASSUME EndJob(j) PROVE Ownership'
  <2>1. UNCHANGED <<pool, lifecycle, context, cancelled>> /\ jobAt'[j] = "done"
    BY <1>8, <1>t DEF EndJob, poolVars
  <2>2. \A p \in Pools : pool[p].owner = j => ~Live(p)
    BY <1>8 DEF EndJob, Drained, OwnedBy
  <2>3. permit' = permit \/ permit = j
    BY <1>8 DEF EndJob, GiveBack
  <2>4. PoolOwners'
    BY <1>p, <1>f, <1>d, <2>1, <2>2, <2>3, Names DEF Ownership, PoolOwners, Live
  <2>5. ServingOwns'
    BY <1>p, <1>f, <2>1 DEF Ownership, ServingOwns
  <2>6. QED
    BY <1>1, <2>1, <2>4, <2>5
<1>9. QED
  BY <1>3, <1>4, <1>5, <1>6, <1>7, <1>8 DEF SessionAsked, JobStep

\* Every step keeps the pools with one owner.
LEMMA OwnershipKept == IInv /\ Next => Ownership'
<1> SUFFICES ASSUME IInv, Next PROVE Ownership'
  OBVIOUS
<1>1. ASSUME UNCHANGED <<pool, lifecycle, context, jobAt, epochAt, phase>>,
             cancelled \subseteq cancelled', permit \in Ops => permit' = permit
      PROVE  Ownership'
  BY <1>1, OwnershipFrame
<1>2. ASSUME PlatformNext, UNCHANGED <<jobAt, resetVars>> PROVE Ownership'
  <2>1. UNCHANGED <<pool, lifecycle, context, epochAt, phase, permit>>
    BY <1>2 DEF PlatformNext, VisibilityStep, Report, HideForeground, HideNative, RequestSuspend,
                opVars, poolVars
  <2>2. cancelled \subseteq cancelled'
    BY <1>2 DEF PlatformNext, VisibilityStep, Report, HideForeground, HideNative, RequestSuspend,
                opVars, CancelForeground, CancelNative, Cancel
  <2>3. QED
    BY <1>1, <1>2, <2>1, <2>2
<1>3. ASSUME NEW o \in Ops, UNCHANGED <<fgVars, jobAt, resetVars>>,
             \/ \E p \in Pools : Borrow(o, p) \/ Return(o, p)
             \/ Expire(o) /\ UNCHANGED poolVars
      PROVE  Ownership'
  BY <1>1, <1>3 DEF Borrow, Return, Expire, Cancel, poolVars, fgVars
<1>4. ASSUME BeginReset \/ ResetStep PROVE Ownership'
  <2>1. UNCHANGED <<pool, lifecycle, context, jobAt, epochAt, phase>>
    BY <1>4 DEF BeginReset, ResetStep, LockTransition, HideAgain, WatchLastEpoch,
                LastEpochDrained, StopNative, CloseAdmission, poolVars, fgVars
  <2>2. cancelled \subseteq cancelled'
    BY <1>4 DEF BeginReset, ResetStep, LockTransition, HideAgain, WatchLastEpoch,
                LastEpochDrained, StopNative, CloseAdmission, opVars, CancelNative, Cancel
  <2>3. permit \in Ops => permit' = permit
    BY <1>4, Names DEF BeginReset, ResetStep, LockTransition, HideAgain, WatchLastEpoch,
                LastEpochDrained, StopNative, CloseAdmission, opVars
  <2>4. QED
    BY <1>1, <2>1, <2>2, <2>3
<1>5. QED
  BY <1>2, <1>3, <1>4, Steps, ActivationOwnership, EpochOwnership, JobOwnership

\* IInv holds at start and is kept by every step.
LEMMA InvInductive ==
  /\ Init => IInv
  /\ IInv /\ [Next]_vars => IInv'
<1>1. ASSUME Init PROVE IInv
  <2>1. TypeOK /\ AwaitsEpoch
    BY <1>1, InitTypes DEF Init, ForegroundInit, AwaitsEpoch
  <2>2. Serial
    BY <1>1 DEF Init, ForegroundInit, Serial, Activations, OneEpoch, ResetWaits, Known, Alive
  <2>3. Permits
    BY <1>1, Names DEF Init, OperationsInit, ForegroundInit, NativeInit, Permits, EpochPermits,
                       JobPermits
  <2>4. Ownership
    BY <1>1, Names DEF Init, PoolsInit, ForegroundInit, Ownership, PoolOwners, ServingOwns,
                       ReadyServes, Live
  <2>5. QED
    BY <2>1, <2>2, <2>3, <2>4 DEF IInv
<1>2. ASSUME IInv, [Next]_vars PROVE IInv'
  <2>1. TypeOK' /\ AwaitsEpoch'
    BY <1>2, StepTypes DEF IInv
  <2>2. CASE UNCHANGED vars
    <3>1. UNCHANGED <<phase, epochAt, attached, transition, actAt, actEpoch, resetAt, resetEpoch,
                      context, jobAt, leases, permit, checkouts, pool, lifecycle, cancelled>>
      BY <2>2 DEF vars, opVars, poolVars, fgVars, resetVars
    <3>2. Serial' /\ Permits' /\ Ownership'
      BY <1>2, <3>1, SerialFrame, PermitsFrame, OwnershipFrame DEF IInv
    <3>3. QED
      BY <2>1, <3>2 DEF IInv
  <2>3. CASE Next
    BY <1>2, <2>1, <2>3, SerialKept, PermitsKept, OwnershipKept DEF IInv
  <2>4. QED
    BY <1>2, <2>2, <2>3
<1>3. QED
  BY <1>1, <1>2

\* The inductive invariant holds in every reachable state.
LEMMA InvHolds == Spec => []IInv
BY InvInductive, PTL DEF Spec

-----------------------------------------------------------------------------

\* Pools that a native job opened are open under its permit only, so that
\* whoever gets the permit next finds none of them.
THEOREM NativeOwnership == Spec => []NativeOwnsUnderPermit
<1>1. IInv => NativeOwnsUnderPermit
  BY DEF IInv, Ownership, PoolOwners, NativeOwnsUnderPermit
<1>2. QED
  BY <1>1, InvHolds, PTL

\* An epoch that is reported as ready has both pools open for itself, also
\* while native jobs run and after it gave the permit back.
THEOREM ReadyMeansOwned == Spec => []ReadyOwnsPools
<1>1. IInv => ReadyOwnsPools
  BY DEF IInv, Ownership, ServingOwns, ReadyServes, ReadyOwnsPools, IsReady
<1>2. QED
  BY <1>1, InvHolds, PTL

\* Nothing of an epoch or job that is over is left: neither its lease nor the
\* permit, no connection and no open pool.
THEOREM OverMeansReleased == Spec => []ClosedIsReleased
<1>1. ASSUME IInv, NEW e \in Epochs, phase[e] \in {"closed", "failed"} PROVE Released(e)
  <2>1. ~Alive(e) /\ epochAt[e] = "none"
    BY <1>1 DEF IInv, Serial, OneEpoch, Alive
  <2>2. \A p \in Pools : pool[p].owner = e => ~Live(p)
    BY <1>1, <2>1 DEF IInv, Ownership, PoolOwners
  <2>3. QED
    BY <1>1, <2>1, <2>2 DEF IInv, Permits, EpochPermits, Released, Drained, OwnedBy
<1>2. ASSUME IInv, NEW j \in Jobs, jobAt[j] = "done" PROVE Released(j)
  <2>1. permit # j /\ checkouts[j] = {} /\ j \notin leases
    BY <1>2 DEF IInv, Permits, JobPermits
  <2>2. \A p \in Pools : pool[p].owner = j => ~Live(p)
    BY <1>2, <2>1 DEF IInv, Ownership, PoolOwners
  <2>3. QED
    BY <2>1, <2>2 DEF Released, Drained, OwnedBy
<1>3. IInv => ClosedIsReleased
  BY <1>1, <1>2 DEF ClosedIsReleased
<1>4. QED
  BY <1>3, InvHolds, PTL

-----------------------------------------------------------------------------
(* The refinement of DatabaseOwner *)

\* Pools that are open at the same time have the same owner.
LEMMA OneOwner ==
  ASSUME IInv, NEW p \in Pools, NEW q \in Pools, Live(p), Live(q)
  PROVE  pool[p].owner = pool[q].owner
<1>1. PoolOwners /\ Ops = Epochs \cup Jobs
  BY DEF IInv, Ownership, Ops
<1>2. pool[p].owner \in Ops /\ pool[q].owner \in Ops
  BY <1>1 DEF PoolOwners
<1>3. CASE pool[p].owner \in Jobs \/ pool[q].owner \in Jobs
  BY <1>1, <1>2, <1>3, Names DEF PoolOwners
<1>4. CASE pool[p].owner \in Epochs /\ pool[q].owner \in Epochs
  BY <1>1, <1>4 DEF PoolOwners, IInv, Serial, OneEpoch
<1>5. QED
  BY <1>1, <1>2, <1>3, <1>4

LEMMA OwnersIs ==
  ASSUME IInv, NEW p \in Pools, Live(p)
  PROVE  LiveOwners = {pool[p].owner}
BY OneOwner DEF LiveOwners

\* At start no pool is open.
LEMMA InitPromise == Init => Promise!Init
BY DEF Init, PoolsInit, Promise!Init, LiveOwners, Live

\* o opens pools that are closed, or has them open already, under the permit.
LEMMA Taken ==
  ASSUME IInv, NEW o \in Ops, permit = o, UNCHANGED resetAt,
         LiveOwners \subseteq {o}, LiveOwners' \subseteq {o}, LiveOwners \subseteq LiveOwners'
  PROVE  [Promise!Next]_Promise!vars
<1>1. resetAt # "done"
  BY Names DEF IInv, Permits
<1>2. CASE LiveOwners' = LiveOwners
  BY <1>2 DEF Promise!vars
<1>3. CASE LiveOwners' # LiveOwners
  <2>1. LiveOwners = {} /\ LiveOwners' = {o}
    BY <1>3
  <2>2. Promise!Take(o)
    BY <1>1, <2>1 DEF Promise!Take
  <2>3. QED
    BY <2>2 DEF Promise!Next
<1>4. QED
  BY <1>2, <1>3

\* The cleanup of o takes all open pools or none, as all have the same owner.
LEMMA Dropped ==
  ASSUME IInv, NEW o \in Ops, EndClosing(o), UNCHANGED resetAt
  PROVE  [Promise!Next]_Promise!vars
<1>1. \A p \in Pools : /\ pool'[p].owner = pool[p].owner
                       /\ Live(p)' <=> (Live(p) /\ pool[p].owner # o)
  BY EndClosingEffect DEF Live
<1>2. CASE \E p \in Pools : Live(p) /\ pool[p].owner = o
  <2>1. LiveOwners = {o}
    BY <1>2, OwnersIs
  <2>2. LiveOwners' = {}
    BY <1>1, <2>1 DEF LiveOwners
  <2>3. QED
    BY <2>2 DEF Promise!Next, Promise!Drop
<1>3. CASE ~\E p \in Pools : Live(p) /\ pool[p].owner = o
  BY <1>1, <1>3 DEF LiveOwners, Promise!vars
<1>4. QED
  BY <1>2, <1>3

\* o reopens pools under the permit: if another has any open, it has all.
LEMMA Reopening ==
  ASSUME IInv, NEW o \in Ops, permit = o, lifecycle = Nobody, UNCHANGED resetAt,
         NEW S, pool' = Reopened(o, S)
  PROVE  [Promise!Next]_Promise!vars
<1>1. \A p \in Pools : /\ Live(p) => pool'[p] = pool[p]
                       /\ pool'[p] = pool[p] \/ pool'[p] = [state |-> "open", owner |-> o]
  BY ReopenedEffect
<1>2. CASE \E p \in Pools : Live(p) /\ pool[p].owner # o
  <2>1. \A q \in Pools : Live(q)
    BY <1>2, Names DEF IInv, Ownership, PoolOwners, Ops
  <2>2. QED
    BY <1>1, <2>1 DEF LiveOwners, Live, Promise!vars
<1>3. CASE ~\E p \in Pools : Live(p) /\ pool[p].owner # o
  <2>1. LiveOwners \subseteq {o} /\ LiveOwners' \subseteq {o} /\ LiveOwners \subseteq LiveOwners'
    BY <1>1, <1>3 DEF LiveOwners, Live
  <2>2. QED
    BY <2>1, Taken
<1>4. QED
  BY <1>2, <1>3

\* The process goes through the steps of DatabaseOwner: an owner takes the pools
\* when they are closed, its cleanup closes them, and a reset ends it all.
LEMMA StepPromise == IInv /\ [Next]_vars => [Promise!Next]_Promise!vars
<1> SUFFICES ASSUME IInv, [Next]_vars PROVE [Promise!Next]_Promise!vars
  OBVIOUS
<1> USE DEF epochFrame, jobFrame, actFrame, EpochTo, JobTo
<1>1. ASSUME UNCHANGED pool, resetAt' = "done" <=> resetAt = "done"
      PROVE  [Promise!Next]_Promise!vars
  BY <1>1 DEF LiveOwners, Live, Promise!vars
<1>2. ASSUME NEW o \in Ops, BeginClosing(o), lifecycle = Nobody, UNCHANGED resetAt
      PROVE  [Promise!Next]_Promise!vars
  BY <1>2, BeginClosingEffect DEF LiveOwners, Promise!vars
<1>3. ASSUME NEW o \in Ops, NEW mode, Create(o, mode), permit = o, UNCHANGED resetAt
      PROVE  [Promise!Next]_Promise!vars
  <2>1. \A p \in Pools : ~Live(p)
    BY <1>3 DEF Create, IInv, Ownership, PoolOwners
  <2>2. LiveOwners = {} /\ LiveOwners' \subseteq {o}
    BY <1>3, <2>1 DEF Create, LiveOwners
  <2>3. QED
    BY <1>3, <2>2, Taken
<1>4. CASE UNCHANGED vars
  BY <1>1, <1>4 DEF vars, poolVars, resetVars
<1>5. ASSUME PlatformNext, UNCHANGED <<jobAt, resetVars>> PROVE [Promise!Next]_Promise!vars
  BY <1>1, <1>5 DEF PlatformNext, VisibilityStep, Report, HideForeground, HideNative,
                    RequestSuspend, poolVars, resetVars
<1>6. ASSUME NEW a \in Activators, Call(a) \/ ActivationStep(a), UNCHANGED <<jobAt, resetVars>>
      PROVE  [Promise!Next]_Promise!vars
  <2>1. ASSUME NEW e \in Epochs, OpenEpoch(a, e) PROVE [Promise!Next]_Promise!vars
    <3>1. epochAt[e] = "none"
      BY <2>1 DEF OpenEpoch, IInv, Serial, OneEpoch, Activations, NoneAlive
    <3>2. \A p \in Pools : /\ pool'[p].state = pool[p].state
                           /\ Live(p) => pool'[p].owner = pool[p].owner
      BY <2>1, <3>1 DEF OpenEpoch, OwnedBy, IInv, TypeOK, PoolsTypeOK, Ownership, PoolOwners
    <3>3. QED
      BY <1>6, <3>2 DEF LiveOwners, Live, Promise!vars, resetVars
  <2>2. ASSUME Call(a) \/ Enter(a) \/ Look(a) \/ MarkActive(a) \/ Choose(a) \/ Retire(a)
               \/ Attach(a) \/ CheckActive(a) \/ Await(a) \/ TryAgain(a)
        PROVE  [Promise!Next]_Promise!vars
    BY <1>1, <1>6, <2>2 DEF Call, Enter, Look, MarkActive, Choose, Retire, Attach, CheckActive,
                            Await, TryAgain, poolVars, resetVars
  <2>3. QED
    BY <1>6, <2>1, <2>2 DEF ActivationStep
<1>7. ASSUME NEW e \in Epochs, EpochStep(e), UNCHANGED <<jobAt, resetVars>>
      PROVE  [Promise!Next]_Promise!vars
  <2>r. UNCHANGED resetAt /\ e \in Ops
    BY <1>7, Names DEF resetVars
  <2>1. ASSUME Preempt(e) \/ AdmitEpoch(e) \/ Serve(e) \/ Stop(e) \/ CloseEpoch(e)
        PROVE  [Promise!Next]_Promise!vars
    BY <1>1, <2>1, <2>r DEF Preempt, AdmitEpoch, Serve, Stop, CloseEpoch, poolVars
  <2>2. ASSUME InitEpoch(e) PROVE [Promise!Next]_Promise!vars
    <3>1. permit = e
      BY <2>2 DEF InitEpoch, IInv, Permits, EpochPermits
    <3>2. QED
      BY <1>1, <1>3, <2>2, <2>r, <3>1 DEF InitEpoch, poolVars
  <2>3. ASSUME ClaimForFlutter(e) PROVE [Promise!Next]_Promise!vars
    <3>1. permit = e /\ lifecycle = Nobody /\ \A f \in Epochs : epochAt[f] # "none" => f = e
      BY <2>3 DEF ClaimForFlutter, IInv, Permits, EpochPermits, Serial, OneEpoch
    <3>2. CASE Adopt(e)
      <4>1. \A p \in Pools : Live(p) => pool[p].owner = e
        BY <3>1, Names DEF IInv, Ownership, PoolOwners, Ops
      <4>2. LiveOwners \subseteq {e}
        BY <4>1 DEF LiveOwners
      <4>3. LiveOwners' \subseteq {e} /\ LiveOwners \subseteq LiveOwners'
        BY <3>2, <4>1 DEF Adopt, LiveOwners, Live
      <4>4. QED
        BY <2>r, <3>1, <4>2, <4>3, Taken
    <3>3. CASE ReopenFails(e)
      BY <2>r, <3>1, <3>3, Reopening DEF ReopenFails
    <3>4. QED
      BY <2>3, <3>2, <3>3 DEF ClaimForFlutter
  <2>4. ASSUME FinishForeground(e) PROVE [Promise!Next]_Promise!vars
    BY <1>1, <1>2, <2>4, <2>r DEF FinishForeground
  <2>5. ASSUME PoolsRetired(e) PROVE [Promise!Next]_Promise!vars
    BY <2>5, <2>r, Dropped DEF PoolsRetired
  <2>6. QED
    BY <1>7, <2>1, <2>2, <2>3, <2>4, <2>5 DEF EpochStep
<1>8. ASSUME NEW j \in Jobs, CreateJob(j) \/ DropRun(j) \/ SessionAsked(j) \/ JobStep(j),
             UNCHANGED resetVars
      PROVE  [Promise!Next]_Promise!vars
  <2>r. UNCHANGED resetAt /\ j \in Ops
    BY <1>8, Names DEF resetVars
  <2>1. ASSUME CreateJob(j) \/ DropRun(j) \/ StartRun(j) \/ AdmitJob(j) \/ SeeHidden(j) \/ WatchEpoch(j)
               \/ EpochDrained(j) \/ SharePools(j) \/ TurnMissed(j) \/ StopJob(j) \/ EndJob(j)
        PROVE  [Promise!Next]_Promise!vars
    BY <1>1, <2>1, <2>r DEF CreateJob, DropRun, StartRun, AdmitJob, SeeHidden, WatchEpoch, EpochDrained,
                            SharePools, TurnMissed, StopJob, EndJob, poolVars
  <2>2. ASSUME InitJob(j) PROVE [Promise!Next]_Promise!vars
    <3>1. permit = j
      BY <2>2 DEF InitJob, IInv, Permits, JobPermits
    <3>2. QED
      BY <1>1, <1>3, <2>2, <2>r, <3>1 DEF InitJob, poolVars
  <2>3. ASSUME TakePools(j) PROVE [Promise!Next]_Promise!vars
    <3>1. permit = j /\ lifecycle = Nobody
      BY <2>3 DEF TakePools, IInv, Permits, JobPermits
    <3>2. \E S : pool' = Reopened(j, S)
      BY <2>3 DEF TakePools, ReopenFails
    <3>3. QED
      BY <2>r, <3>1, <3>2, Reopening
  <2>4. ASSUME FinishNative(j) PROVE [Promise!Next]_Promise!vars
    BY <1>1, <1>2, <2>4, <2>r DEF FinishNative
  <2>5. ASSUME NativeClosed(j) PROVE [Promise!Next]_Promise!vars
    BY <2>5, <2>r, Dropped DEF NativeClosed
  <2>6. QED
    BY <1>8, <2>1, <2>2, <2>3, <2>4, <2>5 DEF SessionAsked, JobStep
<1>9. ASSUME NEW o \in Ops, UNCHANGED <<fgVars, jobAt, resetVars>>,
             \/ \E p \in Pools : Borrow(o, p) \/ Return(o, p)
             \/ Expire(o) /\ UNCHANGED poolVars
      PROVE  [Promise!Next]_Promise!vars
  BY <1>1, <1>9 DEF Borrow, Return, poolVars, resetVars
<1>10. ASSUME BeginReset \/ ResetStep PROVE [Promise!Next]_Promise!vars
  <2>1. CASE CloseAdmission
    <3>1. NoneAlive /\ permit = "free" /\ UNCHANGED pool
      BY <2>1 DEF CloseAdmission, poolVars, IInv, Serial, ResetWaits
    <3>2. \A p \in Pools : ~Live(p)
      BY <3>1, Names DEF IInv, Ownership, PoolOwners, Serial, OneEpoch, NoneAlive, Ops
    <3>3. LiveOwners = {} /\ LiveOwners' = {}
      BY <3>1, <3>2 DEF LiveOwners, Live
    <3>4. resetAt' = "done"
      BY <2>1 DEF CloseAdmission, ResetTo
    <3>5. QED
      BY <3>3, <3>4 DEF Promise!Next, Promise!End
  <2>2. CASE ~CloseAdmission
    BY <1>1, <1>10, <2>2
       DEF BeginReset, ResetStep, ResetTo, LockTransition, HideAgain, WatchLastEpoch,
           LastEpochDrained, StopNative, poolVars
  <2>3. QED
    BY <2>1, <2>2
<1>11. QED
  BY <1>4, <1>5, <1>6, <1>7, <1>8, <1>9, <1>10, Steps

\* The databases are open for one operation at a time, closed between two of
\* them, and stay closed after a reset.
THEOREM PromiseKept == Spec => KeepsPromise
<1>1. Spec => Promise!Init
  BY InitPromise, PTL DEF Spec
<1>2. Spec => [][Promise!Next]_Promise!vars
  BY InvHolds, StepPromise, PTL DEF Spec
<1>3. QED
  BY <1>1, <1>2, PTL DEF KeepsPromise, Promise!Spec

=============================================================================

------------------------------ MODULE DbTypes ------------------------------
(***************************************************************************)
(* Type correctness of DbLifecycle, for any number of epochs, jobs, pools, *)
(* callers, reports, with or without a reset.                              *)
(***************************************************************************)
EXTENDS DbLifecycle, TLAPS

\* An activation past its choice has an epoch to wait for.
AwaitsEpoch ==
    \A a \in Activators :
        actAt[a] \in {"retire", "attach", "check", "await", "closing"} => actEpoch[a] \in Epochs

\* At start no operation exists and the pools are closed.
LEMMA InitTypes == Init => TypeOK
<1> SUFFICES ASSUME Init PROVE TypeOK
  OBVIOUS
<1> USE ForegroundAssumption DEF Init
<1>1. OperationsTypeOK
  BY DEF OperationsInit, OperationsTypeOK
<1>2. PoolsTypeOK
  BY DEF PoolsInit, PoolsTypeOK
<1>3. ForegroundTypeOK
  <2>1. active \in BOOLEAN /\ resetting \in BOOLEAN /\ shown \in BOOLEAN
    BY DEF ForegroundInit
  <2>2. reports \in 0..MaxReports
    BY DEF ForegroundInit, ForegroundAssumption
  <2>3. QED
    BY <2>1, <2>2 DEF ForegroundInit, ForegroundTypeOK
<1>4. NativeTypeOK
  BY DEF NativeInit, NativeTypeOK
<1>5. ResetTypeOK
  BY DEF ResetTypeOK
<1>6. QED
  BY <1>1, <1>2, <1>3, <1>4, <1>5 DEF TypeOK

-----------------------------------------------------------------------------

\* The effects on the pools that several actions share.
LEMMA PoolTypes ==
  ASSUME PoolsTypeOK, NEW o \in Ops
  PROVE  /\ \A S : Reopened(o, S) \in [Pools -> [state : {"open", "closing", "closed"},
                                                 owner : Ops \cup {Nobody}]]
         /\ ReopenFails(o) => pool' \in [Pools -> [state : {"open", "closing", "closed"},
                                                   owner : Ops \cup {Nobody}]]
         /\ BeginClosing(o) \/ EndClosing(o) =>
                /\ lifecycle' \in Ops \cup {Nobody}
                /\ pool' \in [Pools -> [state : {"open", "closing", "closed"},
                                        owner : Ops \cup {Nobody}]]
         /\ EndClosing(o) => nativeDatabases' \in BOOLEAN
<1> DEFINE T == [Pools -> [state : {"open", "closing", "closed"}, owner : Ops \cup {Nobody}]]
<1>1. ASSUME NEW S PROVE Reopened(o, S) \in T
  BY DEF Reopened, PoolsTypeOK
<1>2. ASSUME BeginClosing(o) PROVE lifecycle' \in Ops \cup {Nobody} /\ pool' \in T
  BY <1>2 DEF BeginClosing, PoolsTypeOK
<1>3. ASSUME EndClosing(o) PROVE lifecycle' \in Ops \cup {Nobody} /\ pool' \in T
  BY <1>3 DEF EndClosing, PoolsTypeOK
<1>4. ASSUME EndClosing(o) PROVE nativeDatabases' \in BOOLEAN
  BY <1>4 DEF EndClosing
<1>5. QED
  BY <1>1, <1>2, <1>3, <1>4 DEF ReopenFails

\* Creating the context opens the pools for its creator.
LEMMA CreateTypes ==
  ASSUME NEW o \in Ops, NEW mode \in {"Flutter", "Notification"},
         OperationsTypeOK, PoolsTypeOK, Create(o, mode)
  PROVE  OperationsTypeOK' /\ PoolsTypeOK'
<1>1. OperationsTypeOK'
  BY DEF Create, opVars, OperationsTypeOK
<1>2. /\ context' \in {"none", "Flutter", "Notification"}
      /\ lifecycle' \in Ops \cup {Nobody}
      /\ pool' \in [Pools -> [state : {"open", "closing", "closed"}, owner : Ops \cup {Nobody}]]
  BY DEF Create, PoolsTypeOK
<1>3. claimed' \in BOOLEAN /\ suspended' \in BOOLEAN /\ nativeDatabases' \in BOOLEAN
  BY DEF Create
<1>4. QED
  BY <1>1, <1>2, <1>3 DEF PoolsTypeOK

-----------------------------------------------------------------------------

\* The thread that stores a visibility.
LEMMA StoreTypes ==
  ASSUME ForegroundTypeOK, NEW t \in Threads, NEW visible \in BOOLEAN, StoreVisible(t, visible)
  PROVE  active' \in BOOLEAN
         /\ hiding' \in [Threads -> {"idle", "foreground", "native", "suspend"}]
<1>1. active' \in BOOLEAN
  BY DEF StoreVisible
<1>2. hiding' \in [Threads -> {"idle", "foreground", "native", "suspend"}]
  <2>1. (IF visible /\ ~resetting THEN "idle" ELSE "foreground") \in {"idle", "foreground"}
    BY Zenon
  <2>2. QED
    BY <2>1 DEF StoreVisible, ForegroundTypeOK
<1>3. QED
  BY <1>1, <1>2

\* Reports of the platform and what follows a hidden app.
LEMMA PlatformTypes == TypeOK /\ PlatformNext /\ UNCHANGED <<jobAt, resetVars>> => TypeOK'
<1> SUFFICES ASSUME TypeOK, PlatformNext, UNCHANGED <<jobAt, resetVars>> PROVE TypeOK'
  OBVIOUS
<1> USE DEF TypeOK, resetVars, opVars, poolVars
<1>0. NativeTypeOK' /\ ResetTypeOK'
  BY DEF NativeTypeOK, ResetTypeOK
<1>1. ASSUME NEW visible \in BOOLEAN, Report(visible) PROVE TypeOK'
  <2>1. OperationsTypeOK' /\ PoolsTypeOK'
    BY <1>1 DEF Report, OperationsTypeOK, PoolsTypeOK
  <2>2. /\ active' \in BOOLEAN
        /\ hiding' \in [Threads -> {"idle", "foreground", "native", "suspend"}]
    BY <1>1, StoreTypes DEF Report, Threads
  <2>3. shown' \in BOOLEAN /\ resetting' \in BOOLEAN
    BY <1>1 DEF Report, ForegroundTypeOK
  <2>4. reports' \in 0..MaxReports
    BY <1>1, ForegroundAssumption DEF Report, ForegroundTypeOK, ForegroundAssumption
  <2>5. actAt' \in [Activators -> {"idle", "lock", "look", "seen", "choose", "retire",
                                   "register", "attach", "check", "await", "closing"}]
    BY <1>1 DEF Report, ForegroundTypeOK
  <2>6. QED
    BY <1>0, <1>1, <2>1, <2>2, <2>3, <2>4, <2>5 DEF Report, ForegroundTypeOK
<1>2. ASSUME NEW t \in Threads, HideForeground(t) \/ HideNative(t) \/ RequestSuspend(t) PROVE TypeOK'
  <2>1. OperationsTypeOK'
    BY <1>2 DEF HideForeground, HideNative, RequestSuspend, OperationsTypeOK, CancelForeground,
                CancelNative, Cancel, Ops, KnownEpoch, ForegroundTypeOK
  <2>2. PoolsTypeOK'
    BY <1>2 DEF HideForeground, HideNative, RequestSuspend, PoolsTypeOK
  <2>3. ForegroundTypeOK'
    BY <1>2 DEF HideForeground, HideNative, RequestSuspend, ForegroundTypeOK
  <2>4. QED
    BY <1>0, <2>1, <2>2, <2>3
<1>3. QED
  BY <1>1, <1>2 DEF PlatformNext, VisibilityStep

\* A call to activate.
LEMMA ActivationTypes ==
  ASSUME TypeOK, AwaitsEpoch, NEW a \in Activators, Call(a) \/ ActivationStep(a), UNCHANGED <<jobAt, resetVars>>
  PROVE  TypeOK' /\ AwaitsEpoch'
<1> USE DEF TypeOK, resetVars, opVars, actFrame
<1>0. NativeTypeOK' /\ ResetTypeOK'
  BY DEF NativeTypeOK, ResetTypeOK
<1>1. ASSUME Call(a) \/ Enter(a) \/ Look(a) \/ Attach(a) \/ Retire(a) \/ Await(a) \/ TryAgain(a)
      PROVE  TypeOK'
  <2>1. OperationsTypeOK' /\ PoolsTypeOK'
    BY <1>1 DEF Call, Enter, Look, Attach, Retire, Await, TryAgain, OperationsTypeOK, PoolsTypeOK,
                poolVars
  <2>2. ASSUME Call(a) \/ Enter(a) \/ Look(a) PROVE ForegroundTypeOK'
    BY <2>2 DEF Call, Enter, Look, Goto, Leave, ForegroundTypeOK
  <2>3. ASSUME Attach(a) \/ Retire(a) PROVE ForegroundTypeOK'
    BY <2>3 DEF Attach, Retire, Goto, Leave, ForegroundTypeOK
  <2>4. ASSUME Await(a) \/ TryAgain(a) PROVE ForegroundTypeOK'
    BY <2>4 DEF Await, TryAgain, Goto, Leave, ForegroundTypeOK
  <2>5. QED
    BY <1>0, <1>1, <2>1, <2>2, <2>3, <2>4
<1>2. ASSUME MarkActive(a) PROVE TypeOK'
  <2>1. active' \in BOOLEAN
    BY <1>2 DEF MarkActive
  <2>2. QED
    BY <1>0, <1>2, <2>1 DEF MarkActive, OperationsTypeOK, PoolsTypeOK, poolVars, ForegroundTypeOK,
                            Goto
<1>3. ASSUME Choose(a) PROVE TypeOK'
  <2>1. OperationsTypeOK' /\ PoolsTypeOK'
    BY <1>3 DEF Choose, OperationsTypeOK, PoolsTypeOK, poolVars, Cancel, Ops, KnownEpoch,
                ForegroundTypeOK
  <2>2. actEpoch' \in [Activators -> Epochs \cup {Nobody}]
    BY <1>3 DEF Choose, ForegroundTypeOK, KnownEpoch
  <2>3. /\ transition' \in Activators \cup {"reset", Nobody}
        /\ actAt' \in [Activators -> {"idle", "lock", "look", "seen", "choose", "retire",
                                       "register", "attach", "check", "await", "closing"}]
    BY <1>3 DEF Choose, Goto, Leave, ForegroundTypeOK
  <2>4. QED
    BY <1>0, <1>3, <2>1, <2>2, <2>3 DEF Choose, ForegroundTypeOK
<1>4. ASSUME NEW e \in Epochs, OpenEpoch(a, e) PROVE TypeOK'
  <2>1. OperationsTypeOK'
    BY <1>4 DEF OpenEpoch, OperationsTypeOK, Register, Ops
  <2>2. PoolsTypeOK'
    BY <1>4 DEF OpenEpoch, PoolsTypeOK
  <2>3. ForegroundTypeOK'
    BY <1>4 DEF OpenEpoch, ForegroundTypeOK, Goto
  <2>4. QED
    BY <1>0, <2>1, <2>2, <2>3
<1>5. ASSUME CheckActive(a) PROVE TypeOK'
  <2>1. OperationsTypeOK' /\ PoolsTypeOK'
    BY <1>5 DEF CheckActive, OperationsTypeOK, PoolsTypeOK, poolVars, Cancel, Ops, AwaitsEpoch
  <2>2. ForegroundTypeOK'
    BY <1>5 DEF CheckActive, Goto, ForegroundTypeOK
  <2>3. QED
    BY <1>0, <2>1, <2>2
<1>6. AwaitsEpoch'
  <2>1. ASSUME Call(a) \/ Enter(a) \/ Look(a) \/ MarkActive(a) \/ Attach(a) \/ CheckActive(a)
        PROVE  AwaitsEpoch'
    BY <2>1 DEF AwaitsEpoch, ForegroundTypeOK, Call, Enter, Look, MarkActive, Attach, CheckActive,
                Goto, Leave
  <2>2. ASSUME Choose(a) PROVE AwaitsEpoch'
    <3>1. \A b \in Activators \ {a} : actAt'[b] = actAt[b] /\ actEpoch'[b] = actEpoch[b]
      BY <2>2 DEF Choose, Goto, Leave, ForegroundTypeOK
    <3>2. actAt'[a] \in {"register", "idle"} \/ actEpoch'[a] \in Epochs
      BY <2>2 DEF Choose, Goto, Leave, ForegroundTypeOK, KnownEpoch
    <3>3. QED
      BY <3>1, <3>2 DEF AwaitsEpoch
  <2>3. ASSUME Retire(a) \/ Await(a) \/ TryAgain(a) PROVE AwaitsEpoch'
    BY <2>3 DEF AwaitsEpoch, ForegroundTypeOK, Retire, Await, TryAgain, Goto, Leave
  <2>4. ASSUME NEW e \in Epochs, OpenEpoch(a, e) PROVE AwaitsEpoch'
    BY <2>4 DEF AwaitsEpoch, ForegroundTypeOK, OpenEpoch, Goto
  <2>5. QED
    BY <2>1, <2>2, <2>3, <2>4 DEF ActivationStep
<1>7. QED
  BY <1>1, <1>2, <1>3, <1>4, <1>5, <1>6 DEF ActivationStep

\* The owner task of an epoch.
LEMMA EpochTypes ==
  ASSUME TypeOK, NEW e \in Epochs, EpochStep(e), UNCHANGED <<jobAt, resetVars>>
  PROVE  TypeOK' /\ UNCHANGED <<actAt, actEpoch>>
<1> USE DEF TypeOK, resetVars, opVars, epochFrame, EpochTo
<1> DEFINE EpochAt == {"none", "admission", "waiting", "init", "claim", "opened", "failed",
                       "serving", "stopping", "finish", "closing", "drain"}
<1>0. e \in Ops /\ NativeTypeOK' /\ ResetTypeOK'
  BY DEF Ops, NativeTypeOK, ResetTypeOK
<1>1. ASSUME Preempt(e) \/ AdmitEpoch(e) PROVE TypeOK' /\ UNCHANGED <<actAt, actEpoch>>
  <2>1. OperationsTypeOK'
    BY <1>0, <1>1 DEF Preempt, AdmitEpoch, Admit, CancelNative, Cancel, OperationsTypeOK
  <2>2. PoolsTypeOK' /\ ForegroundTypeOK'
    BY <1>1 DEF Preempt, AdmitEpoch, PoolsTypeOK, ForegroundTypeOK, poolVars
  <2>3. QED
    BY <1>0, <1>1, <2>1, <2>2 DEF Preempt, AdmitEpoch
<1>2. ASSUME InitEpoch(e) PROVE TypeOK' /\ UNCHANGED <<actAt, actEpoch>>
  <2>1. OperationsTypeOK' /\ PoolsTypeOK'
    <3>1. CASE Create(e, "Flutter")
      BY <1>0, <3>1, CreateTypes
    <3>2. CASE UNCHANGED <<opVars, poolVars>>
      BY <3>2 DEF OperationsTypeOK, PoolsTypeOK, poolVars
    <3>3. QED
      BY <1>2, <3>1, <3>2 DEF InitEpoch
  <2>2. ForegroundTypeOK' /\ UNCHANGED <<actAt, actEpoch>>
    BY <1>2 DEF InitEpoch, ForegroundTypeOK
  <2>3. QED
    BY <1>0, <2>1, <2>2
<1>3. ASSUME ClaimForFlutter(e) PROVE TypeOK' /\ UNCHANGED <<actAt, actEpoch>>
  <2>1. PoolsTypeOK'
    <3>1. CASE Adopt(e)
      <4>1. suspended' \in BOOLEAN /\ nativeDatabases' \in BOOLEAN /\ claimed' \in BOOLEAN
        BY <3>1 DEF Adopt
      <4>2. QED
        BY <1>0, <1>3, <3>1, <4>1 DEF Adopt, ClaimForFlutter, PoolsTypeOK
    <3>2. CASE ReopenFails(e) /\ UNCHANGED <<claimed, suspended, nativeDatabases>>
      BY <1>0, <1>3, <3>2, PoolTypes DEF ClaimForFlutter, PoolsTypeOK
    <3>3. QED
      BY <1>3, <3>1, <3>2 DEF ClaimForFlutter
  <2>2. ForegroundTypeOK' /\ OperationsTypeOK' /\ UNCHANGED <<actAt, actEpoch>>
    BY <1>3 DEF ClaimForFlutter, ForegroundTypeOK, OperationsTypeOK
  <2>3. QED
    BY <1>0, <2>1, <2>2
<1>4. ASSUME Serve(e) \/ Stop(e) PROVE TypeOK' /\ UNCHANGED <<actAt, actEpoch>>
  <2>1. OperationsTypeOK' /\ PoolsTypeOK'
    BY <1>0, <1>4 DEF Serve, Stop, GiveBack, Cancel, OperationsTypeOK, PoolsTypeOK, poolVars
  <2>2. ForegroundTypeOK' /\ UNCHANGED <<actAt, actEpoch>>
    BY <1>4 DEF Serve, Stop, ForegroundTypeOK
  <2>3. QED
    BY <1>0, <2>1, <2>2
<1>5. ASSUME FinishForeground(e) \/ PoolsRetired(e) PROVE TypeOK' /\ UNCHANGED <<actAt, actEpoch>>
  <2>1. OperationsTypeOK' /\ ForegroundTypeOK' /\ UNCHANGED <<actAt, actEpoch>>
    BY <1>5 DEF FinishForeground, PoolsRetired, OperationsTypeOK, ForegroundTypeOK
  <2>2. ASSUME FinishForeground(e) PROVE PoolsTypeOK'
    <3>1. suspended' \in BOOLEAN
      BY <2>2 DEF FinishForeground, PoolsTypeOK
    <3>2. QED
      BY <1>0, <2>2, <3>1, PoolTypes DEF FinishForeground, PoolsTypeOK
  <2>3. ASSUME PoolsRetired(e) PROVE PoolsTypeOK'
    BY <1>0, <2>3, PoolTypes DEF PoolsRetired, PoolsTypeOK
  <2>4. QED
    BY <1>0, <1>5, <2>1, <2>2, <2>3
<1>6. ASSUME CloseEpoch(e) PROVE TypeOK' /\ UNCHANGED <<actAt, actEpoch>>
  <2>1. OperationsTypeOK' /\ PoolsTypeOK'
    BY <1>6 DEF CloseEpoch, Deregister, GiveBack, OperationsTypeOK, PoolsTypeOK, poolVars
  <2>2. ForegroundTypeOK' /\ UNCHANGED <<actAt, actEpoch>>
    BY <1>6 DEF CloseEpoch, ForegroundTypeOK
  <2>3. QED
    BY <1>0, <2>1, <2>2
<1>7. QED
  BY <1>1, <1>2, <1>3, <1>4, <1>5, <1>6 DEF EpochStep

\* A native job.
LEMMA JobTypes ==
  ASSUME TypeOK, NEW j \in Jobs,
         CreateJob(j) \/ DropRun(j) \/ SessionAsked(j) \/ JobStep(j), UNCHANGED resetVars
  PROVE  TypeOK' /\ UNCHANGED <<actAt, actEpoch>>
<1> USE DEF TypeOK, resetVars, opVars, jobFrame, JobTo
<1>0. j \in Ops /\ ResetTypeOK'
  BY DEF Ops, ResetTypeOK
<1>1. ASSUME CreateJob(j) \/ DropRun(j) \/ StartRun(j) \/ AdmitJob(j) \/ StopJob(j) \/ EndJob(j)
      PROVE  TypeOK' /\ UNCHANGED <<actAt, actEpoch>>
  <2>1. PoolsTypeOK' /\ ForegroundTypeOK' /\ UNCHANGED <<actAt, actEpoch>>
    BY <1>1 DEF CreateJob, DropRun, StartRun, AdmitJob, StopJob, EndJob, PoolsTypeOK,
                ForegroundTypeOK, poolVars
  <2>2. OperationsTypeOK'
    BY <1>0, <1>1 DEF CreateJob, DropRun, StartRun, AdmitJob, StopJob, EndJob, OperationsTypeOK,
                      Register, Deregister, Admit, Cancel, GiveBack
  <2>3. NativeTypeOK'
    BY <1>1 DEF CreateJob, DropRun, StartRun, AdmitJob, StopJob, EndJob, NativeTypeOK
  <2>4. QED
    BY <1>0, <2>1, <2>2, <2>3
<1>2. ASSUME InitJob(j) PROVE TypeOK' /\ UNCHANGED <<actAt, actEpoch>>
  <2>1. OperationsTypeOK' /\ PoolsTypeOK'
    <3>1. CASE Create(j, "Notification")
      BY <1>0, <3>1, CreateTypes
    <3>2. CASE UNCHANGED <<opVars, poolVars>>
      BY <3>2 DEF OperationsTypeOK, PoolsTypeOK, poolVars
    <3>3. QED
      BY <1>2, <3>1, <3>2 DEF InitJob
  <2>2. ForegroundTypeOK' /\ NativeTypeOK' /\ UNCHANGED <<actAt, actEpoch>>
    BY <1>2 DEF InitJob, ForegroundTypeOK, NativeTypeOK
  <2>3. QED
    BY <1>0, <2>1, <2>2
<1>3. ASSUME SeeHidden(j) \/ WatchEpoch(j) \/ EpochDrained(j) \/ SharePools(j) \/ TurnMissed(j)
      PROVE  TypeOK' /\ UNCHANGED <<actAt, actEpoch>>
  <2>1. OperationsTypeOK' /\ PoolsTypeOK' /\ UNCHANGED <<actAt, actEpoch>>
    BY <1>3 DEF SeeHidden, WatchEpoch, EpochDrained, SharePools, TurnMissed, OperationsTypeOK, PoolsTypeOK,
                poolVars
  <2>2. NativeTypeOK'
    BY <1>3 DEF SeeHidden, WatchEpoch, EpochDrained, SharePools, TurnMissed, NativeTypeOK
  <2>3. ForegroundTypeOK'
    BY <1>3 DEF SeeHidden, WatchEpoch, EpochDrained, SharePools, TurnMissed, ForegroundTypeOK
  <2>4. QED
    BY <1>0, <2>1, <2>2, <2>3
<1>4. ASSUME TakePools(j) PROVE TypeOK' /\ UNCHANGED <<actAt, actEpoch>>
  <2>1. nativeDatabases' \in BOOLEAN
    BY <1>4 DEF TakePools
  <2>2. pool' \in [Pools -> [state : {"open", "closing", "closed"}, owner : Ops \cup {Nobody}]]
    BY <1>0, <1>4, PoolTypes DEF TakePools
  <2>3. OperationsTypeOK' /\ PoolsTypeOK' /\ ForegroundTypeOK' /\ UNCHANGED <<actAt, actEpoch>>
    BY <1>4, <2>1, <2>2 DEF TakePools, OperationsTypeOK, PoolsTypeOK, ForegroundTypeOK
  <2>4. NativeTypeOK'
    BY <1>4 DEF TakePools, NativeTypeOK
  <2>5. QED
    BY <1>0, <2>3, <2>4
<1>5. ASSUME FinishNative(j) \/ NativeClosed(j) PROVE TypeOK' /\ UNCHANGED <<actAt, actEpoch>>
  <2>1. OperationsTypeOK' /\ ForegroundTypeOK' /\ NativeTypeOK' /\ UNCHANGED <<actAt, actEpoch>>
    BY <1>5 DEF FinishNative, NativeClosed, OperationsTypeOK, ForegroundTypeOK, NativeTypeOK
  <2>2. PoolsTypeOK'
    BY <1>0, <1>5, PoolTypes DEF FinishNative, NativeClosed, PoolsTypeOK
  <2>3. QED
    BY <1>0, <2>1, <2>2
<1>6. QED
  BY <1>1, <1>2, <1>3, <1>4, <1>5 DEF JobStep, SessionAsked

\* Work takes connections and gives them back; a job may be cancelled.
LEMMA WorkTypes ==
  ASSUME TypeOK, UNCHANGED <<fgVars, jobAt, resetVars>>, NEW o \in Ops,
         \/ \E p \in Pools : Borrow(o, p) \/ Return(o, p)
         \/ Expire(o) /\ UNCHANGED poolVars
  PROVE  TypeOK' /\ UNCHANGED <<actAt, actEpoch>>
<1>1. OperationsTypeOK'
  BY DEF TypeOK, OperationsTypeOK, Borrow, Return, Expire, Cancel
<1>2. PoolsTypeOK'
  BY DEF TypeOK, PoolsTypeOK, poolVars, Borrow, Return
<1>3. ForegroundTypeOK' /\ NativeTypeOK' /\ ResetTypeOK' /\ UNCHANGED <<actAt, actEpoch>>
  BY DEF TypeOK, ForegroundTypeOK, fgVars, NativeTypeOK, ResetTypeOK, resetVars
<1>4. QED
  BY <1>1, <1>2, <1>3 DEF TypeOK

\* A reset of the account.
LEMMA ResetTypes == TypeOK /\ (BeginReset \/ ResetStep) => TypeOK' /\ UNCHANGED <<actAt, actEpoch>>
<1> SUFFICES ASSUME TypeOK, BeginReset \/ ResetStep PROVE TypeOK' /\ UNCHANGED <<actAt, actEpoch>>
  OBVIOUS
<1> USE DEF TypeOK, opVars, poolVars, fgVars, ResetTo
<1>1. ASSUME BeginReset \/ HideAgain PROVE TypeOK' /\ UNCHANGED <<actAt, actEpoch>>
  <2>1. /\ active' \in BOOLEAN
        /\ hiding' \in [Threads -> {"idle", "foreground", "native", "suspend"}]
    BY <1>1, StoreTypes DEF BeginReset, HideAgain, Threads
  <2>2. resetting' \in BOOLEAN
    BY <1>1 DEF BeginReset, HideAgain, ForegroundTypeOK
  <2>3. ForegroundTypeOK' /\ UNCHANGED <<actAt, actEpoch>>
    BY <1>1, <2>1, <2>2 DEF BeginReset, HideAgain, ForegroundTypeOK
  <2>4. OperationsTypeOK' /\ PoolsTypeOK' /\ NativeTypeOK' /\ ResetTypeOK'
    BY <1>1 DEF BeginReset, HideAgain, OperationsTypeOK, PoolsTypeOK, NativeTypeOK, ResetTypeOK
  <2>5. QED
    BY <2>3, <2>4
<1>2. ASSUME LockTransition \/ WatchLastEpoch \/ LastEpochDrained \/ StopNative \/ CloseAdmission
      PROVE  TypeOK' /\ UNCHANGED <<actAt, actEpoch>>
  <2>1. ForegroundTypeOK' /\ UNCHANGED <<actAt, actEpoch>>
    BY <1>2 DEF LockTransition, WatchLastEpoch, LastEpochDrained, StopNative, CloseAdmission,
                ForegroundTypeOK
  <2>2. OperationsTypeOK'
    BY <1>2 DEF LockTransition, WatchLastEpoch, LastEpochDrained, StopNative, CloseAdmission,
                OperationsTypeOK, CancelNative, Cancel
  <2>3. PoolsTypeOK' /\ NativeTypeOK' /\ ResetTypeOK'
    BY <1>2 DEF LockTransition, WatchLastEpoch, LastEpochDrained, StopNative, CloseAdmission,
                PoolsTypeOK, NativeTypeOK, ResetTypeOK, ForegroundTypeOK
  <2>4. QED
    BY <2>1, <2>2, <2>3
<1>3. QED
  BY <1>1, <1>2 DEF ResetStep

-----------------------------------------------------------------------------

\* The actors of a step.  Only an epoch that serves and a job that works borrow
\* connections.
Works(o) == (o \in Epochs /\ epochAt[o] = "serving") \/ (o \in Jobs /\ jobAt[o] = "working")

LEMMA Steps ==
  ASSUME Next
  PROVE  \/ PlatformNext /\ UNCHANGED <<jobAt, resetVars>>
         \/ \E a \in Activators : (Call(a) \/ ActivationStep(a)) /\ UNCHANGED <<jobAt, resetVars>>
         \/ \E e \in Epochs : EpochStep(e) /\ UNCHANGED <<jobAt, resetVars>>
         \/ \E j \in Jobs :
               /\ CreateJob(j) \/ DropRun(j) \/ SessionAsked(j) \/ JobStep(j)
               /\ UNCHANGED resetVars
         \/ \E o \in Ops :
               /\ \/ \E p \in Pools : (Works(o) /\ Borrow(o, p)) \/ Return(o, p)
                  \/ Expire(o) /\ UNCHANGED poolVars
               /\ UNCHANGED <<fgVars, jobAt, resetVars>>
         \/ BeginReset \/ ResetStep
<1>1. ASSUME EpochWork /\ UNCHANGED fgVars, UNCHANGED <<jobAt, resetVars>>
      PROVE  \E o \in Ops, p \in Pools :
                Works(o) /\ Borrow(o, p) /\ UNCHANGED <<fgVars, jobAt, resetVars>>
  BY <1>1 DEF EpochWork, Ops, Works
<1>2. ASSUME JobWork, UNCHANGED resetVars
      PROVE  \E o \in Ops, p \in Pools :
                Works(o) /\ Borrow(o, p) /\ UNCHANGED <<fgVars, jobAt, resetVars>>
  BY <1>2 DEF JobWork, Ops, Works
<1>3. Jobs \subseteq Ops
  BY DEF Ops
<1>4. QED
  BY <1>1, <1>2, <1>3 DEF Next, AppNext, NativeNext, WorkEnds

\* The functions the epochs and activations are described by.
LEMMA Domains ==
  ASSUME TypeOK
  PROVE  /\ DOMAIN actAt = Activators /\ actAt = [a \in Activators |-> actAt[a]]
         /\ DOMAIN phase = Epochs /\ phase = [e \in Epochs |-> phase[e]]
         /\ DOMAIN epochAt = Epochs /\ epochAt = [e \in Epochs |-> epochAt[e]]
         /\ actEpoch \in [Activators -> Epochs \cup {Nobody}]
         /\ attached \in Epochs \cup {Nobody}
         /\ Nobody \notin Ops
<1>1. ForegroundTypeOK
  BY DEF TypeOK
<1>2. DOMAIN actAt = Activators /\ actAt = [a \in Activators |-> actAt[a]]
  BY <1>1 DEF ForegroundTypeOK
<1>3. DOMAIN phase = Epochs /\ phase = [e \in Epochs |-> phase[e]]
  BY <1>1 DEF ForegroundTypeOK
<1>4. DOMAIN epochAt = Epochs /\ epochAt = [e \in Epochs |-> epochAt[e]]
  BY <1>1 DEF ForegroundTypeOK
<1>5. QED
  BY <1>1, <1>2, <1>3, <1>4, OpsAssumption DEF ForegroundTypeOK, OpsAssumption

\* Every variable keeps its type, and an activation that waits for an epoch has
\* one to wait for.
LEMMA StepTypes == TypeOK /\ AwaitsEpoch /\ [Next]_vars => TypeOK' /\ AwaitsEpoch'
<1> SUFFICES ASSUME TypeOK, AwaitsEpoch, [Next]_vars PROVE TypeOK' /\ AwaitsEpoch'
  OBVIOUS
<1>1. ASSUME UNCHANGED <<actAt, actEpoch>> PROVE AwaitsEpoch'
  BY <1>1 DEF AwaitsEpoch
<1>2. CASE UNCHANGED vars
  BY <1>2 DEF vars, opVars, poolVars, fgVars, resetVars, TypeOK, OperationsTypeOK, PoolsTypeOK,
              ForegroundTypeOK, NativeTypeOK, ResetTypeOK, AwaitsEpoch
<1>3. ASSUME PlatformNext, UNCHANGED <<jobAt, resetVars>> PROVE TypeOK' /\ AwaitsEpoch'
  <2>1. ASSUME NEW visible \in BOOLEAN, Report(visible) PROVE AwaitsEpoch'
    BY <2>1 DEF Report, AwaitsEpoch, TypeOK, ForegroundTypeOK
  <2>2. ASSUME VisibilityStep PROVE AwaitsEpoch'
    BY <2>2 DEF VisibilityStep, HideForeground, HideNative, RequestSuspend, AwaitsEpoch
  <2>3. QED
    BY <1>3, <2>1, <2>2, PlatformTypes DEF PlatformNext
<1>4. CASE Next
  BY <1>1, <1>3, <1>4, Steps, ActivationTypes, EpochTypes, JobTypes, WorkTypes, ResetTypes
<1>5. QED
  BY <1>2, <1>4

\* Type correctness of every reachable state.
THEOREM TypesHold == Spec => [](TypeOK /\ AwaitsEpoch)
<1>1. Init => AwaitsEpoch
  BY DEF Init, ForegroundInit, AwaitsEpoch
<1>2. QED
  BY <1>1, InitTypes, StepTypes, PTL DEF Spec

THEOREM TypeCorrect == Spec => []TypeOK
BY TypesHold, PTL

=============================================================================

----------------------------- MODULE Foreground -----------------------------
(***************************************************************************)
(* The visible app.  The platform reports visibility from its main thread; *)
(* activations run on the app's runtime and are serialised by TRANSITION;  *)
(* each opens an epoch whose owner task adopts the pools, serves until it  *)
(* is cancelled and retires them.                                          *)
(***************************************************************************)
EXTENDS Pools, Naturals

CONSTANTS
    Activators,     \* callers of activate: startup, Flutter's resume, the native resume
    ResumeTask,     \* the one a native resume spawns
    MaxReports      \* bound on the platform's reports

ASSUME ForegroundAssumption ==
    /\ ResumeTask \in Activators
    /\ MaxReports \in Nat
    /\ Nobody # "reset"
    /\ {Nobody, "reset"} \cap Activators = {}

VARIABLES
    active,       \* ACTIVE
    resetting,    \* RESETTING
    shown,        \* whether the app is on screen, as last reported (like ACTIVE, at first TRUE)
    reports,      \* reports so far
    hiding,       \* visibility(..) in progress: [thread -> its next step]
    transition,   \* who holds TRANSITION
    attached,     \* the epoch the context knows
    phase,        \* phases of the epochs
    retry,        \* epochs that were interrupted rather than failed
    watching,     \* the epoch a job waits for to be drained
    epochAt,      \* where their owner tasks are
    actAt,        \* where the activations are
    actEpoch      \* the epoch an activation waits for

fgVars == <<active, resetting, shown, reports, hiding, transition, attached,
            phase, retry, watching, epochAt, actAt, actEpoch>>

Threads == {"platform", "reset"}

ForegroundTypeOK ==
    /\ active \in BOOLEAN
    /\ resetting \in BOOLEAN
    /\ shown \in BOOLEAN
    /\ reports \in 0..MaxReports
    /\ hiding \in [Threads -> {"idle", "foreground", "native", "suspend"}]
    /\ transition \in Activators \cup {"reset", Nobody}
    /\ attached \in Epochs \cup {Nobody}
    /\ phase \in [Epochs -> {"unused", "starting", "ready", "closed", "failed"}]
    /\ retry \subseteq Epochs
    /\ watching \in [Jobs -> Epochs \cup {Nobody}]
    /\ epochAt \in [Epochs -> {"none", "admission", "waiting", "init", "claim", "opened",
                               "failed", "serving", "stopping", "finish", "closing", "drain"}]
    /\ actAt \in [Activators -> {"idle", "lock", "look", "seen", "choose", "retire",
                                 "register", "attach", "check", "await", "closing"}]
    /\ actEpoch \in [Activators -> Epochs \cup {Nobody}]

ForegroundInit ==
    /\ active = TRUE
    /\ resetting = FALSE
    /\ shown = TRUE
    /\ reports = 0
    /\ hiding = [t \in Threads |-> "idle"]
    /\ transition = Nobody
    /\ attached = Nobody
    /\ phase = [e \in Epochs |-> "unused"]
    /\ retry = {}
    /\ watching = [j \in Jobs |-> Nobody]
    /\ epochAt = [e \in Epochs |-> "none"]
    /\ actAt = [a \in Activators |-> "idle"]
    /\ actEpoch = [a \in Activators |-> Nobody]

KnownEpoch == {attached} \ {Nobody}
IsReady(e) == phase[e] = "ready" /\ e \notin cancelled

-----------------------------------------------------------------------------
(* visibility(active), by the platform or by a reset *)

StoreVisible(t, visible) ==
    LET now == visible /\ ~resetting IN
    /\ active' = now
    /\ hiding' = [hiding EXCEPT ![t] = IF now THEN "idle" ELSE "foreground"]

\* The main thread reports a change.  Becoming visible also spawns an
\* activation, once a runtime was saved for it.
Report(visible) ==
    /\ hiding["platform"] = "idle"
    /\ reports < MaxReports
    /\ reports' = reports + 1
    /\ shown' = visible
    /\ StoreVisible("platform", visible)
    /\ IF visible /\ context # "none" /\ claimed /\ actAt[ResumeTask] = "idle"
       THEN actAt' = [actAt EXCEPT ![ResumeTask] = "lock"]
       ELSE UNCHANGED actAt
    /\ UNCHANGED <<opVars, poolVars, resetting, transition, attached, phase,
                   retry, watching, epochAt, actEpoch>>

HideForeground(t) ==
    /\ hiding[t] = "foreground"
    /\ CancelForeground
    /\ hiding' = [hiding EXCEPT ![t] = "native"]
    /\ UNCHANGED <<leases, native, permit, checkouts, poolVars, active, resetting, shown,
                   reports, transition, attached, phase, retry, watching, epochAt, actAt, actEpoch>>

HideNative(t) ==
    /\ hiding[t] = "native"
    /\ CancelNative
    /\ hiding' = [hiding EXCEPT ![t] = "suspend"]
    /\ UNCHANGED <<leases, native, permit, checkouts, poolVars, active, resetting, shown,
                   reports, transition, attached, phase, retry, watching, epochAt, actAt, actEpoch>>

\* request_foreground_suspend
RequestSuspend(t) ==
    /\ hiding[t] = "suspend"
    /\ hiding' = [hiding EXCEPT ![t] = "idle"]
    /\ IF HasFlutter
       THEN suspended' = TRUE /\ Cancel(KnownEpoch)
       ELSE UNCHANGED <<suspended, cancelled>>
    /\ UNCHANGED <<leases, native, permit, checkouts, context, claimed, nativeDatabases, pool,
                   lifecycle, active, resetting, shown, reports, transition, attached, phase,
                   retry, watching, epochAt, actAt, actEpoch>>

-----------------------------------------------------------------------------
(* activate *)

actFrame == <<active, resetting, shown, reports, hiding, attached, phase, retry, watching,
              epochAt>>

Goto(a, to) == actAt' = [actAt EXCEPT ![a] = to]

\* An activation returns, with or without an error, and TRANSITION is free.
Leave(a) == Goto(a, "idle") /\ transition' = Nobody

Call(a) ==
    /\ actAt[a] = "idle"
    /\ Goto(a, "lock")
    /\ UNCHANGED <<opVars, poolVars, actFrame, transition, actEpoch>>

Enter(a) ==
    /\ actAt[a] = "lock"
    /\ transition = Nobody
    /\ transition' = a
    /\ Goto(a, "look")
    /\ UNCHANGED <<opVars, poolVars, actFrame, actEpoch>>

\* visible() waits until it reads ACTIVE as set, ...
Look(a) ==
    /\ actAt[a] = "look"
    /\ \/ resetting /\ Leave(a)
       \/ ~resetting /\ active /\ Goto(a, "seen") /\ UNCHANGED transition
    /\ UNCHANGED <<opVars, poolVars, actFrame, actEpoch>>

\* ... and then sets it.
MarkActive(a) ==
    /\ actAt[a] = "seen"
    /\ active' = TRUE
    /\ Goto(a, "choose")
    /\ UNCHANGED <<opVars, poolVars, resetting, shown, reports, hiding, transition, attached,
                   phase, retry, watching, epochAt, actEpoch>>

\* A ready epoch is all the caller wants; any other is cancelled and has to
\* close before a new one is opened.
Choose(a) ==
    /\ actAt[a] = "choose"
    /\ \/ /\ KnownEpoch = {}
          /\ Goto(a, "register")
          /\ UNCHANGED <<transition, cancelled, actEpoch>>
       \/ /\ \E e \in KnownEpoch : IsReady(e)
          /\ Leave(a)
          /\ UNCHANGED <<cancelled, actEpoch>>
       \/ \E e \in KnownEpoch :
             /\ ~IsReady(e)
             /\ Cancel({e})
             /\ Goto(a, "retire")
             /\ actEpoch' = [actEpoch EXCEPT ![a] = e]
             /\ UNCHANGED transition
    /\ UNCHANGED <<leases, native, permit, checkouts, poolVars, actFrame>>

\* Mutant: an epoch that closed with an error is not noticed.
RetireClosed(a) ==
    /\ actAt[a] = "retire"
    /\ phase[actEpoch[a]] = "closed"
    /\ Goto(a, "register")
    /\ actEpoch' = [actEpoch EXCEPT ![a] = Nobody]
    /\ UNCHANGED <<opVars, poolVars, actFrame, transition>>

\* The previous epoch has to close.  One that failed fails this activation.
Retire(a) ==
    /\ actAt[a] = "retire"
    /\ \/ phase[actEpoch[a]] = "closed" /\ Goto(a, "register") /\ UNCHANGED transition
       \/ phase[actEpoch[a]] = "failed" /\ Leave(a)
    /\ actEpoch' = [actEpoch EXCEPT ![a] = Nobody]
    /\ UNCHANGED <<opVars, poolVars, actFrame>>

\* Operations are never used twice.  Here a closed one that nothing refers to
\* any more stands for a new one; what it owned has had its day.
IsNew(e) ==
    \/ phase[e] = "unused"
    \/ /\ phase[e] \in {"closed", "failed"}
       /\ e # attached
       /\ \A b \in Activators : actEpoch[b] # e
       /\ \A j \in Jobs : watching[j] # e

OpenEpoch(a, e) ==
    /\ actAt[a] = "register"
    /\ IsNew(e)
    /\ Register(e)
    /\ cancelled' = cancelled \ {e}
    /\ pool' = [p \in Pools |-> IF p \in OwnedBy(e) THEN [pool[p] EXCEPT !.owner = Nobody]
                                                   ELSE pool[p]]
    /\ phase' = [phase EXCEPT ![e] = "starting"]
    /\ retry' = retry \ {e}
    /\ actEpoch' = [actEpoch EXCEPT ![a] = e]
    /\ Goto(a, "attach")
    /\ UNCHANGED <<native, permit, checkouts, context, claimed, suspended, nativeDatabases,
                   lifecycle, active, resetting, shown, reports, hiding, transition, attached,
                   watching, epochAt>>

Attach(a) ==
    /\ actAt[a] = "attach"
    /\ attached' = IF context = "none" THEN attached ELSE actEpoch[a]
    /\ Goto(a, "check")
    /\ UNCHANGED <<opVars, poolVars, active, resetting, shown, reports, hiding, transition,
                   phase, retry, watching, epochAt, actEpoch>>

\* The app may have been hidden since it was seen visible: visibility(false)
\* either finds the new epoch registered or is found here.
HiddenMeanwhile == ~active

CheckActive(a) ==
    LET e == actEpoch[a] IN
    /\ actAt[a] = "check"
    /\ Cancel(IF HiddenMeanwhile THEN {e} ELSE {})
    /\ epochAt' = [epochAt EXCEPT ![e] = "admission"]
    /\ Goto(a, "await")
    /\ UNCHANGED <<leases, native, permit, checkouts, poolVars, active, resetting, shown,
                   reports, hiding, transition, attached, phase, retry, watching, actEpoch>>

Await(a) ==
    LET e == actEpoch[a] IN
    /\ actAt[a] = "await"
    /\ \/ /\ IsReady(e)
          /\ Leave(a)
          /\ actEpoch' = [actEpoch EXCEPT ![a] = Nobody]
       \/ /\ phase[e] \in {"ready", "closed", "failed"}
          /\ e \in cancelled
          /\ Goto(a, "closing")
          /\ UNCHANGED <<transition, actEpoch>>
    /\ UNCHANGED <<opVars, poolVars, actFrame>>

\* An interrupted epoch closes without an error and the activation tries
\* again, an epoch that failed to start ends it.
TryAgain(a) ==
    LET e == actEpoch[a] IN
    /\ actAt[a] = "closing"
    /\ \/ phase[e] = "closed" /\ Goto(a, "look") /\ UNCHANGED transition
       \/ phase[e] = "failed" /\ Leave(a)
    /\ actEpoch' = [actEpoch EXCEPT ![a] = Nobody]
    /\ UNCHANGED <<opVars, poolVars, actFrame>>

-----------------------------------------------------------------------------
(* The owner task of an epoch *)

EpochTo(e, to) == epochAt' = [epochAt EXCEPT ![e] = to]

epochFrame == <<active, resetting, shown, reports, hiding, transition, watching, actAt,
                actEpoch>>

\* Mutant: the epoch asks for admission as a native job does.
PreemptAsNative(e) ==
    /\ epochAt[e] = "admission"
    /\ native' = native \cup {e}
    /\ CancelNative
    /\ EpochTo(e, "waiting")
    /\ UNCHANGED <<leases, permit, checkouts, poolVars, epochFrame, attached, phase, retry>>

\* foreground_admission preempts the native jobs, then waits its turn.
Preempt(e) ==
    /\ epochAt[e] = "admission"
    /\ CancelNative
    /\ EpochTo(e, "waiting")
    /\ UNCHANGED <<leases, native, permit, checkouts, poolVars, epochFrame, attached, phase,
                   retry>>

\* Mutant: the epoch cancels the native jobs but does not wait for their end.
AdmitEpochAtOnce(e) ==
    /\ epochAt[e] = "waiting"
    /\ EpochTo(e, IF AdmissionFails(e) THEN "failed" ELSE "init")
    /\ UNCHANGED <<opVars, poolVars, epochFrame, attached, phase, retry>>

AdmitEpoch(e) ==
    /\ epochAt[e] = "waiting"
    /\ \/ Admit(e) /\ EpochTo(e, "init")
       \/ AdmissionFails(e) /\ EpochTo(e, "failed") /\ UNCHANGED permit
    /\ UNCHANGED <<cancelled, leases, native, checkouts, poolVars, epochFrame, attached, phase,
                   retry>>

\* init_common: the first epoch may have to create the context.
InitEpoch(e) ==
    /\ epochAt[e] = "init"
    /\ \/ Create(e, "Flutter") /\ EpochTo(e, "claim")
       \/ context = "none" /\ EpochTo(e, "failed") /\ UNCHANGED <<opVars, poolVars>>
       \/ context # "none" /\ EpochTo(e, "claim") /\ UNCHANGED <<opVars, poolVars>>
    /\ UNCHANGED <<epochFrame, attached, phase, retry>>

\* claim_for_flutter fails before the pools are adopted, or after it, when the
\* API client cannot be rebuilt.
ClaimForFlutter(e) ==
    /\ epochAt[e] = "claim"
    /\ lifecycle = Nobody
    /\ \/ Adopt(e) /\ \E to \in {"opened", "failed"} : EpochTo(e, to)
       \/ /\ ReopenFails(e)
          /\ EpochTo(e, "failed")
          /\ UNCHANGED <<claimed, suspended, nativeDatabases>>
    /\ UNCHANGED <<opVars, context, lifecycle, epochFrame, attached, phase, retry>>

\* Mutant: whether the initialization went well is not asked.
ServeAnyway(e) ==
    /\ epochAt[e] \in {"opened", "failed"}
    /\ attached' = IF context = "none" THEN attached ELSE e
    /\ IF e \notin cancelled
       THEN GiveBack(e) /\ phase' = [phase EXCEPT ![e] = "ready"] /\ EpochTo(e, "serving")
       ELSE EpochTo(e, "stopping") /\ UNCHANGED <<permit, phase>>
    /\ UNCHANGED <<cancelled, leases, native, checkouts, poolVars, epochFrame, retry>>

\* The epoch is known to the context from here at the latest.  It serves,
\* without the permit, if all went well and nobody cancelled it meanwhile.
Serve(e) ==
    /\ epochAt[e] \in {"opened", "failed"}
    /\ attached' = IF context = "none" THEN attached ELSE e
    /\ IF epochAt[e] = "opened" /\ e \notin cancelled
       THEN /\ GiveBack(e)
            /\ phase' = [phase EXCEPT ![e] = "ready"]
            /\ EpochTo(e, "serving")
       ELSE EpochTo(e, "stopping") /\ UNCHANGED <<permit, phase>>
    /\ UNCHANGED <<cancelled, leases, native, checkouts, poolVars, epochFrame, retry>>

Stop(e) ==
    /\ \/ epochAt[e] = "serving" /\ e \in cancelled
       \/ epochAt[e] = "stopping"
    /\ retry' = IF e \in cancelled THEN retry \cup {e} ELSE retry
    /\ Cancel({e})
    /\ EpochTo(e, "finish")
    /\ UNCHANGED <<leases, native, permit, checkouts, poolVars, epochFrame, attached, phase>>

\* finish_foreground_databases: pools that belong to somebody else are left
\* alone.
FinishForeground(e) ==
    /\ epochAt[e] = "finish"
    /\ lifecycle = Nobody
    /\ IF OwnedBy(e) = {}
       THEN EpochTo(e, "drain") /\ UNCHANGED <<suspended, pool, lifecycle>>
       ELSE BeginClosing(e) /\ suspended' = TRUE /\ EpochTo(e, "closing")
    /\ UNCHANGED <<opVars, context, claimed, nativeDatabases, epochFrame, attached, phase, retry>>

PoolsRetired(e) ==
    /\ epochAt[e] = "closing"
    /\ EndClosing(e)
    /\ EpochTo(e, "drain")
    /\ UNCHANGED <<opVars, context, claimed, suspended, epochFrame, attached, phase, retry>>

\* Mutant: only the close of an interrupted epoch is announced.
CloseEpochSilently(e) ==
    /\ epochAt[e] = "drain"
    /\ Drained(e)
    /\ Deregister(e)
    /\ GiveBack(e)
    /\ phase' = [phase EXCEPT ![e] = IF e \in retry THEN "closed" ELSE @]
    /\ EpochTo(e, "none")
    /\ UNCHANGED <<cancelled, native, checkouts, poolVars, epochFrame, attached, retry>>

\* The lease and a permit still held go before anybody is told.
CloseEpoch(e) ==
    /\ epochAt[e] = "drain"
    /\ Drained(e)
    /\ Deregister(e)
    /\ GiveBack(e)
    /\ phase' = [phase EXCEPT ![e] = IF e \in retry THEN "closed" ELSE "failed"]
    /\ EpochTo(e, "none")
    /\ UNCHANGED <<cancelled, native, checkouts, poolVars, epochFrame, attached, retry>>

-----------------------------------------------------------------------------

\* What the app does with its pools.
EpochWork == \E e \in Epochs, p \in Pools : epochAt[e] = "serving" /\ Borrow(e, p)

VisibilityStep == \E t \in Threads : HideForeground(t) \/ HideNative(t) \/ RequestSuspend(t)

ActivationStep(a) ==
    \/ Enter(a) \/ Look(a) \/ MarkActive(a) \/ Choose(a) \/ Retire(a) \/ Attach(a)
    \/ CheckActive(a) \/ Await(a) \/ TryAgain(a)
    \/ \E e \in Epochs : OpenEpoch(a, e)

EpochStep(e) ==
    \/ Preempt(e) \/ AdmitEpoch(e) \/ InitEpoch(e) \/ ClaimForFlutter(e) \/ Serve(e) \/ Stop(e)
    \/ FinishForeground(e) \/ PoolsRetired(e) \/ CloseEpoch(e)

=============================================================================

---------------------------- MODULE DbLifecycle ----------------------------
(***************************************************************************)
(* The databases of one process: the visible app, the native jobs that     *)
(* take turns with it, and the reset that ends both.                       *)
(***************************************************************************)
EXTENDS Native

CONSTANT MaxResets   \* bound: a process is reset at most once, or not at all

ASSUME ResetAssumption == MaxResets \in {0, 1}

VARIABLES
    resetAt,      \* where stop_for_reset is
    resetEpoch    \* the epoch it waits for

resetVars == <<resetAt, resetEpoch>>
vars == <<opVars, poolVars, fgVars, jobAt, resetVars>>

ResetTypeOK ==
    /\ resetAt \in {"idle", "hiding", "lock", "hidingAgain", "look", "drained", "native",
                    "permit", "done"}
    /\ resetEpoch \in Epochs \cup {Nobody}

TypeOK == OperationsTypeOK /\ PoolsTypeOK /\ ForegroundTypeOK /\ NativeTypeOK /\ ResetTypeOK

Init ==
    /\ OperationsInit /\ PoolsInit /\ ForegroundInit /\ NativeInit
    /\ resetAt = "idle"
    /\ resetEpoch = Nobody

-----------------------------------------------------------------------------
(* stop_for_reset *)

ResetTo(to) == resetAt' = to

\* It hides the app twice: at once, and again when no activation is under way
\* that could have missed the first time.
BeginReset ==
    /\ resetAt = "idle"
    /\ MaxResets = 1
    /\ resetting' = TRUE
    /\ StoreVisible("reset", FALSE)
    /\ ResetTo("hiding")
    /\ UNCHANGED <<opVars, poolVars, shown, reports, transition, attached, phase, retry, watching,
                   epochAt, actAt, actEpoch, jobAt, resetEpoch>>

LockTransition ==
    /\ resetAt = "hiding"
    /\ hiding["reset"] = "idle"
    /\ transition = Nobody
    /\ transition' = "reset"
    /\ ResetTo("lock")
    /\ UNCHANGED <<opVars, poolVars, active, resetting, shown, reports, hiding, attached, phase,
                   retry, watching, epochAt, actAt, actEpoch, jobAt, resetEpoch>>

\* Mutant: hiding the app once is thought to be enough.
HideOnce ==
    /\ resetAt = "lock"
    /\ ResetTo("hidingAgain")
    /\ UNCHANGED <<opVars, poolVars, fgVars, jobAt, resetEpoch>>

HideAgain ==
    /\ resetAt = "lock"
    /\ StoreVisible("reset", FALSE)
    /\ ResetTo("hidingAgain")
    /\ UNCHANGED <<opVars, poolVars, resetting, shown, reports, transition, attached, phase,
                   retry, watching, epochAt, actAt, actEpoch, jobAt, resetEpoch>>

\* foreground.drained(), whether or not the epoch failed.
WatchLastEpoch ==
    /\ resetAt = "hidingAgain"
    /\ hiding["reset"] = "idle"
    /\ resetEpoch' = attached
    /\ ResetTo("drained")
    /\ UNCHANGED <<opVars, poolVars, fgVars, jobAt>>

LastEpochDrained ==
    /\ resetAt = "drained"
    /\ \A e \in {resetEpoch} \ {Nobody} : phase[e] \in {"closed", "failed"}
    /\ resetEpoch' = Nobody
    /\ ResetTo("native")
    /\ UNCHANGED <<opVars, poolVars, fgVars, jobAt>>

\* stop_native_for_reset
StopNative ==
    /\ resetAt = "native"
    /\ CancelNative
    /\ ResetTo("permit")
    /\ UNCHANGED <<leases, native, permit, checkouts, poolVars, fgVars, jobAt, resetEpoch>>

\* Mutant: admission is closed over the job that still runs.
CloseAdmissionAtOnce ==
    /\ resetAt = "permit"
    /\ permit' = "closed"
    /\ transition' = Nobody
    /\ ResetTo("done")
    /\ UNCHANGED <<cancelled, leases, native, checkouts, poolVars, active, resetting, shown,
                   reports, hiding, attached, phase, retry, watching, epochAt, actAt, actEpoch,
                   jobAt, resetEpoch>>

CloseAdmission ==
    /\ resetAt = "permit"
    /\ permit = "free"
    /\ permit' = "closed"
    /\ transition' = Nobody
    /\ ResetTo("done")
    /\ UNCHANGED <<cancelled, leases, native, checkouts, poolVars, active, resetting, shown,
                   reports, hiding, attached, phase, retry, watching, epochAt, actAt, actEpoch,
                   jobAt, resetEpoch>>

ResetStep ==
    \/ LockTransition \/ HideAgain \/ WatchLastEpoch \/ LastEpochDrained \/ StopNative
    \/ CloseAdmission

-----------------------------------------------------------------------------

PlatformNext ==
    \/ \E visible \in BOOLEAN : Report(visible)
    \/ VisibilityStep

AppNext ==
    \/ \E a \in Activators : Call(a) \/ ActivationStep(a)
    \/ \E e \in Epochs : EpochStep(e)
    \/ EpochWork /\ UNCHANGED fgVars

NativeNext ==
    \/ \E j \in Jobs : CreateJob(j) \/ DropRun(j) \/ SessionAsked(j) \/ JobStep(j)
    \/ JobWork

WorkEnds == \E o \in Ops, p \in Pools : Return(o, p)

Next ==
    \/ (PlatformNext \/ AppNext) /\ UNCHANGED <<jobAt, resetVars>>
    \/ NativeNext /\ UNCHANGED resetVars
    \/ WorkEnds /\ UNCHANGED <<fgVars, jobAt, resetVars>>
    \/ \E j \in Jobs : Expire(j) /\ UNCHANGED <<poolVars, fgVars, jobAt, resetVars>>
    \/ BeginReset
    \/ ResetStep

Spec == Init /\ [][Next]_vars

\* A task that can go on does so, also when it can only now and then because
\* others take turns with it: tokio's mutexes and its semaphore serve in order
\* of arrival.  Work on a connection ends and deadlines pass.  Nobody owes a
\* report, a call, a job, the opening of a session or a reset.
Fairness ==
    /\ WF_vars(VisibilityStep /\ UNCHANGED <<jobAt, resetVars>>)
    /\ \A a \in Activators : SF_vars(ActivationStep(a) /\ UNCHANGED <<jobAt, resetVars>>)
    /\ \A e \in Epochs : SF_vars(EpochStep(e) /\ UNCHANGED <<jobAt, resetVars>>)
    /\ \A j \in Jobs :
          /\ SF_vars(JobStep(j) /\ UNCHANGED resetVars)
          /\ WF_vars(Expire(j) /\ UNCHANGED <<poolVars, fgVars, jobAt, resetVars>>)
    /\ \A o \in Ops :
          WF_vars((\E p \in Pools : Return(o, p)) /\ UNCHANGED <<fgVars, jobAt, resetVars>>)
    /\ SF_vars(ResetStep)

FairSpec == Spec /\ Fairness

-----------------------------------------------------------------------------

LiveOwners == {pool[p].owner : p \in {q \in Pools : Live(q)}}

Promise == INSTANCE DatabaseOwner WITH owners <- LiveOwners, ended <- (resetAt = "done")

\* The pools are open for one operation at a time, are closed when they change
\* hands, and stay closed after a reset.
KeepsPromise == Promise!Spec

\* A native job has pools of its own only while it holds the permit, so that
\* the next one, or the app, finds them closed.
NativeOwnsUnderPermit == \A p \in Pools : Live(p) /\ pool[p].owner \in Jobs => permit = pool[p].owner

\* An epoch that callers are told is ready has both pools open, whatever
\* native jobs and earlier epochs are still cleaning up.
ReadyOwnsPools ==
    \A e \in Epochs : IsReady(e) => \A p \in Pools : pool[p] = [state |-> "open", owner |-> e]

\* Nothing of o is left: no lease, no permit, no connection, no open pool.
Released(o) == o \notin leases /\ permit # o /\ Drained(o)

\* Whoever waited for an epoch or a job to close finds everything of it gone.
ClosedIsReleased ==
    /\ \A e \in Epochs : phase[e] \in {"closed", "failed"} => Released(e)
    /\ \A j \in Jobs : jobAt[j] = "done" => Released(j)

Closing(e) == phase[e] \in {"starting", "ready"} /\ e \in cancelled

\* An epoch that is cancelled, by whomever, is cleaned up and closed: neither
\* the permit, nor the lifecycle mutex, nor a job that waits for it holds it up.
CancelledEpochCloses == []<>(\A e \in Epochs : ~Closing(e))

\* A job that holds the permit may wait for the close of an epoch that waits
\* for the permit, and that nobody cancels as the app has come back: neither
\* goes on until the app is hidden the next time.
PermitCycle ==
    \E j \in Jobs, e \in Epochs :
        watching[j] = e /\ permit = j /\ epochAt[e] = "waiting" /\ e \notin cancelled

\* A native job that was started ends, whatever the app does meanwhile, but for
\* that cycle.
JobsEnd == \A j \in Jobs : <>[](jobAt[j] \in {"new", "registered", "done"} \/ PermitCycle)

\* A call to activate returns, unless it has to wait for a hidden app or is
\* caught in that cycle.
ActivationReturns == \A a \in Activators : []<>(actAt[a] = "idle" \/ ~active \/ PermitCycle)

\* A reset that began is carried out, but for that cycle, which keeps it from
\* TRANSITION.
ResetEnds == []<>(resetAt \in {"idle", "done"} \/ PermitCycle)

\* The app is hidden and the platform's report was acted on: no epoch past its
\* own check is left that nobody cancelled.
HiddenIsCancelled ==
    (~shown /\ hiding["platform"] = "idle") =>
        \A e \in Epochs : epochAt[e] # "none" => e \in cancelled

=============================================================================

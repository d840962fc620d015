------------------------------- MODULE Native -------------------------------
(***************************************************************************)
(* Native jobs: maintenance runs of the platform's scheduler and runs for  *)
(* pushes.  A job is registered before anything else, takes the permit,    *)
(* prepares the pools, works until it is done or cancelled, and cleans up  *)
(* before it gives the permit back.                                        *)
(***************************************************************************)
EXTENDS Foreground

VARIABLE jobAt   \* where the jobs are

NativeTypeOK ==
    jobAt \in [Jobs -> {"new", "registered", "admission", "admitted", "preparing", "hidden",
                        "drained", "working", "stopping", "cleanup", "closing", "drain", "done"}]

NativeInit == jobAt = [j \in Jobs |-> "new"]

jobFrame == <<active, resetting, shown, reports, hiding, transition, attached, phase, retry,
              epochAt, actAt, actEpoch>>

JobTo(j, to) == jobAt' = [jobAt EXCEPT ![j] = to]

\* A run is created for the scheduler before it is started; a push's session
\* asks for admission at once.
CreateJob(j) ==
    /\ jobAt[j] = "new"
    /\ Register(j)
    /\ IF j \in Runs
       THEN JobTo(j, "registered") /\ UNCHANGED native
       ELSE JobTo(j, "admission") /\ native' = native \cup {j}
    /\ UNCHANGED <<cancelled, permit, checkouts, poolVars, jobFrame, watching>>

\* One maintenance run at a time is started.
WorkerFree == \A r \in Runs : jobAt[r] \in {"new", "registered", "done"}

StartRun(j) ==
    /\ jobAt[j] = "registered"
    /\ WorkerFree
    /\ j \notin cancelled
    /\ native' = native \cup {j}
    /\ JobTo(j, "admission")
    /\ UNCHANGED <<cancelled, leases, permit, checkouts, poolVars, jobFrame, watching>>

\* The scheduler disposes of a run, or it was cancelled before it started.
DropRun(j) ==
    /\ jobAt[j] = "registered"
    /\ Deregister(j)
    /\ JobTo(j, "done")
    /\ UNCHANGED <<cancelled, native, permit, checkouts, poolVars, jobFrame, watching>>

\* Without the permit a run ends; a session still goes through its cleanup.
AdmitJob(j) ==
    /\ jobAt[j] = "admission"
    /\ \/ Admit(j) /\ JobTo(j, "admitted") /\ UNCHANGED leases
       \/ /\ AdmissionFails(j)
          /\ IF j \in Runs
             THEN JobTo(j, "done") /\ Deregister(j)
             ELSE JobTo(j, "stopping") /\ UNCHANGED leases
          /\ UNCHANGED permit
    /\ UNCHANGED <<cancelled, native, checkouts, poolVars, jobFrame, watching>>

\* init_common for a job: it fails, creates the context, or goes on to prepare
\* the pools of the one there is.
InitJob(j) ==
    /\ jobAt[j] = "admitted"
    /\ j \notin cancelled
    /\ \/ Create(j, "Notification") /\ JobTo(j, "preparing")
       \/ context # "none" /\ JobTo(j, "preparing") /\ UNCHANGED <<opVars, poolVars>>
       \/ JobTo(j, "stopping") /\ UNCHANGED <<opVars, poolVars>>
    /\ UNCHANGED <<jobFrame, watching>>

\* prepare_native_databases lets an epoch of a hidden app drain first: it sees
\* the app hidden, ...
SeeHidden(j) ==
    /\ jobAt[j] = "preparing"
    /\ JobTo(j, IF HasFlutter /\ ~active THEN "hidden" ELSE "drained")
    /\ UNCHANGED <<opVars, poolVars, jobFrame, watching>>

\* ... takes the epoch there is by then, and waits for its close, whether or not
\* the job is cancelled meanwhile.
WatchEpoch(j) ==
    /\ jobAt[j] = "hidden"
    /\ watching[j] = Nobody
    /\ IF attached # Nobody
       THEN watching' = [watching EXCEPT ![j] = attached] /\ UNCHANGED jobAt
       ELSE JobTo(j, "drained") /\ UNCHANGED watching
    /\ UNCHANGED <<opVars, poolVars, jobFrame>>

EpochDrained(j) ==
    /\ jobAt[j] = "hidden"
    /\ watching[j] # Nobody
    /\ \/ phase[watching[j]] = "closed" /\ JobTo(j, "drained")
       \/ phase[watching[j]] = "failed" /\ JobTo(j, "stopping")
    /\ watching' = [watching EXCEPT ![j] = Nobody]
    /\ UNCHANGED <<opVars, poolVars, jobFrame>>

AppKeepsPools == HasFlutter /\ active

\* The first job that takes over from a hidden app also replaces the API
\* client, which may fail.
ReplaceApi == HasFlutter /\ ~nativeDatabases

\* A visible app keeps its pools, and the job may use them.
SharePools(j) ==
    /\ jobAt[j] = "drained"
    /\ lifecycle = Nobody
    /\ AppKeepsPools
    /\ j \notin cancelled
    /\ JobTo(j, IF suspended \/ ~AllOpen THEN "stopping" ELSE "working")
    /\ UNCHANGED <<opVars, poolVars, jobFrame, watching>>

\* Otherwise the job reopens them for itself, unless somebody has them open.
TakePools(j) ==
    /\ jobAt[j] = "drained"
    /\ lifecycle = Nobody
    /\ ~AppKeepsPools
    /\ j \notin cancelled
    /\ nativeDatabases' = (nativeDatabases \/ HasFlutter)
    /\ \/ /\ pool' = Reopened(j, Pools)
          /\ \/ (\A p \in Pools : pool'[p].owner = j) /\ JobTo(j, "working")
             \/ (ReplaceApi \/ \E p \in Pools : pool'[p].owner # j) /\ JobTo(j, "stopping")
       \/ ReopenFails(j) /\ JobTo(j, "stopping")
    /\ UNCHANGED <<opVars, context, claimed, suspended, lifecycle, jobFrame, watching>>

\* A job that is cancelled when its turn comes takes nothing.
TurnMissed(j) ==
    /\ jobAt[j] = "drained"
    /\ lifecycle = Nobody
    /\ j \in cancelled
    /\ JobTo(j, "stopping")
    /\ UNCHANGED <<opVars, poolVars, jobFrame, watching>>

\* The work is over, or the job was cancelled before or during it.
StopJob(j) ==
    /\ \/ jobAt[j] \in {"working", "stopping"}
       \/ jobAt[j] = "admitted" /\ j \in cancelled
    /\ Cancel({j})
    /\ JobTo(j, "cleanup")
    /\ UNCHANGED <<leases, native, permit, checkouts, poolVars, jobFrame, watching>>

\* finish_native_databases: pools of the app, and of other jobs, are left alone.
HasToClose(j) == IsNotificationRuntime /\ OwnedBy(j) # {}

\* Mutant: the permit goes when the job is over, before its cleanup.
FinishNativeFreed(j) ==
    /\ jobAt[j] = "cleanup"
    /\ lifecycle = Nobody
    /\ GiveBack(j)
    /\ IF HasToClose(j)
       THEN BeginClosing(j) /\ JobTo(j, "closing")
       ELSE JobTo(j, "drain") /\ UNCHANGED <<pool, lifecycle>>
    /\ UNCHANGED <<cancelled, leases, native, checkouts, context, claimed, suspended,
                   nativeDatabases, jobFrame, watching>>

FinishNative(j) ==
    /\ jobAt[j] = "cleanup"
    /\ lifecycle = Nobody
    /\ IF HasToClose(j)
       THEN BeginClosing(j) /\ JobTo(j, "closing")
       ELSE JobTo(j, "drain") /\ UNCHANGED <<pool, lifecycle>>
    /\ UNCHANGED <<opVars, context, claimed, suspended, nativeDatabases, jobFrame, watching>>

NativeClosed(j) ==
    /\ jobAt[j] = "closing"
    /\ EndClosing(j)
    /\ JobTo(j, "drain")
    /\ UNCHANGED <<opVars, context, claimed, suspended, jobFrame, watching>>

\* Mutant: a job ends without waiting for the work it still has in the app's
\* pools.
EndJobAtOnce(j) ==
    /\ jobAt[j] = "drain"
    /\ GiveBack(j)
    /\ Deregister(j)
    /\ JobTo(j, "done")
    /\ UNCHANGED <<cancelled, native, checkouts, poolVars, jobFrame, watching>>

EndJob(j) ==
    /\ jobAt[j] = "drain"
    /\ Drained(j)
    /\ GiveBack(j)
    /\ Deregister(j)
    /\ JobTo(j, "done")
    /\ UNCHANGED <<cancelled, native, checkouts, poolVars, jobFrame, watching>>

-----------------------------------------------------------------------------

JobWork ==
    \E j \in Jobs, p \in Pools : jobAt[j] = "working" /\ Borrow(j, p) /\ UNCHANGED <<fgVars, jobAt>>

\* A session initialises when the platform asks it to process its push, which
\* may never happen.
SessionAsked(j) == j \in Pushes /\ InitJob(j)

\* What a job does by itself.
JobStep(j) ==
    \/ StartRun(j) \/ AdmitJob(j) \/ SeeHidden(j) \/ WatchEpoch(j) \/ EpochDrained(j)
    \/ SharePools(j) \/ TakePools(j) \/ TurnMissed(j) \/ StopJob(j) \/ FinishNative(j)
    \/ NativeClosed(j) \/ EndJob(j)
    \/ j \in Runs /\ InitJob(j)

=============================================================================

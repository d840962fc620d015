----------------------------- MODULE Operations -----------------------------
(***************************************************************************)
(* The owners of database work in one process.  An operation is created    *)
(* for a session of the visible app (an epoch) or for a native job, can be *)
(* cancelled from anywhere, and counts the work that still runs for it.    *)
(* One permit (NATIVE_RUNS) admits native jobs and the start of an epoch.  *)
(***************************************************************************)
CONSTANTS
    Epochs,   \* operations of the visible app
    Runs,     \* operations of maintenance runs
    Pushes,   \* operations of notification runs
    Pools,    \* the databases: "app", twonly's own, and "signal"
    Nobody

Jobs == Runs \cup Pushes
Ops == Epochs \cup Jobs

ASSUME OpsAssumption ==
    /\ Epochs \cap Jobs = {}
    /\ Runs \cap Pushes = {}
    /\ "app" \in Pools
    /\ {Nobody, "free", "closed"} \cap Ops = {}

VARIABLES
    cancelled,   \* operations whose token is cancelled or whose deadline passed
    leases,      \* operations in the OPERATIONS registry
    native,      \* operations that asked for native admission
    permit,      \* who holds NATIVE_RUNS, or that it is free or closed
    checkouts    \* connections in use: [operation -> pools]

opVars == <<cancelled, leases, native, permit, checkouts>>

OperationsTypeOK ==
    /\ cancelled \subseteq Ops
    /\ leases \subseteq Ops
    /\ native \subseteq Jobs
    /\ permit \in Ops \cup {"free", "closed"}
    /\ checkouts \in [Ops -> SUBSET Pools]

OperationsInit ==
    /\ cancelled = {}
    /\ leases = {}
    /\ native = {}
    /\ permit = "free"
    /\ checkouts = [o \in Ops |-> {}]

Cancel(S) == cancelled' = cancelled \cup S

\* cancel_foreground and cancel_native reach what is registered by then.
CancelForeground == Cancel(leases \cap Epochs)
CancelNative == Cancel(leases \cap native)

\* A lease is held from before its owner starts until its cleanup is over.
Register(o) == leases' = leases \cup {o}
Deregister(o) == leases' = leases \ {o}

\* The permit is taken by one operation; one that was cancelled meanwhile
\* gives it back in the same step.
Admit(o) ==
    /\ permit = "free"
    /\ o \notin cancelled
    /\ permit' = o

\* Mutant: waiting for the permit does not notice a cancellation.
AdmissionFailsClosed(o) == permit = "closed"

AdmissionFails(o) == o \in cancelled \/ permit = "closed"

GiveBack(o) == permit' = IF permit = o THEN "free" ELSE permit

\* A platform callback cancels one registered job, a push cancels the runs it
\* takes precedence over, or a deadline passes.
Expire(j) ==
    /\ j \in Jobs \cap leases
    /\ j \notin cancelled
    /\ Cancel({j})
    /\ UNCHANGED <<leases, native, permit, checkouts>>

=============================================================================

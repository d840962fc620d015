-------------------------------- MODULE Pools --------------------------------
(***************************************************************************)
(* The two connection pools of the context and the flags that say whose    *)
(* they are.  A pool is owned by the operation it was opened for or adopted *)
(* by, also after it was closed.  Closing stops new checkouts at once and  *)
(* ends when the last connection came back.                                *)
(***************************************************************************)
EXTENDS Operations

VARIABLES
    context,           \* the mode GLOBAL_CONTEXT was created in, or "none"
    claimed,           \* flutter_claimed
    suspended,         \* the app asked its pools to be retired
    nativeDatabases,   \* a native job took over the pools of a hidden app
    pool,              \* [pool -> [state, owner]]
    lifecycle          \* who holds the database_lifecycle mutex across awaits

poolVars == <<context, claimed, suspended, nativeDatabases, pool, lifecycle>>

PoolsTypeOK ==
    /\ context \in {"none", "Flutter", "Notification"}
    /\ claimed \in BOOLEAN
    /\ suspended \in BOOLEAN
    /\ nativeDatabases \in BOOLEAN
    /\ pool \in [Pools -> [state : {"open", "closing", "closed"},
                           owner : Ops \cup {Nobody}]]
    /\ lifecycle \in Ops \cup {Nobody}

PoolsInit ==
    /\ context = "none"
    /\ claimed = FALSE
    /\ suspended = FALSE
    /\ nativeDatabases = FALSE
    /\ pool = [p \in Pools |-> [state |-> "closed", owner |-> Nobody]]
    /\ lifecycle = Nobody

HasFlutter == context = "Flutter" \/ claimed

IsNotificationRuntime ==
    nativeDatabases \/ (context = "Notification" /\ ~HasFlutter)

OwnedBy(o) == {p \in Pools : pool[p].owner = o}
Live(p) == pool[p].state # "closed"
AllOpen == \A p \in Pools : pool[p].state = "open"

\* Nothing runs for o: every borrowed connection is back and every connection
\* of a pool it owns is closed.
Drained(o) ==
    /\ checkouts[o] = {}
    /\ \A p \in OwnedBy(o) : ~Live(p)

-----------------------------------------------------------------------------

\* Work under o takes a connection.  One whose owner is cancelled gets none it
\* could execute a statement on.
Borrow(o, p) ==
    /\ pool[p].state = "open"
    /\ o \notin cancelled
    /\ p \notin checkouts[o]
    /\ checkouts' = [checkouts EXCEPT ![o] = @ \cup {p}]
    /\ UNCHANGED <<cancelled, leases, native, permit, poolVars>>

\* The connection is back after commit, rollback or interruption.
Return(o, p) ==
    /\ p \in checkouts[o]
    /\ checkouts' = [checkouts EXCEPT ![o] = @ \ {p}]
    /\ UNCHANGED <<cancelled, leases, native, permit, poolVars>>

\* GLOBAL_CONTEXT is created once, with both pools open for its creator.
Create(o, mode) ==
    /\ context = "none"
    /\ context' = mode
    /\ claimed' = (mode = "Flutter")
    /\ suspended' = FALSE
    /\ nativeDatabases' = (mode = "Notification")
    /\ pool' = [p \in Pools |-> [state |-> "open", owner |-> o]]
    /\ UNCHANGED <<opVars, lifecycle>>

\* The pools in S are open again: a closed one as a new pool of o.
Reopened(o, S) ==
    [p \in Pools |->
        IF p \in S /\ pool[p].state # "open"
        THEN [state |-> "open", owner |-> o]
        ELSE pool[p]]

\* reopen_databases fails before the first pool or between the two.
ReopenFails(o) == \E S \in {{}, {"app"}} \ {Pools} : pool' = Reopened(o, S)

\* claim_for_flutter: the pools are open and belong to epoch e, whoever had
\* them open before.
Adopt(e) ==
    /\ pool' = [p \in Pools |-> [state |-> "open", owner |-> e]]
    /\ suspended' = FALSE
    /\ nativeDatabases' = FALSE
    /\ claimed' = TRUE

-----------------------------------------------------------------------------

\* The cleanup of o: whatever it owns takes no more checkouts.
BeginClosing(o) ==
    /\ lifecycle' = o
    /\ pool' = [p \in Pools |->
                   IF p \in OwnedBy(o) /\ Live(p)
                   THEN [pool[p] EXCEPT !.state = "closing"]
                   ELSE pool[p]]

\* The owned pools are closed when nobody has a connection of theirs, and o is
\* done when nothing else runs for it.
EndClosing(o) ==
    /\ lifecycle = o
    /\ checkouts[o] = {}
    /\ \A p \in OwnedBy(o), b \in Ops : p \notin checkouts[b]
    /\ pool' = [p \in Pools |->
                   IF p \in OwnedBy(o) THEN [pool[p] EXCEPT !.state = "closed"] ELSE pool[p]]
    /\ lifecycle' = Nobody
    /\ nativeDatabases' = FALSE

=============================================================================

---------------------------- MODULE SessionReset ----------------------------
(***************************************************************************)
(* The limiter of session resets: signal/reset.rs.  One row per peer holds *)
(* the time of the last reset, the start of the window it was counted in   *)
(* and the resets counted there.  A claim is one statement; a message that *)
(* decrypts deletes the row (decrypt_message).                             *)
(*                                                                         *)
(* Time is the wall clock of the device, which the user may set back.      *)
(***************************************************************************)
EXTENDS Integers, FiniteSets

CONSTANTS
    Peers,      \* devices a session may have to be reset with
    Cooldown,   \* RESET_COOLDOWN
    Window,     \* RESET_WINDOW
    MaxResets,  \* MAX_RESETS_PER_WINDOW
    Horizon,    \* bound: the clock stops here
    MaxSetBack  \* bound: how often the clock is set back

ASSUME ResetAssumption ==
    /\ Cooldown \in Nat \ {0}
    /\ Window \in Nat \ {0}
    /\ Cooldown <= Window
    /\ MaxResets \in Nat \ {0}
    /\ Horizon \in Nat
    /\ MaxSetBack \in Nat

VARIABLES
    now,        \* the wall clock
    last,       \* last_reset_at
    started,    \* window_started_at
    count,      \* resets_in_window, 0 when the peer has no row
    grants,     \* ghost: times of the resets claimed since the row was created
    setBacks    \* bound counter

rows == <<last, started, count>>
vars == <<now, rows, grants, setBacks>>

Time == 0..Horizon

TypeOK ==
    /\ now \in Time
    /\ last \in [Peers -> Time]
    /\ started \in [Peers -> Time]
    /\ count \in [Peers -> 0..MaxResets]
    /\ grants \in [Peers -> SUBSET Time]
    /\ setBacks \in 0..MaxSetBack

Init ==
    /\ now = 0
    /\ last = [p \in Peers |-> 0]
    /\ started = [p \in Peers |-> 0]
    /\ count = [p \in Peers |-> 0]
    /\ grants = [p \in Peers |-> {}]
    /\ setBacks = 0

Tick ==
    /\ now < Horizon
    /\ now' = now + 1
    /\ UNCHANGED <<rows, grants, setBacks>>

SetBack ==
    /\ setBacks < MaxSetBack
    /\ now' \in 0..(now - 1)
    /\ setBacks' = setBacks + 1
    /\ UNCHANGED <<rows, grants>>

\* Mutants: the window is as short as a cooldown, or never runs out.
LapsedEarly(p) == started[p] <= now - Cooldown
LapsedNever(p) == FALSE

\* The window counted so far has run out.
Lapsed(p) == started[p] <= now - Window

\* The WHERE clause of the upsert; a first reset takes the INSERT path.
MayReset(p) ==
    \/ count[p] = 0
    \/ /\ last[p] <= now - Cooldown
       /\ Lapsed(p) \/ count[p] < MaxResets

\* SessionResetLimiter::claim, granted.  A refused claim changes nothing.
Claim(p) ==
    /\ MayReset(p)
    /\ last' = [last EXCEPT ![p] = now]
    /\ IF count[p] = 0 \/ Lapsed(p)
       THEN /\ started' = [started EXCEPT ![p] = now]
            /\ count' = [count EXCEPT ![p] = 1]
       ELSE /\ count' = [count EXCEPT ![p] = @ + 1]
            /\ UNCHANGED started
    /\ grants' = [grants EXCEPT ![p] = @ \cup {now}]
    /\ UNCHANGED <<now, setBacks>>

\* SessionResetLimiter::clear: a message from the peer decrypted.
Clear(p) ==
    /\ last' = [last EXCEPT ![p] = 0]
    /\ started' = [started EXCEPT ![p] = 0]
    /\ count' = [count EXCEPT ![p] = 0]
    /\ grants' = [grants EXCEPT ![p] = {}]
    /\ UNCHANGED <<now, setBacks>>

Next == Tick \/ SetBack \/ \E p \in Peers : Claim(p) \/ Clear(p)

Spec == Init /\ [][Next]_vars

-----------------------------------------------------------------------------

\* Resets of one session with nothing decrypted between them are a cooldown
\* apart, even across a clock that was set back: no two claims repair the same
\* break (the predicate of the upsert).
CooldownKept ==
    \A p \in Peers : \A s, t \in grants[p] : s < t => t - s >= Cooldown

ResetsWithin(p, t) == Cardinality({s \in grants[p] : t <= s /\ s < t + Window})

\* However claims fall around the end of a window, no span as long as a window
\* sees two full budgets: what is left of one and all of the next at most.
BurstIsBounded ==
    \A p \in Peers : \A t \in grants[p] : ResetsWithin(p, t) <= 2 * MaxResets - 1

\* A peer that broke long ago is not still blocked: a window's length after
\* its last reset it may be reset again, whatever the counters had come to.
NotBlockedForLong ==
    \A p \in Peers : (\A t \in grants[p] : t + Window <= now) => MayReset(p)
=============================================================================

------------------------- MODULE SessionResetProofs -------------------------
(***************************************************************************)
(* The limiter keeps its types, its cooldown, its bound on a burst and its *)
(* promise that a peer is not blocked for longer than a window.  They rest *)
(* on how the columns of a row bound the resets it counted.                *)
(***************************************************************************)
EXTENDS SessionReset, FiniteSetTheorems, TLAPS

\* A row ends with its last reset, in a window that started no later; without
\* a row there is nothing to remember.
Bounded(p) ==
    /\ \A t \in grants[p] : t <= last[p]
    /\ count[p] # 0 => last[p] \in grants[p] /\ started[p] <= last[p]
    /\ count[p] = 0 => grants[p] = {}

Limit == TypeOK /\ CooldownKept /\ \A p \in Peers : Bounded(p)

\* Every step keeps the types: clocks, columns and the counted resets.
LEMMA TypesStep == TypeOK /\ [Next]_vars => TypeOK'
<1> SUFFICES ASSUME TypeOK, [Next]_vars PROVE TypeOK'
  OBVIOUS
<1> USE ResetAssumption DEF TypeOK, Time, rows
<1>1. CASE Tick
  BY <1>1 DEF Tick
<1>2. CASE SetBack
  BY <1>2 DEF SetBack
<1>3. ASSUME NEW p \in Peers, Claim(p) PROVE TypeOK'
  <2>1. count'[p] \in 0..MaxResets
    BY <1>3 DEF Claim, MayReset, Lapsed
  <2>2. \A q \in Peers : q # p => count'[q] = count[q]
    BY <1>3 DEF Claim
  <2>3. count' \in [Peers -> 0..MaxResets]
    <3>1. count' = [count EXCEPT ![p] = count'[p]]
      BY <1>3 DEF Claim
    <3> QED BY <2>1, <3>1
  <2> QED BY <1>3, <2>3 DEF Claim
<1>4. ASSUME NEW p \in Peers, Clear(p) PROVE TypeOK'
  BY <1>4 DEF Clear
<1>5. CASE UNCHANGED vars
  BY <1>5 DEF vars
<1> QED BY <1>1, <1>2, <1>3, <1>4, <1>5 DEF Next

\* Every step keeps the cooldown and the bounds it rests on.
LEMMA LimitStep == Limit /\ [Next]_vars => Limit'
<1> SUFFICES ASSUME Limit, [Next]_vars PROVE Limit'
  OBVIOUS
<1>0. TypeOK /\ TypeOK'
  BY TypesStep DEF Limit
<1> USE ResetAssumption DEF Limit, Time, rows
<1>1. CASE UNCHANGED <<rows, grants>>
  <2>1. CooldownKept'
    BY <1>1 DEF CooldownKept
  <2>2. \A p \in Peers : Bounded(p)'
    BY <1>1 DEF Bounded
  <2> QED BY <1>0, <2>1, <2>2
<1>2. ASSUME NEW p \in Peers, Claim(p) PROVE Limit'
  <2>1. \A q \in Peers : q # p =>
            /\ grants'[q] = grants[q] /\ last'[q] = last[q]
            /\ started'[q] = started[q] /\ count'[q] = count[q]
    BY <1>0, <1>2 DEF Claim, TypeOK
  <2>2. grants'[p] = grants[p] \cup {now} /\ last'[p] = now
    BY <1>0, <1>2 DEF Claim, TypeOK
  <2>3. \A t \in grants[p] : t \in Time /\ now - t >= Cooldown
    <3>1. CASE count[p] = 0
      BY <3>1 DEF Bounded
    <3>2. CASE count[p] # 0
      <4>1. last[p] <= now - Cooldown
        BY <1>2, <3>2 DEF Claim, MayReset
      <4>2. \A t \in grants[p] : t \in Time /\ t <= last[p]
        BY <1>0 DEF TypeOK, Bounded
      <4>3. now \in Time /\ last[p] \in Time
        BY <1>0 DEF TypeOK
      <4> QED BY <4>1, <4>2, <4>3
    <3> QED BY <3>1, <3>2
  <2>4. CooldownKept'
    <3> SUFFICES ASSUME NEW q \in Peers, NEW s \in grants'[q], NEW t \in grants'[q], s < t
                 PROVE  t - s >= Cooldown
      BY DEF CooldownKept
    <3>1. CASE q # p
      BY <2>1, <3>1 DEF CooldownKept
    <3>2. CASE q = p
      <4>1. now \in Time
        BY <1>0 DEF TypeOK
      <4>2. CASE s = now
        <5>1. t \in grants[p]
          BY <2>2, <3>2, <4>1, <4>2
        <5> QED BY <2>3, <4>1, <4>2, <5>1
      <4>3. CASE t = now /\ s # now
        BY <2>2, <2>3, <3>2, <4>3
      <4>4. CASE s # now /\ t # now
        BY <2>2, <3>2, <4>4 DEF CooldownKept
      <4> QED BY <4>2, <4>3, <4>4
    <3> QED BY <3>1, <3>2
  <2>5. Bounded(p)'
    <3>1. now \in Time /\ started[p] \in Time /\ last[p] \in Time /\ count[p] \in Nat
      BY <1>0 DEF TypeOK
    <3>2. \A t \in grants'[p] : t <= last'[p]
      BY <2>2, <2>3, <3>1
    <3>3. count'[p] # 0
      BY <1>0, <1>2, <3>1 DEF Claim, TypeOK
    <3>4. started'[p] <= last'[p]
      <4>1. CASE count[p] = 0 \/ Lapsed(p)
        BY <1>0, <1>2, <2>2, <3>1, <4>1 DEF Claim, TypeOK
      <4>2. CASE ~ (count[p] = 0 \/ Lapsed(p))
        <5>1. started[p] <= last[p] /\ last[p] <= now - Cooldown
          BY <1>2, <4>2 DEF Claim, MayReset, Bounded
        <5>2. started'[p] = started[p]
          BY <1>2, <4>2 DEF Claim
        <5> QED BY <2>2, <3>1, <5>1, <5>2
      <4> QED BY <4>1, <4>2
    <3> QED BY <2>2, <3>2, <3>3, <3>4 DEF Bounded
  <2>6. \A q \in Peers : Bounded(q)'
    BY <2>1, <2>5 DEF Bounded
  <2> QED BY <1>0, <2>4, <2>6
<1>3. ASSUME NEW p \in Peers, Clear(p) PROVE Limit'
  <2>1. \A q \in Peers : q # p =>
            /\ grants'[q] = grants[q] /\ last'[q] = last[q]
            /\ started'[q] = started[q] /\ count'[q] = count[q]
    BY <1>0, <1>3 DEF Clear, TypeOK
  <2>2. grants'[p] = {} /\ count'[p] = 0
    BY <1>0, <1>3 DEF Clear, TypeOK
  <2>3. CooldownKept'
    BY <2>1, <2>2 DEF CooldownKept
  <2>4. \A q \in Peers : Bounded(q)'
    BY <2>1, <2>2 DEF Bounded
  <2> QED BY <1>0, <2>3, <2>4
<1>4. CASE Tick \/ SetBack \/ UNCHANGED vars
  BY <1>1, <1>4 DEF Tick, SetBack, vars
<1> QED BY <1>2, <1>3, <1>4 DEF Next

\* The limiter's invariant holds in every state of every run.
THEOREM LimitHolds == Spec => []Limit
<1>1. Init => Limit
  <2> SUFFICES ASSUME Init PROVE Limit
    OBVIOUS
  <2>1. TypeOK
    BY ResetAssumption DEF Init, TypeOK, Time
  <2>2. CooldownKept /\ \A p \in Peers : Bounded(p)
    BY DEF Init, CooldownKept, Bounded
  <2> QED BY <2>1, <2>2 DEF Limit
<1> QED BY <1>1, LimitStep, PTL DEF Spec

\* The limiter's columns and counters keep their types.
THEOREM TypesHold == Spec => []TypeOK
<1>1. Limit => TypeOK
  BY DEF Limit
<1> QED BY <1>1, LimitHolds, PTL

\* Two resets of a session are a cooldown apart, for every peer, window and
\* budget, and whatever happens to the clock.
THEOREM CooldownHolds == Spec => []CooldownKept
<1>1. Limit => CooldownKept
  BY DEF Limit
<1> QED BY <1>1, LimitHolds, PTL

\* A window's length after its last reset a peer may always be reset again.
THEOREM PeersAreUnblocked == Spec => []NotBlockedForLong
<1>1. Limit => NotBlockedForLong
  <2> SUFFICES ASSUME Limit, NEW p \in Peers,
                      \A t \in grants[p] : t + Window <= now, count[p] # 0
               PROVE  MayReset(p)
    BY DEF NotBlockedForLong, MayReset
  <2>1. last[p] \in Time /\ started[p] \in Time /\ now \in Time
    BY DEF Limit, TypeOK
  <2>2. last[p] + Window <= now /\ started[p] <= last[p]
    BY DEF Limit, Bounded
  <2> QED BY ResetAssumption, <2>1, <2>2 DEF MayReset, Lapsed, Time
<1> QED BY <1>1, LimitHolds, PTL

-----------------------------------------------------------------------------

\* The resets of the window that runs, and those left of the span of t when
\* it began.
Counted(p) == {s \in grants[p] : started[p] <= s}
Left(p, t) == {s \in grants[p] : t <= s /\ s < started[p]}

\* A window counts at least its own resets, and a span that began before it
\* cannot hold a whole budget of the window before: it began after the reset
\* that opened that one.
Budget(p) ==
    /\ count[p] # 0 => started[p] \in grants[p]
    /\ Cardinality(Counted(p)) <= count[p]
    /\ \A t \in grants[p] : t < started[p] /\ started[p] < t + Window
          => Cardinality(Left(p, t)) <= MaxResets - 1
    /\ \A t \in grants[p] : t + Window <= started[p]
          => ResetsWithin(p, t) <= 2 * MaxResets - 1

Budgets == \A p \in Peers : Budget(p)

\* Any set of resets is finite, and a larger one has no fewer.
LEMMA ResetsAreFinite ==
  ASSUME TypeOK, NEW p \in Peers, NEW S \in SUBSET grants[p]
  PROVE  /\ IsFiniteSet(S) /\ Cardinality(S) \in Nat
         /\ \A T \in SUBSET S : IsFiniteSet(T) /\ Cardinality(T) \in Nat
                                /\ Cardinality(T) <= Cardinality(S)
<1>1. IsFiniteSet(0..Horizon)
  BY FS_Interval, ResetAssumption
<1>2. S \in SUBSET (0..Horizon)
  BY DEF TypeOK, Time
<1>3. IsFiniteSet(S)
  BY <1>1, <1>2, FS_Subset
<1>4. ASSUME NEW T \in SUBSET S PROVE IsFiniteSet(T) /\ Cardinality(T) <= Cardinality(S)
  BY <1>3, FS_Subset
<1> QED BY <1>3, <1>4, FS_CardinalityType

\* From the budgets follows the bound on every span of a window's length.
LEMMA BudgetBoundsBursts ==
  ASSUME TypeOK, NEW p \in Peers, Budget(p), NEW t \in grants[p]
  PROVE  ResetsWithin(p, t) <= 2 * MaxResets - 1
<1> DEFINE W == {s \in grants[p] : t <= s /\ s < t + Window}
<1>0. /\ t \in Int /\ started[p] \in Int /\ Window \in Int
      /\ MaxResets \in Nat \ {0} /\ count[p] \in 0..MaxResets
  BY ResetAssumption DEF TypeOK, Time
<1>1. Cardinality(W) \in Nat /\ IsFiniteSet(W)
  BY ResetsAreFinite
<1>2. Cardinality(Counted(p)) \in Nat /\ IsFiniteSet(Counted(p))
  BY ResetsAreFinite DEF Counted
<1>3. CASE started[p] <= t
  <2>1. \A s \in grants[p] : s \in Int
    BY DEF TypeOK, Time
  <2>2. W \in SUBSET Counted(p)
    BY <1>0, <1>3, <2>1 DEF Counted
  <2>3. Cardinality(W) <= Cardinality(Counted(p))
    BY <2>2, ResetsAreFinite DEF Counted
  <2> QED BY <1>0, <1>1, <1>2, <2>3 DEF Budget, ResetsWithin
<1>4. CASE t < started[p] /\ started[p] < t + Window
  <2>1. \A s \in grants[p] : s \in Int
    BY DEF TypeOK, Time
  <2>2. Cardinality(Left(p, t)) \in Nat /\ IsFiniteSet(Left(p, t))
    BY ResetsAreFinite DEF Left
  <2> DEFINE U == Left(p, t) \cup Counted(p)
  <2>3. W \in SUBSET U /\ U \in SUBSET grants[p]
    BY <1>0, <2>1 DEF Counted, Left
  <2>4. Cardinality(W) <= Cardinality(U) /\ Cardinality(U) \in Nat
    BY <2>3, ResetsAreFinite
  <2>5. Left(p, t) \cap Counted(p) = {}
    BY <1>0, <2>1 DEF Counted, Left
  <2>6. Cardinality(U) = Cardinality(Left(p, t)) + Cardinality(Counted(p))
    <3>1. Cardinality(Left(p, t) \cap Counted(p)) = 0
      BY <2>5, FS_EmptySet
    <3>2. Cardinality(U) = Cardinality(Left(p, t)) + Cardinality(Counted(p))
                           - Cardinality(Left(p, t) \cap Counted(p))
      BY <1>2, <2>2, FS_Union
    <3> HIDE DEF U
    <3> QED BY <1>2, <2>2, <3>1, <3>2
  <2>7. Cardinality(Left(p, t)) <= MaxResets - 1 /\ Cardinality(Counted(p)) <= count[p]
    BY <1>4 DEF Budget
  <2> QED BY <1>0, <1>1, <1>2, <2>2, <2>4, <2>6, <2>7 DEF ResetsWithin
<1>5. CASE t + Window <= started[p]
  BY <1>5 DEF Budget
<1> QED BY <1>0, <1>3, <1>4, <1>5

\* A claim keeps the budget of the peer it is for.
LEMMA ClaimKeepsBudget ==
  ASSUME Limit, Limit', NEW p \in Peers, Budget(p), Claim(p)
  PROVE  Budget(p)'
<1>0. TypeOK /\ TypeOK' /\ Bounded(p)
  BY DEF Limit
<1>1. /\ grants'[p] = grants[p] \cup {now} /\ last'[p] = now
      /\ now \in Int /\ started[p] \in Int /\ count[p] \in 0..MaxResets
      /\ MaxResets \in Nat \ {0} /\ Window \in Nat \ {0}
      /\ \A s \in grants[p] : s \in Int
  BY <1>0, ResetAssumption DEF Claim, TypeOK, Time
<1>2. \A s \in grants[p] : s < now
  <2>1. CASE count[p] = 0
    BY <1>0, <2>1 DEF Bounded
  <2>2. CASE count[p] # 0
    <3>1. last[p] <= now - Cooldown /\ last[p] \in Int
      BY <1>0, <2>2 DEF Claim, MayReset, TypeOK, Time
    <3> QED BY <1>0, <1>1, <3>1, ResetAssumption DEF Bounded
  <2> QED BY <2>1, <2>2
<1>3. ASSUME NEW t \in grants[p] PROVE t + Window <= now => ResetsWithin(p, t)' = ResetsWithin(p, t)
  <2>1. SUFFICES ASSUME t + Window <= now PROVE ResetsWithin(p, t)' = ResetsWithin(p, t)
    OBVIOUS
  <2>2. {s \in grants'[p] : t <= s /\ s < t + Window} = {s \in grants[p] : t <= s /\ s < t + Window}
    BY <1>1, <2>1
  <2> QED BY <2>2 DEF ResetsWithin
<1>4. CASE count[p] = 0 \/ Lapsed(p)
  <2>1. started'[p] = now /\ count'[p] = 1
    BY <1>0, <1>4 DEF Claim, TypeOK
  <2>2. Counted(p)' = {now}
    BY <1>1, <1>2, <2>1 DEF Counted
  <2>3. Cardinality(Counted(p))' <= count'[p]
    BY <2>1, <2>2, FS_Singleton
  <2>4. ASSUME NEW t \in grants'[p], t < now, now < t + Window
        PROVE  Cardinality(Left(p, t)') <= MaxResets - 1
    <3>1. t \in grants[p] /\ count[p] # 0 /\ t \in Int
      BY <1>0, <1>1, <2>4 DEF Bounded
    <3>2. started[p] < t
      BY <1>1, <1>4, <2>4, <3>1 DEF Lapsed
    <3>3. Left(p, t)' \in SUBSET (Counted(p) \ {started[p]})
      BY <1>1, <2>1, <3>1, <3>2 DEF Left, Counted
    <3>4. Counted(p) \in SUBSET grants[p] /\ started[p] \in Counted(p)
      BY <1>1, <3>1 DEF Counted, Budget
    <3>5. Cardinality(Counted(p) \ {started[p]}) = Cardinality(Counted(p)) - 1
      BY <1>0, <3>4, ResetsAreFinite, FS_RemoveElement
    <3>6. /\ Cardinality(Left(p, t)') <= Cardinality(Counted(p) \ {started[p]})
          /\ Cardinality(Left(p, t)') \in Nat
      <4>1. (Counted(p) \ {started[p]}) \in SUBSET grants[p]
        BY <3>4
      <4> QED BY <1>0, <3>3, <4>1, ResetsAreFinite
    <3>7. Cardinality(Counted(p)) \in Nat /\ Cardinality(Counted(p)) <= count[p]
      BY <1>0, <3>4, ResetsAreFinite DEF Budget
    <3> QED BY <1>1, <3>5, <3>6, <3>7
  <2>5. ASSUME NEW t \in grants'[p], t + Window <= now
        PROVE  ResetsWithin(p, t)' <= 2 * MaxResets - 1
    <3>1. t \in grants[p]
      BY <1>1, <2>5
    <3> QED BY <1>0, <1>3, <2>5, <3>1, BudgetBoundsBursts
  <2> QED BY <1>1, <2>1, <2>3, <2>4, <2>5 DEF Budget
<1>5. CASE ~ (count[p] = 0 \/ Lapsed(p))
  <2>1. started'[p] = started[p] /\ count'[p] = count[p] + 1
    BY <1>0, <1>5 DEF Claim, TypeOK
  <2>2. started[p] \in grants[p]
    BY <1>5 DEF Budget
  <2>3. Counted(p)' = Counted(p) \cup {now}
    BY <1>1, <1>2, <2>1, <2>2 DEF Counted
  <2>4. Cardinality(Counted(p))' <= count'[p]
    <3>1. IsFiniteSet(Counted(p)) /\ Cardinality(Counted(p)) \in Nat
      BY <1>0, ResetsAreFinite DEF Counted
    <3>2. Cardinality(Counted(p)) <= count[p]
      BY DEF Budget
    <3>3. now \notin Counted(p)
      BY <1>1, <1>2 DEF Counted
    <3>4. Cardinality(Counted(p) \cup {now}) = Cardinality(Counted(p)) + 1
      BY <3>1, <3>3, FS_AddElement
    <3> QED BY <1>1, <2>1, <2>3, <3>1, <3>2, <3>4
  <2>5. \A t \in grants'[p] : Left(p, t)' = Left(p, t)
    BY <1>1, <1>2, <2>1, <2>2 DEF Left
  <2>6. ASSUME NEW t \in grants'[p], t < started[p], started[p] < t + Window
        PROVE  Cardinality(Left(p, t)') <= MaxResets - 1
    <3>1. t \in grants[p]
      BY <1>1, <1>2, <2>2, <2>6
    <3> QED BY <2>5, <2>6, <3>1 DEF Budget
  <2>7. ASSUME NEW t \in grants'[p], t + Window <= started[p]
        PROVE  ResetsWithin(p, t)' <= 2 * MaxResets - 1
    <3>1. t \in grants[p] /\ t + Window <= now
      BY <1>1, <1>2, <2>2, <2>7
    <3> QED BY <1>3, <2>7, <3>1 DEF Budget
  <2> QED BY <1>1, <2>1, <2>2, <2>4, <2>6, <2>7 DEF Budget
<1> QED BY <1>4, <1>5

\* A peer whose row a step leaves alone keeps its budget.
LEMMA OthersKeepBudget ==
  ASSUME NEW p \in Peers, Budget(p),
         grants'[p] = grants[p], started'[p] = started[p], count'[p] = count[p]
  PROVE  Budget(p)'
<1>1. Counted(p)' = Counted(p)
  BY DEF Counted
<1>2. \A t \in grants[p] : Left(p, t)' = Left(p, t) /\ ResetsWithin(p, t)' = ResetsWithin(p, t)
  BY DEF Left, ResetsWithin
<1> QED BY <1>1, <1>2 DEF Budget

\* Every step keeps the budgets.
LEMMA BudgetsStep == Limit /\ Limit' /\ Budgets /\ [Next]_vars => Budgets'
<1> SUFFICES ASSUME Limit, Limit', Budgets, [Next]_vars, NEW q \in Peers
             PROVE  Budget(q)'
  BY DEF Budgets
<1>0. TypeOK /\ Budget(q)
  BY DEF Limit, Budgets
<1>1. ASSUME NEW p \in Peers, Claim(p) PROVE Budget(q)'
  <2>1. CASE q = p
    BY <1>0, <1>1, <2>1, ClaimKeepsBudget
  <2>2. CASE q # p
    <3>1. grants'[q] = grants[q] /\ started'[q] = started[q] /\ count'[q] = count[q]
      BY <1>0, <1>1, <2>2 DEF Claim, TypeOK
    <3> QED BY <1>0, <3>1, OthersKeepBudget
  <2> QED BY <2>1, <2>2
<1>2. ASSUME NEW p \in Peers, Clear(p) PROVE Budget(q)'
  <2>1. CASE q = p
    <3>1. grants'[q] = {} /\ count'[q] = 0
      BY <1>0, <1>2, <2>1 DEF Clear, TypeOK
    <3>2. Counted(q)' = {}
      BY <3>1 DEF Counted
    <3> QED BY <3>1, <3>2, FS_EmptySet DEF Budget
  <2>2. CASE q # p
    <3>1. grants'[q] = grants[q] /\ started'[q] = started[q] /\ count'[q] = count[q]
      BY <1>0, <1>2, <2>2 DEF Clear, TypeOK
    <3> QED BY <1>0, <3>1, OthersKeepBudget
  <2> QED BY <2>1, <2>2
<1>3. CASE Tick \/ SetBack \/ UNCHANGED vars
  BY <1>0, <1>3, OthersKeepBudget DEF Tick, SetBack, vars, rows
<1> QED BY <1>1, <1>2, <1>3 DEF Next

\* No span as long as a window sees two full budgets, for every cooldown,
\* window and budget, and whatever happens to the clock.
THEOREM BurstsAreBounded == Spec => []BurstIsBounded
<1>1. Init => Budgets
  <2> SUFFICES ASSUME Init, NEW p \in Peers PROVE Budget(p)
    BY DEF Budgets
  <2>1. grants[p] = {} /\ count[p] = 0
    BY DEF Init
  <2>2. Counted(p) = {}
    BY <2>1 DEF Counted
  <2> QED BY <2>1, <2>2, FS_EmptySet DEF Budget
<1>2. Limit /\ Budgets => BurstIsBounded
  BY BudgetBoundsBursts DEF Limit, Budgets, BurstIsBounded
<1> QED BY <1>1, <1>2, LimitHolds, BudgetsStep, PTL DEF Spec
=============================================================================

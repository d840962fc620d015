---------------------------- MODULE GroupsProofs ----------------------------
(* Theorems of Groups, for any users, any number of versions, attempts and  *)
(* changes, and however far an answer of the server may be behind.          *)
EXTENDS Groups, TLAPS

(* What is read from the log is there: a device never records, fetches or   *)
(* builds on a version the server does not have.                            *)
InLog ==
    \A u \in Users :
        /\ version[u] \in 0..Current
        /\ op[u].at = "write" => op[u].base \in 1..Current
        /\ refresh[u].at # "idle" => refresh[u].base \in 1..Current

Typed == TypeOK /\ InLog

(* Versions are numbers and entries of the log are states.                  *)
LEMMA Entries ==
  ASSUME Typed
  PROVE  /\ Current \in Nat /\ Current >= 1 /\ Current <= MaxVersions
         /\ MaxVersions \in Nat
         /\ \A v \in 1..Current : log[v] \in States
         /\ Last \in States
         /\ Answers \subseteq 1..Current
<1>1. /\ Current \in Nat /\ Current >= 1 /\ Current <= MaxVersions
      /\ \A v \in 1..Current : log[v] \in States
  BY GroupAssumption DEF Typed, TypeOK, Current
<1>2. Last \in States
  BY <1>1 DEF Last
<1>3. QED
  BY <1>1, <1>2, GroupAssumption DEF Answers

(* The server appends one state and leaves the earlier ones alone.          *)
LEMMA StoredAppends ==
  ASSUME Typed, NEW u, NEW base, NEW s \in States, Stored(u, base, s)
  PROVE  /\ log' \in Seq(States)
         /\ Current' = Current + 1 /\ Current' \in 1..MaxVersions
         /\ \A v \in 1..Current : log'[v] = log[v]
         /\ Last' = s
         /\ base = Current
<1>1. log' = Append(log, s) /\ base = Current /\ Current < MaxVersions /\ log \in Seq(States)
  BY DEF Stored, Typed, TypeOK
<1>2. /\ log' \in Seq(States) /\ Len(log') = Len(log) + 1
      /\ \A v \in 1..Len(log) : log'[v] = log[v]
      /\ log'[Len(log) + 1] = s
  BY <1>1
<1>3. QED
  BY <1>1, <1>2, Entries DEF Current, Last

(* The parts of a change are sets of users. *)
LEMMA ChangeTypes ==
  ASSUME NEW c \in Changes, NEW s \in States
  PROVE  /\ Changed(c, s) \in Writes
         /\ \A A \in SUBSET Users : /\ MembersAfter(c, A) \in SUBSET Users
                                    /\ AdminsAfter(c, A) \in SUBSET Users
<1>1. c.who \in Users /\ s.members \subseteq Users /\ s.admins \subseteq Users
  BY DEF Changes, States
<1>2. \A A \in SUBSET Users : /\ MembersAfter(c, A) \in SUBSET Users
                              /\ AdminsAfter(c, A) \in SUBSET Users
  BY <1>1 DEF MembersAfter, AdminsAfter
<1>3. Granted(c) \in SUBSET Users /\ Revoked(c, s) \in SUBSET Users
  BY <1>1 DEF Granted, Revoked
<1>4. QED
  BY <1>1, <1>2, <1>3 DEF Changed, Writes

LEMMA IdleTypes == Idle \in Operations /\ NoRefresh \in Refreshes /\ NoWrite \in Writes
<1>1. NoWrite \in Writes
  BY DEF NoWrite, Writes
<1>2. [kind |-> "leave", who |-> Founder] \in Changes
  BY GroupAssumption DEF Changes, Kinds
<1>3. QED
  BY <1>1, <1>2, GroupAssumption DEF Idle, NoRefresh, Operations, Refreshes

(* An operation that takes a step to a well-typed one, on the same log.     *)
LEMMA OperationTypes ==
  ASSUME Typed, NEW u \in Users, NEW o \in Operations,
         o.at = "write" => o.base \in 1..Current,
         op' = [op EXCEPT ![u] = o]
  PROVE  /\ op' \in [Users -> Operations]
         /\ \A w \in Users : op'[w].at = "write" => op'[w].base \in 1..Current
<1>1. op \in [Users -> Operations]
  BY DEF Typed, TypeOK
<1>2. \A w \in Users : op'[w] = IF w = u THEN o ELSE op[w]
  BY <1>1
<1>3. QED
  BY <1>1, <1>2 DEF Typed, InLog

LEMMA RefreshTypes ==
  ASSUME Typed, NEW u \in Users, NEW f \in Refreshes,
         f.at # "idle" => f.base \in 1..Current,
         refresh' = [refresh EXCEPT ![u] = f]
  PROVE  /\ refresh' \in [Users -> Refreshes]
         /\ \A w \in Users : refresh'[w].at # "idle" => refresh'[w].base \in 1..Current
<1>1. refresh \in [Users -> Refreshes]
  BY DEF Typed, TypeOK
<1>2. \A w \in Users : refresh'[w] = IF w = u THEN f ELSE refresh[w]
  BY <1>1
<1>3. QED
  BY <1>1, <1>2 DEF Typed, InLog

(* The group as it is found. *)
LEMMA InitTyped == Init => Typed
<1> SUFFICES ASSUME Init PROVE Typed
  OBVIOUS
<1>1. PICK admins \in SUBSET Members :
          /\ Founder \in admins
          /\ log = <<[members |-> Members, admins |-> admins, signers |-> admins, left |-> {}]>>
          /\ role = [u \in Users |-> IF u \in admins THEN "admin"
                                     ELSE IF u \in Members THEN "normal" ELSE "none"]
          /\ rows = [u \in Users |-> [w \in Users |->
                        IF u \in Members /\ w \in Members \ {u} THEN role[w] ELSE "none"]]
  BY DEF Init
<1> DEFINE first == [members |-> Members, admins |-> admins, signers |-> admins, left |-> {}]
<1>2. first \in States
  BY GroupAssumption DEF States
<1>3. log \in Seq(States) /\ Len(log) = 1 /\ log[1] = first
  BY <1>1, <1>2
<1>4. log \in Seq(States) /\ Current = 1 /\ Current \in 1..MaxVersions
  BY <1>3, GroupAssumption DEF Current
<1>5. role \in [Users -> Roles]
  BY <1>1 DEF Roles
<1>6. rows \in [Users -> [Users -> MemberStates]]
  BY <1>1, <1>5 DEF MemberStates
<1>7. intent \in [members : SUBSET Users, admins : SUBSET Users]
  BY <1>3, <1>2 DEF Init, States
<1>8. /\ known \subseteq Users /\ left \subseteq Users /\ invited \subseteq Users \X Users
      /\ changes \in 0..MaxChanges
  BY GroupAssumption DEF Init
<1>9. version \in [Users -> 0..MaxVersions] /\ \A u \in Users : version[u] \in 0..1
  BY GroupAssumption DEF Init
<1>10. op \in [Users -> Operations] /\ refresh \in [Users -> Refreshes]
  BY IdleTypes DEF Init
<1>11. TypeOK
  BY <1>4, <1>5, <1>6, <1>7, <1>8, <1>9, <1>10 DEF TypeOK
<1>12. InLog
  BY <1>4, <1>9 DEF Init, InLog, Idle, NoRefresh
<1>13. QED
  BY <1>11, <1>12 DEF Typed

-----------------------------------------------------------------------------
(* Type correctness. *)
LEMMA BeginTyped ==
  ASSUME Typed, NEW u \in Users, NEW c \in Changes, Begin(u, c)
  PROVE  Typed'
<1>1. version[u] \in 0..MaxVersions /\ changes' \in 0..MaxChanges
  BY GroupAssumption DEF Begin, Typed, TypeOK
<1> DEFINE o == [Idle EXCEPT !.at = "load", !.change = c, !.since = version[u]]
<1>2. o \in Operations /\ o.at = "load"
  BY <1>1, IdleTypes DEF Operations, Idle
<1>3. op' = [op EXCEPT ![u] = o]
  BY DEF Begin
<1>4. /\ op' \in [Users -> Operations]
      /\ \A w \in Users : op'[w].at = "write" => op'[w].base \in 1..Current
  BY <1>2, <1>3, OperationTypes
<1>5. QED
  BY <1>1, <1>4 DEF Begin, Typed, TypeOK, InLog, device, Current

LEMMA LoadTyped ==
  ASSUME Typed, NEW u \in Users, Load(u)
  PROVE  Typed'
<1>1. op[u] \in Operations /\ version[u] \in 0..MaxVersions
  BY DEF Typed, TypeOK
<1>2. PICK o : /\ op' = [op EXCEPT ![u] = o]
               /\ o \in Operations
               /\ o.at = "write" => o.base \in 1..Current
  <2>1. PICK v \in Answers :
          \/ op' = [op EXCEPT ![u] = Idle]
          \/ op' = [op EXCEPT ![u] = [Idle EXCEPT !.at = "load", !.since = version[u],
                                        !.change = [kind |-> "remove", who |-> u]]]
          \/ op' = [op EXCEPT ![u] = [op[u] EXCEPT !.at = "write", !.base = v,
                                        !.to = Changed(op[u].change, log[v])]]
    BY DEF Load
  <2>2. CASE op' = [op EXCEPT ![u] = Idle]
    <3>1. Idle \in Operations /\ Idle.at # "write"
      BY IdleTypes DEF Idle
    <3>2. QED
      BY <2>2, <3>1
  <2>3. CASE op' = [op EXCEPT ![u] = [Idle EXCEPT !.at = "load", !.since = version[u],
                                        !.change = [kind |-> "remove", who |-> u]]]
    <3> DEFINE o == [Idle EXCEPT !.at = "load", !.since = version[u],
                                 !.change = [kind |-> "remove", who |-> u]]
    <3>1. [kind |-> "remove", who |-> u] \in Changes
      BY DEF Changes, Kinds
    <3>2. o \in Operations /\ o.at = "load"
      BY <1>1, <3>1, IdleTypes DEF Operations, Idle
    <3>3. QED
      BY <2>3, <3>2
  <2>4. CASE op' = [op EXCEPT ![u] = [op[u] EXCEPT !.at = "write", !.base = v,
                                        !.to = Changed(op[u].change, log[v])]]
    <3> DEFINE o == [op[u] EXCEPT !.at = "write", !.base = v,
                                  !.to = Changed(op[u].change, log[v])]
    <3>1. v \in 1..Current /\ v \in 0..MaxVersions /\ log[v] \in States
      BY Entries
    <3>2. op[u].change \in Changes
      BY <1>1 DEF Operations
    <3>3. Changed(op[u].change, log[v]) \in Writes
      BY <3>1, <3>2, ChangeTypes
    <3>4. o \in Operations /\ o.at = "write" /\ o.base = v
      BY <1>1, <3>1, <3>3 DEF Operations
    <3>5. QED
      BY <2>4, <3>1, <3>4
  <2>5. QED
    BY <2>1, <2>2, <2>3, <2>4
<1>3. /\ op' \in [Users -> Operations]
      /\ \A w \in Users : op'[w].at = "write" => op'[w].base \in 1..Current
  BY <1>2, OperationTypes
<1>4. QED
  BY <1>3 DEF Load, Typed, TypeOK, InLog, device, Current

(* What a device writes is a state. *)
LEMMA UpdatedTypes ==
  ASSUME Typed, NEW to \in Writes
  PROVE  Updated(to) \in States /\ \A u \in Users : Left(u) \in States
<1>1. Last \in States
  BY Entries
<1>2. Updated(to) \in States
  BY <1>1 DEF Updated, States, Writes
<1>3. \A u \in Users : Left(u) \in States
  BY <1>1 DEF Left, States
<1>4. QED
  BY <1>2, <1>3

LEMMA WriteTyped ==
  ASSUME Typed, NEW u \in Users, Write(u)
  PROVE  Typed'
<1>1. op[u] \in Operations /\ op[u].to \in Writes /\ op[u].change \in Changes
  BY DEF Typed, TypeOK, Operations
<1>2. PICK s \in States : Stored(u, op[u].base, s)
  BY <1>1, UpdatedTypes DEF Write, Take
<1>3. /\ log' \in Seq(States) /\ Current' \in 1..MaxVersions /\ Current' = Current + 1
      /\ Current \in Nat
  BY <1>2, StoredAppends, Entries
<1>4. intent' \in [members : SUBSET Users, admins : SUBSET Users]
  <2>1. intent.members \in SUBSET Users /\ intent.admins \in SUBSET Users
    BY DEF Typed, TypeOK
  <2>2. /\ MembersAfter(op[u].change, intent.members) \in SUBSET Users
        /\ AdminsAfter(op[u].change, intent.admins) \in SUBSET Users
    BY <1>1, <2>1, Entries, ChangeTypes
  <2>3. QED
    BY <2>2 DEF Write
<1> DEFINE o == [Idle EXCEPT !.at = "announce", !.change = op[u].change]
<1>5. o \in Operations /\ o.at = "announce"
  BY <1>1, IdleTypes DEF Operations, Idle
<1>6. /\ op' \in [Users -> Operations]
      /\ \A w \in Users : op'[w].at = "write" => op'[w].base \in 1..Current
  BY <1>5, OperationTypes DEF Write
<1>7. TypeOK'
  BY <1>3, <1>4, <1>6 DEF Write, Typed, TypeOK, device
<1>8. InLog'
  BY <1>3, <1>6 DEF Write, Typed, InLog, device
<1>9. QED
  BY <1>7, <1>8 DEF Typed

LEMMA EndTyped ==
  ASSUME Typed, NEW u \in Users, Conflict(u) \/ Refused(u) \/ Announce(u)
  PROVE  Typed'
<1>1. op[u] \in Operations
  BY DEF Typed, TypeOK
<1>2. Retry(u) \in Operations /\ Retry(u).at # "write"
  <2>1. CASE op[u].attempt < Attempts
    <3>1. op[u].attempt + 1 \in 1..Attempts /\ 0 \in 0..MaxVersions
      BY <1>1, <2>1, GroupAssumption DEF Operations
    <3>2. Retry(u) = [op[u] EXCEPT !.at = "load", !.attempt = op[u].attempt + 1,
                                   !.base = 0, !.to = NoWrite]
      BY <2>1 DEF Retry
    <3>3. QED
      BY <1>1, <3>1, <3>2, IdleTypes DEF Operations
  <2>2. CASE ~(op[u].attempt < Attempts)
    BY <2>2, IdleTypes DEF Retry, Idle
  <2>3. QED
    BY <2>1, <2>2
<1>3. Idle \in Operations /\ Idle.at # "write"
  BY IdleTypes DEF Idle
<1>4. /\ op' \in [Users -> Operations]
      /\ \A w \in Users : op'[w].at = "write" => op'[w].base \in 1..Current
  <2>1. CASE op' = [op EXCEPT ![u] = Retry(u)]
    BY <1>2, <2>1, OperationTypes
  <2>2. CASE op' = [op EXCEPT ![u] = Idle]
    BY <1>3, <2>2, OperationTypes
  <2>3. QED
    BY <2>1, <2>2 DEF Conflict, Refused, Announce
<1>5. CASE Conflict(u) \/ Refused(u)
  BY <1>4, <1>5 DEF Conflict, Refused, Typed, TypeOK, InLog, device, Current
<1>6. CASE Announce(u)
  <2>1. op[u].change.who \in Users
    BY <1>1 DEF Operations, Changes
  <2>2. invited' \subseteq Users \X Users /\ left' \subseteq Users
    BY <1>6, <2>1 DEF Announce, Typed, TypeOK
  <2>3. QED
    BY <1>4, <1>6, <2>2 DEF Announce, Typed, TypeOK, InLog, Current
<1>7. QED
  BY <1>5, <1>6

LEMMA FetchTyped ==
  ASSUME Typed, NEW u \in Users, Fetch(u)
  PROVE  Typed'
<1>1. PICK v \in Answers :
          refresh' = [refresh EXCEPT ![u] = [NoRefresh EXCEPT !.at = "apply", !.base = v]]
  BY DEF Fetch
<1> DEFINE f == [NoRefresh EXCEPT !.at = "apply", !.base = v]
<1>2. v \in 1..Current /\ v \in 0..MaxVersions
  BY Entries
<1>3. f \in Refreshes /\ f.base = v
  BY <1>2, IdleTypes DEF Refreshes, NoRefresh
<1>4. /\ refresh' \in [Users -> Refreshes]
      /\ \A w \in Users : refresh'[w].at # "idle" => refresh'[w].base \in 1..Current
  BY <1>1, <1>2, <1>3, RefreshTypes
<1>5. QED
  BY <1>4 DEF Fetch, Typed, TypeOK, InLog, device, Current

(* What a refresh that is not outdated leaves behind: the members and admins*)
(* of the version it fetched, without those whose leave the device knows.   *)
LEMMA ApplyEffect ==
  ASSUME Typed, NEW u \in Users, Apply(u)
  PROVE  \/ /\ UNCHANGED <<role, left, version, rows>>
            /\ refresh' = [refresh EXCEPT ![u] = NoRefresh]
         \/ \E gone \in SUBSET log[refresh[u].base].left :
              LET v == refresh[u].base
                  members == log[v].members \ gone
                  admins == log[v].admins \ gone
              IN  /\ role' = [role EXCEPT ![u] = RoleIn(u, members, admins)]
                  /\ left' = IF u \in members THEN left \ {u} ELSE left \cup {u}
                  /\ version' = [version EXCEPT ![u] = v]
                  /\ rows' = [rows EXCEPT ![u] = NewRows(u, members, admins)]
                  /\ \/ refresh' = [refresh EXCEPT ![u] = NoRefresh]
                     \/ refresh' = [refresh EXCEPT ![u] =
                            [at |-> "compact", base |-> v, members |-> members,
                             admins |-> admins]]
  BY DEF Apply, Leavers

LEMMA ApplyTyped ==
  ASSUME Typed, NEW u \in Users, Apply(u)
  PROVE  Typed'
<1>1. /\ UNCHANGED <<log, intent, known, op, invited, changes>>
      /\ refresh[u].base \in 1..Current
  BY DEF Apply, Typed, InLog
<1> DEFINE v == refresh[u].base
<1>2. v \in 0..MaxVersions /\ v \in 0..Current /\ log[v] \in States
  BY <1>1, Entries
<1>3. CASE /\ UNCHANGED <<role, left, version, rows>>
           /\ refresh' = [refresh EXCEPT ![u] = NoRefresh]
  <2>1. NoRefresh \in Refreshes /\ NoRefresh.at = "idle"
    BY IdleTypes DEF NoRefresh
  <2>2. /\ refresh' \in [Users -> Refreshes]
        /\ \A w \in Users : refresh'[w].at # "idle" => refresh'[w].base \in 1..Current
    BY <1>3, <2>1, RefreshTypes
  <2>3. QED
    BY <1>1, <1>3, <2>2 DEF Typed, TypeOK, InLog, Current
<1>4. ASSUME NEW gone \in SUBSET log[v].left,
             LET members == log[v].members \ gone
                 admins == log[v].admins \ gone
             IN  /\ role' = [role EXCEPT ![u] = RoleIn(u, members, admins)]
                 /\ left' = IF u \in members THEN left \ {u} ELSE left \cup {u}
                 /\ version' = [version EXCEPT ![u] = v]
                 /\ rows' = [rows EXCEPT ![u] = NewRows(u, members, admins)]
                 /\ \/ refresh' = [refresh EXCEPT ![u] = NoRefresh]
                    \/ refresh' = [refresh EXCEPT ![u] =
                           [at |-> "compact", base |-> v, members |-> members,
                            admins |-> admins]]
      PROVE  Typed'
  <2> DEFINE members == log[v].members \ gone
             admins == log[v].admins \ gone
             f == [at |-> "compact", base |-> v, members |-> members, admins |-> admins]
  <2>1. members \in SUBSET Users /\ admins \in SUBSET Users
    BY <1>2 DEF States
  <2>2. f \in Refreshes /\ f.base \in 1..Current
    BY <1>1, <1>2, <2>1 DEF Refreshes
  <2>3. NoRefresh \in Refreshes /\ NoRefresh.at = "idle"
    BY IdleTypes DEF NoRefresh
  <2>4. /\ refresh' \in [Users -> Refreshes]
        /\ \A w \in Users : refresh'[w].at # "idle" => refresh'[w].base \in 1..Current
    <3>1. CASE refresh' = [refresh EXCEPT ![u] = NoRefresh]
      BY <3>1, <2>3, RefreshTypes
    <3>2. CASE refresh' = [refresh EXCEPT ![u] = f]
      BY <3>2, <2>2, RefreshTypes
    <3>3. QED
      BY <1>4, <3>1, <3>2
  <2>5. NewRows(u, members, admins) \in [Users -> MemberStates]
    BY DEF NewRows, MemberStates
  <2>6. rows' \in [Users -> [Users -> MemberStates]]
    BY <1>4, <2>5 DEF Typed, TypeOK
  <2>7. role' \in [Users -> Roles] /\ left' \subseteq Users
    <3>1. RoleIn(u, members, admins) \in Roles
      BY DEF RoleIn, Roles
    <3>2. QED
      BY <1>4, <3>1 DEF Typed, TypeOK
  <2>8. /\ version' \in [Users -> 0..MaxVersions]
        /\ \A w \in Users : version'[w] \in 0..Current
    BY <1>2, <1>4 DEF Typed, TypeOK, InLog
  <2>9. QED
    BY <1>1, <2>4, <2>6, <2>7, <2>8 DEF Typed, TypeOK, InLog, Current
<1>5. QED
  BY <1>3, <1>4, ApplyEffect

(* What a compaction stores, if it stores anything. *)
Folded(u) == Updated([members |-> refresh[u].members, admins |-> refresh[u].admins,
                      add |-> {}, remove |-> {}])

LEMMA CompactTyped ==
  ASSUME Typed, NEW u \in Users, Compact(u)
  PROVE  Typed'
<1>1. refresh[u] \in Refreshes
  BY DEF Typed, TypeOK
<1>2. Folded(u) \in States
  <2>1. [members |-> refresh[u].members, admins |-> refresh[u].admins,
         add |-> {}, remove |-> {}] \in Writes
    BY <1>1 DEF Refreshes, Writes
  <2>2. QED
    BY <2>1, UpdatedTypes DEF Folded
<1>3. /\ log' \in Seq(States) /\ Current' \in 1..MaxVersions
      /\ Current \in Nat /\ Current' \in Nat /\ Current <= Current'
  <2>1. CASE Stored(u, refresh[u].base, Folded(u))
    BY <1>2, <2>1, StoredAppends, Entries
  <2>2. CASE UNCHANGED log
    BY <2>2, Entries DEF Typed, TypeOK, Current
  <2>3. QED
    BY <2>1, <2>2 DEF Compact, Folded
<1>4. NoRefresh \in Refreshes /\ NoRefresh.at = "idle"
  BY IdleTypes DEF NoRefresh
<1>5. /\ refresh' \in [Users -> Refreshes]
      /\ \A w \in Users : refresh'[w].at # "idle" => refresh'[w].base \in 1..Current
  BY <1>4, RefreshTypes DEF Compact
<1>6. TypeOK'
  BY <1>3, <1>5 DEF Compact, Typed, TypeOK, device
<1>7. InLog'
  BY <1>3, <1>5 DEF Compact, Typed, InLog, device
<1>8. QED
  BY <1>6, <1>7 DEF Typed

LEMMA MessageTyped ==
  ASSUME Typed, NEW u \in Users, NEW w \in Users, ReceiveInvitation(u, w) \/ Repair(u, w)
  PROVE  Typed'
<1>1. CASE ReceiveInvitation(u, w)
  BY <1>1 DEF ReceiveInvitation, Typed, TypeOK, InLog, Current, tasks
<1>2. CASE Repair(u, w)
  BY <1>2 DEF Repair, Typed, TypeOK, InLog, Current, device, tasks
<1>3. QED
  BY <1>1, <1>2

LEMMA GiveUpTyped ==
  ASSUME Typed, NEW u \in Users, GiveUp(u)
  PROVE  Typed'
<1>1. /\ Idle \in Operations /\ Idle.at # "write"
      /\ NoRefresh \in Refreshes /\ NoRefresh.at = "idle"
  BY IdleTypes DEF Idle, NoRefresh
<1>2. /\ op' \in [Users -> Operations]
      /\ \A w \in Users : op'[w].at = "write" => op'[w].base \in 1..Current
  BY <1>1, OperationTypes DEF GiveUp
<1>3. /\ refresh' \in [Users -> Refreshes]
      /\ \A w \in Users : refresh'[w].at # "idle" => refresh'[w].base \in 1..Current
  BY <1>1, RefreshTypes DEF GiveUp
<1>4. QED
  BY <1>2, <1>3 DEF GiveUp, Typed, TypeOK, InLog, device, Current

LEMMA NextTyped == Typed /\ [Next]_vars => Typed'
<1> SUFFICES ASSUME Typed, [Next]_vars PROVE Typed'
  OBVIOUS
<1>1. ASSUME NEW u \in Users, NEW c \in Changes, Begin(u, c) PROVE Typed'
  BY <1>1, BeginTyped
<1>2. ASSUME NEW u \in Users, Operation(u) PROVE Typed'
  BY <1>2, LoadTyped, WriteTyped, EndTyped DEF Operation
<1>3. ASSUME NEW u \in Users, Refreshing(u) PROVE Typed'
  BY <1>3, FetchTyped, ApplyTyped, CompactTyped DEF Refreshing
<1>4. ASSUME NEW u \in Users, GiveUp(u) PROVE Typed'
  BY <1>4, GiveUpTyped
<1>5. ASSUME NEW u \in Users, NEW w \in Users, ReceiveInvitation(u, w) \/ Repair(u, w)
      PROVE  Typed'
  BY <1>5, MessageTyped
<1>6. CASE UNCHANGED vars
  BY <1>6 DEF vars, device, tasks, Typed, TypeOK, InLog, Current
<1>7. QED
  BY <1>1, <1>2, <1>3, <1>4, <1>5, <1>6 DEF Next

LEMMA AlwaysTyped == Spec => []Typed
<1>1. QED
  BY InitTyped, NextTyped, PTL DEF Spec

(* Every variable keeps its type: no version beyond the log is recorded,    *)
(* fetched or written to, and no attempt beyond the limit is made.          *)
THEOREM TypesHold == Spec => []TypeOK
<1>1. Typed => TypeOK
  BY DEF Typed
<1>2. QED
  BY <1>1, AlwaysTyped, PTL

-----------------------------------------------------------------------------
(* The stored state against the changes it came from.  Two facts make it    *)
(* inductive: what waits to be written was made from the version it names,  *)
(* and a compaction drops nobody but people who left at that version.       *)
Prepared(u, o) ==
    /\ o.at \in {"load", "write"} /\ o.change.kind = "leave" => o.change.who = u
    /\ o.at = "write" /\ o.change.kind # "leave" => o.to = Changed(o.change, log[o.base])

Writing == \A u \in Users : Prepared(u, op[u])

SameBut(A, B, L) == A \ L = B \ L

Folding ==
    \A u \in Users : refresh[u].at = "compact" =>
        LET s == log[refresh[u].base]
        IN  /\ SameBut(refresh[u].members, s.members, s.left)
            /\ SameBut(refresh[u].admins, s.admins, s.left)

Kept == Writing /\ Folding /\ ChangesKept /\ SignersAreAdmins

(* A change made to two groups that differ in people who left only, keeps   *)
(* them so; and the right to sign follows the admins.                       *)
LEMMA ChangeCommutes ==
  ASSUME NEW c \in Changes, c.kind # "leave", NEW s \in States,
         NEW M, NEW A, NEW G,
         SameBut(s.members, M, s.left), SameBut(s.admins, A, s.left),
         SameBut(G, A, s.left)
  PROVE  /\ SameBut(MembersAfter(c, s.members), MembersAfter(c, M), s.left)
         /\ SameBut(AdminsAfter(c, s.admins), AdminsAfter(c, A), s.left)
         /\ SameBut((G \cup Granted(c)) \ Revoked(c, s), AdminsAfter(c, A), s.left)
<1>1. c.kind \in {"add", "remove", "promote", "demote"}
  BY DEF Changes, Kinds
<1>2. SameBut(MembersAfter(c, s.members), MembersAfter(c, M), s.left)
  BY <1>1 DEF SameBut, MembersAfter
<1>3. SameBut(AdminsAfter(c, s.admins), AdminsAfter(c, A), s.left)
  BY <1>1 DEF SameBut, AdminsAfter
<1>4. SameBut((G \cup Granted(c)) \ Revoked(c, s), AdminsAfter(c, A), s.left)
  <2>1. CASE c.kind = "add"
    BY <2>1 DEF SameBut, AdminsAfter, Granted, Revoked
  <2>2. CASE c.kind = "remove"
    BY <2>2 DEF SameBut, AdminsAfter, Granted, Revoked
  <2>3. CASE c.kind = "promote"
    BY <2>3 DEF SameBut, AdminsAfter, Granted, Revoked
  <2>4. CASE c.kind = "demote"
    BY <2>4 DEF SameBut, AdminsAfter, Granted, Revoked
  <2>5. QED
    BY <1>1, <2>1, <2>2, <2>3, <2>4
<1>5. QED
  BY <1>2, <1>3, <1>4

LEMMA InitKept == Init => Kept
<1> SUFFICES ASSUME Init PROVE Kept
  OBVIOUS
<1>1. PICK admins \in SUBSET Members :
          log = <<[members |-> Members, admins |-> admins, signers |-> admins, left |-> {}]>>
  BY DEF Init
<1>2. Current = 1 /\ Last = log[1] /\ Last.signers = Last.admins
  BY <1>1 DEF Current, Last
<1>3. intent.members = Last.members /\ intent.admins = Last.admins
  BY <1>2 DEF Init
<1>4. ChangesKept /\ SignersAreAdmins
  BY <1>2, <1>3 DEF ChangesKept, SignersAreAdmins
<1>5. Writing /\ Folding
  BY DEF Init, Writing, Prepared, Folding, Idle, NoRefresh
<1>6. QED
  BY <1>4, <1>5 DEF Kept

(* What was read from the log stays as it was when the log grows. *)
LEMMA LogGrows ==
  ASSUME Typed, \A v \in 1..Current : log'[v] = log[v], NEW u \in Users
  PROVE  /\ op[u].at = "write" => log'[op[u].base] = log[op[u].base]
         /\ refresh[u].at = "compact" => log'[refresh[u].base] = log[refresh[u].base]
         /\ version[u] > 0 => log'[version[u]] = log[version[u]]
  BY Entries DEF Typed, InLog

(* The steps that leave the log alone keep Kept if what they prepare is     *)
(* prepared from the log.                                                   *)
LEMMA LogStays ==
  ASSUME Typed, Kept, UNCHANGED <<log, intent>>, Writing', Folding'
  PROVE  Kept'
  BY DEF Kept, ChangesKept, SignersAreAdmins, Last, Current

LEMMA PreparedKept ==
  ASSUME Typed, Kept, NEW u \in Users,
         \/ \E c \in Changes : Begin(u, c)
         \/ Load(u) \/ Conflict(u) \/ Refused(u) \/ Announce(u)
  PROVE  Kept'
<1>1. UNCHANGED <<log, intent, refresh>> /\ op \in [Users -> Operations]
  BY DEF Begin, Load, Conflict, Refused, Announce, Typed, TypeOK
<1>2. Folding'
  BY <1>1 DEF Kept, Folding
<1>3. PICK o : op' = [op EXCEPT ![u] = o] /\ Prepared(u, o)
  <2>1. ASSUME NEW c \in Changes, Begin(u, c)
        PROVE  \E o : op' = [op EXCEPT ![u] = o] /\ Prepared(u, o)
    <3> DEFINE o == [Idle EXCEPT !.at = "load", !.change = c, !.since = version[u]]
    <3>1. o.at = "load" /\ o.change = c
      BY DEF Idle
    <3>2. c.kind = "leave" => c.who = u
      BY <2>1 DEF Begin, Offered
    <3>3. op' = [op EXCEPT ![u] = o]
      BY <2>1 DEF Begin
    <3>4. Prepared(u, o)
      BY <3>1, <3>2 DEF Prepared
    <3>5. QED
      BY <3>3, <3>4
  <2>2. Prepared(u, Idle)
    BY DEF Prepared, Idle
  <2>3. CASE Load(u)
    <3>1. PICK v \in Answers :
            \/ op' = [op EXCEPT ![u] = Idle]
            \/ op' = [op EXCEPT ![u] = [Idle EXCEPT !.at = "load", !.since = version[u],
                                          !.change = [kind |-> "remove", who |-> u]]]
            \/ op' = [op EXCEPT ![u] = [op[u] EXCEPT !.at = "write", !.base = v,
                                          !.to = Changed(op[u].change, log[v])]]
      BY <2>3 DEF Load
    <3>2. Prepared(u, [Idle EXCEPT !.at = "load", !.since = version[u],
                                   !.change = [kind |-> "remove", who |-> u]])
      BY DEF Prepared, Idle
    <3>3. op[u].change.kind = "leave" => op[u].change.who = u
      BY <2>3 DEF Load, Kept, Writing, Prepared
    <3>4. Prepared(u, [op[u] EXCEPT !.at = "write", !.base = v,
                                    !.to = Changed(op[u].change, log[v])])
      BY <1>1, <3>3 DEF Prepared, Operations
    <3>5. QED
      BY <2>2, <3>1, <3>2, <3>4
  <2>4. CASE Conflict(u)
    <3>1. op[u].change.kind = "leave" => op[u].change.who = u
      BY <2>4 DEF Conflict, Kept, Writing, Prepared
    <3>2. Prepared(u, [op[u] EXCEPT !.at = "load", !.attempt = op[u].attempt + 1,
                                    !.base = 0, !.to = NoWrite])
      BY <1>1, <3>1 DEF Prepared, Operations
    <3>3. Prepared(u, Retry(u))
      BY <2>2, <3>2 DEF Retry
    <3>4. QED
      BY <2>4, <3>3 DEF Conflict
  <2>5. CASE Refused(u) \/ Announce(u)
    BY <2>2, <2>5 DEF Refused, Announce
  <2>6. QED
    BY <2>1, <2>3, <2>4, <2>5
<1>4. \A w \in Users : op'[w] = IF w = u THEN o ELSE op[w]
  BY <1>1, <1>3
<1>5. Writing'
  BY <1>1, <1>3, <1>4 DEF Kept, Writing, Prepared
<1>6. QED
  BY <1>1, <1>2, <1>5, LogStays

LEMMA WriteKept ==
  ASSUME Typed, Kept, NEW u \in Users, Write(u)
  PROVE  Kept'
<1> DEFINE c == op[u].change
<1>1. op[u] \in Operations /\ op[u].to \in Writes /\ c \in Changes
  BY DEF Typed, TypeOK, Operations
<1>2. Last \in States /\ op[u].at = "write" /\ UNCHANGED refresh
  BY Entries DEF Write
<1>3. /\ intent'.members = MembersAfter(c, intent.members)
      /\ intent'.admins = AdminsAfter(c, intent.admins)
  BY DEF Write
<1>4. /\ SameBut(Last.members, intent.members, Last.left)
      /\ SameBut(Last.admins, intent.admins, Last.left)
      /\ SameBut(Last.signers, intent.admins, Last.left)
  BY DEF Kept, ChangesKept, SignersAreAdmins, SameBut
<1>5. ASSUME c.kind = "leave"
      PROVE  /\ \A v \in 1..Current : log'[v] = log[v]
             /\ ChangesKept' /\ SignersAreAdmins'
  <2>1. Stored(u, op[u].base, Left(u)) /\ Left(u) \in States /\ c.who = u
    BY <1>1, <1>2, <1>5, UpdatedTypes DEF Write, Take, Kept, Writing, Prepared
  <2>2. /\ \A v \in 1..Current : log'[v] = log[v]
        /\ Last' = Left(u)
    BY <2>1, StoredAppends
  <2>3. /\ Last'.members = Last.members /\ Last'.admins = Last.admins
        /\ Last'.signers = Last.signers /\ Last'.left = Last.left \cup {u}
    BY <1>2, <2>2 DEF Left, States
  <2>4. /\ intent'.members = intent.members \ {u}
        /\ intent'.admins = intent.admins \ {u}
    BY <1>3, <1>5, <2>1 DEF MembersAfter, AdminsAfter
  <2>5. ChangesKept' /\ SignersAreAdmins'
    BY <1>4, <2>3, <2>4 DEF ChangesKept, SignersAreAdmins, SameBut
  <2>6. QED
    BY <2>2, <2>5
<1>6. ASSUME c.kind # "leave"
      PROVE  /\ \A v \in 1..Current : log'[v] = log[v]
             /\ ChangesKept' /\ SignersAreAdmins'
  <2>1. /\ Stored(u, op[u].base, Updated(op[u].to)) /\ Updated(op[u].to) \in States
        /\ op[u].to = Changed(c, log[op[u].base])
    BY <1>1, <1>2, <1>6, UpdatedTypes DEF Write, Take, Kept, Writing, Prepared
  <2>2. /\ \A v \in 1..Current : log'[v] = log[v]
        /\ Last' = Updated(op[u].to) /\ op[u].to = Changed(c, Last)
    BY <2>1, StoredAppends DEF Last
  <2>3. /\ Last'.members = MembersAfter(c, Last.members)
        /\ Last'.admins = AdminsAfter(c, Last.admins)
        /\ Last'.signers = (Last.signers \cup Granted(c)) \ Revoked(c, Last)
        /\ Last'.left = Last.left
    BY <2>2 DEF Updated, Changed
  <2>4. /\ SameBut(Last'.members, intent'.members, Last'.left)
        /\ SameBut(Last'.admins, intent'.admins, Last'.left)
        /\ SameBut(Last'.signers, intent'.admins, Last'.left)
    BY <1>1, <1>2, <1>3, <1>4, <1>6, <2>3, ChangeCommutes
  <2>5. ChangesKept' /\ SignersAreAdmins'
    BY <2>4 DEF ChangesKept, SignersAreAdmins, SameBut
  <2>6. QED
    BY <2>2, <2>5
<1>7. op' = [op EXCEPT ![u] = [Idle EXCEPT !.at = "announce", !.change = c]]
  BY DEF Write
<1>8. \A w \in Users : IF w = u THEN op'[w].at = "announce" ELSE op'[w] = op[w]
  BY <1>7 DEF Idle, Typed, TypeOK
<1>9. Writing' /\ Folding'
  BY <1>2, <1>5, <1>6, <1>8, LogGrows DEF Kept, Writing, Prepared, Folding
<1>10. QED
  BY <1>5, <1>6, <1>9 DEF Kept

LEMMA RefreshKept ==
  ASSUME Typed, Kept, NEW u \in Users, Fetch(u) \/ Apply(u)
  PROVE  Kept'
<1>1. UNCHANGED <<log, intent, op>> /\ refresh \in [Users -> Refreshes]
  BY DEF Fetch, Apply, Typed, TypeOK
<1>2. Writing'
  BY <1>1 DEF Kept, Writing, Prepared
<1>3. Folding'
  <2>1. CASE Fetch(u)
    <3>1. \A w \in Users : IF w = u THEN refresh'[w].at = "apply" ELSE refresh'[w] = refresh[w]
      BY <1>1, <2>1 DEF Fetch, NoRefresh
    <3>2. QED
      BY <1>1, <3>1 DEF Kept, Folding
  <2>2. CASE Apply(u)
    <3>1. \/ refresh' = [refresh EXCEPT ![u] = NoRefresh]
          \/ \E gone \in SUBSET log[refresh[u].base].left :
                refresh' = [refresh EXCEPT ![u] =
                   [at |-> "compact", base |-> refresh[u].base,
                    members |-> log[refresh[u].base].members \ gone,
                    admins |-> log[refresh[u].base].admins \ gone]]
      BY <2>2, ApplyEffect
    <3>2. CASE refresh' = [refresh EXCEPT ![u] = NoRefresh]
      <4>1. \A w \in Users : IF w = u THEN refresh'[w].at = "idle"
                                      ELSE refresh'[w] = refresh[w]
        BY <1>1, <3>2 DEF NoRefresh
      <4>2. QED
        BY <1>1, <4>1 DEF Kept, Folding
    <3>3. ASSUME NEW gone \in SUBSET log[refresh[u].base].left,
                 refresh' = [refresh EXCEPT ![u] =
                   [at |-> "compact", base |-> refresh[u].base,
                    members |-> log[refresh[u].base].members \ gone,
                    admins |-> log[refresh[u].base].admins \ gone]]
          PROVE  Folding'
      <4> DEFINE s == log[refresh[u].base]
      <4>1. \A w \in Users : w # u => refresh'[w] = refresh[w]
        BY <1>1, <3>3
      <4>2. /\ refresh'[u].base = refresh[u].base
            /\ refresh'[u].members = s.members \ gone
            /\ refresh'[u].admins = s.admins \ gone
        BY <1>1, <3>3
      <4>3. /\ SameBut(refresh'[u].members, s.members, s.left)
            /\ SameBut(refresh'[u].admins, s.admins, s.left)
        BY <4>2 DEF SameBut
      <4>4. QED
        BY <1>1, <4>1, <4>2, <4>3 DEF Kept, Folding
    <3>4. QED
      BY <3>1, <3>2, <3>3
  <2>3. QED
    BY <2>1, <2>2
<1>4. QED
  BY <1>1, <1>2, <1>3, LogStays

LEMMA CompactKept ==
  ASSUME Typed, Kept, NEW u \in Users, Compact(u)
  PROVE  Kept'
<1>1. /\ UNCHANGED <<intent, op>> /\ refresh[u].at = "compact"
      /\ refresh' = [refresh EXCEPT ![u] = NoRefresh]
      /\ refresh \in [Users -> Refreshes] /\ refresh[u] \in Refreshes
  BY DEF Compact, Typed, TypeOK
<1>2. \A w \in Users : IF w = u THEN refresh'[w].at = "idle" ELSE refresh'[w] = refresh[w]
  BY <1>1 DEF NoRefresh
<1>3. CASE Stored(u, refresh[u].base, Folded(u))
  <2>1. [members |-> refresh[u].members, admins |-> refresh[u].admins,
         add |-> {}, remove |-> {}] \in Writes
    BY <1>1 DEF Refreshes, Writes
  <2>2. Folded(u) \in States
    BY <2>1, UpdatedTypes DEF Folded
  <2>3. /\ \A v \in 1..Current : log'[v] = log[v]
        /\ Last' = Folded(u) /\ Last = log[refresh[u].base]
    BY <1>3, <2>2, StoredAppends DEF Last
  <2>4. /\ Last'.members = refresh[u].members /\ Last'.admins = refresh[u].admins
        /\ Last'.signers = Last.signers /\ Last'.left = Last.left
    BY <2>3 DEF Folded, Updated
  <2>5. /\ SameBut(refresh[u].members, Last.members, Last.left)
        /\ SameBut(refresh[u].admins, Last.admins, Last.left)
    BY <1>1, <2>3 DEF Kept, Folding
  <2>6. ChangesKept' /\ SignersAreAdmins'
    BY <1>1, <2>4, <2>5 DEF Kept, ChangesKept, SignersAreAdmins, SameBut
  <2>7. Writing' /\ Folding'
    BY <1>1, <1>2, <2>3, LogGrows DEF Kept, Writing, Prepared, Folding
  <2>8. QED
    BY <2>6, <2>7 DEF Kept
<1>4. CASE UNCHANGED log
  <2>1. Writing' /\ Folding'
    BY <1>1, <1>2, <1>4 DEF Kept, Writing, Prepared, Folding
  <2>2. QED
    BY <1>1, <1>4, <2>1, LogStays
<1>5. QED
  BY <1>3, <1>4 DEF Compact, Folded

LEMMA NextKept == Typed /\ Kept /\ [Next]_vars => Kept'
<1> SUFFICES ASSUME Typed, Kept, [Next]_vars PROVE Kept'
  OBVIOUS
<1>1. ASSUME NEW u \in Users, NEW c \in Changes, Begin(u, c) PROVE Kept'
  BY <1>1, PreparedKept
<1>2. ASSUME NEW u \in Users, Operation(u) PROVE Kept'
  BY <1>2, PreparedKept, WriteKept DEF Operation
<1>3. ASSUME NEW u \in Users, Refreshing(u) PROVE Kept'
  BY <1>3, RefreshKept, CompactKept DEF Refreshing
<1>4. ASSUME NEW u \in Users, GiveUp(u) PROVE Kept'
  <2>1. UNCHANGED <<log, intent>>
    BY <1>4 DEF GiveUp
  <2>2. \A w \in Users : /\ op'[w] = IF w = u THEN Idle ELSE op[w]
                         /\ refresh'[w] = IF w = u THEN NoRefresh ELSE refresh[w]
    BY <1>4 DEF GiveUp, Typed, TypeOK
  <2>3. Writing' /\ Folding'
    BY <2>1, <2>2 DEF Kept, Writing, Prepared, Folding, Idle, NoRefresh
  <2>4. QED
    BY <2>1, <2>3, LogStays
<1>5. ASSUME UNCHANGED <<log, intent, tasks>> PROVE Kept'
  <2>1. Writing' /\ Folding'
    BY <1>5 DEF Kept, Writing, Prepared, Folding, tasks
  <2>2. QED
    BY <1>5, <2>1, LogStays
<1>6. ASSUME NEW u \in Users, NEW w \in Users, ReceiveInvitation(u, w) \/ Repair(u, w)
      PROVE  Kept'
  BY <1>5, <1>6 DEF ReceiveInvitation, Repair
<1>7. CASE UNCHANGED vars
  BY <1>5, <1>7 DEF vars
<1>8. QED
  BY <1>1, <1>2, <1>3, <1>4, <1>6, <1>7 DEF Next

LEMMA AlwaysKept == Spec => []Kept
<1>1. QED
  BY AlwaysTyped, InitKept, NextKept, PTL DEF Spec

(* No change the server took is lost, for any users, any number of changes  *)
(* that race for a version, of attempts, and of answers that are behind: the*)
(* stored state is what all changes together make of the first one, but for *)
(* people who left.                                                         *)
THEOREM NoChangeIsLost == Spec => []ChangesKept
<1>1. Kept => ChangesKept
  BY DEF Kept
<1>2. QED
  BY <1>1, AlwaysKept, PTL

(* Among those who have not left, exactly the admins can sign a later state.*)
THEOREM AdminsSign == Spec => []SignersAreAdmins
<1>1. Kept => SignersAreAdmins
  BY DEF Kept
<1>2. QED
  BY <1>1, AlwaysKept, PTL

-----------------------------------------------------------------------------
(* What a device shows.  The invariant also speaks of devices that do not   *)
(* know the group: they may get to know it, and have no version then.       *)
Here(u) == View(u) \cup (IF Joined(u) THEN {u} ELSE {})

Shows(u) ==
    version[u] > 0 => /\ Here(u) \subseteq log[version[u]].members
                      /\ log[version[u]].members \ log[version[u]].left \subseteq Here(u)

Views == \A u \in Users : Shows(u)

LEMMA InitViews == Init => Views
<1> SUFFICES ASSUME Init, NEW u \in Users, version[u] > 0 PROVE Shows(u)
  BY DEF Views, Shows
<1>1. PICK admins \in SUBSET Members :
          /\ log = <<[members |-> Members, admins |-> admins, signers |-> admins, left |-> {}]>>
          /\ role = [w \in Users |-> IF w \in admins THEN "admin"
                                     ELSE IF w \in Members THEN "normal" ELSE "none"]
          /\ rows = [v \in Users |-> [w \in Users |->
                        IF v \in Members /\ w \in Members \ {v} THEN role[w] ELSE "none"]]
  BY DEF Init
<1>2. u \in Members /\ version[u] = 1
  BY DEF Init
<1>3. log[version[u]].members = Members
  BY <1>1, <1>2
<1>4. View(u) = Members \ {u}
  BY <1>1, <1>2, GroupAssumption DEF View
<1>5. Joined(u)
  BY <1>1, <1>2 DEF Joined
<1>6. QED
  BY <1>2, <1>3, <1>4, <1>5 DEF Shows, Here

(* Nothing a device holds of the group changes, and the log only grows.     *)
LEMMA ViewsStay ==
  ASSUME Typed, Views, UNCHANGED <<role, version, rows>>,
         \A v \in 1..Current : log'[v] = log[v]
  PROVE  Views'
<1> SUFFICES ASSUME NEW u \in Users PROVE Shows(u)'
  BY DEF Views
<1>1. version[u] > 0 => log'[version[u]] = log[version[u]]
  BY LogGrows
<1>2. QED
  BY <1>1 DEF Views, Shows, Here, View, Joined

LEMMA ApplyViews ==
  ASSUME Typed, Views, NEW u \in Users, Apply(u)
  PROVE  Views'
<1>1. UNCHANGED log
  BY DEF Apply
<1>2. CASE UNCHANGED <<role, left, version, rows>>
  BY <1>1, <1>2, ViewsStay
<1>3. ASSUME NEW gone \in SUBSET log[refresh[u].base].left,
             LET v == refresh[u].base
                 members == log[v].members \ gone
                 admins == log[v].admins \ gone
             IN  /\ role' = [role EXCEPT ![u] = RoleIn(u, members, admins)]
                 /\ version' = [version EXCEPT ![u] = v]
                 /\ rows' = [rows EXCEPT ![u] = NewRows(u, members, admins)]
      PROVE  Views'
  <2> DEFINE v == refresh[u].base
             members == log[v].members \ gone
             admins == log[v].admins \ gone
  <2>1. v \in 1..Current /\ members \subseteq Users
    <3>1. v \in 1..Current
      BY DEF Apply, Typed, InLog
    <3>2. log[v] \in States
      BY <3>1, Entries
    <3>3. QED
      BY <3>1, <3>2 DEF States
  <2>2. \A w \in Users : w # u => Shows(w)'
    <3>1. \A w \in Users : w # u => /\ role'[w] = role[w] /\ version'[w] = version[w]
                                   /\ rows'[w] = rows[w]
      BY <1>3 DEF Typed, TypeOK
    <3>2. QED
      BY <1>1, <3>1 DEF Views, Shows, Here, View, Joined
  <2>3. version'[u] = v /\ rows'[u] = NewRows(u, members, admins)
    BY <1>3 DEF Typed, TypeOK
  <2>4. Joined(u)' <=> u \in members
    <3>1. role'[u] = RoleIn(u, members, admins)
      BY <1>3 DEF Typed, TypeOK
    <3>2. QED
      BY <3>1 DEF Joined, RoleIn
  <2>5. View(u)' = members \ {u}
    BY <2>1, <2>3 DEF View, NewRows
  <2>6. Here(u)' = members
    BY <2>4, <2>5 DEF Here
  <2>7. Shows(u)'
    BY <1>1, <2>3, <2>6 DEF Shows
  <2>8. QED
    BY <2>2, <2>7 DEF Views
<1>4. QED
  BY <1>2, <1>3, ApplyEffect

LEMMA NextViews == Typed /\ Views /\ [Next]_vars => Views'
<1> SUFFICES ASSUME Typed, Views, [Next]_vars PROVE Views'
  OBVIOUS
<1>1. ASSUME UNCHANGED <<role, version, rows>>, UNCHANGED log PROVE Views'
  BY <1>1, ViewsStay
<1>2. ASSUME NEW u \in Users, NEW c \in Changes, Begin(u, c) PROVE Views'
  BY <1>1, <1>2 DEF Begin, device
<1>3. ASSUME NEW u \in Users, Operation(u) PROVE Views'
  <2>1. CASE Load(u) \/ Conflict(u) \/ Refused(u) \/ Announce(u)
    BY <1>1, <2>1 DEF Load, Conflict, Refused, Announce, device
  <2>2. CASE Write(u)
    <3>1. op[u].to \in Writes
      BY DEF Typed, TypeOK, Operations
    <3>2. PICK s \in States : Stored(u, op[u].base, s)
      BY <2>2, <3>1, UpdatedTypes DEF Write, Take
    <3>3. QED
      BY <2>2, <3>2, StoredAppends, ViewsStay DEF Write, device
  <2>3. QED
    BY <1>3, <2>1, <2>2 DEF Operation
<1>4. ASSUME NEW u \in Users, Refreshing(u) PROVE Views'
  <2>1. CASE Fetch(u)
    BY <1>1, <2>1 DEF Fetch, device
  <2>2. CASE Compact(u)
    <3>1. [members |-> refresh[u].members, admins |-> refresh[u].admins,
           add |-> {}, remove |-> {}] \in Writes
      BY DEF Typed, TypeOK, Refreshes, Writes
    <3>2. Folded(u) \in States
      BY <3>1, UpdatedTypes DEF Folded
    <3>3. CASE Stored(u, refresh[u].base, Folded(u))
      BY <2>2, <3>2, <3>3, StoredAppends, ViewsStay DEF Compact, device
    <3>4. CASE UNCHANGED log
      BY <1>1, <2>2, <3>4 DEF Compact, device
    <3>5. QED
      BY <2>2, <3>3, <3>4 DEF Compact, Folded
  <2>3. QED
    BY <1>4, <2>1, <2>2, ApplyViews DEF Refreshing
<1>5. ASSUME NEW u \in Users, GiveUp(u) PROVE Views'
  BY <1>1, <1>5 DEF GiveUp, device
<1>6. ASSUME NEW u \in Users, NEW w \in Users, ReceiveInvitation(u, w) \/ Repair(u, w)
      PROVE  Views'
  BY <1>1, <1>6 DEF ReceiveInvitation, Repair, device
<1>7. CASE UNCHANGED vars
  BY <1>1, <1>7 DEF vars, device
<1>8. QED
  BY <1>2, <1>3, <1>4, <1>5, <1>6, <1>7 DEF Next

(* A device that knows the group shows the members of the version it has    *)
(* recorded, but for people whose leave it may not have recognised.         *)
THEOREM ViewsAreTrue == Spec => []ViewIsOfItsVersion
<1>1. Typed /\ Views => ViewIsOfItsVersion
  BY DEF Views, Shows, Here, ViewIsOfItsVersion, Typed, TypeOK
<1>2. Spec => []Views
  BY AlwaysTyped, InitViews, NextViews, PTL DEF Spec
<1>3. QED
  BY <1>1, <1>2, AlwaysTyped, PTL

(* Only a refresh records another version, and never an older one.          *)
LEMMA NextAdvances ==
  Typed /\ [Next]_vars => [\A u \in Users : version'[u] >= version[u]]_vars
<1> SUFFICES ASSUME Typed, [Next]_vars, NEW u \in Users PROVE version'[u] >= version[u]
  OBVIOUS
<1>1. /\ version \in [Users -> 0..MaxVersions] /\ MaxVersions \in Nat
      /\ version[u] \in Nat
  BY GroupAssumption DEF Typed, TypeOK
<1>2. CASE version' = version
  BY <1>1, <1>2
<1>3. ASSUME NEW w \in Users, Apply(w) PROVE version'[u] >= version[u]
  <2>1. refresh[w].base \in Nat
    BY <1>3, Entries DEF Apply, Typed, InLog
  <2>2. CASE UNCHANGED version
    BY <1>2, <2>2
  <2>3. CASE /\ refresh[w].base >= version[w]
             /\ version' = [version EXCEPT ![w] = refresh[w].base]
    BY <1>1, <2>1, <2>3
  <2>4. QED
    BY <1>3, <2>2, <2>3 DEF Apply, NotOlder
<1>4. ASSUME NEW w \in Users, Operation(w) \/ Fetch(w) \/ Compact(w) \/ GiveUp(w)
      PROVE  version' = version
  BY <1>4 DEF Operation, Load, Write, Conflict, Refused, Announce, Fetch, Compact, GiveUp,
              device
<1>5. ASSUME NEW w \in Users, NEW c \in Changes, Begin(w, c) PROVE version' = version
  BY <1>5 DEF Begin, device
<1>6. ASSUME NEW w \in Users, NEW x \in Users, ReceiveInvitation(w, x) \/ Repair(w, x)
      PROVE  version' = version
  BY <1>6 DEF ReceiveInvitation, Repair, device
<1>7. QED
  BY <1>2, <1>3, <1>4, <1>5, <1>6 DEF Next, Refreshing, vars, device

(* And it never goes back to an older version, in whatever order the answers*)
(* of the server come and however far they are behind.                      *)
THEOREM ViewsFollow == Spec => ViewsAdvance
<1>1. Spec => [][\A u \in Users : version'[u] >= version[u]]_vars
  BY AlwaysTyped, NextAdvances, PTL DEF Spec
<1>2. QED
  BY <1>1, ViewsAreTrue, PTL DEF ViewsAdvance
=============================================================================

------------------------------- MODULE Groups -------------------------------
(* One group: the versioned state the group server keeps for it, and what   *)
(* every device holds of it.  The server is external: it takes a state that *)
(* follows its current version and is signed with the key of an admin, or a *)
(* member's leave, which it appends to the state and never drops.  What it  *)
(* stores is encrypted; only the devices know what a leave means.           *)
EXTENDS Integers, Sequences, FiniteSets

CONSTANTS
    Users,
    Members,        \* members of the group as the model finds it
    Founder,        \* one of them, an admin
    Attempts,       \* STATE_UPDATE_ATTEMPTS
    MaxVersions,    \* bound: versions of the state
    MaxBehind,      \* bound: versions by which an answer may be outdated
    MaxChanges      \* bound: operations begun

ASSUME GroupAssumption ==
    /\ Members \subseteq Users /\ Founder \in Members
    /\ Attempts \in Nat \ {0} /\ MaxVersions \in Nat \ {0}
    /\ MaxBehind \in Nat /\ MaxChanges \in Nat

VARIABLES
    log,        \* the states the server took; the last one is current
    intent,     \* history: members and admins after every change it took
    known,      \* devices that have a row for the group
    role,       \* joined_group and is_group_admin, of the device itself
    left,       \* left_group
    version,    \* state_version_id
    rows,       \* group_members: the state of every other member
    op,         \* the operation under way on a device
    refresh,    \* the refresh under way on a device, under group_state_lock
    invited,    \* invitations queued or under way, from whom to whom
    changes

device == <<known, role, left, version, rows>>
tasks == <<op, refresh>>
vars == <<log, intent, device, tasks, invited, changes>>

Kinds == {"add", "remove", "promote", "demote", "leave"}
Changes == [kind : Kinds, who : Users]
MemberStates == {"none", "leftGroup", "normal", "admin"}
Roles == {"none", "normal", "admin", "outside"}     \* outside: an admin, not a member
Current == Len(log)
Last == log[Current]

NoWrite == [members |-> {}, admins |-> {}, add |-> {}, remove |-> {}]
Idle == [at |-> "idle", change |-> [kind |-> "leave", who |-> Founder],
         since |-> 0, base |-> 0, attempt |-> 1, to |-> NoWrite]
NoRefresh == [at |-> "idle", base |-> 0, members |-> {}, admins |-> {}]

States == [members : SUBSET Users, admins : SUBSET Users,
           signers : SUBSET Users, left : SUBSET Users]
Writes == [members : SUBSET Users, admins : SUBSET Users,
           add : SUBSET Users, remove : SUBSET Users]
Operations == [at : {"idle", "load", "write", "announce"}, change : Changes,
               since : 0..MaxVersions, base : 0..MaxVersions, attempt : 1..Attempts,
               to : Writes]
Refreshes == [at : {"idle", "apply", "compact"}, base : 0..MaxVersions,
              members : SUBSET Users, admins : SUBSET Users]

TypeOK ==
    /\ log \in Seq(States) /\ Current \in 1..MaxVersions
    /\ intent \in [members : SUBSET Users, admins : SUBSET Users]
    /\ known \subseteq Users /\ left \subseteq Users
    /\ role \in [Users -> Roles]
    /\ version \in [Users -> 0..MaxVersions]
    /\ rows \in [Users -> [Users -> MemberStates]]
    /\ op \in [Users -> Operations] /\ refresh \in [Users -> Refreshes]
    /\ invited \subseteq Users \X Users
    /\ changes \in 0..MaxChanges

(* The group as it is found at some time: every member has joined and is up *)
(* to date, one of them is an admin, and keys may still be on their way.    *)
Init ==
    /\ \E admins \in SUBSET Members :
          /\ Founder \in admins
          /\ log = <<[members |-> Members, admins |-> admins, signers |-> admins,
                      left |-> {}]>>
          /\ role = [u \in Users |-> IF u \in admins THEN "admin"
                                     ELSE IF u \in Members THEN "normal" ELSE "none"]
          /\ rows = [u \in Users |-> [w \in Users |->
                        IF u \in Members /\ w \in Members \ {u} THEN role[w] ELSE "none"]]
    /\ intent = [members |-> log[1].members, admins |-> log[1].admins]
    /\ known = Members /\ left = {} /\ invited = {}
    /\ version = [u \in Users |-> IF u \in Members THEN 1 ELSE 0]
    /\ op = [u \in Users |-> Idle]
    /\ refresh = [u \in Users |-> NoRefresh]
    /\ changes = 0

-----------------------------------------------------------------------------
(* The group server.                                                        *)
MayUpdate(u) == u \in Last.signers

Stored(u, base, state) ==
    /\ Current < MaxVersions
    /\ base = Current
    /\ log' = Append(log, state)

Updated(to) == [members |-> to.members, admins |-> to.admins,
                signers |-> (Last.signers \cup to.add) \ to.remove,
                left |-> Last.left]

Left(u) == [Last EXCEPT !.left = @ \cup {u}]

(* A replica that is behind may answer with a state the group has left.     *)
Answers == {v \in 1..Current : v >= Current - MaxBehind}

\* A mutant: any answer will do.
AnyAge(v, applied) == TRUE

(* ensure_not_older. *)
NotOlder(v, applied) == v >= applied

-----------------------------------------------------------------------------
(* Changes: update_state_with_retry and leave_group.                        *)
MembersAfter(c, members) ==
    IF c.kind = "add" THEN members \cup {c.who}
    ELSE IF c.kind \in {"remove", "leave"} THEN members \ {c.who} ELSE members

AdminsAfter(c, admins) ==
    IF c.kind = "promote" THEN admins \cup {c.who}
    ELSE IF c.kind = "add" THEN admins ELSE admins \ {c.who}

Granted(c) == IF c.kind = "promote" THEN {c.who} ELSE {}

\* A mutant: only a demotion takes the right to sign.
RevokedIfDemoted(c, s) == IF c.kind = "demote" THEN {c.who} ELSE {}

Revoked(c, s) == IF c.kind = "demote" THEN {c.who}
                 ELSE IF c.kind = "remove" THEN {c.who} \cap s.admins ELSE {}

(* The change, applied to the state as it is stored. *)
Changed(c, s) == [members |-> MembersAfter(c, s.members), admins |-> AdminsAfter(c, s.admins),
                  add |-> Granted(c), remove |-> Revoked(c, s)]

(* The columns joined_group and is_group_admin of a device. *)
Joined(u) == role[u] \in {"normal", "admin"}
Admin(u) == role[u] \in {"admin", "outside"}

(* What the views of the group offer.  The menu of a member does not ask    *)
(* whether the admin is one still.                                          *)
Offered(u, c) ==
    \/ c.kind = "leave" /\ c.who = u /\ u \notin left
    \/ /\ c.kind = "add" /\ Admin(u) /\ u \notin left
       /\ c.who # u /\ rows[u][c.who] \in {"none", "leftGroup"}
    \/ /\ c.kind \in {"remove", "promote", "demote"} /\ Admin(u)
       /\ rows[u][c.who] \in {"normal", "admin"}

Begin(u, c) ==
    /\ u \in known /\ op[u].at = "idle"
    /\ changes < MaxChanges
    /\ changes' = changes + 1
    /\ Offered(u, c)
    /\ op' = [op EXCEPT ![u] = [Idle EXCEPT !.at = "load", !.change = c,
                                            !.since = version[u]]]
    /\ UNCHANGED <<log, intent, device, refresh, invited>>

(* load_state, and the change applied to what it returns: an admin leaves by*)
(* removing itself, and a member somebody else has removed needs no change. *)
Load(u) ==
    /\ op[u].at = "load"
    /\ \E v \in Answers :
          LET c == op[u].change
              s == log[v]
              usable == NotOlder(v, op[u].since)
              asAdmin == c.kind = "leave" /\ u \in s.admins
              gone == c.kind = "remove" /\ c.who \notin s.members
          IN  \/ /\ ~usable \/ gone
                 /\ op' = [op EXCEPT ![u] = Idle]
              \/ /\ usable /\ asAdmin
                 /\ op' = [op EXCEPT ![u] =
                       [Idle EXCEPT !.at = "load", !.since = version[u],
                                    !.change = [kind |-> "remove", who |-> u]]]
              \/ /\ usable /\ ~asAdmin /\ ~gone
                 /\ op' = [op EXCEPT ![u] =
                       [@ EXCEPT !.at = "write", !.base = v, !.to = Changed(c, s)]]
    /\ UNCHANGED <<log, intent, device, refresh, invited, changes>>

Take(u) ==
    IF op[u].change.kind = "leave"
       THEN Stored(u, op[u].base, Left(u))
       ELSE MayUpdate(u) /\ Stored(u, op[u].base, Updated(op[u].to))

Write(u) ==
    /\ op[u].at = "write"
    /\ Take(u)
    /\ intent' = [members |-> MembersAfter(op[u].change, intent.members),
                   admins |-> AdminsAfter(op[u].change, intent.admins)]
    /\ op' = [op EXCEPT ![u] = [Idle EXCEPT !.at = "announce", !.change = op[u].change]]
    /\ UNCHANGED <<device, refresh, invited, changes>>

\* A mutant: the change is sent again as it is.
RetryRebased(u) == [op[u] EXCEPT !.base = Current]

Retry(u) == IF op[u].attempt < Attempts
               THEN [op[u] EXCEPT !.at = "load", !.attempt = @ + 1, !.base = 0, !.to = NoWrite]
               ELSE Idle

Conflict(u) ==
    /\ op[u].at = "write"
    /\ op[u].base # Current
    /\ op' = [op EXCEPT ![u] = Retry(u)]
    /\ UNCHANGED <<log, intent, device, refresh, invited, changes>>

Refused(u) ==
    /\ op[u].at = "write"
    /\ op[u].change.kind # "leave" /\ ~MayUpdate(u)
    /\ op' = [op EXCEPT ![u] = Idle]
    /\ UNCHANGED <<log, intent, device, refresh, invited, changes>>

(* The group is told, a new member is invited, one who left is marked.  *)
Announce(u) ==
    /\ op[u].at = "announce"
    /\ LET c == op[u].change
       IN  /\ invited' = IF c.kind = "add" THEN invited \cup {<<u, c.who>>} ELSE invited
           /\ left' = IF c.kind = "leave" THEN left \cup {u} ELSE left
    /\ op' = [op EXCEPT ![u] = Idle]
    /\ UNCHANGED <<log, intent, known, role, version, rows, refresh, changes>>

-----------------------------------------------------------------------------
(* A refresh: the group view, a received update, a message that contradicts *)
(* the rows and an operation that is done ask for one.                      *)
Fetch(u) ==
    /\ u \in known /\ refresh[u].at = "idle"
    /\ \E v \in Answers :
          refresh' = [refresh EXCEPT ![u] = [NoRefresh EXCEPT !.at = "apply", !.base = v]]
    /\ UNCHANGED <<log, intent, device, op, invited, changes>>

(* Whose leave the device can attribute: its own, and those of the members  *)
(* whose group public key has arrived.  A key comes with an invitation or   *)
(* an announcement, or is asked for, and may be late: any others.           *)
Leavers(u, s) == {gone \in SUBSET s.left : u \in s.left => u \in gone}

(* apply_state: everybody has left whom the state does not name. *)
NewRows(u, members, admins) ==
    [w \in Users |-> IF w \in members \ {u}
                        THEN IF w \in admins THEN "admin" ELSE "normal"
                        ELSE IF rows[u][w] = "none" THEN "none" ELSE "leftGroup"]

RoleIn(u, members, admins) ==
    IF u \in members THEN IF u \in admins THEN "admin" ELSE "normal"
                     ELSE IF u \in admins THEN "outside" ELSE "none"

Apply(u) ==
    /\ refresh[u].at = "apply"
    /\ \E gone \in Leavers(u, log[refresh[u].base]) :
          LET v == refresh[u].base
              members == log[v].members \ gone
              admins == log[v].admins \ gone
          IN  IF NotOlder(v, version[u])
                 THEN /\ role' = [role EXCEPT ![u] = RoleIn(u, members, admins)]
                      /\ left' = IF u \in members THEN left \ {u} ELSE left \cup {u}
                      /\ version' = [version EXCEPT ![u] = v]
                      /\ rows' = [rows EXCEPT ![u] = NewRows(u, members, admins)]
                      /\ refresh' = [refresh EXCEPT ![u] =
                            IF gone # {} /\ u \in admins
                               THEN [at |-> "compact", base |-> v, members |-> members,
                                     admins |-> admins]
                               ELSE NoRefresh]
                 ELSE /\ refresh' = [refresh EXCEPT ![u] = NoRefresh]
                      /\ UNCHANGED <<role, left, version, rows>>
    /\ UNCHANGED <<log, intent, known, op, invited, changes>>

(* An admin writes the state back without those who left, if nobody wrote   *)
(* another one meanwhile.                                                   *)
Compact(u) ==
    /\ refresh[u].at = "compact"
    /\ \/ /\ MayUpdate(u)
          /\ Stored(u, refresh[u].base,
                    Updated([members |-> refresh[u].members, admins |-> refresh[u].admins,
                             add |-> {}, remove |-> {}]))
       \/ /\ ~MayUpdate(u) \/ refresh[u].base # Current \/ Current = MaxVersions
          /\ UNCHANGED log
    /\ refresh' = [refresh EXCEPT ![u] = NoRefresh]
    /\ UNCHANGED <<intent, device, op, invited, changes>>

-----------------------------------------------------------------------------
(* Invitations, the messages that change what a device holds of the group.  *)
View(u) == {w \in Users : rows[u][w] \in {"normal", "admin"}}

(* store_group_invitation.  What it carries is the key of its sender; who   *)
(* is a member only the server says.                                        *)
ReceiveInvitation(u, from) ==
    /\ <<from, u>> \in invited
    /\ invited' = invited \ {<<from, u>>}
    /\ known' = known \cup {u}
    /\ left' = left \ {u}
    /\ UNCHANGED <<log, intent, role, version, rows, tasks, changes>>

(* handle_membership_error: a peer that reports not to know the group is    *)
(* invited again, if this device still counts it as a member.               *)
Repair(u, w) ==
    /\ u \in known /\ w \in View(u)
    /\ w \notin known
    /\ <<u, w>> \notin invited
    /\ invited' = invited \cup {<<u, w>>}
    /\ UNCHANGED <<log, intent, device, tasks, changes>>

(* The app stops, or a request fails: what was under way is given up. *)
GiveUp(u) ==
    /\ op' = [op EXCEPT ![u] = Idle]
    /\ refresh' = [refresh EXCEPT ![u] = NoRefresh]
    /\ UNCHANGED <<log, intent, device, invited, changes>>

Operation(u) == Load(u) \/ Write(u) \/ Conflict(u) \/ Refused(u) \/ Announce(u)
Refreshing(u) == Fetch(u) \/ Apply(u) \/ Compact(u)

Next ==
    \/ \E u \in Users, c \in Changes : Begin(u, c)
    \/ \E u \in Users : Operation(u) \/ Refreshing(u) \/ GiveUp(u)
    \/ \E u, w \in Users : ReceiveInvitation(u, w) \/ Repair(u, w)

Spec == Init /\ [][Next]_vars

-----------------------------------------------------------------------------
(* No change the server took is lost, whoever acted at the same time: the   *)
(* stored state, read without those who left, is what all of them together  *)
(* make of it.  Updates that are tried again on a newer version, leaves and *)
(* compactions all race for the next version.                               *)
ChangesKept ==
    /\ Last.members \ Last.left = intent.members \ Last.left
    /\ Last.admins \ Last.left = intent.admins \ Last.left

(* Whoever was removed or demoted cannot sign a later state, and whoever was*)
(* promoted can, also when the change was applied to another state than the *)
(* one it was made for.  (Who leaves while being promoted stays a signer.)  *)
SignersAreAdmins == Last.signers \ Last.left = intent.admins \ Last.left

(* The members a device shows and writes to are those of the version it has *)
(* recorded, but for people whose leave it may not have recognised.         *)
ViewIsOfItsVersion ==
    \A u \in known : version[u] > 0 =>
        LET s == log[version[u]]
            here == View(u) \cup (IF Joined(u) THEN {u} ELSE {})
        IN  /\ here \subseteq s.members
            /\ s.members \ s.left \subseteq here

(* Nor does a device ever go back to an older version: answers of the server*)
(* overtake each other, and refreshes race with the changes of others       *)
(* (apply_fetched_group_state under group_state_lock).                      *)
ViewsAdvance ==
    /\ []ViewIsOfItsVersion
    /\ [][\A u \in Users : version'[u] >= version[u]]_vars
=============================================================================

---------------------------- MODULE RestoreFiles ----------------------------
(* The files a restore replaces, the shadow files it keeps beside them, and *)
(* its journal, seen twice: as the running system shows them (live) and as  *)
(* a power loss may bring them back (disk).  A step on a directory changes  *)
(* live; syncing the directory makes the change durable.                    *)
EXTENDS Integers, Sequences, FiniteSets

CONSTANTS
    Order,          \* the targets, in the order of the journal's entries
    Replaced,       \* targets a restore replaces; the others it removes
    Scratch,        \* shared memory of SQLite: never kept, never restored
    InData,         \* targets outside the directory of the databases
    App,            \* the app database
    MaxInstalls     \* bound: restores

Targets == {Order[i] : i \in DOMAIN Order}

ASSUME OrderAssumption ==
    /\ Order \in Seq(Targets) /\ Len(Order) > 0
    /\ \A i, j \in DOMAIN Order : Order[i] = Order[j] => i = j
ASSUME TargetAssumption ==
    /\ Replaced \subseteq Targets /\ App \in Replaced
    /\ Scratch \subseteq Targets \ Replaced
    /\ InData \subseteq Targets /\ App \notin InData
    /\ MaxInstalls \in Nat

Absent == -1
Generations == 0..MaxInstalls
Suffixes == <<"old", "new", "rollback">>
Names == Targets \X {"target", "old", "new", "rollback"}
Shadows == {n \in Names : n[2] # "target"}
Phases == {"none", "pending", "committed", "rolledBack"}

VARIABLES
    live, disk,             \* the generation every name holds, or Absent
    journal, diskJournal    \* phase, the targets that existed, the identity

files == <<live, disk, journal, diskJournal>>

NoJournal == [phase |-> "none", original |-> {}, identity |-> Absent]
Journals == [phase : Phases, original : SUBSET Targets,
             identity : Generations \cup {Absent}]

FilesTypeOK ==
    /\ live \in [Names -> Generations \cup {Absent}]
    /\ disk \in [Names -> Generations \cup {Absent}]
    /\ journal \in Journals
    /\ diskJournal \in Journals

FilesInit ==
    /\ \E present \in {Replaced, Targets} :
          live = [n \in Names |-> IF n[2] = "target" /\ n[1] \in present
                                     THEN 0 ELSE Absent]
    /\ disk = live
    /\ journal = NoJournal
    /\ diskJournal = NoJournal

(* The i-th shadow, in the order in which they are removed. *)
Shadow(i) == <<Order[(i - 1) \div 3 + 1], Suffixes[((i - 1) % 3) + 1]>>

Put(n, g) == /\ live' = [live EXCEPT ![n] = g]
             /\ UNCHANGED <<disk, journal, diskJournal>>

(* fs::rename.  Two links of one file stay as they are; where the file      *)
(* system could only copy, the name moves.                                  *)
Rename(from, to) ==
    /\ \/ live' = [live EXCEPT ![to] = live[from], ![from] = Absent]
       \/ live[from] = live[to] /\ live' = live
    /\ UNCHANGED <<disk, journal, diskJournal>>

(* A journal is written aside, synced and renamed over the one before. *)
PutJournal(j) == /\ journal' = j
                 /\ UNCHANGED <<live, disk, diskJournal>>

(* sync_parent: everything in the directory of a target becomes durable. *)
SyncParent(t) ==
    /\ disk' = [n \in Names |->
                  IF (n[1] \in InData) = (t \in InData) THEN live[n] ELSE disk[n]]
    /\ diskJournal' = IF t \in InData THEN diskJournal ELSE journal
    /\ UNCHANGED <<live, journal>>

(* After a power loss every name is as it was last synced or as it was last *)
(* seen, each for itself.                                                   *)
LosePower ==
    /\ \E lost \in SUBSET {n \in Names : live[n] # disk[n]} :
          live' = [n \in Names |-> IF n \in lost THEN disk[n] ELSE live[n]]
    /\ disk' = live'
    /\ journal' \in {journal, diskJournal}
    /\ diskJournal' = journal'
=============================================================================

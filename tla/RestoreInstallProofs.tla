------------------------ MODULE RestoreInstallProofs ------------------------
(* A restore and its recovery, for any number of files, generations,       *)
(* identities and faults: what the app may open is one whole generation    *)
(* under its key, what a rollback needs is there, and all of it implements *)
(* the atomic switch.                                                      *)
EXTENDS RestoreInstall, TLAPS

-----------------------------------------------------------------------------
(* The files.  A power loss takes every name from live or from disk and     *)
(* either journal, so what one journal calls for holds of both.             *)

(* The journal as it is seen and as it is on disk: they differ by one step  *)
(* of its life.                                                             *)
JournalSteps ==
    {<<"none", "none">>, <<"pending", "none">>, <<"pending", "pending">>,
     <<"committed", "pending">>, <<"rolledBack", "pending">>,
     <<"committed", "committed">>, <<"rolledBack", "rolledBack">>,
     <<"none", "committed">>, <<"none", "rolledBack">>}

(* What the two sights of the journal have in common.                       *)
JournalsAgree ==
    /\ <<journal.phase, diskJournal.phase>> \in JournalSteps
    /\ journal.phase = "none" => journal = NoJournal
    /\ diskJournal.phase = "none" => diskJournal = NoJournal
    /\ journal.phase # "none" /\ diskJournal.phase # "none" =>
          /\ journal.original = diskJournal.original
          /\ journal.identity = diskJournal.identity

(* The targets generation g consists of that have an old shadow.            *)
Kept(g) == kept[g] \ Scratch

(* The targets are those of generation g and nothing else.                  *)
Whole(f, g) ==
    /\ \A t \in Targets \ Scratch :
          f[<<t, "target">>] = IF t \in kept[g] THEN g ELSE Absent
    /\ \A t \in Scratch : f[<<t, "target">>] \in {g, Absent}

(* Generation g can be put back.                                            *)
Saved(f, g) == \A t \in Kept(g) : f[<<t, "old">>] = g

(* A power loss now, or a start, may meet a journal that calls for a        *)
(* rollback.                                                                *)
Pending == "pending" \in {journal.phase, diskJournal.phase}
BothPending == journal.phase = "pending" /\ diskJournal.phase = "pending"

(* A generation newer than the durable one is still without sidecar files.  *)
Generational ==
    /\ Durable \in 0..installs
    /\ \A g \in Generations : Replaced \subseteq kept[g]
    /\ \A g \in Generations : g > Durable => kept[g] = Replaced

(* A journal that calls for a rollback names what there is to put back.     *)
SavedInv == Pending => /\ Saved(live, Durable) /\ Saved(disk, Durable)
                       /\ journal.original = Kept(Durable)

(* Which generation the targets are: any mixture while the rollback is      *)
(* certain, the new one between the commit and its sync, the durable one    *)
(* otherwise.                                                               *)
WholeInv ==
    \/ journal.phase = "pending" /\ diskJournal.phase = "pending"
    \/ /\ journal.phase = "committed" /\ diskJournal.phase = "pending"
       /\ Current \in (Durable + 1)..installs
       /\ Whole(live, Current) /\ Whole(disk, Current)
    \/ /\ ~(journal.phase \in {"pending", "committed"} /\ diskJournal.phase = "pending")
       /\ Whole(live, Durable) /\ Whole(disk, Durable)

FilesInv == JournalsAgree /\ Generational /\ SavedInv /\ WholeInv

-----------------------------------------------------------------------------
(* The keys, the token and the staged identity.                             *)
Committed == journal.phase = "committed" /\ diskJournal.phase = "committed"
Staged(i) == record.id = i /\ ~record.applied

(* The keys are those of the durable generation, but for a commit whose     *)
(* identity waits to be applied; an identity that is active and not         *)
(* acknowledged can only be in the middle of that.                          *)
VaultInv ==
    /\ keys.id <= record.id
    /\ Staged(keys.id) =>
          Committed /\ journal.identity = record.id /\ keys.version = 0
    /\ token \in {Absent, keys.id} \/ Staged(keys.id)
    /\ keys.id = keyOf[Durable] \/ (Committed /\ Staged(journal.identity))
    /\ journal.phase = "committed" /\ Staged(journal.identity) =>
          keyOf[Current] = record.id
    /\ journal.phase = "committed" /\ diskJournal.phase = "pending" =>
          IF journal.identity = Absent THEN keyOf[Current] = keys.id
                                       ELSE Staged(journal.identity)
    /\ diskJournal.phase = "committed" => diskJournal.identity <= record.id
    /\ journal.phase = "none" /\ diskJournal.phase = "committed" =>
          ~Staged(diskJournal.identity)

-----------------------------------------------------------------------------
(* How far the procedure is.                                                *)
Past == {Order[k] : k \in 1..(at - 1)}

(* The loops of recover_locked, install_coordinated and cleanup, and apply. *)
Rollback == {"unlinkRollback", "relink", "renameBack", "syncRestored"}
Prepare == {"retain", "copy", "syncPrepared"}
Swap == {"replace", "syncReplaced"}
Clean == {"unlink", "syncUnlinked", "unlinkJournal", "syncJournal"}
Apply == {"storeKeys", "dropToken", "acknowledge"}

(* Only a loop is at an entry other than the first.                         *)
AtInv ==
    /\ pc \in Rollback \cup Prepare \cup Swap => at \in 1..Len(Order)
    /\ pc \notin Rollback \cup Prepare \cup Swap \cup {"unlink", "syncUnlinked"} => at = 1

(* What a target was before the restore, and what it is after it.           *)
Former(t) == IF t \in journal.original THEN Durable ELSE Absent
Latter(t) == IF t \in Replaced THEN job.gen ELSE Absent

(* The targets of S are put back, for good.                                 *)
Restored(S) == \A t \in S :
    /\ live[<<t, "target">>] = Former(t) /\ disk[<<t, "target">>] = Former(t)
    /\ t \notin InData => diskJournal = journal

(* A rollback has put back the entries behind it.                           *)
RollbackInv ==
    /\ pc \in Rollback => journal.phase = "pending" /\ Restored(Past)
    /\ pc = "relink" => Target \in journal.original
    /\ pc = "renameBack" => /\ Target \in journal.original
                            /\ live[<<Target, "rollback">>] = Durable
    /\ pc = "syncRestored" => live[<<Target, "target">>] = Former(Target)
    /\ pc = "publishRolledBack" => journal.phase = "pending" /\ Restored(Targets)
    /\ pc = "syncRolledBack" => journal.phase = "rolledBack"
    /\ pc = "syncTerminal" => journal.phase \in {"committed", "rolledBack"}

(* The targets of S are retained and copied, which is what the journal will *)
(* say.                                                                     *)
Prepared(S) ==
    /\ job.original \cap S = Kept(Durable) \cap S
    /\ \A t \in S :
          /\ t \in Kept(Durable) =>
                live[<<t, "old">>] = Durable /\ disk[<<t, "old">>] = Durable
          /\ t \in Replaced => live[<<t, "new">>] = job.gen
          /\ t \notin InData => diskJournal = NoJournal

(* A preparation has retained and copied the entries behind it, and         *)
(* published nothing.                                                       *)
PrepareInv ==
    /\ pc \in Prepare => Prepared(Past)
    /\ pc = "retain" => job.original \subseteq Past
    /\ pc \in {"copy", "syncPrepared"} =>
          /\ job.original \subseteq Past \cup {Target}
          /\ Target \in job.original <=> Target \in Kept(Durable)
          /\ Target \in job.original => live[<<Target, "old">>] = Durable
    /\ pc = "syncPrepared" /\ Target \in Replaced => live[<<Target, "new">>] = job.gen
    /\ pc = "orphans" => job.original = {}
    /\ pc = "publish" => Prepared(Targets)
    /\ pc \in {"orphans", "publish"} \cup Prepare => journal = NoJournal

(* The new shadows of S wait; the targets of S are replaced for good.       *)
Copied(S) == \A t \in S \cap Replaced : live[<<t, "new">>] = job.gen
Swapped(S) == \A t \in S :
    live[<<t, "target">>] = Latter(t) /\ disk[<<t, "target">>] = Latter(t)

(* Replacing works on a durable journal and has replaced the entries behind *)
(* it.                                                                      *)
SwapInv ==
    /\ pc = "syncPublished" => journal.phase = "pending" /\ Copied(Targets)
    /\ pc \in Swap => BothPending /\ Swapped(Past)
    /\ pc = "replace" => Copied(Targets \ Past)
    /\ pc = "syncReplaced" => /\ Copied(Targets \ (Past \cup {Target}))
                              /\ live[<<Target, "target">>] = Latter(Target)
    /\ pc = "commit" => BothPending /\ Swapped(Targets)
    /\ pc = "syncCommitted" => journal.phase = "committed"
    /\ pc \in Swap \cup {"syncPublished", "commit", "syncCommitted"} =>
          journal.identity = job.identity

(* Keys are applied for a durable commit only.                              *)
ApplyInv ==
    /\ pc \in Apply => Committed /\ journal.identity # Absent
    /\ pc \in {"dropToken", "acknowledge"} => Staged(keys.id)
    /\ pc = "acknowledge" => token = Absent

(* Nothing is cleaned up that a rollback or the keys may still need.        *)
CleanInv ==
    /\ pc \in Clean => /\ ~Pending
                       /\ journal.phase = "committed" => ~Staged(journal.identity)
    /\ pc = "syncJournal" => journal = NoJournal

(* A restore up to its commit.                                              *)
Early == {"orphans", "publish", "syncPublished", "commit"} \cup Prepare \cup Swap

(* What is being installed is newer than what is durable and fits its key;  *)
(* once its commit is durable it is what is durable.                        *)
JobInv ==
    /\ pc = "idle" => cont = "open"
    /\ pc \in Early \cup {"syncCommitted"} => cont = "fresh"
    /\ pc \in {"unlinkRollback", "relink", "renameBack", "syncRestored",
               "publishRolledBack", "syncRolledBack", "syncTerminal"} =>
          cont \in {"open", "resolve"}
    /\ pc = "check" => cont \in {"open", "install", "resolve"}
    /\ pc \in Clean \cup Apply => cont # "install"
    /\ cont = "install" => journal.phase = "none"
    /\ cont = "install" => job.original = {}
    /\ pc \in Early \/ cont = "install" =>
          /\ job.gen \in (Durable + 1)..installs
          /\ ~job.committed
          /\ IF job.identity = Absent THEN keyOf[job.gen] = keys.id
                ELSE Staged(job.identity) /\ keyOf[job.gen] = job.identity
    /\ pc = "syncCommitted" => ~job.committed
    /\ cont \in {"fresh", "resolve"} /\ journal.phase = "committed" => Current = job.gen
    /\ job.committed /\ cont # "open" =>
          Durable = job.gen /\ ~Pending /\ journal.phase # "rolledBack"

(* The inductive invariant.                                                 *)
IInv == /\ TypeOK /\ FilesInv /\ VaultInv /\ AtInv /\ RollbackInv /\ PrepareInv
        /\ SwapInv /\ ApplyInv /\ CleanInv /\ JobInv

-----------------------------------------------------------------------------
(* Facts about the model's operators.                                       *)

(* The journal's order lists every target once.                             *)
LEMMA OrderFacts ==
    /\ Len(Order) \in Nat \ {0}
    /\ DOMAIN Order = 1..Len(Order)
    /\ \A i \in 1..Len(Order) : Order[i] \in Targets
    /\ \A t \in Targets : \E i \in 1..Len(Order) : Order[i] = t
    /\ \A i, j \in 1..Len(Order) : Order[i] = Order[j] => i = j
BY OrderAssumption DEF Targets

(* Every name is a target with a suffix.                                    *)
LEMMA NameFacts ==
  ASSUME NEW t \in Targets
  PROVE  /\ <<t, "target">> \in Names /\ <<t, "old">> \in Names
         /\ <<t, "new">> \in Names /\ <<t, "rollback">> \in Names
         /\ <<t, "old">> \in Shadows /\ <<t, "new">> \in Shadows
         /\ <<t, "rollback">> \in Shadows
         /\ <<t, "target">> \notin Shadows
BY DEF Names, Shadows

(* Every step of the cleanup removes a shadow.                              *)
LEMMA ShadowFacts ==
  /\ Shadows \subseteq Names
  /\ \A i \in 1..(3 * Len(Order)) : Shadow(i) \in Shadows /\ Shadow(i)[1] \in Targets
<1>1. Shadows \subseteq Names
  BY DEF Shadows
<1>2. ASSUME NEW i \in 1..(3 * Len(Order))
      PROVE  Shadow(i) \in Shadows /\ Shadow(i)[1] \in Targets
  <2> DEFINE q == (i - 1) \div 3
             r == (i - 1) % 3
  <2>1. q \in 0..(Len(Order) - 1) /\ r \in 0..2
    BY OrderFacts
  <2>2. Order[q + 1] \in Targets
    BY <2>1, OrderFacts
  <2>3. Suffixes[r + 1] \in {"old", "new", "rollback"}
    BY <2>1 DEF Suffixes
  <2>4. Shadow(i) = <<Order[q + 1], Suffixes[r + 1]>>
    BY DEF Shadow
  <2> HIDE DEF q, r
  <2> QED BY <2>2, <2>3, <2>4 DEF Shadows, Names
<1> QED BY <1>1, <1>2

(* The app database is a target of every generation, in its own directory.  *)
LEMMA AppFacts == App \in Targets /\ App \in Replaced /\ App \notin Scratch /\ App \notin InData
BY TargetAssumption

(* The entries behind the one at hand.                                      *)
LEMMA PastFacts ==
  /\ at = 1 => Past = {}
  /\ at \in 1..Len(Order) =>
        /\ Target \in Targets /\ Target \notin Past /\ Past \subseteq Targets
        /\ at' = at + 1 => Past' = Past \cup {Target}
        /\ at = Len(Order) => Targets = Past \cup {Target}
<1>1. at = 1 => Past = {}
  BY DEF Past
<1>2. ASSUME at \in 1..Len(Order)
      PROVE  Target \in Targets /\ Target \notin Past /\ Past \subseteq Targets
  BY <1>2, OrderFacts DEF Target, Past
<1>3. ASSUME at \in 1..Len(Order), at' = at + 1
      PROVE  Past' = Past \cup {Target}
  <2>1. 1..(at' - 1) = (1..(at - 1)) \cup {at}
    BY <1>3, OrderFacts
  <2> QED BY <2>1 DEF Past, Target
<1>4. ASSUME at \in 1..Len(Order), at = Len(Order)
      PROVE  Targets = Past \cup {Target}
  <2>1. 1..Len(Order) = (1..(at - 1)) \cup {at}
    BY <1>4, OrderFacts
  <2> QED BY <2>1, OrderFacts DEF Past, Target, Targets
<1> QED BY <1>1, <1>2, <1>3, <1>4

(* What a step on one name, on a directory, or a power loss does, name by   *)
(* name.                                                                    *)
LEMMA PutNames ==
  ASSUME FilesTypeOK, NEW n \in Names, NEW g \in Generations \cup {Absent}, Put(n, g)
  PROVE  /\ FilesTypeOK'
         /\ \A m \in Names : live'[m] = IF m = n THEN g ELSE live[m]
         /\ disk' = disk /\ journal' = journal /\ diskJournal' = diskJournal
BY DEF FilesTypeOK, Put

(* A rename moves one name and leaves the others.                           *)
LEMMA RenameNames ==
  ASSUME FilesTypeOK, NEW n \in Names, NEW m \in Names, n # m, Rename(n, m)
  PROVE  /\ FilesTypeOK'
         /\ live'[m] = live[n]
         /\ \A k \in Names \ {n, m} : live'[k] = live[k]
         /\ disk' = disk /\ journal' = journal /\ diskJournal' = diskJournal
BY DEF FilesTypeOK, Rename

(* Syncing makes the names of one directory durable, the journal with those *)
(* of the databases.                                                        *)
LEMMA SyncNames ==
  ASSUME FilesTypeOK, NEW t \in Targets, SyncParent(t)
  PROVE  /\ FilesTypeOK'
         /\ live' = live /\ journal' = journal
         /\ \A n \in Names : disk'[n] \in {live[n], disk[n]}
         /\ \A n \in Names : n[1] = t => disk'[n] = live[n]
         /\ \A n \in Names : t \notin InData /\ n[1] \notin InData => disk'[n] = live[n]
         /\ \A n \in Names : t \in InData /\ n[1] \notin InData => disk'[n] = disk[n]
         /\ diskJournal' = IF t \in InData THEN diskJournal ELSE journal
BY DEF FilesTypeOK, SyncParent

(* A power loss takes every name from live or disk, and either journal.     *)
LEMMA LoseNames ==
  ASSUME FilesTypeOK, LosePower
  PROVE  /\ FilesTypeOK'
         /\ \A n \in Names : live'[n] \in {live[n], disk[n]}
         /\ disk' = live'
         /\ journal' \in {journal, diskJournal} /\ diskJournal' = journal'
BY DEF FilesTypeOK, LosePower

(* Which generation the targets are, the app database shows.                *)
LEMMA WholeShows ==
  ASSUME NEW f, NEW g \in Generations, Whole(f, g), Replaced \subseteq kept[g]
  PROVE  f[<<App, "target">>] = g
BY AppFacts DEF Whole

(* Files put together from two whole generations, or two that can be put    *)
(* back, of the same number are one.                                        *)
LEMMA MixIsWhole ==
  ASSUME NEW f, NEW e, NEW h, NEW g,
         \A t \in Targets : h[<<t, "target">>] \in {e[<<t, "target">>], f[<<t, "target">>]}
  PROVE  Whole(e, g) /\ Whole(f, g) => Whole(h, g)
BY TargetAssumption DEF Whole

(* The same of the files to go back to.                                     *)
LEMMA MixIsSaved ==
  ASSUME NEW f, NEW e, NEW h, NEW g \in Generations, TypeOK,
         \A t \in Targets : h[<<t, "old">>] \in {e[<<t, "old">>], f[<<t, "old">>]}
  PROVE  Saved(e, g) /\ Saved(f, g) => Saved(h, g)
BY DEF Saved, Kept, TypeOK

-----------------------------------------------------------------------------
(* The files part of the invariant, step by step.                           *)

(* What the invariant says of the current and the durable generation.       *)
LEMMA Generation ==
  ASSUME TypeOK, FilesInv
  PROVE  /\ Durable \in Generations /\ App \in Kept(Durable)
         /\ ~BothPending => Current \in Generations
         /\ ~BothPending /\ ~(journal.phase = "committed" /\ diskJournal.phase = "pending")
               => Current = Durable
         /\ ~BothPending => Whole(live, Current) /\ Whole(disk, Current)
                            /\ disk[<<App, "target">>] = Current
         /\ Pending => disk[<<App, "old">>] = Durable /\ live[<<App, "old">>] = Durable
<1>1. Durable \in Generations
  BY TargetAssumption DEF FilesInv, Generational, TypeOK, Generations
<1>2. App \in Kept(Durable)
  BY <1>1, AppFacts DEF FilesInv, Generational, Kept
<1>3. Pending => disk[<<App, "old">>] = Durable /\ live[<<App, "old">>] = Durable
  BY <1>2 DEF FilesInv, SavedInv, Saved
<1>4. ASSUME ~BothPending, ~(journal.phase = "committed" /\ diskJournal.phase = "pending")
      PROVE  /\ Current = Durable /\ Whole(live, Current) /\ Whole(disk, Current)
             /\ disk[<<App, "target">>] = Current
  <2>1. Whole(live, Durable) /\ Whole(disk, Durable)
    BY <1>4 DEF FilesInv, WholeInv, BothPending
  <2>2. Replaced \subseteq kept[Durable]
    BY <1>1 DEF FilesInv, Generational
  <2>3. live[<<App, "target">>] = Durable /\ disk[<<App, "target">>] = Durable
    BY <1>1, <2>1, <2>2, WholeShows
  <2> QED BY <2>1, <2>3 DEF Current
<1>5. ASSUME journal.phase = "committed" /\ diskJournal.phase = "pending"
      PROVE  /\ Current \in Generations /\ Whole(live, Current) /\ Whole(disk, Current)
             /\ disk[<<App, "target">>] = Current
  <2>1. Current \in (Durable + 1)..installs /\ Whole(live, Current) /\ Whole(disk, Current)
    BY <1>5 DEF FilesInv, WholeInv
  <2>2. Current \in Generations
    BY <1>1, <2>1, TargetAssumption DEF TypeOK, Generations
  <2>3. Replaced \subseteq kept[Current]
    BY <2>2 DEF FilesInv, Generational
  <2> QED BY <2>1, <2>2, <2>3, WholeShows
<1> QED BY <1>1, <1>2, <1>3, <1>4, <1>5

(* A step on shadows other than the saved files, or on any of them once no  *)
(* rollback can follow, changes nothing the app or a recovery goes by.      *)
LEMMA ShadowFiles ==
  ASSUME TypeOK, FilesInv, UNCHANGED <<journal, diskJournal, installs, kept>>,
         \A t \in Targets : live'[<<t, "target">>] = live[<<t, "target">>],
         \A t \in Targets : disk'[<<t, "target">>] = disk[<<t, "target">>],
         Pending => \A t \in Targets : /\ live'[<<t, "old">>] = live[<<t, "old">>]
                                       /\ disk'[<<t, "old">>] = disk[<<t, "old">>]
  PROVE  FilesInv' /\ Durable' = Durable /\ Current' = Current
<1>1. Current' = Current
  BY AppFacts DEF Current
<1>2. Durable' = Durable
  BY AppFacts DEF Durable, Pending
<1>3. JournalsAgree' /\ Generational'
  BY <1>2 DEF FilesInv, JournalsAgree, Generational
<1>4. \A g : Whole(live, g) => Whole(live', g)
  BY TargetAssumption DEF Whole
<1>5. \A g : Whole(disk, g) => Whole(disk', g)
  BY TargetAssumption DEF Whole
<1>6. WholeInv'
  <2>1. \A g : Whole(live', g) = Whole(live, g)' /\ Whole(disk', g) = Whole(disk, g)'
    BY DEF Whole
  <2> QED BY <1>1, <1>2, <1>4, <1>5, <2>1 DEF FilesInv, WholeInv
<1>7. SavedInv'
  <2>1. SUFFICES ASSUME Pending PROVE SavedInv'
    BY DEF SavedInv, Pending
  <2>2. Kept(Durable)' = Kept(Durable) /\ Kept(Durable) \subseteq Targets
    BY <1>2, Generation DEF Kept, TypeOK
  <2> QED BY <1>2, <2>1, <2>2 DEF FilesInv, SavedInv, Saved, Pending
<1> QED BY <1>1, <1>2, <1>3, <1>6, <1>7 DEF FilesInv

(* Syncing a directory makes the generation on it the durable one.          *)
LEMMA SyncFiles ==
  ASSUME TypeOK, FilesInv, NEW t \in Targets, SyncParent(t), UNCHANGED <<installs, kept>>
  PROVE  /\ FilesInv' /\ Current' = Current
         /\ Durable' = IF journal.phase = "committed" /\ t \notin InData
                          THEN Current ELSE Durable
<1>1. /\ live' = live /\ journal' = journal
      /\ \A n \in Names : disk'[n] \in {live[n], disk[n]}
      /\ \A n \in Names : t \notin InData /\ n[1] \notin InData => disk'[n] = live[n]
      /\ \A n \in Names : t \in InData /\ n[1] \notin InData => disk'[n] = disk[n]
      /\ diskJournal' = IF t \in InData THEN diskJournal ELSE journal
  BY SyncNames DEF TypeOK
<1>2. Current' = Current
  BY <1>1 DEF Current
<1>3. /\ <<App, "target">> \in Names /\ <<App, "old">> \in Names /\ App \notin InData
  BY AppFacts, NameFacts
<1>4. /\ t \in InData => disk'[<<App, "target">>] = disk[<<App, "target">>]
                         /\ disk'[<<App, "old">>] = disk[<<App, "old">>]
      /\ t \notin InData => disk'[<<App, "target">>] = live[<<App, "target">>]
                            /\ disk'[<<App, "old">>] = live[<<App, "old">>]
  BY <1>1, <1>3
<1>5. JournalsAgree'
  BY <1>1 DEF FilesInv, JournalsAgree, JournalSteps
<1>6. Durable' = IF journal.phase = "committed" /\ t \notin InData
                    THEN Current ELSE Durable
  <2>1. CASE t \in InData
    BY <1>1, <1>4, <2>1 DEF Durable
  <2>2. CASE t \notin InData /\ journal.phase = "pending"
    BY <1>1, <1>4, <2>2, Generation DEF Durable, Pending
  <2>3. CASE t \notin InData /\ journal.phase = "committed"
    BY <1>1, <1>4, <2>3 DEF Durable, Current
  <2>4. CASE t \notin InData /\ journal.phase \notin {"committed", "pending"}
    BY <1>1, <1>4, <2>4, Generation DEF Durable, Current, BothPending
  <2> QED BY <2>1, <2>2, <2>3, <2>4
<1>7. Durable' \in 0..installs /\ Durable' >= Durable /\ Durable \in Generations
  <2>1. Durable \in 0..installs /\ installs \in Nat
    BY DEF FilesInv, Generational, TypeOK, Generations
  <2>2. CASE journal.phase = "committed" /\ diskJournal.phase = "pending"
    BY <1>6, <2>1, <2>2, Generation DEF FilesInv, WholeInv
  <2>3. CASE ~(journal.phase = "committed" /\ diskJournal.phase = "pending")
    BY <1>6, <2>1, <2>3, Generation DEF BothPending
  <2> QED BY <2>1, <2>2, <2>3, Generation
<1>8. Generational'
  BY <1>7, TargetAssumption DEF FilesInv, Generational, Generations
<1>9. ASSUME NEW g PROVE /\ Whole(live, g)' <=> Whole(live, g)
                         /\ Whole(live, g) /\ Whole(disk, g) => Whole(disk, g)'
  <2>1. \A u \in Targets : disk'[<<u, "target">>] \in {live[<<u, "target">>], disk[<<u, "target">>]}
    BY <1>1, NameFacts
  <2>2. Whole(live, g) /\ Whole(disk, g) => Whole(disk', g)
    BY <2>1, MixIsWhole
  <2> QED BY <1>1, <2>2 DEF Whole
<1>10. WholeInv'
  <2>1. installs' = installs /\ <<journal.phase, diskJournal.phase>> \in JournalSteps
    BY DEF FilesInv, JournalsAgree
  <2>2. CASE journal.phase = "pending"
    <3>1. CASE diskJournal.phase = "pending"
      BY <1>1, <2>2, <3>1 DEF WholeInv
    <3>2. CASE diskJournal.phase = "none"
      <4>1. Whole(live, Durable) /\ Whole(disk, Durable) /\ Durable' = Durable
        BY <1>6, <2>2, <3>2 DEF FilesInv, WholeInv
      <4> QED BY <1>1, <1>9, <2>2, <3>2, <4>1 DEF WholeInv, Whole
    <3> QED BY <2>1, <2>2, <3>1, <3>2 DEF JournalSteps
  <2>3. CASE journal.phase = "committed" /\ diskJournal.phase = "pending"
    <3>1. /\ Current \in (Durable + 1)..installs
          /\ Whole(live, Current) /\ Whole(disk, Current)
      BY <2>3 DEF FilesInv, WholeInv
    <3>2. Whole(live, Current)' /\ Whole(disk, Current)'
      BY <1>2, <1>9, <3>1 DEF Whole
    <3>3. CASE t \in InData
      BY <1>1, <1>2, <1>6, <2>1, <2>3, <3>1, <3>2, <3>3 DEF WholeInv
    <3>4. CASE t \notin InData
      <4>1. Durable' = Current'
        BY <1>2, <1>6, <2>3, <3>4
      <4>2. Whole(live, Durable)' /\ Whole(disk, Durable)'
        BY <3>2, <4>1 DEF Whole
      <4> QED BY <1>1, <2>3, <3>4, <4>2 DEF WholeInv
    <3> QED BY <3>3, <3>4
  <2>4. CASE ~(journal.phase \in {"pending", "committed"} /\ diskJournal.phase = "pending")
             /\ journal.phase # "pending"
    <3>1. Whole(live, Durable) /\ Whole(disk, Durable) /\ Current = Durable
      BY <2>4, Generation DEF FilesInv, WholeInv, BothPending
    <3>2. Durable' = Durable
      BY <1>6, <3>1
    <3>3. Whole(live, Durable)' /\ Whole(disk, Durable)'
      BY <1>9, <3>1, <3>2 DEF Whole
    <3> QED BY <1>1, <2>1, <2>4, <3>3 DEF WholeInv, JournalSteps
  <2>5. CASE journal.phase = "rolledBack" /\ diskJournal.phase = "pending"
    <3>1. Whole(live, Durable) /\ Whole(disk, Durable) /\ Durable' = Durable
      BY <1>6, <2>5 DEF FilesInv, WholeInv
    <3> QED BY <1>1, <1>9, <2>5, <3>1 DEF WholeInv, Whole
  <2> QED BY <2>2, <2>3, <2>4, <2>5
<1>11. SavedInv'
  <2>1. SUFFICES ASSUME Pending' PROVE SavedInv'
    BY DEF SavedInv
  <2>2. Pending /\ Durable' = Durable
    BY <1>1, <1>6, <2>1 DEF Pending, FilesInv, JournalsAgree, JournalSteps
  <2>3. Saved(live, Durable) /\ Saved(disk, Durable) /\ journal.original = Kept(Durable)
    BY <2>2 DEF FilesInv, SavedInv
  <2>4. \A u \in Targets : disk'[<<u, "old">>] \in {live[<<u, "old">>], disk[<<u, "old">>]}
    BY <1>1, NameFacts
  <2>5. Saved(disk', Durable)
    BY <1>7, <2>3, <2>4, MixIsSaved
  <2> QED BY <1>1, <2>2, <2>3, <2>5 DEF SavedInv, Saved, Kept
<1> QED BY <1>2, <1>5, <1>6, <1>8, <1>10, <1>11 DEF FilesInv

(* A power loss leads to the durable generation or, with the journal of a   *)
(* commit, to the current one.                                              *)
LEMMA LoseFiles ==
  ASSUME TypeOK, FilesInv, LosePower, UNCHANGED <<installs, kept>>
  PROVE  /\ FilesInv'
         /\ Durable' = IF journal'.phase = "committed" THEN Current ELSE Durable
         /\ journal'.phase = "committed" => Current' = Current
<1>1. /\ \A n \in Names : live'[n] \in {live[n], disk[n]}
      /\ disk' = live'
      /\ journal' \in {journal, diskJournal} /\ diskJournal' = journal'
  BY LoseNames DEF TypeOK
<1>2. JournalsAgree'
  BY <1>1 DEF FilesInv, JournalsAgree, JournalSteps
<1>3. \A t \in Targets :
         /\ live'[<<t, "target">>] \in {live[<<t, "target">>], disk[<<t, "target">>]}
         /\ live'[<<t, "old">>] \in {live[<<t, "old">>], disk[<<t, "old">>]}
  BY <1>1, NameFacts
<1>4. ~BothPending => live'[<<App, "target">>] = Current
  BY <1>3, AppFacts, Generation DEF Current
<1>5. Pending => live'[<<App, "old">>] = Durable
  BY <1>3, AppFacts, Generation
<1>6. Durable' = IF journal'.phase = "committed" THEN Current ELSE Durable
  <2>1. CASE journal'.phase = "pending"
    BY <1>1, <1>5, <2>1 DEF Durable, Pending
  <2>2. CASE journal'.phase = "committed"
    BY <1>1, <1>4, <2>2 DEF Durable, BothPending
  <2>3. CASE journal'.phase \notin {"pending", "committed"}
    BY <1>1, <1>4, <2>3, Generation
       DEF Durable, BothPending, FilesInv, JournalsAgree, JournalSteps
  <2> QED BY <2>1, <2>2, <2>3
<1>7. journal'.phase = "committed" => Current' = Current
  BY <1>1, <1>4 DEF Current, BothPending
<1>8. Durable' \in 0..installs /\ Durable' >= Durable /\ Durable \in Generations
  <2>1. Durable \in 0..installs /\ installs \in Nat
    BY DEF FilesInv, Generational, TypeOK, Generations
  <2>2. CASE journal.phase = "committed" /\ diskJournal.phase = "pending"
    BY <1>6, <2>1, <2>2, Generation DEF FilesInv, WholeInv
  <2>3. CASE ~(journal.phase = "committed" /\ diskJournal.phase = "pending")
    BY <1>1, <1>6, <2>1, <2>3, Generation DEF BothPending
  <2> QED BY <2>1, <2>2, <2>3, Generation
<1>9. Generational'
  BY <1>8, TargetAssumption DEF FilesInv, Generational, Generations
<1>10. \A g : Whole(live, g) /\ Whole(disk, g) => Whole(live', g) /\ Whole(disk', g)
  BY <1>1, <1>3, MixIsWhole
<1>11. WholeInv'
  <2>1. CASE journal'.phase = "pending"
    BY <1>1, <2>1 DEF WholeInv
  <2>2. CASE journal'.phase # "pending"
    <3>1. Whole(live, Durable') /\ Whole(disk, Durable')
      <4>1. CASE journal'.phase = "committed"
        BY <1>1, <1>6, <4>1, Generation DEF BothPending
      <4>2. CASE journal'.phase # "committed"
        BY <1>1, <1>6, <2>2, <4>2 DEF FilesInv, WholeInv, JournalsAgree, JournalSteps
      <4> QED BY <4>1, <4>2
    <3>2. Whole(live', Durable') /\ Whole(disk', Durable')
      BY <1>10, <3>1
    <3> QED BY <1>1, <2>2, <3>2 DEF WholeInv, Whole
  <2> QED BY <2>1, <2>2
<1>12. SavedInv'
  <2>1. SUFFICES ASSUME Pending' PROVE SavedInv'
    BY DEF SavedInv
  <2>2. Pending /\ Durable' = Durable /\ journal'.phase = "pending"
    BY <1>1, <1>6, <2>1 DEF Pending
  <2>3. Saved(live, Durable) /\ Saved(disk, Durable) /\ journal'.original = Kept(Durable)
    BY <1>1, <2>2 DEF FilesInv, SavedInv, JournalsAgree, JournalSteps
  <2>4. Saved(live', Durable)
    BY <1>3, <1>8, <2>3, MixIsSaved
  <2> QED BY <1>1, <2>2, <2>3, <2>4 DEF SavedInv, Saved, Kept
<1> QED BY <1>2, <1>6, <1>7, <1>9, <1>11, <1>12 DEF FilesInv

(* A rollback puts the target at hand back: until the journal is durable it *)
(* looked like that before.                                                 *)
LEMMA PutBackFiles ==
  ASSUME TypeOK, FilesInv, journal.phase = "pending", NEW t \in Targets,
         UNCHANGED <<journal, disk, diskJournal, installs, kept>>,
         live'[<<t, "target">>] = Former(t),
         \A u \in Targets \ {t} : live'[<<u, "target">>] = live[<<u, "target">>],
         \A u \in Targets : live'[<<u, "old">>] = live[<<u, "old">>]
  PROVE  FilesInv' /\ Durable' = Durable
<1>1. Durable' = Durable
  BY DEF Durable
<1>2. JournalsAgree' /\ Generational'
  BY <1>1 DEF FilesInv, JournalsAgree, Generational
<1>3. SavedInv'
  <2>1. Kept(Durable)' = Kept(Durable) /\ Kept(Durable) \subseteq Targets
    BY <1>1, Generation DEF Kept, TypeOK
  <2> QED BY <1>1, <2>1 DEF FilesInv, SavedInv, Saved, Pending
<1>4. WholeInv'
  <2>1. CASE diskJournal.phase = "pending"
    BY <2>1 DEF WholeInv
  <2>2. CASE diskJournal.phase = "none"
    <3>1. Whole(live, Durable) /\ Whole(disk, Durable) /\ journal.original = Kept(Durable)
      BY <2>2 DEF FilesInv, WholeInv, SavedInv, Pending
    <3>2. Whole(live', Durable)
      BY <3>1, TargetAssumption DEF Whole, Former, Kept
    <3> QED BY <1>1, <2>2, <3>1, <3>2 DEF WholeInv, Whole
  <2> QED BY <2>1, <2>2 DEF FilesInv, JournalsAgree, JournalSteps
<1> QED BY <1>1, <1>2, <1>3, <1>4 DEF FilesInv

(* While a rollback is possible and durable the targets may be anything.    *)
LEMMA SwapFiles ==
  ASSUME TypeOK, FilesInv, BothPending,
         UNCHANGED <<journal, disk, diskJournal, installs, kept>>,
         \A u \in Targets : live'[<<u, "old">>] = live[<<u, "old">>]
  PROVE  FilesInv' /\ Durable' = Durable
<1>1. Durable' = Durable
  BY DEF Durable
<1>2. JournalsAgree' /\ Generational'
  BY <1>1 DEF FilesInv, JournalsAgree, Generational
<1>3. SavedInv'
  <2>1. Kept(Durable)' = Kept(Durable) /\ Kept(Durable) \subseteq Targets
    BY <1>1, Generation DEF Kept, TypeOK
  <2> QED BY <1>1, <2>1 DEF FilesInv, SavedInv, Saved, Pending
<1> QED BY <1>1, <1>2, <1>3 DEF FilesInv, WholeInv, BothPending

(* A journal is published over a complete set of files to go back to.       *)
LEMMA PublishFiles ==
  ASSUME TypeOK, FilesInv, journal = NoJournal, Prepared(Targets),
         job.original \subseteq Targets,
         UNCHANGED <<live, disk, diskJournal, installs, kept>>,
         journal' = [phase |-> "pending", original |-> job.original,
                     identity |-> job.identity]
  PROVE  FilesInv' /\ Durable' = Durable /\ Current' = Current
<1>1. diskJournal = NoJournal
  BY AppFacts DEF Prepared
<1>2. ~Pending /\ ~BothPending /\ journal.phase = "none" /\ diskJournal.phase = "none"
  BY <1>1 DEF Pending, BothPending, NoJournal
<1>3. Durable' = Durable /\ Current' = Current /\ Current = Durable
  BY <1>2, Generation DEF Durable, Current
<1>4. Kept(Durable) \subseteq Targets /\ Durable \in Generations
  BY Generation DEF Kept, TypeOK
<1>5. JournalsAgree' /\ Generational'
  BY <1>1, <1>3 DEF FilesInv, JournalsAgree, JournalSteps, NoJournal, Generational
<1>6. SavedInv'
  <2>1. job.original = Kept(Durable)
    BY <1>4 DEF Prepared
  <2>2. Saved(live, Durable) /\ Saved(disk, Durable)
    BY <1>4 DEF Prepared, Saved
  <2> QED BY <1>3, <2>1, <2>2 DEF SavedInv, Saved, Kept
<1>7. WholeInv'
  <2>1. Whole(live, Durable) /\ Whole(disk, Durable)
    BY <1>2, <1>3, Generation
  <2> QED BY <1>2, <1>3, <2>1 DEF WholeInv, Whole
<1> QED BY <1>3, <1>5, <1>6, <1>7 DEF FilesInv

(* A rollback that has put every target back may say so.                    *)
LEMMA RolledBackFiles ==
  ASSUME TypeOK, FilesInv, journal.phase = "pending", Restored(Targets),
         UNCHANGED <<live, disk, diskJournal, installs, kept>>,
         journal' = [journal EXCEPT !.phase = "rolledBack"]
  PROVE  FilesInv' /\ Durable' = Durable
<1>1. diskJournal = journal
  BY AppFacts DEF Restored
<1>2. /\ journal'.phase = "rolledBack" /\ journal'.original = journal.original
      /\ journal'.identity = journal.identity
  BY DEF TypeOK, FilesTypeOK, Journals
<1>3. Durable' = Durable
  BY DEF Durable
<1>4. JournalsAgree' /\ Generational'
  BY <1>1, <1>2, <1>3 DEF FilesInv, JournalsAgree, JournalSteps, Generational
<1>5. SavedInv /\ SavedInv'
  BY <1>1, <1>2, <1>3 DEF FilesInv, SavedInv, Saved, Kept, Pending
<1>6. WholeInv'
  <2>1. journal.original = Kept(Durable)
    BY <1>5 DEF SavedInv, Pending
  <2>2. Whole(live, Durable) /\ Whole(disk, Durable)
    BY <2>1, TargetAssumption DEF Whole, Restored, Former, Kept
  <2> QED BY <1>2, <1>3, <2>2 DEF WholeInv, Whole
<1> QED BY <1>3, <1>4, <1>5, <1>6 DEF FilesInv

(* A restore that has replaced every target may commit.                     *)
LEMMA CommitFiles ==
  ASSUME TypeOK, FilesInv, BothPending, Swapped(Targets),
         job.gen \in (Durable + 1)..installs,
         UNCHANGED <<live, disk, diskJournal, installs, kept>>,
         journal' = [journal EXCEPT !.phase = "committed"]
  PROVE  FilesInv' /\ Durable' = Durable /\ Current' = Current /\ Current = job.gen
<1>1. /\ journal'.phase = "committed" /\ journal'.original = journal.original
      /\ journal'.identity = journal.identity
  BY DEF TypeOK, FilesTypeOK, Journals
<1>2. Durable' = Durable /\ Current' = Current
  BY DEF Durable, Current
<1>3. JournalsAgree' /\ Generational'
  BY <1>1, <1>2 DEF FilesInv, JournalsAgree, JournalSteps, Generational, BothPending
<1>4. SavedInv'
  BY <1>1, <1>2 DEF FilesInv, SavedInv, Saved, Kept, Pending, BothPending
<1>5. Current = job.gen
  BY AppFacts DEF Current, Swapped, Latter
<1>6. kept[job.gen] = Replaced
  <2>1. job.gen \in Generations /\ job.gen > Durable
    BY Generation DEF TypeOK, Generations
  <2> QED BY <2>1 DEF FilesInv, Generational
<1>7. Whole(live, Current) /\ Whole(disk, Current)
  BY <1>5, <1>6, TargetAssumption DEF Whole, Swapped, Latter
<1> QED BY <1>1, <1>2, <1>3, <1>4, <1>5, <1>7 DEF FilesInv, WholeInv, Whole, BothPending

(* A journal that calls for no rollback may go.                             *)
LEMMA UnlinkJournalFiles ==
  ASSUME TypeOK, FilesInv, ~Pending,
         UNCHANGED <<live, disk, diskJournal, installs, kept>>,
         journal' = NoJournal
  PROVE  FilesInv' /\ Durable' = Durable /\ Current' = Current
<1>1. Durable' = Durable /\ Current' = Current
  BY DEF Durable, Current
<1>2. JournalsAgree' /\ Generational' /\ SavedInv'
  BY <1>1 DEF FilesInv, JournalsAgree, JournalSteps, Generational, SavedInv, Pending, NoJournal
<1>3. Whole(live, Durable) /\ Whole(disk, Durable)
  BY Generation DEF FilesInv, Pending, BothPending
<1> QED BY <1>1, <1>2, <1>3 DEF FilesInv, WholeInv, Whole, Pending, NoJournal

(* An open database has its sidecar files or not, in either case its own.   *)
LEMMA OpenFiles ==
  ASSUME TypeOK, FilesInv, Open
  PROVE  /\ FilesInv' /\ FilesTypeOK' /\ Durable' = Durable /\ Current' = Current
         /\ Current = Durable /\ kept' \in [Generations -> SUBSET Targets]
<1>1. journal.phase = "none" /\ ~Pending /\ ~BothPending
  BY DEF Open, Admitted, FilesInv, JournalsAgree, JournalSteps, Pending, BothPending
<1>2. /\ Current = Durable /\ Whole(live, Current) /\ Whole(disk, Current)
      /\ disk[<<App, "target">>] = Current /\ Current \in Generations
  BY <1>1, Generation
<1>3. PICK side \in {{}, Targets \ Replaced} :
         /\ live' = [n \in Names |->
               IF n[2] = "target" /\ n[1] \notin Replaced
                  THEN IF n[1] \in side THEN Current ELSE Absent ELSE live[n]]
         /\ disk' = [n \in Names |->
               IF n[2] = "target" /\ n[1] \notin Replaced
                  THEN IF n[1] \in side THEN Current ELSE Absent ELSE disk[n]]
         /\ kept' = [kept EXCEPT ![Current] = Replaced \cup side]
  BY DEF Open
<1>4. /\ journal' = journal /\ diskJournal' = diskJournal /\ installs' = installs
      /\ side \subseteq Targets \ Replaced
  BY DEF Open
<1>5. \A t \in Targets :
         /\ live'[<<t, "target">>] = IF t \in Replaced THEN live[<<t, "target">>]
                                     ELSE IF t \in side THEN Current ELSE Absent
         /\ disk'[<<t, "target">>] = IF t \in Replaced THEN disk[<<t, "target">>]
                                     ELSE IF t \in side THEN Current ELSE Absent
  BY <1>3, NameFacts
<1>6. Current' = Current /\ Durable' = Durable
  BY <1>1, <1>4, <1>5, AppFacts DEF Current, Durable, Pending
<1>7. FilesTypeOK' /\ kept' \in [Generations -> SUBSET Targets]
  BY <1>2, <1>3, <1>4, TargetAssumption DEF TypeOK, FilesTypeOK
<1>8. kept'[Durable] = Replaced \cup side /\ \A g \in Generations \ {Durable} : kept'[g] = kept[g]
  BY <1>2, <1>3 DEF TypeOK
<1>9. Generational'
  <2>1. Durable \in 0..installs
    BY DEF FilesInv, Generational
  <2>2. \A g \in Generations : Replaced \subseteq kept'[g]
    BY <1>2, <1>8 DEF FilesInv, Generational
  <2>3. \A g \in Generations : g > Durable => kept'[g] = Replaced
    BY <1>2, <1>8, TargetAssumption DEF FilesInv, Generational, Generations
  <2> QED BY <1>4, <1>6, <2>1, <2>2, <2>3 DEF Generational
<1>10. Whole(live, Durable)' /\ Whole(disk, Durable)'
  <2>1. \A t \in Replaced : /\ t \in kept[Durable]
                            /\ live[<<t, "target">>] = Durable /\ disk[<<t, "target">>] = Durable
    BY <1>2, TargetAssumption DEF FilesInv, Generational, Whole
  <2> QED BY <1>2, <1>5, <1>6, <1>8, <2>1, TargetAssumption DEF Whole
<1>11. JournalsAgree' /\ SavedInv' /\ WholeInv'
  BY <1>1, <1>4, <1>10 DEF FilesInv, JournalsAgree, SavedInv, WholeInv, Pending
<1> QED BY <1>2, <1>6, <1>7, <1>9, <1>11 DEF FilesInv

-----------------------------------------------------------------------------
(* The whole invariant, step by step.                                       *)

(* A step that leaves the files alone.                                      *)
LEMMA SameDurable ==
  ASSUME TypeOK, UNCHANGED files
  PROVE  Durable' = Durable /\ Current' = Current /\ FilesTypeOK'
BY DEF TypeOK, FilesTypeOK, Durable, Current, files

(* Nothing happens to the files or to what they consist of.                 *)
LEMMA SameFiles ==
  ASSUME TypeOK, FilesInv, UNCHANGED <<files, installs, kept>>
  PROVE  FilesInv' /\ Durable' = Durable /\ Current' = Current /\ FilesTypeOK'
BY SameDurable, ShadowFiles DEF files

(* The identity part survives whatever leaves the vault, the journals and   *)
(* the generations they speak of.                                           *)
LEMMA SameVault ==
  ASSUME VaultInv, UNCHANGED <<keys, token, record, journal, diskJournal, keyOf>>,
         Durable' = Durable, journal.phase = "committed" => Current' = Current
  PROVE  VaultInv'
BY DEF VaultInv, Staged, Committed

(* What a procedure may be for.                                             *)
Jobs == [gen : Generations, identity : Identities \cup {Absent},
         original : SUBSET Targets, committed : BOOLEAN]

(* Nothing is installed yet.                                                *)
LEMMA NoJobFacts == NoJob \in Jobs /\ ~NoJob.committed /\ NoJob.original = {}
BY TargetAssumption DEF NoJob, Jobs, Generations

(* Between procedures nothing is under way.                                 *)
LEMMA AtRest ==
  ASSUME pc' = "idle", cont' = "open", at' = 1
  PROVE  /\ AtInv' /\ RollbackInv' /\ PrepareInv' /\ SwapInv' /\ ApplyInv'
         /\ CleanInv' /\ JobInv'
<1>1. AtInv' /\ RollbackInv' /\ PrepareInv' /\ SwapInv' /\ ApplyInv' /\ CleanInv'
  BY DEF AtInv, RollbackInv, PrepareInv, SwapInv, ApplyInv, CleanInv,
         Rollback, Prepare, Swap, Clean, Apply
<1>2. JobInv'
  BY DEF JobInv, Early, Prepare, Swap, Clean, Apply
<1> QED BY <1>1, <1>2

(* Giving up at any step, for any reason, leaves nothing undone that a      *)
(* recovery would not do.                                                   *)
LEMMA FailingStep ==
  ASSUME IInv, Failing, UNCHANGED <<files, vault, history>>, faults' \in 0..MaxFaults
  PROVE  IInv'
<1>0. TypeOK /\ FilesInv /\ VaultInv /\ JobInv
  BY DEF IInv
<1>1. FilesInv' /\ Durable' = Durable /\ Current' = Current /\ FilesTypeOK'
  BY <1>0, SameFiles DEF history
<1>2. VaultInv'
  BY <1>0, <1>1, SameVault DEF files, vault, history
<1>3. TypeOK'
  <2>1. pc' \in Steps /\ cont' \in Purposes /\ at' \in 1..(3 * Len(Order))
    BY OrderFacts DEF Failing, Steps, Purposes
  <2>2. job' \in Jobs
    BY <1>0, NoJobFacts DEF Failing, TypeOK, Jobs
  <2> QED BY <1>0, <1>1, <2>1, <2>2 DEF TypeOK, vault, history, Jobs
<1>4. CASE pc' = "idle"
  BY <1>1, <1>2, <1>3, <1>4, AtRest DEF IInv, Failing
<1>5. CASE pc' # "idle"
  <2>1. /\ at' = 1 /\ job' = job /\ cont = "fresh"
        /\ journal' = journal /\ diskJournal' = diskJournal
        /\ IF journal.phase # "none" THEN pc' = "check" /\ cont' = "resolve"
                                     ELSE pc' = "unlink" /\ cont' = "undo"
    BY <1>5 DEF Failing, files
  <2>2. AtInv' /\ RollbackInv' /\ PrepareInv' /\ SwapInv' /\ ApplyInv'
    BY <2>1 DEF AtInv, RollbackInv, PrepareInv, SwapInv, ApplyInv,
                Rollback, Prepare, Swap, Clean, Apply
  <2>3. CleanInv'
    BY <1>0, <2>1 DEF CleanInv, Clean, Pending, FilesInv, JournalsAgree, JournalSteps
  <2>4. JobInv'
    BY <1>0, <1>1, <2>1 DEF JobInv, Early, Prepare, Swap, Clean, Apply, Pending
  <2> QED BY <1>1, <1>2, <1>3, <2>2, <2>3, <2>4 DEF IInv
<1> QED BY <1>4, <1>5

(* A process that is gone leaves its files, a power loss some of them.      *)
LEMMA HaltStep ==
  ASSUME IInv, Halt, UNCHANGED <<vault, history>>, faults' \in 0..MaxFaults,
         FilesTypeOK', FilesInv', VaultInv'
  PROVE  IInv'
<1>1. pc' = "idle" /\ cont' = "open" /\ at' = 1 /\ job' = NoJob
  BY DEF Halt
<1>2. TypeOK'
  BY <1>1, OrderFacts, TargetAssumption, BoundAssumption
     DEF IInv, TypeOK, vault, history, Steps, Purposes, NoJob, Generations, Identities
<1> QED BY <1>1, <1>2, AtRest DEF IInv

(* I/O errors, crashes and power losses.                                    *)
LEMMA FaultStep == ASSUME IInv, Fault PROVE IInv'
<1>0. TypeOK /\ FilesInv /\ VaultInv
  BY DEF IInv
<1>1. faults' \in 0..MaxFaults
  BY <1>0, BoundAssumption DEF Fault, IoError, Crash, PowerLoss, CountFault, TypeOK
<1>2. CASE IoError
  BY <1>1, <1>2, FailingStep DEF IoError
<1>3. CASE Crash
  <2>1. FilesInv' /\ FilesTypeOK' /\ Durable' = Durable /\ Current' = Current
    BY <1>0, <1>3, SameFiles DEF Crash, history
  <2>2. VaultInv'
    BY <1>0, <1>3, <2>1, SameVault DEF Crash, files, vault, history
  <2> QED BY <1>1, <1>3, <2>1, <2>2, HaltStep DEF Crash
<1>4. CASE PowerLoss
  <2>1. /\ LosePower /\ Halt /\ UNCHANGED <<vault, history>>
        /\ UNCHANGED <<installs, kept, keyOf, keys, token, record>>
    BY <1>4 DEF PowerLoss, vault, history
  <2>2. FilesInv' /\ Durable' = (IF journal'.phase = "committed" THEN Current ELSE Durable)
        /\ (journal'.phase = "committed" => Current' = Current)
    BY <1>0, <2>1, LoseFiles
  <2>3. FilesTypeOK' /\ journal' \in {journal, diskJournal} /\ diskJournal' = journal'
    BY <1>0, <2>1, LoseNames DEF TypeOK
  <2>4. VaultInv'
    <3>1. CASE journal'.phase # "committed"
      <4>1. ~(journal.phase = "committed" /\ diskJournal.phase = "committed")
        BY <2>3, <3>1
      <4>2. journal.phase = "none" \/ diskJournal.phase # "committed"
        BY <1>0, <4>1 DEF FilesInv, JournalsAgree, JournalSteps
      <4>3. /\ keys.id <= record.id /\ ~Staged(keys.id) /\ token \in {Absent, keys.id}
            /\ keys.id = keyOf[Durable]
        BY <1>0, <4>1 DEF VaultInv, Committed
      <4> QED BY <2>1, <2>2, <2>3, <3>1, <4>3 DEF VaultInv, Staged, Committed
    <3>2. CASE journal'.phase = "committed"
      <4>1. Durable' = Current /\ Current' = Current /\ diskJournal'.phase = "committed"
        BY <2>2, <2>3, <3>2
      <4>2. CASE journal.phase = "committed" /\ diskJournal.phase = "pending"
        <5>1. journal' = journal
          BY <2>3, <3>2, <4>2
        <5>2. ~Staged(keys.id) /\ token \in {Absent, keys.id} /\ keys.id <= record.id
          BY <1>0, <4>2 DEF VaultInv, Committed
        <5>3. IF journal.identity = Absent THEN keyOf[Current] = keys.id
                ELSE Staged(journal.identity) /\ keyOf[Current] = record.id
          BY <1>0, <4>2 DEF VaultInv
        <5>4. journal.identity <= record.id
          BY <1>0, <5>3 DEF TypeOK, Staged, Absent, Identities
        <5> QED BY <1>0, <2>1, <2>3, <4>1, <4>2, <5>1, <5>2, <5>3, <5>4
                DEF VaultInv, Staged, Committed, TypeOK, Identities, Absent
      <4>3. CASE journal.phase = "committed" /\ diskJournal.phase = "committed"
        <5>1. Current = Durable
          BY <1>0, <4>3, Generation DEF BothPending
        <5>2. journal'.identity = journal.identity /\ diskJournal'.identity = diskJournal.identity
          BY <1>0, <2>3, <4>3 DEF FilesInv, JournalsAgree
        <5> QED BY <1>0, <2>1, <3>2, <4>1, <4>3, <5>1, <5>2 DEF VaultInv, Staged, Committed
      <4>4. CASE journal.phase = "none" /\ diskJournal.phase = "committed"
        <5>1. Current = Durable
          BY <1>0, <4>4, Generation DEF BothPending
        <5>2. journal' = diskJournal
          BY <2>3, <3>2, <4>4
        <5> QED BY <1>0, <2>1, <2>3, <4>1, <4>4, <5>1, <5>2 DEF VaultInv, Staged, Committed
      <4> QED BY <1>0, <2>3, <3>2, <4>2, <4>3, <4>4 DEF FilesInv, JournalsAgree, JournalSteps
    <3> QED BY <3>1, <3>2
  <2> QED BY <1>1, <2>1, <2>2, <2>3, <2>4, HaltStep
<1> QED BY <1>2, <1>3, <1>4 DEF Fault

(* The app opens its databases, changes its keys, stages an identity.       *)
LEMMA BetweenStep ==
  ASSUME IInv, Open \/ UpdateKeys \/ StageIdentity
  PROVE  IInv'
<1>0. TypeOK /\ FilesInv /\ VaultInv
  BY DEF IInv
<1>1. /\ pc = "idle" /\ cont = "open" /\ at = 1 /\ UNCHANGED control
      /\ journal.phase = "none" /\ UNCHANGED <<journal, diskJournal>>
  BY DEF IInv, AtInv, JobInv, Open, UpdateKeys, StageIdentity, Admitted,
         Rollback, Prepare, Swap, files
<1>2. AtInv' /\ RollbackInv' /\ PrepareInv' /\ SwapInv' /\ ApplyInv' /\ CleanInv' /\ JobInv'
  BY <1>1, AtRest DEF control
<1>3. keys.id = keyOf[Durable] /\ ~Staged(keys.id)
  BY <1>0, <1>1 DEF VaultInv, Committed
<1>4. CASE Open
  <2>1. /\ FilesInv' /\ FilesTypeOK' /\ Durable' = Durable /\ Current' = Current
        /\ Current = Durable /\ kept' \in [Generations -> SUBSET Targets]
    BY <1>0, <1>4, OpenFiles
  <2>2. TypeOK'
    BY <1>0, <1>4, <2>1, Generation DEF TypeOK, Open, control
  <2>3. VaultInv'
    BY <1>0, <1>1, <1>3, <1>4, <2>1 DEF VaultInv, Staged, Committed, Open
  <2> QED BY <1>2, <2>1, <2>2, <2>3 DEF IInv
<1>5. CASE UpdateKeys
  <2>1. FilesInv' /\ FilesTypeOK' /\ Durable' = Durable /\ Current' = Current
    BY <1>0, <1>5, SameFiles DEF UpdateKeys, history
  <2>2. keys'.id = keys.id /\ keys' \in [id : Identities, version : 0..MaxUpdates]
    BY <1>0, <1>5, BoundAssumption DEF UpdateKeys, TypeOK
  <2>3. TypeOK'
    BY <1>0, <1>5, <2>1, <2>2 DEF TypeOK, UpdateKeys, control, history
  <2>4. VaultInv'
    BY <1>0, <1>1, <1>3, <1>5, <2>1, <2>2
       DEF VaultInv, Staged, Committed, UpdateKeys, history
  <2> QED BY <1>2, <2>1, <2>3, <2>4 DEF IInv
<1>6. CASE StageIdentity
  <2>1. FilesInv' /\ FilesTypeOK' /\ Durable' = Durable /\ Current' = Current
    BY <1>0, <1>6, SameFiles DEF StageIdentity, history
  <2>2. /\ record'.id = record.id + 1 /\ ~record'.applied
        /\ record' \in [id : Identities, applied : BOOLEAN]
    BY <1>0, <1>6, BoundAssumption DEF StageIdentity, TypeOK, Identities
  <2>3. TypeOK'
    BY <1>0, <1>6, <2>1, <2>2 DEF TypeOK, StageIdentity, control, history
  <2>4. keys.id \in Int /\ record.id \in Int /\ (diskJournal.phase = "committed" => diskJournal.identity \in Int)
    BY <1>0 DEF TypeOK, FilesTypeOK, Journals, Generations, Identities, Absent
  <2>5. VaultInv'
    BY <1>0, <1>1, <1>3, <1>6, <2>1, <2>2, <2>4
       DEF VaultInv, Staged, Committed, StageIdentity, history
  <2> QED BY <1>2, <2>1, <2>3, <2>5 DEF IInv
<1> QED BY <1>4, <1>5, <1>6

(* A restore or a recovery begins.                                          *)
LEMMA BeginStep ==
  ASSUME IInv, BeginInstall \/ BeginRecovery
  PROVE  IInv'
<1>0. TypeOK /\ FilesInv /\ VaultInv
  BY DEF IInv
<1>1. Durable' = Durable /\ Current' = Current /\ FilesTypeOK'
  BY <1>0, SameDurable DEF BeginInstall, BeginRecovery, history
<1>2. /\ pc' = "check" /\ at' = 1 /\ UNCHANGED <<vault, served, done, kept, faults>>
      /\ journal' = journal /\ diskJournal' = diskJournal
  BY DEF BeginInstall, BeginRecovery, history, files
<1>3. AtInv' /\ RollbackInv' /\ PrepareInv' /\ SwapInv' /\ ApplyInv' /\ CleanInv'
  BY <1>2 DEF AtInv, RollbackInv, PrepareInv, SwapInv, ApplyInv, CleanInv,
              Rollback, Prepare, Swap, Clean, Apply
<1>4. /\ pc' \in Steps /\ at' \in 1..(3 * Len(Order)) /\ {"install", "open"} \subseteq Purposes
  BY <1>2, OrderFacts DEF Steps, Purposes
<1>5. CASE BeginInstall
  <2> DEFINE g == installs + 1
             identity == IF record.applied THEN Absent ELSE record.id
  <2>1. /\ journal.phase = "none" /\ diskJournal.phase # "pending" /\ ~Committed
        /\ installs < MaxInstalls /\ installs' = g /\ cont' = "install"
        /\ keyOf' = [keyOf EXCEPT ![g] = IF record.applied THEN keys.id ELSE record.id]
        /\ job' = [NoJob EXCEPT !.gen = g, !.identity = identity]
    BY <1>0, <1>5 DEF BeginInstall, Admitted, FilesInv, JournalsAgree, JournalSteps, Committed
  <2>2. g \in Generations /\ Durable \in 0..installs /\ installs \in Nat
    BY <1>0, <2>1, TargetAssumption DEF TypeOK, Generations, FilesInv, Generational
  <2>3. /\ job'.gen = g /\ job'.identity = identity /\ job'.original = {} /\ ~job'.committed
        /\ job' \in Jobs
    BY <1>0, <2>1, <2>2 DEF NoJob, Jobs, TypeOK
  <2>4. /\ keyOf' \in [Generations -> Identities] /\ keyOf'[Durable] = keyOf[Durable]
        /\ keyOf'[g] = IF record.applied THEN keys.id ELSE record.id
    BY <1>0, <2>1, <2>2, Generation DEF TypeOK
  <2>5. TypeOK'
    BY <1>0, <1>1, <1>2, <1>4, <2>1, <2>2, <2>3, <2>4 DEF TypeOK, Jobs, vault
  <2>6. FilesInv'
    <3>1. JournalsAgree' /\ Generational' /\ ~Pending
      BY <1>0, <1>1, <1>2, <2>1, <2>2 DEF FilesInv, JournalsAgree, Generational, Pending
    <3>2. Whole(live, Durable) /\ Whole(disk, Durable)
      BY <1>0, <2>1 DEF FilesInv, WholeInv
    <3>3. SavedInv' /\ WholeInv'
      BY <1>1, <1>2, <1>5, <2>1, <3>1, <3>2 DEF SavedInv, WholeInv, Pending, Whole, BeginInstall, files
    <3> QED BY <3>1, <3>3 DEF FilesInv
  <2>7. VaultInv'
    BY <1>0, <1>1, <1>2, <2>1, <2>4 DEF VaultInv, Staged, Committed, vault
  <2>8. record.id # Absent
    BY <1>0 DEF TypeOK, Identities, Absent
  <2>9. JobInv'
    BY <1>1, <1>2, <2>1, <2>2, <2>3, <2>4, <2>8
       DEF JobInv, Early, Prepare, Swap, Clean, Apply, Staged, vault
  <2> QED BY <1>3, <2>5, <2>6, <2>7, <2>9 DEF IInv
<1>6. CASE BeginRecovery
  <2>1. UNCHANGED <<files, vault, history, faults>> /\ cont' = "open" /\ job' = NoJob
    BY <1>6 DEF BeginRecovery
  <2>2. VaultInv' /\ FilesInv'
    BY <1>0, <2>1, SameFiles, SameVault DEF files, vault, history
  <2>3. TypeOK'
    BY <1>0, <1>1, <1>2, <1>4, <2>1, NoJobFacts DEF TypeOK, Jobs, vault, history
  <2>4. JobInv'
    BY <1>2, <2>1 DEF JobInv, Early, Prepare, Swap, Clean, Apply
  <2> QED BY <1>3, <2>2, <2>3, <2>4 DEF IInv
<1> QED BY <1>5, <1>6

(* A procedure that has nothing left to do answers its caller: an install   *)
(* goes on, the others are over.                                            *)
LEMMA FinishStep ==
  ASSUME IInv, journal = NoJournal, pc \in {"check", "syncJournal"}, Finish, at' = 1,
         journal' = NoJournal,
         FilesInv', FilesTypeOK', Durable' = Durable, VaultInv',
         UNCHANGED <<vault, installs, served, keyOf, kept, faults>>
  PROVE  IInv'
<1>0. TypeOK /\ FilesInv /\ VaultInv /\ JobInv
  BY DEF IInv
<1>1. CASE cont = "install"
  <2>1. pc' = "orphans" /\ cont' = "fresh" /\ UNCHANGED <<job, done>>
    BY <1>1 DEF Finish
  <2>2. TypeOK'
    BY <1>0, <2>1, OrderFacts DEF TypeOK, vault, Steps, Purposes
  <2>3. AtInv' /\ RollbackInv' /\ SwapInv' /\ ApplyInv' /\ CleanInv'
    BY <2>1 DEF AtInv, RollbackInv, SwapInv, ApplyInv, CleanInv,
                Rollback, Prepare, Swap, Clean, Apply
  <2>4. PrepareInv'
    BY <1>0, <1>1, <2>1 DEF PrepareInv, Prepare, JobInv
  <2>5. JobInv'
    BY <1>0, <1>1, <2>1 DEF JobInv, Early, Prepare, Swap, Clean, Apply, Staged, NoJournal, vault
  <2> QED BY <2>2, <2>3, <2>4, <2>5 DEF IInv
<1>2. CASE cont # "install"
  <2>1. /\ pc' = "idle" /\ cont' = "open" /\ job' = NoJob
        /\ done' \in {job.gen, done}
    BY <1>2 DEF Finish
  <2>2. job.gen \in Generations /\ done \in Generations
    BY <1>0 DEF TypeOK
  <2>3. TypeOK'
    BY <1>0, <2>1, <2>2, OrderFacts, NoJobFacts DEF TypeOK, vault, Steps, Purposes, Jobs
  <2> QED BY <2>1, <2>3, AtRest DEF IInv
<1> QED BY <1>1, <1>2

(* recover_locked reads the journal and takes one of its ways.              *)
LEMMA CheckStep == ASSUME IInv, Check PROVE IInv'
<1>0. TypeOK /\ FilesInv /\ VaultInv /\ JobInv
  BY DEF IInv
<1>1. /\ pc = "check" /\ at = 1
      /\ UNCHANGED <<files, vault, installs, served, keyOf, kept, faults>>
      /\ journal' = journal /\ diskJournal' = diskJournal
  BY DEF Check, files, IInv, AtInv, Rollback, Prepare, Swap
<1>2. FilesInv' /\ Durable' = Durable /\ Current' = Current /\ FilesTypeOK'
  BY <1>0, <1>1, SameFiles
<1>3. VaultInv'
  BY <1>0, <1>1, <1>2, SameVault DEF files, vault
<1>4. CASE journal.phase = "none"
  <2>1. Finish /\ at' = 1
    BY <1>4 DEF Check
  <2>2. journal = NoJournal
    BY <1>0, <1>4 DEF FilesInv, JournalsAgree
  <2> QED BY <1>1, <1>2, <1>3, <2>1, <2>2, FinishStep
<1>5. CASE journal.phase = "pending" /\ ~RollbackSetComplete(journal)
  BY <1>0, <1>1, <1>5, FailingStep DEF Check, history, TypeOK
<1>6. CASE journal.phase = "pending" /\ RollbackSetComplete(journal)
  <2>1. pc' = "unlinkRollback" /\ at' = 1 /\ UNCHANGED <<cont, job, done>>
    BY <1>6 DEF Check, Go
  <2>2. TypeOK'
    BY <1>0, <1>1, <1>2, <2>1, OrderFacts DEF TypeOK, vault, Steps
  <2>3. Past' = {}
    BY <2>1 DEF Past
  <2>4. AtInv' /\ PrepareInv' /\ SwapInv' /\ ApplyInv' /\ CleanInv'
    BY <2>1, OrderFacts DEF AtInv, PrepareInv, SwapInv, ApplyInv, CleanInv,
                Rollback, Prepare, Swap, Clean, Apply
  <2>5. RollbackInv'
    BY <1>1, <1>6, <2>1, <2>3 DEF RollbackInv, Rollback, Restored
  <2>6. JobInv'
    BY <1>0, <1>1, <1>2, <1>6, <2>1
       DEF JobInv, Early, Prepare, Swap, Clean, Apply, Pending
  <2> QED BY <1>2, <1>3, <2>2, <2>4, <2>5, <2>6 DEF IInv
<1>7. CASE journal.phase \in {"committed", "rolledBack"}
  <2>1. pc' = "syncTerminal" /\ at' = 1 /\ UNCHANGED <<cont, job, done>>
    BY <1>7 DEF Check, Go
  <2>2. TypeOK'
    BY <1>0, <1>1, <1>2, <2>1, OrderFacts DEF TypeOK, vault, Steps
  <2>3. AtInv' /\ PrepareInv' /\ SwapInv' /\ ApplyInv' /\ CleanInv'
    BY <2>1 DEF AtInv, PrepareInv, SwapInv, ApplyInv, CleanInv,
                Rollback, Prepare, Swap, Clean, Apply
  <2>4. RollbackInv'
    BY <1>1, <1>7, <2>1 DEF RollbackInv, Rollback
  <2>5. JobInv'
    BY <1>0, <1>1, <1>2, <1>7, <2>1
       DEF JobInv, Early, Prepare, Swap, Clean, Apply, Pending
  <2> QED BY <1>2, <1>3, <2>2, <2>3, <2>4, <2>5 DEF IInv
<1> QED BY <1>4, <1>5, <1>6, <1>7 DEF Check

(* On to the next entry or, behind the last one, to what follows.           *)
LEMMA LoopFacts ==
  ASSUME TypeOK, at \in 1..Len(Order), NEW p, NEW q, p # q, Loop(p, Len(Order), q)
  PROVE  /\ UNCHANGED <<cont, job>> /\ at' \in 1..Len(Order) /\ at' \in 1..(3 * Len(Order))
         /\ \/ pc' = p /\ at' = at + 1 /\ Past' = Past \cup {Target}
            \/ pc' = q /\ at' = 1 /\ Targets = Past \cup {Target}
<1>1. Len(Order) \in Nat \ {0} /\ at \in Nat /\ at >= 1 /\ at <= Len(Order)
  BY OrderFacts
<1>2. CASE at < Len(Order)
  <2>1. pc' = p /\ at' = at + 1 /\ UNCHANGED <<cont, job>>
    BY <1>2 DEF Loop
  <2>2. at' \in 1..Len(Order) /\ at' \in 1..(3 * Len(Order))
    BY <1>1, <1>2, <2>1
  <2> QED BY <2>1, <2>2, PastFacts
<1>3. CASE at = Len(Order)
  <2>1. pc' = q /\ at' = 1 /\ UNCHANGED <<cont, job>>
    BY <1>1, <1>3 DEF Loop
  <2>2. at' \in 1..Len(Order) /\ at' \in 1..(3 * Len(Order))
    BY <1>1, <2>1
  <2>3. Targets = Past \cup {Target}
    BY <1>3, PastFacts
  <2> QED BY <2>1, <2>2, <2>3
<1> QED BY <1>1, <1>2, <1>3

(* The steps of a rollback.                                                 *)
LEMMA RollbackContext ==
  ASSUME IInv, pc \in Rollback
  PROVE  /\ TypeOK /\ FilesInv /\ VaultInv /\ JobInv /\ FilesTypeOK
         /\ at \in 1..Len(Order) /\ Target \in Targets
         /\ Target \notin Past /\ Past \subseteq Targets
         /\ journal.phase = "pending" /\ Pending /\ Restored(Past)
         /\ cont \in {"open", "resolve"} /\ (job.committed => cont = "open")
         /\ Durable \in Generations
<1>1. TypeOK /\ FilesInv /\ VaultInv /\ JobInv /\ AtInv /\ RollbackInv
  BY DEF IInv
<1>2. at \in 1..Len(Order) /\ journal.phase = "pending" /\ Pending /\ Restored(Past)
  BY <1>1 DEF AtInv, RollbackInv, Pending
<1>3. cont \in {"open", "resolve"} /\ (job.committed => cont = "open")
  BY <1>1, <1>2 DEF JobInv, Rollback
<1> QED BY <1>1, <1>2, <1>3, PastFacts, Generation DEF TypeOK

(* A step of a rollback on one file.                                        *)
LEMMA WithinRollback ==
  ASSUME IInv, pc \in Rollback, pc' \in {"relink", "renameBack", "syncRestored"},
         UNCHANGED <<at, cont, job, journal, diskJournal, disk, vault, history, faults>>,
         FilesTypeOK', FilesInv', Durable' = Durable,
         \A t \in Targets \ {Target} : live'[<<t, "target">>] = live[<<t, "target">>],
         pc' = "relink" => Target \in journal.original,
         pc' = "renameBack" => /\ Target \in journal.original
                               /\ live'[<<Target, "rollback">>] = Durable,
         pc' = "syncRestored" => live'[<<Target, "target">>] = Former(Target)
  PROVE  IInv'
<1>0. /\ TypeOK /\ FilesInv /\ VaultInv /\ JobInv /\ at \in 1..Len(Order)
      /\ Target \notin Past /\ Past \subseteq Targets
      /\ journal.phase = "pending" /\ Restored(Past)
      /\ cont \in {"open", "resolve"} /\ (job.committed => cont = "open")
  BY RollbackContext
<1>1. TypeOK'
  BY <1>0 DEF TypeOK, Steps, vault, history
<1>2. VaultInv'
  BY <1>0, SameVault DEF vault, history
<1>3. Past' = Past /\ Target' = Target
  BY DEF Past, Target
<1>4. RollbackInv'
  BY <1>0, <1>3 DEF RollbackInv, Rollback, Restored, Former
<1>5. AtInv' /\ PrepareInv' /\ SwapInv' /\ ApplyInv' /\ CleanInv'
  BY <1>0 DEF AtInv, PrepareInv, SwapInv, ApplyInv, CleanInv,
              Rollback, Prepare, Swap, Clean, Apply
<1>6. JobInv'
  BY <1>0 DEF JobInv, Early, Prepare, Swap, Clean, Apply
<1> QED BY <1>1, <1>2, <1>4, <1>5, <1>6 DEF IInv

(* What an interrupted rollback left is removed.                            *)
LEMMA UnlinkRollbackStep == ASSUME IInv, UnlinkRollback PROVE IInv'
<1> USE DEF UnlinkRollback
<1>0. /\ TypeOK /\ FilesInv /\ FilesTypeOK /\ Target \in Targets
      /\ journal.phase = "pending" /\ Pending /\ pc \in Rollback
  BY RollbackContext DEF Rollback
<1>1. UNCHANGED <<at, cont, job, journal, diskJournal, disk, vault, history, faults>>
  BY DEF Stay, Put
<1>2. UNCHANGED <<installs, kept>> /\ Absent \in Generations \cup {Absent}
  BY <1>1 DEF history
<1>3. CASE Target \in journal.original
  <2>1. Put(<<Target, "rollback">>, Absent) /\ pc' = "relink"
    BY <1>3 DEF Stay
  <2>2. FilesTypeOK' /\ \A m \in Names :
            live'[m] = IF m = <<Target, "rollback">> THEN Absent ELSE live[m]
    BY <1>0, <1>2, <2>1, NameFacts, PutNames
  <2>3. \A t \in Targets : /\ live'[<<t, "target">>] = live[<<t, "target">>]
                           /\ live'[<<t, "old">>] = live[<<t, "old">>]
    BY <2>2, NameFacts
  <2>4. FilesInv' /\ Durable' = Durable
    BY <1>0, <1>1, <1>2, <2>3, ShadowFiles
  <2> QED BY <1>0, <1>1, <1>3, <2>1, <2>2, <2>3, <2>4, WithinRollback
<1>4. CASE Target \notin journal.original
  <2>1. Put(<<Target, "target">>, Absent) /\ pc' = "syncRestored"
    BY <1>4 DEF Stay
  <2>2. FilesTypeOK' /\ \A m \in Names :
            live'[m] = IF m = <<Target, "target">> THEN Absent ELSE live[m]
    BY <1>0, <1>2, <2>1, NameFacts, PutNames
  <2>3. /\ live'[<<Target, "target">>] = Former(Target)
        /\ \A t \in Targets : live'[<<t, "old">>] = live[<<t, "old">>]
        /\ \A t \in Targets \ {Target} : live'[<<t, "target">>] = live[<<t, "target">>]
    BY <1>0, <1>4, <2>2, NameFacts DEF Former
  <2>4. FilesInv' /\ Durable' = Durable
    BY <1>0, <1>1, <1>2, <2>3, PutBackFiles
  <2> QED BY <1>0, <1>1, <2>1, <2>2, <2>3, <2>4, WithinRollback
<1> QED BY <1>3, <1>4

(* The old shadow is linked under a second name, so that it is not spent.   *)
LEMMA RelinkStep == ASSUME IInv, Relink PROVE IInv'
<1> USE DEF Relink
<1>0. /\ TypeOK /\ FilesInv /\ FilesTypeOK /\ Target \in Targets
      /\ journal.phase = "pending" /\ Pending /\ pc \in Rollback
      /\ Durable \in Generations
  BY RollbackContext DEF Rollback
<1>1. CASE live[<<Target, "rollback">>] # Absent
  <2>1. Failing /\ UNCHANGED <<files, vault, history>> /\ faults' \in 0..MaxFaults
    BY <1>0, <1>1 DEF TypeOK
  <2> QED BY <2>1, FailingStep
<1>2. CASE live[<<Target, "rollback">>] = Absent
  <2>1. Put(<<Target, "rollback">>, live[<<Target, "old">>]) /\ pc' = "renameBack"
    BY <1>2 DEF Stay
  <2>2. /\ UNCHANGED <<at, cont, job, journal, diskJournal, disk, vault, history, faults>>
        /\ UNCHANGED <<installs, kept>>
    BY <1>2 DEF Stay, Put, history
  <2>3. Target \in journal.original /\ live[<<Target, "old">>] = Durable
    <3>1. Target \in journal.original
      BY DEF IInv, RollbackInv
    <3> QED BY <1>0, <3>1 DEF FilesInv, SavedInv, Saved
  <2>4. FilesTypeOK' /\ \A m \in Names :
            live'[m] = IF m = <<Target, "rollback">> THEN Durable ELSE live[m]
    BY <1>0, <2>1, <2>3, NameFacts, PutNames
  <2>5. /\ live'[<<Target, "rollback">>] = Durable
        /\ \A t \in Targets : /\ live'[<<t, "target">>] = live[<<t, "target">>]
                              /\ live'[<<t, "old">>] = live[<<t, "old">>]
    BY <1>0, <2>4, NameFacts
  <2>6. FilesInv' /\ Durable' = Durable
    BY <1>0, <2>2, <2>5, ShadowFiles
  <2> QED BY <1>0, <2>1, <2>2, <2>3, <2>4, <2>5, <2>6, WithinRollback
<1> QED BY <1>1, <1>2

(* The second name goes back over the target.                               *)
LEMMA RenameBackStep == ASSUME IInv, RenameBack PROVE IInv'
<1> USE DEF RenameBack
<1>0. /\ TypeOK /\ FilesInv /\ FilesTypeOK /\ Target \in Targets
      /\ journal.phase = "pending" /\ Pending /\ pc \in Rollback
  BY RollbackContext DEF Rollback
<1>1. Target \in journal.original /\ live[<<Target, "rollback">>] = Durable
  BY DEF IInv, RollbackInv
<1>2. /\ UNCHANGED <<at, cont, job, journal, diskJournal, disk, vault, history, faults>>
      /\ UNCHANGED <<installs, kept>> /\ pc' = "syncRestored"
  BY DEF Stay, Rename, history
<1>3. /\ FilesTypeOK' /\ live'[<<Target, "target">>] = Durable
      /\ \A k \in Names \ {<<Target, "rollback">>, <<Target, "target">>} : live'[k] = live[k]
  BY <1>0, <1>1, NameFacts, RenameNames
<1>4. /\ live'[<<Target, "target">>] = Former(Target)
      /\ \A t \in Targets : live'[<<t, "old">>] = live[<<t, "old">>]
      /\ \A t \in Targets \ {Target} : live'[<<t, "target">>] = live[<<t, "target">>]
  BY <1>0, <1>1, <1>3, NameFacts DEF Former
<1>5. FilesInv' /\ Durable' = Durable
  BY <1>0, <1>2, <1>4, PutBackFiles
<1> QED BY <1>0, <1>2, <1>3, <1>4, <1>5, WithinRollback

(* The entry put back is durable; the last one ends the loop.               *)
LEMMA SyncRestoredStep == ASSUME IInv, SyncRestored PROVE IInv'
<1> USE DEF SyncRestored
<1>0. /\ TypeOK /\ FilesInv /\ VaultInv /\ JobInv /\ FilesTypeOK
      /\ at \in 1..Len(Order) /\ Target \in Targets
      /\ Target \notin Past /\ Past \subseteq Targets
      /\ journal.phase = "pending" /\ Pending /\ Restored(Past)
      /\ cont \in {"open", "resolve"} /\ (job.committed => cont = "open")
  BY RollbackContext DEF Rollback
<1>1. UNCHANGED <<cont, job, vault, history, faults>>
  BY DEF Loop
<1>2. UNCHANGED <<installs, kept>>
  BY <1>1 DEF history
<1>3. FilesInv' /\ Durable' = Durable
  BY <1>0, <1>2, SyncFiles
<1>4. /\ FilesTypeOK' /\ live' = live /\ journal' = journal
      /\ \A n \in Names : disk'[n] \in {live[n], disk[n]}
      /\ \A n \in Names : n[1] = Target => disk'[n] = live[n]
      /\ diskJournal' = IF Target \in InData THEN diskJournal ELSE journal
  BY <1>0, SyncNames
<1>5. live[<<Target, "target">>] = Former(Target)
  BY DEF IInv, RollbackInv
<1>6. \A t \in Past \cup {Target} :
         /\ live'[<<t, "target">>] = Former(t)' /\ disk'[<<t, "target">>] = Former(t)'
         /\ t \notin InData => diskJournal' = journal'
  <2>1. \A t \in Targets : Former(t)' = Former(t) /\ <<t, "target">> \in Names
    BY <1>3, <1>4, NameFacts DEF Former
  <2>2. disk'[<<Target, "target">>] = live[<<Target, "target">>]
    BY <1>0, <1>4, NameFacts
  <2> QED BY <1>0, <1>4, <1>5, <2>1, <2>2 DEF Restored
<1>7. VaultInv'
  <2>1. CASE Target \in InData \/ diskJournal = journal
    BY <1>0, <1>1, <1>3, <1>4, <2>1, SameVault DEF vault, history
  <2>2. CASE Target \notin InData
    BY <1>0, <1>1, <1>3, <1>4, <2>2 DEF VaultInv, Staged, Committed, vault, history,
       FilesInv, JournalsAgree, JournalSteps
  <2> QED BY <2>1, <2>2
<1>8. /\ at' \in 1..Len(Order) /\ at' \in 1..(3 * Len(Order))
      /\ \/ pc' = "unlinkRollback" /\ Past' = Past \cup {Target}
         \/ pc' = "publishRolledBack" /\ at' = 1 /\ Targets = Past \cup {Target}
  BY <1>0, LoopFacts
<1>9. TypeOK'
  BY <1>0, <1>1, <1>4, <1>8 DEF TypeOK, Steps, vault, history
<1>10. AtInv' /\ PrepareInv' /\ SwapInv' /\ ApplyInv' /\ CleanInv'
  BY <1>8 DEF AtInv, PrepareInv, SwapInv, ApplyInv, CleanInv,
              Rollback, Prepare, Swap, Clean, Apply
<1>11. RollbackInv'
  <2>1. CASE pc' = "unlinkRollback"
    BY <1>0, <1>4, <1>6, <1>8, <2>1 DEF RollbackInv, Rollback, Restored
  <2>2. CASE pc' = "publishRolledBack"
    BY <1>0, <1>4, <1>6, <1>8, <2>2 DEF RollbackInv, Rollback, Restored
  <2> QED BY <1>8, <2>1, <2>2
<1>12. JobInv'
  BY <1>0, <1>1, <1>4, <1>8 DEF JobInv, Early, Prepare, Swap, Clean, Apply
<1> QED BY <1>3, <1>7, <1>9, <1>10, <1>11, <1>12 DEF IInv

(* The journal says that everything is put back.                            *)
LEMMA PublishRolledBackStep == ASSUME IInv, PublishRolledBack PROVE IInv'
<1> USE DEF PublishRolledBack
<1>0. /\ TypeOK /\ FilesInv /\ VaultInv /\ JobInv /\ AtInv
      /\ journal.phase = "pending" /\ Restored(Targets) /\ pc = "publishRolledBack"
  BY DEF IInv, RollbackInv
<1>1. /\ pc' = "syncRolledBack"
      /\ UNCHANGED <<at, cont, job, live, disk, diskJournal, vault, history, faults>>
      /\ journal' = [journal EXCEPT !.phase = "rolledBack"]
  BY DEF Stay, PutJournal
<1>2. FilesInv' /\ Durable' = Durable
  BY <1>0, <1>1, RolledBackFiles DEF history
<1>3. /\ journal'.phase = "rolledBack" /\ journal' \in Journals
  BY <1>0, <1>1 DEF TypeOK, FilesTypeOK, Journals, Phases
<1>4. TypeOK'
  BY <1>0, <1>1, <1>3 DEF TypeOK, FilesTypeOK, Steps, vault, history
<1>5. diskJournal = journal /\ at = 1
  BY <1>0, AppFacts DEF Restored, AtInv, Rollback, Prepare, Swap
<1>6. VaultInv'
  BY <1>0, <1>1, <1>2, <1>3, <1>5 DEF VaultInv, Staged, Committed, vault, history
<1>7. /\ AtInv' /\ RollbackInv' /\ PrepareInv' /\ SwapInv' /\ ApplyInv' /\ CleanInv'
  BY <1>1, <1>3, <1>5 DEF AtInv, RollbackInv, PrepareInv, SwapInv, ApplyInv, CleanInv,
              Rollback, Prepare, Swap, Clean, Apply
<1>8. JobInv'
  BY <1>0, <1>1, <1>3 DEF JobInv, Early, Prepare, Swap, Clean, Apply, Pending
<1> QED BY <1>2, <1>4, <1>6, <1>7, <1>8 DEF IInv

(* After this no power loss asks for the rollback again.                    *)
LEMMA SyncRolledBackStep == ASSUME IInv, SyncRolledBack PROVE IInv'
<1> USE DEF SyncRolledBack
<1>0. /\ TypeOK /\ FilesInv /\ VaultInv /\ JobInv /\ FilesTypeOK
      /\ journal.phase = "rolledBack" /\ cont \in {"open", "resolve"}
  BY DEF IInv, RollbackInv, TypeOK, JobInv
<1>1. /\ pc' = "unlink" /\ at' = 1
      /\ UNCHANGED <<cont, job, vault, history, faults>> /\ UNCHANGED <<installs, kept>>
  BY DEF Go, history
<1>2. FilesInv' /\ Durable' = Durable
  BY <1>0, <1>1, AppFacts, SyncFiles
<1>3. FilesTypeOK' /\ journal' = journal /\ diskJournal' = journal
  BY <1>0, AppFacts, SyncNames
<1>4. TypeOK'
  BY <1>0, <1>1, <1>3, OrderFacts DEF TypeOK, Steps, vault, history
<1>5. VaultInv'
  BY <1>0, <1>1, <1>2, <1>3 DEF VaultInv, Staged, Committed, vault, history,
     FilesInv, JournalsAgree, JournalSteps
<1>6. /\ AtInv' /\ RollbackInv' /\ PrepareInv' /\ SwapInv' /\ ApplyInv' /\ CleanInv'
  BY <1>0, <1>1, <1>3 DEF AtInv, RollbackInv, PrepareInv, SwapInv, ApplyInv, CleanInv,
              Rollback, Prepare, Swap, Clean, Apply, Pending
<1>7. JobInv'
  BY <1>0, <1>1, <1>2, <1>3 DEF JobInv, Early, Prepare, Swap, Clean, Apply, Pending
<1> QED BY <1>2, <1>4, <1>5, <1>6, <1>7 DEF IInv

(* A terminal journal becomes durable: of a commit this is the moment the   *)
(* new generation takes over.                                               *)
LEMMA TerminalVault ==
  ASSUME TypeOK, FilesInv, VaultInv, journal.phase \in {"committed", "rolledBack"},
         UNCHANGED <<vault, keyOf>>, journal' = journal, diskJournal' = journal,
         Current' = Current,
         Durable' = IF journal.phase = "committed" THEN Current ELSE Durable
  PROVE  VaultInv'
<1>1. CASE journal.phase = "rolledBack"
  BY <1>1 DEF VaultInv, Staged, Committed, vault, FilesInv, JournalsAgree, JournalSteps
<1>2. CASE journal.phase = "committed" /\ diskJournal.phase = "committed"
  <2>1. Durable' = Durable /\ journal.identity = diskJournal.identity
    BY <1>2, Generation DEF BothPending, FilesInv, JournalsAgree
  <2> QED BY <1>2, <2>1 DEF VaultInv, Staged, Committed, vault
<1>3. CASE journal.phase = "committed" /\ diskJournal.phase = "pending"
  <2>1. ~Staged(keys.id) /\ token \in {Absent, keys.id} /\ keys.id <= record.id
    BY <1>3 DEF VaultInv, Committed
  <2>2. IF journal.identity = Absent THEN keyOf[Current] = keys.id
          ELSE Staged(journal.identity) /\ keyOf[Current] = record.id
    BY <1>3 DEF VaultInv
  <2>3. journal.identity <= record.id
    BY <2>2 DEF TypeOK, Staged, Absent, Identities
  <2> QED BY <1>3, <2>1, <2>2, <2>3 DEF VaultInv, Staged, Committed, vault, TypeOK, Identities, Absent
<1> QED BY <1>1, <1>2, <1>3 DEF FilesInv, JournalsAgree, JournalSteps

(* A recovery makes a terminal journal durable before it acts on it.        *)
LEMMA SyncTerminalStep == ASSUME IInv, SyncTerminal PROVE IInv'
<1> USE DEF SyncTerminal
<1>0. /\ TypeOK /\ FilesInv /\ VaultInv /\ JobInv /\ FilesTypeOK
      /\ journal.phase \in {"committed", "rolledBack"} /\ cont \in {"open", "resolve"}
  BY DEF IInv, RollbackInv, TypeOK, JobInv
<1>1. /\ pc' = (IF journal.phase = "committed" /\ journal.identity # Absent
                   THEN "storeKeys" ELSE "unlink")
      /\ at' = 1 /\ UNCHANGED <<cont, vault, history, faults>>
      /\ UNCHANGED <<installs, kept, keyOf>>
  BY DEF history
<1>2. /\ job' \in Jobs /\ job'.gen = job.gen
      /\ job'.committed <=> journal.phase = "committed"
  <2>1. job \in Jobs /\ job' = [job EXCEPT !.committed = (journal.phase = "committed")]
    BY <1>0 DEF TypeOK, Jobs
  <2> QED BY <2>1 DEF Jobs
<1>3. /\ FilesInv' /\ Current' = Current
      /\ Durable' = IF journal.phase = "committed" THEN Current ELSE Durable
  BY <1>0, <1>1, AppFacts, SyncFiles
<1>4. FilesTypeOK' /\ journal' = journal /\ diskJournal' = journal
  BY <1>0, AppFacts, SyncNames
<1>5. TypeOK'
  BY <1>0, <1>1, <1>2, <1>4, OrderFacts DEF TypeOK, Steps, Jobs, vault, history
<1>6. VaultInv'
  BY <1>0, <1>1, <1>3, <1>4, TerminalVault
<1>7. /\ AtInv' /\ RollbackInv' /\ PrepareInv' /\ SwapInv'
  BY <1>1 DEF AtInv, RollbackInv, PrepareInv, SwapInv,
              Rollback, Prepare, Swap, Clean, Apply
<1>8. ApplyInv' /\ CleanInv'
  BY <1>0, <1>1, <1>4 DEF ApplyInv, CleanInv, Clean, Apply, Pending, Committed,
     Staged, TypeOK, Identities, Absent, vault
<1>9. JobInv'
  BY <1>0, <1>1, <1>2, <1>3, <1>4
     DEF JobInv, Early, Rollback, Prepare, Swap, Clean, Apply, Pending
<1> QED BY <1>3, <1>5, <1>6, <1>7, <1>8, <1>9 DEF IInv

(* The identity a commit restored is applied.                               *)
LEMMA IdentityStep == ASSUME IInv, Identity PROVE IInv'
<1>0. /\ TypeOK /\ FilesInv /\ VaultInv /\ JobInv /\ ApplyInv /\ FilesTypeOK
      /\ pc \in Apply
  BY DEF IInv, TypeOK, Identity, StoreKeys, DropToken, Acknowledge, Apply
<1>1. /\ Committed /\ journal.identity # Absent /\ cont # "install" /\ at = 1
      /\ Current = Durable /\ ~Pending
  BY <1>0, Generation DEF ApplyInv, JobInv, Committed, BothPending, Pending, IInv,
     AtInv, Apply, Rollback, Prepare, Swap
<1>2. UNCHANGED <<files, history, faults>> /\ UNCHANGED <<journal, diskJournal, installs, kept, keyOf>>
  BY DEF Identity, StoreKeys, DropToken, Acknowledge, files, history
<1>3. FilesInv' /\ Durable' = Durable /\ Current' = Current /\ FilesTypeOK'
  BY <1>0, <1>2, SameFiles
<1>4. ASSUME Failing, UNCHANGED <<keys, token, record>> PROVE IInv'
  BY <1>0, <1>2, <1>4, FailingStep DEF vault, TypeOK
<1>5. ASSUME pc' \in {"unlink", "dropToken", "acknowledge"}, Go(pc'),
             vault' \in [id : Identities, version : 0..MaxUpdates]
                        \X (Identities \cup {Absent}) \X [id : Identities, applied : BOOLEAN],
             VaultInv', ApplyInv', pc' = "unlink" => ~Staged(journal.identity)'
      PROVE  IInv'
  <2>1. at' = 1 /\ UNCHANGED <<cont, job>>
    BY <1>5 DEF Go
  <2>2. TypeOK'
    BY <1>0, <1>2, <1>3, <1>5, <2>1, OrderFacts DEF TypeOK, Steps, vault, history
  <2>3. AtInv' /\ RollbackInv' /\ PrepareInv' /\ SwapInv' /\ CleanInv'
    BY <1>1, <1>2, <1>5, <2>1 DEF AtInv, RollbackInv, PrepareInv, SwapInv, CleanInv,
              Rollback, Prepare, Swap, Clean, Apply, Pending, Staged
  <2>4. JobInv'
    BY <1>0, <1>1, <1>2, <1>3, <1>5, <2>1
       DEF JobInv, Early, Rollback, Prepare, Swap, Clean, Apply, Pending
  <2> QED BY <1>3, <1>5, <2>2, <2>3, <2>4 DEF IInv
<1>6. CASE StoreKeys
  <2>1. CASE Failing /\ UNCHANGED keys
    BY <1>4, <1>6, <2>1 DEF StoreKeys
  <2>2. CASE record.id = journal.identity /\ record.applied /\ Go("unlink") /\ UNCHANGED keys
    <3>1. UNCHANGED vault /\ pc' = "unlink"
      BY <1>6, <2>2 DEF StoreKeys, vault, Go
    <3>2. VaultInv'
      BY <1>0, <1>2, <1>3, <3>1, SameVault DEF vault
    <3> QED BY <1>0, <1>2, <1>5, <2>2, <3>1, <3>2 DEF vault, TypeOK, ApplyInv, Apply, Staged
  <2>3. CASE /\ record.id = journal.identity /\ ~record.applied
             /\ keys' = [id |-> record.id, version |-> 0] /\ Go("dropToken")
    <3>1. UNCHANGED <<token, record>> /\ pc' = "dropToken" /\ keys'.id = record.id /\ keys'.version = 0
      BY <1>6, <2>3 DEF StoreKeys, Go
    <3>2. VaultInv'
      BY <1>0, <1>1, <1>2, <1>3, <2>3, <3>1
         DEF VaultInv, Staged, Committed, TypeOK, Identities
    <3>3. ApplyInv'
      BY <1>1, <1>2, <2>3, <3>1 DEF ApplyInv, Committed, Staged, Apply
    <3>4. keys' \in [id : Identities, version : 0..MaxUpdates]
      BY <1>0, <2>3, BoundAssumption DEF TypeOK
    <3> QED BY <1>0, <1>5, <2>3, <3>1, <3>2, <3>3, <3>4 DEF vault, TypeOK
  <2> QED BY <1>6, <2>1, <2>2, <2>3 DEF StoreKeys
<1>7. CASE DropToken
  <2>1. /\ UNCHANGED <<keys, record>> /\ token' = Absent /\ pc' = "acknowledge"
        /\ Staged(keys.id) /\ Go("acknowledge")
    BY <1>0, <1>7 DEF DropToken, Go, ApplyInv
  <2>2. VaultInv'
    BY <1>0, <1>2, <1>3, <2>1 DEF VaultInv, Staged, Committed
  <2>3. ApplyInv'
    BY <1>1, <1>2, <2>1 DEF ApplyInv, Committed, Staged, Apply
  <2> QED BY <1>0, <1>5, <2>1, <2>2, <2>3 DEF vault, TypeOK
<1>8. CASE Acknowledge
  <2>1. /\ UNCHANGED <<keys, token>> /\ token = Absent /\ pc' = "unlink"
        /\ Staged(keys.id) /\ Go("unlink")
    BY <1>0, <1>8 DEF Acknowledge, Go, ApplyInv
  <2>2. /\ record'.id = record.id /\ record'.applied
        /\ record' \in [id : Identities, applied : BOOLEAN]
    BY <1>0, <1>8 DEF Acknowledge, TypeOK
  <2>3. keys.id = keyOf[Durable]
    BY <1>0, <1>1, <2>1 DEF VaultInv, Staged, Committed
  <2>4. VaultInv'
    BY <1>0, <1>1, <1>2, <1>3, <2>1, <2>2, <2>3 DEF VaultInv, Staged, Committed
  <2>5. ApplyInv' /\ ~Staged(journal.identity)'
    BY <2>1, <2>2 DEF ApplyInv, Staged, Apply
  <2> QED BY <1>0, <1>5, <2>1, <2>2, <2>4, <2>5 DEF vault, TypeOK
<1> QED BY <1>6, <1>7, <1>8 DEF Identity

(* Cleaning up: no rollback can follow, and what a commit restored is       *)
(* applied.                                                                 *)
LEMMA CleanContext ==
  ASSUME IInv, pc \in Clean
  PROVE  /\ TypeOK /\ FilesInv /\ VaultInv /\ JobInv /\ FilesTypeOK
         /\ ~Pending /\ ~BothPending /\ Current = Durable /\ cont # "install"
         /\ journal.phase = "committed" => ~Staged(journal.identity)
<1>1. /\ TypeOK /\ FilesInv /\ VaultInv /\ JobInv /\ FilesTypeOK /\ CleanInv
  BY DEF IInv, TypeOK
<1>2. ~Pending /\ ~BothPending /\ cont # "install"
      /\ (journal.phase = "committed" => ~Staged(journal.identity))
  BY <1>1 DEF CleanInv, Pending, BothPending, JobInv
<1> QED BY <1>1, <1>2, Generation DEF Pending

(* A shadow is removed: nobody needs it any more.                           *)
LEMMA UnlinkStep == ASSUME IInv, Unlink PROVE IInv'
<1> USE DEF Unlink
<1>0. /\ TypeOK /\ FilesInv /\ VaultInv /\ JobInv /\ FilesTypeOK
      /\ ~Pending /\ ~BothPending /\ Current = Durable /\ cont # "install"
      /\ journal.phase = "committed" => ~Staged(journal.identity)
  BY CleanContext DEF Clean
<1>1. /\ Shadow(at) \in Shadows /\ Shadow(at) \in Names
  BY <1>0, ShadowFacts DEF TypeOK
<1>2. /\ FilesTypeOK' /\ disk' = disk /\ journal' = journal /\ diskJournal' = diskJournal
      /\ \A m \in Names : m # Shadow(at) => live'[m] = live[m]
  BY <1>0, <1>1, PutNames
<1>3. \A t \in Targets : live'[<<t, "target">>] = live[<<t, "target">>]
  BY <1>1, <1>2, NameFacts
<1>4. /\ pc' = "syncUnlinked" /\ UNCHANGED <<at, cont, job, vault, history, faults>>
      /\ UNCHANGED <<installs, kept, keys, token, record, keyOf>>
  BY DEF Stay, vault, history
<1>5. FilesInv' /\ Durable' = Durable /\ Current' = Current
  BY <1>0, <1>2, <1>3, <1>4, ShadowFiles
<1>6. TypeOK'
  BY <1>0, <1>2, <1>4 DEF TypeOK, Steps, vault, history
<1>7. VaultInv'
  BY <1>0, <1>2, <1>4, <1>5, SameVault
<1>8. AtInv' /\ RollbackInv' /\ PrepareInv' /\ SwapInv' /\ ApplyInv' /\ CleanInv'
  BY <1>0, <1>2, <1>4 DEF AtInv, RollbackInv, PrepareInv, SwapInv, ApplyInv, CleanInv,
              Rollback, Prepare, Swap, Clean, Apply, Pending, Staged
<1>9. JobInv'
  BY <1>0, <1>2, <1>4, <1>5 DEF JobInv, Early, Prepare, Swap, Clean, Apply, Pending
<1> QED BY <1>5, <1>6, <1>7, <1>8, <1>9 DEF IInv

(* Its removal becomes durable; the last one ends the loop.                 *)
LEMMA SyncUnlinkedStep == ASSUME IInv, SyncUnlinked PROVE IInv'
<1> USE DEF SyncUnlinked
<1>0. /\ TypeOK /\ FilesInv /\ VaultInv /\ JobInv /\ FilesTypeOK
      /\ ~Pending /\ ~BothPending /\ Current = Durable /\ cont # "install"
      /\ journal.phase = "committed" => ~Staged(journal.identity)
  BY CleanContext DEF Clean
<1> DEFINE t == Shadow(at)[1]
<1>1. t \in Targets /\ SyncParent(t)
  BY <1>0, ShadowFacts DEF TypeOK
<1>2. /\ FilesTypeOK' /\ live' = live /\ journal' = journal
      /\ diskJournal' = IF t \in InData THEN diskJournal ELSE journal
  BY <1>0, <1>1, SyncNames
<1>3. /\ pc' \in {"unlink", "unlinkJournal"} /\ at' \in 1..(3 * Len(Order))
      /\ pc' = "unlinkJournal" => at' = 1
      /\ UNCHANGED <<cont, job, vault, history, faults>>
      /\ UNCHANGED <<installs, kept, keys, token, record, keyOf>>
  BY <1>0, OrderFacts DEF Loop, TypeOK, vault, history
<1>4. FilesInv' /\ Current' = Current /\ Durable' = Durable
  BY <1>0, <1>1, <1>3, SyncFiles
<1>5. TypeOK'
  BY <1>0, <1>2, <1>3 DEF TypeOK, Steps, vault, history
<1>6. VaultInv'
  <2>1. CASE diskJournal' = diskJournal
    BY <1>0, <1>2, <1>3, <1>4, <2>1, SameVault
  <2>2. CASE diskJournal' = journal
    <3>1. journal.phase = "committed" => diskJournal.phase = "committed" /\ journal.identity = diskJournal.identity
      BY <1>0 DEF FilesInv, JournalsAgree, JournalSteps, Pending
    <3> QED BY <1>0, <1>2, <1>3, <1>4, <2>2, <3>1 DEF VaultInv, Staged, Committed
  <2> QED BY <1>2, <2>1, <2>2
<1>7. AtInv' /\ RollbackInv' /\ PrepareInv' /\ SwapInv' /\ ApplyInv' /\ CleanInv'
  BY <1>0, <1>2, <1>3 DEF AtInv, RollbackInv, PrepareInv, SwapInv, ApplyInv, CleanInv,
              Rollback, Prepare, Swap, Clean, Apply, Pending, Staged
<1>8. JobInv'
  BY <1>0, <1>2, <1>3, <1>4 DEF JobInv, Early, Prepare, Swap, Clean, Apply, Pending
<1> QED BY <1>4, <1>5, <1>6, <1>7, <1>8 DEF IInv

(* The journal is removed last.                                             *)
LEMMA UnlinkJournalStep == ASSUME IInv, UnlinkJournal PROVE IInv'
<1> USE DEF UnlinkJournal
<1>0. /\ TypeOK /\ FilesInv /\ VaultInv /\ JobInv /\ FilesTypeOK
      /\ ~Pending /\ ~BothPending /\ Current = Durable /\ cont # "install"
      /\ journal.phase = "committed" => ~Staged(journal.identity)
  BY CleanContext DEF Clean
<1>1. /\ pc' = "syncJournal" /\ journal' = NoJournal
      /\ UNCHANGED <<at, cont, job, live, disk, diskJournal, vault, history, faults>>
      /\ UNCHANGED <<installs, kept, keys, token, record, keyOf>>
  BY DEF Stay, PutJournal, vault, history
<1>2. FilesInv' /\ Durable' = Durable /\ Current' = Current
  BY <1>0, <1>1, UnlinkJournalFiles
<1>3. TypeOK'
  BY <1>0, <1>1 DEF TypeOK, FilesTypeOK, Steps, vault, history, NoJournal, Journals, Phases
<1>4. VaultInv'
  <2>1. journal.phase = "committed" /\ diskJournal.phase = "committed" =>
           journal.identity = diskJournal.identity
    BY <1>0 DEF FilesInv, JournalsAgree
  <2>2. keys.id = keyOf[Durable] /\ ~Staged(keys.id)
    BY <1>0 DEF VaultInv, Committed, Staged
  <2>3. diskJournal.phase = "committed" => ~Staged(diskJournal.identity)
    BY <1>0, <2>1 DEF VaultInv, FilesInv, JournalsAgree, JournalSteps
  <2> QED BY <1>0, <1>1, <1>2, <2>2, <2>3 DEF VaultInv, Staged, Committed, NoJournal
<1>5. at = 1 /\ diskJournal.phase # "pending"
  BY <1>0 DEF IInv, AtInv, Rollback, Prepare, Swap, Pending
<1>6. AtInv' /\ RollbackInv' /\ PrepareInv' /\ SwapInv' /\ ApplyInv' /\ CleanInv'
  BY <1>1, <1>5 DEF AtInv, RollbackInv, PrepareInv, SwapInv, ApplyInv, CleanInv,
              Rollback, Prepare, Swap, Clean, Apply, Pending, NoJournal
<1>7. JobInv'
  BY <1>0, <1>1, <1>2, <1>5 DEF JobInv, Early, Prepare, Swap, Clean, Apply, Pending, NoJournal
<1> QED BY <1>2, <1>3, <1>4, <1>6, <1>7 DEF IInv

(* Its removal becomes durable and the caller is answered.                  *)
LEMMA SyncJournalStep == ASSUME IInv, SyncJournal PROVE IInv'
<1> USE DEF SyncJournal
<1>0. /\ TypeOK /\ FilesInv /\ VaultInv /\ JobInv /\ FilesTypeOK
      /\ ~Pending /\ Current = Durable /\ journal = NoJournal
  BY CleanContext DEF Clean, IInv, CleanInv
<1>1. FilesTypeOK' /\ live' = live /\ journal' = journal /\ diskJournal' = journal
  BY <1>0, AppFacts, SyncNames
<1>2. FilesInv' /\ Current' = Current /\ Durable' = Durable
  BY <1>0, AppFacts, SyncFiles DEF NoJournal
<1>3. VaultInv'
  BY <1>0, <1>1, <1>2 DEF VaultInv, Staged, Committed, NoJournal, vault
<1> QED BY <1>0, <1>1, <1>2, <1>3, FinishStep

(* Preparing a restore: nothing the app or a recovery goes by has changed.  *)
LEMMA PrepareContext ==
  ASSUME IInv, pc \in {"orphans", "publish"} \cup Prepare
  PROVE  /\ TypeOK /\ FilesInv /\ VaultInv /\ JobInv /\ PrepareInv /\ FilesTypeOK
         /\ journal = NoJournal /\ journal.phase = "none" /\ ~Pending /\ ~BothPending
         /\ Current = Durable /\ Durable \in Generations /\ Whole(live, Durable)
         /\ cont = "fresh" /\ job \in Jobs
         /\ pc \in Prepare => /\ at \in 1..Len(Order) /\ Target \in Targets
                              /\ Target \notin Past /\ Past \subseteq Targets
         /\ pc \notin Prepare => at = 1
<1>1. /\ TypeOK /\ FilesInv /\ VaultInv /\ JobInv /\ PrepareInv /\ FilesTypeOK /\ AtInv
      /\ job \in Jobs
  BY DEF IInv, TypeOK, Jobs
<1>2. journal = NoJournal /\ journal.phase = "none"
  BY <1>1 DEF PrepareInv, NoJournal
<1>3. ~Pending /\ ~BothPending
  BY <1>1, <1>2 DEF Pending, BothPending, FilesInv, JournalsAgree, JournalSteps
<1>4. Current = Durable /\ Durable \in Generations /\ Whole(live, Durable)
  BY <1>1, <1>2, <1>3, Generation
<1>5. cont = "fresh"
  BY <1>1 DEF JobInv, Early
<1>6. pc \in Prepare => at \in 1..Len(Order)
  BY <1>1 DEF AtInv
<1>7. pc \notin Prepare => at = 1
  BY <1>1 DEF AtInv, Rollback, Swap
<1> QED BY <1>1, <1>2, <1>3, <1>4, <1>5, <1>6, <1>7, PastFacts

(* A step of the preparation on one file.                                   *)
LEMMA WithinPrepare ==
  ASSUME IInv, pc \in {"orphans"} \cup Prepare,
         pc' \in {"orphans", "publish"} \cup Prepare,
         UNCHANGED <<cont, vault, history, faults, journal>>,
         diskJournal' \in {diskJournal, journal},
         job' \in Jobs, job'.gen = job.gen, job'.identity = job.identity,
         job'.committed = job.committed,
         FilesTypeOK', FilesInv', Durable' = Durable, VaultInv', PrepareInv',
         IF pc' \in Prepare THEN at' \in 1..Len(Order) ELSE at' = 1
  PROVE  IInv'
<1>0. /\ TypeOK /\ JobInv /\ journal = NoJournal /\ journal.phase = "none"
      /\ cont = "fresh" /\ ~Pending
  BY PrepareContext
<1>1. TypeOK'
  BY <1>0, OrderFacts DEF TypeOK, Steps, Jobs, Prepare, vault, history
<1>2. AtInv' /\ RollbackInv' /\ SwapInv' /\ ApplyInv' /\ CleanInv'
  BY <1>0 DEF AtInv, RollbackInv, SwapInv, ApplyInv, CleanInv,
              Rollback, Prepare, Swap, Clean, Apply
<1>3. JobInv'
  BY <1>0 DEF JobInv, Early, Rollback, Prepare, Swap, Clean, Apply, Pending, Staged,
              vault, history
<1> QED BY <1>1, <1>2, <1>3 DEF IInv

(* Shadows without a journal are removed before a new restore.              *)
LEMMA RemoveOrphansStep == ASSUME IInv, RemoveOrphans PROVE IInv'
<1> USE DEF RemoveOrphans
<1>0. /\ TypeOK /\ FilesInv /\ VaultInv /\ JobInv /\ PrepareInv /\ FilesTypeOK
      /\ journal = NoJournal /\ ~Pending /\ job \in Jobs /\ at = 1
  BY PrepareContext DEF Prepare
<1>1. UNCHANGED <<vault, history, faults>> /\ UNCHANGED <<installs, kept, keys, token, record, keyOf>>
  BY DEF vault, history
<1>2. CASE UNCHANGED control
  <2>1. PICK n \in Shadows : /\ live' = [live EXCEPT ![n] = Absent]
                             /\ disk' = [disk EXCEPT ![n] = Absent]
                             /\ UNCHANGED <<journal, diskJournal, control>>
    BY <1>2 DEF control, Go
  <2>2. FilesTypeOK' /\ \A m \in Names : m # n => live'[m] = live[m] /\ disk'[m] = disk[m]
    BY <1>0, <2>1, ShadowFacts DEF FilesTypeOK
  <2>3. \A t \in Targets : /\ live'[<<t, "target">>] = live[<<t, "target">>]
                           /\ disk'[<<t, "target">>] = disk[<<t, "target">>]
    BY <2>1, <2>2, NameFacts
  <2>4. FilesInv' /\ Durable' = Durable /\ Current' = Current
    BY <1>0, <1>1, <2>1, <2>3, ShadowFiles
  <2>5. VaultInv'
    BY <1>0, <1>1, <2>1, <2>4, SameVault
  <2>6. PrepareInv'
    BY <1>0, <2>1 DEF PrepareInv, Prepare, control
  <2> QED BY <1>0, <1>1, <2>1, <2>2, <2>4, <2>5, <2>6, WithinPrepare
       DEF control, Prepare
<1>3. CASE Go("retain") /\ UNCHANGED files
  <2>1. pc' = "retain" /\ at' = 1 /\ UNCHANGED <<cont, job, journal, diskJournal>>
    BY <1>3 DEF Go, files
  <2>2. FilesInv' /\ Durable' = Durable /\ Current' = Current /\ FilesTypeOK'
    BY <1>0, <1>1, <1>3, SameFiles
  <2>3. VaultInv'
    BY <1>0, <1>1, <2>1, <2>2, SameVault
  <2>4. PrepareInv'
    <3>1. Past' = {}
      BY <2>1 DEF Past
    <3> QED BY <1>0, <2>1, <3>1 DEF PrepareInv, Prepare, Prepared
  <2> QED BY <1>0, <1>1, <2>1, <2>2, <2>3, <2>4, OrderFacts, WithinPrepare DEF Prepare
<1> QED BY <1>2, <1>3

(* A target that exists is linked to its old shadow.                        *)
LEMMA RetainStep == ASSUME IInv, Retain PROVE IInv'
<1> USE DEF Retain
<1>0. /\ TypeOK /\ FilesInv /\ VaultInv /\ JobInv /\ PrepareInv /\ FilesTypeOK
      /\ journal = NoJournal /\ ~Pending
      /\ Durable \in Generations /\ Whole(live, Durable) /\ job \in Jobs
      /\ at \in 1..Len(Order) /\ Target \in Targets
      /\ Target \notin Past /\ Past \subseteq Targets
  BY PrepareContext DEF Prepare
<1> DEFINE original == live[<<Target, "target">>] # Absent /\ Target \notin Scratch
           saved == IF original THEN live[<<Target, "target">>] ELSE Absent
<1>1. /\ Put(<<Target, "old">>, saved) /\ pc' \in {"copy", "syncPrepared"}
      /\ pc' = "copy" <=> Target \in Replaced
      /\ UNCHANGED <<at, cont, vault, history, faults>>
      /\ UNCHANGED <<installs, kept, keys, token, record, keyOf>>
      /\ job' = IF original THEN [job EXCEPT !.original = @ \cup {Target}] ELSE job
  BY DEF vault, history
<1>2. saved \in Generations \cup {Absent}
  BY <1>0, NameFacts DEF FilesTypeOK
<1>3. /\ FilesTypeOK' /\ disk' = disk /\ journal' = journal /\ diskJournal' = diskJournal
      /\ \A m \in Names : live'[m] = IF m = <<Target, "old">> THEN saved ELSE live[m]
  BY <1>0, <1>1, <1>2, NameFacts, PutNames
<1>4. /\ \A t \in Targets : live'[<<t, "target">>] = live[<<t, "target">>]
      /\ \A t \in Targets : live'[<<t, "new">>] = live[<<t, "new">>]
      /\ \A t \in Targets \ {Target} : live'[<<t, "old">>] = live[<<t, "old">>]
      /\ live'[<<Target, "old">>] = saved
  BY <1>0, <1>3, NameFacts
<1>5. FilesInv' /\ Durable' = Durable /\ Current' = Current
  BY <1>0, <1>1, <1>3, <1>4, ShadowFiles
<1>6. VaultInv'
  BY <1>0, <1>1, <1>3, <1>5, SameVault
<1>7. original <=> Target \in Kept(Durable)
  BY <1>0 DEF Whole, Kept, Absent, Generations
<1>8. /\ job' \in Jobs /\ job'.gen = job.gen /\ job'.identity = job.identity
      /\ job'.committed = job.committed
      /\ job'.original = IF original THEN job.original \cup {Target} ELSE job.original
  BY <1>0, <1>1 DEF Jobs
<1>9. original => saved = Durable
  BY <1>0 DEF Whole
<1>10. job.original \subseteq Past /\ Prepared(Past)
  BY <1>0 DEF PrepareInv, Prepare
<1> HIDE DEF original, saved
<1>11. PrepareInv'
  <2>1. Past' = Past /\ Target' = Target /\ Kept(Durable)' = Kept(Durable)
    BY <1>1, <1>5 DEF Past, Target, Kept
  <2>2. job'.original \cap Past = job.original \cap Past
    BY <1>0, <1>8
  <2>3. Prepared(Past)'
    BY <1>0, <1>3, <1>4, <1>5, <1>8, <1>10, <2>1, <2>2 DEF Prepared
  <2>4. /\ job'.original \subseteq Past \cup {Target}
        /\ Target \in job'.original <=> Target \in Kept(Durable)
        /\ Target \in job'.original => live'[<<Target, "old">>] = Durable
    BY <1>0, <1>4, <1>7, <1>8, <1>9, <1>10
  <2> QED BY <1>0, <1>1, <1>3, <1>5, <2>1, <2>3, <2>4 DEF PrepareInv, Prepare
<1> QED BY <1>0, <1>1, <1>3, <1>5, <1>6, <1>8, <1>11, WithinPrepare DEF Prepare

(* What is restored is copied beside its target.                            *)
LEMMA CopyStep == ASSUME IInv, Copy PROVE IInv'
<1> USE DEF Copy
<1>0. /\ TypeOK /\ FilesInv /\ VaultInv /\ JobInv /\ PrepareInv /\ FilesTypeOK
      /\ journal = NoJournal /\ ~Pending /\ job \in Jobs
      /\ at \in 1..Len(Order) /\ Target \in Targets
      /\ Target \notin Past /\ Past \subseteq Targets
  BY PrepareContext DEF Prepare
<1>1. /\ pc' = "syncPrepared" /\ UNCHANGED <<at, cont, job, vault, history, faults>>
      /\ UNCHANGED <<installs, kept, keys, token, record, keyOf>>
  BY DEF Stay, vault, history
<1>2. /\ FilesTypeOK' /\ disk' = disk /\ journal' = journal /\ diskJournal' = diskJournal
      /\ \A m \in Names : live'[m] = IF m = <<Target, "new">> THEN job.gen ELSE live[m]
  BY <1>0, NameFacts, PutNames DEF Jobs
<1>3. /\ \A t \in Targets : live'[<<t, "target">>] = live[<<t, "target">>]
      /\ \A t \in Targets : live'[<<t, "old">>] = live[<<t, "old">>]
      /\ \A t \in Targets \ {Target} : live'[<<t, "new">>] = live[<<t, "new">>]
      /\ live'[<<Target, "new">>] = job.gen
  BY <1>0, <1>2, NameFacts
<1>4. FilesInv' /\ Durable' = Durable /\ Current' = Current
  BY <1>0, <1>1, <1>2, <1>3, ShadowFiles
<1>5. VaultInv'
  BY <1>0, <1>1, <1>2, <1>4, SameVault
<1>6. PrepareInv'
  <2>1. Past' = Past /\ Target' = Target /\ Kept(Durable)' = Kept(Durable)
    BY <1>1, <1>4 DEF Past, Target, Kept
  <2>2. Prepared(Past)'
    BY <1>0, <1>1, <1>2, <1>3, <1>4, <2>1 DEF Prepared, PrepareInv, Prepare
  <2> QED BY <1>0, <1>1, <1>2, <1>3, <1>4, <2>1, <2>2 DEF PrepareInv, Prepare
<1> QED BY <1>0, <1>1, <1>2, <1>4, <1>5, <1>6, WithinPrepare DEF Prepare

(* Both shadows become durable; the last entry ends the loop.               *)
LEMMA SyncPreparedStep == ASSUME IInv, SyncPrepared PROVE IInv'
<1> USE DEF SyncPrepared
<1>0. /\ TypeOK /\ FilesInv /\ VaultInv /\ JobInv /\ PrepareInv /\ FilesTypeOK
      /\ journal = NoJournal /\ journal.phase = "none" /\ ~Pending /\ job \in Jobs
      /\ at \in 1..Len(Order) /\ Target \in Targets
      /\ Target \notin Past /\ Past \subseteq Targets
  BY PrepareContext DEF Prepare
<1>1. /\ UNCHANGED <<cont, job, vault, history, faults>>
      /\ UNCHANGED <<installs, kept, keys, token, record, keyOf>>
  BY DEF Loop, vault, history
<1>2. FilesInv' /\ Durable' = Durable
  BY <1>0, <1>1, SyncFiles
<1>3. /\ FilesTypeOK' /\ live' = live /\ journal' = journal
      /\ \A n \in Names : disk'[n] \in {live[n], disk[n]}
      /\ \A n \in Names : n[1] = Target => disk'[n] = live[n]
      /\ diskJournal' = IF Target \in InData THEN diskJournal ELSE journal
  BY <1>0, SyncNames
<1>4. /\ at' \in 1..Len(Order)
      /\ \/ pc' = "retain" /\ Past' = Past \cup {Target}
         \/ pc' = "publish" /\ at' = 1 /\ Targets = Past \cup {Target}
  BY <1>0, LoopFacts
<1>5. VaultInv'
  BY <1>0, <1>1, <1>2, <1>3 DEF VaultInv, Staged, Committed
<1>6. /\ job.original \subseteq Past \cup {Target} /\ Prepared(Past)
      /\ Target \in job.original <=> Target \in Kept(Durable)
      /\ Target \in job.original => live[<<Target, "old">>] = Durable
      /\ Target \in Replaced => live[<<Target, "new">>] = job.gen
  BY <1>0 DEF PrepareInv, Prepare
<1>7. Kept(Durable)' = Kept(Durable)
  BY <1>1, <1>2 DEF Kept
<1>8. /\ job'.original \cap (Past \cup {Target}) = Kept(Durable)' \cap (Past \cup {Target})
      /\ \A t \in Past \cup {Target} :
            /\ t \in Kept(Durable)' => live'[<<t, "old">>] = Durable' /\ disk'[<<t, "old">>] = Durable'
            /\ t \in Replaced => live'[<<t, "new">>] = job'.gen
            /\ t \notin InData => diskJournal' = NoJournal
  <2>1. job.original \cap (Past \cup {Target}) = Kept(Durable) \cap (Past \cup {Target})
    BY <1>0, <1>6 DEF Prepared
  <2>2. \A t \in Past : t \in Kept(Durable) =>
            live'[<<t, "old">>] = Durable' /\ disk'[<<t, "old">>] = Durable'
    BY <1>0, <1>2, <1>3, <1>6, NameFacts DEF Prepared
  <2>3. Target \in Kept(Durable) =>
            live'[<<Target, "old">>] = Durable' /\ disk'[<<Target, "old">>] = Durable'
    BY <1>0, <1>2, <1>3, <1>6, NameFacts
  <2>4. \A t \in Past \cup {Target} : /\ t \in Replaced => live'[<<t, "new">>] = job'.gen
                                      /\ t \notin InData => diskJournal' = NoJournal
    BY <1>0, <1>1, <1>3, <1>6 DEF Prepared
  <2> QED BY <1>1, <1>7, <2>1, <2>2, <2>3, <2>4
<1>9. PrepareInv'
  <2>1. CASE pc' = "retain"
    <3>1. Prepared(Past)'
      BY <1>4, <1>8, <2>1 DEF Prepared
    <3> QED BY <1>0, <1>1, <1>3, <1>4, <1>6, <2>1, <3>1 DEF PrepareInv, Prepare
  <2>2. CASE pc' = "publish"
    <3>1. Prepared(Targets)'
      BY <1>4, <1>8, <2>2 DEF Prepared
    <3> QED BY <1>0, <1>3, <2>2, <3>1 DEF PrepareInv, Prepare
  <2> QED BY <1>4, <2>1, <2>2
<1> QED BY <1>0, <1>1, <1>2, <1>3, <1>4, <1>5, <1>9, WithinPrepare DEF Prepare

(* The journal is published over a complete set of old shadows.             *)
LEMMA PublishStep == ASSUME IInv, Publish PROVE IInv'
<1> USE DEF Publish
<1>0. /\ TypeOK /\ FilesInv /\ VaultInv /\ JobInv /\ PrepareInv /\ FilesTypeOK
      /\ journal = NoJournal /\ journal.phase = "none" /\ ~Pending /\ job \in Jobs
      /\ at = 1 /\ cont = "fresh" /\ Prepared(Targets)
  BY PrepareContext DEF Prepare, PrepareInv
<1>1. /\ pc' = "syncPublished"
      /\ UNCHANGED <<at, cont, job, live, disk, diskJournal, vault, history, faults>>
      /\ UNCHANGED <<installs, kept, keys, token, record, keyOf>>
      /\ journal' = [phase |-> "pending", original |-> job.original,
                     identity |-> job.identity]
  BY DEF Stay, PutJournal, vault, history
<1>2. FilesInv' /\ Durable' = Durable /\ Current' = Current
  BY <1>0, <1>1, PublishFiles DEF Jobs
<1>3. journal' \in Journals /\ journal'.phase = "pending" /\ journal'.identity = job.identity
  BY <1>0, <1>1, TargetAssumption, BoundAssumption
     DEF Jobs, Journals, Phases, Identities, Generations
<1>4. TypeOK'
  BY <1>0, <1>1, <1>3 DEF TypeOK, FilesTypeOK, Steps, vault, history
<1>5. diskJournal = NoJournal
  BY <1>0, AppFacts DEF Prepared
<1>6. VaultInv'
  BY <1>0, <1>1, <1>2, <1>3, <1>5 DEF VaultInv, Staged, Committed, NoJournal
<1>7. AtInv' /\ RollbackInv' /\ PrepareInv' /\ ApplyInv' /\ CleanInv'
  BY <1>0, <1>1 DEF AtInv, RollbackInv, PrepareInv, ApplyInv, CleanInv,
              Rollback, Prepare, Swap, Clean, Apply
<1>8. SwapInv'
  BY <1>0, <1>1, <1>3 DEF SwapInv, Swap, Copied, Prepared
<1>9. JobInv'
  BY <1>0, <1>1, <1>2, <1>3
     DEF JobInv, Early, Rollback, Prepare, Swap, Clean, Apply, Pending, Staged
<1> QED BY <1>2, <1>4, <1>6, <1>7, <1>8, <1>9 DEF IInv

(* The journal is durable: the targets may be replaced.                     *)
LEMMA SyncPublishedStep == ASSUME IInv, SyncPublished PROVE IInv'
<1> USE DEF SyncPublished
<1>0. /\ TypeOK /\ FilesInv /\ VaultInv /\ JobInv /\ FilesTypeOK
      /\ journal.phase = "pending" /\ Copied(Targets) /\ journal.identity = job.identity
      /\ cont = "fresh"
  BY DEF IInv, TypeOK, SwapInv, JobInv, Early
<1>1. /\ pc' = "replace" /\ at' = 1 /\ UNCHANGED <<cont, job, vault, history, faults>>
      /\ UNCHANGED <<installs, kept, keys, token, record, keyOf>>
  BY DEF Go, vault, history
<1>2. FilesInv' /\ Durable' = Durable
  BY <1>0, <1>1, AppFacts, SyncFiles
<1>3. FilesTypeOK' /\ live' = live /\ journal' = journal /\ diskJournal' = journal
  BY <1>0, AppFacts, SyncNames
<1>4. TypeOK'
  BY <1>0, <1>1, <1>3, OrderFacts DEF TypeOK, Steps, vault, history
<1>5. VaultInv'
  <2>1. ~Committed /\ ~(journal.phase = "none") /\ diskJournal.phase # "committed"
    BY <1>0 DEF Committed, FilesInv, JournalsAgree, JournalSteps
  <2> QED BY <1>0, <1>1, <1>2, <1>3, <2>1 DEF VaultInv, Staged, Committed
<1>6. AtInv' /\ RollbackInv' /\ PrepareInv' /\ ApplyInv' /\ CleanInv'
  BY <1>1, OrderFacts DEF AtInv, RollbackInv, PrepareInv, ApplyInv, CleanInv,
              Rollback, Prepare, Swap, Clean, Apply
<1>7. SwapInv'
  <2>1. Past' = {}
    BY <1>1 DEF Past
  <2> QED BY <1>0, <1>1, <1>3, <2>1 DEF SwapInv, Swap, Copied, Swapped, BothPending
<1>8. JobInv'
  BY <1>0, <1>1, <1>2, <1>3
     DEF JobInv, Early, Rollback, Prepare, Swap, Clean, Apply, Pending, Staged
<1> QED BY <1>2, <1>4, <1>5, <1>6, <1>7, <1>8 DEF IInv

(* The replacement of the targets.                                          *)
LEMMA SwapContext ==
  ASSUME IInv, pc \in Swap
  PROVE  /\ TypeOK /\ FilesInv /\ VaultInv /\ JobInv /\ SwapInv /\ FilesTypeOK
         /\ BothPending /\ journal.phase = "pending" /\ diskJournal.phase = "pending"
         /\ Swapped(Past) /\ journal.identity = job.identity
         /\ cont = "fresh" /\ job.gen \in Generations
         /\ at \in 1..Len(Order) /\ Target \in Targets
         /\ Target \notin Past /\ Past \subseteq Targets
<1>1. /\ TypeOK /\ FilesInv /\ VaultInv /\ JobInv /\ SwapInv /\ FilesTypeOK /\ AtInv
  BY DEF IInv, TypeOK
<1>2. at \in 1..Len(Order) /\ BothPending /\ Swapped(Past) /\ journal.identity = job.identity
  BY <1>1 DEF AtInv, SwapInv
<1>3. cont = "fresh" /\ job.gen \in Generations
  BY <1>1 DEF JobInv, Early, TypeOK
<1> QED BY <1>1, <1>2, <1>3, PastFacts DEF BothPending

(* One target is replaced or removed.                                       *)
LEMMA ReplaceStep == ASSUME IInv, Replace PROVE IInv'
<1> USE DEF Replace
<1>0. /\ TypeOK /\ FilesInv /\ VaultInv /\ JobInv /\ SwapInv /\ FilesTypeOK
      /\ BothPending /\ journal.phase = "pending" /\ diskJournal.phase = "pending"
      /\ Swapped(Past) /\ journal.identity = job.identity
      /\ cont = "fresh" /\ job.gen \in Generations
      /\ at \in 1..Len(Order) /\ Target \in Targets
      /\ Target \notin Past /\ Past \subseteq Targets
  BY SwapContext DEF Swap
<1>1. /\ pc' = "syncReplaced" /\ UNCHANGED <<at, cont, job, vault, history, faults>>
      /\ UNCHANGED <<installs, kept, keys, token, record, keyOf>>
  BY DEF Stay, vault, history
<1>2. Copied(Targets \ Past)
  BY <1>0 DEF SwapInv
<1>3. /\ FilesTypeOK' /\ disk' = disk /\ journal' = journal /\ diskJournal' = diskJournal
      /\ live'[<<Target, "target">>] = Latter(Target)
      /\ \A k \in Names \ {<<Target, "new">>, <<Target, "target">>} : live'[k] = live[k]
  <2>1. CASE Target \in Replaced
    <3>1. live[<<Target, "new">>] = job.gen
      BY <1>0, <1>2, <2>1 DEF Copied
    <3>2. /\ <<Target, "new">> \in Names /\ <<Target, "target">> \in Names
          /\ <<Target, "new">> # <<Target, "target">>
      BY <1>0, NameFacts
    <3>3. Rename(<<Target, "new">>, <<Target, "target">>)
      BY <2>1
    <3>4. /\ FilesTypeOK'
          /\ live'[<<Target, "target">>] = live[<<Target, "new">>]
          /\ \A k \in Names \ {<<Target, "new">>, <<Target, "target">>} : live'[k] = live[k]
          /\ disk' = disk /\ journal' = journal /\ diskJournal' = diskJournal
      BY <1>0, <3>2, <3>3, RenameNames
    <3> QED BY <2>1, <3>1, <3>4 DEF Latter
  <2>2. CASE Target \notin Replaced
    <3>1. Put(<<Target, "target">>, Absent)
      BY <2>2
    <3>2. /\ FilesTypeOK'
          /\ \A m \in Names : live'[m] = IF m = <<Target, "target">> THEN Absent ELSE live[m]
          /\ disk' = disk /\ journal' = journal /\ diskJournal' = diskJournal
      BY <1>0, <3>1, NameFacts, PutNames
    <3> QED BY <1>0, <2>2, <3>2, NameFacts DEF Latter
  <2> QED BY <2>1, <2>2
<1>4. /\ \A t \in Targets : live'[<<t, "old">>] = live[<<t, "old">>]
      /\ \A t \in Targets \ {Target} : live'[<<t, "target">>] = live[<<t, "target">>]
      /\ \A t \in Targets \ {Target} : live'[<<t, "new">>] = live[<<t, "new">>]
  BY <1>0, <1>3, NameFacts
<1>5. FilesInv' /\ Durable' = Durable
  BY <1>0, <1>1, <1>3, <1>4, SwapFiles
<1>6. TypeOK'
  BY <1>0, <1>1, <1>3 DEF TypeOK, Steps, vault, history
<1>7. VaultInv'
  BY <1>0, <1>1, <1>3, <1>5, SameVault
<1>8. AtInv' /\ RollbackInv' /\ PrepareInv' /\ ApplyInv' /\ CleanInv'
  BY <1>0, <1>1 DEF AtInv, RollbackInv, PrepareInv, ApplyInv, CleanInv,
              Rollback, Prepare, Swap, Clean, Apply
<1>9. SwapInv'
  <2>1. Past' = Past /\ Target' = Target /\ \A t \in Targets : Latter(t)' = Latter(t)
    BY <1>1 DEF Past, Target, Latter
  <2>2. Swapped(Past)'
    BY <1>0, <1>3, <1>4, <2>1 DEF Swapped
  <2>3. Copied(Targets \ (Past \cup {Target}))'
    BY <1>1, <1>2, <1>4, <2>1 DEF Copied
  <2> QED BY <1>0, <1>1, <1>3, <2>1, <2>2, <2>3 DEF SwapInv, Swap, BothPending
<1>10. JobInv'
  BY <1>0, <1>1, <1>3, <1>5
     DEF JobInv, Early, Rollback, Prepare, Swap, Clean, Apply, Pending, Staged
<1> QED BY <1>5, <1>6, <1>7, <1>8, <1>9, <1>10 DEF IInv

(* That becomes durable; the last entry ends the loop.                      *)
LEMMA SyncReplacedStep == ASSUME IInv, SyncReplaced PROVE IInv'
<1> USE DEF SyncReplaced
<1>0. /\ TypeOK /\ FilesInv /\ VaultInv /\ JobInv /\ SwapInv /\ FilesTypeOK
      /\ BothPending /\ journal.phase = "pending" /\ diskJournal.phase = "pending"
      /\ Swapped(Past) /\ journal.identity = job.identity
      /\ cont = "fresh" /\ job.gen \in Generations
      /\ at \in 1..Len(Order) /\ Target \in Targets
      /\ Target \notin Past /\ Past \subseteq Targets
  BY SwapContext DEF Swap
<1>1. /\ UNCHANGED <<cont, job, vault, history, faults>>
      /\ UNCHANGED <<installs, kept, keys, token, record, keyOf>>
  BY DEF Loop, vault, history
<1>2. FilesInv' /\ Durable' = Durable
  BY <1>0, <1>1, SyncFiles
<1>3. /\ FilesTypeOK' /\ live' = live /\ journal' = journal
      /\ \A n \in Names : disk'[n] \in {live[n], disk[n]}
      /\ \A n \in Names : n[1] = Target => disk'[n] = live[n]
      /\ diskJournal' \in {diskJournal, journal}
  BY <1>0, SyncNames
<1>4. /\ at' \in 1..Len(Order) /\ at' \in 1..(3 * Len(Order))
      /\ \/ pc' = "replace" /\ Past' = Past \cup {Target}
         \/ pc' = "commit" /\ at' = 1 /\ Targets = Past \cup {Target}
  BY <1>0, LoopFacts
<1>5. TypeOK'
  BY <1>0, <1>1, <1>3, <1>4 DEF TypeOK, Steps, vault, history
<1>6. VaultInv'
  BY <1>0, <1>1, <1>2, <1>3 DEF VaultInv, Staged, Committed
<1>7. AtInv' /\ RollbackInv' /\ PrepareInv' /\ ApplyInv' /\ CleanInv'
  BY <1>4 DEF AtInv, RollbackInv, PrepareInv, ApplyInv, CleanInv,
              Rollback, Prepare, Swap, Clean, Apply
<1>8. \A t \in Past \cup {Target} :
         live'[<<t, "target">>] = Latter(t)' /\ disk'[<<t, "target">>] = Latter(t)'
  <2>1. \A t \in Targets : Latter(t)' = Latter(t) /\ <<t, "target">> \in Names
    BY <1>1, NameFacts DEF Latter
  <2>2. live[<<Target, "target">>] = Latter(Target)
    BY <1>0 DEF SwapInv
  <2>3. disk'[<<Target, "target">>] = live[<<Target, "target">>]
    BY <1>0, <1>3, NameFacts
  <2> QED BY <1>0, <1>3, <2>1, <2>2, <2>3 DEF Swapped
<1>9. BothPending'
  BY <1>0, <1>3 DEF BothPending
<1>10. SwapInv'
  <2>1. CASE pc' = "replace"
    <3>1. Swapped(Past)'
      BY <1>4, <1>8, <2>1 DEF Swapped
    <3>2. Copied(Targets \ Past)'
      BY <1>0, <1>1, <1>3, <1>4, <2>1 DEF SwapInv, Copied
    <3> QED BY <1>0, <1>1, <1>3, <1>9, <2>1, <3>1, <3>2 DEF SwapInv, Swap
  <2>2. CASE pc' = "commit"
    <3>1. Swapped(Targets)'
      BY <1>4, <1>8, <2>2 DEF Swapped
    <3> QED BY <1>0, <1>1, <1>3, <1>9, <2>2, <3>1 DEF SwapInv, Swap
  <2> QED BY <1>4, <2>1, <2>2
<1>11. JobInv'
  BY <1>0, <1>1, <1>2, <1>3, <1>4
     DEF JobInv, Early, Rollback, Prepare, Swap, Clean, Apply, Pending, Staged
<1> QED BY <1>2, <1>5, <1>6, <1>7, <1>10, <1>11 DEF IInv

(* The commit: written, it is a promise; synced, it is kept.                *)
LEMMA CommitStep == ASSUME IInv, Commit PROVE IInv'
<1> USE DEF Commit
<1>0. /\ TypeOK /\ FilesInv /\ VaultInv /\ JobInv /\ FilesTypeOK
      /\ BothPending /\ Swapped(Targets) /\ journal.identity = job.identity
      /\ job.gen \in (Durable + 1)..installs /\ cont = "fresh" /\ ~job.committed
      /\ IF job.identity = Absent THEN keyOf[job.gen] = keys.id
           ELSE Staged(job.identity) /\ keyOf[job.gen] = job.identity
  BY DEF IInv, TypeOK, SwapInv, JobInv, Early
<1>1. /\ pc' = "syncCommitted"
      /\ UNCHANGED <<at, cont, job, live, disk, diskJournal, vault, history, faults>>
      /\ UNCHANGED <<installs, kept, keys, token, record, keyOf>>
      /\ journal' = [journal EXCEPT !.phase = "committed"]
  BY DEF Stay, PutJournal, vault, history
<1>2. FilesInv' /\ Durable' = Durable /\ Current' = Current /\ Current = job.gen
  BY <1>0, <1>1, CommitFiles
<1>3. /\ journal' \in Journals /\ journal'.phase = "committed"
      /\ journal'.identity = job.identity
  BY <1>0, <1>1 DEF FilesTypeOK, Journals, Phases
<1>4. TypeOK'
  BY <1>0, <1>1, <1>3 DEF TypeOK, FilesTypeOK, Steps, vault, history
<1>5. VaultInv'
  <2>1. journal.phase = "pending" /\ diskJournal.phase = "pending"
    BY <1>0 DEF BothPending
  <2>2. record.id # Absent
    BY <1>0 DEF TypeOK, Identities, Absent
  <2> QED BY <1>0, <1>1, <1>2, <1>3, <2>1, <2>2 DEF VaultInv, Staged, Committed
<1>6. at = 1
  BY DEF IInv, AtInv, Rollback, Prepare, Swap
<1>7. AtInv' /\ RollbackInv' /\ PrepareInv' /\ SwapInv' /\ ApplyInv' /\ CleanInv'
  BY <1>1, <1>3, <1>6 DEF AtInv, RollbackInv, PrepareInv, SwapInv, ApplyInv, CleanInv,
              Rollback, Prepare, Swap, Clean, Apply
<1>8. JobInv'
  BY <1>0, <1>1, <1>2, <1>3
     DEF JobInv, Early, Rollback, Prepare, Swap, Clean, Apply
<1> QED BY <1>2, <1>4, <1>5, <1>7, <1>8 DEF IInv

(* The commit becomes durable: the new generation takes over.               *)
LEMMA SyncCommittedStep == ASSUME IInv, SyncCommitted PROVE IInv'
<1> USE DEF SyncCommitted
<1>0. /\ TypeOK /\ FilesInv /\ VaultInv /\ JobInv /\ FilesTypeOK
      /\ journal.phase = "committed" /\ journal.identity = job.identity
      /\ cont = "fresh" /\ at = 1 /\ Current = job.gen
  BY DEF IInv, TypeOK, SwapInv, JobInv, AtInv, Rollback, Prepare, Swap
<1>1. /\ pc' = (IF job.identity # Absent THEN "storeKeys" ELSE "unlink")
      /\ UNCHANGED <<at, cont, vault, history, faults>>
      /\ UNCHANGED <<installs, kept, keyOf>>
  BY DEF history
<1>2. job' \in Jobs /\ job'.gen = job.gen /\ job'.committed
  <2>1. job \in Jobs /\ job' = [job EXCEPT !.committed = TRUE]
    BY <1>0 DEF TypeOK, Jobs
  <2> QED BY <2>1 DEF Jobs
<1>3. FilesInv' /\ Current' = Current /\ Durable' = Current
  BY <1>0, <1>1, AppFacts, SyncFiles
<1>4. FilesTypeOK' /\ journal' = journal /\ diskJournal' = journal
  BY <1>0, AppFacts, SyncNames
<1>5. TypeOK'
  BY <1>0, <1>1, <1>2, <1>4 DEF TypeOK, Steps, Jobs, vault, history
<1>6. VaultInv'
  BY <1>0, <1>1, <1>3, <1>4, TerminalVault
<1>7. AtInv' /\ RollbackInv' /\ PrepareInv' /\ SwapInv'
  BY <1>0, <1>1 DEF AtInv, RollbackInv, PrepareInv, SwapInv,
              Rollback, Prepare, Swap, Clean, Apply
<1>8. ApplyInv' /\ CleanInv'
  BY <1>0, <1>1, <1>4 DEF ApplyInv, CleanInv, Clean, Apply, Pending, Committed,
     Staged, TypeOK, Identities, Absent, vault
<1>9. JobInv'
  BY <1>0, <1>1, <1>2, <1>3, <1>4
     DEF JobInv, Early, Rollback, Prepare, Swap, Clean, Apply, Pending
<1> QED BY <1>3, <1>5, <1>6, <1>7, <1>8, <1>9 DEF IInv

-----------------------------------------------------------------------------
(* The invariant, and what it is for.                                       *)

(* At first there is one whole generation, its keys and no journal.         *)
LEMMA InitHolds == Init => IInv
<1> SUFFICES ASSUME Init PROVE IInv
  OBVIOUS
<1> USE DEF Init
<1>1. /\ pc = "idle" /\ at = 1 /\ cont = "open" /\ job = NoJob
      /\ journal = NoJournal /\ diskJournal = NoJournal /\ disk = live
  BY DEF FilesInit
<1>2. PICK present \in {Replaced, Targets} :
         live = [n \in Names |-> IF n[2] = "target" /\ n[1] \in present THEN 0 ELSE Absent]
  BY DEF FilesInit
<1>3. \A t \in Targets : live[<<t, "target">>] = IF t \in present THEN 0 ELSE Absent
  BY <1>2, NameFacts
<1>4. Replaced \subseteq present /\ present \subseteq Targets /\ 0 \in Generations
  BY TargetAssumption DEF Generations
<1>5. Durable = 0
  BY <1>1, <1>3, <1>4, AppFacts DEF Durable, NoJournal
<1>6. \A g \in Generations : kept[g] = IF g = 0 THEN present ELSE Replaced
  <2>1. {t \in Targets : live[<<t, "target">>] # Absent} = present
    BY <1>3, <1>4 DEF Absent
  <2>2. kept = [g \in Generations |-> IF g = 0 THEN present ELSE Replaced]
    BY <2>1
  <2> QED BY <2>2
<1>7. FilesTypeOK
  BY <1>1, <1>2, <1>4 DEF FilesTypeOK, NoJournal, Journals, Phases
<1>8. TypeOK
  BY <1>1, <1>7, TargetAssumption, BoundAssumption, OrderFacts
     DEF TypeOK, Steps, Purposes, NoJob, Generations, Identities, Absent
<1>9. FilesInv
  <2>1. JournalsAgree /\ ~Pending
    BY <1>1 DEF JournalsAgree, JournalSteps, NoJournal, Pending
  <2>2. Generational
    BY <1>4, <1>5, <1>6 DEF Generational, Generations
  <2>3. Whole(live, Durable) /\ Whole(disk, Durable)
    BY <1>1, <1>3, <1>4, <1>5, <1>6, TargetAssumption DEF Whole
  <2> QED BY <1>1, <2>1, <2>2, <2>3 DEF FilesInv, SavedInv, WholeInv, NoJournal
<1>10. VaultInv
  BY <1>1, <1>4, <1>5 DEF VaultInv, Staged, Committed, NoJournal
<1>11. /\ AtInv /\ RollbackInv /\ PrepareInv /\ SwapInv /\ ApplyInv /\ CleanInv /\ JobInv
  BY <1>1 DEF AtInv, RollbackInv, PrepareInv, SwapInv, ApplyInv, CleanInv, JobInv,
              Rollback, Prepare, Swap, Clean, Apply, Early, NoJob, Pending, NoJournal
<1> QED BY <1>8, <1>9, <1>10, <1>11 DEF IInv

(* Nothing the invariant speaks of changes. *)
LEMMA StutterStep == ASSUME IInv, UNCHANGED vars PROVE IInv'
<1>1. UNCHANGED <<live, disk, journal, diskJournal, keys, token, record, pc, at, cont,
                  job, installs, served, done, keyOf, kept, faults>>
  BY DEF vars, files, vault, control, history
<1>2. TypeOK' /\ FilesInv' /\ VaultInv'
  BY <1>1, SameFiles, SameVault DEF IInv, TypeOK, FilesTypeOK, files
<1>3. Durable' = Durable /\ Current' = Current /\ Past' = Past /\ Target' = Target
  BY <1>1 DEF Durable, Current, Past, Target
<1>4. AtInv' /\ ApplyInv' /\ CleanInv' /\ JobInv'
  BY <1>1, <1>3 DEF IInv, AtInv, ApplyInv, CleanInv, JobInv, Committed, Staged, Pending
<1>5. RollbackInv'
  BY <1>1, <1>3 DEF IInv, RollbackInv, Restored, Former
<1>6. PrepareInv'
  BY <1>1, <1>3 DEF IInv, PrepareInv, Prepared, Kept
<1>7. SwapInv'
  BY <1>1, <1>3 DEF IInv, SwapInv, BothPending, Copied, Swapped, Latter
<1> QED BY <1>2, <1>4, <1>5, <1>6, <1>7 DEF IInv

(* Every step keeps the invariant.                                          *)
LEMMA InductiveStep == IInv /\ [Next]_vars => IInv'
<1> SUFFICES ASSUME IInv, [Next]_vars PROVE IInv'
  OBVIOUS
<1>1. CASE Between \/ BeginRecovery
  BY <1>1, BetweenStep, BeginStep DEF Between
<1>2. CASE Recovery
  BY <1>2, CheckStep, UnlinkRollbackStep, RelinkStep, RenameBackStep, SyncRestoredStep,
     PublishRolledBackStep, SyncRolledBackStep, SyncTerminalStep DEF Recovery
<1>3. CASE Identity
  BY <1>3, IdentityStep
<1>4. CASE Cleanup
  BY <1>4, UnlinkStep, SyncUnlinkedStep, UnlinkJournalStep, SyncJournalStep DEF Cleanup
<1>5. CASE Install
  BY <1>5, RemoveOrphansStep, RetainStep, CopyStep, SyncPreparedStep, PublishStep,
     SyncPublishedStep, ReplaceStep, SyncReplacedStep, CommitStep, SyncCommittedStep
     DEF Install
<1>6. CASE Fault
  BY <1>6, FaultStep
<1>7. CASE UNCHANGED vars
  BY <1>7, StutterStep
<1> QED BY <1>1, <1>2, <1>3, <1>4, <1>5, <1>6, <1>7 DEF Next, Procedure

(* The inductive invariant: where every step of a restore, a rollback and a *)
(* cleanup has got to, in the files as they are seen and as they are on     *)
(* disk (install_coordinated, recover_locked, cleanup).                     *)
THEOREM InvariantHolds == Spec => []IInv
BY InitHolds, InductiveStep, PTL DEF Spec

(* Every file, journal, key and counter of a restore stays in its range.    *)
THEOREM TypesHold == Spec => []TypeOK
<1>1. IInv => TypeOK
  BY DEF IInv
<1> QED BY <1>1, InvariantHolds, PTL

(* What the app may open is one whole generation, under its key and without *)
(* the token of another account, at every crash of a restore.               *)
THEOREM OnlyWholeIsAdmitted == Spec => []AdmittedWhole
<1>1. IInv => AdmittedWhole
  <2> SUFFICES ASSUME IInv, Admitted PROVE AdmittedWhole
    BY DEF AdmittedWhole
  <2>1. journal.phase = "none" /\ ~BothPending /\ ~Committed
    BY DEF Admitted, BothPending, Committed
  <2>2. Current = Durable /\ Current \in Generations /\ Whole(live, Current)
    BY <2>1, Generation DEF IInv
  <2>3. keys.id = keyOf[Current] /\ token \in {Absent, keys.id}
    BY <2>1, <2>2 DEF IInv, VaultInv
  <2> QED BY <2>2, <2>3 DEF AdmittedWhole, Whole, Generations, Absent
<1> QED BY <1>1, InvariantHolds, PTL

(* What a rollback needs, the invariant keeps.                              *)
LEMMA Saveable == IInv => RollbackPossible
<1> SUFFICES ASSUME IInv PROVE RollbackPossible
  OBVIOUS
<1>1. Durable # Absent
  BY Generation DEF IInv, Generations, Absent
<1>2. CASE journal.phase = "pending" \/ diskJournal.phase = "pending"
  <2>1. Saved(live, Durable) /\ Saved(disk, Durable) /\ journal.original = Kept(Durable)
    BY <1>2 DEF IInv, FilesInv, SavedInv, Pending
  <2>2. diskJournal.phase = "pending" => diskJournal.original = Kept(Durable)
    BY <2>1 DEF IInv, FilesInv, JournalsAgree, JournalSteps
  <2> QED BY <1>1, <2>1, <2>2 DEF RollbackPossible, RollbackSetComplete, Saved
<1> QED BY <1>2 DEF RollbackPossible

(* While a restore may have to be rolled back, the files it needs for that  *)
(* are there, before and after a power loss (validate_rollback_set).        *)
THEOREM RollbackStaysPossible == Spec => []RollbackPossible
BY Saveable, InvariantHolds, PTL

(* A recovery that runs again after its keys were applied takes back no     *)
(* later change of the key manager (keys::restore::apply).                  *)
THEOREM KeysAreKept == Spec => KeyUpdatesKept
<1>1. IInv /\ [Next]_vars => [keys'.id = keys.id => keys'.version >= keys.version]_vars
  <2> SUFFICES ASSUME IInv, Next, keys'.id = keys.id
               PROVE  keys'.version >= keys.version
    OBVIOUS
  <2>0. keys.version \in Nat /\ keys \in [id : Identities, version : 0..MaxUpdates]
    BY BoundAssumption DEF IInv, TypeOK
  <2>1. CASE UpdateKeys
    BY <2>0, <2>1 DEF UpdateKeys
  <2>2. CASE StoreKeys
    <3>1. CASE keys' = keys
      BY <2>0, <3>1
    <3>2. CASE keys' # keys
      <4>1. record.id = journal.identity /\ ~record.applied
            /\ keys' = [id |-> record.id, version |-> 0]
        BY <2>2, <3>2 DEF StoreKeys
      <4>2. Staged(keys.id)
        BY <4>1 DEF Staged
      <4>3. keys.version = 0 /\ keys'.version = 0
        BY <4>1, <4>2 DEF IInv, VaultInv
      <4> QED BY <4>3
    <3> QED BY <3>1, <3>2
  <2>3. CASE ~UpdateKeys /\ ~StoreKeys
    <3>1. keys' = keys
      BY <2>3 DEF Next, Between, Open, StageIdentity, BeginInstall, BeginRecovery,
         Procedure, Recovery, Check, UnlinkRollback, Relink, RenameBack, SyncRestored,
         PublishRolledBack, SyncRolledBack, SyncTerminal, Identity, DropToken,
         Acknowledge, Cleanup, Unlink, SyncUnlinked, UnlinkJournal, SyncJournal,
         Install, RemoveOrphans, Retain, Copy, SyncPrepared, Publish, SyncPublished,
         Replace, SyncReplaced, Commit, SyncCommitted, Fault, IoError, Crash,
         PowerLoss, vault
    <3> QED BY <2>0, <3>1
  <2> QED BY <2>1, <2>2, <2>3
<1> QED BY <1>1, InvariantHolds, PTL DEF Spec, KeyUpdatesKept

(* Where a rollback links the old file, nothing is in the way.              *)
RelinkFree == pc = "relink" => live[<<Target, "rollback">>] = Absent

(* Only the removal of what is in the way leads to the link.                *)
LEMMA RelinkFreeStep == IInv /\ RelinkFree /\ [Next]_vars => RelinkFree'
<1> SUFFICES ASSUME IInv, RelinkFree, [Next]_vars, pc' = "relink" PROVE RelinkFree'
  BY DEF RelinkFree
<1>1. CASE UnlinkRollback
  <2>1. pc' = "relink" => Put(<<Target, "rollback">>, Absent) /\ at' = at
    BY <1>1 DEF UnlinkRollback, Stay
  <2>2. Target \in Targets
    BY <1>1, PastFacts DEF UnlinkRollback, IInv, AtInv, Rollback
  <2>3. <<Target, "rollback">> \in Names /\ live \in [Names -> Generations \cup {Absent}]
    BY <2>2, NameFacts DEF IInv, TypeOK, FilesTypeOK
  <2>4. live'[<<Target, "rollback">>] = Absent /\ Target' = Target
    BY <2>1, <2>3 DEF Put, Target
  <2> QED BY <2>4 DEF RelinkFree
<1>2. CASE UNCHANGED vars
  <2>1. pc' = pc /\ live' = live /\ Target' = Target
    BY <1>2 DEF vars, files, control, Target
  <2> QED BY <2>1 DEF RelinkFree
<1>3. CASE Next /\ ~UnlinkRollback
  <2>1. ~(Between \/ BeginRecovery)
    BY DEF Between, Open, UpdateKeys, StageIdentity, BeginInstall, BeginRecovery,
           Admitted, control
  <2>2. ~(Recovery /\ ~UnlinkRollback)
    BY DEF Recovery, Check, Relink, RenameBack, SyncRestored, PublishRolledBack,
           SyncRolledBack, SyncTerminal, Finish, Failing, Go, Stay, Loop
  <2>3. ~(Identity \/ Cleanup)
    BY DEF Identity, StoreKeys, DropToken, Acknowledge, Cleanup, Unlink, SyncUnlinked,
           UnlinkJournal, SyncJournal, Finish, Failing, Go, Stay, Loop
  <2>4. ~Install
    BY DEF Install, RemoveOrphans, Retain, Copy, SyncPrepared, Publish, SyncPublished,
           Replace, SyncReplaced, Commit, SyncCommitted, Go, Stay, Loop, control
  <2>5. ~Fault
    BY DEF Fault, IoError, Crash, PowerLoss, Halt, Failing
  <2> QED BY <1>3, <2>1, <2>2, <2>3, <2>4, <2>5 DEF Next, Procedure
<1> QED BY <1>1, <1>2, <1>3

(* A recovery gives up on its own only where the identity was superseded.   *)
THEOREM RecoveryGivesUpOnlySuperseded == Spec => GivesUpOnlySuperseded
<1>1. Init => RelinkFree
  BY DEF Init, RelinkFree
<1>2. IInv /\ RelinkFree /\ [Next]_vars
        => [pc # "idle" /\ pc' = "idle" /\ journal'.phase # "none"
               => Superseded \/ faults' # faults]_vars
  <2> SUFFICES ASSUME IInv, RelinkFree, Next, pc # "idle", pc' = "idle",
                      journal'.phase # "none", faults' = faults
               PROVE  Superseded
    OBVIOUS
  <2>1. ~(Between \/ BeginRecovery)
    BY DEF Between, Open, UpdateKeys, StageIdentity, BeginInstall, BeginRecovery, Admitted
  <2>2. ~Fault
    BY BoundAssumption DEF Fault, IoError, Crash, PowerLoss, CountFault, IInv, TypeOK
  <2>3. ~Check
    <3>1. SUFFICES ASSUME Check PROVE FALSE
      OBVIOUS
    <3>2. journal' = journal
      BY <3>1 DEF Check, files
    <3>3. journal.phase = "pending" => RollbackSetComplete(journal)
      BY Saveable DEF RollbackPossible
    <3> QED BY <3>1, <3>2, <3>3 DEF Check, Go
  <2>4. ~Relink
    BY DEF Relink, Stay, RelinkFree
  <2>5. ~(Recovery /\ ~Check /\ ~Relink)
    BY DEF Recovery, UnlinkRollback, RenameBack, SyncRestored, PublishRolledBack,
           SyncRolledBack, SyncTerminal, Go, Stay, Loop
  <2>6. ~Cleanup
    BY DEF Cleanup, Unlink, SyncUnlinked, UnlinkJournal, SyncJournal, SyncParent, Stay,
           Loop, IInv, CleanInv, NoJournal
  <2>7. ~Install
    BY DEF Install, RemoveOrphans, Retain, Copy, SyncPrepared, Publish, SyncPublished,
           Replace, SyncReplaced, Commit, SyncCommitted, Go, Stay, Loop, control
  <2>8. Identity
    BY <2>1, <2>2, <2>3, <2>4, <2>5, <2>6, <2>7 DEF Next, Procedure
  <2>9. StoreKeys /\ record.id # journal.identity
    BY <2>8 DEF Identity, StoreKeys, DropToken, Acknowledge, Go
  <2>10. journal.identity # Absent
    BY <2>9 DEF StoreKeys, IInv, ApplyInv, Apply
  <2> QED BY <2>9, <2>10 DEF Superseded
<1> QED
  BY <1>1, <1>2, RelinkFreeStep, InvariantHolds, PTL DEF Spec, GivesUpOnlySuperseded

-----------------------------------------------------------------------------
(* The refinement: the durable generation is the one the account is on.     *)

(* A step that leaves the durable generation alone, or makes the current    *)
(* one durable, is a step of the switch.                                    *)
LEMMA DurableOrSwitch ==
  ASSUME TypeOK, FilesInv, UNCHANGED <<served, done>>,
         Durable' = Durable \/ (~BothPending /\ Durable' = Current)
  PROVE  [Promise!Next]_Promise!vars
<1>1. CASE Durable' = Durable
  BY <1>1 DEF Promise!vars
<1>2. CASE ~BothPending /\ Durable' = Current /\ Current # Durable
  <2>1. journal.phase = "committed" /\ diskJournal.phase = "pending"
    BY <1>2, Generation
  <2>2. Current \in (Durable + 1)..installs /\ installs \in 0..MaxInstalls
    BY <2>1 DEF FilesInv, WholeInv, TypeOK, Generations
  <2>3. Durable' \in (Durable + 1)..MaxInstalls
    BY <1>2, <2>2, Generation, TargetAssumption DEF Generations
  <2> QED BY <2>3 DEF Promise!Next, Promise!Switch
<1> QED BY <1>1, <1>2

(* Syncing a directory is one.                                              *)
LEMMA SyncSwitches ==
  ASSUME TypeOK, FilesInv, NEW t \in Targets, SyncParent(t), UNCHANGED history
  PROVE  [Promise!Next]_Promise!vars
<1>1. UNCHANGED <<installs, kept, served, done>>
  BY DEF history
<1>2. Durable' = IF journal.phase = "committed" /\ t \notin InData THEN Current ELSE Durable
  BY <1>1, SyncFiles
<1>3. journal.phase = "committed" => ~BothPending
  BY DEF BothPending
<1> QED BY <1>1, <1>2, <1>3, DurableOrSwitch

(* Answering the caller reports the generation that is durable.             *)
LEMMA FinishReports ==
  ASSUME IInv, Finish, UNCHANGED served, Durable' = Durable
  PROVE  [Promise!Next]_Promise!vars
<1>1. CASE cont = "install" \/ ~(job.committed /\ cont # "open")
  BY <1>1 DEF Finish, Promise!vars
<1>2. CASE cont # "install" /\ job.committed /\ cont # "open"
  <2>1. done' = job.gen /\ Durable = job.gen
    BY <1>2 DEF Finish, IInv, JobInv
  <2> QED BY <2>1 DEF Promise!Next, Promise!Report
<1> QED BY <1>1, <1>2

(* A step of the restore is a step of the switch, or none that shows.       *)
LEMMA StepKeepsPromise ==
  ASSUME IInv, [Next]_vars
  PROVE  [Promise!Next]_Promise!vars
<1>0. TypeOK /\ FilesInv
  BY DEF IInv
<1>1. CASE Open
  <2>1. Durable' = Durable /\ Current = Durable
    BY <1>0, <1>1, OpenFiles
  <2>2. served' = Durable /\ done' = done
    BY <1>1, <2>1 DEF Open
  <2> QED BY <2>1, <2>2 DEF Promise!Next, Promise!Serve
<1>2. CASE UpdateKeys \/ StageIdentity \/ BeginInstall \/ BeginRecovery
  <2>1. UNCHANGED <<disk, diskJournal, served, done>>
    BY <1>2 DEF UpdateKeys, StageIdentity, BeginInstall, BeginRecovery, files, history
  <2> QED BY <1>0, <2>1, DurableOrSwitch DEF Durable
<1>3. CASE \/ UnlinkRollback \/ Relink \/ RenameBack \/ PublishRolledBack \/ Identity
           \/ Unlink \/ UnlinkJournal \/ Retain \/ Copy \/ Publish \/ Replace \/ Commit
  <2>1. UNCHANGED <<disk, diskJournal>>
    BY <1>3 DEF UnlinkRollback, Relink, RenameBack, PublishRolledBack, Identity, StoreKeys,
       DropToken, Acknowledge, Unlink, UnlinkJournal, Retain, Copy, Publish, Replace,
       Commit, files, Put, Rename, PutJournal
  <2>2. UNCHANGED <<served, done>>
    BY <1>3 DEF UnlinkRollback, Relink, RenameBack, PublishRolledBack, Identity, StoreKeys,
       DropToken, Acknowledge, Unlink, UnlinkJournal, Retain, Copy, Publish, Replace,
       Commit, history
  <2> QED BY <1>0, <2>1, <2>2, DurableOrSwitch DEF Durable
<1>4. CASE Check
  <2>1. UNCHANGED <<disk, diskJournal, served>> /\ Durable' = Durable
    BY <1>4 DEF Check, files, Durable
  <2>2. Finish \/ done' = done
    BY <1>4 DEF Check
  <2> QED BY <1>0, <2>1, <2>2, FinishReports, DurableOrSwitch
<1>5. CASE SyncJournal
  <2>1. journal.phase = "none"
    BY <1>5 DEF SyncJournal, IInv, CleanInv, NoJournal
  <2>2. SyncParent(App) /\ Finish /\ UNCHANGED <<installs, kept, served>>
    BY <1>5 DEF SyncJournal
  <2>3. Durable' = Durable
    BY <1>0, <2>1, <2>2, AppFacts, SyncFiles
  <2> QED BY <2>2, <2>3, FinishReports
<1>6. CASE SyncRolledBack \/ SyncTerminal \/ SyncPublished \/ SyncCommitted
  <2>1. SyncParent(App) /\ UNCHANGED history
    BY <1>6 DEF SyncRolledBack, SyncTerminal, SyncPublished, SyncCommitted
  <2> QED BY <1>0, <2>1, AppFacts, SyncSwitches
<1>7. CASE SyncRestored \/ SyncPrepared \/ SyncReplaced
  <2>1. SyncParent(Target) /\ UNCHANGED history
    BY <1>7 DEF SyncRestored, SyncPrepared, SyncReplaced
  <2>2. Target \in Targets
    BY <1>7, PastFacts DEF IInv, AtInv, Rollback, Prepare, Swap,
                           SyncRestored, SyncPrepared, SyncReplaced
  <2> QED BY <1>0, <2>1, <2>2, SyncSwitches
<1>8. CASE SyncUnlinked
  <2>1. SyncParent(Shadow(at)[1]) /\ UNCHANGED history
    BY <1>8 DEF SyncUnlinked
  <2>2. Shadow(at)[1] \in Targets
    BY <1>0, ShadowFacts DEF TypeOK
  <2> QED BY <1>0, <2>1, <2>2, SyncSwitches
<1>9. CASE RemoveOrphans
  <2>1. UNCHANGED <<diskJournal, served, done>> /\ diskJournal.phase # "pending"
    BY <1>9 DEF RemoveOrphans, files, history, IInv, PrepareInv, NoJournal,
                FilesInv, JournalsAgree, JournalSteps
  <2>2. disk'[<<App, "target">>] = disk[<<App, "target">>]
    <3>1. CASE disk' = disk
      BY <3>1
    <3>2. CASE disk' # disk
      <4>1. PICK n \in Shadows : disk' = [disk EXCEPT ![n] = Absent]
        BY <1>9, <3>2 DEF RemoveOrphans, files
      <4>2. <<App, "target">> \in Names /\ n # <<App, "target">>
        BY AppFacts, NameFacts
      <4> QED BY <1>0, <4>1, <4>2 DEF TypeOK, FilesTypeOK
    <3> QED BY <3>1, <3>2
  <2> QED BY <1>0, <2>1, <2>2, DurableOrSwitch DEF Durable
<1>10. CASE IoError \/ Crash
  <2>1. UNCHANGED <<disk, diskJournal, served, done>>
    BY <1>10 DEF IoError, Crash, files, history
  <2> QED BY <1>0, <2>1, DurableOrSwitch DEF Durable
<1>11. CASE PowerLoss
  <2>1. LosePower /\ UNCHANGED <<installs, kept, served, done>>
    BY <1>11 DEF PowerLoss, history
  <2>2. Durable' = IF journal'.phase = "committed" THEN Current ELSE Durable
    BY <1>0, <2>1, LoseFiles
  <2>3. journal'.phase = "committed" => ~BothPending
    BY <2>1 DEF LosePower, BothPending
  <2> QED BY <1>0, <2>1, <2>2, <2>3, DurableOrSwitch
<1>12. CASE UNCHANGED vars
  BY <1>12 DEF vars, files, history, Promise!vars, Durable
<1> QED
  BY <1>1, <1>2, <1>3, <1>4, <1>5, <1>6, <1>7, <1>8, <1>9, <1>10, <1>11, <1>12
     DEF Next, Between, Procedure, Recovery, Cleanup, Install, Fault

(* Restores, with every file, crash, power loss and recovery, implement the *)
(* atomic switch: what was served or reported is never taken back.          *)
THEOREM PromiseIsKept == Spec => KeepsPromise
<1>1. Init => Promise!Init
  <2> SUFFICES ASSUME Init PROVE Promise!Init
    OBVIOUS
  <2>1. Durable \in 0..installs /\ installs = 0
    BY InitHolds DEF Init, IInv, FilesInv, Generational
  <2> QED BY <2>1 DEF Init, Promise!Init
<1>2. IInv /\ [Next]_vars => [Promise!Next]_Promise!vars
  BY StepKeepsPromise
<1> QED BY <1>1, <1>2, InvariantHolds, PTL DEF Spec, KeepsPromise, Promise!Spec
=============================================================================

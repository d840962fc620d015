--------------------------- MODULE RestoreInstall ---------------------------
(* Replacing the databases, settings and keys of the account by those of a  *)
(* backup, and recovering from every crash, power loss or I/O error in the  *)
(* middle of it.  One procedure runs at a time, under the exclusive lock;   *)
(* readers are admitted while nobody holds it and no journal lies there.    *)
EXTENDS RestoreFiles

CONSTANTS
    MaxIdentities,  \* bound: identities staged
    MaxFaults,      \* bound: crashes, power losses and I/O errors
    MaxUpdates      \* bound: changes of the key manager

ASSUME BoundAssumption ==
    /\ MaxIdentities \in 0..MaxInstalls
    /\ MaxFaults \in Nat /\ MaxUpdates \in Nat

VARIABLES
    keys,       \* the active key manager: whose it is, and its version
    token,      \* the identity the API token belongs to, or Absent
    record,     \* the staged identity and whether it was applied
    pc, at,     \* the next step of the procedure and the entry it is at
    cont,       \* what the procedure is for
    job,        \* what it installs, and whether the commit is durable
    installs,   \* restores begun
    served, done,   \* history: last generation opened, newest one reported
    keyOf,      \* history: the identity whose key encrypts a generation
    kept,       \* history: the targets a generation consists of
    faults

vault == <<keys, token, record>>
control == <<pc, at, cont, job>>
history == <<installs, served, done, keyOf, kept>>
vars == <<files, vault, control, history, faults>>

Identities == 0..MaxIdentities
NoJob == [gen |-> 0, identity |-> Absent, original |-> {}, committed |-> FALSE]
Purposes == {"open", "install", "fresh", "resolve", "undo"}
Steps == {"idle", "check", "unlinkRollback", "relink", "renameBack",
          "syncRestored", "publishRolledBack", "syncRolledBack",
          "syncTerminal", "storeKeys", "dropToken", "acknowledge",
          "unlink", "syncUnlinked", "unlinkJournal", "syncJournal",
          "orphans", "retain", "copy", "syncPrepared", "publish",
          "syncPublished", "replace", "syncReplaced", "commit", "syncCommitted"}

TypeOK ==
    /\ FilesTypeOK
    /\ keys \in [id : Identities, version : 0..MaxUpdates]
    /\ token \in Identities \cup {Absent}
    /\ record \in [id : Identities, applied : BOOLEAN]
    /\ pc \in Steps
    /\ at \in 1..(3 * Len(Order))
    /\ cont \in Purposes
    /\ job \in [gen : Generations, identity : Identities \cup {Absent},
                original : SUBSET Targets, committed : BOOLEAN]
    /\ installs \in Generations /\ served \in Generations /\ done \in Generations
    /\ keyOf \in [Generations -> Identities]
    /\ kept \in [Generations -> SUBSET Targets]
    /\ faults \in 0..MaxFaults

(* No identity is staged at first; identity 0 is the one of the device.     *)
Init ==
    /\ FilesInit
    /\ keys = [id |-> 0, version |-> 0] /\ token = 0
    /\ record = [id |-> 0, applied |-> TRUE]
    /\ pc = "idle" /\ at = 1 /\ cont = "open" /\ job = NoJob
    /\ installs = 0 /\ served = 0 /\ done = 0
    /\ keyOf = [g \in Generations |-> 0]
    /\ kept = [g \in Generations |->
                 IF g = 0 THEN {t \in Targets : live[<<t, "target">>] # Absent}
                          ELSE Replaced]
    /\ faults = 0

-----------------------------------------------------------------------------
Target == Order[at]
Go(p) == pc' = p /\ at' = 1 /\ UNCHANGED <<cont, job>>
Stay(p) == pc' = p /\ UNCHANGED <<at, cont, job>>
(* On to the next of n entries, or to what follows the last one. *)
Loop(p, n, q) == /\ IF at < n THEN pc' = p /\ at' = at + 1
                              ELSE pc' = q /\ at' = 1
                 /\ UNCHANGED <<cont, job>>

Admitted == pc = "idle" /\ journal.phase = "none"
Current == live[<<App, "target">>]

(* The error path of the step at hand: a failed install recovers once if it *)
(* has published a journal and clears its shadows if not; a recovery that   *)
(* fails gives up and leaves the journal, and so does the removal of        *)
(* orphans, before an install has begun.                                    *)
Failing ==
    /\ IF cont # "fresh" \/ pc = "orphans"
          THEN pc' = "idle" /\ cont' = "open" /\ job' = NoJob
          ELSE IF journal.phase # "none"
                  THEN pc' = "check" /\ cont' = "resolve" /\ UNCHANGED job
                  ELSE pc' = "unlink" /\ cont' = "undo" /\ UNCHANGED job
    /\ at' = 1

(* install, resolve and undo answer their caller. *)
Finish ==
    IF cont = "install"
       THEN /\ pc' = "orphans" /\ cont' = "fresh"
            /\ UNCHANGED <<job, done>>
       ELSE /\ pc' = "idle" /\ cont' = "open" /\ job' = NoJob
            /\ done' = IF job.committed /\ cont # "open" THEN job.gen ELSE done

-----------------------------------------------------------------------------
(* The app, between restores.  A database that is open, or was not closed,  *)
(* has its sidecar files.                                                   *)
Open ==
    /\ Admitted
    /\ served' = Current
    /\ \E side \in {{}, Targets \ Replaced} :
          LET Now(f) == [n \in Names |->
                  IF n[2] = "target" /\ n[1] \notin Replaced
                     THEN IF n[1] \in side THEN Current ELSE Absent
                     ELSE f[n]]
          IN  /\ live' = Now(live) /\ disk' = Now(disk)
              /\ kept' = [kept EXCEPT ![Current] = Replaced \cup side]
    /\ token' = keys.id
    /\ UNCHANGED <<journal, diskJournal, keys, record, control, installs, done,
                   keyOf, faults>>

UpdateKeys ==
    /\ Admitted
    /\ keys.version < MaxUpdates
    /\ keys' = [keys EXCEPT !.version = @ + 1]
    /\ UNCHANGED <<files, token, record, control, history, faults>>

StageIdentity ==
    /\ Admitted
    /\ record.id < MaxIdentities
    /\ record' = [id |-> record.id + 1, applied |-> FALSE]
    /\ UNCHANGED <<files, keys, token, control, history, faults>>

BeginInstall ==
    /\ Admitted
    /\ installs < MaxInstalls
    /\ LET g == installs + 1
           identity == IF record.applied THEN Absent ELSE record.id
       IN  /\ installs' = g
           /\ keyOf' = [keyOf EXCEPT ![g] = IF record.applied THEN keys.id
                                                              ELSE record.id]
           /\ job' = [NoJob EXCEPT !.gen = g, !.identity = identity]
    /\ pc' = "check" /\ at' = 1 /\ cont' = "install"
    /\ UNCHANGED <<files, vault, served, done, kept, faults>>

BeginRecovery ==
    /\ pc = "idle"
    /\ journal.phase # "none"
    /\ pc' = "check" /\ at' = 1 /\ cont' = "open" /\ job' = NoJob
    /\ UNCHANGED <<files, vault, history, faults>>

-----------------------------------------------------------------------------
(* recover_locked.                                                          *)
RollbackSetComplete(j) ==
    \A t \in j.original : live[<<t, "old">>] # Absent

Check ==
    /\ pc = "check"
    /\ \/ /\ journal.phase = "none"
          /\ Finish /\ at' = 1
       \/ /\ journal.phase = "pending" /\ RollbackSetComplete(journal)
          /\ Go("unlinkRollback") /\ UNCHANGED done
       \/ /\ journal.phase = "pending" /\ ~RollbackSetComplete(journal)
          /\ Failing /\ UNCHANGED done
       \/ /\ journal.phase \in {"committed", "rolledBack"}
          /\ Go("syncTerminal") /\ UNCHANGED done
    /\ UNCHANGED <<files, vault, installs, served, keyOf, kept, faults>>

\* A mutant: what an interrupted rollback left behind stays.
KeepRollback ==
    /\ pc = "unlinkRollback"
    /\ IF Target \in journal.original
          THEN UNCHANGED files /\ Stay("relink")
          ELSE Put(<<Target, "target">>, Absent) /\ Stay("syncRestored")
    /\ UNCHANGED <<vault, history, faults>>

UnlinkRollback ==
    /\ pc = "unlinkRollback"
    /\ IF Target \in journal.original
          THEN Put(<<Target, "rollback">>, Absent) /\ Stay("relink")
          ELSE Put(<<Target, "target">>, Absent) /\ Stay("syncRestored")
    /\ UNCHANGED <<vault, history, faults>>

(* Linking refuses to overwrite a file. *)
Relink ==
    /\ pc = "relink"
    /\ IF live[<<Target, "rollback">>] = Absent
          THEN Put(<<Target, "rollback">>, live[<<Target, "old">>])
               /\ Stay("renameBack")
          ELSE Failing /\ UNCHANGED files
    /\ UNCHANGED <<vault, history, faults>>

\* A mutant: the rollback file itself goes back, and is spent by that.
RenameOldBack ==
    /\ pc = "renameBack"
    /\ Rename(<<Target, "old">>, <<Target, "target">>)
    /\ Stay("syncRestored")
    /\ UNCHANGED <<vault, history, faults>>

RenameBack ==
    /\ pc = "renameBack"
    /\ Rename(<<Target, "rollback">>, <<Target, "target">>)
    /\ Stay("syncRestored")
    /\ UNCHANGED <<vault, history, faults>>

SyncRestored ==
    /\ pc = "syncRestored"
    /\ SyncParent(Target)
    /\ Loop("unlinkRollback", Len(Order), "publishRolledBack")
    /\ UNCHANGED <<vault, history, faults>>

PublishRolledBack ==
    /\ pc = "publishRolledBack"
    /\ PutJournal([journal EXCEPT !.phase = "rolledBack"])
    /\ Stay("syncRolledBack")
    /\ UNCHANGED <<vault, history, faults>>

SyncRolledBack ==
    /\ pc = "syncRolledBack"
    /\ SyncParent(App)
    /\ Go("unlink")
    /\ UNCHANGED <<vault, history, faults>>

(* A terminal journal is made durable before anything is cleaned up. *)
\* A mutant: the journal is taken for durable because it could be read.
TrustTerminal ==
    /\ pc = "syncTerminal"
    /\ UNCHANGED files
    /\ at' = 1 /\ UNCHANGED cont
    /\ job' = [job EXCEPT !.committed = (journal.phase = "committed")]
    /\ pc' = IF journal.phase = "committed" /\ journal.identity # Absent
                THEN "storeKeys" ELSE "unlink"
    /\ UNCHANGED <<vault, history, faults>>

SyncTerminal ==
    /\ pc = "syncTerminal"
    /\ SyncParent(App)
    /\ at' = 1 /\ UNCHANGED cont
    /\ job' = [job EXCEPT !.committed = (journal.phase = "committed")]
    /\ pc' = IF journal.phase = "committed" /\ journal.identity # Absent
                THEN "storeKeys" ELSE "unlink"
    /\ UNCHANGED <<vault, history, faults>>

-----------------------------------------------------------------------------
(* keys::restore::apply.  Another identity staged since is refused.         *)
StoreKeys ==
    /\ pc = "storeKeys"
    /\ \/ /\ record.id # journal.identity
          /\ Failing /\ UNCHANGED keys
       \/ /\ record.id = journal.identity /\ record.applied
          /\ Go("unlink") /\ UNCHANGED keys
       \/ /\ record.id = journal.identity /\ ~record.applied
          /\ keys' = [id |-> record.id, version |-> 0]
          /\ Go("dropToken")
    /\ UNCHANGED <<files, token, record, history, faults>>

DropToken ==
    /\ pc = "dropToken"
    /\ token' = Absent
    /\ Go("acknowledge")
    /\ UNCHANGED <<files, keys, record, history, faults>>

\* Mutants: the record stays as it is, or is deleted.
AcknowledgeNothing ==
    /\ pc = "acknowledge"
    /\ Go("unlink")
    /\ UNCHANGED <<files, vault, history, faults>>

Discard ==
    /\ pc = "acknowledge"
    /\ record' = [id |-> Absent, applied |-> TRUE]
    /\ Go("unlink")
    /\ UNCHANGED <<files, keys, token, history, faults>>

Acknowledge ==
    /\ pc = "acknowledge"
    /\ record' = [record EXCEPT !.applied = TRUE]
    /\ Go("unlink")
    /\ UNCHANGED <<files, keys, token, history, faults>>

-----------------------------------------------------------------------------
(* cleanup.                                                                 *)
Unlink ==
    /\ pc = "unlink"
    /\ Put(Shadow(at), Absent)
    /\ Stay("syncUnlinked")
    /\ UNCHANGED <<vault, history, faults>>

SyncUnlinked ==
    /\ pc = "syncUnlinked"
    /\ SyncParent(Shadow(at)[1])
    /\ Loop("unlink", 3 * Len(Order), "unlinkJournal")
    /\ UNCHANGED <<vault, history, faults>>

UnlinkJournal ==
    /\ pc = "unlinkJournal"
    /\ PutJournal(NoJournal)
    /\ Stay("syncJournal")
    /\ UNCHANGED <<vault, history, faults>>

SyncJournal ==
    /\ pc = "syncJournal"
    /\ SyncParent(App)
    /\ Finish /\ at' = 1
    /\ UNCHANGED <<vault, installs, served, keyOf, kept, faults>>

-----------------------------------------------------------------------------
(* install_coordinated.                                                     *)
RemoveOrphans ==
    /\ pc = "orphans"
    /\ \/ \E n \in Shadows :
             /\ live[n] # Absent
             /\ live' = [live EXCEPT ![n] = Absent]
             /\ disk' = [disk EXCEPT ![n] = Absent]
             /\ UNCHANGED <<journal, diskJournal, control>>
       \/ /\ \A n \in Shadows : live[n] = Absent
          /\ Go("retain") /\ UNCHANGED files
    /\ UNCHANGED <<vault, history, faults>>

Retain ==
    /\ pc = "retain"
    /\ LET original == live[<<Target, "target">>] # Absent /\ Target \notin Scratch
       IN  /\ Put(<<Target, "old">>,
                  IF original THEN live[<<Target, "target">>] ELSE Absent)
           /\ job' = IF original
                        THEN [job EXCEPT !.original = @ \cup {Target}]
                        ELSE job
    /\ pc' = IF Target \in Replaced THEN "copy" ELSE "syncPrepared"
    /\ UNCHANGED <<at, cont, vault, history, faults>>

Copy ==
    /\ pc = "copy"
    /\ Put(<<Target, "new">>, job.gen)
    /\ Stay("syncPrepared")
    /\ UNCHANGED <<vault, history, faults>>

SyncPrepared ==
    /\ pc = "syncPrepared"
    /\ SyncParent(Target)
    /\ Loop("retain", Len(Order), "publish")
    /\ UNCHANGED <<vault, history, faults>>

Publish ==
    /\ pc = "publish"
    /\ PutJournal([phase |-> "pending", original |-> job.original,
                   identity |-> job.identity])
    /\ Stay("syncPublished")
    /\ UNCHANGED <<vault, history, faults>>

SyncPublished ==
    /\ pc = "syncPublished"
    /\ SyncParent(App)
    /\ Go("replace")
    /\ UNCHANGED <<vault, history, faults>>

\* A mutant: files the backup does not have are left where they are.
ReplaceOnly ==
    /\ pc = "replace"
    /\ IF Target \in Replaced
          THEN Rename(<<Target, "new">>, <<Target, "target">>)
          ELSE UNCHANGED files
    /\ Stay("syncReplaced")
    /\ UNCHANGED <<vault, history, faults>>

Replace ==
    /\ pc = "replace"
    /\ IF Target \in Replaced
          THEN Rename(<<Target, "new">>, <<Target, "target">>)
          ELSE Put(<<Target, "target">>, Absent)
    /\ Stay("syncReplaced")
    /\ UNCHANGED <<vault, history, faults>>

SyncReplaced ==
    /\ pc = "syncReplaced"
    /\ SyncParent(Target)
    /\ Loop("replace", Len(Order), "commit")
    /\ UNCHANGED <<vault, history, faults>>

Commit ==
    /\ pc = "commit"
    /\ PutJournal([journal EXCEPT !.phase = "committed"])
    /\ Stay("syncCommitted")
    /\ UNCHANGED <<vault, history, faults>>

SyncCommitted ==
    /\ pc = "syncCommitted"
    /\ SyncParent(App)
    /\ job' = [job EXCEPT !.committed = TRUE]
    /\ pc' = IF job.identity # Absent THEN "storeKeys" ELSE "unlink"
    /\ UNCHANGED <<at, cont, vault, history, faults>>

-----------------------------------------------------------------------------
(* Faults.  A stopped process leaves the files as they look, a power loss   *)
(* leaves some of the changes that were not synced.                         *)
CountFault == faults < MaxFaults /\ faults' = faults + 1
Halt == pc' = "idle" /\ at' = 1 /\ cont' = "open" /\ job' = NoJob

IoError ==
    /\ CountFault
    /\ pc # "idle"
    /\ Failing
    /\ UNCHANGED <<files, vault, history>>

Crash ==
    /\ CountFault
    /\ pc # "idle"
    /\ Halt
    /\ UNCHANGED <<files, vault, history>>

PowerLoss ==
    /\ CountFault
    /\ LosePower
    /\ Halt
    /\ UNCHANGED <<vault, history>>

Between == Open \/ UpdateKeys \/ StageIdentity \/ BeginInstall
Recovery == \/ Check \/ UnlinkRollback \/ Relink \/ RenameBack \/ SyncRestored
            \/ PublishRolledBack \/ SyncRolledBack \/ SyncTerminal
Identity == StoreKeys \/ DropToken \/ Acknowledge
Cleanup == Unlink \/ SyncUnlinked \/ UnlinkJournal \/ SyncJournal
Install == \/ RemoveOrphans \/ Retain \/ Copy \/ SyncPrepared \/ Publish
           \/ SyncPublished \/ Replace \/ SyncReplaced \/ Commit \/ SyncCommitted
Procedure == Recovery \/ Identity \/ Cleanup \/ Install
Fault == IoError \/ Crash \/ PowerLoss
Next == Between \/ BeginRecovery \/ Procedure \/ Fault

Spec == Init /\ [][Next]_vars
FairSpec == Spec /\ WF_vars(Procedure) /\ WF_vars(BeginRecovery)

-----------------------------------------------------------------------------
(* What the app may open is one whole generation, the old or the new one,   *)
(* with the sidecar files that belong to it and no other, under the key it  *)
(* is encrypted with and without the token of another account: what         *)
(* install_coordinated, recover_locked and apply leave behind at every      *)
(* crash.                                                                   *)
AdmittedWhole ==
    Admitted =>
        /\ Current # Absent
        /\ \A t \in Targets \ Scratch :
              live[<<t, "target">>] = IF t \in kept[Current] THEN Current ELSE Absent
        /\ \A t \in Scratch : live[<<t, "target">>] \in {Current, Absent}
        /\ keys.id = keyOf[Current]
        /\ token \in {Absent, keys.id}

(* While a restore may have to be rolled back, before and after a power     *)
(* loss, every file it needs for that is there: recover_locked never meets  *)
(* its "rollback file is missing".                                          *)
RollbackPossible ==
    /\ journal.phase = "pending" => RollbackSetComplete(journal)
    /\ diskJournal.phase = "pending" =>
          \A t \in diskJournal.original : disk[<<t, "old">>] # Absent

(* Recovering again what was applied does not take back a later change of   *)
(* the key manager (keys::restore::apply acknowledges its record).          *)
KeyUpdatesKept ==
    [][keys'.id = keys.id => keys'.version >= keys.version]_vars

(* The journal names an identity another one has been staged over: a power  *)
(* loss brought the journal back after its restore was finished, the app    *)
(* was opened and the next restore had begun.  validate refuses it for good.*)
Superseded == journal.identity # Absent /\ record.id # journal.identity

(* A recovery that nothing disturbs answers with a journal still there for  *)
(* one reason only, that the identity was superseded: the files, whatever   *)
(* earlier rollbacks left of them, never make recover_locked give up.       *)
GivesUpOnlySuperseded ==
    [][pc # "idle" /\ pc' = "idle" /\ journal'.phase # "none"
          => Superseded \/ faults' # faults]_vars

(* But for that one case, the app can open its databases in the end,        *)
(* whatever happened: no crash, power loss or I/O error leaves a restore    *)
(* that recover_locked cannot finish.                                       *)
RecoveryEnds == []<>(Admitted \/ Superseded)

(* The generation a power loss would now lead back to. *)
Durable == IF diskJournal.phase = "pending" THEN disk[<<App, "old">>]
                                            ELSE disk[<<App, "target">>]

Promise == INSTANCE AtomicSwitch WITH store <- Durable

(* Restores with all their files, faults and recoveries implement the       *)
(* atomic switch: what was served or reported is never taken back.          *)
KeepsPromise == Promise!Spec
=============================================================================

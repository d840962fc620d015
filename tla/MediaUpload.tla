----------------------------- MODULE MediaUpload -----------------------------
(* One media file of a group message on its way to the members: prepared by *)
(* the app, carried by the operating system, dispatched by the server, and  *)
(* settled by whoever asks the server next.  Around it members respond, ask *)
(* for the file again or leave the group, and the app may stop anywhere.    *)
EXTENDS Integers, FiniteSets

CONSTANTS
    Recipients,     \* the members the message goes to
    Slots,          \* attachment ids; the server uses a free one again
    MaxActive,      \* slots the server reserves for an account
    MaxEvents,      \* bound: requests for another upload, members who leave,
                    \* stops, failures, lost or refused transfers, together
    None

ASSUME MediaAssumption ==
    /\ Slots # {} /\ IsFiniteSet(Slots) /\ MaxActive \in Nat \ {0}
    /\ MaxEvents \in Nat
    /\ None \notin Slots \cup {"new", "old"} /\ "new" \notin Slots /\ "old" \notin Slots

VARIABLES
    state,          \* upload_state of the media file
    requests,       \* reupload_targets: who asked for it again
    failed,         \* recipients with a sendFailed action
    receipt,        \* per recipient: the upload its receipt went into
    gone,           \* former members
    slot,           \* direct_media_upload_slots
    job,            \* direct_media_upload_jobs
    manifest,       \* the immutable requests of a job: whom it dispatches to
    transfers,      \* uploads the operating system is carrying
    attachment,     \* the server's word on an upload
    sentTo,         \* history: recipients the server has dispatched to
    latest,         \* history: the job persisted last
    work,           \* what holds the media lock, and its next step
    found,          \* a former member's receipt was seen, outside the lock
    known,          \* the list of the slot request under way, or None
    cutShort,       \* history: a stale cancellation was interrupted
    events

database == <<state, requests, failed, receipt, gone, slot, job>>
outside == <<manifest, transfers, attachment, sentTo, latest, cutShort>>
tasks == <<work, found, known>>
vars == <<database, outside, tasks, events>>

States == {"preprocessing", "backgroundUploadTaskStarted", "uploaded", "storedOnly",
           "fileLimitReached", "uploadLimitReached", "preparationFailed"}
Verdicts == {"none", "reserved", "refused", "ready", "rejected", "expired", "abandoned"}
Steps == {"idle", "load", "seal", "persist", "release", "schedule", "scheduled",
          "mark", "cancel", "confirm", "restart"}
NoJob == [state |-> "none", requests |-> {}]
Idle == [at |-> "idle", slot |-> None, draft |-> {}, pending |-> FALSE, dispatched |-> FALSE]

Jobs == [state : {"none", "prepared", "scheduled"}, requests : SUBSET Recipients]
Tasks == [at : Steps, slot : Slots \cup {None}, draft : SUBSET Recipients,
          pending : BOOLEAN, dispatched : BOOLEAN]

TypeOK ==
    /\ state \in States
    /\ requests \subseteq Recipients /\ failed \subseteq Recipients
    /\ gone \subseteq Recipients /\ sentTo \subseteq Recipients
    /\ receipt \in [Recipients -> Slots \cup {None, "new", "old"}]
    /\ slot \in [Slots -> {"absent", "cached", "reserved", "consumed", "abandoned"}]
    /\ job \in [Slots -> Jobs]
    /\ \A s \in Slots : slot[s] = "reserved" <=> job[s].state # "none"
    /\ manifest \in [Slots -> SUBSET Recipients]
    /\ transfers \subseteq Slots
    /\ attachment \in [Slots -> Verdicts]
    /\ latest \in Slots \cup {None}
    /\ work \in Tasks
    /\ found \in BOOLEAN /\ cutShort \in BOOLEAN
    /\ known \in {None} \cup SUBSET Slots
    /\ events \in 0..MaxEvents

(* The message was just sent; no slot is cached yet. *)
Init ==
    /\ state = "preprocessing" /\ requests = {} /\ failed = {} /\ gone = {}
    /\ receipt = [r \in Recipients |-> None]
    /\ slot = [s \in Slots |-> "absent"] /\ job = [s \in Slots |-> NoJob]
    /\ manifest = [s \in Slots |-> {}] /\ transfers = {}
    /\ attachment = [s \in Slots |-> "none"]
    /\ sentTo = {} /\ latest = None
    /\ work = Idle /\ found = FALSE /\ known = None
    /\ cutShort = FALSE /\ events = 0

Members == Recipients \ (gone \cup failed)
HasJob(s) == job[s].state # "none"
Unexpired(s) == attachment[s] # "expired"
Happens == events < MaxEvents /\ events' = events + 1
Go(step) == work' = [work EXCEPT !.at = step]
OnlyWork == UNCHANGED <<database, outside, found, known, events>>
DropReceipts(of) == receipt' = [r \in Recipients |-> IF r \in of THEN None ELSE receipt[r]]

(* mark_uploaded. *)
Uploaded == state' = "uploaded"

-----------------------------------------------------------------------------
(* start_upload_locked, prepare_and_schedule.  Holds the media lock.        *)
Resumable == {"preprocessing", "uploadLimitReached"}

BeginUpload ==
    /\ work.at \in {"idle", "restart"}
    /\ state \in Resumable
    /\ state' = "preprocessing"
    /\ work' = [Idle EXCEPT !.at = "load"]
    /\ UNCHANGED <<requests, failed, receipt, gone, slot, job, outside, found, known,
                   events>>

NothingToRestart ==
    /\ work.at = "restart"
    /\ state \notin Resumable
    /\ work' = Idle
    /\ OnlyWork

(* A job for the same requests is used again, whatever became of it. *)
Reusable == {s \in Slots : HasJob(s) /\ Unexpired(s) /\ job[s].requests = requests}

Reuse ==
    /\ work.at = "load"
    /\ \E s \in Reusable :
          work' = [work EXCEPT !.slot = s, !.at = IF job[s].state = "prepared"
                                                     THEN "schedule" ELSE "mark"]
    /\ OnlyWork

(* prepare_media reads whom the upload is for ... *)
Scope ==
    /\ work.at = "load"
    /\ Reusable = {}
    /\ work' = [work EXCEPT !.at = "seal",
                            !.draft = IF requests = {} THEN Members ELSE Members \cap requests]
    /\ OnlyWork

(* ... and encrypts a message for each, with a new receipt.  A contact whose*)
(* keys cannot be had fails for good.                                       *)
Seal ==
    /\ work.at = "seal"
    /\ \E keyless \in {{}} \cup {{r} : r \in work.draft} :
          /\ IF keyless = {} THEN UNCHANGED events ELSE Happens
          /\ failed' = failed \cup keyless
          /\ receipt' = [r \in Recipients |->
                IF r \in keyless THEN None ELSE IF r \in work.draft THEN "new" ELSE receipt[r]]
          /\ work' = [work EXCEPT !.draft = @ \ keyless,
                                  !.at = IF work.draft \subseteq keyless THEN "release"
                                                                          ELSE "persist"]
    /\ UNCHANGED <<state, requests, gone, slot, job, outside, found, known>>

(* Nobody is left to send it to. *)
Release ==
    /\ work.at = "release"
    /\ state' = "storedOnly" /\ requests' = {}
    /\ work' = Idle
    /\ UNCHANGED <<failed, receipt, gone, slot, job, outside, found, known, events>>

\* A mutant: those who left while the messages were encrypted stay in.
PersistDraft ==
    /\ work.at = "persist"
    /\ \E s \in Slots :
          LET kept == {r \in work.draft : receipt[r] = "new"}
          IN  /\ slot[s] = "cached" /\ Unexpired(s) /\ kept # {}
              /\ slot' = [slot EXCEPT ![s] = "reserved"]
              /\ job' = [job EXCEPT ![s] = [state |-> "prepared", requests |-> requests]]
              /\ manifest' = [manifest EXCEPT ![s] = kept]
              /\ latest' = s
              /\ receipt' = [r \in Recipients |->
                    IF r \in gone THEN None ELSE IF r \in kept THEN s ELSE receipt[r]]
              /\ work' = [work EXCEPT !.at = "schedule", !.slot = s]
    /\ UNCHANGED <<state, requests, failed, gone, transfers, attachment, sentTo, found,
                   known, cutShort, events>>

(* persist_prepared_job: one transaction from the slot to the job. *)
Persist ==
    /\ work.at = "persist"
    /\ \E s \in Slots :
          LET kept == {r \in work.draft \ gone : receipt[r] = "new"}
          IN  /\ slot[s] = "cached" /\ Unexpired(s)
              /\ IF kept = {}
                    THEN /\ Go("release")
                         /\ UNCHANGED <<slot, job, manifest, latest, receipt>>
                    ELSE /\ slot' = [slot EXCEPT ![s] = "reserved"]
                         /\ job' = [job EXCEPT ![s] =
                                       [state |-> "prepared", requests |-> requests]]
                         /\ manifest' = [manifest EXCEPT ![s] = kept]
                         /\ latest' = s
                         /\ receipt' = [r \in Recipients |->
                               IF r \in gone THEN None ELSE IF r \in kept THEN s ELSE receipt[r]]
                         /\ work' = [work EXCEPT !.at = "schedule", !.slot = s]
    /\ UNCHANGED <<state, requests, failed, gone, transfers, attachment, sentTo, found,
                   known, cutShort, events>>

TooLarge ==
    /\ work.at = "persist"
    /\ Happens
    /\ state' = "fileLimitReached"
    /\ work' = Idle
    /\ UNCHANGED <<requests, failed, receipt, gone, slot, job, outside, found, known>>

NoSlot ==
    /\ work.at = "persist"
    /\ \A s \in Slots : slot[s] = "cached" => ~Unexpired(s)
    /\ work' = Idle
    /\ OnlyWork

(* schedule_prepared_job: the operating system first, then the job.         *)
Schedule ==
    /\ work.at = "schedule"
    /\ transfers' = transfers \cup {work.slot}
    /\ Go("scheduled")
    /\ UNCHANGED <<database, manifest, attachment, sentTo, latest, found, known,
                   cutShort, events>>

MarkScheduled ==
    /\ work.at = "scheduled"
    /\ job' = [job EXCEPT ![work.slot].state = IF @ = "prepared" THEN "scheduled" ELSE @]
    /\ IF work.pending THEN work' = Idle ELSE Go("mark")
    /\ UNCHANGED <<state, requests, failed, receipt, gone, slot, outside, found, known,
                   events>>

MarkStarted ==
    /\ work.at = "mark"
    /\ state' = "backgroundUploadTaskStarted"
    /\ work' = Idle
    /\ UNCHANGED <<requests, failed, receipt, gone, slot, job, outside, found, known,
                   events>>

(* resume_prepared_jobs: scheduling again, and nothing else. *)
ResumePrepared(s) ==
    /\ work.at = "idle"
    /\ job[s].state = "prepared" /\ Unexpired(s)
    /\ work' = [Idle EXCEPT !.at = "schedule", !.slot = s, !.pending = TRUE]
    /\ OnlyWork

-----------------------------------------------------------------------------
(* reconcile.  The server is asked without the lock and its answer applied  *)
(* under it, with the job row as the claim.  A final verdict stays, so that *)
(* an answer applied late is the answer of that moment; and what is done    *)
(* about an upload that is still reserved may be done at any time.          *)
\* A mutant: the slot of a finished job is forgotten.
RetireJob(s, as) ==
    /\ job' = [job EXCEPT ![s] = NoJob]
    /\ UNCHANGED slot

Retire(s, as) ==
    /\ job' = [job EXCEPT ![s] = NoJob]
    /\ slot' = [slot EXCEPT ![s] = as]

Again == state' = IF state # "uploaded" \/ requests # {} THEN "preprocessing" ELSE state

\* A mutant: an upload the server has accepted counts as dispatched.
SettleAccepted(s) ==
    /\ attachment[s] \in {"ready", "reserved"}
    /\ Uploaded /\ Retire(s, "consumed")
    /\ requests' = IF job[s].requests = requests THEN {} ELSE requests
    /\ UNCHANGED <<failed, receipt, transfers>>

SettleReady(s) ==
    /\ attachment[s] = "ready"
    /\ Uploaded /\ Retire(s, "consumed")
    /\ requests' = IF job[s].requests = requests THEN {} ELSE requests
    /\ UNCHANGED <<failed, receipt, transfers>>

SettleRejected(s) ==
    /\ attachment[s] = "rejected"
    /\ state' = "uploadLimitReached" /\ Retire(s, "abandoned")
    /\ UNCHANGED <<requests, failed, receipt, transfers>>

SettleRetry(s) ==
    /\ attachment[s] \in {"expired", "abandoned"}
    /\ Again /\ Retire(s, "abandoned")
    /\ UNCHANGED <<requests, failed, receipt, transfers>>

(* recover_native_transfer. *)
Recover(s) ==
    /\ attachment[s] = "reserved"
    /\ job[s].state = "scheduled"
    /\ transfers' = transfers \cup {s}
    /\ UNCHANGED <<state, requests, failed, receipt, slot, job>>

(* refuse_manifest: the object is empty and prepared again, or the send has *)
(* failed for those it was for.                                             *)
Reprepare(s) ==
    /\ attachment[s] = "refused"
    /\ Again /\ Retire(s, "abandoned")
    /\ DropReceipts({r \in manifest[s] : receipt[r] = s})
    /\ UNCHANGED <<requests, failed, transfers>>

SettleFailed(s) ==
    /\ attachment[s] = "refused"
    /\ state' = "preparationFailed" /\ Retire(s, "abandoned")
    /\ failed' = failed \cup {r \in manifest[s] : receipt[r] = s}
    /\ DropReceipts({r \in manifest[s] : receipt[r] = s})
    /\ UNCHANGED <<requests, transfers>>

Settle(s) ==
    /\ work.at = "idle"
    /\ HasJob(s)
    /\ \/ SettleReady(s) \/ SettleRejected(s) \/ SettleRetry(s)
       \/ Recover(s) \/ Reprepare(s) \/ SettleFailed(s)
    /\ UNCHANGED <<gone, manifest, attachment, sentTo, latest, tasks, cutShort, events>>

-----------------------------------------------------------------------------
(* reconcile_group_recipients, with cancel_pending_upload.                  *)
FindFormer ==
    /\ ~found
    /\ \E r \in gone : receipt[r] # None
    /\ found' = TRUE
    /\ UNCHANGED <<database, outside, work, known, events>>

BeginCancel ==
    /\ work.at = "idle" /\ found
    /\ found' = FALSE
    /\ work' = [Idle EXCEPT !.at = "cancel", !.pending = \E s \in Slots : HasJob(s)]
    /\ UNCHANGED <<database, outside, known, events>>

Abandon(s) ==
    /\ work.at = "cancel"
    /\ HasJob(s)
    /\ attachment' = [attachment EXCEPT ![s] =
                         IF @ \in {"reserved", "refused"} THEN "abandoned" ELSE @]
    /\ work' = [work EXCEPT !.at = "confirm", !.slot = s]
    /\ UNCHANGED <<database, manifest, transfers, sentTo, latest, found, known,
                   cutShort, events>>

(* finish_cancellation. *)
Confirm ==
    /\ work.at = "confirm"
    /\ IF attachment[work.slot] = "ready"
          THEN Uploaded /\ Retire(work.slot, "consumed")
          ELSE Retire(work.slot, "abandoned") /\ UNCHANGED state
    /\ work' = [work EXCEPT !.at = "cancel",
                            !.dispatched = @ \/ attachment[work.slot] = "ready"]
    /\ UNCHANGED <<requests, failed, receipt, gone, outside, found, known, events>>

\* A mutant: only a job that was cancelled just now starts again.
FinishPending ==
    /\ work.at = "cancel"
    /\ \A s \in Slots : ~HasJob(s)
    /\ DropReceipts(gone)
    /\ IF ~work.dispatched /\ work.pending
          THEN state' = "preprocessing" /\ Go("restart")
          ELSE work' = Idle /\ UNCHANGED state
    /\ UNCHANGED <<requests, failed, gone, slot, job, outside, found, known, events>>

(* finish_group_recipient_change. *)
FinishChange ==
    /\ work.at = "cancel"
    /\ \A s \in Slots : ~HasJob(s)
    /\ DropReceipts(gone)
    /\ IF ~work.dispatched /\ (work.pending \/ state = "backgroundUploadTaskStarted")
          THEN state' = "preprocessing" /\ Go("restart")
          ELSE work' = Idle /\ UNCHANGED state
    /\ UNCHANGED <<requests, failed, gone, slot, job, outside, found, known, events>>

-----------------------------------------------------------------------------
(* preload_slots.  The server abandons every reserved slot the list omits.  *)
\* A mutant: the list of the cached slots only.
KnownCached == {s \in Slots : slot[s] = "cached" /\ Unexpired(s)}

Known == {s \in Slots : slot[s] \in {"cached", "reserved"} /\ Unexpired(s)}

AskSlots ==
    /\ known = None
    /\ known' = Known
    /\ UNCHANGED <<database, outside, work, found, events>>

(* A new attachment: an id that nothing refers to any more. *)
Free == {s \in Slots : /\ attachment[s] # "reserved" /\ s \notin transfers
                       /\ ~HasJob(s) /\ s # work.slot
                       /\ slot[s] = "cached" => ~Unexpired(s)}

Issued(kept) == IF Cardinality(kept) < MaxActive /\ Free # {}
                   THEN {CHOOSE s \in Free : TRUE} ELSE {}

(* store_slots follows the answer, unless it is lost. *)
AnswerSlots ==
    /\ known # None
    /\ LET kept == {s \in known : attachment[s] = "reserved"}
           new == Issued(kept)
       IN  /\ attachment' = [s \in Slots |->
                 IF s \in new THEN "reserved"
                 ELSE IF attachment[s] = "reserved" /\ s \notin kept THEN "abandoned"
                 ELSE attachment[s]]
           /\ manifest' = [s \in Slots |-> IF s \in new THEN {} ELSE manifest[s]]
           /\ latest' = IF latest \in new THEN None ELSE latest
           /\ receipt' = [r \in Recipients |-> IF receipt[r] \in new THEN "old" ELSE receipt[r]]
           /\ \/ /\ slot' = [s \in Slots |-> IF s \in new THEN "cached" ELSE slot[s]]
                 /\ UNCHANGED events
              \/ /\ slot' = [s \in Slots |-> IF s \in new THEN "absent" ELSE slot[s]]
                 /\ Happens
    /\ known' = None
    /\ UNCHANGED <<state, requests, failed, gone, job, transfers, sentTo, work, found,
                   cutShort>>

-----------------------------------------------------------------------------
(* The operating system and the server.                                     *)
Transfer(s) ==
    /\ s \in transfers
    /\ transfers' = transfers \ {s}
    /\ \/ /\ attachment[s] = "reserved"
          /\ attachment' = [attachment EXCEPT ![s] = "ready"]
          /\ sentTo' = sentTo \cup manifest[s]
       \/ /\ attachment[s] # "reserved"
          /\ UNCHANGED <<attachment, sentTo>>
    /\ UNCHANGED <<database, manifest, latest, tasks, cutShort, events>>

(* What else may become of it: the server rejects or refuses it, its time   *)
(* is over, or the operating system forgets it.                             *)
Mishap(s) ==
    /\ Happens
    /\ attachment[s] = "reserved"
    /\ \/ /\ s \in transfers
          /\ transfers' = transfers \ {s}
          /\ \E v \in {"rejected", "refused", "reserved"} :
                attachment' = [attachment EXCEPT ![s] = v]
       \/ /\ transfers' = transfers \ {s}
          /\ attachment' = [attachment EXCEPT ![s] = "expired"]
    /\ UNCHANGED <<database, manifest, sentTo, latest, tasks, cutShort>>

-----------------------------------------------------------------------------
(* The members.                                                             *)
(* handle_response_from_receiver; a delivery receipt also takes the row.    *)
Response(r) ==
    /\ r \in sentTo
    /\ Uploaded
    /\ \/ UNCHANGED receipt
       \/ /\ receipt[r] = "old" \/ \E s \in Slots : receipt[r] = s /\ attachment[s] = "ready"
          /\ DropReceipts({r})
    /\ UNCHANGED <<requests, failed, gone, slot, job, outside, tasks, events>>

(* record_reupload_request_in, from the handler of a decryption error. *)
Request(r) ==
    /\ r \in sentTo \cap Members
    /\ Happens
    /\ requests' = requests \cup {r}
    /\ state' = "preprocessing"
    /\ UNCHANGED <<failed, receipt, gone, slot, job, outside, tasks>>

(* A new state of the group is applied. *)
Leave(r) ==
    /\ r \notin gone
    /\ Happens
    /\ gone' = gone \cup {r}
    /\ UNCHANGED <<state, requests, failed, receipt, slot, job, outside, tasks>>

-----------------------------------------------------------------------------
(* A step fails and its task returns; the app stops.  The jobs, the slots   *)
(* and the requests are on disk.  A cancellation whose job is gone is found *)
(* again by the receipts of former members only.                            *)
NothingCallsForIt ==
    /\ work.at = "cancel"
    /\ \A s \in Slots : ~HasJob(s)
    /\ \A r \in gone : receipt[r] = None

Interrupted ==
    /\ Happens
    /\ work' = Idle
    /\ cutShort' = (cutShort \/ NothingCallsForIt)
    /\ UNCHANGED <<database, manifest, transfers, attachment, sentTo, latest>>

GiveUp ==
    /\ work.at # "idle"
    /\ Interrupted
    /\ UNCHANGED <<found, known>>

Stop ==
    /\ Interrupted
    /\ found' = FALSE /\ known' = None

Preparation == \/ NothingToRestart \/ Reuse \/ Scope \/ Seal \/ Release \/ Persist
               \/ TooLarge \/ NoSlot \/ Schedule \/ MarkScheduled \/ MarkStarted
Cancellation == Confirm \/ FinishChange \/ \E s \in Slots : Abandon(s)
Locked == Preparation \/ Cancellation
Preload == AskSlots \/ AnswerSlots
Peers == \E r \in Recipients : Response(r) \/ Request(r) \/ Leave(r)

Next ==
    \/ BeginUpload \/ Locked \/ FindFormer \/ BeginCancel \/ Preload
    \/ \E s \in Slots : \/ ResumePrepared(s) \/ Settle(s)
                        \/ Transfer(s) \/ Mishap(s)
    \/ Peers \/ GiveUp \/ Stop

Spec == Init /\ [][Next]_vars

(* The media lock is fair: whoever waits for it gets it.  The sweeps of a   *)
(* connection, the watcher and the operating system come back until nothing *)
(* is left to do.                                                           *)
Fairness ==
    /\ WF_vars(Locked) /\ SF_vars(BeginUpload)
    /\ WF_vars(FindFormer) /\ SF_vars(BeginCancel)
    /\ WF_vars(Preload)
    /\ \A s \in Slots : /\ SF_vars(ResumePrepared(s))
                        /\ SF_vars(Settle(s)) /\ WF_vars(Transfer(s))

FairSpec == Spec /\ Fairness

-----------------------------------------------------------------------------
(* A member who leaves while an upload is on its way is found by the receipt*)
(* of that upload until it is cancelled, so that the server does not        *)
(* dispatch to former members; the upload prepared last, and unless the send*)
(* has failed for the member before.                                        *)
RemovalIsPending ==
    latest # None /\ attachment[latest] = "reserved" =>
        \A r \in (manifest[latest] \cap gone) \ failed : receipt[r] # None

(* A message is shown as sent to its members only after the server has      *)
(* dispatched it to each of them.                                           *)
UploadedMeansDispatched == state = "uploaded" => Members \subseteq sentTo

(* No slot the device still counts on is given up by the server for a list  *)
(* of slots that is outdated.                                               *)
HeldSlotsLive ==
    [][\A s \in Slots :
          /\ slot[s] \in {"cached", "reserved"} /\ attachment[s] = "reserved"
          /\ known # None /\ known' = None
          => attachment'[s] = "reserved"]_vars

(* Whatever stops, fails, is refused or lost, and whoever leaves: the upload*)
(* comes to an end the chat can show.  Unless a cancellation is cut short   *)
(* after its job is gone, and no receipt of a former member calls for it    *)
(* again: of that upload nothing is left to find.                           *)
Settled == state \in {"uploaded", "storedOnly", "fileLimitReached", "preparationFailed"}
MediaSettles == <>cutShort \/ []<>Settled
=============================================================================

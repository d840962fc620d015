------------------------- MODULE MediaUploadProofs -------------------------
(* Theorems of MediaUpload, for any recipients, attachments, limits and     *)
(* number of events.                                                        *)
EXTENDS MediaUpload, TLAPS

(* A step that is about an attachment names one. *)
Typed == TypeOK /\ (work.at \in {"schedule", "scheduled", "confirm"} => work.slot \in Slots)

LEMMA IdleTypes == Idle \in Tasks /\ Idle.at = "idle" /\ NoJob \in Jobs
  BY DEF Idle, Tasks, Steps, NoJob, Jobs

(* One more event. *)
LEMMA EventTypes == TypeOK => (Happens => events' \in 0..MaxEvents)
  BY MediaAssumption DEF TypeOK, Happens

LEMMA DropTypes ==
  ASSUME TypeOK, NEW R, DropReceipts(R)
  PROVE  receipt' \in [Recipients -> Slots \cup {None, "new", "old"}]
  BY DEF TypeOK, DropReceipts

(* A slot is reserved as long as it has a job. *)
LEMMA RetireTypes ==
  ASSUME TypeOK, NEW s \in Slots, NEW as \in {"consumed", "abandoned"}, Retire(s, as)
  PROVE  /\ slot' \in [Slots -> {"absent", "cached", "reserved", "consumed", "abandoned"}]
         /\ job' \in [Slots -> Jobs]
         /\ \A t \in Slots : slot'[t] = "reserved" <=> job'[t].state # "none"
<1>1. NoJob \in Jobs /\ NoJob.state = "none"
  BY IdleTypes DEF NoJob
<1>2. /\ slot' = [slot EXCEPT ![s] = as] /\ job' = [job EXCEPT ![s] = NoJob]
      /\ slot \in [Slots -> {"absent", "cached", "reserved", "consumed", "abandoned"}]
      /\ job \in [Slots -> Jobs]
  BY DEF Retire, TypeOK
<1>3. \A t \in Slots : /\ slot'[t] = IF t = s THEN as ELSE slot[t]
                       /\ job'[t] = IF t = s THEN NoJob ELSE job[t]
  BY <1>2
<1>4. QED
  BY <1>1, <1>2, <1>3 DEF TypeOK

LEMMA InitTyped == Init => Typed
<1> SUFFICES ASSUME Init PROVE Typed
  OBVIOUS
<1>1. /\ job \in [Slots -> Jobs] /\ slot \in [Slots -> {"absent"}]
      /\ \A s \in Slots : slot[s] = "absent" /\ job[s].state = "none"
  BY IdleTypes DEF Init, NoJob
<1>2. state \in States /\ attachment \in [Slots -> Verdicts]
  BY DEF Init, States, Verdicts
<1>3. work \in Tasks /\ work.at = "idle" /\ events \in 0..MaxEvents
  BY IdleTypes, MediaAssumption DEF Init
<1>4. receipt \in [Recipients -> Slots \cup {None, "new", "old"}]
  BY DEF Init
<1>5. TypeOK
  BY <1>1, <1>2, <1>3, <1>4 DEF Init, TypeOK
<1>6. QED
  BY <1>3, <1>5 DEF Typed

(* The steps that change nothing but where the task is. *)
LEMMA WalkTyped ==
  ASSUME Typed,
         \/ NothingToRestart \/ Reuse \/ Scope \/ NoSlot \/ BeginCancel
         \/ \E s \in Slots : ResumePrepared(s)
  PROVE  Typed'
<1>1. UNCHANGED <<database, outside, known, events>> /\ found' \in BOOLEAN
  BY DEF Typed, TypeOK, NothingToRestart, Reuse, Scope, NoSlot, BeginCancel, ResumePrepared, OnlyWork
<1>2. work' \in Tasks /\ (work'.at \in {"schedule", "scheduled", "confirm"} => work'.slot \in Slots)
  <2>1. work \in Tasks /\ requests \subseteq Recipients
    BY DEF Typed, TypeOK
  <2>2. CASE NothingToRestart \/ NoSlot
    BY <2>2, IdleTypes DEF NothingToRestart, NoSlot
  <2>3. CASE Reuse
    <3>1. PICK s \in Slots : work' = [work EXCEPT !.slot = s,
               !.at = IF job[s].state = "prepared" THEN "schedule" ELSE "mark"]
      BY <2>3 DEF Reuse, Reusable
    <3>2. QED
      BY <2>1, <3>1 DEF Tasks, Steps
  <2>4. CASE Scope
    BY <2>1, <2>4 DEF Scope, Tasks, Steps, Members
  <2>5. CASE BeginCancel
    BY <2>5, IdleTypes DEF BeginCancel, Tasks, Steps, Idle
  <2>6. ASSUME NEW s \in Slots, ResumePrepared(s)
        PROVE  work' \in Tasks /\ work'.slot \in Slots
    BY <2>6, IdleTypes DEF ResumePrepared, Tasks, Steps, Idle
  <2>7. QED
    BY <2>2, <2>3, <2>4, <2>5, <2>6
<1>3. QED
  BY <1>1, <1>2 DEF Typed, TypeOK, database, outside

(* The steps that also move the media file to another state. *)
LEMMA StateTyped ==
  ASSUME Typed, BeginUpload \/ Release \/ TooLarge \/ MarkStarted
  PROVE  Typed'
<1>1. /\ UNCHANGED <<failed, receipt, gone, slot, job, outside, found, known>>
      /\ events' \in 0..MaxEvents /\ state' \in States /\ requests' \subseteq Recipients
  BY EventTypes DEF Typed, TypeOK, BeginUpload, Release, TooLarge, MarkStarted, States
<1>2. work' \in Tasks /\ work'.at \in {"idle", "load"}
  BY IdleTypes DEF BeginUpload, Release, TooLarge, MarkStarted, Tasks, Steps, Idle
<1>3. QED
  BY <1>1, <1>2 DEF Typed, TypeOK, outside

LEMMA SealTyped ==
  ASSUME Typed, Seal
  PROVE  Typed'
<1>1. PICK keyless \in {{}} \cup {{r} : r \in work.draft} :
          /\ IF keyless = {} THEN UNCHANGED events ELSE Happens
          /\ failed' = failed \cup keyless
          /\ receipt' = [r \in Recipients |->
                IF r \in keyless THEN None ELSE IF r \in work.draft THEN "new" ELSE receipt[r]]
          /\ work' = [work EXCEPT !.draft = work.draft \ keyless,
                                  !.at = IF work.draft \subseteq keyless THEN "release"
                                                                          ELSE "persist"]
  BY DEF Seal
<1>2. work \in Tasks /\ work.draft \subseteq Recipients /\ keyless \subseteq Recipients
  BY DEF Typed, TypeOK, Tasks
<1>3. failed' \subseteq Recipients /\ events' \in 0..MaxEvents
  BY <1>1, <1>2, EventTypes DEF Typed, TypeOK
<1>4. receipt' \in [Recipients -> Slots \cup {None, "new", "old"}]
  BY <1>1 DEF Typed, TypeOK
<1>5. work' \in Tasks /\ work'.at \in {"release", "persist"}
  BY <1>1, <1>2 DEF Tasks, Steps
<1>6. QED
  BY <1>3, <1>4, <1>5 DEF Seal, Typed, TypeOK, outside

LEMMA PersistTyped ==
  ASSUME Typed, Persist
  PROVE  Typed'
<1>1. /\ UNCHANGED <<state, requests, failed, gone, transfers, attachment, sentTo, found,
                     known, cutShort, events>>
      /\ work.at = "persist" /\ work \in Tasks
  BY DEF Persist, Typed, TypeOK
<1>2. CASE UNCHANGED <<slot, job, manifest, latest, receipt>> /\ Go("release")
  <2>1. work' \in Tasks /\ work'.at = "release"
    BY <1>1, <1>2 DEF Go, Tasks, Steps
  <2>2. QED
    BY <1>1, <1>2, <2>1 DEF Typed, TypeOK
<1>3. ASSUME NEW s \in Slots, NEW kept \in SUBSET Recipients,
             slot' = [slot EXCEPT ![s] = "reserved"],
             job' = [job EXCEPT ![s] = [state |-> "prepared", requests |-> requests]],
             manifest' = [manifest EXCEPT ![s] = kept],
             latest' = s,
             receipt' = [r \in Recipients |->
                           IF r \in gone THEN None ELSE IF r \in kept THEN s ELSE receipt[r]],
             work' = [work EXCEPT !.at = "schedule", !.slot = s]
      PROVE  Typed'
  <2>1. work' \in Tasks /\ work'.slot \in Slots
    BY <1>1, <1>3 DEF Tasks, Steps
  <2>2. [state |-> "prepared", requests |-> requests] \in Jobs
    BY DEF Typed, TypeOK, Jobs
  <2>3. /\ slot' \in [Slots -> {"absent", "cached", "reserved", "consumed", "abandoned"}]
        /\ job' \in [Slots -> Jobs]
        /\ \A t \in Slots : slot'[t] = "reserved" <=> job'[t].state # "none"
    BY <1>3, <2>2 DEF Typed, TypeOK
  <2>4. /\ manifest' \in [Slots -> SUBSET Recipients] /\ latest' \in Slots \cup {None}
        /\ receipt' \in [Recipients -> Slots \cup {None, "new", "old"}]
    BY <1>3 DEF Typed, TypeOK
  <2>5. QED
    BY <1>1, <2>1, <2>3, <2>4 DEF Typed, TypeOK
<1>4. QED
  <2>1. PICK s \in Slots :
          LET kept == {r \in work.draft \ gone : receipt[r] = "new"}
          IN  IF kept = {}
                 THEN Go("release") /\ UNCHANGED <<slot, job, manifest, latest, receipt>>
                 ELSE /\ slot' = [slot EXCEPT ![s] = "reserved"]
                      /\ job' = [job EXCEPT ![s] =
                                    [state |-> "prepared", requests |-> requests]]
                      /\ manifest' = [manifest EXCEPT ![s] = kept]
                      /\ latest' = s
                      /\ receipt' = [r \in Recipients |->
                            IF r \in gone THEN None ELSE IF r \in kept THEN s ELSE receipt[r]]
                      /\ work' = [work EXCEPT !.at = "schedule", !.slot = s]
    BY DEF Persist
  <2>2. {r \in work.draft \ gone : receipt[r] = "new"} \in SUBSET Recipients
    BY <1>1 DEF Tasks
  <2>3. QED
    BY <1>2, <1>3, <2>1, <2>2

LEMMA ScheduleTyped ==
  ASSUME Typed, Schedule \/ MarkScheduled
  PROVE  Typed'
<1>1. work \in Tasks /\ work.slot \in Slots
  BY DEF Typed, TypeOK, Schedule, MarkScheduled
<1>2. CASE Schedule
  <2>1. work' \in Tasks /\ work'.slot \in Slots
    BY <1>1, <1>2 DEF Schedule, Go, Tasks, Steps
  <2>2. QED
    BY <1>1, <1>2, <2>1 DEF Schedule, Typed, TypeOK, database
<1>3. CASE MarkScheduled
  <2>1. work' \in Tasks /\ work'.at \in {"idle", "mark"}
    BY <1>1, <1>3, IdleTypes DEF MarkScheduled, Go, Tasks, Steps
  <2>2. /\ job' = [job EXCEPT ![work.slot] = [job[work.slot] EXCEPT !.state =
                      IF job[work.slot].state = "prepared" THEN "scheduled"
                      ELSE job[work.slot].state]]
        /\ job \in [Slots -> Jobs] /\ job[work.slot] \in Jobs
    BY <1>1, <1>3 DEF MarkScheduled, Typed, TypeOK
  <2>3. /\ job' \in [Slots -> Jobs]
        /\ \A t \in Slots : job'[t].state = "none" <=> job[t].state = "none"
    BY <1>1, <2>2 DEF Jobs
  <2>4. QED
    BY <1>3, <2>1, <2>3 DEF MarkScheduled, Typed, TypeOK, outside
<1>4. QED
  BY <1>2, <1>3

LEMMA SettleTyped ==
  ASSUME Typed, NEW s \in Slots, Settle(s)
  PROVE  Typed'
<1>1. UNCHANGED <<gone, manifest, attachment, sentTo, latest, tasks, cutShort, events>>
  BY DEF Settle
<1>2. /\ state' \in States /\ requests' \subseteq Recipients
      /\ failed' \subseteq Recipients /\ transfers' \subseteq Slots
  <2>1. state \in States /\ manifest[s] \subseteq Recipients
    BY DEF Typed, TypeOK
  <2>2. Uploaded \/ Again => state' \in States
    BY <2>1 DEF Uploaded, Again, States
  <2>3. QED
    BY <2>1, <2>2 DEF Settle, SettleReady, SettleRejected, SettleRetry, Recover, Reprepare,
                      SettleFailed, Typed, TypeOK, States
<1>3. receipt' \in [Recipients -> Slots \cup {None, "new", "old"}]
  BY DropTypes DEF Settle, SettleReady, SettleRejected, SettleRetry, Recover, Reprepare,
                   SettleFailed, Typed, TypeOK
<1>4. /\ slot' \in [Slots -> {"absent", "cached", "reserved", "consumed", "abandoned"}]
      /\ job' \in [Slots -> Jobs]
      /\ \A t \in Slots : slot'[t] = "reserved" <=> job'[t].state # "none"
  <2>1. \/ Retire(s, "consumed") \/ Retire(s, "abandoned")
        \/ UNCHANGED <<slot, job>>
    BY DEF Settle, SettleReady, SettleRejected, SettleRetry, Recover, Reprepare, SettleFailed
  <2>2. QED
    BY <2>1, RetireTypes DEF Typed, TypeOK
<1>5. QED
  BY <1>1, <1>2, <1>3, <1>4 DEF Typed, TypeOK, tasks

LEMMA CancelTyped ==
  ASSUME Typed, Confirm \/ FinishChange \/ \E s \in Slots : Abandon(s)
  PROVE  Typed'
<1>1. work \in Tasks
  BY DEF Typed, TypeOK
<1>2. CASE Confirm
  <2>1. work.slot \in Slots
    BY <1>2 DEF Confirm, Typed
  <2>2. state' \in States
    BY <1>2 DEF Confirm, Uploaded, States, Typed, TypeOK
  <2>3. /\ slot' \in [Slots -> {"absent", "cached", "reserved", "consumed", "abandoned"}]
        /\ job' \in [Slots -> Jobs]
        /\ \A t \in Slots : slot'[t] = "reserved" <=> job'[t].state # "none"
    BY <1>2, <2>1, RetireTypes DEF Confirm, Typed
  <2>4. work' \in Tasks /\ work'.at = "cancel"
    <3>1. (work.dispatched \/ attachment[work.slot] = "ready") \in BOOLEAN
      BY <1>1 DEF Tasks
    <3>2. QED
      BY <1>1, <1>2, <3>1 DEF Confirm, Tasks, Steps
  <2>5. QED
    BY <1>2, <2>2, <2>3, <2>4 DEF Confirm, Typed, TypeOK, outside
<1>3. CASE FinishChange
  <2>1. state' \in States
    BY <1>3 DEF FinishChange, States, Typed, TypeOK
  <2>2. receipt' \in [Recipients -> Slots \cup {None, "new", "old"}]
    BY <1>3, DropTypes DEF FinishChange, Typed
  <2>3. work' \in Tasks /\ work'.at \in {"idle", "restart"}
    BY <1>1, <1>3, IdleTypes DEF FinishChange, Go, Tasks, Steps
  <2>4. QED
    BY <1>3, <2>1, <2>2, <2>3 DEF FinishChange, Typed, TypeOK, outside
<1>4. ASSUME NEW s \in Slots, Abandon(s) PROVE Typed'
  <2>1. attachment' \in [Slots -> Verdicts]
    BY <1>4 DEF Abandon, Typed, TypeOK, Verdicts
  <2>2. work' \in Tasks /\ work'.slot \in Slots
    BY <1>1, <1>4 DEF Abandon, Tasks, Steps
  <2>3. QED
    BY <1>4, <2>1, <2>2 DEF Abandon, Typed, TypeOK, database
<1>5. QED
  BY <1>2, <1>3, <1>4

(* Only ids that nothing refers to are issued. *)
LEMMA IssuedAreFree == ASSUME NEW kept PROVE Issued(kept) \subseteq Free
  BY DEF Issued

LEMMA AnswerTyped ==
  ASSUME Typed, AnswerSlots
  PROVE  Typed'
<1> DEFINE kept == {s \in known : attachment[s] = "reserved"}
           new == Issued(kept)
<1>1. new \subseteq Slots /\ \A s \in new : job[s].state = "none"
  BY IssuedAreFree DEF Free, HasJob
<1>2. /\ attachment' = [s \in Slots |->
            IF s \in new THEN "reserved"
            ELSE IF attachment[s] = "reserved" /\ s \notin kept THEN "abandoned"
            ELSE attachment[s]]
      /\ manifest' = [s \in Slots |-> IF s \in new THEN {} ELSE manifest[s]]
      /\ latest' = IF latest \in new THEN None ELSE latest
      /\ receipt' = [r \in Recipients |-> IF receipt[r] \in new THEN "old" ELSE receipt[r]]
      /\ \E as \in {"cached", "absent"} :
            slot' = [s \in Slots |-> IF s \in new THEN as ELSE slot[s]]
      /\ UNCHANGED events \/ Happens
      /\ known' = None
      /\ UNCHANGED <<state, requests, failed, gone, job, transfers, sentTo, work, found,
                     cutShort>>
  BY DEF AnswerSlots
<1>3. attachment' \in [Slots -> Verdicts]
  BY <1>2 DEF Typed, TypeOK, Verdicts
<1>4. manifest' \in [Slots -> SUBSET Recipients] /\ latest' \in Slots \cup {None}
  BY <1>2 DEF Typed, TypeOK
<1>5. receipt' \in [Recipients -> Slots \cup {None, "new", "old"}]
  BY <1>2 DEF Typed, TypeOK
<1>6. /\ slot' \in [Slots -> {"absent", "cached", "reserved", "consumed", "abandoned"}]
      /\ \A t \in Slots : slot'[t] = "reserved" <=> job'[t].state # "none"
  BY <1>1, <1>2 DEF Typed, TypeOK
<1>7. events' \in 0..MaxEvents
  BY <1>2, EventTypes DEF Typed, TypeOK
<1>8. QED
  BY <1>2, <1>3, <1>4, <1>5, <1>6, <1>7 DEF Typed, TypeOK

(* The steps of the server, the operating system and the members, the first *)
(* halves of the sweeps, and faults.                                        *)
LEMMA OutsideTyped ==
  ASSUME Typed,
         \/ FindFormer \/ AskSlots \/ GiveUp \/ Stop
         \/ \E s \in Slots : Transfer(s) \/ Mishap(s)
         \/ \E r \in Recipients : Response(r) \/ Request(r) \/ Leave(r)
  PROVE  Typed'
<1>1. CASE FindFormer
  BY <1>1 DEF FindFormer, Typed, TypeOK, database, outside
<1>2. CASE AskSlots
  BY <1>2 DEF AskSlots, Known, Typed, TypeOK, database, outside
<1>3. CASE GiveUp \/ Stop
  <2>1. /\ work' = Idle /\ events' \in 0..MaxEvents
        /\ UNCHANGED <<database, manifest, transfers, attachment, sentTo, latest>>
    BY <1>3, EventTypes DEF GiveUp, Stop, Interrupted, Typed
  <2>2. cutShort' \in BOOLEAN /\ found' \in BOOLEAN /\ known' \in {None} \cup SUBSET Slots
    BY <1>3 DEF GiveUp, Stop, Interrupted, Typed, TypeOK
  <2>3. QED
    BY <2>1, <2>2, IdleTypes DEF Typed, TypeOK, database
<1>4. ASSUME NEW s \in Slots, Transfer(s) PROVE Typed'
  <2>1. /\ attachment' \in [Slots -> Verdicts] /\ sentTo' \subseteq Recipients
        /\ transfers' \subseteq Slots
    BY <1>4 DEF Transfer, Typed, TypeOK, Verdicts
  <2>2. QED
    BY <1>4, <2>1 DEF Transfer, Typed, TypeOK, database, tasks
<1>5. ASSUME NEW s \in Slots, Mishap(s) PROVE Typed'
  <2>1. /\ attachment' \in [Slots -> Verdicts] /\ transfers' \subseteq Slots
        /\ events' \in 0..MaxEvents
    BY <1>5, EventTypes DEF Mishap, Typed, TypeOK, Verdicts
  <2>2. QED
    BY <1>5, <2>1 DEF Mishap, Typed, TypeOK, database, tasks
<1>6. ASSUME NEW r \in Recipients, Response(r) PROVE Typed'
  <2>1. /\ state' \in States
        /\ receipt' \in [Recipients -> Slots \cup {None, "new", "old"}]
    BY <1>6, DropTypes DEF Response, Uploaded, States, Typed, TypeOK
  <2>2. QED
    BY <1>6, <2>1 DEF Response, Typed, TypeOK, outside, tasks
<1>7. ASSUME NEW r \in Recipients, Request(r) \/ Leave(r) PROVE Typed'
  BY <1>7, EventTypes DEF Request, Leave, States, Typed, TypeOK, outside, tasks
<1>8. QED
  BY <1>1, <1>2, <1>3, <1>4, <1>5, <1>6, <1>7

LEMMA NextTyped == Typed /\ [Next]_vars => Typed'
<1> SUFFICES ASSUME Typed, [Next]_vars PROVE Typed'
  OBVIOUS
<1>1. CASE BeginUpload
  BY <1>1, StateTyped
<1>2. CASE Preparation
  BY <1>2, WalkTyped, StateTyped, SealTyped, PersistTyped, ScheduleTyped DEF Preparation
<1>3. CASE Cancellation
  BY <1>3, CancelTyped DEF Cancellation
<1>4. CASE FindFormer \/ GiveUp \/ Stop \/ Peers
  BY <1>4, OutsideTyped DEF Peers
<1>5. CASE BeginCancel
  BY <1>5, WalkTyped
<1>6. CASE Preload
  BY <1>6, AnswerTyped, OutsideTyped DEF Preload
<1>7. ASSUME NEW s \in Slots, ResumePrepared(s) \/ Settle(s) \/ Transfer(s) \/ Mishap(s)
      PROVE  Typed'
  BY <1>7, WalkTyped, SettleTyped, OutsideTyped
<1>8. CASE UNCHANGED vars
  BY <1>8 DEF vars, database, outside, tasks, Typed, TypeOK
<1>9. QED
  BY <1>1, <1>2, <1>3, <1>4, <1>5, <1>6, <1>7, <1>8 DEF Next, Locked

LEMMA AlwaysTyped == Spec => []Typed
<1>1. QED
  BY InitTyped, NextTyped, PTL DEF Spec

(* Every variable keeps its type, and a slot is reserved exactly as long as *)
(* it has a job.                                                            *)
THEOREM TypesHold == Spec => []TypeOK
<1>1. Typed => TypeOK
  BY DEF Typed
<1>2. QED
  BY <1>1, AlwaysTyped, PTL

-----------------------------------------------------------------------------
(* Who has been sent the file.  Whatever is on its way, or about to be, is  *)
(* for every member the server has not dispatched to before; so that the    *)
(* first dispatch is a dispatch to all of them.                             *)
Covered(S) == Members \subseteq S \cup sentTo
Sealed == {r \in work.draft : receipt[r] = "new"}

Asked == requests # {} => Members \subseteq sentTo
AllAtOnce == sentTo # {} => Members \subseteq sentTo
OnTheWay == \A s \in Slots : s \in transfers \/ HasJob(s) => Covered(manifest[s])
Ready == \A s \in Slots : attachment[s] = "ready" => Members \subseteq sentTo
Preparing == /\ work.at = "seal" => Covered(work.draft)
             /\ work.at = "persist" => Covered(Sealed)
             /\ work.at = "schedule" => Covered(manifest[work.slot])

Dispatching == /\ Asked /\ AllAtOnce /\ OnTheWay /\ Ready /\ Preparing
               /\ UploadedMeansDispatched

LEMMA InitDispatching == Init => Dispatching
  BY DEF Init, Dispatching, Asked, AllAtOnce, OnTheWay, Ready, Preparing, HasJob, NoJob, Idle,
         UploadedMeansDispatched

(* The server never takes a dispatch back, and nobody joins.                *)
LEMMA Monotone == Typed /\ [Next]_vars => sentTo \subseteq sentTo' /\ Members' \subseteq Members
<1> SUFFICES ASSUME Typed, [Next]_vars PROVE sentTo \subseteq sentTo' /\ Members' \subseteq Members
  OBVIOUS
<1> USE DEF Members, database, outside, tasks
<1>1. CASE UNCHANGED <<failed, gone, sentTo>>
  BY <1>1
<1>2. CASE Seal
  BY <1>2 DEF Seal
<1>3. ASSUME NEW s \in Slots, Settle(s) \/ Transfer(s)
      PROVE  sentTo \subseteq sentTo' /\ Members' \subseteq Members
  BY <1>3 DEF Settle, SettleReady, SettleRejected, SettleRetry, Recover, Reprepare,
              SettleFailed, Transfer
<1>4. ASSUME NEW r \in Recipients, Leave(r)
      PROVE  sentTo \subseteq sentTo' /\ Members' \subseteq Members
  BY <1>4 DEF Leave
<1>5. CASE \/ BeginUpload \/ NothingToRestart \/ Reuse \/ Scope \/ Release \/ Persist
           \/ TooLarge \/ NoSlot \/ Schedule \/ MarkScheduled \/ MarkStarted
  BY <1>1, <1>5 DEF BeginUpload, NothingToRestart, Reuse, Scope, Release, Persist, TooLarge,
                    NoSlot, Schedule, MarkScheduled, MarkStarted, OnlyWork
<1>6. CASE Cancellation \/ FindFormer \/ BeginCancel \/ Preload \/ GiveUp \/ Stop
  BY <1>1, <1>6 DEF Cancellation, Confirm, FinishChange, Abandon, FindFormer, BeginCancel,
                    Preload, AskSlots, AnswerSlots, GiveUp, Stop, Interrupted
<1>7. ASSUME NEW s \in Slots, ResumePrepared(s) \/ Mishap(s)
      PROVE  UNCHANGED <<failed, gone, sentTo>>
  BY <1>7 DEF ResumePrepared, Mishap, OnlyWork
<1>8. ASSUME NEW r \in Recipients, Response(r) \/ Request(r)
      PROVE  UNCHANGED <<failed, gone, sentTo>>
  BY <1>8 DEF Response, Request
<1>9. CASE UNCHANGED vars
  BY <1>1, <1>9 DEF vars
<1>10. QED
  BY <1>1, <1>2, <1>3, <1>4, <1>5, <1>6, <1>7, <1>8, <1>9
     DEF Next, Locked, Preparation, Peers

(* A step that leaves the uploads alone keeps what is true of them. *)
LEMMA UploadsStay ==
  ASSUME Dispatching, sentTo \subseteq sentTo', Members' \subseteq Members
  PROVE  /\ requests' \subseteq requests => Asked'
         /\ sentTo' = sentTo => AllAtOnce'
         /\ ( /\ transfers' \subseteq transfers /\ UNCHANGED manifest
              /\ \A s \in Slots : HasJob(s)' => HasJob(s) ) => OnTheWay'
         /\ (\A s \in Slots : attachment'[s] = "ready" => attachment[s] = "ready") => Ready'
         /\ state' \in {state} \cup (States \ {"uploaded"}) => UploadedMeansDispatched'
         /\ UNCHANGED <<work, manifest, receipt>> => Preparing'
         /\ work'.at \notin {"seal", "persist", "schedule"} => Preparing'
<1> USE DEF Dispatching
<1>1. requests' \subseteq requests => Asked'
  BY DEF Asked
<1>2. sentTo' = sentTo => AllAtOnce'
  BY DEF AllAtOnce
<1>3. ( /\ transfers' \subseteq transfers /\ UNCHANGED manifest
        /\ \A s \in Slots : HasJob(s)' => HasJob(s) ) => OnTheWay'
  BY DEF OnTheWay, Covered
<1>4. (\A s \in Slots : attachment'[s] = "ready" => attachment[s] = "ready") => Ready'
  BY DEF Ready
<1>5. state' \in {state} \cup (States \ {"uploaded"}) => UploadedMeansDispatched'
  BY DEF UploadedMeansDispatched
<1>6. UNCHANGED <<work, manifest, receipt>> => Preparing'
  BY DEF Preparing, Covered, Sealed
<1>7. work'.at \notin {"seal", "persist", "schedule"} => Preparing'
  BY DEF Preparing
<1>8. QED
  BY <1>1, <1>2, <1>3, <1>4, <1>5, <1>6, <1>7

(* Every dispatch so far was to all who are members now, or none was. *)
LEMMA PreparationDispatching ==
  ASSUME Typed, Dispatching, Preparation,
         sentTo \subseteq sentTo', Members' \subseteq Members
  PROVE  Dispatching'
<1> USE DEF Dispatching
<1>1. UNCHANGED <<attachment, sentTo>> /\ requests' \subseteq requests
  BY DEF Preparation, NothingToRestart, Reuse, Scope, Seal, Release, Persist, TooLarge, NoSlot,
         Schedule, MarkScheduled, MarkStarted, OnlyWork, database, outside
<1>2. Asked' /\ AllAtOnce' /\ Ready'
  BY <1>1, UploadsStay
<1>3. UploadedMeansDispatched'
  <2>1. state' \in {state, "storedOnly", "fileLimitReached", "backgroundUploadTaskStarted"}
    BY DEF Preparation, NothingToRestart, Reuse, Scope, Seal, Release, Persist, TooLarge, NoSlot,
           Schedule, MarkScheduled, MarkStarted, OnlyWork, database
  <2>2. QED
    BY <2>1, UploadsStay DEF States
<1>4. OnTheWay' /\ Preparing'
  <2>1. CASE NothingToRestart \/ NoSlot \/ Release \/ TooLarge \/ MarkStarted
    BY <2>1, UploadsStay DEF NothingToRestart, NoSlot, Release, TooLarge, MarkStarted, OnlyWork,
                             Idle, HasJob, database, outside
  <2>2. CASE Reuse
    <3>1. UNCHANGED <<database, outside>>
      BY <2>2 DEF Reuse, OnlyWork
    <3>2. OnTheWay'
      BY <3>1, UploadsStay DEF HasJob, database, outside
    <3>3. PICK s \in Reusable : work' = [work EXCEPT !.slot = s,
                 !.at = IF job[s].state = "prepared" THEN "schedule" ELSE "mark"]
      BY <2>2 DEF Reuse
    <3>4. s \in Slots /\ Covered(manifest[s])
      BY <3>3 DEF Reusable, OnTheWay
    <3>5. work'.slot = s /\ work'.at \in {"schedule", "mark"}
      BY <3>3 DEF Typed, TypeOK, Tasks
    <3>6. QED
      BY <3>1, <3>2, <3>4, <3>5 DEF Preparing, Covered, Members, database, outside
  <2>3. CASE Scope
    <3>1. UNCHANGED <<database, outside>>
      BY <2>3 DEF Scope, OnlyWork
    <3>2. OnTheWay'
      BY <3>1, UploadsStay DEF HasJob, database, outside
    <3>3. /\ work'.at = "seal"
          /\ work'.draft = IF requests = {} THEN Members ELSE Members \cap requests
      BY <2>3 DEF Scope, Typed, TypeOK, Tasks
    <3>4. Covered(work'.draft)
      BY <3>3 DEF Covered, Asked
    <3>5. QED
      BY <3>1, <3>2, <3>3, <3>4 DEF Preparing, Covered, Members, database, outside
  <2>4. CASE Seal
    <3>1. PICK keyless \in {{}} \cup {{r} : r \in work.draft} :
            /\ failed' = failed \cup keyless
            /\ receipt' = [r \in Recipients |->
                  IF r \in keyless THEN None ELSE IF r \in work.draft THEN "new" ELSE receipt[r]]
            /\ work' = [work EXCEPT !.draft = work.draft \ keyless,
                                    !.at = IF work.draft \subseteq keyless THEN "release"
                                                                            ELSE "persist"]
      BY <2>4 DEF Seal
    <3>2. OnTheWay'
      BY <2>4, UploadsStay DEF Seal, HasJob, outside
    <3>3. /\ work'.at \in {"release", "persist"} /\ work'.draft = work.draft \ keyless
          /\ work.draft \subseteq Recipients
      BY <3>1 DEF Typed, TypeOK, Tasks
    <3>4. Sealed' = work'.draft
      BY <3>1, <3>3 DEF Sealed
    <3>5. Members' \subseteq Members \ keyless /\ Covered(work.draft) /\ sentTo' = sentTo
      BY <1>1, <2>4, <3>1 DEF Members, Preparing, Seal
    <3>6. QED
      BY <3>2, <3>3, <3>4, <3>5 DEF Preparing, Covered
  <2>5. CASE Persist
    <3> DEFINE kept == {r \in work.draft \ gone : receipt[r] = "new"}
    <3>1. Covered(kept) /\ UNCHANGED <<transfers, gone, failed, sentTo>>
      BY <2>5 DEF Persist, Preparing, Covered, Sealed, Members
    <3>2. PICK s \in Slots :
              IF kept = {}
                 THEN Go("release") /\ UNCHANGED <<slot, job, manifest, latest, receipt>>
                 ELSE /\ job' = [job EXCEPT ![s] =
                                    [state |-> "prepared", requests |-> requests]]
                      /\ manifest' = [manifest EXCEPT ![s] = kept]
                      /\ work' = [work EXCEPT !.at = "schedule", !.slot = s]
      BY <2>5 DEF Persist
    <3>3. CASE kept = {}
      <4>1. work'.at = "release"
        BY <3>2, <3>3 DEF Go, Typed, TypeOK, Tasks
      <4>2. QED
        BY <3>1, <3>2, <3>3, <4>1, UploadsStay DEF HasJob
    <3>4. CASE kept # {}
      <4>1. work'.at = "schedule" /\ work'.slot = s
        BY <3>2, <3>4 DEF Typed, TypeOK, Tasks
      <4>2. /\ manifest'[s] = kept
            /\ \A t \in Slots \ {s} : manifest'[t] = manifest[t] /\ job'[t] = job[t]
        BY <3>2, <3>4 DEF Typed, TypeOK
      <4>3. \A S : Covered(S)' <=> Covered(S)
        BY <3>1 DEF Covered, Members
      <4>4. QED
        BY <3>1, <4>1, <4>2, <4>3 DEF OnTheWay, Preparing, HasJob, Covered
    <3>5. QED
      BY <3>3, <3>4
  <2>6. CASE Schedule
    <3>1. /\ transfers' = transfers \cup {work.slot} /\ work'.at = "scheduled"
          /\ UNCHANGED <<database, manifest, sentTo>>
      BY <2>6 DEF Schedule, Go, Typed, TypeOK, Tasks
    <3>2. Covered(manifest[work.slot])
      BY <2>6 DEF Schedule, Preparing
    <3>3. QED
      BY <3>1, <3>2 DEF OnTheWay, Preparing, Covered, HasJob, Members, database
  <2>7. CASE MarkScheduled
    <3>1. work'.at \in {"idle", "mark"}
      BY <2>7 DEF MarkScheduled, Go, Idle, Typed, TypeOK, Tasks
    <3>2. \A s \in Slots : HasJob(s)' => HasJob(s)
      BY <2>7 DEF MarkScheduled, HasJob, Typed, TypeOK, Jobs
    <3>3. QED
      BY <2>7, <3>1, <3>2, UploadsStay DEF MarkScheduled, outside
  <2>8. QED
    BY <2>1, <2>2, <2>3, <2>4, <2>5, <2>6, <2>7 DEF Preparation
<1>5. QED
  BY <1>2, <1>3, <1>4

LEMMA SweepDispatching ==
  ASSUME Typed, Dispatching, sentTo \subseteq sentTo', Members' \subseteq Members,
         \/ BeginUpload \/ BeginCancel \/ FindFormer \/ AskSlots \/ GiveUp \/ Stop
         \/ \E s \in Slots : ResumePrepared(s) \/ Abandon(s) \/ Mishap(s)
         \/ Confirm \/ FinishChange
  PROVE  Dispatching'
<1> USE DEF Dispatching
<1>1. CASE BeginUpload \/ BeginCancel \/ GiveUp \/ Stop
  <2>1. UNCHANGED <<manifest, transfers, attachment, sentTo, requests, job>>
    BY <1>1 DEF BeginUpload, BeginCancel, GiveUp, Stop, Interrupted, database, outside
  <2>2. state' \in {state, "preprocessing"}
    BY <1>1 DEF BeginUpload, BeginCancel, GiveUp, Stop, Interrupted, database
  <2>3. work'.at \in {"load", "cancel", "idle"}
    <3>1. Idle \in Tasks /\ Idle.at = "idle"
      BY IdleTypes
    <3>2. QED
      BY <1>1, <3>1 DEF BeginUpload, BeginCancel, GiveUp, Stop, Interrupted, Tasks
  <2>4. QED
    BY <2>1, <2>2, <2>3, UploadsStay DEF HasJob, States
<1>2. CASE FindFormer \/ AskSlots
  BY <1>2, UploadsStay DEF FindFormer, AskSlots, HasJob, database, outside
<1>3. ASSUME NEW s \in Slots, ResumePrepared(s) PROVE Dispatching'
  <2>1. UNCHANGED <<database, outside>> /\ work'.at = "schedule" /\ work'.slot = s
    BY <1>3 DEF ResumePrepared, OnlyWork, Idle
  <2>2. Covered(manifest[s])
    BY <1>3 DEF ResumePrepared, OnTheWay, HasJob
  <2>3. Preparing'
    BY <2>1, <2>2 DEF Preparing, Covered, Members, database, outside
  <2>4. QED
    BY <2>1, <2>3, UploadsStay DEF HasJob, database, outside
<1>4. ASSUME NEW s \in Slots, Abandon(s) PROVE Dispatching'
  <2>1. work'.at = "confirm" /\ UNCHANGED <<database, manifest, transfers, sentTo>>
    BY <1>4 DEF Abandon, Typed, TypeOK, Tasks
  <2>2. \A t \in Slots : attachment'[t] = "ready" => attachment[t] = "ready"
    BY <1>4 DEF Abandon, Typed, TypeOK
  <2>3. QED
    BY <2>1, <2>2, UploadsStay DEF HasJob, database
<1>5. ASSUME NEW s \in Slots, Mishap(s) PROVE Dispatching'
  <2>1. transfers' \subseteq transfers /\ UNCHANGED <<database, manifest, sentTo, work>>
    BY <1>5 DEF Mishap, tasks
  <2>2. \A t \in Slots : attachment'[t] = "ready" => attachment[t] = "ready"
    BY <1>5 DEF Mishap, Typed, TypeOK
  <2>3. QED
    BY <2>1, <2>2, UploadsStay DEF HasJob, database
<1>6. CASE Confirm
  <2>1. work'.at = "cancel" /\ UNCHANGED <<outside, requests, failed, gone>>
    BY <1>6 DEF Confirm, Typed, TypeOK, Tasks
  <2>2. work.slot \in Slots
    BY <1>6 DEF Confirm, Typed
  <2>3. \A s \in Slots : HasJob(s)' => HasJob(s)
    BY <1>6, <2>2 DEF Confirm, Retire, HasJob, NoJob, Typed, TypeOK
  <2>4. UploadedMeansDispatched'
    BY <1>6, <2>1, <2>2 DEF Confirm, Ready, UploadedMeansDispatched, Members, outside
  <2>5. QED
    BY <2>1, <2>3, <2>4, UploadsStay DEF outside
<1>7. CASE FinishChange
  <2>1. /\ work'.at \in {"restart", "idle"} /\ UNCHANGED <<outside, requests, job>>
        /\ state' \in {state} \cup (States \ {"uploaded"})
    BY <1>7 DEF FinishChange, Go, Idle, States, Typed, TypeOK, Tasks
  <2>2. QED
    BY <2>1, UploadsStay DEF HasJob, outside
<1>8. QED
  BY <1>1, <1>2, <1>3, <1>4, <1>5, <1>6, <1>7

LEMMA SettleDispatching ==
  ASSUME Typed, Dispatching, sentTo \subseteq sentTo', Members' \subseteq Members,
         NEW s \in Slots, Settle(s)
  PROVE  Dispatching'
<1> USE DEF Dispatching
<1>1. /\ UNCHANGED <<manifest, attachment, sentTo>> /\ work' = work /\ work.at = "idle"
      /\ requests' \subseteq requests /\ HasJob(s)
  BY DEF Settle, SettleReady, SettleRejected, SettleRetry, Recover, Reprepare, SettleFailed, tasks
<1>2. transfers' \subseteq transfers \cup {s}
  BY DEF Settle, SettleReady, SettleRejected, SettleRetry, Recover, Reprepare, SettleFailed
<1>3. \A t \in Slots : HasJob(t)' => HasJob(t)
  BY DEF Settle, SettleReady, SettleRejected, SettleRetry, Recover, Reprepare, SettleFailed,
         Retire, HasJob, NoJob, Typed, TypeOK
<1>4. OnTheWay'
  BY <1>1, <1>2, <1>3 DEF OnTheWay, Covered
<1>5. UploadedMeansDispatched'
  <2>1. CASE SettleReady(s)
    BY <1>1, <2>1 DEF SettleReady, Ready, UploadedMeansDispatched
  <2>2. CASE ~SettleReady(s)
    <3>1. state' \in {state, "uploadLimitReached", "preprocessing", "preparationFailed"}
      BY <2>2 DEF Settle, SettleRejected, SettleRetry, Recover, Reprepare, SettleFailed, Again
    <3>2. QED
      BY <3>1, UploadsStay DEF States
  <2>3. QED
    BY <2>1, <2>2
<1>6. QED
  BY <1>1, <1>4, <1>5, UploadsStay

LEMMA AnswerDispatching ==
  ASSUME Typed, Dispatching, sentTo \subseteq sentTo', Members' \subseteq Members, AnswerSlots
  PROVE  Dispatching'
<1> USE DEF Dispatching
<1> DEFINE kept == {s \in known : attachment[s] = "reserved"}
           new == Issued(kept)
<1>1. /\ manifest' = [s \in Slots |-> IF s \in new THEN {} ELSE manifest[s]]
      /\ receipt' = [r \in Recipients |-> IF receipt[r] \in new THEN "old" ELSE receipt[r]]
      /\ attachment' = [s \in Slots |->
            IF s \in new THEN "reserved"
            ELSE IF attachment[s] = "reserved" /\ s \notin kept THEN "abandoned"
            ELSE attachment[s]]
      /\ UNCHANGED <<state, requests, failed, gone, job, transfers, sentTo, work>>
  BY DEF AnswerSlots
<1>2. new \subseteq Slots /\ \A s \in new : s \notin transfers /\ ~HasJob(s) /\ s # work.slot
  BY IssuedAreFree DEF Free
<1>3. \A s \in Slots : attachment'[s] = "ready" => attachment[s] = "ready"
  BY <1>1
<1>4. OnTheWay'
  BY <1>1, <1>2 DEF OnTheWay, Covered, HasJob, Members
<1>5. Preparing'
  <2>1. work.at = "schedule" => manifest'[work.slot] = manifest[work.slot]
    BY <1>1, <1>2 DEF Typed, TypeOK
  <2>2. \A r \in Recipients : receipt[r] = "new" => receipt'[r] = "new"
    BY <1>1, <1>2, MediaAssumption
  <2>3. Sealed \subseteq Sealed'
    BY <1>1, <2>2 DEF Sealed, Typed, TypeOK, Tasks
  <2>4. QED
    BY <1>1, <2>1, <2>3 DEF Preparing, Covered, Members
<1>6. QED
  BY <1>1, <1>3, <1>4, <1>5, UploadsStay

LEMMA OutsideDispatching ==
  ASSUME Typed, Dispatching, sentTo \subseteq sentTo', Members' \subseteq Members,
         (\E s \in Slots : Transfer(s)) \/ Peers
  PROVE  Dispatching'
<1> USE DEF Dispatching
<1>1. ASSUME NEW s \in Slots, Transfer(s) PROVE Dispatching'
  <2>1. /\ transfers' \subseteq transfers /\ s \in transfers
        /\ UNCHANGED <<database, manifest, work>>
    BY <1>1 DEF Transfer, tasks
  <2>2. OnTheWay' /\ UploadedMeansDispatched' /\ Asked'
    BY <2>1, UploadsStay DEF HasJob, database
  <2>3. CASE UNCHANGED <<attachment, sentTo>>
    BY <2>1, <2>2, <2>3, UploadsStay DEF database
  <2>4. CASE /\ attachment' = [attachment EXCEPT ![s] = "ready"]
             /\ sentTo' = sentTo \cup manifest[s]
    <3>1. Members' \subseteq sentTo'
      BY <2>1, <2>4 DEF OnTheWay, Covered
    <3>2. Preparing'
      BY <2>1, <3>1 DEF Preparing, Covered
    <3>3. QED
      BY <2>2, <3>1, <3>2 DEF AllAtOnce, Ready
  <2>5. QED
    BY <1>1, <2>3, <2>4 DEF Transfer
<1>2. ASSUME NEW r \in Recipients, Response(r) PROVE Dispatching'
  <2>1. /\ r \in sentTo
        /\ UNCHANGED <<requests, failed, gone, slot, job, outside, tasks>>
    BY <1>2 DEF Response
  <2>2. Members \subseteq sentTo
    BY <2>1 DEF AllAtOnce
  <2>3. UploadedMeansDispatched' /\ Preparing'
    BY <2>1, <2>2 DEF UploadedMeansDispatched, Preparing, Covered, Members, outside, tasks
  <2>4. QED
    BY <2>1, <2>3, UploadsStay DEF HasJob, outside
<1>3. ASSUME NEW r \in Recipients, Request(r) PROVE Dispatching'
  <2>1. /\ r \in sentTo /\ state' = "preprocessing"
        /\ UNCHANGED <<failed, receipt, gone, slot, job, outside, tasks>>
    BY <1>3 DEF Request
  <2>2. Members \subseteq sentTo
    BY <2>1 DEF AllAtOnce
  <2>3. Asked' /\ UploadedMeansDispatched'
    BY <2>1, <2>2 DEF Asked, UploadedMeansDispatched, Members, outside
  <2>4. QED
    BY <2>1, <2>3, UploadsStay DEF HasJob, outside, tasks
<1>4. ASSUME NEW r \in Recipients, Leave(r) PROVE Dispatching'
  <2>1. UNCHANGED <<state, requests, failed, receipt, slot, job, outside, tasks>>
    BY <1>4 DEF Leave
  <2>2. QED
    BY <2>1, UploadsStay DEF HasJob, outside, tasks
<1>5. QED
  BY <1>1, <1>2, <1>3, <1>4 DEF Peers

LEMMA NextDispatching == Typed /\ Dispatching /\ [Next]_vars => Dispatching'
<1> SUFFICES ASSUME Typed, Dispatching, [Next]_vars PROVE Dispatching'
  OBVIOUS
<1>1. sentTo \subseteq sentTo' /\ Members' \subseteq Members
  BY Monotone
<1>2. CASE Preparation
  BY <1>1, <1>2, PreparationDispatching
<1>3. CASE BeginUpload \/ BeginCancel \/ FindFormer \/ AskSlots \/ GiveUp \/ Stop \/ Cancellation
  BY <1>1, <1>3, SweepDispatching DEF Cancellation
<1>4. CASE AnswerSlots
  BY <1>1, <1>4, AnswerDispatching
<1>5. ASSUME NEW s \in Slots, ResumePrepared(s) \/ Settle(s) \/ Transfer(s) \/ Mishap(s)
      PROVE  Dispatching'
  BY <1>1, <1>5, SweepDispatching, SettleDispatching, OutsideDispatching
<1>6. CASE Peers
  BY <1>1, <1>6, OutsideDispatching
<1>7. CASE UNCHANGED vars
  BY <1>1, <1>7, UploadsStay DEF Dispatching, vars, database, outside, tasks, HasJob
<1>8. QED
  BY <1>2, <1>3, <1>4, <1>5, <1>6, <1>7 DEF Next, Locked, Preload

(* A message is shown as sent to its members only after the server has      *)
(* dispatched it to each of them.                                           *)
THEOREM ShownAsSentIsSent == Spec => []UploadedMeansDispatched
<1>1. Dispatching => UploadedMeansDispatched
  BY DEF Dispatching
<1>2. Typed /\ Dispatching /\ [Next]_vars => Typed' /\ Dispatching'
  BY NextTyped, NextDispatching
<1>3. Init => Typed /\ Dispatching
  BY InitTyped, InitDispatching
<1>4. QED
  BY <1>1, <1>2, <1>3, PTL DEF Spec

-----------------------------------------------------------------------------
(* Whom an upload is for.  The receipt of a recipient stays with the upload *)
(* prepared last until the server has dispatched it; or it is the one of an *)
(* upload being prepared, which asks for the former members again.          *)
Receipts == latest # None /\ attachment[latest] = "reserved" =>
                /\ HasJob(latest)
                /\ \A r \in manifest[latest] \ failed : receipt[r] \in {latest, "new"}
Withdrawn == work.at = "confirm" => attachment[work.slot] # "reserved"
Findable == Receipts /\ Withdrawn

LEMMA InitFindable == Init => Findable
  BY DEF Init, Findable, Receipts, Withdrawn, Idle

(* Who is told of the upload prepared last is told of it until it ends.     *)
LEMMA ReceiptsStay ==
  ASSUME Typed, Findable,
         UNCHANGED <<manifest, latest>>, failed \subseteq failed',
         \A s \in Slots : attachment'[s] = "reserved" =>
                             attachment[s] = "reserved" /\ (HasJob(s) => HasJob(s)'),
         \A r \in Recipients \ failed' :
            \/ receipt'[r] \in {receipt[r], "new"}
            \/ receipt[r] # "new" /\ \A s \in Slots : receipt[r] = s => attachment'[s] # "reserved"
  PROVE  Receipts'
<1> SUFFICES ASSUME latest # None, attachment'[latest] = "reserved"
             PROVE  /\ HasJob(latest)'
                    /\ \A r \in manifest[latest] \ failed' : receipt'[r] \in {latest, "new"}
  BY DEF Receipts
<1>1. /\ latest \in Slots /\ manifest[latest] \subseteq Recipients
      /\ attachment[latest] = "reserved"
  BY DEF Typed, TypeOK
<1>2. HasJob(latest)'
  BY <1>1 DEF Findable, Receipts
<1>3. ASSUME NEW r \in manifest[latest] \ failed'
      PROVE  receipt'[r] \in {latest, "new"}
  BY <1>1, <1>3 DEF Findable, Receipts
<1>4. QED
  BY <1>2, <1>3

LEMMA PreparationFindable ==
  ASSUME Typed, Findable, Preparation
  PROVE  Findable'
<1>1. /\ UNCHANGED attachment /\ failed \subseteq failed'
      /\ work'.at # "confirm"
  <2>1. work \in Tasks /\ Idle.at = "idle"
    BY IdleTypes DEF Typed, TypeOK
  <2>2. UNCHANGED attachment /\ failed \subseteq failed'
    BY DEF Preparation, NothingToRestart, Reuse, Scope, Seal, Release, Persist, TooLarge, NoSlot,
           Schedule, MarkScheduled, MarkStarted, OnlyWork, database, outside
  <2>3. work'.at # "confirm"
    <3>1. CASE Seal \/ Persist \/ Reuse
      BY <2>1, <3>1 DEF Seal, Persist, Reuse, Go, Tasks
    <3>2. CASE NothingToRestart \/ Scope \/ Release \/ TooLarge \/ NoSlot \/ MarkStarted
      BY <2>1, <3>2 DEF NothingToRestart, Scope, Release, TooLarge, NoSlot, MarkStarted, Tasks
    <3>3. CASE Schedule \/ MarkScheduled
      BY <2>1, <3>3 DEF Schedule, MarkScheduled, Go, Tasks
    <3>4. QED
      BY <3>1, <3>2, <3>3 DEF Preparation
  <2>4. QED
    BY <2>2, <2>3
<1>2. Withdrawn'
  BY <1>1 DEF Withdrawn
<1>3. CASE \/ NothingToRestart \/ Reuse \/ Scope \/ Release \/ TooLarge \/ NoSlot \/ Schedule
           \/ MarkStarted
  <2>1. UNCHANGED <<manifest, latest, attachment, failed, receipt, job>>
    BY <1>3 DEF NothingToRestart, Reuse, Scope, Release, TooLarge, NoSlot, Schedule, MarkStarted,
                OnlyWork, database, outside
  <2>2. QED
    BY <1>2, <2>1 DEF Findable, Receipts, HasJob
<1>4. CASE Seal
  <2>1. PICK keyless :
          /\ failed' = failed \cup keyless
          /\ receipt' = [r \in Recipients |->
                IF r \in keyless THEN None ELSE IF r \in work.draft THEN "new" ELSE receipt[r]]
    BY <1>4 DEF Seal
  <2>2. \A r \in Recipients \ failed' : receipt'[r] \in {receipt[r], "new"}
    BY <2>1
  <2>3. Receipts'
    BY <1>1, <1>4, <2>2, ReceiptsStay DEF Seal, HasJob, outside
  <2>4. QED
    BY <1>2, <2>3 DEF Findable
<1>5. CASE Persist
  <2> DEFINE kept == {r \in work.draft \ gone : receipt[r] = "new"}
  <2>1. PICK s \in Slots :
            IF kept = {}
               THEN UNCHANGED <<slot, job, manifest, latest, receipt>>
               ELSE /\ job' = [job EXCEPT ![s] =
                                  [state |-> "prepared", requests |-> requests]]
                    /\ manifest' = [manifest EXCEPT ![s] = kept]
                    /\ latest' = s
                    /\ receipt' = [r \in Recipients |->
                          IF r \in gone THEN None ELSE IF r \in kept THEN s ELSE receipt[r]]
    BY <1>5 DEF Persist
  <2>2. CASE kept = {}
    BY <1>2, <1>5, <2>1, <2>2 DEF Persist, Findable, Receipts, HasJob
  <2>3. CASE kept # {}
    <3>1. manifest'[s] = kept /\ job'[s].state = "prepared"
      BY <2>1, <2>3 DEF Typed, TypeOK
    <3>2. kept \subseteq Recipients
      BY DEF Typed, TypeOK, Tasks
    <3>3. \A r \in kept : receipt'[r] = s
      BY <2>1, <2>3, <3>2
    <3>4. Receipts'
      BY <2>1, <2>3, <3>1, <3>3 DEF Receipts, HasJob
    <3>5. QED
      BY <1>2, <3>4 DEF Findable
  <2>4. QED
    BY <2>2, <2>3
<1>6. CASE MarkScheduled
  <2>1. \A s \in Slots : HasJob(s) => HasJob(s)'
    BY <1>6 DEF MarkScheduled, HasJob, Typed, TypeOK, Jobs
  <2>2. Receipts'
    BY <1>6, <2>1, ReceiptsStay DEF MarkScheduled, outside
  <2>3. QED
    BY <1>2, <2>2 DEF Findable
<1>7. QED
  BY <1>3, <1>4, <1>5, <1>6 DEF Preparation

LEMMA CancellationFindable ==
  ASSUME Typed, Findable, Cancellation
  PROVE  Findable'
<1>1. CASE Confirm
  <2>1. /\ work.slot \in Slots /\ attachment[work.slot] # "reserved"
        /\ work'.at = "cancel" /\ UNCHANGED <<failed, receipt, outside>>
    BY <1>1 DEF Confirm, Typed, TypeOK, Tasks, Findable, Withdrawn
  <2>2. \A s \in Slots \ {work.slot} : job'[s] = job[s]
    BY <1>1 DEF Confirm, Retire, Typed, TypeOK
  <2>3. Receipts'
    BY <2>1, <2>2, ReceiptsStay DEF HasJob, outside
  <2>4. QED
    BY <2>1, <2>3 DEF Findable, Withdrawn
<1>2. CASE FinishChange
  <2>1. /\ \A s \in Slots : ~HasJob(s)
        /\ UNCHANGED outside /\ work'.at # "confirm"
    BY <1>2 DEF FinishChange, Go, Idle, Typed, TypeOK, Tasks
  <2>2. latest # None => attachment[latest] # "reserved"
    BY <2>1 DEF Findable, Receipts, Typed, TypeOK
  <2>3. QED
    BY <2>1, <2>2 DEF Findable, Receipts, Withdrawn, outside
<1>3. ASSUME NEW s \in Slots, Abandon(s) PROVE Findable'
  <2>1. /\ work'.at = "confirm" /\ work'.slot = s /\ attachment'[s] # "reserved"
        /\ \A t \in Slots : attachment'[t] = "reserved" => attachment[t] = "reserved"
        /\ UNCHANGED <<database, manifest, latest>>
    BY <1>3 DEF Abandon, Typed, TypeOK, Tasks
  <2>2. Receipts'
    BY <2>1, ReceiptsStay DEF HasJob, database
  <2>3. QED
    BY <2>1, <2>2 DEF Findable, Withdrawn
<1>4. QED
  BY <1>1, <1>2, <1>3 DEF Cancellation

LEMMA SettleFindable ==
  ASSUME Typed, Findable, NEW s \in Slots, Settle(s)
  PROVE  Findable'
<1>1. UNCHANGED <<manifest, attachment, latest, work>> /\ work.at = "idle"
  BY DEF Settle, tasks
<1>2. failed \subseteq failed'
  BY DEF Settle, SettleReady, SettleRejected, SettleRetry, Recover, Reprepare, SettleFailed
<1>3. CASE Recover(s)
  BY <1>1, <1>3 DEF Recover, Findable, Receipts, Withdrawn, HasJob
<1>4. CASE ~Recover(s)
  <2>1. attachment[s] # "reserved"
    BY <1>4 DEF Settle, SettleReady, SettleRejected, SettleRetry, Reprepare, SettleFailed
  <2>2. \A t \in Slots \ {s} : job'[t] = job[t]
    BY <1>4 DEF Settle, SettleReady, SettleRejected, SettleRetry, Reprepare, SettleFailed,
                Retire, Typed, TypeOK
  <2>3. \A r \in Recipients : receipt'[r] = receipt[r] \/ receipt[r] = s
    BY <1>4 DEF Settle, SettleReady, SettleRejected, SettleRetry, Reprepare, SettleFailed,
                DropReceipts
  <2>4. Receipts'
    BY <1>1, <1>2, <2>1, <2>2, <2>3, MediaAssumption, ReceiptsStay DEF HasJob
  <2>5. QED
    BY <1>1, <2>4 DEF Findable, Withdrawn
<1>5. QED
  BY <1>3, <1>4

LEMMA AnswerFindable ==
  ASSUME Typed, Findable, AnswerSlots
  PROVE  Findable'
<1> DEFINE kept == {s \in known : attachment[s] = "reserved"}
           new == Issued(kept)
<1>1. /\ manifest' = [s \in Slots |-> IF s \in new THEN {} ELSE manifest[s]]
      /\ latest' = IF latest \in new THEN None ELSE latest
      /\ receipt' = [r \in Recipients |-> IF receipt[r] \in new THEN "old" ELSE receipt[r]]
      /\ attachment' = [s \in Slots |->
            IF s \in new THEN "reserved"
            ELSE IF attachment[s] = "reserved" /\ s \notin kept THEN "abandoned"
            ELSE attachment[s]]
      /\ UNCHANGED <<failed, job, work>>
  BY DEF AnswerSlots
<1>2. new \subseteq Slots /\ \A s \in new : s # work.slot
  BY IssuedAreFree DEF Free
<1>3. Withdrawn'
  BY <1>1, <1>2 DEF Findable, Withdrawn, Typed
<1>4. Receipts'
  <2>1. SUFFICES ASSUME latest' # None, attachment'[latest'] = "reserved" PROVE Receipts'
    BY DEF Receipts
  <2>2. latest' = latest /\ latest \in Slots \ new /\ attachment[latest] = "reserved"
    BY <1>1, <2>1 DEF Typed, TypeOK
  <2>3. \A r \in manifest[latest] \ failed : receipt'[r] \in {latest, "new"}
    BY <1>1, <1>2, <2>1, <2>2, MediaAssumption DEF Findable, Receipts, Typed, TypeOK
  <2>4. QED
    BY <1>1, <2>2, <2>3 DEF Findable, Receipts, HasJob
<1>5. QED
  BY <1>3, <1>4 DEF Findable

LEMMA OutsideFindable ==
  ASSUME Typed, Findable,
         \/ BeginUpload \/ BeginCancel \/ FindFormer \/ AskSlots \/ GiveUp \/ Stop \/ Peers
         \/ \E s \in Slots : ResumePrepared(s) \/ Transfer(s) \/ Mishap(s)
  PROVE  Findable'
<1>1. CASE \/ BeginUpload \/ BeginCancel \/ FindFormer \/ AskSlots \/ GiveUp \/ Stop
           \/ \E s \in Slots : ResumePrepared(s)
  <2>1. UNCHANGED <<manifest, latest, attachment, failed, receipt, job>>
    BY <1>1 DEF BeginUpload, BeginCancel, FindFormer, AskSlots, GiveUp, Stop, Interrupted,
                ResumePrepared, OnlyWork, database, outside
  <2>2. work' = work \/ work'.at # "confirm"
    <3>1. Idle \in Tasks /\ Idle.at = "idle"
      BY IdleTypes
    <3>2. QED
      BY <1>1, <3>1 DEF BeginUpload, BeginCancel, FindFormer, AskSlots, GiveUp, Stop,
                        Interrupted, ResumePrepared, Tasks
  <2>3. QED
    BY <2>1, <2>2 DEF Findable, Receipts, Withdrawn, HasJob
<1>2. ASSUME NEW s \in Slots, Transfer(s) \/ Mishap(s) PROVE Findable'
  <2>1. UNCHANGED <<database, manifest, latest, tasks>>
    BY <1>2 DEF Transfer, Mishap
  <2>2. \A t \in Slots : attachment'[t] = "reserved" => attachment[t] = "reserved"
    BY <1>2 DEF Transfer, Mishap, Typed, TypeOK
  <2>3. Receipts'
    BY <2>1, <2>2, ReceiptsStay DEF HasJob, database
  <2>4. QED
    BY <2>1, <2>2, <2>3 DEF Findable, Withdrawn, Typed, tasks
<1>3. ASSUME NEW r \in Recipients, Response(r) PROVE Findable'
  <2>1. UNCHANGED <<failed, job, outside, tasks>>
    BY <1>3 DEF Response
  <2>2. \A q \in Recipients : \/ receipt'[q] = receipt[q]
                              \/ receipt[q] = "old"
                              \/ \E s \in Slots : receipt[q] = s /\ attachment[s] = "ready"
    BY <1>3 DEF Response, DropReceipts
  <2>3. Receipts'
    BY <2>1, <2>2, MediaAssumption, ReceiptsStay DEF HasJob, outside
  <2>4. QED
    BY <2>1, <2>3 DEF Findable, Withdrawn, outside, tasks
<1>4. ASSUME NEW r \in Recipients, Request(r) \/ Leave(r) PROVE Findable'
  BY <1>4 DEF Request, Leave, Findable, Receipts, Withdrawn, HasJob, outside, tasks
<1>5. QED
  BY <1>1, <1>2, <1>3, <1>4 DEF Peers

LEMMA NextFindable == Typed /\ Findable /\ [Next]_vars => Findable'
<1> SUFFICES ASSUME Typed, Findable, [Next]_vars PROVE Findable'
  OBVIOUS
<1>1. CASE Locked
  BY <1>1, PreparationFindable, CancellationFindable DEF Locked
<1>2. CASE AnswerSlots
  BY <1>2, AnswerFindable
<1>3. CASE BeginUpload \/ BeginCancel \/ FindFormer \/ AskSlots \/ GiveUp \/ Stop \/ Peers
  BY <1>3, OutsideFindable
<1>4. ASSUME NEW s \in Slots, ResumePrepared(s) \/ Settle(s) \/ Transfer(s) \/ Mishap(s)
      PROVE  Findable'
  BY <1>4, OutsideFindable, SettleFindable
<1>5. CASE UNCHANGED vars
  BY <1>5 DEF vars, database, outside, tasks, Findable, Receipts, Withdrawn, HasJob
<1>6. QED
  BY <1>1, <1>2, <1>3, <1>4, <1>5 DEF Next, Preload

(* A member who leaves while an upload is on its way is found by the receipt*)
(* of that upload until it is cancelled.                                    *)
THEOREM FormerMembersAreFound == Spec => []RemovalIsPending
<1>1. Typed /\ Findable => RemovalIsPending
  BY MediaAssumption DEF Typed, TypeOK, Findable, Receipts, RemovalIsPending
<1>2. Typed /\ Findable /\ [Next]_vars => Typed' /\ Findable'
  BY NextTyped, NextFindable
<1>3. Init => Typed /\ Findable
  BY InitTyped, InitFindable
<1>4. QED
  BY <1>1, <1>2, <1>3, PTL DEF Spec

-----------------------------------------------------------------------------
(* A list of slots that was sent to the server stays complete: a slot that  *)
(* is cached and alive at the server does not appear while it is under way. *)
Listed == known # None =>
    \A s \in Slots : /\ slot[s] \in {"cached", "reserved"}
                     /\ attachment[s] = "reserved"
                     => s \in known

LEMMA NextListed == Typed /\ Listed /\ [Next]_vars => Listed'
<1> SUFFICES ASSUME Typed, Listed, [Next]_vars PROVE Listed'
  OBVIOUS
<1> DEFINE Held(s) == slot[s] \in {"cached", "reserved"} /\ attachment[s] = "reserved"
<1>1. ASSUME UNCHANGED known, \A s \in Slots : Held(s)' => Held(s)
      PROVE  Listed'
  BY <1>1 DEF Listed
<1>2. CASE Preparation
  <2>1. UNCHANGED <<known, attachment>>
    BY <1>2 DEF Preparation, NothingToRestart, Reuse, Scope, Seal, Release, Persist, TooLarge,
                NoSlot, Schedule, MarkScheduled, MarkStarted, OnlyWork, database, outside
  <2>2. CASE Persist
    BY <1>1, <2>1, <2>2 DEF Persist, Typed, TypeOK
  <2>3. CASE ~Persist
    BY <1>1, <1>2, <2>1, <2>3
       DEF Preparation, NothingToRestart, Reuse, Scope, Seal, Release, TooLarge, NoSlot,
           Schedule, MarkScheduled, MarkStarted, OnlyWork, database
  <2>4. QED
    BY <2>2, <2>3
<1>3. CASE Confirm
  <2>1. \A s \in Slots : slot'[s] = slot[s] \/ slot'[s] \in {"consumed", "abandoned"}
    BY <1>3 DEF Confirm, Retire, Typed, TypeOK
  <2>2. QED
    BY <1>1, <1>3, <2>1 DEF Confirm, outside
<1>4. CASE FinishChange \/ FindFormer \/ BeginCancel \/ BeginUpload \/ GiveUp \/ Peers
           \/ \E s \in Slots : ResumePrepared(s)
  BY <1>1, <1>4 DEF FinishChange, FindFormer, BeginCancel, BeginUpload, GiveUp, Interrupted, Peers,
                    Response, Request, Leave, ResumePrepared, OnlyWork, database, outside, tasks
<1>5. ASSUME NEW s \in Slots, Abandon(s) \/ Transfer(s) \/ Mishap(s) PROVE Listed'
  <2>1. /\ UNCHANGED <<slot, known>>
        /\ \A t \in Slots : attachment'[t] = "reserved" => attachment[t] = "reserved"
    BY <1>5 DEF Abandon, Transfer, Mishap, Typed, TypeOK, database, tasks
  <2>2. QED
    BY <1>1, <2>1
<1>6. ASSUME NEW s \in Slots, Settle(s) PROVE Listed'
  <2>1. \A t \in Slots : slot'[t] = slot[t] \/ slot'[t] \in {"consumed", "abandoned"}
    BY <1>6 DEF Settle, SettleReady, SettleRejected, SettleRetry, Recover, Reprepare,
                SettleFailed, Retire, Typed, TypeOK
  <2>2. QED
    BY <1>1, <1>6, <2>1 DEF Settle, tasks
<1>7. CASE AskSlots
  BY <1>7 DEF AskSlots, Known, Unexpired, Listed, database, outside
<1>8. CASE AnswerSlots \/ Stop
  BY <1>8 DEF AnswerSlots, Stop, Listed
<1>9. CASE UNCHANGED vars
  BY <1>1, <1>9 DEF vars, database, outside, tasks
<1>10. QED
  BY <1>2, <1>3, <1>4, <1>5, <1>6, <1>7, <1>8, <1>9
     DEF Next, Locked, Cancellation, Preload

(* No slot the device still counts on is given up by the server for a list  *)
(* of slots that is outdated.                                               *)
THEOREM SlotsStayHeld == Spec => HeldSlotsLive
<1>1. Init => Typed /\ Listed
  BY InitTyped DEF Init, Listed
<1>2. Typed /\ Listed /\ [Next]_vars => Typed' /\ Listed'
  BY NextTyped, NextListed
<1>3. ASSUME Typed, Listed, [Next]_vars, NEW s \in Slots,
             slot[s] \in {"cached", "reserved"}, attachment[s] = "reserved",
             known # None, known' = None
      PROVE  attachment'[s] = "reserved"
  <2>1. s \in known
    BY <1>3 DEF Listed
  <2>2. CASE AnswerSlots
    BY <1>3, <2>1, <2>2 DEF AnswerSlots
  <2>3. CASE Stop
    BY <1>3, <2>3 DEF Stop, Interrupted
  <2>4. CASE ~AnswerSlots /\ ~Stop
    <3>1. known' = known
      BY <1>3, <2>4
         DEF Next, vars, Locked, Preparation, Cancellation, Preload, Peers, NothingToRestart,
             Reuse, Scope, Seal, Release, Persist, TooLarge, NoSlot, Schedule, MarkScheduled,
             MarkStarted, OnlyWork, Confirm, FinishChange, Abandon, FindFormer, BeginCancel,
             BeginUpload, AskSlots, GiveUp, Interrupted, ResumePrepared, Settle, Transfer,
             Mishap, Response, Request, Leave, tasks
    <3>2. QED
      BY <1>3, <3>1
  <2>5. QED
    BY <2>2, <2>3, <2>4
<1>4. Typed /\ Listed /\ [Next]_vars =>
         [\A s \in Slots :
             /\ slot[s] \in {"cached", "reserved"} /\ attachment[s] = "reserved"
             /\ known # None /\ known' = None
             => attachment'[s] = "reserved"]_vars
  BY <1>3
<1>5. QED
  BY <1>1, <1>2, <1>4, PTL DEF Spec, HeldSlotsLive
=============================================================================

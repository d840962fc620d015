# A formal model of the twonly core

twonly is an end-to-end encrypted messenger. Its Flutter user interface sits on
a Rust core (`src/rust/src`) that owns the databases, the Signal sessions, the
socket to the server and all background work. This directory models five parts of
the core: the one that decides whether a message arrives, once, in the end, and
with an honest answer to its sender; the one that decides who has the databases
open while the app comes and goes; the installation of a restored backup; the
shared state of a group; and the upload of media that the operating system
carries while its recipients change. The modules are translated from the source;
`PROJECT.json` names the lines every definition stands for.

## 1. The system and its parts

| Part | State it keeps | Operations | Interacts through | What makes it correct | Modelled |
|---|---|---|---|---|---|
| **Outbox** (`api/messages/incoming/messages.rs`, `api/messages/outgoing.rs`, `services/messages.rs`, `services/outbox_dispatch.rs`) | `receipts`: one row per unanswered message and recipient | queue, replace, sweep, send, commit the server's acceptance, park, requeue, delete | server mailboxes; sessions; answers of the peer | a message is queued exactly once until it is answered; nothing is parked for good | `Outbox` |
| **Inbox** (`api/messages/incoming.rs`, `database/app/receipts/table.rs`) | `received_receipts`: claim, parked plaintext, attempts, handled mark | claim, decrypt, park, handle, defer, retry, expire, answer | server mailbox; ratchet; replies in `receipts` | content handled once; acknowledged only if durable; reported only if decided | `Inbox` |
| **Flush coalescing** (`FlushClaim`) | `running`, `dirty`, a `Notify` | claim, release or take dirty, drop, wait | every task that queues something | one scan at a time, no request lost, no sleeper left | `FlushClaim` |
| **Session reset limiter** (`signal/reset.rs`) | one row per peer | claim, clear | both repair paths, the Signal engine | bounded resets, no peer blocked for good | `SessionReset` |
| **Signal engine** (`signal/engine.rs`, `signal/store.rs`) | sessions, ratchets, prekeys | encrypt, decrypt, reset, process bundle | its own database file | a ratchet step is spent once and durable at once | abstracted in `Mailbox` |
| **Server mailbox** (external; drained by `acknowledge_pending_messages`) | envelopes until acknowledged | deliver, acknowledge | socket, notification worker, background run | keeps what was not acknowledged | `Mailbox` |
| **Database lifecycle** (`database/lifecycle.rs`, `lifecycle/foreground.rs`, `lifecycle/pool.rs`, `context.rs`, `native/background.rs`, `native/notifications/session.rs`) | operations, tickets, epochs, pool owners, one admission permit | activate, suspend, admit, cancel, drain, close, reset | every task that touches a database | one owner of the pools, closed when they change hands, everything drains, a reset ends it | `Operations`, `Pools`, `Foreground`, `Native`, `DbLifecycle` |
| **Media upload** (`services/media_upload.rs`, `services/direct_media_upload.rs`, `native/transfer.rs`) | the state of the media, its requests to send again, slots, jobs, receipts; manifests and transfers outside the database | prepare, reserve, persist, hand to the OS, settle, cancel, list slots | receipts, group members, OS transfers, slots and verdicts of the server | shown as sent only if dispatched; who leaves gets nothing; no live slot is given up; the upload ends | `MediaUpload` |
| **Groups** (`services/groups/mod.rs`, `api/groups.rs`, `api/messages/incoming/groups.rs`) | on the server a versioned state, its signers and appended leaves; on a device the rows of the members and the version applied | load, change, write, retry, append, refresh, fold, invite | the server's version check; announcements and invitations | no accepted change is lost; signers are the admins; rows belong to the version they name, which never goes back | `Groups` |
| **Backup and restore** (`backup/*`, `database/restore_install.rs`, `keys/restore.rs`, `database/maintenance.rs`) | live files, shadow files, journal; staged identity, main key, session token | install, recover, stage, store and acknowledge the identity | the gate every access to settings and databases passes | a crash or a loss of power leaves old or new, never a mixture, and keys that fit | `RestoreFiles`, `RestoreInstall` |
| **Contact acceptance** (`api/messages/incoming/errors.rs`, `contact.rs`) | marks on receipts, contact flags | refuse, park, accept, release | outbox, inbox | what waits for acceptance goes out after it | planned |
| API runtime, notifications, mini apps, user discovery, key verification, recovery, stories, stickers, avatars, live location, home widget, keys, configuration, log, Flutter UI, native shells, generated bindings | | | | | no, see `PROJECT.json` |

How a message travels: the user's text becomes a row of `receipts` in one
commit. A task spawned for it, or the sweep a flush runs over the queue, reads
the row, encrypts it under the current session (building one from the server's
prekey bundle if there is none) and submits the envelope; a second commit then
records that the server took it. The peer's mailbox delivers the envelope over
the socket or to a notification worker until it is acknowledged. The peer's
handler spends the ratchet step in the signal database, commits claim and
plaintext to the app database, handles the content and commits the outcome with
a reply under the same receipt id. The reply travels back; a delivery receipt
deletes the row, a decryption error renames it and sends it again, possibly
through a rebuilt session.

How the databases change hands: the visible app opens an *epoch*, an operation
whose owner task takes the admission permit, adopts both connection pools,
gives the permit back and serves until it is cancelled. The platform's scheduler
and pushes start native *jobs*, which hold the permit from their admission to the
end of their cleanup. Hiding the app cancels its epoch and every job; showing it
preempts the jobs. Whoever is cancelled closes what it owns, waits for the
connections it lent out, and reports that it is closed, which others wait for.

How a backup is installed: the databases of the archive are staged and the
identity in it is put aside. With every database gate held, the installer links
each live file to an *old* shadow, copies the staged one to a *new* shadow, and
publishes a journal. While the journal exists nobody is admitted. The new
shadows are renamed over the live files, the journal is marked as committed, and
only then the keys of the identity replace those of the device. Whatever
interrupts this, the next start finds the journal and rolls back or completes.

How a group changes: the server keeps one encrypted state with a version. A member
who may sign reads it, changes it and writes it under the version read; if
somebody else was faster, the change is applied again to the state that won. A
member who is not an admin appends its leave; the next admin to refresh folds it
in. Refreshes replace the rows of the device by those of the version fetched.

How media goes out: under the lock of the media, a job with a manifest of sealed
messages is committed together with the reservation of a slot, and handed to the
operating system, which uploads it whether or not the app lives. The server
dispatches the manifest when the object is complete. The app learns of it when
it reconciles. A member who leaves meanwhile is found by a receipt, and the upload
is abandoned on the server and prepared again without that member.

The behaviours that are hard: two databases without a common transaction; a
stop between any two commits; envelopes and answers that are repeated, reordered
or lost; rows renamed under the feet of a task that is sending them; repairs
that both devices run at once; work that lives only in a spawned task; requests
coalesced into a task that may fail; a flag that says whether the app is
visible, read in one place and used in another; owners that wait for each other
to close, each under a lock or a permit; pools that are half open when something
fails; renames that a loss of power undoes in part; a version that is old by the
time it is written; answers that overtake each other; a transfer that goes on with
recipients who have left; a list of slots that is outdated when it is answered.

## 2. The modules

    Mailbox            server mailboxes, sessions, environment events (external)
      Outbox           sender: receipts table, sending tasks, answers, rebuilds
      Inbox            receiver: received_receipts, handlers, replies
        Delivery       both devices and the mailboxes; properties, fairness
          MCDelivery   TLC instances of it
          DeliveryProofs  types, the safety invariants and the refinement, proved
    DeliveryPromise    abstract specification that Delivery implements
    FlushClaim         coalescing of flushes; MCFlushClaim, FlushClaimProofs
    SessionReset       reset limiter; MCSessionReset, SessionResetProofs
    Operations         registry, cancellation and the admission permit
      Pools            the context, its two pools and the lifecycle mutex
        Foreground     visibility, activation, the owner tasks of epochs
          Native       maintenance and notification runs
            DbLifecycle     all of it and the reset; properties, fairness
              MCDbLifecycle TLC instances of it
              DbTypes       type correctness, proved
              DbSafety      the safety invariants and the refinement, proved
    DatabaseOwner      abstract specification that DbLifecycle implements
    RestoreFiles       data directory: live and durable entries, the journal
      RestoreInstall   installation and recovery of a restore, the keys
        MCRestoreInstall
        RestoreInstallProofs  types, safety and the refinement, proved
    AtomicSwitch       abstract specification that RestoreInstall implements
    Groups             shared group state; MCGroups, GroupsProofs
    MediaUpload        one media file of a group; MCMediaUpload, MediaUploadProofs

### Outbox

The columns of `receipts` are sets of receipt ids: `acked` is
`ack_by_server_at IS NOT NULL`, `marked` is `mark_for_retry`, `parked` is
`deferred_until_session`, `failures` is `decryption_failures`. `origin` is the
message behind an id and never forgets. Of time only the resend suppression
window matters: `recent` holds the rows whose `last_retry` lies inside it and
`Elapse` ends it. There are two sending tasks, the sweep of a flush and one
direct delivery; each works off the ids in `listed` and reads every row again
before it sends it, so a listed id may have been renamed, answered or parked
since. Encryption and submission are one step (`Submit`): nothing here tells
them apart. Handing an envelope to the operating system leaves a row like a
submission whose answer is lost (`SubmitUnheard`). `Requeue` is
`handle_plaintext_content` after the claim: new id, suppression once the session
is suspect, parking, and the rebuild the caller has to run. Rebuilds live in
`rebuilds` only, as they do in a spawned task; `SenderStops` loses them with the
other tasks and keeps the rows. The reset limiter appears as `resetBefore`: the
first reset of a peer is granted, any later one may or may not be.

### Inbox

A handler runs under the in-flight lock of its receipt id (`handler[r]`) and has
two commits, `Park` and `SecondCommit`; `Open` before them spends the ratchet
step, durably (`opened`). From the ratchet step to the first commit the
handler holds the only writer connection of the app database, hence
`WriterFree`. The paths around the main one are actions of their own:
`AckHandled` (a fresh copy of a handled message), `AckDuplicate` (a ratchet
step spent before), `CannotOpen` (a broken session), `Resume` (plaintext parked
by an earlier attempt), `RetryParked` (the retry from this device), `HandleFails`,
`Expire`. `decided`, `runs` and `errored` are history variables for the
properties. What handling a message does to the chat is abstracted to six
outcomes.

### Mailbox and the events

Mailboxes are sets, so envelopes arrive in any order. A session is a number;
`Restore` makes all sessions opened so far useless to the peer, as the restore
of a backup, which deletes `signal_sessions`, does. That the app database of a
restored device is older, too, is not modelled. Faults and rare events draw
on one budget, `MaxEvents`, and a run names the kinds it admits (`Events`):
stops of either device, the ratchet gap (a stop exactly between ratchet step and
first commit), lost answers, missing bundles, redeliveries, restores, sending
again, and messages of the peer.

### DeliveryPromise

Three sets and three actions: a message is sent, settled by the peer's device,
told to its sender, in this order and never taken back. `Delivery` refines it
with `settled` read off the history of the inbox.

### FlushClaim

`running` and `dirty` under one mutex, the `Notify` as the set of futures that
are enabled and those the notification has reached. A caller commits work, asks,
and either flushes, goes home, or sleeps (`Waiting`,
`retransmit_queued_receipts_and_wait`). Passes may fail and tasks may be
cancelled at any await; both drop the guard. Work whose flush or caller was
aborted is `orphaned`: the code leaves it in the queue for the next trigger.

### SessionReset

The columns of `signal_session_resets` and the upsert of `claim`, clause by
clause; `clear` when a message decrypts; a wall clock that may be set back.

### Operations and Pools

`OPERATIONS` is `leases`, `NATIVE_RUNS` is `permit`: free, closed, or its
holder. An operation's token and its deadline both end in `cancelled`, which the
code tests together. Everything an operation waits for before it is drained is
represented by the connections it has borrowed (`checkouts`). A pool is open,
closing or closed and belongs to an owner; closing has two steps, since the
code marks the pools under the `database_lifecycle` mutex (`BeginClosing`) and
then waits for their connections with the mutex held (`EndClosing`), so
`lifecycle` names who holds it across that wait. Adopting and reopening do not
wait under the mutex and are one step each, taken when nobody holds it.
`ReopenFails` stops after none or one of the pools.

### Foreground

A report of the platform is four steps (`Report`, `HideForeground`, `HideNative`,
`RequestSuspend`), as `visibility` takes no lock and everything else may run
between them. An activation walks through `activate` under `TRANSITION`;
`Look` and `MarkActive` are the load and the store of `visible()`. The owner task
of an epoch follows the task that `activate` spawns to its close. An epoch is interrupted (`retry`,
closed without an error, the activation tries again) or has failed (the activation
ends with the error). Operations are numbered for ever in the code; here a closed
epoch nothing refers to any more is used again as a new one (`IsNew`), which
keeps the state space finite without bounding how often the app comes and goes.

### Native

A job is registered, admitted, initialises the context or prepares the pools of
the one there is, works, and cleans up. Before it takes the pools over from a
hidden app it waits for the app's epoch to be drained: it loads `ACTIVE`
(`SeeHidden`) and takes the epoch there is after that (`WatchEpoch`), two steps between
which everything else may run; when its turn comes it
reads `ACTIVE` again and either shares the pools of a visible app (`SharePools`)
or reopens them for itself (`TakePools`), which leaves open pools to whom they
belong and then fails. Runs and pushes differ in how they are created, in who
starts them and in what a refused admission leads to.

### DbLifecycle and DatabaseOwner

`DbLifecycle` adds `stop_for_reset`. `DatabaseOwner` is the promise: a set of
owners that is empty or one operation, that changes only through empty, and that
stays empty once the process was reset. The refinement maps `owners` to the
owners of pools that are not closed.

### RestoreFiles and RestoreInstall

A file is the number of the generation in it. Each name has two values: what the
running system sees (`live`) and what is on the disk (`disk`); a rename or an unlink
reaches the disk when its directory is synced, and `LosePower` keeps any part of
what was not. The journal is published by a rename in its own directory and has
both values, too. Files have their content on the disk before their name, since
the code syncs them.

`RestoreInstall` is one thread of control, `pc`, through `install_coordinated`,
`recover_locked`, `cleanup` and `keys/restore.rs`, one action for each call that
changes a file, syncs a directory or writes to the key storage, with `at` the
target a loop has reached. `job` is what the installer knows and loses in a
crash. Between installations the app opens its databases (`Open`), updates its
keys and stages identities. Any call can fail (`IoError`): before the journal the
installer cleans up, after it, it recovers at once, as `Failing` says. `Open`
records what was served, and with which keys, for the properties. The targets are
the app database with its wal and shm, which has to disappear, and the settings;
the second database behaves like the first.

### AtomicSwitch

One value that is switched, or not. `RestoreInstall` refines it with the generation a
recovery that starts from the disk would end in.

### Groups

`log` is the sequence of states the server has accepted; its length is the version.
Each device has one operation and one refresh under way at most. The refresh runs
under `group_state_lock`, operations do not; it may start at any time, and its answer may be older than the newest version by `MaxBehind`. `Write`,
`Conflict` and `Refused` are the three answers of the server, which is external
and modelled from the errors the client tells apart. `intent` applies every
accepted change to the members and admins, in the order of acceptance, and is
what `ChangesKept` compares the newest state with. That keys of members arrive late is
`Leavers`: a device may be unable to attribute an appended leave. `Compact` writes
the folded state under the version it was computed from and is not retried.
`role` is what the device holds of itself, `joined_group` and `is_group_admin`
together; the two can disagree (`"outside"`: an admin who is no member). `Offered` is
what the views of the app let a user begin, given these columns and the rows.

### MediaUpload

The columns of the media, of its jobs and slots are `database`; what the server
and the operating system hold is `outside`: which slot carries which manifest
(`manifest`, `transfers`), what the server thinks of it (`attachment`), to whom it has
dispatched (`sentTo`). One task at a time works under the media lock (`work.at`), on
a preparation or on a cancellation; settling is one commit under the same lock,
with an answer the server gave before it was taken. `found` is whether the sweep over former members has seen this media:
it does so before it takes the lock. `known` is a list of slots on its way to the
server and back. `Stop` ends whatever was under way and keeps the database;
`GiveUp` is an error that does the same to the one task. A member is identified
with the receipts of its messages in this media; `failed` members had no keys when
the message was sealed for them. `latest` and `cutShort` are history variables.

## 3. The runs

| Run | Instance | Shows |
|---|---|---|
| `flush_claim` | 4 callers, 2 of them waiting, 2 aborts | `OneFlush`, `NoLostRequest`, `NoLostWakeup`; every request is read (`WorkIsRead`) and every sleeper wakes (`SleeperWakes`) |
| `delivery_outcomes` | 1 message, 2 receipt ids, 2 envelopes, 2 sessions, all outcomes, 2 events of stop, lost answer, missing bundle, redelivery, restore | `TypeOK`, `OutboxHoldsUndelivered`, `DeliveredIsDecided`, `HandledOnce`, `AckedIsDurable`, refinement `KeepsPromise` |
| `delivery_repair` | 1 message, 3 receipt ids, 5 sessions, 3 failures, 1 event (the ratchet gap, a second send and a message of the peer among them), fairness | `EveryMessageIsSettled`, `ParkedIsReleased` |
| `session_reset` | cooldown 2, window 8, 2 resets per window, 18 time units, 1 set-back | `BurstIsBounded`, `NotBlockedForLong` |
| `db_owners` | 2 epochs, 1 maintenance run, 2 callers of activate, 2 pools, 2 reports | `TypeOK`, `NativeOwnsUnderPermit`, `ReadyOwnsPools`, `ClosedIsReleased`, refinement `KeepsPromise` |
| `db_progress` | 2 epochs, 1 push, 1 caller, 1 pool, 1 report, fairness | `JobsEnd`, `CancelledEpochCloses`, `ActivationReturns` |
| `db_reset` | 2 epochs, 1 push, 1 caller, 1 pool, a reset, fairness | refinement `KeepsPromise`, `ResetEnds` |
| `restore` | 4 targets, 2 installations, 2 staged identities, 1 update of the keys, 2 faults of failing call, crash, loss of power; fairness | `TypeOK`, `AdmittedWhole`, `RollbackPossible`, `KeyUpdatesKept`, `GivesUpOnlySuperseded`, refinement `KeepsPromise`, `RecoveryEnds` |
| `groups` | 3 users, 2 attempts, 4 versions, answers 1 version late, 2 operations begun, any number of refreshes | `ChangesKept`, `SignersAreAdmins`, `ViewsAdvance` |
| `media` | 2 members, 2 slots, 2 active at a time, 2 events of any kind, fairness, deadlock checked | `TypeOK`, `RemovalIsPending`, `UploadedMeansDispatched`, `HeldSlotsLive`, `MediaSettles` |
| `ratchet_gap` | 1 message, the ratchet gap | violates `DeliveredIsDecided`, see section 6 |
| `hidden_epoch` | 2 epochs, no job, 1 caller, 2 reports | violates `HiddenIsCancelled`, see section 6 |

Why the bounds suffice. Two receipt ids allow one error and its requeue; three
allow the second error, which makes the session suspect, and the rebuild. Two
envelopes allow the copies that duplication and races are about. Five sessions
cover the one the message went out under, the one that replaced it, and every
rebuild three failures can call for: no run of `delivery_repair` is cut off by
this bound, which matters because a liveness property would otherwise hold or
fail for the wrong reason. Two events are enough for each pair of faults; the
safety properties of `delivery_outcomes` are also proved for any number, and for
the kinds of events it leaves out. `MaxFailures` 2 and 3 stand for 5, `MaxAttempts` 2 for 10: one failure
that is retried, and one that is not. In `session_reset` a window is four
cooldowns and a budget two resets, so that the budget and not the cooldown is
what limits a burst, and the horizon covers more than two windows.

One message is enough for the runs of the delivery, as messages meet in the
sessions and the two sending tasks only; for several of them the safety
properties are proved.

Two epochs are the one that is alive and the one before it, which a job or an
activation may still refer to; at most one is alive (this is proved). A second
caller of activate makes `TRANSITION` contended. Two reports hide the app and show
it again, and since epochs are used again, an activation may fail, be retried and
repeated any number of times within them. One job is enough for each kind of
interplay with the app; two jobs meet only in the permit, which is covered by the
proofs. The runs with liveness have one pool: that the second may be open while the
first is not matters to ownership, not to who waits for whom. `db_progress` has
one report, which hides the app or shows it; with a second one its properties
were found to hold as well, in about five minutes, too long to repeat each time. `db_owners` uses
the symmetry of the epochs; no run with a liveness property does.

Two installations are the least in which shadows and a journal of the first can
meet the second; two faults are a crash and one more during the recovery from it. The
four targets are one of each kind the code treats differently: replaced, retained
and replaced by nothing, never retained, and in another directory. The safety
properties of `restore` are also proved for any number of targets, installations,
identities and faults. Three users are two
who change the state at once and one it is about; two attempts (three in the
code) are one conflict that is retried and one that is not; four versions leave
room for a change, a leave, its compaction and one that gets in between, and
`groups` is also proved for any number. Two slots are the one an upload holds and the
one it is prepared for again; two events are each pair of a stop, a refusal, a lost
transfer, a member who leaves, a request to send again.

Runs of `MCDelivery`, `MCSessionReset`, `MCRestoreInstall`, `MCGroups` and `MCDbLifecycle` do not check deadlock:
a conversation in which everything is answered and no event is left comes to
rest, so does a clock at its horizon, and so does a hidden app that gets no more
reports and whose jobs are done.

Every property of a passing run has a mutant, a plausible bug in one of the
operators it depends on, that makes TLC refute it. The mutated operators stand
next to the ones they replace and are marked as such.

## 4. Fairness

`FlushClaim` assumes weak fairness of each task's own steps: the runtime polls a
task that can run. It does not assume that work arrives or that passes fail.
`SleeperWakes` needs that new work stops at some point, as one flush serves an
endless stream of requests without ever ending.

`Delivery` assumes weak fairness of each device's progress as a whole
(`SenderProgress`, `PeerProgress`): a device on which a task can run, a timer is
due or mail can be fetched does something in the end. Nothing is assumed about
which step it takes; with bounded events every order of them terminates. No
fairness is assumed for sending, acceptance, expiry, writing back or any event,
so liveness never rests on the peer writing again.

`DbLifecycle` assumes strong fairness for each activation, epoch task, job and for
the reset. They are tasks that wait at tokio's mutexes and at a semaphore, all of
which serve in order of arrival: a task that is waiting gets its turn even if
others take the lock in between. The thread of a visibility report
waits for nothing, so weak fairness does. Work on a borrowed connection ends, for each
operation by itself (it is interrupted when its owner is cancelled), and deadlines
of jobs pass. Nobody owes a report, a call, a job, the opening of a push's session
or a reset: a hidden app may stay hidden for good, which `ActivationReturns`
excepts. The cycle of section 6 is excepted by name.

`RestoreInstall` assumes that a recovery is begun when a journal is found and that an
installation or recovery under way goes on, each by weak fairness. Neither a
restore nor an update of the keys is owed, and faults are bounded.

`MediaUpload` assumes weak fairness of the task that holds the media lock, of the
search for former members, of the exchange of slots and of each transfer, as these
wait for nobody. What competes for the lock, an upload that begins or is resumed, a
cancellation, a verdict, has strong fairness: tokio's mutex serves in order of
arrival, and the sweep after each connection and the watcher of pending uploads
come back while something is left to do. No member owes a response, a request or
a departure. `Groups` has no liveness property: nobody has to refresh.

## 5. What is proved

tlapm checks the theorems for all values of the constants that satisfy the
assumptions named in the modules: any set of messages, any number of receipt
ids, envelopes, sessions, events, failures and attempts.

* `DeliveryProofs!TypesHold`: `[]TypeOK`. The step lemma is split by device.
* `DeliveryProofs`, safety. The inductive invariant has four parts besides `TypeOK`:
  `UsedIds` (every id that appears anywhere on either device or in a mailbox was
  given to a message), `MailIds` (envelopes in the mailbox have distinct ids, so
  a handler's envelope and a spent ratchet step belong to one receipt),
  `Verdicts` (an "ok" queued, travelling or accepted, a spent ratchet step and a
  handled mark each rest on a verdict, or on a plaintext or handler that will
  bring one), and `Once` (an id whose content ran carries the handled mark
  and has neither a parked plaintext nor a handler before its first commit).
  `UsedIds` gives freshness to a requeue, which is what makes
  `OutboxHoldsUndelivered` inductive (`OutboxIsComplete`); `Once` gives
  `HandledAtMostOnce`, even across the ratchet gap.
* `DeliveredMeansDecided`, `MailboxAckIsDurable` and `PromiseKept` (the
  refinement of `DeliveryPromise`) assume that no stop falls into the ratchet gap:
  `"ratchetGap" \notin Events`. The run `ratchet_gap` shows that the assumption
  is needed.
* `FlushClaimProofs`: `FlushesExclude`, `RequestsKept` and `WakeupsKept` from one
  inductive invariant that ties the phase of each caller to the claim. `WakeupsKept`
  is the safety core of `SleeperWakes`: with it, a worker can only sleep on while the
  flush it waits for goes on.
* `SessionResetProofs`: `CooldownHolds` and `PeersAreUnblocked` from an
  invariant that bounds every counted reset by the row's last one and the start
  of the window by the same; `TypesHold`; and `BurstsAreBounded`. A row counts the
  resets of one window and forgets them with the next, while the bound is about any
  span of a window's length, which may touch two of them. `Budget` compares the
  two: a window counts at least its own resets, and a span that began before the
  window did cannot hold the whole budget of the window before, since it began after
  the reset that opened that one. Hence one less than twice the budget.

* `DbTypes!TypeCorrect`: `[]TypeOK`, together with the fact that an activation
  past its choice has an epoch to wait for.
* `DbSafety`, for any number of epochs, jobs, pools and callers of activate and any
  number of reports. None of the safety properties is inductive. The invariant
  adds three parts. `Serial`: activations act under `TRANSITION`, an epoch that is
  alive is the one the context knows or is still in the hands of its activation,
  hence at most one is alive, and a reset that has seen the last one close keeps it
  that way. `Permits`: who must hold the permit at which stage, and that nothing is
  left of those that are over. `Ownership`: closing pools belong to the holder of the
  lifecycle mutex, a job's pools come with the permit, and an epoch without the
  permit has all pools, so that a job that reopens "the closed ones" finds none.
  From it follow `NativeOwnership`, `ReadyMeansOwned`, `OverMeansReleased` and,
  as open pools therefore have one owner, the refinement `PromiseKept`.

* `GroupsProofs`, for any users, attempts, versions and delays. `TypesHold` is
  type correctness. `ChangesKept` is not inductive: the step that could lose a change is
  a write of something computed earlier. The invariant therefore says what every
  pending write was made from: `Prepared`, that a write under version `v` carries the
  change applied to the state of version `v`; `Folding`, that a compaction of `v`
  drops only people who left at `v`. As the server takes a write only under the
  version it names, either that state is still the newest or the write is refused:
  `NoChangeIsLost` and `AdminsSign`. `Views` ties the rows of a device to a choice
  of attributed leaves at its version: `ViewsAreTrue`. With the check of the version at
each `Apply` it gives `ViewsFollow`: however late the answers are, a device never
records an older version.
* `MediaUploadProofs`, for any members, slots, bounds and events. `TypesHold` is
  type correctness. `ShownAsSentIsSent` rests on `Dispatching`: whatever is on its way,
  a draft, a job, or a verdict nobody has read, covers every member who asked
  for it or has not been dispatched to. `FormerMembersAreFound` rests on `Findable`:
  the receipts of the members in the newest manifest name its slot until it is
  withdrawn on the server. `SlotsStayHeld` rests on `Listed`: a slot that is cached or
  reserved was so when the list on its way was made, or was issued after it.

* `RestoreInstallProofs`, for any targets, directories, installations, identities and
  faults. A loss of power leaves any part of what was not synced, so the invariant
  says of every name what holds of its value in the running system and of the one on
  the disk, and of the journal which pairs of values can meet (`JournalsAgree`).
  `WholeInv` is the heart: the targets may be any mixture while both journals call
  for a rollback, are the new generation between the commit and its sync, and the
  durable one otherwise. `SavedInv` keeps what a rollback puts back, `VaultInv`
  relates keys, token and identity to the generation, and one part per loop says what
  the entries behind it have reached (`RollbackInv`, `PrepareInv`, `SwapInv`,
  `ApplyInv`, `CleanInv`, `JobInv`). From it follow `TypesHold`, `OnlyWholeIsAdmitted`,
  `RollbackStaysPossible`, `KeysAreKept` and `PromiseIsKept`, the refinement of
  `AtomicSwitch`: the switch happens when the committed journal is synced, or at the
  loss of power that lets it reach the disk, and at no other step.
  `RecoveryGivesUpOnlySuperseded` is the safety core of `RecoveryEnds`: besides the
  invariant it needs that a rollback never finds its link taken (`RelinkFree`).

Only model-checked is liveness (`WorkIsRead`, `SleeperWakes`,
`EveryMessageIsSettled`, `ParkedIsReleased`, `JobsEnd`, `CancelledEpochCloses`,
`ActivationReturns`, `ResetEnds`, `RecoveryEnds`, `MediaSettles`), which the proof
system cannot reach. Every safety property and every refinement the runs check is
proved. So are the type invariants; those of `SessionReset` and `Groups` have no run
of their own, as the invariants proved of these modules contain them.

## 6. What the model found

1. **Ratchet gap** (`ratchet_gap`). Decryption is durable at once, the plaintext
   with the commit after it. A device that stops in between meets the redelivery
   as a duplicate of the ratchet and acknowledges it
   (`incoming.rs:946`), on the ground that the message "was handled". It was
   not: the sender sees a delivered message that the peer never had.
2. **Hidden epoch** (`hidden_epoch`). `visible()` loads `ACTIVE` and then stores
   `TRUE`. If the app is hidden between the two, `visibility(false)` finds no epoch to
   cancel and its store is overwritten; the check that is to catch this
   (`foreground.rs:307`) reads the overwritten flag, and the epoch stays open in the
   background until the next report.

These two have a run of their own. What follows was met while modelling and is listed
under `hazards`; the properties say where they stop short of it.

**Delivery.** A receipt is parked in the commit that records the peer's error, and
freed by a rebuild that exists only as a task spawned after it. If the sender stops
in between, nothing frees the receipt until the peer writes, which is
what `incoming.rs:1064` sets out to avoid; `delivery_repair` therefore has no stop of the
sender. The reset limiter counts in fixed windows, while `reset.rs:13-16` promises a
budget for any window; up to one less than twice the budget fits into one, and
`BurstIsBounded` states that.

**Restore.** A loss of power may bring the journal of a finished restore back, as the
directory is synced after the unlink. If a newer identity was staged before that,
the record no longer has the identity the journal names, `validate` refuses, and
the databases stay closed. `Superseded` names this exception of `RecoveryEnds`.

**Groups.** A promotion that is applied again after somebody removed its subject makes
an admin who is no member, and whose app still offers changes of other members. Who leaves by an append while being promoted is folded
out of the members but stays a signer, as a compaction names no signer
(`groups/mod.rs:619`); hence `SignersAreAdmins` speaks of those who have not
left. A member who left by an append and is added again is folded out again, the
appended leave being kept by the server; and for the same reason every refresh of an
admin writes another compaction. A refresh that fails after a second invitation
is not retried.

**Media.** A cancellation that has removed its job and is cut short before it resets
the media leaves it in `backgroundUploadTaskStarted`. The next sweep finds it by
the receipts of former members, as `direct_media_upload.rs:1189-1190` says, but only if
there are any: the list is read before the lock is taken (`:1163`), and a preparation in
between may have discarded them. `MediaSettles` excepts this state (`cutShort`). A
request to send again is lost when a response or a verdict sets the media to
`uploaded` before the request is taken up (`media_upload.rs:857-859`). A job records the
requests as they are when it is persisted (`:1725`), though its manifest was made for
those read before (`:1769`), so that its settling clears a request it did not serve.
The preparation of a second job discards the receipts by which an older one, still
live, would be found; `RemovalIsPending` speaks of the newest. A rejected upload
becomes `uploadLimitReached`, which the sweep restarts, although the comment at
`:1431` says that "Retrying it with the same bytes would fail the same way". So
`MediaSettles` also rests on rejections coming to an end, which `MaxEvents` sees to:
under a policy that rejects this upload for good, the sweep would restart it after
every rejection.

**Lifecycle and flushes.** A job that prepares the databases sees the app hidden
(`context.rs:721`) and then takes the epoch it is to wait for. If the app comes back
between the two, or between the attach of a new epoch and its check
(`foreground.rs:303-314`), this may be the epoch just opened, which nobody cancels.
The job holds the permit until that epoch has closed, the epoch waits for the permit,
and the activation waits for the epoch under `TRANSITION`, without which a reset
cannot go on. The job does not look at its cancellation there, so all of them go on
only when the app is hidden again. It takes three threads that meet within a few
instructions. `PermitCycle` names this state; `JobsEnd`, `ActivationReturns` and `ResetEnds`
except it and nothing else, and TLC refutes each of them without the exception.

An epoch that failed stays attached to the context. Every later activation, and every
job of the hidden app, ends with its error until the process restarts. The
documentation does not promise otherwise, so this is a hazard and not a finding.

A failing pass of a flush returns without the additional pass that requests made
meanwhile had been promised. This is recorded as a hazard and not as a finding:
the rows stay queued and the next of many triggers sweeps them.

## 7. Not modelled, and the plan

Of the delivery: receipts dropped because the account is gone or the media
expired; receipts waiting for contact acceptance; legacy v1 ciphertexts; the
renewed acknowledgement after ten days; blocked senders; prekey repair; storage
errors other than through a stop; group fan-out, in which every recipient has a
receipt of its own that behaves like the one modelled.

Of the database lifecycle: the iOS arms (background assertions, the query of the
main queue), where `visible()` asks the platform and `Lease::admit` may refuse;
`flutter_visibility`; callers of activate that are dropped while they wait; the
restore worker; operations of `lifecycle::run`, whose work appears as connections
of the operation they run under; tasks spawned on an operation. Reports are
assumed to come from one thread. `ApiRuntime::close` is assumed to succeed.

Of restores: the temporary name the journal is written under, the discovery
database (present in some archives only) and the second of the two databases, which
behaves like the first; making, uploading, fetching and checking an archive. Shadows of
all installations share their names, while the code puts a uuid into them.

Of groups: the encryption of the state and the way its keys travel, of which only
what a device can attribute is left (`Leavers`); names, images and other content; a
group that was deleted on the server; the chat messages that announce a change.

Of media: compression and encryption, drafts, media whose source is lost, stories,
legacy requests, receipts marked for retry, deleted accounts, a reset of the API
namespace, slots repaired after an update from an older client, the iOS
notification extension, the coalescing of watchers, a second process with locks of
its own, and clocks that disagree about expiry. A refused manifest is settled in two
commits (`direct_media_upload.rs:1049-1069`, which does not hold the media lock, and
`:1082`) that are one action, `SettleFailed`; a stop between them is made good by the
next reconcile, which refuses the job again, but a cancellation between them is not
covered. `purge_cached_slots` (`:876`, `:1097`) is left out: it drops
the cached slots when the server has given one up, as the others are then
taken to be given up as well; a send that takes such a slot fails.

Contact requests and acceptance, notifications, mini apps, user discovery and the
content modules are not modelled. The first is the next candidate; the others mostly
present, encrypt or store data, and their few protocols do not touch the state
modelled here.

In order of importance, what remains:

1. The contact handshake: acceptance marks in `Outbox`, the deletion of accounts, and
   the pair of reset limiters that ends a loop of repairs.
2. A stop of the sender in `delivery_repair`, with the receipts it may strand named by a
   history variable as `cutShort` is in `MediaUpload`.
3. Spawned children of operations (`spawn_on`, blocking work) in `Operations`, and the
   abandoned caller of activate in `Foreground`.
4. A group deleted on the server, and the keys of members, in `Groups`.

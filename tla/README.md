# A TLA+ model of voice-2-text

voice-2-text is a self-hosted transcription service: a FastAPI application
(`app/main.py`, `sessions.py`, `live.py`, `accounts.py`) writes recordings to
SQLite and submits them to a Redis queue; a pool of supervisors (`worker.py`,
`tasks.run_isolated`) takes them and runs one decoder process each
(`job_process.py`, `tasks.run_transcription`); a bot process (`bale.py`) carries
one-time codes. This directory holds the specifications of that program, their
TLC models and their TLAPS proofs.

## Inventory

| Component | State | Operations | Talks to |
| --- | --- | --- | --- |
| Recording API (`main.py`, `sessions.py`, `accounts.set_status`) | job row, clips, audio files | create, retry, cancel, delete; create, append, remove, close, reopen for sessions; retention sweep; suspension of the owner | SQLite, Redis, disk |
| Queue (`queue.py`, RQ) | entries `transcribe-{job}`, `clip-{id}`, flag `majles:cancel:{job}` | enqueue, cancel, request/clear/is requested; every flag call swallows its failure | Redis |
| Supervisor (`tasks.run_isolated`) | the job it claimed, its child | claim, spawn, poll loop, kill, cleanup, failure | SQLite, Redis, child |
| Decoder (`tasks.run_transcription`) | place in the pipeline | start check, assemble, decode, save, drop audio, DONE, cancel and failure paths | SQLite, Redis, disk |
| Session transcript (`sessions.py`, `live.py`, `tasks.transcribe_clip`) | clips, blocks | append, remove, reorder, retry, edit, delete, resolve, close | SQLite, queue, disk |
| Live microphone (`live.live_socket`, `static/live.js`) | utterances in flight | ship, decode, append, finish | web socket, SQLite |
| Accounts (`accounts.py`, `auth.py`, `bale.py`) | users, challenges, identities, logins, bot offset | signup, login, reset, change, logout, set status, code delivery | SQLite, the Bale transport |
| Start of the processes (`db.init_db`, `auth._secret_for`) | schema, key file | create tables, add columns, create or read the key | SQLite, disk |
| Text normalization (`normalize.py`, `asr.py`, `exporters.py`) | none | normalize on storing and on exporting | - |
| Other pure algorithms (`diarize.py`, `exporters.py`, `config.py`, `live.js` segmentation) | none | speaker assignment, subtitle layout, CPU budget, cutting of utterances | - |

What is hard:

- The row, the queue and flag, and the files are three independent stores.
  Nothing spans two of them, so every request and every worker is a sequence of
  steps that interleaves with the others, and a failure between two steps leaves
  the stores in disagreement.
- A recording is written by up to five parties at once: a handler in the event
  loop, one in the thread pool, a suspension, a supervisor and its child. What
  keeps them apart is the claim, the guard of `_update`, the `canceling` stage
  and SQLite's write lock.
- Entries of one recording share one queue id, so a stop may leave an entry
  behind, and a retry adds a second one.
- Redis calls may be lost silently, children may raise, die or hang, supervisors
  may be killed; the orphaned child then goes on alone.
- Clips and utterances are transcribed while the user edits, reorders, closes or
  deletes the session they belong to. `resolve_file_block` reads a block and
  writes it later without a lock; the microphone coroutine looks at login and
  session before and after a decode that takes seconds.
- A one-time code is delivered by the request that created it or by the bot,
  which may both be at it; the bot repeats a message that it did not finish.
- The API, the workers and the bot start together on one data directory and
  create the same tables and the same key file.

What makes it correct, per component: a recording has one decoder; a stop is
confirmed only when the decoder is gone, and then is unless its supervisor has
failed or never saw it (`unsettled_stop`); nobody but the user revives a stopped
recording; what is queued is taken and has its audio; DONE has a result;
a deletion leaves nothing. For the transcript: one order, no late answer over a
user's edit, no block in a closed session, nobody waits for a block that nobody
writes. For the microphone: "saved" means that every utterance was handled, none is
shed, and an ended login stores nothing.
For accounts: one usable code per phone, the one that was delivered, accepted
once, after few wrong guesses, and no login that outlives its end. For the start:
who serves has the whole schema, and all have the same key.

## Modules

| Module | What it is |
| --- | --- |
| `PipelineState` | Constants, shared variables, the helpers on row, flag, queue and files (`_update`, `_purge_audio`, `_cleanup_canceled`, `queue.py`) |
| `JobApi` | The HTTP handlers that act on recordings, and the suspension of their owner |
| `Supervisor` | `run_isolated` |
| `Decoder` | `run_transcription` |
| `RecordingPipeline` | The four composed; invariants, action properties, liveness, refinement |
| `RecordingLifecycle` | The abstract specification: a phase, and whether anybody attends to the recording |
| `MCRecordingPipeline` | Symmetry and constraint for TLC |
| `PipelineTypes`, `PipelineRevival`, `PipelineExclusive`, `PipelineRefinement`, `PipelineOutcomes` | Theorems and proofs about the pipeline |
| `SessionState` | An open session: clips, blocks, entries, sockets; `resolve_file_block` |
| `ClipApi` | The requests of the session page |
| `LiveSocket` | The browser's microphone page and the server's coroutine |
| `SessionEditing` | Both, with the workers that run `transcribe_clip`; properties |
| `MCSessionEditing` | Bounds and symmetry for TLC |
| `SessionProofs` | Theorems and proofs about `SessionEditing` |
| `OneTimeCodes` | Challenges, `deliver_code`, the bot, `consume_challenge` |
| `Accounts` | Accounts and logins on top of it; properties |
| `MCAccounts` | Whose contact Bale vouches for, bounds and symmetry for TLC |
| `AccountsProofs` | Theorems and proofs about `Accounts` |
| `Startup`, `StartupProofs` | `init_db` and `_secret_for` run by several processes; theorems and proofs |
| `TextNormalization` | `normalize`, and its two uses |

Definitions marked `mutant` (named `...Unguarded`, `...Anyway` and so on) are
plausible mistakes in the code they stand beside; no specification uses them.
Each checked property is violated when one of them replaces its original.

### How the state corresponds to the code

The pipeline:

- `status`, `canceling`, `rqId` are `jobs.status`, `jobs.stage = 'canceling'` and
  whether `jobs.rq_job_id` is set. `"absent"` and `"deleted"` stand for no row:
  identifiers are random and never reused.
- `flag` and `rq` are the cancel key and the number of waiting queue entries. RQ
  itself (dequeue, removal by id) is external, modelled from `queue.py` and
  `worker.py`.
- `source` is the audio a transcription reads: the upload, or a session's clips
  with their rows (`"lost"`: the rows outlived the files). `mixdown` is the
  assembled `{job}.mp3` of a session, `result` the JSON file.
- `supPc`, `supJob`, `childPc` say where worker `w` and its child are; `api`,
  `pool` and `admin` where the handlers are. Three local values outlive a step:
  `rqSeen`, the `rq_job_id` of `cancel_job` and `delete_job`, and `found`, the
  status that `set_status` has read. `Unlocked` guards every write of a row: it
  fails while `set_status` holds SQLite's write lock over its Redis calls.

The session (`"busy"` stands for the whole pipeline, from close to its end):

- `position`, `files`, `blocks`, `entries` are the clip rows, their files, the
  transcript rows, and the queue entries `clip-{id}`. `dropped` is a history
  variable: the clips whose file a transcription has unlinked, with the row left
  in place (`PipelineDropsFile`, `DELETE_AUDIO_AFTER_TRANSCRIBE`). A file block has the id of
  its clip, a microphone block is `<<socket, number of the utterance>>`. Texts
  are told apart by their author only: the recognizer, a failure notice, the user.
- `pc` says where a handler or worker is, `clipOf`, `decoded` and `saw` what it
  holds: `saw` is the block as `resolve_file_block` read it, which decides the
  columns its UPDATE names.
- Both directions of a socket keep their order, so its utterances are three
  counters: `sent`, `answered`, `heard`. The utterance in hand is `answered + 1`.
  `inflight` is the coroutine's own counter, which `LIVE_MAX_QUEUED` (`MaxQueued`)
  is compared with. A send to a browser that is gone may raise, and ends the
  loop, or be taken for sent (`Reached`).
  `access` is whether the cookie is still a login of an approved account.

Accounts: a code is the number of its draw, so two deliverers have different
ones; `outbox` is what reached a chat. `recent` stands for the minute between two
challenges of a phone. `epoch` counts how often all logins of an account were
ended, and `logins` holds the epochs of the logins still in the table. `inbox`
and `offset` are the messages and `bot_state`. A message is of any chat and any
challenge or phone; of a contact, Bale (external) says whether it is the sender's
own and not forwarded (`own`), and says so only of a number it has registered for
the sender (`Owns`): `BotContact` refuses the others, as `bale.py:102-104` does.

Startup: `tables`, `columns`, `keyFile` are on disk, everything else belongs to
a process; `missing` is what `create_all` found, `lost` is a history variable.

### What is a step

One commit, one Redis call, one file operation, one message. Exceptions, with
their reason:

- `create`, `cancel`, `delete` and `retry` are `async def` and await nothing
  after the upload: the event loop runs one at a time (`LoopIdle`). Their steps
  interleave with the thread pool and the workers, not with each other.
- Whatever holds SQLite's write lock from check to commit (`db.write_lock`) and
  calls nothing slow in between is one step: the requests of the session page,
  the checks of `retry`, close, reopen, consumption of a code. Reopen's Redis and
  file calls are made under that lock too. `set_status` is the exception: its
  Redis calls are steps of their own (`SuspendBegin`, `SuspendDrop`,
  `SuspendCommit`), for each recording of the owner apart and repeatable, as if
  the user were approved again in between, which allows more interleavings than
  one suspension has.
- `append_clip` is an unlocked check with the arrival of the file, then a locked
  half, then an enqueue without an `await`: nothing else moves on the event loop
  until it has answered (`LoopFree`).
- `resolve_file_block` takes no lock and is two steps. Its UPDATE writes the
  columns that differ from what was read, and fails if the row has gone.
- The row `get` and commit at the end of `_cleanup_canceled`, and the child's row
  and flag checks at its start, are one step each. The two reads of the start
  check stand in one `if`.
- The query of the clips and the check of the files are one step, and the end of
  `concatenate_audio`, where the mixdown replaces the one before, is another,
  minutes later (`ChildAssemble`, `ChildMix`): in between the clips may be
  unlinked, and the mix fails or not, depending on what it has opened.
- Decoding, diarization and the checks between them are one step that may see the
  flag or the row; the row is read only every five seconds, so a check may miss it.
- `deliver_code` is three steps: store the digest, send, confirm. The bot saves
  its offset after the message is handled, as a fourth.
- A signup for an existing account answers 409 and rolls back, the spent code
  included: no step.
- `init_db` looks for all tables first and then creates them, one statement each;
  a column is looked for, then altered. The key file is created, then written.
- The retention sweep and the deletion of a session as the page sees it are one
  step (`JobApi` has the deletion's parts).

### Faults

Each fault is a member of a constant set, so that a run can say what it assumes.

- `Faults` (pipeline). `raise`: an exception in the child's `try` block.
  `native`: the child dies, or raises before that block, without a word. `spawn`:
  `Popen` raises. `timeout`: `WORKER_JOB_TIMEOUT` expires, in `run_isolated`'s own
  check or as RQ's alarm for the same time (`queue.py:33`), which rises in
  whatever statement runs: from any place behind the spawn it leads to the
  `except` clause (`SupTimeout`), and out of that clause when it rises in there
  (`SupTimeoutLate`). An alarm that `queue.py` swallows is a lost call. Bound: the
  claim and the spawn do not last that long. `crash`: a supervisor
  is killed, its child lives on. `enqueue`: Redis refuses an entry. `redis`: a
  flag or cancel call fails, which `queue.py` swallows; a failed check reads as
  "not canceled".
- `SessionFaults`. `enqueue` and `raise` as above, for clips. `leave`: a browser
  goes away without a word. `revoke`: logout, new password or suspension while
  sockets are open. Stopped pipelines (`Reopen`) and `DeleteAudio` need no fault.
- `CodeFaults`. `send`: the transport fails, perhaps after the message arrived.
  `crash`: the bot is killed and repeats its last message.
- `MaxCrashes` bounds the processes killed while they start. A table statement may
  meet a locked database (`Locked`), `ALTER TABLE` may fail while the column is
  missing and `PRAGMA journal_mode=WAL` may fail (`AlterFails`, `WalFails`); the
  process then ends.

Not among them: a Redis that stores an entry and loses the reply, a crash of the
API between two steps, and a worker killed while it decodes a single clip.

## Runs

Identifiers are used once; users may close, cancel, retry, reopen, reorder and
edit without bound. Deadlock is not checked: users may stop, and then the system
rightly rests.

| Run | Bounds and environment | Shows |
| --- | --- | --- |
| `exclusive` | one session, two workers, every request, a suspension, every fault but `raise` and `enqueue`, audio dropped after DONE; workers symmetric | `TypeOK`, `SingleDecoder`, `StopConfirmed`, `EditableAlone`, `QueuedHasSource`, `SuspensionHolds`, `ExclusiveInv`, `FailedIsStable`, `ImplementsLifecycle` |
| `all_faults` | an upload and a session (explored apart, `OneRecording`), one worker, every request of their owner, every fault, audio kept | `NoRevival`, `SourceKept` |
| `progress` | an upload and a session (`OneRecording`), two workers, every request but reopen (a session is not retried, `SessionOnce`), a suspension, `spawn` and `redis`, audio dropped after DONE, two entries, fairness | `DeletedLeavesNothing`, `DoneHasResult`, `QueuedHasDelivery`, `QueuedMovesOn`, `SupervisedStopSettles` |
| `transcript` | two clips, a socket with two utterances (three of the four in all), one worker, `enqueue` and `raise`, a pipeline that drops the clip files; clips symmetric | `SessionTypeOK`, `TranscriptOrder`, `PendingIsAttended`, `FilesAccounted`, `ResultMatchesTranscript`, `EditKept` |
| `microphone` | two sockets with two utterances or one clip (`OneSource`), one decoder, `MaxQueued = 1`, all session faults, fairness | `FinishSaved`, `NeverBusy`, `RevokedStoresNothing`, `PendingResolved`, `UtteranceSettled` |
| `accounts` | two challenges, a number two people have owned and another of one of them, two wrong codes, two codes per challenge, two messages (three challenges and messages in all), contacts of one's own and of others, `send` and `crash`; challenges symmetric | `AccountsTypeOK`, `OneOpenChallenge`, `DeliveredCodeWasSent`, `GuessBound`, `SpentOnce`, `LoginsAreCurrent`, `IdentityStable` |
| `startup` | two processes, new and old installations of three tables and two later columns, three attempts, failing statements, one crash, fairness | `StartupTypeOK`, `ReadySchema`, `OneKey`, `LossesAreProgress`, `KeyShared` |
| `late_failure` | one session, two workers, raising children | violates `EditableAlone` |
| `late_cancel` | one upload, one worker, no fault | violates `DoneIsFinal` |
| `unsettled_stop` | one upload, one worker, no fault, fairness | violates `EveryStopSettles` |
| `cancel_keeps_audio` | one upload, one worker, no fault, audio dropped after DONE | violates `CanceledKeepsSource` |
| `idempotence` | every text of up to three tokens | violates `ScreenMatchesFile` |

Why the bounds are enough:

- Pipeline: `MaxEntries = 3` caps the queue entries of one recording: two workers
  can hold two, so three is enough for a leftover, a retry's own and one more.
  Recordings share workers and nothing else, so one recording at a time shows
  every behaviour of a recording; two workers are the fewest that could decode it
  twice. In `progress` two entries are a retry's own and a leftover, and only the
  upload is retried, because but for its check of the files a retry treats both
  alike. Of the faults it has only those under which a deletion cleans up: with the
  others `DeletedLeavesNothing` fails (see the proofs). `SupervisedStopSettles`
  holds with them too (all but `enqueue`, an upload, no suspension), as TLC shows
  in five minutes when it is checked alone. `exclusive` leaves out two faults
  because its properties fail with them, which `late_failure` shows for one.
  `all_faults` leaves out the suspension because `NoRevival` fails when it meets a
  refused entry (see below).
- Transcript: two clips are the fewest that can be reordered and change places
  with microphone blocks; `MaxFiles = 2` is met; once a pipeline
  has dropped files, two of the four are enough (`DropsAmongFew`), which are two
  clips or a clip and an utterance; a retried clip has a leftover
  entry, a worker and a request at once, which is all that can attend to it.
- Microphone: two sockets compete for one place (`MaxConcurrent = 1`); with two
  utterances the second waits behind the first, and `MaxQueued = 1` is the smallest
  limit, under which a place that is not freed is noticed first.
- Accounts: two challenges of one phone are the fewest that can supersede each
  other; two codes of one challenge are drawn when request and bot deliver side
  by side; two messages open a challenge and prove the number, or repeat that.
  `OneNumber`: two challenges are for the number that both people have had, one
  alone may be a signup for the number only one of them has. `CardsOfAsked`: a
  contact Bale does not vouch for is sent by a chat that has opened a challenge, of
  a number that is asked for and not its own; any other is refused for another
  reason already. `SmallTraffic`: the second challenge of an account is delivered
  by its request, since the bot would need a fourth message or challenge.
- Startup: three tables, the old one in the middle, make a process lose a race
  before, at and after it. Two processes meet at every table and at the key.

Constraints (`SmallSession`, `DropsAmongFew`, `OneSource`, `OneNumber`,
`CardsOfAsked`, `SmallTraffic`, `OneRecording`, `SessionOnce`) bound what users
send; in the runs with fairness, none of the steps that they hold back is fair.
Symmetry is used in runs without liveness only, on sets whose members no property
or action names.

### What the five violations say

- `late_failure`: a child reports FAILED before it exits, so a retry may start a
  second worker while the first supervisor still waits. That supervisor's own
  late FAILED (`tasks.py:333`) then overwrites RUNNING, and the session can be
  reopened, against `docs/ACCOUNTS_AND_SESSIONS.md:48`, while it is decoded.
- `late_cancel`: a cancel that is answered 409 has set the flag first
  (`main.py:266`); the supervisor obeys it and turns DONE into CANCELED, against
  `docs/arcetecture.md:174`.
- `unsettled_stop`: a child that starts between cancel's flag and its UPDATE
  clears the flag and exits 0; the UPDATE then waits for a confirmation nobody
  gives, against `docs/arcetecture.md:171`. A fault is the second way in: when the
  child has died or raised, `Popen` has failed or the timeout has passed, and the
  cancel commits before the `except` clause does, its FAILED changes nothing of a
  canceled row (`tasks.py:330-335`) and the supervisor returns. The row then says
  canceling for good. `SupervisedStopSettles` excepts exactly this, and a killed
  supervisor.
- `cancel_keeps_audio`: the audio is unlinked before DONE is committed; a cancel
  in between stops a recording that cannot be retried, against
  `docs/arcetecture.md:158`.
- `idempotence`: `asr.py:155-156` calls `normalize` idempotent and
  `tests/test_normalize.py:52` is named after that. Latin digits become Persian
  after the affixes were joined, so "20 ام" is stored and shown as "۲۰ ام" and
  exported as "۲۰‌ام".

One more is excluded by a hypothesis instead of having a run. `create_job` commits
QUEUED before it enqueues; if a suspension stops the recording in between and
Redis then refuses the entry, its unguarded FAILED (`main.py:183-189`) replaces
the confirmed CANCELED, which `docs/arcetecture.md:172` does not draw. TLC shows
it as a violation of `NoRevival` when `MCAllFaults.cfg` is given `"suspend"` among
its `Ops`.

### Fairness

- `FairSpec` assumes that a handler that runs gets to its end, that supervisors
  and decoders are scheduled and audio of finite length is decoded in finite time
  (weak fairness of `LoopStep`, `CloseStep`, `SuspendStep`, `SupStep`,
  `ChildStep`, `SupRestart`), and that RQ's queue is first in, first out, so an
  entry that workers keep coming back to is taken (strong fairness of
  `SupDequeue`).
- `FairSessionSpec` assumes the same of handlers, uploads, workers, the server's
  coroutines and the network (weak fairness of `HandlerStep`, `UploadStep`,
  `WorkerStep`, `ServerStep`, `LinkStep`), and that neither the queue nor
  asyncio's semaphore, both first in, first out, passes over a waiter forever
  (strong fairness of `TakeClip` and `Acquire`).
- `FairStartupSpec` assumes that processes run (weak fairness of `ProcStep`) and
  that a reader that polls the key fifty times a second sees it once it is there
  (strong fairness of `ReadKey`).

Users, faults and the bot are never assumed to act.

What the liveness properties except: `SupervisedStopSettles` a supervisor that is
killed or in its `except` clause; `UtteranceSettled` a connection that ends;
`KeyShared` a torn key file, and a process whose restart fails in the database.

## Proofs

The theorems are about `Spec`, `SessionSpec`, `AccountsSpec` and `StartupSpec`,
i.e. they assume no fairness, for all constants that satisfy the named
assumptions of the modules (`JobsAssumption`, `BoundAssumption` and
`EnvironmentAssumption`; `SessionAssumption`; `CodesAssumption` and
`EpochAssumption`; `StartupAssumption`). Those say that special values are no
members of the sets they stand beside, that bounds are natural numbers, and that
requests and faults are among the known ones.

`PipelineTypes` proves `TypeOK` and `SuspensionHolds`: what `set_status` read is
true until it commits, because every other writer of a row needs the lock.

`PipelineRevival` proves `NoRevival` and `SourceKept`. `NoRevival` needs
`FreshInv`: `create_job`'s unguarded FAILED can only meet a recording nobody has
touched, because no entry of it exists yet; and the hypothesis `NoBlindFailure`,
that a suspension cannot meet a refused entry. `SourceKept` needs `AudioInv`: a
handler that unlinks audio has deleted the row before, and no child drops it; its
hypothesis is that the setting that drops audio is off.

`PipelineExclusive` proves `ExclusiveInv`, and from it `SingleDecoder`,
`StopConfirmed`, `EditableAlone` and `QueuedHasSource`, for any number of
recordings and workers, all request sets and all fault sets that satisfy
`NoLateFailure`, i.e. without a raising child and a failing enqueue. This
exception is a property of the code, not of the proof: `late_failure` is the
counterexample. None of the four is inductive. The inductive invariant speaks of
workers that *attend* to a recording, from the claim until the child is reaped:
at most one does, and meanwhile the row is RUNNING, DONE, deleted or
canceled-and-canceling, so that neither the claim nor retry nor reopen accepts
it. Why no decoder reports FAILED on its own needs the rest: the audio is there
until the decoder has opened it, the clips until they are mixed
(`SourceAwaitsDecoder`) and the mixdown or the upload until it is decoded
(`AudioAwaitsDecoder`), or the recording is deleted, and a deletion that is under way stays one (`DeleteIsUnderWay`).

`PipelineRefinement` proves `ImplementsLifecycle`, step by step from
`ExclusiveInv`, and `FailedIsStable`, under the same hypothesis. It adds
`UndoneInv`: a decoder that has not committed its result does not work for a
recording that is DONE, and what a deletion is about to delete exists.

`PipelineOutcomes` proves what becomes of a recording, for sessions and uploads,
any number of workers, and every request and fault but those that its hypotheses
exclude. Each exclusion is a behaviour of the code: TLC finds a counterexample of
the property as soon as one of them is let in.

| Theorem | Hypothesis | Why it is needed |
| --- | --- | --- |
| `QueuedIsDelivered` (`QueuedHasDelivery`) | no `crash`; not both `cancel` and `reopen` | a worker killed between taking the entry and the claim takes the entry with it; a cancel whose row was reopened and closed again drops the new entry, not its own |
| `DeletionIsComplete` (`DeletedLeavesNothing`) | no `raise`, `native`, `timeout`, `crash` | a supervisor that leaves through the `except` branch, or is killed, does not remove what the decoder has saved for the deleted recording |
| `DoneIsBacked` (`DoneHasResult`) | `NoLateFailure`, no `crash` | a supervisor killed after `_cleanup_canceled` unlinked the result leaves DONE without one; two decoders remove each other's |

- `DeliveryInv` adds what the entries are that cancel and delete drop: those of a
  recording that is canceled or deleted, and will not be queued before they are
  dropped (`DropsOldEntry`). Since entries of one recording are not told apart,
  this alone keeps a stop from taking the entry of a retry.
- `DeletedInv` adds that no supervisor of a deleted recording looks away: a result
  on disk is either before `delete_job`'s last step, or belongs to a decoder that
  can no longer fail, whose supervisor will see the row gone (`WillWipe`); and a
  mixdown on disk, be it one that appears after the clips were unlinked, awaits a
  worker that will purge it (`WillPurge`).
- `DoneInv` adds that a decoder about to report DONE has its result on disk
  (`Saved`), and that a supervisor that leaves its cleanup for the `except` clause
  will still write the row (`TakingBack`). Who could remove it meanwhile attends to the recording, hence is the
  decoder's own supervisor; it rests on `ExclusiveInv` and `UndoneInv`.

`SessionProofs` proves the six safety properties of `transcript`. Three inductive
invariants carry them. `ClipInv`: at most one attempt at a clip's block is under
way, be it an entry, a worker or a request; this is what makes the unlocked
`resolve_file_block` safe, because a block can be edited only when it is done and
retried only when it failed, and both exclude an attempt. `HeardBefore`:
a socket's next block comes after all of its earlier ones. `FileInv`: what append
and remove hold of a file, and that a clip without one has lost it to a
transcription. The order of file blocks under `Reorder` is proved from
the permutation it applies.

It also proves `FinishSaved`, `NeverBusy` and `RevokedStoresNothing` from `LiveInv`,
for any number of sockets and any caps. `NeverBusy` rests on `Placed`: a coroutine
holds one place while it waits for the decoder or decodes, and none elsewhere. For
the code it says that a limit of one or more never sheds anything, because the
coroutine reads no message while it decodes; `.env.example:117` and `config.py:84`
("backlog before chunks are shed rather than delayed") expect the opposite. What
holds a fast speaker back is the browser's own cap (`static/live.js:300-332`).

`AccountsProofs` proves the seven properties of `accounts`. The one that needs an
idea is `DeliveredCodeWasSent`: that the chat is its phone's owner comes from the
check of the contact, and its invariant `Promise` says that a deliverer
about to confirm has sent the code it holds to the chat it holds, so that the
comparison of digests in `Confirm` connects the row with what was sent.

`StartupProofs` proves the four safety properties of `startup`, for any number of
processes and tables. `LossesAreProgress` bounds the attempts that races can
cost: every lost race is over a table that was missing when the process looked.

Only model-checked: liveness (`QueuedMovesOn`, `SupervisedStopSettles`,
`PendingResolved`, `UtteranceSettled`, `KeyShared`), because fairness and
`ENABLED` are beyond this prover. `TextNormalization` builds on folds over sequences, of which
nothing can be proved here: that needs induction over data.

## Not modelled

- In the pipeline: progress numbers, error texts, the temporary files
  `{job}.assembling.mp3` and `{job}.json.tmp` (`run_isolated`
  removes both after a stop; the `except` clause leaves what a killed or dead
  decoder had not finished), the start of a stage, the day the cancel key expires after.
  A crash of the API process between two steps (the repository's
  `docs/ARCHITECTURE.md:102` excludes a transactional enqueue). At most one close
  of a session at a time. A crashed supervisor's slot comes back only when its
  orphan has ended; another slot stands for the restarted service.
- In the session: a worker killed while it decodes a clip; the block then stays
  pending, no code path looks for it, and no document says otherwise. More than
  one retry of one clip in flight. `KeyShared` likewise excepts the key file that
  a killed process left empty (`Torn`): nothing removes it.
- In the browser: where an utterance begins and ends (`LiveSession.analyse`),
  arithmetic on frame energies in one thread on which no property of the rest
  depends; the pages and single requests of the other scripts.
- Of accounts: rate limits and the bootstrap administrator; a request that was
  authenticated before its login ended and finishes afterwards, except for the
  microphone and for a suspension's recordings. The bot's liveness: a
  message whose handling keeps failing is fetched again forever and holds up the
  rest, and nothing in the code promises otherwise.
- `assign_speakers`, the layout of exports, the repair of repetitions, the CPU
  budget, storage and validation of settings: sequential code over lists and
  numbers, for which the repository states no claim beyond what its tests check.
- Model inference and deployment scripts: nothing here depends on their data.

## Plan

Done: the pipeline with suspension and its abstract specification; the session
and the microphone; accounts and code delivery; the start; text normalization;
the proofs above. Open, in this order:

1. `UtteranceSegmenter` for `LiveSession.analyse`: no audio between the first
   and the last voiced frame is lost, whatever lengths are set.
2. `assign_speakers` and subtitle timestamps against reference definitions.
3. Rate limits at their bound, with the clock.
4. A refinement of `SessionEditing` and `RecordingPipeline` to one abstract
   session, so that `"busy"` is justified by proof and not by construction.
5. A refinement of `Accounts` to an abstract phone verification (a code counts
   once, for its purpose, within its attempts). On the present instance the run
   takes more than twice as long with that property, so the instance has to be
   reduced first.

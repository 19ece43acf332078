# A formal model of al-torrent-tools

al-torrent-tools watches the anime releases of AniLibria, brings their torrents
through a master and a slave qBittorrent, hashes the files, sends sources to
the Kensetsu encoder, pairs AVC with HEVC releases and tells people about all of
it in Telegram. It is a FastAPI process, a worker with an APScheduler, two
Telegram bots and one PostgreSQL database that all of them write.

The difficult part of the program is not computing. It is that four processes
act on the same rows, with commits between awaits, over services that time out,
and that each of them may be stopped or killed at any line. That is what the
modules here are about. Everything is taken from the code under `src/backend`;
paths below are relative to it.

## 1. Inventory

### Processes

| process | code | concurrency |
| --- | --- | --- |
| API | `app/main.py`, `app/api/*` | asyncio requests, job threads, the UI event task |
| worker | `worker.py` | APScheduler ticks (each `max_instances=1`, coalesced), job threads |
| Telegram bots (primary, hevc) | `app/telegram_bot/*` | a polling loop and an outbox loop each |
| PostgreSQL | `app/db/*` | READ COMMITTED; row locks, advisory locks of transactions and of sessions |
| outside | qBittorrent master and slave, Kensetsu, AniLibria, Telegram | every call may fail, time out or take effect without an answer |

Sessions do not autoflush and expire on commit, so a row read before a commit is
read again after it, but an object read before an `await` is stale when used.

### Components

State, operations, partners, what is hard, and what makes it correct.

**Background jobs** (`services/job_runner.py`). State: rows of `jobs` (`pending`,
`running`, `stopping`, then `success`, `partial`, `failed` or `cancelled`), a
session advisory lock per running job, and in each process a thread pool and the
set `_active_job_ids`. Operations: create (under an advisory lock of the type),
schedule, run, finalize, ask to stop, shut down, reclaim at start-up and every
five minutes. Called by the API, by every schedule of the worker, by the pipeline
and by the automatic encoder. Hard: two processes create, one claims while another
reclaims, late results against stops and shutdowns, lost lock connections.
Correct: one active job per slot, a finished row is final, a stop wins, a live job
is not reclaimed, a dead one is.

**Telegram outbox** (`services/telegram_outbox.py`) with **access control**
(`services/telegram_access.py`). State: rows of `telegram_outbox` with a lease and
a claim token, a cooldown per profile, `tg_status` of a pipeline, decisions about
chats. Operations: enqueue, claim, renew, send, finalize, recover expired leases,
retry by hand, approve, reject. Hard: `sendMessage` has no idempotency key, bots
freeze and die, answers are late, a recipient is revoked meanwhile. Correct: no
duplicate nobody accepted, nothing let go to a chat after its revocation but what slipped
behind it (section 4), claims are fenced, a pause holds, nothing that is due waits for ever.

**Torrent pipeline** (`services/pipeline.py`, webhooks in `app/api/rest.py`, polls
in `worker.py`, `jobs/pipeline_reconcile.py`, `jobs/waiting_*_retry.py`,
`jobs/pipeline_resume_cancelled.py`). State: rows of `torrent_pipelines` with a
stage from `discovered` to `done`. Operations: add to master, master completed,
add to slave, slave completed, hash job, fail, cancel, resume. Hard: webhook, poll,
reconcile and retry move the same row; qBittorrent calls between read and write.
Correct: stages only advance for a reason, one hash job per version, nothing is
done before the slave is.

**Encoder submissions** (`services/encoder_history.py`, `encoder_submission.py`,
`encoder_receipts.py`), **automatic encoder** (`automatic_encoder.py`) and
**encoder tracking** (`encoder_tracking.py`). State: submissions with items
(`sending`, `accepted`, `rejected`, `unknown`, `not_sent`), candidates with leases,
tracking generations, jobs of Kensetsu. Hard: a POST that starts a long encode and
may not be repeated, expiry racing a slow preflight, recovery racing a late
answer. Correct: one source is encoded once unless somebody accepted a repeat,
an uncertain POST is never called unsent, late observations are fenced.

**Release synchronisation** (`services/torrent_processor.py`, `release_lock.py`,
`release_checkpoint.py`, `sync_outcomes.py`, `ongoing_watch.py`, `jobs/ongoing.py`,
`full_sync.py`, `backoffice_sync.py`, `force_release_sync.py`,
`retry_sync_failures.py`). State: checkpoints, outcomes of a pass, the archive, the
watch list, a session lock per release. Operations: a pass over the torrents of a
release, the page loop of the full pass, the absence sweep. Hard: a failed part must be
retried although markers say nothing changed; shifting pages must not prove absence.
Correct: what AniLibria lists is archived and handed over at last, and what it lists is
not marked absent.

**File tracking and hashing** (`services/file_tracker.py`, `file_hasher.py`,
`qb_inventory.py`, `jobs/hash_torrent.py`, `hash_backfill.py`). State: files of versions
with a status, hashes with size and mtime, change events. Operations: composition,
inventory, hashing, settling of statuses, telling. Hard: files change while they are
read, a job breaks off between two commits, versions share the disk and its hashes.
Correct: a stored hash is that of the file, a status is true, a change is told once.

**UI events** (`services/ui_events.py`). State: subscribers, a token per channel,
one poll task. Hard: the last subscriber leaves and the next arrives during a read.
Correct: a page that stays sees every change, and no token is older than its channel.

**HEVC pairing and notifications** (`services/hevc_pairing.py`,
`hevc_notifications.py`). Mostly a pure algorithm over the archive; its
notifications go through the outbox with dedupe keys.

**Cleanup** (`services/torrent_cleanup.py`, `jobs/cleanup.py`,
`jobs/orphan_cleanup.py`), **backoffice cache** (`services/backoffice_torrent_cache.py`),
**migrations** (`scripts/migrate_with_lock.py`), **log pruning**
(`jobs/cleanup_logs.py`): a small protocol each, or none (section 16).

**API pages, bot dialogues, qBittorrent and AniLibria clients, mediainfo, scripts**:
presentation, pure I/O and parsing. Not modelled.

`PROJECT.json` lists all components with their status, and every hazard with its
line and the property that covers it, or where it is planned.

## 2. Plan

Order of work; what is done is marked.

1. `JobTable`, `JobRunner`, `JobRunnerProofs` (done): every other component runs as a job.
2. `Delivery`, `TelegramOutbox`, `TelegramOutboxProofs` (done): the side effect people see.
3. `Handover`, `Pipeline`, `PipelineProofs` (done): the way of a torrent from the master
   to the slave, moved by seven kinds of actor.
4. `EncoderLedger`, `EncoderSubmission`, `EncoderSubmissionProofs`, then `AutomaticEncoder`
   and `AutomaticEncoderProofs` over the same history and `EncoderTracking`,
   `EncoderTrackingProofs` beside it (done): the side effect that costs hours.
5. `ReleaseSync` (session lock, checkpoint, failures, retry) and `CatalogSweep`
   (pages as proof of absence) (done).
6. `FileHashes`, `FileVersions`, `FileVersionsProofs`, `UiEvents`, and `ServicesProofs`
   with the theorems about `FileHashes`, `UiEvents`, `ReleaseSync` and `CatalogSweep` (done).
7. Left: pure operators against reference definitions (pairing of HEVC and AVC batches,
   backoff), the backoffice cache, the migration lock, registration of chats, cleanup.

Each protocol module gets constants with named assumptions, one action per
transaction or thread step, an inductive invariant as a conjunction of named
parts where it is proved about, and a module of proofs beside it. No module has a
recursive operator.

Which modules refine which: `JobRunner` implements `JobTable`, `TelegramOutbox`
implements `Delivery`, `Pipeline` implements `Handover`, `EncoderSubmission` implements
`EncoderLedger`; each of these is an abstract promise in a module of its own, and
both checked and proved. `MCEncoder`, `MCHashJobs` and `MCServices` put several modules
into one specification; their state is disjoint, and the first state chooses which part moves.

## 3. Jobs: JobTable and JobRunner

### What corresponds to what

`JobTable` is the promise about the table: rows, slots, and who may follow whom.
A slot is a type, or a type and a key for the types of
`_CONCURRENT_UNIQUE_PARAM`. `JobRunner` implements it and has these parts.

| variable | code |
| --- | --- |
| `status`, `req` | `jobs.status`, `jobs.type` with the unique parameter of `params_json` |
| `aged` | a pending row whose `created_at` is more than 60 s ago |
| `creator`, `typeLock` | a process inside `create_job`/`schedule_job`, and `pg_advisory_xact_lock` of the type |
| `pc`, `home`, `outcome` | the thread of a job in `run_job`, the process it is in, `final_status` |
| `runLock`, `lost` | the session lock taken by `_hold_run_lock`, and connections that broke |
| `active` | `_active_job_ids` of a process |
| `up`, `snapshot`, `stops` | the life of a process and what its shutdown has read |
| `reclaimer` | a pass of `reclaim_orphan_jobs`, at start-up or on schedule |

A transaction is one action, and so is each step of a thread between two of
them. `Claim` and `CommitClaim` are two actions because registration in
`_active_job_ids` happens between the update and the commit, which is exactly
what the shutdown relies on. `ShutdownRead` and `ShutdownCancel` are two because
the set is read before the update waits for row locks. A reclaim pass takes its
candidates first and then judges them one by one under their run locks.

### Runs

| run | instance | what it shows |
| --- | --- | --- |
| `jobs` | 2 jobs of one key whose handlers succeed, API and worker, pool 1, one shutdown or crash or a broken connection (`OneFault`) | the safety properties and the refinement of `JobTable` |
| `hash_jobs` | part "jobs": 1 job, both processes, two stops, one broken connection; part "files": section 11 | every active row is finished |
| `jobs_queued_reclaim` | 2 jobs, one process | the finding below |

Two jobs suffice for conflicts because every property speaks of pairs; two
processes are what is deployed; a pool of one gives queueing. Unkeyed types, larger
pools and lost locks of two jobs are left to the theorems, which hold for all of them.
`Results` bounds the outcomes of handlers: what the runner does with a row depends
on it being finished, not on how, and `hash_jobs` has all three. `MaxStops` and
`MaxDrops` bound faults per behaviour: one shutdown or crash with a restart meets
every state a thread can be in, and the liveness run allows two. `IInv`,
`OneActivePerSlot` and `HandlersRunOnce` (no handler is called twice, in any process) are
proved and in no run; `Table` contains the second. Deadlock is not checked because the ids run out.

Fairness (`Fairness` of `JobRunner`): threads of a living process keep running,
processes restart, time passes, and schedules tick. Strong fairness is asked only
where PostgreSQL serves waiters of a lock in turn. Nothing forces a job to be
created, a stop to be asked or a fault to happen. A handler is assumed to end;
one that hangs for ever is not reclaimed, and the code does not claim so.

**Finding.** `docs/design/job-execution.md` says that reclaim does not touch the
jobs of another live container. A job takes its run lock only when a thread picks
it up, so a job that waits for more than 60 s behind a full executor of a live
process is cancelled as an orphan (`jobs_queued_reclaim`).

### Abstractions

`Age` waits until the creator of the row has scheduled it: 60 s against the next
statement. The executor serves any queued job, not the oldest. The update of a
shutdown does not fail. A reclaim pass does not break in the middle and its own
lock connection holds. Handlers are steps without effect but their outcome.
After a graceful shutdown a cancelled handler may overlap a new job of its slot
until the process exits; `OneHandlerPerSlot` says so explicitly.

## 4. Telegram: Delivery and TelegramOutbox

### What corresponds to what

`Delivery` is the promise about one message. `exposed` counts requests Telegram
has not refused, `acks` the duplicates an operator accepted, `confirmed` the
receipts. They are history variables: no code reads them. `unknown` stands for
a failed row whose `last_error_kind` is `delivery_unknown`.

| variable | code |
| --- | --- |
| `status`, `owner`, `leased` | `status`, `claim_token`, `lease_until > now` |
| `due`, `ahead` | `next_attempt_at <= now`, and the order of the select in `claim_next_outbox` |
| `pause`, `desk` | the cooldown of a profile, and the retry that holds its lock |
| `enabled`, `approved` | the settings of a profile, the ACL of the profile hevc |
| `revoking`, `held`, `slipped` | chats whose revocation has run its UPDATE and not committed, the rows it has locked, rows that became pending behind its back |
| `tg` | `tg_status` of a pipeline |
| `pc`, `item`, `verdict`, `left` | where `drain_outbox` is in a bot, its claim, what it has to record, its remaining rows |

A bot goes through `StartDrain` (recovering expired claims), `ReadConfig`,
`ClaimNext` or `FindNothing` under the cooldown lock, `CheckRow` (the recipient is
approved), `Renew` or `LoseClaim`, `Post`, `Hear`, `Pause` and `Finalize`; `Abandon` is a crash.
`Renew` commits the new lease, and the request may leave at any later moment: `exposed`
counts from there.

A revocation has two steps. `StartReject` is the UPDATE of `set_access_status`: it locks the rows it
finds pending or in flight (`held`), and nobody sees it. Until `CommitReject`, or its rollback
`AbortReject`, claims skip those rows (`SKIP LOCKED`), while `renew_claim`, `finalize_outbox` and the
recovery of leases wait for them. A row that becomes pending in between, inserted or retried, was not in the
snapshot of the UPDATE and slips. `RenewedOnlyForApproved` therefore says what the code keeps: once the
revocation is committed no claim of the chat is renewed, but one of a row that slipped and whose bot had
looked at the ACL before the commit. Such a message does leave after the revocation, because `renew_claim`
does not look at the ACL again, and so may a request whose claim was renewed before.
`docs/design/telegram-delivery.md:30` admits the second and says nothing of the first.

An
explicit refusal and a connection that never opened are taken as proof that
nothing was delivered, as in `classify_send_error`. The token is the bot, because
a bot holds one claim at a time. Amounts of time, backoff and attempt numbers are
abstracted to "due" and "not due"; `reset_operational_state` is left out.

### Runs

| run | instance | what it shows |
| --- | --- | --- |
| `outbox` | 2 primary bots, 2 legacy rows of a pipeline, one crash, pauses up to 2, switching | no unaccepted duplicate, fenced claims, pauses, `tg_status`, refinement of `Delivery` |
| `outbox_live` | 1 hevc bot, an event and a greeting of one chat that is approved and rejected, drains of one row, two faults (a crash of the bot, a revocation that rolls back) | nothing renewed after a revocation but what slipped, due rows are taken, claims end |

Two bots are needed for a stale owner, and a third adds no new role; two rows are
needed for the order of the queue and for the shared `tg_status`. One crash and
one accepted duplicate per row reach every state of a claim. In `outbox_live` a
row may fail time and again, so the order of the select carries the property; rows in doubt are
retried in `outbox` only (`MaxAcks`).

Fairness: bots keep running, leases and delays run out, the desk of an operator and a
revocation commit or roll back, and PostgreSQL serves the waiters of a cooldown lock and of a locked row in
turn (strong fairness on `BotStep`). No fairness for operators, settings or crashes.

## 5. Pipeline: Handover and Pipeline

### What corresponds to what

`Handover` is the promise about one torrent: it is offered to the slave only once
the master has had it whole, its files are hashed only then (or once somebody put
it on the slave by hand), and no row of it is done before the slave has had it
whole. Its variables are history: no code reads them. `Pipeline` implements it.

| variable | code |
| --- | --- |
| `status`, `err` | `torrent_pipelines.status`, and what `error` tells the selections (`is_qb_wait_error_text`, `is_qb_missing_cancel_reason`) |
| `grace` | rows `recently_resumed_from_cancelled` finds an event for |
| `master`, `slave`, `up` | what `torrents_info` of each client would answer, and whether it answers |
| `inApi` | `torrent_still_in_api`, and `api_present` of the archive |
| `seen`, `hashJob` | a row of `seen_torrents`; the last `hash_torrent` job of the hash |
| `pc`, `row`, `loop`, `todo`, `recover` | where an actor is, its row, its list, the rows it has listed and not taken |
| `loaded` | the status an actor's session has loaded and not expired |

| actor | code | runs |
| --- | --- | --- |
| `sync` | `torrent_processor.py`, insertion of a new torrent | as a job |
| `poll_master`, `poll_slave` | ticks of `worker.py` | in a thread of the worker |
| `reconcile` | `reconcile_with_master` | as a job |
| `retry_master`, `retry_slave` | `jobs/waiting_*_retry.py` | as jobs |
| `resume` | `resume_cancelled_from_qb` | as a job |
| `Hooks`, `SlaveHooks` | `qb_complete_webhook` with role master, slave | on the event loop of the API |

A step lies between two calls to the outside, or between a commit and the next
call; an answer and the statements that follow it are one step. Sessions do not
autoflush, keep what they loaded until they commit, and send no column whose value
does not change: `Believes` is the status an actor acts on, `WriteOver` the write
it makes, and `Forget` the expiry. That is what makes stale writes visible. Jobs
also commit when they log, which expires what they loaded (`JobActors`). Webhooks
share one event loop and give it up only while they fetch the `.torrent`
(`LoopFree`).

Faults: an actor dies at any step (`Crash`, also a stop between two rows), a client
goes down and comes back, the answer to an add is lost after it took effect, any
call raises something else, people remove a copy or put one back, AniLibria drops
the torrent, a hash job fails.

### Runs

| run | instance | what it shows |
| --- | --- | --- |
| `pipeline`, scene "race" | sync, reconcile, a master webhook; one row; two faults of an outage or lost answer, an exception, a removal or addition | `IInv` with the types, no unjust cancellation, the refinement of `Handover` |
| `pipeline`, scene "return" | sync, both polls, resume, a slave webhook; two moves by people after the insertion | the same when cancelled rows come back |
| `pipeline_done`, scene "faults" | sync, slave poll, reconcile, both retries; crash, outage and a second row, or an exception by itself | every row comes to an end without webhooks, failed ones included, and an outage and a crash cost no torrent |
| `pipeline_reopened` | sync, reconcile, a webhook, no faults | first finding |
| `pipeline_unhashed` | sync, slave poll, reconcile; a crash | second finding |

Which actors meet in a run follows from the stages they share: reconcile, the
webhook and `retry_slave` add to the slave, resume brings back what a poll
cancelled, the retries and reconcile recover failed rows. Two that do the same
step with different beliefs suffice for a race, and one of each kind is what is
deployed (`max_instances=1`, unique job types). One row is what a torrent has; a
second one exists only if its insertion failed or died before `_mark_seen`. One fault of a kind
reaches every stage. Deadlock is not checked: a row at an end is an end.

Fairness (`Fairness` of `Pipeline`): an actor that has started goes on, schedules
tick, outages end, downloads and hash jobs end, the grace of a resume ends. No webhook has
to come, nobody has to press resume, nothing has to fail. `Settles` and `DoneAtLast`
therefore rest on polls, reconcile and retries alone. A row of an actor that died
before it left `discovered` is in no selection of `pipeline.py`; `Working` leaves such rows out,
and `DoneAtLast` shows that the next synchronisation inserts the torrent again.

**Findings.** `mark_slave_added` writes its stage without comparing: when the
webhook and reconcile both add to the slave, the slower one puts a row that the
other has completed back from `done`, which `pipeline.py` calls terminal
(`pipeline_reopened`). And if the process dies between `mark_slave_added` and
`_enqueue_hash_torrent`, the poll completes the row and nobody creates the hash job
the code says follows at once (`pipeline_unhashed`). `HashIsPromised`, proved and in no run,
says how far that goes: as long as nobody dies, nothing raises and nothing is removed, each row
that reached the slave has its hash job or somebody on the way to create it.

### Abstractions

One torrent at a time: rows of different torrents share no state but the lists.
A list is taken in any order. The age of a row is not modelled: a poll may
come for it at once or later, which includes every threshold. `inApi` stands for both the answer of
AniLibria and `api_present`, which a synchronisation updates from it. A client
shows at once what it has been given; the lag is in `Download` and in the polls' grace only.
The first loop of the reconcile job, which only fetches `.torrent` files, is part of `Bytes`.
Settings of a missing client are an outage that does not end by itself, and so are left
to the safety runs. `force_qb_load`, metadata, composition of releases and
Telegram notifications are left out; the queue they fill is section 4.

## 6. Encoder: EncoderLedger and EncoderSubmission

A POST to Kensetsu starts hours of encoding and has no undo. `EncoderLedger` is the
promise: an entry never says more than is known ("accepted" has a job, "rejected" will
never have one, "not_sent" was not posted), and a source is entered while an older entry may have reached
the encoder only if a person said so. `EncoderSubmission` implements it.

| variable | code |
| --- | --- |
| `item` | `encoder_submission_items.status` of a file in a submission |
| `open`, `started`, `asked` | `finished_at IS NULL`, `request_started_at`, `receipt_next_at` |
| `before` | the order of the ids, by which the newest item is found |
| `pc`, `paths` | where `submit_files` is, and what it will send |
| `consent` | submissions that needed `allow_repeat` or `acknowledge_unknown` (history) |
| `late` | submissions whose intent came after they had expired (history) |
| `flight`, `sent`, `srv`, `took`, `clear` | the wire and Kensetsu: what it made of the request, the files it made jobs of, those its reply is clear about (external) |
| `reading`, `receipt` | the receipt `recover_receipts` has read and not yet written |

A call goes through `Claim` (under the lock that senders and recovery share),
`Prepare`, `Recheck`, `Intent` (the durable intent), `Post`, and one of the
`Hear` actions; `GiveUp` and `TurnAway` end it before. `RecoverExpired` may come at any
moment for a submission without `finished_at`; `Kill` at any step. The recovery
reads (`Fetch`) and writes (`Absorb`) in two steps, between which the late
answer may come.

**Late submissions.** The 600 s of a submission run from `claim`. `submit_files` reads the items
before and after the preflight, and then only takes the lock of the intent, which looks neither at the items nor
at `finished_at` again. So if the preflight is slow, or the lock is held by somebody else, and one
`recover_expired` comes in between (every page of the history, every claim and every tick is one), the item is
written as not sent, the request leaves all the same, and nothing corrects the history
afterwards: a final answer or a receipt only changes pending items. Such a submission is `late`.
`HistoryTellsTruth`, `NoSilentRepeat` and `KeepsLedger` say what holds of all the others,
whatever the late ones do: the "not sent" of a late item may be false, a source may be sent again without
consent if one of the two submissions is late, and to the ledger it was never posted. Without `late` TLC finds
each of them violated. Section 9 of `docs/design/automatic-encoder.md` calls an attempt without
`request_started_at` provably unsent and safe to plan again; the late ones are where the code does not keep this.
`recover_expired` reads its rows and writes them later when it is called outside `claim`; here it is one step.

`SendingEnds` (run `services`, part "history") needs that living senders go on, that Kensetsu
decides, that the history is opened now and then (`RecoverExpired` runs with every page,
tick and claim) and that the worker goes on asking for receipts. A killed sender needs the expiry only.

Left out: `source_conflict`, replies without paths, `retry_of`, the repair script, and
the unreadable receipt that ends a recovery.

**Not a finding of a run, but seen while modelling.** `claim` looks only at the newest
live item of the same file and presets (`encoder_history.py:176-184`). G1 becomes
unknown, G2 is sent with `acknowledge_unknown`, and the receipt of G1 says "processing"
(`encoder_receipts.py:52-57`): G1 is "sending" again, but G3 is only compared with G2.
`docs/design/automatic-encoder.md:139` says «активный `sending` не обходится даже
подтверждением». `Latest` models what the code does; `NoSilentRepeat` still holds, because each of
G2 and G3 had somebody's consent.

## 7. Encoder: AutomaticEncoder

| variable | code |
| --- | --- |
| `on`, `participating`, `gen`, `rev`, `seen` | the switch, tracking, its generation, the policy revision, and the versions known to it |
| `cand`, `token`, `live`, `link`, `crev` | a row of the queue: state, `claim_token`, lease, `submission_id`, `policy_revision` |
| `wanted` | rows a person has queued (`backfill`) |
| `at`, `key`, `prior`, `params` | a tick of the worker: where it is and what it has read |
| `sub`, `source`, `log`, `begun` | submissions, as section 6 has them: one item, its file, the older ones, the intent |
| `cooldown` | `encoder_auto_server_retry_at` |

`Start` is the intent of a tick. Like the code it looks at the permissions and not at the item, so a submission that has
expired is begun, and `Hear` leaves it as it is. `CandidatesTellTruth` and `QueueNeverRepeats` speak of
what the items record, which section 6 ties to what was sent, but for late submissions. HTTP 202 leaves the item
"sending" (`Hear`) until a receipt comes. A manual submission is only stopped by one of the queue that is being
sent: what is accepted or in doubt a person may confirm, and another manual one may have other presets.

What the archive, a file, its readiness and the server say is a fact that may change
between any two transactions (`SourceFacts`). All permissions are
checked three times, by `Reconcile`, `ClaimNext` and `MayStart`, the last together
with the intent; `IntentIsPermitted` says that only the last one counts and that it is enough.

The run `encoder` asks two questions, chosen by the first state. Part "history" has a
manual batch of two files with the same bytes, the same request a second time, and an
automatic submission of one of them; `m2` and `a1` do not both come, since
each conflicts with `m1` by another rule and not with each other. Part "queue" has two ticks, a
manual submission and two generations of tracking; the second tick only comes while
the manual submission is out of play or stands, unsent, in the way of the first; new
parameters and the manual submission fall into the first generation
(`InOrder`, `TwoAreEnough`). Without these bounds no
conflict of two is added, only of three. `ClaimEnds` is in the run `services`; it needs
that leases run out and that reconciliation comes round to every row (it takes those that wait longest first).

Left out: alerts to the bot, the reasons shown, dialogues, and that equal bytes under
another info hash block as well, which section 6 has.

## 8. Polling: EncoderTracking and UiEvents

**EncoderTracking.** `remote`, `output` are Kensetsu; `known`, `avail`, `doubt` a row of
`encoder_jobs`; `holder`, `leased`, `line` its claim, lease and place among the due;
`targets`, `found` what a call of `poll_encoder_jobs` has claimed and seen. `asOf` and
`answer` are history: how old the answer in the row is, and what it said about the
file. A poll claims (`ClaimDue`), makes up to two requests (`GetJob`, `HeadFile`),
saves if the claim is still its own (`Save`), and releases the rest (`EndPoll`); it may die
(`Die`) and its lease may run out while it waits. `NoOlderAnswer` says that rows never
go back in time; `TrackingCatchesUp` that they show the last state in the end.
`LinkIsFresh` (proved, in no run) says that a download link rests on the newest answer.
In the run two polls take one job each, so that a due job may wait behind another.

**UiEvents.** One action is what the event loop does between two awaits; the read of the tokens is in a thread and may
be overtaken. `subscribed`, `base`, `born` are the `_ChannelState`s; `stream`,
`pending`, `woken`, `outgoing` the streams; `poll`, `snapshot`, `mine`, `read` the
poll task; `view` the data a page shows. `BaselineIsOwn` is about the
token of a channel that was dropped and made again during a read; `ChangesReachThePage` about
wake-ups, tasks that end while a subscriber comes, failed reads and reconnecting pages. What makes
it true at each step is proved, in no run: `NobodyIsDeaf` (no subscriber without task, stream or
wake-up) and `ChangesAreOwed` (a subscriber is told of every token after its baseline, and what it is
owed stays owed until the page has fetched it).
Fairness: streams and the poll task go on; nobody has to come, to change anything or to leave.
A token is a number of changes; what the queries compute it from is left out.

## 9. Release synchronisation: ReleaseSync and CatalogSweep

**ReleaseSync** is the pass over one release. `api` is what AniLibria lists; `arch`,
`shown`, `seenIds` the archive, `api_present` and `seen_torrents`; `added` the version the
pipeline was handed last; `checkpoint` the fingerprint of `release_checkpoint`;
`lock` the session lock, with `Pool` for a connection whose answer was lost;
`stage`, `list`, `todo`, `fetched`, `erring` a pass; `failed`, `retried` the recorded
failures. Passes are of three kinds: `ongoing` comes again and again, a full pass and a
retry come once. `SyncCatchesUp` says that once AniLibria changes no more everything
it lists is archived, handed over and shown, and nothing else is. Only the steps of
passes are fair.

It exempts `slipped` torrents, and the run `sync_lost` shows why (section 14). Three
properties of the pass are proved and in no run: `PassIsAlone` (no two passes work
under the lock of the release), `NothingStaysHidden` (what AniLibria lists and the pipeline was
not given does not count as done, so the next pass takes it up, but for what slipped),
`CheckpointIsTrue` (a checkpoint lists only what the pipeline was given).

The checkpoint is written, cleared and compared with the list, but no pass leaves out a torrent because of it: `ongoing`
asks it only whether metadata in qBittorrent are to be refreshed (`ongoing.py:261`), and
`process_release` asks it for a log line and a number once every torrent has counted as seen. So nothing in `SyncCatchesUp` depends
on what it holds. What hides a torrent from the next pass is `seen_torrents` and the archive, and these
are read (`Done`, `Changed`).

The list of torrents is fetched before the lock is taken, so a stale list may mark a newer torrent as
absent until the next pass; `refresh_meta` is decided from the markers of the schedule while the
checkpoint stores those of `get_release`; metadata qBittorrent still waits for counts
as no error. The model has the first; the other two concern data it leaves out.

**CatalogSweep** is the full pass over the pages of the public catalogue, of which a
release shifts to the front whenever it changes. `NoFalseAbsence` says that nothing listed is
swept, though pages shift, calls fail and the job breaks off; `SweepCatchesUp` that the checks
of `CatalogScan` do not reject a catalogue that fits, also when its length is a
multiple of the page size. A listed release may change and come first at any time (`Touch`), and
any number may be published or withdrawn (`Enlist`, `Delist`). `NoFalseAbsence` asks for `OneWay`:
during one pass the catalogue only grows or only shrinks. Totals compensate otherwise: with `1 2 3 4`, pages of two and the first
page read, let 1 be withdrawn and 5 published, and 3 and then 2 change: the catalogue is `2 3 5 4`, the second page
has 5 and 4, all numbers fit, and the listed 3 was never met. The code sweeps it until the next pass. The order in which the releases
of a page are processed is left open. `arrived` exempts what is published
or archived by another job while the pass is under way: such a torrent is swept until the next
pass, as `docs/PROJECT_PLAN.md:52` admits. An empty catalogue is never believed. Four
releases, pages of two and two changes of the catalogue meet a change at every position.

## 10. File hashes: FileHashes

`stamp` is a file as it is; `diskHash` its row of `disk_file_hashes`, a hash with the size and time
the file had before it was read; `hand`, `ahead`, `hashing` a pass of
`hash_paths_parallel`; `folderDone` the checkpoint of the backfill. A file may be written between any two
steps. `BelievedHashIsTrue` says that a hash passing the size and time gate is that of the
content; `BackfillCovers` that a backfill that was stopped and resumed leaves out nothing but what changed or
failed meanwhile. In the run there are two folders, a backfill and a hash job of one torrent.

Contents do not come back and each write changes size or time. Two inserts of one path at once
make one of them fail in the code; here the later write wins. One thread per pass.

## 11. File versions: FileVersions

| variable | code |
| --- | --- |
| `latest`, `comp`, `contents` | versions of one torrent, the paths of each, and what they contain |
| `onMaster`, `disk` | the master's torrents, and the files, which versions share |
| `digest` | `disk_file_hashes`: one row for a path, whichever version it is of |
| `ui` | `torrent_files.ui_status` |
| `noted`, `told`, `telling` | `file_change_events`, their `notified_at`, and how often people were told (history) |
| `job`, `base`, `firsts`, `added`, `fresh`, `older`, `unhashed` | a run of `track_torrent` and its locals |
| `settled`, `unread`, `overtaken` | versions with settled statuses; paths that run could not read; paths whose older hash is no longer known (history) |

`StatusIsHonest`: once a hash job has settled the statuses of the latest version they are what
the contents say, and neither another run, nor the inventory, nor an early
synchronisation, nor a job that breaks off makes them untrue. A path that could not be read
is the one case in which a status may be wrong without anything being lost: `hash_paths_parallel` counts the error and
leaves the row as it was (`SkipPath`), `track_torrent` settles without asking for errors, finds the hash of the version before equal to itself and
writes "ok" for a changed file; `jobs/hash_torrent.py` does not fail because of errors either. `StatusIsHonest` allows
exactly this, for the paths in `unread` and until a later run reads them. `NewsIsToldOnce`: when a hash job
has succeeded for a tracked release, with Telegram on, people have been told of each path it adds or removes, exactly once,
wherever earlier runs broke off. If the release is not tracked or Telegram is off nobody is told and the job
succeeds all the same (`KeepQuiet`, state "quiet"); its events stay pending for the next run.

The run `hash_jobs` (part "files") has two versions, two paths and three hash jobs. The path `e1` is in the first
version. The first version is hashed, and a third job comes, only if no other path is there
(`OnePathIsEnough`): a second path matters for compositions, and
a third job for runs that break off twice, and statuses of paths do not depend on each other.

Both properties leave out `overtaken` paths. The code loses what it needs there:

- A hash job that is stopped or killed while it hashes leaves the new hash in
  `disk_file_hashes`. The next run takes it for the hash of the version before and settles "ok" although the
  file has changed. `docs/design/automatic-encoder.md:33` says «`changed` подтверждается
  расхождением хешей; `ok` — совпадением», and :223 that a rebuilt path is sent once.
  TLC shows it in eighteen states as a violation of `StatusIsHonest` when `BreakJob`
  leaves `overtaken` alone. `OkIsConfirmed` states the same without any exemption and is in
  no run; TLC's shortest counterexample to it is the second case below.
  The same happens when `hash_backfill`, or the job of an older version, hashes the path first.
- A version is published before the one before it has rows, or before its files were hashed.

An unread path is a third way in which `OkIsConfirmed` is false of the code.

Two more observations. `_prior_archive_same_torrent_id` takes any other version,
newer ones too, so that the inventory of `hash_backfill` (`qb_inventory.py:402`) rewrites the
`new` rows of the first version to `ok` while it is still on the master;
`docs/PROJECT_PLAN.md:85` says that a historical status may not be replaced.
`StatusIsHonest` speaks of the latest version, so it does not show this. And a `modified` event that was recorded but
not told before a crash is never told: the pending ones are only `added` and `removed`,
and the next run drops it as a duplicate. `NewsIsToldOnce` therefore asks for the other two kinds only.

Simplifications: versions keep the torrent id (a prior version found by release and
paths is left out), all files are selected, the thirty days after which events are no longer told (`_UNNOTIFIED_EVENT_WINDOW`) are
not modelled, nor are events of orphan and missing files.

## 12. The run `services`

Seven modules that share nothing are checked in one run; the first state chooses the part that
moves, and the fairness of each module holds for its part.

| part | instance | properties besides `TypesOK` |
| --- | --- | --- |
| "history" | an automatic submission of one file | `SendingEnds` |
| "queue" | a tick, a manual submission, one generation | `ClaimEnds` |
| "pages" | two pages of one channel, a change, a broken connection, a failed read, shutdown | `BaselineIsOwn`, `ChangesReachThePage` |
| "jobs" | two polls that take one job each, two jobs of which one changes, a failure or a death (`Few`) | `NoOlderAnswer`, `TrackingCatchesUp` |
| "release" | three passes, two torrents, two changes, one fault | `SyncCatchesUp` |
| "catalog" | four releases, pages of two, two changes of the catalogue, one fault | `NoFalseAbsence`, `SweepCatchesUp` |
| "hashes" | backfill and hash job, two files, one write to each, one fault | `BelievedHashIsTrue`, `BackfillCovers` |

Liveness properties hold of the other parts because those states do not move: they
are read part by part. What two submissions or two ticks do to each other is in `encoder`.

## 13. What is proved

TLAPS proves these for all values of the constants; the runs check the same
definitions on instances.

`JobRunnerProofs`: `TypeCorrect`, `InductiveInvariant`, `SlotsAreExclusive`,
`HandlersAreExclusive`, `ShutdownIsComplete`, `FinishedRowsAreFinal`,
`StopRequestsWin`, `LiveJobsAreKept`, `HandlersAreCalledOnce`, `ImplementsTable`. The argument is one
inductive invariant, `IInv`. `OneActivePerSlot` alone is not inductive: it needs
that a creation holds the lock of its type until its row exists (`CheckedInv`) and that a
fresh row belongs to its creator only (`CreatedInv`). That a live job is kept
needs that a run lock is held by exactly the thread or the reclaimer that uses it
(`RunnerLockInv`, `ReclaimLockInv`). The shutdown needs that whatever a thread
published as running is in the active set (`ThreadInv`) and that what a shutdown
has read stays its own (`ProcessInv`). Assumptions: `ReclaimersAssumption`,
`ProcsAssumption`, `JobsAssumption`, `NoneTypeAssumption`, `BoundsAssumption` and
those of `JobTable`; all say that special values are not members of the sets.

`TelegramOutboxProofs`: `OutboxType`, `OutboxInvariant`, `NoDuplicateUnasked`,
`TgIsTruthful`, `ClaimsStayFenced`, `RevokedGetNothing`, `FinalRowsAreKept`,
`PausesAreKept`, `ImplementsDelivery`. The heart of `IInv` is `ExposureInv`: what looks plainly
retryable surely was not delivered, and neither was what an innocent owner holds, one
that has not asked or was refused. `DeskInv` keeps a retry from acting on a row
that changed under it. While a revocation is open each of its rows is locked or has slipped (`HeldInv`), so
that its commit takes the claim away from every bot that has checked the recipient, but of a slipped row (`CheckedInv`).

`PipelineProofs`: `PipelineTypes`, `PipelineInvariant`, `ImplementsHandover`,
`NothingIsCancelled`, `NoHashIsForgotten`. That
nothing is done before the slave has had the torrent does not follow from one stage,
since an actor may act on what it saw before. `IInv` therefore ties three things
to the history of the copies: what a client shows (`CopyInv`), what each stage
means (`StageInv`), and what an actor at each step has seen (`ActorInv`: whoever is on
the way to the slave has seen a whole master, whoever is about to mark a row done a
whole slave). The proof has one lemma for each way to leave a row and one step for
each action; the refinement follows from the invariant and the same steps.
Two more invariants lie on top of it. `NoFalseCancel` only speaks of rows; it needs that, before
anything is removed, each stage and each question of an actor is borne out by a copy that is
there (`FoundInv`): a sweep asks only for rows whose copy the master has, a poll of
the slave looks at the row again. `HashIsPromised` needs that whoever is about to call a row
done has been preceded by somebody who queued the hash job or still stands where it is
queued (`HashInv`). Its conditions are exactly what the finding `pipeline_unhashed` breaks.
Assumptions: `WorkersAssumption`, `HooksAssumption`, `BoundsAssumption`, which say
that the actors are the code's and distinct and the bounds are numbers.

`EncoderSubmissionProofs`: `HistoryIsTrue`, `NoRepeatUnasked`, `RequestIdIsUnique`,
`LedgerIsKept`, `SettledIsFinal`, for any calls, files, presets and contents and with the expiry at any
moment. `HistoryTellsTruth` is not inductive: it needs what each step of a call
says about its item (`CallInv`, which only speaks of an intent that came in time), that what is on the wire, in Kensetsu and in the reader
fit together (`WireInv`), and `TruthInv`. That nothing is repeated unasked also
needs the order of entries (`AgeInv`): the newest live item of the same file
and presets stands for the older ones, each of which was answered for when the next was opened.
Assumptions: `CallsAssumption`, `FilesAssumption`.

`AutomaticEncoderProofs`: `AutoTypes`, `AutoInvariant`, `CandidatesAreTrue`,
`IntentsArePermitted`, `TheQueueNeverRepeats`, for any ticks, manual submissions, versions,
generations and revisions. `AutoInv` says what a candidate is entitled to (`KnownInv`), that
what is ready is nobody's (`ReadyInv`), that a link leads to a submission of the same bytes
(`LinkInv`), what a tick has in its hands at each step (`TickInv`), that a begun submission whose
fate matters is linked by its candidate and held by nobody else (`SentInv`), and that "accepted"
has an accepted submission (`AcceptedInv`). The weight is on `SentInv`: a lease may run out and
another tick may take the candidate while the first is between its intent and its answer.
That the queue never repeats follows from the check in `MayStart` against the order of
submissions (`OrderInv`). Assumption: `QueueAssumption`.

`EncoderTrackingProofs`: `NewestAnswerStays`, `LinksAreFresh`. Whoever still holds a claim
has seen nothing older than the row (`SeenInv`), and whatever says that the file is there
rests on an answer (`ConfirmedInv`). Assumption: `PollersAssumption`.

`FileVersionsProofs`: `FileTypesKept`, `NoNewsTwice`, `StatusesAreHonest`, `NewsIsTold`, for any
number of versions, paths and runs. What a job holds in its hands has
not been told (`NewsInv`): events about to be recorded were not recorded, fresh ones
not told, and an added path that was recorded has its row, so that the heal of the composition does
not add it again. The statuses need `HistoryInv`: a version has all its rows or none, so that the
prior version a run finds is the one before (`RowsInv`); what a job needs of the disk is there
(`DiskInv`); the hash of the version before is in the table until the job replaces it and in its
hands from then on, also when an earlier run has broken off (`OldInv`); statuses agree with the
contents as far as the job has come (`StatusInv`), and so do the events recorded and told
(`RunInv`). All of it is said of paths that were not `overtaken`: `OldInv` is false for
the others, which is the loss section 11 describes. Assumption: `VersionsAssumption`.
The proof found an ambiguity of the model: `SettledStatus` was a CASE whose guards
overlapped, where TLA+ leaves open which branch counts; it now follows the order of the code's
`if` chain.

`ServicesProofs`, the services of section 12 and their composition:

- UiEvents: `BaselinesAreOwn`, `NothingReadsAfterClose`, `SubscribersAreHeard`, `NoChangeIsLost`. A
  read only counts for channels that were registered all the time (`TokenInv`). Nobody is deaf
  because a stream that does not send has nothing left to send, so that the next wake-up
  overwrites nothing, and close leaves no subscriber to a task that ends (`HearingInv`). The last two
  are the safety part of `ChangesReachThePage`: fairness only has to make the steps happen.
- FileHashes: `BelievedHashesAreTrue`, `BackfillIsComplete`. A row is never ahead of its
  file and right when it is level with it, and so is what a pass holds (`TrueInv`); what lies
  behind the checkpoint or the pass has its hash (`BehindInv`).
- CatalogSweep: `NoFalseAbsences`. While nothing has failed, what was met is listed and the total is
  that of the catalogue, or the catalogue has changed its length and, as long as it goes one way only, no further page
  will fit (`Fresh`, `Stale`). A complete pass has therefore met as many releases as are listed, all of
  them listed, hence all of them: the step from numbers to sets is a cardinality argument, for
  which the releases have to be finite (`PageAssumption`).
- ReleaseSync: `PassesAreAlone`, `NothingIsHidden`, `CheckpointsAreTrue`. The lock is
  held by exactly the pass that works under it (`LockHeld`, which also covers a connection whose
  answer was lost); a pass has one version in hand at a time (`InHand`); a torrent that was
  seen was given to the pipeline and its active archive is that version, or it slipped, or
  somebody has it in hand (`GivenInv`); the same for the list a pass goes by and its
  checkpoint (`ListedInv`, `GivingInv`). Without `slipped`, `GivenInv` is false: `sync_lost`.
  Assumptions: `VersionAssumption`, `FreeAssumption`.
- All seven: `ServicesKeepTypes`. No service touches another's variables
  (`ServicesAreApart`), so each keeps its types, with what its own invariant needs for that.

Every safety and every action property of a passing run is thereby stated by a theorem. Only
model-checked is everything under fairness: `Resolved`, `DueRowsAreTaken`,
`ClaimsEnd`, `Settles`, `DoneAtLast`, `SendingEnds`, `ClaimEnds`, `ChangesReachThePage`,
`TrackingCatchesUp`, `SyncCatchesUp`, `SweepCatchesUp`. The prover does not do ENABLED, which weak
and strong fairness are made of. Induction over data is out of its reach as well; no
property here needs it. Conversely `OneActivePerSlot`, `HandlerOwnsSlot`, `HandlersRunOnce`,
`TerminalIsFinal`, `FinalRowsStay`, `OneSubmissionPerRequest`, `SettledStays`, `LinkIsFresh`,
`NoReadAfterClose`, `NobodyIsDeaf`, `ChangesAreOwed`, `HashIsPromised`, `PassIsAlone`,
`NothingStaysHidden` and `CheckpointIsTrue` are in no run: they are proved, or follow from a refinement that is checked. Each of the
proved ones was first tried by TLC on an instance.

## 14. Findings

Runs with `expect` "violation" check one statement of the repository that the code does not keep.

| run | statement | what happens |
| --- | --- | --- |
| `jobs_queued_reclaim` | `QueuedJobIsKept` | a job that waits behind a full executor is cancelled as an orphan (section 3) |
| `pipeline_reopened` | `DoneIsFinal` | the slower of two actors puts a row that is done back to `slave_added` (section 5) |
| `pipeline_unhashed` | `HashFollows` | a crash between `mark_slave_added` and the hash job leaves the torrent without one (section 5) |
| `sync_lost` | `FailureIsRetried` | a replaced version of a known torrent whose processing breaks off after `save_torrent` is taken for done by every later pass |

`sync_lost` in detail: `build_seen_exists_query` takes a torrent for done when its id or
hash was seen, and only the comparison with the active archive makes a new version
of a known id be processed. `save_torrent` replaces that archive in a commit of its own. When what
follows fails, the archive no longer differs and the id still counts as seen, so every
later pass skips the torrent and saves the checkpoint, the retry of the recorded failure included;
the comments in `torrent_processor.py:1721` and `release_checkpoint.py:86` say that a failure is to be retried.
Sections 6, 9 and 11 name further observations that no run is about.

## 15. Faults

A definition that nothing uses, standing before one that is used, is the form a
plausible bug would give it (`ClaimableAlways` before `Claimable`, `LongerLast`
before `Longer`). `PROJECT.json` pairs each with the property that notices it, so
that every property is known to depend on the code it is about.

## 16. Not modelled

- The ongoing watch list (`ongoing_watch.py`): one sequential pass under the slot of
  its job; its one delicate spot is the comparison `expires_at <= now`.
- HEVC pairing, SLA and notifications: a computation over names and batches, most of it
  parsing of titles; the rows it queues are section 4. The HEVC workbench is a read model.
- Orphan cleanup: it deletes what an inventory read earlier did not know, without looking again;
  there is no guard a property could be about, and the job is run by hand. The removal of
  torrents is a step of the environment of `Pipeline` and `FileVersions`.
- The backoffice source and its cache, release metadata, policies that deselect
  torrents, force loading, the notification baseline.
- Registration of chats, dialogues of the bots, pages, forms and filters: presentation over
  the services above.
- qBittorrent, AniLibria and Telegram clients, mediainfo and other parsers, configuration, logging:
  I/O and data without a protocol. Migrations run before the services start.
- `docs/runtime-eval` and `experiments` hold copies of modules for measurements; they are not
  part of the running program, and are the larger part of the repository's lines.

Time is never a number: what is compared with the clock is either past or not.

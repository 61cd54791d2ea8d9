# A verification of the AI API gateway

TLA+ models of the gateway under `app/`: a FastAPI service that keeps durable
text-to-speech jobs, a pool of provider API keys with quotas, query and usage
records, generated and stock media, a dashboard with members and credentials, a
model catalog, logs, and a blog. The modules are translated from the Python source;
the model checker TLC checks them on small instances, and the TLA+ proof system
TLAPS proves the theorems for every instance.

## 1. Inventory

| component | state it keeps | operations | hard behaviour | what makes it correct |
|---|---|---|---|---|
| TTS job engine (`services/tts/jobs.py`) | `tts_jobs` and `tts_chunks` rows, temporary and final audio in object storage, one heartbeat and one task per chunk in each worker | claim, generate, checkpoint, merge, complete, fail, clean up, renew lease | workers superseded while they run, crashes, lost commit answers, partial cleanup | a superseded worker writes no more than what it had under way; checkpoints survive; a completed job is whole and final |
| TTS maintenance (`services/tts/maintenance.py`) | a set of recovered workers, the page being swept | recover expired jobs, sweep unreferenced audio | two queries and a listing read at different instants, deletions later; LIMIT before filters | the sweep takes nothing a retry or a merge needs; expired jobs are recovered |
| TTS submission and streaming (`submission.py`, `streaming.py`, `api/v1/audio/router.py`) | job rows, the position of each reader | submit once per idempotency key, retry, stream | concurrent submissions; readers racing the cleanup | one job per key; a reader gets every chunk once, in order |
| provider key pool (`services/key_manager.py`, `api/v1/keys/router.py`, `api/v1/cron.py`, `tts/gemini_provider.py`) | `api_keys` rows: requests today, limit, active; a rotation cursor per process | select, reserve, count, mark as exhausted, daily reset, claim, edit | the counter is read before and written after a provider call; edits and resets in between | quotas respected, an exhausted key is skipped, keys take turns |
| query accounting (`api/v1/query/router.py`, `api/v1/generate.py`, `services/generation.py`, `query_maintenance.py`, `usage_tracker.py`) | query rows, usage rows | accept, call, finish, expire, record usage | maintenance expiring what is still running; failure after the call | every query ends once, usage counted once |
| query pipeline (`services/dispatcher.py`, `rule_engine.py`, `semantic_router.py`, `search_aggregator.py`, `model_router.py`, `core/cache.py`) | cached answers, final responses | look up, route, search, call, persist, store | two caches with different lives, filled by requests that race or end anywhere | only real answers are reused, never for a fresh request |
| model catalog (`provider_models_sync.py`, `openrouter_sync.py`, `model_endpoints.py`, `api/v1/dashboard/provider_models.py`) | `ai_models`, the older model tables, endpoints | synchronise, add, link, save an endpoint | unique names as the only lock between writers; deadlocks, partial failure | a synchronisation is whole or nothing |
| media generation (`generation_telemetry.py`, `media_gen_service.py`, `api/v1/image`, `api/v1/video`) | attempts in a JSON column, media rows | begin, call, record, settle | concurrent attempts on one row, cancellation, crashes | every call is on its row, a settled row is final |
| membership (`services/dashboard.py`, `member_lifecycle.py`, `customer_keys.py`, `api_key_service.py`, `access_policy.py`, `core/auth.py`, `api/v1/dashboard/`, `api/v1/apps/`) | memberships, users, requests, sessions, keys | sign in, invite, approve, reject, change, remove, issue and rotate keys | concurrent administrators; permissions read before a lock | revoked means revoked, one administrator left |
| sign-in (`api/v1/dashboard/router.py`, `api/v1/auth/`, `core/google_auth.py`) | OAuth transactions, tickets, email challenges | start, call back, exchange, send, verify | every step repeated or raced | single use, five answered guesses |
| blog posts (`blog/service.py`, `router.py`) | posts with a version, categories | create, update, publish, withdraw | optimistic versions; checks on rows that change | no lost update, permanent addresses |
| blog media (`blog/media.py`, `orphans.py`, `storage.py`) | objects with versions, asset rows | upload, retry, clean up, reconcile | uncertain commits, lost connections and their locks | a registered asset has its object |
| stock media library (`services/media_extractor.py`, `api/v1/media/`) | objects, rows | extract, delete | a bucket and a database without a common transaction | nothing out of reach, nothing promised and kept |
| Facebook pages (`services/facebook_management.py`, `facebook_client.py`, `api/v1/facebook/`) | a page row with its token; posts at Facebook | connect, disconnect, publish, change, cancel | answers lost, tokens replaced meanwhile | what the application is told is true |
| log archival (`core/logging_config.py`) | the current file, pending batches, the archive | append, seal, recover, upload | crashes between renames, failed uploads | no record lost or archived twice |

The components interact through the database (rows read in one transaction and
written in a later one), through object storage (not transactional with the
database), and by background tasks of the event loop. Awaits, commits, locks and calls of
the object store or of a provider are the points where the models interleave.

## 2. Modules and runs

| module | components | proofs |
|---|---|---|
| `TTSJobs` | engine, orphan sweep | `TTSJobsInv`, `TTSJobsProofs` |
| `TTSJobContract` | what the engine promises; `TTSJobs` implements it | in `TTSJobsProofs` |
| `TTSStream` extends `TTSJobs` | preview streams over the engine | in `TTSJobsProofs` |
| `TTSRecovery` | recovery of expired jobs, worker pools | `MaintenanceProofs` |
| `TTSSubmission` | idempotent submission | `ServicesProofs` |
| `QueryAccounting` | query rows, usage rows, maintenance of both | `QueryAccountingProofs` |
| `KeyPool` | the keys of a provider and their callers | `KeyPoolProofs` |
| `KeyRotation` extends `KeyPool` | the turns of the keys in Gemini speech | in `KeyPoolProofs` |
| `QueryPipeline` | how a question is answered, and reused answers | `GatewayProofs` |
| `ModelCatalog` | catalog, synchronisation, endpoints | `GatewayProofs` |
| `MediaGeneration` | images and videos, the account of their calls | `ServicesProofs` |
| `Membership` | members, administrators, keys of members | `MembershipProofs` |
| `SignIn` | logins and their single-use tokens | `GatewayProofs` |
| `BlogPosts` | posts and categories | `BlogPostsProofs` |
| `BlogMedia` | uploads, orphans | `MaintenanceProofs` |
| `MediaLibrary` | extraction and deletion of stock media | `MaintenanceProofs` |
| `FacebookPages` | a page, its token and its posts | `ServicesProofs` |
| `LogArchive` | log records on their way to the archive | `ServicesProofs` |

`MCTTSJobs`, `MCTTSStream`, `MCTTSRecovery`, `MCQueryAccounting`, `MCKeyPool` and
`MCQueryPipeline` only declare the finite sets, fault bounds and symmetries of their
configurations. Four runs check several modules at once:

| run | modules | distinct states |
|---|---|---|
| `gateway` (`MCGateway`) | `KeyPool`, `ModelCatalog`, `QueryPipeline`, `SignIn` | 1,988,481 |
| `dashboard` (`MCDashboard`) | `Membership`, `BlogPosts` | 858,374 |
| `services` (`MCServices`) | `KeyRotation`, `TTSSubmission`, `MediaGeneration`, `LogArchive`, `FacebookPages` | 250,603 |
| `maintenance` (`MCMaintenance`) | `TTSRecovery`, `BlogMedia`, `MediaLibrary` | 313,478 |

The modules of such a run share no variable, and no action of one reads a variable of
another, so the actions of two of them commute and every property is about one of
them. Interleaving them would multiply the states and show nothing that the modules do
not show alone. The variable `part` says which one moves in a behaviour, and the
others stay in one of their initial states. Where the code does connect two of them, the modules say what one
takes from the other: a login needs an approved member (`SignIn` has `approved` change
at any time), the blog needs permissions (`Editor`, `Admins`, `Publishers`), a call to a model
takes a key (any call of `QueryPipeline` may find none).

Deadlock checking is off in runs where a bounded system settles: with finitely many
tokens, requests or faults it stops.

## 3. The TTS job engine

### What is modelled

`TTSJobs.tla` follows `process_tts_job` statement by statement where the order
matters. A *run token* identifies the worker it was issued to, so `Token` is both the
set of tokens and the set of workers. State:

- the rows: `status`, `owner` (`run_token`), `lease`, `final` (`object_key`) of a job;
  `cstatus`, `ckey` (`object_key`) of a chunk;
- the workers: `pc` of the main coroutine, `task` of every chunk task, `keys` and `next`
  of the merge and the cleanup; a worker whose heartbeat has ended is one that takes no more
  of its `Heartbeat` steps;
- the object store: `store` (temporary audio, named by the token and the index as in
  the key `tts_audio/chunks/<job>/<token>/<index>.wav`) and `finals`;
- the sweeps: `spc` and the candidates `doomed`.

Every commit, object store call and re-read is an action of its own. A write has three
results (`WriteResult`): applied, refused (no row matches, or it fails before the commit), or
applied with its answer lost; the code sees an exception in the last two. `Die` is a
crash, a shutdown or a claim that never started its run, at any point. The listing of the
sweep, its two queries and every deletion are separate actions.

The two kinds of fenced writes differ. A write of the job (`_job_update`) tests the token on the row that it
locks, so it is one action. A write of a chunk (`_chunk_update`) tests it in a subselect, which locks
nothing in `tts_jobs`, and its UPDATE and its commit are two awaits. It is two actions
therefore: the statement (`StartChunk`, `Checkpoint`, `MarkFailed`, `FetchFails`) asks whether the worker
owns the job, and the commit (`StartCommits`, `CheckpointCommits`, `MarkCommits`, `SpoilCommits`, all
`ChunkCommit`) applies the write whoever owns it by then. When a claim commits in between, the write of the superseded
worker comes late. TTS_CHECKPOINTS.md (line 44) says that token-conditional writes prevent superseded workers
from committing checkpoints or final results; for final results this holds, for checkpoints
only up to such a write. The history variable `late` counts them, per worker and chunk. What they may do, as
the model shows: put a chunk that the successor has planned into "completed", so that the
successor generates it again; put a chunk that it has finished back into "failed" or "processing", so that its merge
fails; replace the checkpoint that it is about to merge, whose audio a sweep may then take; and leave a chunk
of a completed job in another status. What they may not do is in the properties: lose audio that a retry
would reuse, complete a job that has a chunk without audio, or follow one another (`FenceHolds`).

Abstracted: text, voices and audio bytes; the telemetry column and the
`attempts` counter, which nothing reads; URLs and notifications (`notify_frontend` never raises). Time is what the code
compares: a lease is live or expired, an object old or not. One assumption about
real time is explicit in `MayBeOld`: a worker does not take longer than the orphan age
(a day by default, at least two leases) between uploading a chunk and committing its checkpoint.
Without it `CheckpointsKept` would not hold, since the sweep reads the referenced
keys before the active tokens.

### Runs

- `tts_sweep` (1 job, 1 chunk, 2 tokens, 1 sweep, under `FairSpec`; 204,395 states): `CheckpointsKept`,
  `OwnerCanMerge`, and the liveness property `Settles`. Two tokens are what supersession
  needs: a late worker and its successor; one sweep suffices as sweeps only delete and share no state.
- `tts_retry` (1 job, 2 chunks, 2 tokens; 935,603 states): `CompletedIsWhole`, `FenceHolds`, the
  action properties `CheckpointsNotRepeated` and `CompletedIsFinal`, and
  `ImplementsContract`. Two chunks are needed for a job that is partly done. The contract promises that
  progress is kept, whoever made it: its `Save` is open to a worker that was in charge before.

`Slots`, the chunks that a worker has under way at once, is 1 in these runs, as a setting of
`tts_gemini_concurrency` or `tts_kokoro_concurrency` may be; the proofs are about any number.
A page of the listing holds at most `PageSize` = 1 object in these runs.

### Fairness

`FairSpec` assumes that a worker's coroutine takes its steps (asyncio schedules it, and
its awaits have client timeouts), that the clock passes the lease of a job whose worker
is gone, and that the maintenance loop then claims it. No fairness is assumed of retries,
crashes, heartbeats or sweeps. `Settles` allows a job to stay behind only
when the bounded supply of tokens is used up.

### Proofs

`TTSJobsInv.tla` states the inductive invariant `IInv`, needed because none of the
properties is inductive alone: that a worker's audio is safe depends on who may still
commit it (`KeyInv`, `Uploaded`, `CheckpointInv`); a completion is whole because only late writes
change the chunks between `Collect` and `Complete` while the worker owns the job
(`OwnedInv`), and these never take a key away; cleanup is harmless because the job is then completed for good
(`MergeInv`); `SweepInv` says what a sweep may hold between its steps. `LateInv` is why a worker is late only once per
chunk: it has then lost its job, no later statement of it passes the fence, and it had only one write to that chunk under way.
`TTSJobsProofs.tla` proves, for every number of jobs, tokens, chunks, slots and sweeps:

- `Invariance`: `Spec => []IInv`, one lemma per action that writes rows;
- `TypeCorrect`, `CheckpointsAreKept`, `CompletedJobsAreWhole`, `OwnersCanMerge`, `TheFenceHolds`;
- `StepIsRowStep`: every step is, on the rows, one of a few kinds; from it the action
  properties `CheckpointsAreNotRepeated`, `CompletedJobsAreFinal` and
- `Refinement`: the engine implements `TTSJobContract`.

Assumptions: `N`, `Slots` and `PageSize` positive, `None` neither a token nor a job. Only
model-checked: liveness (`Settles`).

## 4. Preview streams

`TTSStream.tla` adds the readers of `stream_chunks` to the engine. A reader polls
the rows, emits chunks in order while they are ready, and ends with the job; when the
checkpoint of a completed chunk is gone it reads the rows again and cuts the chunk from
the merged audio. Its snapshot comes from two queries, so `ReadJob` and
`ReadRows` are two actions: the job row is the older one. `outage` is not a variable of the
code; it records readers whose object store call failed, which excuses an error.

- `stream_race` (1 reader, 1 job, 1 chunk, 2 tokens; 1,396,207 states): `StreamIsWhole`,
  `FallBackWorks`. Completion, cleanup, crash and retry race the reader.
- `stream_ends` (1 token; 7,793 states): `StreamEnds`. The fairness of the engine, and
  that of a reader, a coroutine whose awaits have timeouts.

Both properties allow for the late writes of section 3: a stream may end at a chunk of a completed job that such a write
has put back, and a chunk written again since the snapshot is not found where the snapshot says.

The order of the two queries matters: read the other way round, a stream may say
"completed" before the last chunk (the mutant `QuerySwapped`).

`TTSJobsProofs.tla` proves both safety properties for any number of readers, jobs, chunks and workers. The
invariant of the engine is not enough: it protects the audio of *completed* chunks, and a chunk that a
reader saw completed may have been reset by a retry before its audio is fetched. `CheckpointInv` is the
strengthening: as long as a job is not completed, the audio of the checkpoint that a chunk names is stored,
whatever the chunk's status. `ReaderOK` says what a reader relies on: a chunk that it saw completed was uploaded by a
worker that is done with it (`Done`, which no step undoes, so that audio which is gone is never
put back), and a job that it saw completed has every chunk in the later snapshot of the rows. `StepKeeps` shows of
each step of the engine that it leaves all this alone.

## 5. Recovery of expired jobs

`TTSRecovery.tla` models `recover_expired` and the pool of `maintenance_loop` in every gateway
process. A job is its position by `created_at`; a lease is numbered by its claim, so
`<<j, n>>` is the worker of the n-th claim. A pass reads the oldest expired jobs
under a LIMIT, which is the capacity left in the pool, then looks at them one by
one, refuses or claims them, and starts the claimed ones together. Claims are conditional
updates, so two processes that selected the same row race. `Hidden` jobs are excluded
by the query, `Refused` ones by the loop, after the LIMIT. The work of a worker is a
single step here; `TTSJobs` has it in full.

- `maintenance`, in part (4 jobs, one hidden and one refused, 2 processes, 1 fault; 61,746 states): `ServedOnce` (a
  claim is served by one process), `Recovered`.
- `recovery_starved` expects a violation: with the two oldest jobs refused, every page of two
  holds just these, and no younger job is ever recovered, where
  TTS_CHECKPOINTS.md says the loop recovers expired jobs. A LIMIT
  applied after the refusals would remove this finding.

Fairness: the loop repeats, a worker ends, the clock passes a lease whose worker is
gone. Faults (crashes, failing commits, lost workers) are bounded by `MaxFaults`.
`MaintenanceProofs.tla` proves `TypeOK`, `PoolBounded` (never more than two recovered workers, through `PoolInv`: what is selected
and claimed still fits the capacity left) and `ServedOnce` (through `ClaimInv`: claim
numbers in use are not above the row's), for any number of jobs, processes and faults.

## 6. Idempotent submission

`TTSSubmission.tla` models `submission_identity` and `generate_tts_endpoint` on PostgreSQL,
where an identity has a transaction-scoped advisory lock (external: it is granted when free,
and released by commit, rollback or a lost connection). Under it the endpoint looks
for the job, compares the fingerprints, or inserts and starts the background run.
A request may crash between any two steps, and a retry is another request.

In the run `services` (3 requests, 2 identities, 2 inputs, those of the first request named once: all of them
are alike): `StartedOnce` (a job's first run is
started at most once), and `Answered`, that a request that has arrived ends unless it crashes. For it
requests take their steps (`WF` of `Step`), and the lock goes to some waiter. The module's definitions
are `stage` for what a request does and `lockOf` for the holder of an identity's lock.

`ServicesProofs.tla` proves `StartedOnce`, `SameInput` (no client is given the job of another input) and
`NoCollision` (no insertion meets the primary key) for any sets of requests, identities and
inputs. `LockInv` says that whoever looks or inserts holds the lock; `OwnerInv`, who
made the job; `AnswerInv`, what an answer is about.

## 7. Queries and usage

`QueryAccounting.tla` models the life of a query row: `generate_content` and the query endpoint,
which write it from a request, and `query_maintenance.py`, whose passes in every process
settle what was abandoned and count the usage of what was completed. A row is what the compare-and-set on
`meta_fields` distinguishes; what a request or a pass has read is a literal copy
of it, carried across the awaits (`mine`, `seen`). The compare-and-set and the insertion
of the usage row are one transaction, and one action; the
reading of a page, every row of it and every commit are actions of their own. "failed" stands for
cancelled rows too, and usage "none" for `not_applicable`. Timestamps are replaced by
their rank when a pass begins, as only their order is used; the order within a page is
free.

One assumption about real time is explicit in `Age`: a row becomes stale
(`STALE_SECONDS`, ten minutes) only after its request has ended, since a request is
cut off after three minutes, including its final write.

- `queries` (2 queries, one per endpoint, the first never accountable; 2 processes, pages of 1 row,
  1 fault; 238,278 states):
  `CountedOnce` (at most one usage row per query), `CompletedIsCounted` (usage only of completed queries, and recorded
  when the row says so), `AnswerAgrees` (the client was not told the opposite of the row),
  `Settles`, `Accounted`. A bad row and pages of one show that
  rows which cannot be accounted rotate out of the way of the others. `Accounted` excludes
  passes of two processes that disturb each other for ever: TLC shows that in lockstep each
  can defer the row between the other's read and its claim, which the independent
  intervals of the loops make a matter of chance.

Fairness: a request ends by its timeout, time passes, the maintenance loop repeats. Faults
bound the failures of passes; requests may crash at any time. `QueryAccountingProofs.tla` proves the types, these
safety properties and `SettledIsFinal` (a settled row is not settled again) for any number of queries, processes and rows per page. `RequestInv`,
`UsageInv` and `ReadInv` are needed since a successful compare-and-set only shows that the row still equals
what was read; the invariant says what follows from that. Liveness is
model-checked only.

## 8. The pool of provider keys

`KeyPool.tla` models the keys of one provider (`key_manager.py`) and everyone who uses
them. A key is its id; `limit` 0 stands for NULL, which the schemas keep apart from
numbers (`ge=1`). There are three kinds of callers, because the code treats them differently:

- queries (`call_llm`, `generate_text`, `_post_media`, live speech) read the eligible
  keys, and then try one conditional update per key, each with a commit of its own
  (`SelectToReserve`, `Reserve`, `NoKey`);
- Gemini speech (`_synthesize_chunk`) selects after a cursor under a lock of its process
  (`SelectAfterCursor`, `MoveCursor`) and counts after a success (`MarkUsed`). One selected key serves all
  the chunks of a text: each is a call, counted on its own, and the key changes only when it is refused;
- keyword extraction selects by priority and counts after a success; it takes any exception
  that reads like a quota failure for one, its own parsing errors included.

`mark_key_quota_exceeded` is two actions, `ReadLimit` and `WriteExhausted`, as is the code. Administrators add,
delete, move, edit, enable and disable keys, claim them, and reset the counters, at any
point. Which of the eligible keys a query gets is free: priorities and `total_count` only order
them. `SKIP LOCKED` lets a claim pass over a key, which the freedom of `Claim` includes.
A process restart, which forgets the cursor, is not modelled. The history variables `granted`, `edited` and
`exhausted` remember what was reserved since the last reset, and which keys had their
limit changed or were marked.

- `gateway`, in part (one key, limit 1 or none, 2 queries, a speech caller, a keyword extraction, one
  call each, 2 administrative steps; 1,084,013 states): `QuotaRespected` (requests reserved since the last reset
  are within the limit), `ExhaustedIsSkipped` (a marked key is not offered again before a reset or a
  change of it). One key is enough, since a step of a caller touches one key and the properties are of
  single keys; two queries race for its last request, and the others disturb the counter. The second
  chunk of a speech is reached in `services`.
- `keypool_stale` expects a violation of `MarkedIsSkipped`: the limit is raised between the
  two statements of `mark_key_quota_exceeded`, which then writes the old limit into the
  counter. The key that was refused is offered again, where the docstring says that the counter
  is set to the limit "so the key is skipped on next call". `UPDATE ... SET requests_today = daily_limit`
  would remove it. It is why the other properties exclude keys in `edited`.
- `services`, in part (three keys without limits, 2 concurrent speech callers of one process, 2 calls
  each, 1 administrative step; without limits the counters decide nothing, and no count is taken): `RoundRobin`, over the history variable `waiting` of
  `KeyRotation.tla`: no key has a second turn while another has been eligible ever since the first. Three
  keys are needed for a turn to be skipped or taken out of order. The mutant without the lock breaks it.

A reset also enables keys that an administrator had disabled, and a refusal that arrives
after midnight marks the key for the new day. The code does so by design or says nothing about it, so no
property is stated.

`KeyPoolProofs.tla` proves the types, both safety properties and `OvershootBounded` (callers that count
afterwards exceed the limit by at most the calls they make: a speech looks at the counter when it
selects a key, and not again before its other chunks) for any number of keys, limits,
callers (finite sets) and processes, with no bound on calls beyond `MaxTries` and `MaxAdmin`
being numbers. `NotedInv` says that the limit a caller noted is the key's, unless it was edited; it makes
the absolute write of `WriteExhausted` safe. `GrantInv` bounds reservations by the counter and by the limit;
`SkipInv` says why an exhausted key is off. `OvershootBounded` is inductive itself, and its proof
compares the set of calls that may yet be counted (`Prospective`) before and after a step (`Kept`).
The same module proves `RoundRobin`. `WaitInv` says that, going round from the cursor,
a waiting key comes before the key it waits for (`Between`); `LockInv`, that a selecting caller holds
the lock, so that the cursor is where it was read.

## 9. Questions and their answers

`QueryPipeline.tla` models `process_query` for the requests of one application that ask one question:
the look-up in Upstash (kept an hour, or a week for fixed answers), the rule engine's look at the responses
of the last hour, the route by rules or the semantic router, up to `Engines` searches with their
fall-backs, up to `MaxCalls` models, the final response, and the entry in the shared cache. A question is
the route it takes: news and unknown ones search, mathematics goes to a model, greetings have a fixed
answer and the time of day one that is never kept. A request may fail at any step. What a search or
a model returns is an answer of some kind (`answered`, `degraded`, `failed`), with its author, the
time it was composed and what sort of text it is, which is what reuse can get wrong. A hit of the rule engine is optional, because the code examines only the
last ten responses of the application.

- `gateway`, in part (2 requests, times 0 to 2, an hour of 1, a week of 2; 566,431 states): `ReusedIsSound`.
- `answers_age` expects a violation of `ReusedIsRecent`: both cache hits are recorded as new completed
  responses, so the rule engine's "1-hour query cache" renews an answer each time it is
  reused. Three requests and three instants are the least that show it.

What a cache entry goes through is part of the model (`Text`, `Garbled`, `LookUp`). `core/cache.py` stores the bytes of a
payload as latin-1 text and reads the text back as UTF-8. A payload of 512 bytes and more is compressed, and
never recognised again: each look-up is a miss. A shorter one with characters beyond ASCII is a hit
whose characters are others ("Zürich" has become "ZÃ¼rich"); the code serves it and records it as a completed
response, which the rule engine may reuse. What `ReusedIsSound` says of it is what is
true: an answer is garbled once at most, because an answer that was reused is never put into the shared cache.

`GatewayProofs.tla` proves the types and `ReusedIsSound` for any requests, engines, models and times. What makes it
inductive (`PipelineInv`) is that every completed row, those of cache hits included, repeats an answer that its
author recorded, garbled once or as it was (`Genuine`), and that a request has no row of its own before it persists one (`RequestInv`), which
is why a reused answer is always another's.

## 10. The model catalog

`ModelCatalog.tla` follows the statements of a synchronisation: each model is selected, and updated or
inserted, under the row locks and unique names of PostgreSQL; the whole is one transaction. `BreakDeadlock` is the
database's choice of a victim among two synchronisations that lock the same rows in different orders;
`BreakDown` a lost connection. Administrators add models and endpoints; an endpoint keeps a row of
`tts_models` or `media_models`, found or made, for what still refers to it. The row that `usage_tracker.py` inserts when an
answer names a model that is not in the catalog is left out; for the others it is a row that somebody inserted.

- `gateway`, in part (3 writers, 2 models, 2 providers, one lost transaction, a row from before
  the catalog or none; 312,669 states): `CatalogIsWhole`. Two synchronisations and an
  endpoint, or two endpoints and a synchronisation, are the races of this code.

A synchronisation also enables models that an administrator registered as inactive, and may change
the provider of a model under an endpoint's older row. The first is by design of the upsert; the
second is the exception in the property.

`GatewayProofs.tla` proves the types and `CatalogIsWhole` for any writers, models, providers and breakdowns.
`SyncInv` says that what a synchronisation is done with was written by it or is as it wants it, and that it flushes
one name at a time; it holds in spite of other writers because only synchronisations change a row that is there, and
what one of them wants, the next wants too.
`LinkInv` keeps what the writer of an endpoint has read: the model has the provider that was read unless a
synchronisation that succeeded has taken it over (`Claimed`).

## 11. Members and sign-in

`Membership.tla` has every handler that changes a member as one transaction: it takes its locks in
the order of the code (`First`, `Further`), checks what each lock protects when it gets it (`Accepts`),
and writes at its commit. `Lock` names rows of `dashboard_memberships`, `users` and
`access_requests`, the foreign-key locks of audit rows (`Ref`), which conflict with updates of the referenced row, and
the advisory lock of changes by administrators. What a handler has read earlier, it keeps: `enable_api_access`, `reject` and
the key vault act on the role that was read when the request came in.

- `dashboard`, in part (administrators a and b, a third person c with four starting situations, 2
  handlers, 2 requests, 1 other event; 553,626 states): `RevokedHasNothing`, `AdministratorRemains`,
  `OnlyLateAuditsDeadlock`. Two administrators are what it takes to remove each other. Permutations of
  the administrators and of the handlers are symmetries.

Boundaries that the properties draw. Expiry dates are apart from `AdministratorRemains`:
two administrators may each give the other a date, and `protect_administrator` accepts another
administrator whose access expires later, so that one day none is left. `stray` keys are apart from `RevokedHasNothing`: they are
keys issued to a user who had no membership when the handler looked, and legacy keys that
`link_legacy_key` gives to an app of a member who is not approved. That handler locks nothing and looks at no
membership (`LinkLegacyKey`), so a revoked member's app may get an active key at any time; a
legacy key that was linked before the revocation goes with the others. `verify_api_key` looks at the
membership anew, so that a stray serves nothing before the member is approved again. Handlers that
write the audit row after locking the target's row can deadlock with a change of the actor; the
property says that no other circle exists. `protect_administrator` adds nothing to
the check of the actor under the advisory lock, who is an administrator that remains; the mutants therefore change the locks.

`MembershipProofs.tla` proves the types and the three properties for any members, requests, changes and starting
situations with an administrator. The invariant `MembershipInv` is an argument about locks: `Shape` says that
a handler, of another kind than `enable_api_access` and `reject`, has taken a prefix of the locks of its kind, `Exclusive` that no two hold conflicting ones, and
`Knows` what each has read under its locks and still relies on; whoever writes those rows needs one of these locks,
so that a commit disturbs nobody (`OthersWithoutAdvisory`, `KnowsUnchanged`). For the deadlocks, `LockOrder` shows that every
handler but `enable_api_access` and `reject` takes the advisory lock, memberships, requests and users in one
order; a circle of any length would need a handler that waits for a lock below one it holds.

`SignIn.tla` follows a login from the redirect to a session: `oauth_transactions` are consumed by a
conditional update, a ticket is exchanged once, an address that Google does not vouch for is confirmed by a code of
which five wrong guesses are answered, and one code is sent a minute. A wrong code is compared in one step and its
attempt committed in another (`WrongCode`, `CountAttempt`), with the challenge locked. Browsers repeat and race every
request; handlers fail anywhere; transactions, tickets and codes expire; the membership is approved or not at any time.

- `gateway`, in part (three logins: dashboard, with a code, gateway; 2 handlers, 6 wrong codes; 25,368
  states): `OneSessionPerSignIn`, `GuessesAreLimited`. Six guesses are one too many. Besides `SignInInit`
  the instance starts in states that `SignInInit` leads to, with the code sent and some wrong codes
  answered (`CodeSent`): the same states, by shorter paths.

`GuessesAreLimited` counts the codes that were answered as wrong. The code compares before it commits the
attempt, so that a request that dies, or whose commit fails, in between has compared a code that does not
count; whoever sent it gets no answer that tells a wrong code from another failure.

`GatewayProofs.tla` proves both and the types for any logins and handlers. `LoginInv` and `WorkInv` say that a request
which may still lead to a session is the only one about its login, that no session exists before it ends, and that a verification
holds the lock of the challenge whose attempts it has read.

## 12. The blog

`BlogPosts.tla` has the saves of posts. A handler reads the row, checks permissions and the
version on what it read, and writes the row where it still has that version; `Write` takes the locks of
the row, of its address (a unique index) and of a new category, which the commit releases. The row of a post
is the last of its `versions`; the earlier ones, and who saved each from which version (`by`, `seen`), are history variables. Content, assets and derived texts are left out; "archived" is any status but published.
Creation has no idempotency key in the code: a repeated creation is another post.
`Publishers` are the members with the permission to publish and a complete profile. The code asks for the profile
only when a post becomes or stays public (`publish_permission`), so that a member with the permission and an incomplete
profile may withdraw a post; that withdrawal is left out, and it makes no post public.

- `dashboard`, in part (2 posts, 2 handlers, 3 saves, versions up to 3, an author and a publishing
  administrator, 2 locales; 304,748 states): `NoLostUpdate`, `OnlyPublishersPublish`, `AddressIsPermanent`. Three saves
  let a post be published, withdrawn and edited again, and two saves race for one version, one address or one category.

`BlogPostsProofs.tla` proves the types and all three properties for any numbers and sets. `SaveOf` is
the strengthening: what a save holds was made from a version of its post that is still there
(`Follows`), and from the last one once the save holds the lock; `LockInv` says that only one save holds it.
Nothing about permissions is checked at the commit, and the proof shows why it need not be: the
version check fixes the row that they were checked on.

`BlogMedia.tla` has the uploads of assets. The client's token names the object, an advisory lock on
it serialises attempts, the bucket keeps versions, and a commit may stay unanswered (`limbo`) while its lock is
held. The reconciliation of orphans runs beside them.

- `maintenance`, in part (one token, 2 contents, 2 slots, 3 uploads, one lost connection; 191,132
  states): `RegisteredHasObject`, `AnsweredIsRegistered`. Three uploads are a first attempt, its
  retry, and another that cleans up.

Both exclude `severed` objects: an upload that loses its database connection loses its lock without
noticing, and may then put a version, or hide the object without naming one. A request to the object store whose
client gave up, and which the store carries out later, is left out as well.

`MaintenanceProofs.tla` proves both for any names, contents, uploads and losses. `OneLockPerName` says that the lock of a name
is held by one upload, or the reconciler, or a commit in doubt; `UnderItsLock` what its holder has read of the row;
`ObjectOf` that the version which a row, a commit in doubt or an upload before its commit relies on is the newest one and is not
that of an upload still running, and `Numbered` that versions are told apart by their numbers, so that no clean-up
removes it.

## 13. Generated media

`MediaGeneration.tla` has one request for an image or a video: the pending row, up to `MaxOutputs`
operations (side by side for Replicate, otherwise one), and the settlement. `begin_attempt` commits the attempt before
the call is sent and `provider_attempt` its outcome afterwards, each in a transaction of its own under the lock of
the row; a transaction that fails may have been committed (`PersistFails`). `CancelMedia` is the
cancellation of the request when the process shuts down: it reaches the tasks of `gather`, which the
shield of `provider_attempt` does not cover (`Interrupt`), and the handler's own task, which it does. A crash may come at any time, and
leaves the row pending for good, since nothing looks for such rows.

- `services`, in part (up to 2 outputs, 2 mishaps): `AccountIsKept`. Two operations are enough for
  one to end, fail or be cancelled while the other is under way.

`ServicesProofs.tla` proves the types and `AccountIsKept` for any number of outputs and mishaps. `Accounted` says
where an operation stands with its attempt, `HandlerInv` that nothing runs after the settlement, and that a first
operation that completed was called; `VerdictIs` shows that the handler says "success" only if
every operation completed.

## 14. Logs, library, Facebook

`LogArchive.tla`: the handler of `logging_config.py` appends to one file, seals it into a pending batch when it is full
(copy, move, reopen), and a loop uploads batches and removes them; a new process splits what the last one left.
One process at a time. After a failed seal the stream is closed (`shut`), and the next record opens the file again.

A record is one line, unless its text has U+0085, U+2028 or U+2029: the formatter writes those as they are
(`ensure_ascii=False`, line 43), and the recovery cuts the file with `str.splitlines()` (line 84), for which they end a line. Such
a record is `ragged`, and two equal pieces stand for it. A batch that was moved keeps it whole; in a file that is recovered each piece
is malformed and is replaced by "Recovered malformed log record" with the time of the file's last write (`Substitute`, `Restored`). The
comment at line 71, "without discarding records", does not hold for these records, and `RecordsKept` says so: a
record that was flushed is kept, or it is ragged and a substitute tells that there was one. One separator in a record
stands for any number of them. Records that a crash cut off are left out: they were not flushed.

In `services` (batches of 2, 3 records, each of them ragged or not, 2 crashes or failures; 13,981 states): `RecordsKept` and, under
`LogFairness`, `BatchesArrive`, for every record of a batch, and for those of a recovered file that are not ragged. The
upload loop repeats and a start goes on; failures are finite in number. `ServicesProofs.tla` proves the types and `RecordsKept`
for any size of a batch, records and troubles: `Covered`, every record is somewhere or has a substitute; `Separate`, no two batches share
a record, and a batch shares some with the file that is being recovered only if it is one of the parts it is cut into (`PartOfRecovered`), so
that a second recovery after a crash writes the same batches; `Handler`, which files exist at which step; `Loop`, what is removed
is in the archive. Two batches may share substitutes, which have no number of their own.

`MediaLibrary.tla`: extraction uploads files one by one and records them in one transaction at its end; deletion
deletes the objects, then the rows of those it deleted. In `maintenance` (one extraction of two keywords, 3 deletions,
one of another application, 2 accidents): `LibraryAgrees`. A crash between uploads and commit leaves objects without
rows, and a lost answer or a crash during a deletion rows without objects; nothing reconciles
them, and the property says exactly what is promised nevertheless. `MaintenanceProofs.tla` proves it, and the types, for any
tasks, keywords and accidents: what a running extraction has stored is still there and not yet recorded, since a
deletion takes only recorded images and an image is recorded when its extraction is over.

`FacebookPages.tla`: one page of one application, its token, and posts that Facebook publishes at
their hour. A request reads the token once. In `services` (3 requests, 2 tokens, 1 lost
answer; 38,800 states): `PageIsTrue`, which is `ToldTruly` and `ConnectionsHold`. A late refusal of an old token deactivates a page that was reconnected
meanwhile; a reconnection that had read the page as active leaves it inactive when a refusal or a disconnection comes before
its commit, because an assignment that changes nothing is no part of the update; a scheduled post may be published between the
check and the act; and the retry of a request whose answer was lost makes a second post. All of these are what the code does, and the
property says what holds in spite of them. `ConnectionsHold` bounds the first two: only a request that found the page connected
takes the connection away, and only after it was asked to or had its own token refused; only one that found it disconnected restores it; and a
token that is said to be stored belongs to a connected page, unless the page was disconnected after the request had read
it. `ServicesProofs.tla` proves it, and the types, for any requests and tokens. `RowInv`
and `InactiveInv` say whose token the row has and who deactivated it, `VisitInv` and `PostInv` what a request knows of them; `Lasts`
is what every step leaves as it is, on which all four rely. `ConnectionStep` is what one step does to the connection.

## 15. What is proved, and what is only model-checked

Every invariant that a run expects to hold, and every property of its steps, is proved for every value of the constants: the safety
properties of all the modules, `RoundRobin` of `KeyRotation`, and that `TTSJobs` implements `TTSJobContract`. Each
module has an inductive invariant, named in its section; those of the larger modules were themselves checked by TLC on small
instances before they were proved. There are eight proof modules:

| proofs | about |
|---|---|
| `TTSJobsProofs` | `TTSJobs` (invariant in `TTSJobsInv`), `TTSJobContract`, `TTSStream` |
| `MaintenanceProofs` | `TTSRecovery`, `BlogMedia`, `MediaLibrary` |
| `ServicesProofs` | `TTSSubmission`, `MediaGeneration`, `FacebookPages`, `LogArchive` |
| `GatewayProofs` | `SignIn`, `ModelCatalog`, `QueryPipeline` |
| `KeyPoolProofs` | `KeyPool`, `KeyRotation` |
| `MembershipProofs` | `Membership` |
| `QueryAccountingProofs` | `QueryAccounting` |
| `BlogPostsProofs` | `BlogPosts` |

The assumptions are those that the modules state about their constants. Bounds are numbers (`BoundsAssumption`, `LogBoundsAssumption`,
`MaxLapsesAssumption` and the like), a batch and a page hold at least one, callers that may overshoot a quota and the processes of the query maintenance are finite in
number, and the values that stand for "none" are not among the others (`NoneAssumption`, `FreeAssumption`,
`FileAssumption`). Those of `Membership` say what the code says elsewhere: `UpdateAssumption` lists the
fields and values that the schema of a change admits, `StartAssumption` that the database has rows of the right
types, an administrator, and nobody who is not approved with a session or a key.

Liveness under fairness (`Settles` of the engine and of the queries, `StreamEnds`, `Recovered`, `Answered`, `Accounted`,
`BatchesArrive`) is out of reach of the prover and is only model-checked, as are the three properties that are
expected to be violated. The sweeps, the clean-up and the split of the log iterate over finite sets or
counters, one action per element, so that no proof needs an induction over data. A definition that a proof has to open cannot be
recursive: `Without` of `BlogMedia` removes a version with `SubSeq` and not with `SelectSeq` for that reason.

## 16. Not modelled

- Blog connections and registry: an engine per database, made when it is first needed; the sessions they give are
  those of `BlogPosts` and `BlogMedia`.
- Blog and profile migrations, acceptance runs: an operator's commands. Each upgrade is one transaction
  under one advisory lock, so there is no interleaving to check; the rest compares inventories.
- Request history and analytics: read-only.
- Presigned audio addresses and voices: one statement on a settled job; the voices are read-only.
- Ingest, text and audio conversion: transformations without state; that they may fail is an
  outcome in the modules of their callers.
- Administered prompts (`api/v1/dashboard/prompts.py`): the file does not parse and no router imports it.
- Scripts, schema migrations, static assets.

Left out of modelled components: costs and analytics of queries, and the rejected rows of the middleware; priorities,
pacing and environment keys of the key pool; single grants, shared vault credentials, the registration of
apps and mismatched identities of the dashboard; torn records and a full disk of the log; prices and
settings of models; texts, prompts, audio and images everywhere.

# A TLA+ verification of the factory hub

The hub connects chat platforms (Telegram, Discord, web, NATS) to LLM agents. A
message enters through an adapter, passes the inbound bus and a middleware
pipeline, lands in the *conversation pool* of its scope, becomes a *turn* of an
agent, and its reply leaves through the *outbound dispatcher* of the platform
bot. Turns are executed by workers in other processes (a pool of `claude` CLI
processes, a pool of `omp` clients) reached over NATS; conversation events, job
entries and blobs are kept in stores of their own.

Inside one process everything runs on one asyncio event loop: there are no data
races between two suspension points, and every interesting behaviour is an
interleaving at an `await`, a cancellation, or a stale decision. Between
processes there are lost, repeated and late messages, crashes, and keys that
expire.

Paths below are relative to `src/src/factory/` unless they start with `src/`.

## 1. Inventory

| Component | State | Operations | Interacts with |
|---|---|---|---|
| Conversation pool (`core/pool/pool.py`, `pool_processor*.py`, `core/lifecycle/debouncer.py`) | `_inbox`, `_current_task`, buffer, `_last_msg`, agent task, inbox waiter, `_pending_session_id`, `_inflight_stream_outbound`, session | `submit`, `cancel`, `process_loop`, `_process_with_cancel`, `guarded_process_one`, dispatch, streaming, resume | hub pipeline (calls), agent (await), dispatcher (queue, callback) |
| Circuit breaker (`core/lifecycle/circuit_breaker.py`) | `_state`, `_failure_count`, `_opened_at`, `_probe_in_flight` | `is_open`, `record_success`, `record_failure`, `release_probe` | gate and recorders of every service |
| Use of the claude-cli circuit (`core/hub/hub_circuit_breaker.py`, `llm/decorators.py`) | where each turn is | gate at submission, decorator at the provider, two recorders | breaker, pools |
| Outbound dispatcher (`core/hub/outbound/outbound_dispatcher.py`, `_dispatch.py`) | `_queue`, scope tasks, `_scope_locks`, retries | `enqueue*`, worker loop, `_process_locked`, `_send_with_retry`, drop, `stop` | pools (`_on_dispatched`, `_superseded`), platform circuit, adapter |
| Pool registry (`core/hub/pipeline/pool_manager.py`) | `_pools` in LRU order, `last_active`, `_last_eviction_check` | `get_or_create_pool`, TTL sweep, LRU cap, `flush_pool` | hub loop, agents |
| CLI process pool (`core/cli/`, `adapters/clipool/`) | `_entries`, `_resume_session_ids`, `_cwd_overrides`, per entry its process, lock, session, stdout | jobs (blocking, streamed), spawn, resume, `reset`, `resume_and_reset`, `switch_cwd`, idle reaper, drain | hub (NATS request and stream), operating system |
| Omp worker pool (`adapters/omp/`) | semaphore, free list, `_all`, `_checked_out`, per worker prompt and session | `acquire`, `release`, `_dispose`, run of a job, steer cancel | hub (NATS), omp client threads |
| Active jobs registry (`infrastructure/stores/jobs/`, `core/pool/pool_active_jobs.py`) | KV keys with a time to live, an index per pool, the hub's `_jobs` | `open`, `close`, `refresh`, result listener, dashboard launch and cancel | NATS KV, pools, dashboard |
| Turn writer and turn store (`infrastructure/turn_writer/`, `infrastructure/stores/session/turn_store*.py`) | JetStream work queue, tables of `turns.db`, open transaction | publish, fetch, handle, ack, nak, term, redelivery | JetStream, hub |
| Streamed replies over NATS (`nats/nats_channel_proxy.py`, `adapters/nats/nats_outbound_listener.py`, `nats_envelope_handlers.py`, `nats_stream_decoder.py`) | inbound cache, stream headers, original messages, queue and drain task per stream, tombstones | `send_streaming`, keepalives, `stream_error`; start, chunk, end, error and send handlers; reapers | dispatcher, remote adapter |
| Blob store (`src/packages/roxabi-blobs/src/roxabi_blobs/fs_store.py`) | one file per content, SQLite rows and refs | `put`, `delete`, sweep | adapters, sweep command |
| Hub run loop, middleware (`core/hub/hub.py`, `core/hub/middleware/`) | dedup, pairing, routing tables | one message at a time through the stages | all of the above |
| Inbound bus, push guard, rate limiter (`core/messaging/`, `core/hub/hub_rate_limit.py`) | bounded queue per platform, staging queue, windows | `put`, feeders, `get`, `push_to_hub_guarded` | adapters, hub loop, hub circuit |
| Session context, commands (`core/hub/middleware/path_validation.py`, `core/commands/`) | message index, last session | reply-to resume, last-session resume, `/stop`, `/clear`, `/workspace` | pool, CLI pool |
| Job dead-letter router | JetStream positions | route what exhausted its deliveries | JetStream |
| Outbound audio over JetStream (`adapters/nats/jetstream_audio_*.py`) | work queue, dedup KV | publish, send, mark, ack, nak, term | JetStream, adapters |
| NATS bus and worker registry (`nats/`) | subscriptions, heartbeat table | publish, request, expire | hub, remote adapters |
| Voice, adapters, bootstrap, dashboard, CLI, deploy scripts, contracts, telemetry | | mostly I/O, wiring, data models | |

What makes each modelled component correct, and what is hard about it:

* **Pool.** Turns of a scope are sequential, in arrival order, and use every
  message once; the backend session does not change under a running turn; a
  message is eventually served. Hard: `submit` decides on `is_idle` while the
  loop is between two awaits, `/stop` cancels whatever the loop happens to
  await, cancel-in-flight races an inbox waiter against the agent task,
  timeouts race answers.
* **Circuit.** Count and state agree, one probe per recovery, the probe slot is
  given back. Hard: two layers ask and two layers record, at different times.
* **Dispatcher.** Items of a scope go out in order, one at a time, each is
  reported once, each ends. Hard: one task per item, a table of locks that is
  pruned, a queue that drops its oldest item, failures and retries.
* **Registry.** Bounded, one pool per scope, no running pool removed, the least
  recently used go first. Hard: two eviction paths with different rules, and a
  recency kept twice (`last_active`, the order of `_pools`).
* **CLI pool.** An answer goes to the prompt it answers, no process is lost, a
  discarded session stays discarded and a kept one is resumed. Hard: jobs,
  control commands and the reaper kill and respawn the same entry while one of
  them is in an `await`; a read that stops half-way leaves its answer behind.
* **Omp pool.** Slots balance on every path, a worker serves one job and its own
  conversation. Hard: client calls run in threads, a cancel stops a client from
  outside, a crash is noticed only by the next call.
* **Active jobs.** The index names the job that is registered; entries
  disappear when jobs end. Hard: every step is a KV call that can fail or land
  late, keys expire, and a refresher puts back what another task removes.
* **Turn writer.** What is acked is stored, and storing it again is harmless.
  Hard: an implicit SQLite transaction stays open after a failure, and is then
  committed or rolled back with the next event.
* **Streamed replies.** A reply is begun once, shown in full and in order, and
  leaves nothing in the adapter. Hard: six tables describe one stream, each
  with its own limit and reaper, and envelopes are lost or come too late.
* **Blob store.** A ref has its row and a row its file. Hard: file system and
  database are changed one after the other, by two processes, and a failed
  statement leaves the transaction open.

`PROJECT.json` lists every component with its status, and under `hazards` each of
these difficulties at its line with the properties that cover it. Hazards no
property covers are in section 7.

## 2. Plan

Modules are ordered by how much of the system depends on them.

| | Module | Status |
|---|---|---|
| 1 | `ScopeQueue` (abstract), `PoolTurns`, `PoolTurnsProofs` | done |
| 2 | `CircuitBreaker`, `CircuitTurns`, `ClaudeCliProofs` | done |
| 3 | `OutboundDispatcher` (EXTENDS `CircuitBreaker`), `OutboundDispatcherProofs` | done |
| 4 | `PoolManager`, `RegistryProofs` | done |
| 5 | `CliPool`, `ClaudeCliProofs` | done |
| 6 | `TurnWriter`, `TurnWriterProofs` | done |
| 7 | `OmpPool`, `OmpPoolProofs` | done |
| 8 | `RemoteStreams`, `RemoteStreamsProofs` | done |
| 9 | `ActiveJobs`, `RegistryProofs`, `BlobStore`, `BlobStoreProofs` | done |
| 10 | Inbound bus with push guard, rate limiter and the hub circuit (EXTENDS `CircuitBreaker`) | open |
| 11 | Session bookkeeping of a pool: `session_id`, `/clear`, `/workspace`, last-session resume | open |
| 12 | DLQ router, outbound audio | open |

Where modules meet: `PoolTurns` contains the scope's outbound queue as far as a
turn sees it (one item at a time, skip when superseded, callback), which is what
`OutboundDispatcher` establishes for one scope. `OutboundDispatcher` and
`CircuitTurns` use the breaker of `CircuitBreaker`, whose specification
`CBSpec` the turns are shown to implement. `RemoteStreams` begins where the
dispatcher calls the adapter of a remote bot. `CliPool` is a worker of its own,
reached over NATS: nothing of the hub's registry evicts its processes (section 7).

## 3. Modules and the code

All modules use the same granularity: one action is what a task runs between two
suspension points (for a store, one statement or one call to it). A definition
`A_Word` is a deliberate fault in `A`. It is used by no specification and exists
to show that a property notices such a fault. Variables commented *history*
record what happened and are read by properties only.

### PoolTurns: one conversation pool

`lpc` is where `process_loop` is suspended: `ready` (task created, not started),
`collect` (in the debouncer), `resume` (awaiting `resume_session`), `turn`
(awaiting the agent task, or the race with the inbox waiter), `reap` (awaiting
the cancelled waiter), `unwind` (awaiting the cancelled agent), `follow`
(collecting the follow-ups of an interruption), `notice` (the shielded notice of
a cancelled turn), `none` (`is_idle`). `phase[k]` is the same for agent task `k`:
`open` and `close` are the job's registration and its `finally`, `work` the
agent, `post` what follows the dispatch, `reset` the backend reset after a
timeout. `kill[k]` and `lstop` are cancellations asyncio has requested and not
yet thrown, so `CancelLoop` does what `Task.cancel()` does: it reaches the task
that is awaited, or the coroutine itself.

| Action | Code |
|---|---|
| `SubmitPlain`, `SubmitReply`, `Stop` | `Pool.submit`, the reply-to path of the middleware, `Pool.cancel` |
| `OpenJob` … `CloseJob`, `Unwind` | `guarded_process_one`, its handlers and its `finally` |
| `WaiterTakes` | `inbox_waiter` of `_process_with_cancel` |
| `LoopStart`, `CollectMore`, `CollectDone`, `Resumed` | the head of `process_loop` and the debouncer |
| `TurnReturned`, `LoopCancelled`, `LoopExit` | the tail of `process_loop` and its handlers |
| `RaceAgentDone`, `Reaped`, `CancelInFlight`, `Unwound`, `FollowDone` | `_process_with_cancel` |
| `StartSend`, `FinishSend` | the dispatcher, seen from one scope |

Abstractions. A message is its number in order of submission. The debounce
window may close at any time (its length is not modelled). When several getters
wait on the inbox any of them may be woken first. A pool-turn error, whatever its
type, is one action. `turn < MaxMsgs` in `StartTurn` never binds, since a turn
uses at least one new message. `resume_session` may accept or refuse. In `reap`
and `unwind` the code suppresses `CancelledError`, which swallows a `/stop`
that arrives there; the model does the same.

### ScopeQueue: the promise of a pool

Messages wait in arrival order, a batch that is a prefix of them is served, one
batch at a time; a prefix may be discarded. `PoolTurns!Scope` maps the waiting
messages to the loop's buffer followed by the inbox, and the batch served to the
messages of the live turn.

### CircuitBreaker, CircuitTurns

`is_open()` is split by its result into `Admit` and `Reject`, both with its side
effects; `elapsed` is the one bit of time the object reads. `CircuitTurns` has
one process per turn: the gate (`circuit_breaker_drop`), the decorator's second
question, the provider call with its outcomes, and `record_circuit_success` by
the pool, at once for a stream and after the call otherwise. A message may be
stopped or merged after the gate, and a call may be cancelled (`Lose`,
`CallCancelled`); `leaked` and `stolen` remember the two cases in which the code
loses the probe slot or gives another turn's slot away, and the properties
except exactly these.

### OutboundDispatcher

`at[i]` is where item `i` is: `queued`, then `created` (its task exists and was
given a lock), `waiting` for the lock, and while holding it `refused` by the
circuit, `skipping` (superseded), `sending`, `delivered` or `failed`; then
`done`. `dropped` items are cleaned up by a task of their own. A lock is named
after the item for which it was made, so two items of a scope may have different
locks, which is what the table's pruning is about. `WorkerTakes` is one round of
`_worker_loop` including the pruning after `create_task`; `StartTask` and
`Acquire` are the two ways to get the fair `asyncio.Lock`. The worker may pause
between items more often than asyncio lets it, which adds behaviours. Draining an
iterator nobody sends, and sending a failure notice, belong to the step of the
callback they precede or follow. A drain may raise, as the iterator of a failed
turn does (`core/processors/stream_processor.py:239`, `llm/decorators.py:238`). For a
superseded item that happens inside `_send_with_retry`, and is a failure like
any other (`SendFails`); for a dropped or refused one nobody catches it and the
callback is never called (`DrainRaises`, place `unreported`).

### PoolManager

Pool objects are numbered, `pools` is the `OrderedDict`. `Get` is
`get_or_create_pool` with its throttled sweep, its cap and the `submit` of the
hub's single run loop. Time is three facts: which of two registered pools was
used last (`usedBefore`, the order of `last_active`, which `Touch` moves and
which the model keeps apart from the order of `pools`, as the code does), which
pools are past the TTL, and whether a sweep is due. The eviction of the scope's
CLI process is left out, as `hub.cli_pool` is `None` in both bootstraps.
`capped` remembers the pools the cap evicted: they may be running, and their
scope may get a second pool, which `OneRunningPoolPerScope` excepts.

### CliPool: processes, jobs, control commands, reaper

A task is a job of the NATS worker, the one control task, or the reaper; its
`pc` is where it is. Labels in `Sync` are reached without an `await`, so
while a task stands there only that task may step (`Turn`); every other label is
an await. A process is a record with its lock (`lock`, `todo` the waiters),
session and stdout (`out`, a sequence of answers not read yet, each named by the
job whose prompt it answers).

| Action | Code |
|---|---|
| `Arrive`, `ResumeDirect`, `SetResume` | the worker's handler: `resume_direct` and `set_resume_session_id` before the prompt |
| `Send`, `Spawn`, `Spawned`, `SpawnFails` | `send` / `send_streaming`: entry lookup, prompt and death checks, `_spawn` |
| `Lock`, `Write`, `Guarded`, `Retry` | the entry lock, the re-check under it, stdin, the one retry |
| `ReadAnswer`, `ReadRefusal`, `ReadEof`, `ReadTimeout`, `ReadConflict` | the read loops with each way they end |
| `PublishFails`, `Fail` | `publish_streaming_job`, `publish_job_failure` |
| `KillThen`, `Killed` | `_kill`: what it pops at once, and what follows the wait |
| `ControlCmd`, `Reset`, `Override`, `ControlAck` | `reset`, `resume_and_reset`, `switch_cwd` |
| `Sweep`, `Reap` | `_idle_reaper` |
| `Answer`, `Die`, `HubGivesUp` | the CLI process, and the hub's own timeout |

`HubGivesUp` lets the pool of the hub send the next job while the worker still
works on the last one: two jobs of a pool then overlap, which `AnswersMatch`
and `NoStrayProcess` except, as they except streams whose publish failed
(`cut`). Without these two no answer is ever given to another prompt.

`barred` and `late` are the sessions the last reset of a pool discarded: `late`
those a spawn under way had popped already (`core/cli/cli_pool_spawn.py:144`),
which register after the reset (209) and so come back. `Reset` cannot stop them
and `DiscardedStaysDiscarded` excepts them, and no others. `queue_resume` is not
modelled: only the in-process driver (`llm/drivers/cli.py`) calls it.

### OmpPool: slots, workers, conversations

`sem`, `queue`, `free`, `all`, `out` are the pool's fields; `pc[j]` is the
client call job `j` waits for. The worker started for a job and the session a
client creates for it are named by the job. `TakeNone`, `TakeOther`, `TakeFit`
are the three branches of `acquire` (no free worker, one with another system
prompt, one that fits); `Disposed`, `Started`, `StartFails`, `Selected`,
`SelectFails` its awaits; `PromptDone`, `PromptFails`, `CloseFails`, `Release`
the run of a job. `CancelSeen` and `CancelStops` are a cancel that arrives
while the prompt runs and the thread that stops the client; `Crash` is the
client's own end. `client.stop` may raise (`StopRaises`): `_dispose_worker`
swallows an `OSError` or `RuntimeError` after the worker has left `_free` and
`_all`, any other exception ends the job's `acquire` (`DisposeFails`), and a
client whose start failed may be left running the same way (`StartFails`).
`strays` are the workers such a call, or a failed session selection, left
running, which `ProcessesBounded` excepts.

### BlobStore: files and manifest

A request is at the statement it makes next. `db` is what is committed, `work`
what the process with the open transaction sees; `View`, `Write`, `Commit` are
SQLite's rules for them. `Put` to `CommitPut` and `Delete` to `Unlink` follow
`put` and `delete` line by line, `Fails` is a statement that raises without a
rollback, `Crash` ends a process anywhere. `raced` are contents one process put
while another deleted them: the lock of `put` and `delete` is local to a
process, the sweep does not hold it. `torn` are contents of which a crash, or an
`os.write` that wrote less than it was given (`WriteShort`), may have left a part.

### ActiveJobs: keys, index, registry

A task is at the KV call it makes next: `put`, `create`, `winner`, `record` of an
open; `get`, `owner`, `unindex`, `delete`, `forget` of a close. A turn opens,
works and closes; a launch of the dashboard is published first and opened then,
and the listener closes it when its result comes. `StartSweep` to `RefreshFails`
is the refresher, `LapseJob` and `LapseIndex` the time to live: a key nobody
refreshes lapses, one that is refreshed only as a fault. `missed` are launches
whose result came before their open or was lost, `disturbed` says that a late
call or a lapse took the key of a live job.

### TurnWriter: from the hub to turns.db

`published` is the stream, `fresh` and `again` the next new event and the
redelivery queue, `pending` and `tries` JetStream's bookkeeping, `batch` and
`step` the consume loop. `db` is committed, `work` what the connection sees and
`open` whether it is inside a transaction: session mutators leave it open when
they fail, and the next event then fails at its `BEGIN` or commits it along.
`Applied` is the effect of each event kind, `Hub` publishes (`Say`, `Clear`,
`Resume`). An event that used up `MaxDeliver` stays in the stream.

### RemoteStreams: a streamed reply to a remote bot

`wire` is what is published and not yet handled; `cache`, `headers`,
`originals`, `queue`, `drain`, `tombs` are the adapter's six tables. The hub's
side is `StreamStart`, `PublishEvent`, `Keepalive`, `PublishEnd`, `StreamFails`,
`Drained`, `Abandon`, `Send`; the adapter's is one handler per envelope kind
(`HandleSend`, `HandleStreamStart`, `HandleChunk`, `HandleStreamError`), the
drain task (`DrainStart` up to the first event, `DrainTake`, `DrainTimeout`,
`DrainEnds`, `DrainFails`, with `Cleanup` its `finally`), the reapers (`Evict`,
`ReapTombstone`), and the faults (`Lose`, `Restart`). `spoiled` are replies
something was lost of, `condemned` those whose failure was announced before
their first event, `forgotten` those of them whose tombstone was evicted.

## 4. Runs

Passing runs (all finish exhaustively):

| Run | Question | Bounds |
|---|---|---|
| `pool_sequential` | let-it-finish mode with `/stop`, timeouts, crashes: are turns exclusive (`NoOrphanTurn`), lossless; does a stopped turn stay silent; is a reply's session resumed before its turn and never changed under one; is `ScopeQueue` implemented; is every message served if nothing is stopped and nothing crashes | 3 messages, 2 stops |
| `pool_cancel` | cancel-in-flight mode with a streaming agent: exclusive turns, every message served | 3 messages, no stop |
| `circuit_turns` | five concurrent turns, two of them streams, any of them lost or cancelled: one probe at a time; a HALF_OPEN period ends | threshold 2 |
| `outbound` | supersession, raising callbacks, overflow, retries, stop: order per scope, one report per item (unless misrouted, or its drain raised), every item ends, the platform circuit does not stay HALF_OPEN | 3 items, 2 scopes, queue of 2, 2 attempts, threshold 1 |
| `pools` | sweeps and cap: no second running pool of a scope but through the cap; no pool goes while an idle one used earlier stays | 4 scopes, cap 3, 5 objects |
| `cli_pool` | does every job get its own answer, is no process lost, does a discarded session stay discarded (but for that of a spawn under way) and a kept one kept, does every job report | 1 pool, 2 jobs, 2 prompts, 3 processes, 2 disturbances |
| `omp_pool` | do slots, workers and conversations stay apart, does every job report | cap 2, 3 jobs, 2 prompts, 2 faults |
| `blob_store` | do files, rows and refs agree under failures and crashes | server and sweep, 2 contents, 3 refs, 2 faults |
| `active_jobs` | does a registered job own the index; does the registry empty | a turn, a launch, 1 fault |
| `turn_writer` | is what is acked stored, is replay harmless, does each event settle | 3 events, 2 sessions, 3 deliveries, batch 2, 2 faults |
| `remote_streams` | is a reply begun once, shown in full, and nothing left behind | 2 replies of 2 and 1 events, 1 live stream, queue 2, 1 tombstone, 1 fault |

Why the bounds are enough. Three messages are the least with which a message can
arrive during a turn, another during its cancellation, and the two be merged; the
second stop is needed to hit the notice of the first. Five turns with threshold 2
are two failures that open the circuit, a probe that fails, and the probe of the
next period with a competitor; or a stream of an earlier period in the place of
one of them. Three items with a queue of two overflow it. With two scopes and
`ReapThreshold = 2` the table of locks is never pruned, and `ScopeOrder` is stated
for that case only, in the run as in the theorem: above the threshold the code
breaks it (section 7). Four scopes with a cap of three force an eviction while
pools of three scopes are registered, so that the order of two that stay matters,
and a fifth object brings an evicted scope back. Two jobs of one pool are an answer and the one who might
read it; the third process is the respawn of a respawn. Three jobs over two slots
make one wait and one inherit a worker. Two contents keep one's rows apart from
the other's, three refs let a content be put again while its old ref is deleted.
Two sessions let a late event of the old one meet the new one, and three
deliveries are two failures and a success. One live stream for two replies makes
the limits on streams and on the queue bind; the limit on tombstones does not
bind in the run, as it takes two failed streams and the run has one fault
(`BeginOnce` is proved with that branch). Two faults are the least with which a fault can
hit the recovery of another; where one suffices (`active_jobs`,
`remote_streams`) a second makes the state space exceed what TLC finishes in a
few minutes. `MaxFailures` of the breaker does not bind: each turn or item fails
at most once. `pools` uses the symmetry of scopes; the others have none or check
liveness, with which symmetry is not sound.

`CHECK_DEADLOCK FALSE` everywhere: with bounded inputs a system that has served
them all stops.

One run shows a disagreement between the code and what the repository says of it
(a `finding` with the quoted line): in `stop_strands_message` a second message is
submitted while the turn of the first is processed, before or after the `/stop`
that cancels this turn. `submit` finds a task that is not done and starts none;
the loop sends its notice and ends with `CancelledError`, without the "next
process_loop() iteration" the docstring of `_process_with_cancel` promises, and the
second message stays in the inbox without a loop (`QueuedArePickedUp`, checked
under fairness and with the turn timeout). Section 7 lists the others, which are
exceptions of a property here.

## 5. Fairness

The event loop runs every ready task, hence weak fairness of each task's steps.
Where a task waits for the outside, the wait is bounded by the code, or no
fairness is assumed:

* `PoolTurns`: the process loop, agent tasks and waiters. The agent's own work is
  bounded only by the turn timeout, so there is no fairness of `Answer` and
  `Fail`; progress comes from `TimeOut` alone. None for `/stop`, submissions and
  crashes. `EveryMessageServed` excepts runs with a `/stop` or an unexpected
  exception, after which the code drops the buffer or leaves the inbox to the
  next `submit`.
* `CircuitTurns`, `OutboundDispatcher`: provider and adapter calls end (both have
  timeouts), and in `CircuitTurns` the clock advances. `EveryItemEnds` excepts
  `stop()`, which leaves the queue as it is.
* `CliPool`: every job step, the control task, the reaper, and `Killed` (a kill
  escalates to SIGKILL). Nothing is assumed of the CLI process: it may never
  answer, the read timeout then ends the job.
* `OmpPool`: a client call returns or raises (`request_timeout`) and a started
  thread runs.
* `ActiveJobs`: KV calls return or raise, turns and runs end, the listener takes
  what it hears, the refresher goes on, and an unrefreshed key lapses. Not that
  a result arrives.
* `TurnWriter`: the loop never stops for good (the unit restarts it) and
  `ack_wait` ends. `EventsSettle` allows an event that used up its deliveries.
* `RemoteStreams`: the adapter's subscription and its drain tasks, whose waiting
  is bounded by the 120 s idle timeout. No fairness of the hub or the transport;
  but the timeout fires only when envelopes stop coming, so progress also rests
  on `MaxExtras`, which bounds the keepalives: a hub that sends them for ever
  keeps a drain alive, in the model without that bound as in the code.

## 6. Proofs

The theorems hold for every value of the constants, under the assumptions named
in the modules (natural bounds, positive limits, `None` outside the sets).

* **`PoolTurnsProofs`.** `TypeCorrect` needs more than `TypeOK`: what the loop puts
  back must be a message and the turn it awaits must exist, so the inductive
  invariant is `TypeInv == TypeOK /\ Awaited`. For the default mode
  (`~CancelOnNew`), `SequentialInv` says that the loop is in `turn` exactly when
  the latest turn may be live, and that the states of cancel-in-flight are
  unreachable; `NoOrphanInDefaultMode` and `SessionStableInDefaultMode` follow.
  `DefaultModeImplementsScope` is the refinement of `ScopeQueue`: each action maps
  to one abstract step or to a stutter, `PrefixAndRest`, `DropAll` and
  `AppendToConcat` being the facts about sequences it needs.
  `StopSilencesDefaultMode` (no streaming) uses `SilentInv`: a stopped turn that is
  live is about to be cancelled and its answer is not in the outbound queue.
  In both modes: `NoMessageVanishes` counts the places a message may be in, and
  `Placed` says that what the loop overwrites is empty and that the buffer it drops
  after a turn was merged into that turn. `OneTurnUntilStopped` (`AwaitInv`):
  until a first `/stop` the loop awaits the only live task. After one,
  cancel-in-flight mode does leave an orphan that may run beside the next turn
  (section 7); the default mode never does.
  `ResumeFiredInDefaultMode` follows the pending resume to the head of the loop.
* **`ClaudeCliProofs`.** For the circuit, `BreakerCorrect` proves `BreakerInv`
  (types, count matches state, probe only in HALF_OPEN) for `CBSpec`, that is for
  any callers in any order. `TurnsUseBreaker` shows that every step of the turns is
  a step of that specification, so `CountAlwaysMatches` follows without looking at
  the turns again. `OneProbe` adds that, as long as no slot was given away, whoever
  is calling the provider in a HALF_OPEN period holds the slot.
  For the process pool, `CliInvariant` is one inductive invariant of `CliSpec`, and
  the four properties follow from it. Its proof first sorts every step into a few
  kinds (`StepKinds`: a job does something, a task does, a process does, a job
  arrives or leaves), so that each part is shown once per kind and not once per
  action. The parts rest on each other:
  * `One`: of the jobs of a pool one is at work, unless the hub gave one up
    (`Overlapped`); `Unserved`: while that job starts a process the pool has no
    live entry. So the spawn overwrites nothing alive: `NoProcessIsLost`.
  * `Discard`: no discarded session is scheduled, taken by a spawn, or that of the
    entry, but for those a spawn had taken before the reset (`late`):
    `ResetsAreFinal`.
  * `Owed`: a process has nothing unread before its prompt is written, and
    afterwards only the answer to the job that waits for it:
    `AnswersReachTheirJob`, which excepts pools with a turn given up or left half
    read (`Clean`), where the code does mix answers up.
  * `Witness`: the entry of a pool was given to a job of that pool, whose session
    it is to keep. `SessionsGoOn` is the action property: before and after a step
    that is not excused, what the pool held is the entry's, scheduled or in a spawn.
* **`OutboundDispatcherProofs`.** `OrderedBelowThreshold`: if there are at most
  `ReapThreshold` scopes, items of a scope are dispatched in order. The invariant
  joins the queue's order (`QueueInv`), the order of the tasks (`StartInv`) and
  that every task holds the lock its scope still maps to (`LockInv`). The last is
  what pruning breaks, and the hypothesis on the scopes is what keeps it.
  `ReportsOnce` needs no hypothesis: with the types and the queue's order
  (`Base`), `FiredInv` says for each place of an item whether its callback has
  fired, so no second report is left to come, and none is missing once the item
  is `done`; a misrouted item and one whose drain raised end in places of their
  own.
* **`TurnWriterProofs`.** `AckCoversWrite` and `CountGrows`. The inductive
  invariant has the types in three parts, `Stored` (an event counted as applied
  has its row in `db`), `Ahead` (what `work` knows includes `db`, and equals it
  outside a transaction) and `Settled` (the head of the batch is applied when the
  loop is about to ack it). `Ahead` is what a ROLLBACK or a restart needs.
  `ReplayChangesNothing` is an action property: `Marked` says which mark an
  applied event left in the store, that no later event wipes out, and which a
  replay of its statement finds.
* **`OmpPoolProofs`.** `NoSlotLeaks`, `WorkersUnshared`, `ConversationsApart`. The
  invariant: `Queued` (who waits is in the queue once), `Owned` (a worker is held
  by one job, or free once, or neither), `Suited` (prompt and session of a worker
  that runs are its job's) and the balance of slots, for which the cardinality of
  the holders is followed through each action. `CapBoundsProcesses`: the free
  workers and the jobs that hold or start one never exceed the cap (`WithinCap`,
  from the slots), and each running worker the pool does not keep track of was
  left by a failing call (`Stranded`: `up \ Tracked` is within `strays`).
* **`RemoteStreamsProofs`.** `BeginOnce` and `NothingLeftBehind`. A drain task is
  made by a chunk, and no chunk of a reply precedes its `stream_start` on the wire
  (`Ordered`), so once a reply began no start of it comes any more (`Begun`), and
  a second task finds no header to begin with (`Once`, `Dead`). `RepliesStayIntact`
  follows the events of a reply nothing happened to (`FlowInv`): those shown, queued
  and on the wire are three consecutive ranges that end with the last one published
  (`Piped`), a drain task serves it while anything is queued, and nothing that ends
  the task early is in sight (`Tasks`).
* **`RegistryProofs`.** For the pools, `OneRunningPool`, `LeastUsedGoFirst` and
  `RegistryWithinCap`. Until the shutdown begins, a pool that works is registered,
  unless the cap threw it out (`Registered`), for the sweep spares busy pools; as
  one pool of a scope is registered, all such pools are alone in their scopes
  (`Alone`), also while `flush_pool` empties the registry. `LeastUsedGoFirst` is an
  action property: the order of `pools` is that of `usedBefore`, and the pools past
  the TTL are closed under it, so what sweep and cap take is used before what
  they keep, running pools aside.
  For the jobs, `OneJobHoldsIndex`. A close works on a job that is neither
  live nor being opened; this follows from where its id comes from: the result
  heard (`Heard`), the tracked entry (`Late`) or the end of the turn that opened
  it (`Opened`).
* **`BlobStoreProofs`.** `ManifestHolds` and `PutsStayReadable`, for one server
  process and any number of sweeps (`OneServer`): with two servers a put that
  fails while it writes removes a file the other one trusted. The committed and
  the pending manifest are both `Backed`, since the pending one may be committed
  by a later request of its process, and `Requests` says at each statement of a
  request what it found or did and nobody has undone since. `NothingIsLeaked` adds,
  as long as nothing failed, who is about to account for a file without a row or
  a row without a ref (`Tight`): the put, the delete or the sweep at work on it.

Only model-checked:

* all liveness (`HalfOpenEnds`, `RegistryEmpties` and the others of section 4):
  fairness and ENABLED are beyond the prover.

Every module has a type invariant (`TypeOK`; `CliTypeOK` in `CliPool`, whose
proofs share a module with those of `CircuitTurns`). It is proved for `PoolTurns`
and `CircuitTurns`, and the other proof modules have the types they need as a part
of their inductive invariants.

## 7. Not modelled, and disagreements met

### Not modelled

The map covers a small share of the repository's lines. Most of them are I/O
against platforms, user interfaces, deployment, maintenance tools, data models
and rendering, which keep no state between two steps; what is modelled is where
tasks, processes or failures meet. Open in the plan: the inbound bus with push
guard and rate limiter, `/clear`, `/workspace` and last-session resume, the DLQ
router, outbound audio.

In the modelled components:

* Pool: history, compaction and the turn log, changes of
  `cancel_on_new_message` while a turn runs, post-processors that wait for their
  stream.
* Dispatcher: cancellation of a scope task, the per-chat debounce of the
  circuit-open notice.
* Registry: `set_debounce_ms`, `set_cancel_on_new_message`, `touch_pool` (which
  nothing calls), `flush_session` (which the cap skips), the eviction of a CLI
  entry (no bootstrap sets `hub.cli_pool`).
* CLI pool: `queue_resume`, `drain` and `stop`, the model switch, the text of the events; pools
  share nothing but the reaper, so the run has one (the reaper may be held up by
  the kill of another pool's process, so it may pause before each kill).
* Omp pool: shutdown (`aclose`), the model switch and its fallback, progress.
* Active jobs: parallel mode (no index key), heartbeats, steer.
* Turn writer: `last_active_at`, the read queries, the health endpoint.
* Streamed replies: attachments, legacy audio, `seq` (the adapter only logs a
  gap), malformed payloads.
* Blob store: HTTP, authentication, audit, `busy_timeout`.

### Disagreements between the code and what is said of it

Each is exhibited by a model when the named exception is dropped from the
property, or is prose where the part is not modelled.

* `NoOrphanTurn` with `CancelOnNew = TRUE`, `MaxStops = 1`: `/stop` cancels
  `asyncio.wait()`, which leaves the agent task running without a loop.
* `ResumeFiredBeforeTurn` with `CancelOnNew = TRUE`: follow-ups of an interrupted
  turn are dispatched without returning to the head of the loop, where a pending
  resume is fired.
* `StoppedTurnStaysSilent` with `Streaming = TRUE`, `MaxStops = 1`: the agent task
  of a stream ends when the iterator is queued, so `/stop` finds nothing to cancel.
* `HalfOpenEnds` of `CircuitTurns` without `leaked`: a turn that passed the gate
  as the probe and never reaches the provider keeps the slot, and the circuit
  rejects from then on (`core/hub/hub_circuit_breaker.py:42`;
  `core/lifecycle/circuit_breaker.py:174-177`). Of `OutboundDispatcher`: a
  superseded stream may be admitted as the probe and records no outcome.
* `ScopeOrder` with more scopes than `ReapThreshold`: the table drops the lock of a
  task that was just created; the scope's next item gets another lock and both are
  dispatched together (`core/hub/outbound/outbound_dispatcher.py:283`, against
  line 279, "Serializes same-scope messages.").
* `OneRunningPoolPerScope` without `capped`: the cap evicts a running pool; the
  next message of its scope creates a second one that runs beside it
  (`core/hub/pipeline/pool_manager.py:111`). `_evict_lru_locked` removes the entry
  before `_evict_pool_locked` looks for it, so the evicted pool is not flushed.
* `PoolManager`: `_evict_pool_locked` evicts the CLI entry "so a new pool can't claim
  the old process" (`core/hub/pipeline/pool_manager.py:142`), but only if `hub.cli_pool`
  is set, and both bootstraps leave it `None` (`core/hub/hub.py:128`,
  `bootstrap/factory/unified.py:82`, `bootstrap/factory/hub/hub_assembly.py:113`): with
  the NATS worker, a swept scope's next pool does continue its process, if the
  worker's own reaper has not ended it. No property is stated about it.
* `ReportedOnce` without `unreported`: draining the iterator of a dropped item
  (`core/hub/outbound/outbound_dispatcher.py:141-154`) or of one the open circuit
  refused (`_dispatch.py:237-245`) re-raises the error of its turn, and
  `_on_dispatched` is never called. The pool then keeps `_inflight_stream_outbound`
  until its next stream, and the turn is not logged.
* `DiscardedStaysDiscarded` without `late`: `_spawn` pops the scheduled session
  (`core/cli/cli_pool_spawn.py:144`) and registers the process that resumes it only
  after two awaits (209). A reset in between finds neither, and the discarded
  session comes back. A spawn that fails drops the session it popped
  (`SessionKept` excepts it).
* `ProcessesBounded` without `strays`: `_dispose_worker` takes a worker out of `_free`
  and `_all` before it stops the client, and swallows the error of a stop that
  fails (`adapters/omp/omp_pool.py:206-209`; other errors leave by 142-144, and
  272-278 does the same to a client that failed to start). That process is
  counted no more and `aclose` does not find it; one whose session selection
  failed (168) stays in `_all` until `aclose`.
* `CliPool`: the reaper's snapshot is stale after the first `await` of `_kill`, and a
  process that took a turn meanwhile is killed (`core/cli/cli_pool_worker.py:111`; the
  test `src/tests/core/test_cli_pool_state.py:315`, "Reaper skips entries whose _lock
  is held", looks at the snapshot only). Every kill pops the cwd override of the pool
  (line 82), although `src/docs/COMMANDS.md:299` lets it persist for the pool's
  lifetime.
* `OmpPool`: a worker respawned for another system prompt starts a new session
  where the hub asked to resume one (`adapters/omp/omp_pool.py:149`, against the
  docstring at 127-130); a result may be published twice
  (`adapters/omp/_rpc_bridge.py:297`).
* `BlobStore` without `raced`: a sweep that counts the refs before a put inserts
  its ref removes the file of a committed row
  (`src/packages/roxabi-blobs/src/roxabi_blobs/fs_store.py:147`). Without `torn`: the
  result of `os.write` is not looked at (217) and a crash leaves a partial file,
  which a later put trusts.
* `ActiveJobs` without `missed`: the result of a launch can reach the listener
  before the launch is opened; nobody closes it then and the hub refreshes it for
  ever (`bootstrap/factory/dashboard_jobs_rpc.py:163`, against `src/docs/architecture/job-model.md:176`).
* `TurnWriter`: agent turns carry no `message_id`, so a redelivered one is inserted
  again (`infrastructure/stores/session/turn_store.py:211`, against
  `src/tests/integration/test_crash_recovery.py:302`); `end_session` before its row is
  lost (`turn_store_session.py:130`); a redelivered `set_cli_session` overwrites a
  newer one, although `writer.py:245` says "same value on replay". `ReplayHarmless`
  excepts exactly these three.
* `RemoteStreams`: `handle_stream_error` without a queue does not pop
  `_stream_original_msgs`, although its comment claims symmetry with
  `_drain_stream`; an evicted tombstone lets a late keepalive begin the failed
  reply (`forgotten`); headers and originals of a reply whose chunks were all
  refused or lost are never reaped; a `send` overtakes a stream of its scope that
  is still draining, so the dispatcher's order ends at the wire; attachments carry
  no original message and are dropped once the cache lost it;
  `publish_stream_errors` finds nothing to do after `stop()` of the dispatchers;
  the liveness poll of the hub that `src/docs/architecture/llm-streaming.md`
  describes is never passed by the listener.
* Outbound audio (not modelled): `term()` that fails at the last delivery is not
  retried as the docstring of `jetstream_audio_consumer.py` says; an error of
  `mark_sent` ends the consume loop; a crash between send and mark sends twice;
  three failed publishes with a lost ack give both the voice and the notice.

### Hazards no property covers

`core/pool/pool_processor.py:174` (an interrupted turn acts on the outbound of an
earlier one), `:189` (messages already answered are run again);
`pool_processor_exec.py:115` (a second, generic reply after an answer), `:121` (an
exception recorded twice on the hub circuit); `pool_processor_streaming.py:81` (a
stream's callback overwrites a session resumed later);
`pool_processor_dispatch.py:154` (success recorded before the provider was
called); `core/messaging/push_guard.py:60` (a probe slot claimed and nothing
recorded); `core/hub/outbound/_dispatch.py:74`, `:189`, `:209` (order of notices
and circuit); `bootstrap/lifecycle/bootstrap_lifecycle.py:98` (shutdown order);
`core/cli/cli_pool_lifecycle.py:62` (drain waits for locks only);
`adapters/omp/_rpc_bridge_steer.py:28` (a cancel stops the client after its worker
went back to the free list); `infrastructure/stores/jobs/active_jobs_kv.py:292`
(close reads the owner and deletes the index in two calls; `IndexOwned` excepts
it by `disturbed`); a resume target read from a stale count; the pruning of scope locks above
`ReapThreshold` (`core/hub/outbound/outbound_dispatcher.py:283`), which breaks
`ScopeOrder`. Of the modelled hazards,
`adapters/clipool/_streaming_publish.py:30` (a publish that raises inside a stream)
is part of `CliPool` (`PublishFails`).

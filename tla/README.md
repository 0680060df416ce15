# Formal models of rogator

rogator is a gateway that serves OpenAI- and Anthropic-compatible endpoints on
top of several upstreams (Qwen, DeepSeek, Cursor, Zen, Ollama).  It is one
Python process on one asyncio event loop, with worker threads for blocking
calls (`core/transport/blocking.py`) and, for Cursor, threads of its own.  This
directory holds TLA+ modules for the parts of it in which the order of events
matters, TLC configurations that check them, and proofs checked by TLAPS.

## 1. The system

| Component | State | Operations | Interacts with | Hard because | Correct when |
|---|---|---|---|---|---|
| Request scheduling (`state_sched.py`) | `_active`, `_pending`, `_shutting_down`, a condition; the tracker's tasks | `acquire_slot`, `release_slot`, `submit`, `tracked_request`, `cancel_all`, `wake_for_config` | every chat handler; hot reload; drain | cancellation at each await; limits change under waiting requests; shutdown | counters match the requests; no waiter is left asleep by a slot that was freed; shutdown reaches everybody |
| Drain and shutdown (`state.py`, `main.py`, `server/config/shutdown.py`) | `_shutdown_requested`, `_shutdown_complete`, deadlines | `_request_shutdown_once`, `_drain_active_requests`, `_shutdown_upstreams`, `_graceful_shutdown` | scheduler, clients, background tasks | requests between admission and registration; timeouts; a watchdog that kills the process | no request starts after an idle verdict; every task ends |
| Session pool (`core/session/pool.py`, `pool_switch.py`) | session list, `_current_index`, blocked and muted accounts, `_inflight`, `_lock`, replenish event | `lease_valid_session`, `get_valid_session`, `switch_to_next`, `login_account`, `block_account`, `handle_account_muted`, `replenish_sessions`, cleanup | retry loops, maintenance loop, store | many awaits between choosing an account and using it; logins of the same account overlap | leases counted exactly; one session per account; excluded accounts stay out |
| Retry of Qwen requests (`server/retry`, `upstream/qwen`) | retry counter, error | `_dispatch_session_retry` and the handler of each error | pool, proxy toggle, transport | acts on "the current session", which others move | acts on the account that failed; bounded; ends |
| Mute handling of DeepSeek requests (`upstream/deepseek`) | switch counter, the lease | `_stream_with_mute_retry`, `_on_user_muted`, `_login_once` | pool | an account is muted while another task logs it in | counts stay exact; the request ends |
| Session store (`core/session/store.py`, `io.py`, `core/persist/locks.py`) | `sessions.json`, a thread lock and an asyncio lock | `save_upstream_sessions`, `save_upstream_sessions_async`, `load_upstream_sessions` | pool | a worker thread shares the list and the block table with the event loop; crash | memory knows what the file records; a block reaches the file |
| Background loops (`state_sched.py`) | one task group | `upstream_init_background`, `session_maintenance_loop`, `models_refresh_loop` | pools, model inventory | one loop's exception ends the others | pools stay tended |
| Model inventory (`state.py`) | `_models_inventory`, unified list | `refresh_models`, `_rebuild_unified_models` | upstream clients, dispatch | iterated across awaits; partial failure | the unified list matches the inventories |
| Config watcher (`server/config/reload.py`) | mtimes | `config_watch_loop`, `reload_config`, `apply_runtime_config` | scheduler, clients | runs in a worker thread | the last edit is applied |
| HTTP transport (`core/transport/http.py`) | `_http`, `_transport_lock`, cooldown | ensure, reset, close | every request of an upstream | a reset under other streams | sessions do not leak; every request ends |
| Proxy toggle (`upstream/qwen/media/proxy_toggle.py`) | `_enabled`, `_seen_tasks`, a file | `initialize`, `on_sm_block`, `release_task` | Qwen retries | several requests report the same block | a blocked path is left; requests are forgotten |
| Zen nodes (`upstream/zen`) | index, mute table, state file | `mute_current`, `switch_next`, `reload_pool` | Zen requests | the current node moves under failing requests; unordered saves | a usable node is used while there is one; the state reaches the file |
| Cursor runs (`upstream/cursor/chat`, `stream`) | `_parked`, `_by_tool`, pending calls, events | park, resume, drop, complete | socket thread, heartbeat, request threads | a resume races the park's time limit | no tool result is sent twice; waiting runs are found and woken |
| Cursor tokens (`upstream/cursor/auth`) | key pool, token | pull, switch, reload | requests, maintenance loop | pool replaced under a pull | the failing key is left |
| Anthropic stream (`handlers/anthropic`) | open block, index | block start, delta, stop; finish | upstream events | kinds of block interleave | blocks do not overlap, each is closed once, each call is sent once |
| OpenAI handlers (`handlers/openai`) | tool call indices, finish reason | chat, responses | scheduler, retries | restarted streams | indices are unique |
| Realtime (`handlers/realtime`) | one turn | append, commit, disconnect | ASR upstream | one coroutine each | turns follow each other |
| Dispatch, model registry, formats, records, migration, scripts | tables and files | lookups, conversions, appends | | little state | functions compute what they say |

The interactions that matter most: a handler asks the **scheduler** for a slot,
then runs a **retry** loop; each attempt **leases** a session from the pool of
its upstream; an error makes the retry loop block or invalidate an account and
**switch**, which may log another account in; every change of the pool is
**saved**, from the event loop or from a worker thread; the **maintenance loop**
does the same in the background; **hot reload** changes the scheduler's limits;
**shutdown** cancels the streams and waits for the slots to empty.

`PROJECT.json` lists every component with its status, and every hazard with the
line where it bites and the properties about it.

## 2. Modules

| Module | What it is |
|---|---|
| `SlotPool` | What admission promises: at most `limit` owners, a waiter gets a free slot, liveness. |
| `RequestScheduler` | The scheduler, the tracker, hot reload and the drain in full; refines `SlotPool`. |
| `SessionPool` | Leases, selection, switching, logins and maintenance: actions shared by the two retry modules. |
| `SessionRetry`, `MutedRetry` | Qwen and DeepSeek requests on top of `SessionPool`. |
| `SessionStore` | Saves of one pool by the event loop and by worker threads, crash and restart. |
| `ParkedRun` | Cursor runs that wait for tool results, and the requests that resume and read them. |
| `AnthropicStream` | The content blocks of a streamed answer. |
| `ZenClient` | Zen requests, the pool of proxy nodes, its state file and the HTTP session they share. |
| `ProxyToggle` | Qwen's proxy switch and the attempts that use it. |
| `ConfigWatch` | The watcher of the configuration files. |
| `AppLifecycle` | Background tasks, models and graceful shutdown; composes `ConfigWatch` with them. |
| `SessionPoolProofs` | TLAPS proofs about the pool, and about `SessionRetry` and `MutedRetry` on top of it. |
| other `*Proofs` | TLAPS proofs about the module they are named after (and `ConfigWatch` under `AppLifecycle`). |
| `MC*` | Model values, small sets and symmetry for TLC. |

In all of them a coroutine runs without interruption from one real suspension
to the next, so one action is such a run; worker threads and the threads of
Cursor runs have actions of their own.  Operators and actions whose comment
begins with "Fault:" are not part of `Next`: each is the form that a plausible
bug would give to the definition beside it, and replacing one by the other
breaks a property.  Variables described as "history" are read by properties
only.

### RequestScheduler

The locks of the scheduler are never held
across a suspension (`Condition.wait` releases its own), so they need no state.
`pc` says where the task of each request is suspended, `active`, `pending`,
`closing` are the scheduler's fields, `tracked` the tracker's keys, `limit` and
`queueLimit` the two settings, `phase` the progress of `AppState.shutdown` and of
`main._graceful_shutdown`.  `Admit` is `acquire_slot` up to its first suspension,
`Resume` a waiter's return from `Condition.wait`, `Unwind` its cancellation,
`Finish` the release with its `notify_all`.  `Stranded` says that somebody sleeps
beside a free slot.  `ReloadOnLoop` says whether
`apply_runtime_config` runs on the event loop; the watcher runs it in a worker
thread, so FALSE is what is deployed, TRUE what the code intended.

Abstracted: the order in which waiters reacquire the condition's lock, the
lengths of time limits, what the requests do with their slot.

### SessionPool, SessionRetry, MutedRetry

A session is named by its account.  `bad` are the accounts whose session has
expired or was invalidated (the code treats the two alike), `stale` the tasks
that hold a session object which is no longer in the list.  Every task has a
`pc` with one label per await of `get_valid_session`, `switch_to_next`,
`login_account` and their helpers; `lock` is the owner of `_lock` where it is held
across a suspension.  Prunes, index repairs and saves are part of the action
whose code calls them.  `Keepers` are `session_maintenance_loop` tasks.  In
`SessionRetry` an attempt fails with one of six kinds of error and each handler is
an action; in `MutedRetry` the upstream mutes accounts in the middle of a stream
or at login.  The two have no top-level name in common beside the pool's, so that
one module can prove about both.

Abstracted: times (whether a cleanup is due, a session or a block has run out, a
login succeeds is a choice), the ranking of candidates by login history, how
many sessions the maintenance loop wants, the proxy toggle's and the transport's
own state.

### SessionStore

`SaveNow` is the synchronous save of the event loop; a save in a worker thread is
`BeginSave`, `CleanExpired`, `Assign`, `BuildDocument` (or `BuildFails`, when the
table changes under it), `Write`, interleaved with everything the event loop does
to the same list and table.  A write of either kind may fail unnoticed
(`WriteFile`).  `late` and `lag` remember that a save of the loop overtook a worker
and that the file was left behind.  `Abandon` cancels the
saver: the asyncio lock is released, the thread goes on.  `Crash` and `Restart`
lose memory and rebuild it from the file.  One `os.replace` is one step.

### ParkedRun

`loop` is where the thread of a run is.  `CallTool` is an `execServerMessage`,
`Announce` and `Register` the two halves of `_enter_park` (the calls are put in
the queue before `park_run`), `Unpark`, `Expire`, `ClosedWhileParked` and `Crash`
the ends of `_wait_while_parked`, `EndTurn` and `Leave` those of the run.  A
request starts a run (`Ask`), looks one up by its tool results (`PostResults`, with
the fallback to a waiting run of the same workspace), sends them one by one
(`Send`, `Clear`), wakes the run (`Wake`) and reads its queue.  A resume does not
suspend, so requests wait for each other there (`EventLoopFree`) while the threads
go on between any two of its steps.

Abstracted: all runs belong to one workspace; the n-th `ParkedRun` object of a run
is its number n; `indexed` is `_by_tool` and the table of pending tools at once;
ages and timeouts are choices, and the fallback may take any run that waits; a
completed session's id is not used again.  `MaxParks` bounds how often runs park.

### AnthropicStream

`st` is `AnthropicStreamState` with the blocks that the client has seen; each
operator on it is a function of `stream_content.py`, `stream_tools.py` or
`stream_core.py`.  The actions are the upstream's events: `ThinkingEvent`,
`NativeCall`, `Feed` for a piece of text, `Fail`, and `Complete` for everything
from the parser's `finalize` to `_send_post_stream`.  The parser is a library: in
`Feed` it may go on with the call that is open, begin up to two more, and report
text, thinking and arguments beside them.  Texts are not kept, only which calls'
arguments went into which block.  `MaxCalls` and `MaxBlocks` are bounds.

### ZenClient

`pool`, `current`, `muted` are `NodeManager`'s, `save` is where each run of
`_save_sync` in the executor is, `http` and `open` the client's session and those
not yet closed.  A request goes through `Begin`, perhaps `FetchFails` and, after a pause,
`FetchAgain`, then `Fetched`,
`Connect`, and ends by `Answered`, `Unsupported` (which may fall back to another
model once), `PlainError`, or `Blame`, `Switch`, `Switched`: the three parts of
`_mute_and_switch` around its two saves.  `Reload` is a refresh of the pool.
Sessions are numbers, of which there are two more than requests: the proofs show
that this is always enough.  The expiry of a mute takes the node out of memory and
of every copy at once.  `MaxChanges` bounds refreshes, expiries and restarts.

### ProxyToggle

`toggle` is the manager's `_enabled` and `_seen_tasks`.  A request's attempt is
`CreateChat`, `PostChat`; a block reaches the manager up to three times and the
retry tells it a last time, all without a suspension: `Blocked`, by way of
`Told`.  `Lost` and `Failed` are the other errors, `Leave` and `LeaveBetween` the
ends.  A proxy is configured (without one the toggle is off for good).
`MaxCrashes` bounds restarts.

### ConfigWatch and AppLifecycle

The content of a file is the number of the write that made it.  The watcher
collects the times, waits, collects them again, and its thread reads the files one
by one while others may write them.  The files are those of the user, which are
both merged and watched; `template/` and `configs/<name>.toml`, merged but never
watched, are taken to stay as they are.  `AppLifecycle` adds the models, as the two
refreshes and the start of the upstreams change them one by one, the task group with its failure, and the shutdown
from the signal to the end of the process; every step of it may fail or be cut by
its timeout, and the watchdog may strike.  The drain of the requests is one step
here and modelled in `RequestScheduler`; of the models only which upstreams' new
lists are not yet published is kept.  `Qwen` is the place of qwen among the
clients, whose sessions are persisted before the first one's.  `FileCount`,
`MaxWrites` are bounds.

## 3. Runs

| Run | Shows | Bounds |
|---|---|---|
| `scheduler` | `TypeOK`, `SlotAccounting`, `DrainReachesStreams`, `IdleVerdictStable`, `OnlyReloadStrands`, `ImplementsSlotPool`, `ShutdownEmpties` | two streams and two other requests, `max_concurrent` in {-1, 0, 1, 2} and a queue of 2 or 4, reloaded at any time, on the loop |
| `scheduler_reload_wake` | violated as deployed: a wake-up is lost | three requests, limit raised from 1 to 2 |
| `retry` | `TypeOK`, `LeaseAccounting`, `OneSessionPerAccount`, `SwitchAvoidsExcluded`, `AttemptsBounded`, `EveryRequestEnds` | two requests and the maintenance loop, which compete for one account, logged in or not; one retry |
| `retry_blocks_other` | violated: a rate limit blocks another account | one request, two accounts |
| `muted_requests` | `MutedTypeOK`, `SwitchAvoidsExcluded`, `EveryChatEnds` | a request and the maintenance loop, two accounts logged in or not, two switches |
| `store` | `TypeOK`, `BlocksOnFile`, `MemoryKnowsDisk` | two savers, two accounts |
| `parked_run` | `TypeOK`, `DeliveredOnce`, `ParkedIsFindable`, `AnsweredRunWakes`, `NoReaderInVain` | two runs, two tools, two requests, two parks |
| `anthropic_stream` | `TypeOK`, `BlocksDoNotOverlap`, `AllStoppedAtEnd`, `EachCallOnce` | three parsed calls, streams of up to four blocks before the end |
| `zen_client` | `TypeOK`, `NoSessionLeaks`, `CurrentIsUsable`, `StateReachesDisk`, `RequestsEnd` | two requests with one retry, two nodes, a pool of two or of one, one refresh, expiry or restart |
| `zen_reset_cooldown` | violated: a reset within the cooldown closes the session | as `zen_client` |
| `proxy_toggle` | `TypeOK`, `BlockedPathIsLeft`, `ServedIsForgotten` | three requests with one retry, one restart |
| `app_lifecycle` | `TypeOK`, `ModelsTrackInventory`, `ConfigCatchesUp`, `ShutdownEnds` | one file written twice, two upstreams, the second of which is qwen, two refreshes and the start |

The bounds are the smallest in which the interesting cases happen: a waiter and a
holder beside a request that is neither; a limit that shrinks below the number of
holders and grows again; two requests that queue for the pool's lock and log the
same account in beside the maintenance loop, one of which is told to avoid it; an
account to fail and one to switch to; two workers that overlap because one saver
was cancelled; a run that parks twice, or two that park while results for either
come in; a call that is open, one that another tool interrupts and one that comes
whole; a request that resets the session another one waits with, and a pool that
shrinks under the index; a request that is told of one setting while two others
have turned it; an upstream before the one that fails and a write amid a reading.
The counters of `SessionRetry` and `MutedRetry` are bounded by the code's own
limits. The largest run is `parked_run` with six and a half million states.

Deadlock is checked in the runs about sessions, the store and the parked runs.
`CHECK_DEADLOCK FALSE` is used where the system really stops: the scheduler after
a shutdown, a stream that has ended, zen and toggle requests that have all been
served with nothing left to change, the process itself in `app_lifecycle`.

Three remarks on what covers what.

- `scheduler` sets `ReloadOnLoop`.  Its safety results hold for the deployed code
  too: a reload on the loop queues a wake-up, which may be delayed for ever, so
  every behaviour without wake-ups is among those explored.  That goes for
  `OnlyReloadStrands` as well: it speaks of what the other steps do, and is proved
  for both.  Only the liveness properties lean on the wake-up, and
  `scheduler_reload_wake` shows a waiter that sleeps on without it.
- In `retry` the three tasks compete for one account, which makes them wait for the
  lock and log it in at the same time, and a switch has to leave it to the others.
  A switch that finds another account is in `muted_requests`, which has two.  More
  of both at once is too large for TLC with liveness; the safety properties of
  larger instances follow from the proofs below.
- Several properties name exceptions: states that the code really reaches, in
  which the plain property is false.  They are listed in section 6.

The findings (the three `violation` runs) are in `PROJECT.json` with the line of the
code and the line of the documentation it contradicts.

## 4. Fairness

- Scheduler: weak fairness for each task: for its return from `Condition.wait`
  (the event loop runs ready tasks in order) and for the end of its body (the
  handlers' time limits); weak for a queued wake-up and for the steps of the
  drain, which are bounded sleeps.
- Sessions: strong fairness for the steps that need `_lock`, because `asyncio.Lock`
  is first come, first served; weak fairness for the rest.  Logins, saves and
  streams end, by their time limits at worst.  Nothing is assumed of the
  maintenance loop, of expiry or of errors.
- Zen: weak fairness for each request that was begun (connections and reads have
  timeouts) and for each save (the executor runs its queue).  Nothing is assumed
  of refreshes, expiry, cancellation and new requests.
- Lifecycle: weak fairness for the watcher (timers fire, threads end) and for
  those steps of the shutdown that its own timeouts bring about.  Writes, answers
  of upstreams, signals and the watchdog are not counted on.
- `SessionStore`, `ParkedRun`, `AnthropicStream`, `ProxyToggle` state safety only.

## 5. Proofs

`RequestSchedulerProofs` holds for every finite set of requests, every subset of
streaming ones and all sets of limits.

- `TypeCorrect`: the type invariant is inductive by itself except that the two
  counters stay naturals because `Less` stops at zero.
- `AccountingCorrect`: `SlotAccounting` is inductive together with `TypeOK`.  The
  sets `Holders` and `Inside` change by one element per step; `CancelKeepsSets`
  shows that a cancellation changes neither.
- `DrainCorrect`, `IdleVerdictCorrect`: by the invariant `DrainInv`, which adds
  to the two properties what the phases of the drain imply (closing is set from
  `draining` on, nothing that was in flight is both untracked and uncancelled).
- `WakingCorrect`: with and without `ReloadOnLoop`.  By `StrandStep`: a slot is freed
  only by `Finish`, which notifies every waiter, a waiter goes to sleep only when it
  has seen that there is no room, and a notified one takes the lock again before
  it counts; what is left is a reload that raises the limit.
- `PoolSafety`: every step maps to a step of `SlotPool` or to a stutter.

`SessionPoolProofs` holds for all finite sets of accounts and of requests, all sets
of maintenance loops, all lists that may be restored, every in-flight cap and
retry limit (`PoolAssumption`, `RetryAssumption`, `MuteSwitchAssumption`), for both
kinds of request.

- `PoolOK` is inductive for the pool, whoever uses it: the list (`ListOK`), the
  types, `TaskOK` of every task, and `LeaseAccounting`.  `TaskOK` says where a
  task with a given goal can be (`GoalOK`: only a switch for a retry has the goal
  "retry", and no such switch ends in a lease), that the excluded account counts
  as tried throughout a switch (`AvoidOK`), that a task past its choice has an
  account in its hands (`AccountOK`) and that a loop only logs in (`KeeperOK`,
  without which a loop might own the lock).  None of the properties is inductive
  without it.
- The list: `WithoutFacts` says what filtering it returns.  The new positions are
  the ranks of those kept, and `Ranks` shows by counting that they are a
  numbering without gaps.  `WithSessionFacts` does the same for
  `replace_or_append`; `DropBadKeeps`, `AddSessionKeeps` and `MutedListKeeps` lift
  that to the operations, index repair included.
- The tasks: `PoolGood` goes through the actions of the pool.  A step changes the
  locals of one task only and begins, ends or keeps one lease (`Good`);
  `GoodKeeps` and `LeaseChange` carry that over to all tasks and to the counts.
- For `SessionRetry`, `RetriesOK` adds when the count of retries is within its
  limit (`BoundOK`), hence `TypeCorrect`, `ListCorrect`, `LeaseCorrect`,
  `SwitchCorrect` and `BoundCorrect`.
- For `MutedRetry` the same `PoolOK` gives `MutedTypeCorrect` and
  `MutedPoolCorrect`, which says of DeepSeek requests what the runs check of Qwen
  requests.

`SessionStoreProofs` holds for all sets of accounts and savers.

- `TypeCorrect`: inductive once a process that is down is known to have nothing
  in memory.
- `FileCorrect`: `BlocksOnFile` is inductive once a worker that was not overtaken is
  known to have every block of memory in its document.
- `MemoryCorrect`: by `KnowsInv`, which adds that every document a worker has
  built, however old, records only blocks that memory still has.

`ZenClientProofs` holds for every finite set of requests, every set of nodes, all
pools and retry counts (`ZenAssumption`).

- `SessionsCorrect`: by `SessionInv`, the property with the types of the session
  numbers.  A new session needs a number that is neither open nor waited with;
  `FreshIsIn` finds one by counting: at most one is open and each request waits
  with at most one.
- `UsableCorrect`: by `NextNodeIs`.  The nodes after the current one, taken modulo
  the length of the pool, are all nodes (`AfterReaches`), so `switch_next` finds
  one that is not muted if there is any.  No other step puts the index down
  unseen.
- `DiskCorrect`: by `DiskInv`, which adds that a save that has read the manager's
  fields holds what they are now, unless it overlaps another or was overtaken by
  a change, which begins a save itself.
- `TypeCorrect`: the conjunction of the types that these three need.

`ProxyToggleProofs` holds for every set of requests and all bounds.

- `TypeCorrect`: with the file holding the setting unless a write was lost, by
  `PersistTypes` and `AsFiled`.
- `ForgottenCorrect`: `ServedIsForgotten` is inductive.
- `BlockCorrect`: `CarriesItsOwn` says that a block on its way carries the setting
  its request went out with; `ToldIs` follows it through the three calls of
  `on_sm_block`, the release and the last call, where `HeardAfterRelease` shows
  that the manager hears it whatever it knew before.

`AppLifecycleProofs` holds for any number of files, writes and upstreams.

- `TypeCorrect`: inductive part by part (watcher, models, shutdown).
- `ModelsCorrect`: `ModelsTrackInventory` is inductive given the types: a refresh
  drops its flag only with a rebuild, with nothing to publish, or as partial.

`ParkedRunProofs` holds for any runs, requests and pauses, and any finite set of
tools (`ParkAssumption`).

- `TypeCorrect`: inductive once a loop that pauses is known to have a `ParkedRun`
  and a request whose result is out to have one to clear.
- `FindableCorrect`: `ParkedIsFindable` is inductive: a call is open only at the run
  that made it (`CallsApart`), so what another run's end takes out of the index
  is none of it, and `Drop` closes the runs it drops.
- `TurnInv`, for the next two: resumes come one at a time, and the `ParkedRun` that
  one holds is not newer than the registered one, older while the loop announces.
- `DeliverCorrect`: by `DeliverInv`.  After the send and the clearing no `ParkedRun`
  that the registry, a request or the announcing loop can reach lists the call
  (`InUse`, `Open`); that is what fails for a call answered early.
- `WakeCorrect`: by `WakeInv`, the property with the request named that will set the
  event: one that holds the newest `ParkedRun`.
- `ReaderCorrect`: by `ReadInv`.  What is left in the queue of a thread that is over
  ends with its `None`, nothing is sent to it unless that is still there, and a
  run has one reader unless a resume joined another.

`AnthropicStreamProofs` holds for messages of any length with any number of
parsed calls.  The operators of the model are pure functions of the stream state;
each has a lemma on what it keeps, and a step composes the lemmas in the order in
which the code calls the functions.

- `TypesCorrect`: by `TypeInv`, which adds that every index in the state points at
  a block that was begun.
- `BlocksFollowEachOther`, `EndStopsAll`: by `OrderInv`.  Unless a native call met
  text or a parsed call, the last block is open exactly when the state has a
  current one, the block of a streamed tool is that one, and all others are
  stopped once (`Orderly`).  The property alone is not inductive: it does not say
  that the state knows which block is open.
- `CallsReachTheClientOnce`: by `CallInv`.  As long as no call came with another
  or was interrupted, the calls that are complete are in one block each and
  counted by `pending`, and the open call is in the block of the streamed tool or
  in none (`Counted`); so what the end sends after `pending` is what is missing.

Model-checked only:

- all liveness (`ShutdownEmpties`, `EveryRequestEnds`, `EveryChatEnds`,
  `RequestsEnd`, `ConfigCatchesUp`, `ShutdownEnds`, and the liveness part of
  `ImplementsSlotPool`): fairness is out of the prover's reach.

Every invariant that a passing run checks is proved, and so is each of their
action properties.

## 6. What the models showed

Beside the three findings, the models reach states that no line of the
documentation rules out but that a maintainer should know of.  Where a property
has an exception, this is why.

Requests and sessions

- The forced cancel after the drain's timeout (`state.py:241`) reaches nobody: the
  first cancel has emptied the tracker, and requests that are not streamed never
  enter it.
- CHAT_NOT_FOUND invalidates the current session after an await
  (`session_retry.py:239`), which may be the one another request streams on.
- A login that was under way when its account was muted ends in a lease
  (`pool_switch.py:136`), although `store.py:333` says that a muted account is
  neither logged in nor selected.
- A worker's late write, or a write that fails, leaves a block out of the file until
  the next save (`lag` in `BlocksOnFile`); nothing makes a next save come, for the
  maintenance loop may have ended.  A worker's `Assign` drops a login appended
  meanwhile (`store.py:194`).

Cursor runs

- The calls are announced before the run is registered (`loop.py:150`).  A fast
  client's results then find an older `ParkedRun`, which nobody waits on, or by the
  workspace another run: `early` and `astray` in the properties of `ParkedRun`.
- Two requests that read one run share its single end mark; one waits for ever
  (`shared`).
- A run that crashes in its wait stays registered, and its connection may still
  take results that nobody will read.

Answers

- A text block that starts after a native tool block does not stop that block
  (`stream_content.py:84`): `mixed` in `BlocksDoNotOverlap`.
- `_finalize_open_tools` takes the calls that only `finalize` completed out of the
  parser, and `_handle_late_ready_tools` then finds none: `dropped` in
  `EachCallOnce`.  Calls that come in one piece of text with others may be sent in
  another order or twice: `crowded`.

Zen and the toggle

- A mute hits the node that is current when the error is handled
  (`zen/client.py:244`), which another request may just have switched to.
- Two saves that overlap may leave the older state in the file (`behind`).
- A retry of a zen request repeats the text that the first attempt sent.
- A reset closes the session others stream on.  `NoSessionLeaks` follows the comment
  in the body of `reset_http_transport` (always close, so that none leaks), which the
  code keeps to; the docstring's promise for the cooldown (`http.py:286`) is
  `CooldownSparesSession`, which `zen_reset_cooldown` refutes.
- A block met in the stream does not carry the setting of its attempt; the
  client's latest setting is taken for it, and the toggle may turn back to the
  blocked path.

The process

- Before Python 3.12 `cancel_leftover_tasks`, run through `wait_for`, cancels the
  task of the shutdown itself, and what follows ("Server stopped", the
  notification) is skipped: phase "cancelled".
- An edit between the start's load of the files and the watcher's first
  collection is missed until the next edit (`seen`).
- A failing fetch, or a failing start of an upstream, skips the rebuild for the
  upstreams before it (`partial`), and
  one maintenance loop's exception ends all background loops for good.
- When the shutdown's step times out, the sessions of later upstreams are not
  persisted (`cut`).

## 7. Not modelled

- **Vendored code.**  `scripts/reference/fireye/*.js` is a copy of a third party's
  browser script kept as a reference for reverse engineering.  The server never
  loads it, so no module translates any of it.
- **Qwen protocol, DeepSeek library, Ollama, uploads, proof of work, Cursor's
  encoding and local tools**: I/O and data conversion; their effect on the shared
  state is in the modules above.
- **Cursor tokens**: the key pool and its file are used by synchronous code under
  one lock; the one place where a pull and a reload overlap is listed as a hazard.
- **Realtime sessions**: one coroutine per websocket, whose state no other one
  reads.
- **OpenAI handlers**: what they do with slots, the tracker and retries is in
  `RequestScheduler` and `SessionRetry`; the chunks carry indices that one
  coroutine counts.
- **Dispatch, model registry, formats, tool parsing, usage**: functions of their
  arguments over tables that do not change after the start, mostly on strings.
- **Records, persistence paths, migration, scripts, static handlers**: append-only
  logging and one-shot moves of files before anything runs concurrently.
- Of modelled components: how the maintenance loop wakes and how many logins it
  wants (a choice), send limits and the transport reset in `SessionRetry`, the
  cooldown's immediate re-creation of a session (which
  zen does not use), what configuration values mean and how files are merged, the
  start's own sequence before the server listens.

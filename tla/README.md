# A TLA+ model of the classroom operation platform

PVE-Longxin64 starts, stops and restores the virtual desktops of a classroom.
A teacher asks for an *operation* (PRECHECK, START, SHUTDOWN, RESTORE) on a set
of seats; a worker executes it against Proxmox VE (PVE) item by item; the
browser follows it live.  This directory models that life of an operation, from
the click to the last event, and the life of the process that serves it; checks
it with TLC on small instances, and proves with TLAPS, for every size, the safety
properties that those instances have and three refinements.

## 1. The system

| part | source | state it keeps | operations |
|---|---|---|---|
| operation lifecycle | `server/internal/domain/operation.go` | none (tables) | `Transition`, `RefreshCounts`, `Terminal` |
| operation creation | `operations/manager.go`, `store/postgres.go` 333-448 | operations, items, idempotency keys | `Create`, `CreateOperation` |
| operation runner | `operations/runner.go` | a private copy of the operation it executes | `drain`, `execute`, `waitForPVE`, `finalize`, `fail` |
| PostgreSQL repository | `store/postgres.go` | operations, items, leases, seats | `SaveOperation`, `ClaimNextOperation`, `RenewOperationLease`, `ApplyOperationItemResult`, `GetOperation` |
| memory repository | `store/memory.go` | the same in maps, under one mutex | the same |
| PVE adapter | `pve/*.go` | HTTP client, or a fake | `Submit`, `Wait` |
| event log | `operations/events.go` | per operation: last view, bounded history, sequence | `EventsSince` |
| event stream handler | `httpapi/events.go` | the cursor of one connection | poll loop, `writeOperationEvents` |
| HTTP API | `httpapi/api.go`, `middleware.go` | none | decoding, error mapping |
| live list in the browser | `web/src/api/operationEvents.ts` | cached list, open event sources | `applyOperationEventToList`, `useOperationEventStreams` |
| idempotency keys in the browser | `web/src/lib/operationIdempotency.ts` | the key of the current intent, in session storage | `synchronize`, `keyFor`, `acknowledge` |
| API process | `cmd/api/main.go` | two goroutines, their contexts, the repository | start, select, graceful shutdown |
| authorization policy | `authz/policy.go` | none | `Authorize` |
| secrets, configuration, wiring | `security`, `config`, `app`, `cmd/worker` | configuration | encryption, reading the environment |

How they interact: the browser creates an operation through the HTTP API, which
stores it as QUEUED.  Workers poll the store and claim the oldest operation that
is neither finished nor leased to somebody else.  The worker works on a private
copy: it renews its lease, sends requests to PVE in waves, stores each UPID (the
name PVE gives a task) and waits for the tasks; each step is written back with a
compare-and-set on `resource_version`.  The seat shown in the classroom view is
updated in calls of its own.  The API process polls the same store and turns the
differences into Server-Sent Events.  Nothing else synchronises worker, API and
browser: they meet in the database.

What is hard, and what makes each part correct:

* **Runner and repository.**  A worker may stop between any two calls, its lease
  may run out while it still works, any call may fail with or without effect, and
  PVE may answer late or not at all.  Correct means: a stored UPID is never lost,
  a destructive request is not blindly sent again, recorded results are true,
  finished operations stay finished, seats show what the items say, and every
  operation ends.
* **Creation.**  Two equal requests, or a request repeated after a lost answer,
  must give one operation; a key that is kept too long would be a conflict, one
  that is dropped too early a second operation.
* **Event log and handler.**  Several handlers share one stream, read the
  operation before they take its mutex (and in two statements), the history is
  bounded, streams are evicted, connections break, the process restarts.  Correct
  means: a reader that follows the events has the state that was read, notices
  every gap, and ends with the final result.
* **Browser.**  Event patches and polled lists write the same cache, and the first
  terminal event closes its source.  Correct means: the list ends as the store does,
  whatever is lost or overtaken.
* **PVE adapter.**  A request may be taken although its answer is lost.  Correct
  means: what is called failed never happens, and every wait ends.
* **Two repositories.**  The tests use the one in memory, the deployment the one
  with PostgreSQL.  Correct means: no caller can tell them apart.
* **API process.**  A signal, a failing server and an ending worker may come
  together or bring each other about; event streams never end by themselves.
  Correct means: the process ends, needs no timeout for it, closes the
  repository under nobody's hands, and reports what was the matter.

## 2. Modules

| module | models | used by |
|---|---|---|
| `OperationLifecycle` | status tables, `Transition`, the classification in `finalize` | `OperationRunner` |
| `OperationPromise` | abstract specification of what the workers promise to everybody who looks | `OperationRunnerProperties` |
| `OperationRunner` | workers, PostgreSQL repository, lease clock, PVE | the next five |
| `OperationRunnerProperties` | type invariant, safety and liveness of the runner, refinement mapping | |
| `OperationRunnerInvariant` | the inductive invariants behind them | the proofs, `MCOperationRunner` |
| `OperationRunnerProofs` | theorems in every environment: types, copies, UPIDs, the record of an operation, `OperationPromise`, power states | the next |
| `OperationRunnerLeaseProofs` | theorems while leases hold, processes live or calls succeed: one executor, classification, seats, tasks, waves, machines | |
| `MCOperationRunner` | instances for TLC | `Runner*.cfg` |
| `CreateOnce` | abstract specification of `CreateOperation`: the memory repository, one mutex | `OperationCreation` |
| `OperationCreation` | classroom page with its idempotency keys, `Manager.Create`, concurrent transactions of PostgreSQL; its properties | the next two |
| `OperationCreationProofs` | theorems | |
| `MCOperationCreation` | instances for TLC | `Creation*.cfg` |
| `PveCall` | abstract specification of one request to PVE, as `OperationRunner` takes it for granted | `PveAdapter` |
| `PveAdapter` | `Submit` and `Wait` of the HTTP adapter with its errors, and the runner's classification; its properties | the next two |
| `PveAdapterProofs` | theorems | |
| `MCPveAdapter` | an instance for TLC | `PveAdapter.cfg` |
| `EventStream` | event log, handler, event source; its properties | the next two, `LiveViewProofs` |
| `MCEventStream` | instances for TLC | `Stream*.cfg` |
| `OperationCache` | the browser's cached list, its polling and its event sources, on top of `EventStream`; its properties | the next two |
| `MCOperationCache` | an instance for TLC | `Cache.cfg` |
| `LiveViewProofs` | theorems about `EventStream` and `OperationCache` | |
| `RepositoryPair` | every call of the repository interface on both repositories at once | `RepositoryPairProofs` |
| `RepositoryPairProofs` | theorems | |
| `ApiProcess` | `run` of `cmd/api` with server, handlers, embedded worker; its properties | `ApiProcess.cfg`, `ApiProcessProofs` |
| `ApiProcessProofs` | theorems | |
| `AccessPolicy` | the decision of the authorization policy, with theorems | |

An operator named `Mut_...` is a plausible mistake in the definition that follows
it.  It is not part of the model: replacing the definition by it must break the
property that guards against that mistake, which shows that the property can
fail.

### OperationRunner

One action per repository call or PVE call of `runner.go`, because between two
calls everything else can happen.  A repository call is one SQL statement or one
transaction and therefore atomic.  Steps without a call are attached to the call
that follows or precedes them.

* `row`, `items`, `lease` are the tables `operations` and `operation_items`;
  `seats` stands for `seats.operation_state` and the power state in
  `virtual_desktops`.  `pve` is the list of every mutating request ever sent, a
  request's UPID being its position.  `mem[w]` is the copy of worker `w`;
  `ctl[w]` its program counter with the loop variables of `execute`: the pending
  items of the waves to come (`rest`), the wave, the items the innermost loop has
  left (`todo`) and the request whose answer is awaited.
* A worker is a process.  `NewRunner` draws a random identity, so a restarted
  process is another member of `Workers`.
* `Claim` is `ClaimNextOperation`; `LoadRow` and `LoadItems` are the two
  statements of `GetOperation`.  `Begin` is the first renewal in `execute` and
  picks the continuation from the status found.  `Validate`, `Check`,
  `StartRunning`; `StartWave`, `Mark`, `SaveWave`; `Track`, `RenewForSubmit`,
  `Send`, `Accepted`, `NotAccepted`, `SaveSubmit`; `StartWaiting`, `TaskEnded`,
  `Result`, `WaitFails`, `Unresolved`, `SaveResult`, `EndWave`; `Verify`,
  `Finish`; `Fail` follow the code from top to bottom.
* `Save` has three outcomes: stored, version conflict, or an error that may come
  before or after the commit.  Every error leads to `Fail`, as in `drain`.
* `LeaseLapses` lets the lease of an abandoned operation run out; `LeaseExpires`
  lets it run out under a worker that is still executing.
* Left out: time stamps, messages, error codes, counters (recomputed from the
  items), logging, the `wake` channel (it only shortens a poll), classrooms'
  version counter.  CANCEL_REQUESTED is excluded by `Claim` as in the code; no
  code path sets it.

`OperationPromise` forgets workers, leases, versions, PVE and seats.  Its variables
are the status of every operation and status and UPID of every item; its only step
saves an unfinished operation along the table of transitions, keeps UPIDs and
results, and finishes it only when no item is open.  `IsOperationPromise` maps `row`
and `items` to them: every save is such a step, everything else stutters.

### OperationCreation

One classroom, one page of the browser and one other client of the API that uses
its key more than once.  `call[c]` is a POST request: what it asks, how far the
transaction that serves it is, what it was answered.

* `Select`, `Start`, `Told`, `Reload` are what the user and React do to the page:
  each includes the `synchronize` of the effect that follows a changed selection.
  `active` is the key manager's memory, `stored` its copy in the session storage,
  `Persist` writes both.  The intent of the page is its set of seats, {} meaning
  the whole classroom; the type is always START there.
* `Refuse`, `Lookup`, `InsertKey`, `Commit`, `ResolveRace` are the manager and the
  statements of `PostgresRepository.CreateOperation`.  The transaction is READ
  COMMITTED: `Lookup` sees committed keys only; `InsertKey` waits (`Free`) while
  another transaction holds the same key uncommitted, then goes on or violates the
  primary key.  The rows become visible with `Commit`.
* `Fail` is an error or a vanished process before the commit, `FailLate` one
  after it: the caller cannot tell them apart.
* `Hash` is what `hashRequest` distinguishes of a START: the set of seats.  A
  sequence with repeated or reordered seats is the same request, the empty one is
  the whole classroom, and naming all seats is a request of its own.
* A request is refused for a foreign seat; the checks of key, type, reason and
  confirmation refuse at the same place with the same effect and are left out.

`CreateOnce` is the memory repository's `CreateOperation`, atomic, except that the
caller may get an error instead of the outcome.  The refinement mapping shows a
call's commit, or its answer, as the moment it takes effect.

### PveAdapter

One item of an operation on its way through `HTTPAdapter.Submit` and
`HTTPAdapter.Wait`, together with the lines of `Runner.execute` (226-303) that
turn what they return into a status of the item.

* `at` is the program counter: `submit` (before the checks), `pool` (the managed
  pool is being read), `ready` (before the mutation), `post` (its answer is
  awaited), `known` (before a poll), `poll`, `sleep`, `done`.  `ctx` is the context
  of the call: its deadline (`Expire`) or the end of the worker (`Cancel`) may come
  at any point, and the code looks at it only where it does.
* `wire` and `task` are PVE's side.  A mutation that was sent may be taken at any
  later time (`PveTakes`), also after the adapter gave up, unless PVE refused it.
  That an explicit status (400, 401, 403, 404, 405, 409, 422) or a failed TLS
  handshake means that PVE will not take it is the assumption the code makes.
* `TransportError`, `HttpStatusError`, `ContextError`, `UnusableAnswers` are the
  functions of `http.go` on the fields that matter: code, `Retryable`,
  `OutcomeCertain`, and whether the cause is a passed deadline.  The body of an answer may
  be cut off by the deadline, hence two unusable answers.
* `Check`, `PoolFails`, `Resolve`, `Precheck`, `Post`, `PostLost`, `PostRefused`,
  `PostAnswered` are Submit; `Ask`, `PollFails`, `PollAnswered`, `Sleep` are Wait.
  A worker that is cancelled while it waits is followed by another one that waits
  for the saved UPID.
* A precheck has no mutation: its UPID is made up, and Wait asks for the status of
  the machine once.

`PveCall` is the PVE of `OperationRunner` for one request.  `CallState` maps the
adapter to it: a request whose item is FAILED without a UPID counts as refused, so
the refinement says that it never becomes a task afterwards.

The node of a request is modelled although the runner never sets it.  (The comment
at `adapter.go` 18-19 says that supplying it "avoids the extra read request"; the
code reads the pool in any case, to check the machine against it.)  An error of a
poll is `OutcomeCertain` when the TLS handshake fails (`http.go` 459-465), although
the mutation was accepted long before; this is harmless because the runner calls
every error of Wait unknown, and the properties about certainty speak of Submit.

### EventStream

`EventsSince` is one action (`Publish`) because it runs under the log's mutex;
the two reads of `GetOperation` come before it as steps of their own.  A view of
an operation is its version and, per item, the version of its last change, which
is all the log compares (status, progress and `updated_at` change with them).
`log` is the map of streams, ordered by last access.  The event source remembers
the last id and sends it when it connects again; it stores in `reader` what the
events told it, patched as `patchOperation` does.  A connection may break at any
time, a read may fail (before the answer has started the browser gives up, as
EventSource does on an error status), the process may restart with an empty log.
Left out: heartbeats (no id), the wrap of the sequence number at
9 007 199 254 740 000 and the refusal of ids above half of it.

### OperationCache

Extends `EventStream`: the same log, handlers, store and faults, with the page in
place of the plain readers.  There is one possible event source per operation
(`Watches` is the identity).

* `cache` is the cached list, `fetch` the request for it that is under way: it reads
  one operation after the other, each in two statements, so the list may be torn
  within and between operations.  `ListArrives` replaces the list, whatever events
  have told meanwhile.
* `target` is what the last effect chose, `sources` the open event sources.
  `Effect` runs some time after the choice changed; frames and answers may come in
  between.  `Hear` is the listener: number filter, version filter, patch, and on a
  terminal status the end of the source and a new request for the list.
* That `invalidateQueries` abandons a request under way (its default in TanStack
  Query 5) and `setQueryData` does not is taken from the library.
* `reader.view` stays empty here; `reader.id` is both the EventSource's last id and
  `lastSequence`.

### RepositoryPair

`operations`, `idempotency`, `operationLease`, `classrooms` are the fields of
`MemoryRepository`; `operationRows` (with the columns of the lease), `itemRows`,
`keyRows`, `seatRows`, `desktopRows`, `classroomRows` the tables of PostgreSQL.  Every
call of `repository.go` 22-39 but `Ping` and `Close` is an action that makes it on
both; `fromMemory` and `fromTables` are the two answers.  Calls are complete before
the next begins (`OperationCreation`, `OperationRunner` and `EventStream` take them
apart), no database error occurs, no context is done, identifiers are well-formed and
both read one clock.  Of a record there is what calls change and somebody decides upon or
sees: status, version, item status and UPID; power, agent and time of the last success
(`last_reconciled_at`) of a desktop; the four counts of a listed classroom.  Left out: the
order of seats and items, and that PostgreSQL keeps times to the microsecond.

Two history variables say since when the repositories differ.  `prechecked` has the
desktops whose last successful task was a precheck: `memory.go` 256 sets the time of any
success, `postgres.go` 563-574 only that of a task that changes the power state.  `tied`
says that the memory gave away a lease at the very instant of its end (`OnTie`), where
`After` (`memory.go` 191) takes it as ended and `<` (`postgres.go` 511) does not.

### ApiProcess

* `main` is how far `run` is: `opening`, `started` (both goroutines run, the first
  select is not reached), `select` (it blocks), `woken`, `shutdown` (`server.Shutdown`),
  `waiting` (for `workerDone`), `closing` (the deferred `Close`), `closed`, `exited`.
  A select with several ready cases takes any (`Select`); one that blocks is woken by
  the event itself (`Wakes`).  The start fails before there is a repository (`StartFails`)
  or after it was opened, when the adapter cannot be built (`AdapterFails`): then the
  deferred `Close` is still to come.
* `signalled` is the context of the signal, `cancelled` the call of `cancel`, `late` the
  end of `shutdownContext`.  `CtxDone` is the context of the worker and, by
  `BaseContext`, of every request.
* `worker` alternates calls of the repository and of PVE; `failing` is the save in
  `fail`, which has a context of its own.  `WorkerReturns` is the end of `Run`: its
  context, or any deadline error of a drain.  `request[r]` is a connection's handler: in
  a call of the repository, or asleep as an event stream.
* `CloseRepository` and `Exit` are the deferred `Close`: that of PostgreSQL waits for
  calls under way, that in memory does not.
* What the calls do to the tables is in the other modules.  What they return is not
  modelled, only that they end, and end with an error when their context is done.

### AccessPolicy

Operators only: the grants of each role, the two scopes, and `Allowed`, the returns
of `defaultAllowed` in their order.  The policy keeps nothing and no handler calls it,
so there is nothing to explore; what matters about it holds for all principals and
resources and is proved.

## 3. Runs

`MaxMishaps`, `MaxFaults`, `MaxDrops`, `MaxRestarts`, `MaxEvictions`, `MaxCancels`
bound how often the environment misbehaves, `MaxTroubles` how many broken connections,
restarts and failing reads there are together; `MaxBacklog` bounds how far a handler
may run ahead of a slow reader (0: it polls again when the frames are read; a
broken connection still loses any part of a batch).

| run | instance | shows |
|---|---|---|
| `crash` | 2 workers, a restore of 2 seats in waves of 1, one worker stops anywhere or its lease expires while it works, PVE may not answer | the records only move forward (`IsOperationPromise`), UPIDs survive two executors at once, results are true, nothing is sent that is not recorded as taken up, whatever could be saved fits the store (`RecordInv`), and the operation ends.  Without an expired lease: one executor at a time; the final status is the one the items imply although two workers contributed; seats agree with items; only marked and unsubmitted items are sent |
| `solo` | 1 worker, a restore of 4 seats of which one cannot be restored, in waves of 2, then a shutdown of one, lost answers, one repository error | waves are bounded; operations do not overlap on a machine; a finished operation has no open item and no lease and claims no success it does not have; a finished operation has no task nobody knows of; power states are earned |
| `creation` | 3 requests, 4 keys, 2 seats, 2 failures; another client that asks for a seat, for both with one repeated, or for a foreign seat | transactions implement `CreateOnce`; an answer is an operation for the seats asked for; the page causes no conflict; a user who never selects seats gets no second operation by repeating or reloading |
| `pve_adapter` | every kind of item, right and wrong, every content of the pool, 14 statuses, a deadline anywhere, 2 ended workers | a certain or retryable error means that PVE never acts; only managed machines are touched; the adapter implements `PveCall`; every call ends |
| `stream_replay` | 2 readers, 2 items, 1 save, history of 2 events, two of a broken connection, a failing read and a restart | ids only grow and no update comes without its predecessor, across restarts too.  While the process lives: readers have exactly what was read, the end shows the final result, and every reader gets there unless its browser was refused |
| `cache` | 2 operations of one item, one source at a time, a log of one stream (so that streams are evicted), a history of 2 events, a broken connection, an API restart and a failing read | the list becomes that of the store and all streams are closed, by polling alone; without failures a finished operation shows its final items once no request is under way; the chosen operations are followed; no frame is discarded and none is missed (`FramesFollow`) |
| `api_process` | 3 connections, with and without an embedded worker, either repository; a signal, a failing server, an ending worker and a timed-out shutdown at any point | the process ends without needing the timeout; nobody is left behind when the repository is closed unless a timeout is reported; a worker that was told to end is not blamed |

Five runs record where the code does not do what its documentation or tests say;
TLC finds the violation and the finding in `PROJECT.json` quotes the sentence:

* `resubmits`: stop after PVE accepted a request and before its UPID is stored,
  and the next worker sends the request again.
* `seat_diverges`: `fail` does not tell the seats.  When the first renewal of a lease fails,
  the items are UNKNOWN, the operation is FAILED, and the seats keep the state of before
  the operation.
* `vm_conflict`: two workers execute two operations on one machine at once.
* `creation_duplicate`: after a lost answer, selecting another seat and going back
  discards the key; the same scope is created a second time, which the message on
  the page rules out.
* `stream_restart`: an id of the previous API process is taken for one of the new
  process; the reader is never brought up to date by the stream.  It checks
  `EndShowsFinal`, which is `EndIsFinal` of `stream_replay` without its condition that
  the process lives.

Why the bounds are enough.  Every property compares at most two workers, two
items or two requests of one item.  Two items with a wave of one give a finished
wave, a wave in progress and a wave to come in every combination; three submitted items with
waves of two give a short last wave.  A second crash or stall adds no new pair of
overlapping copies; the safety properties of `crash` also hold with two mishaps of either
kind (6 million states, too many for the regular runs).  For the stream, the creation and one save give two views, the torn
views between them and handlers that overtake each other; a history of two events
is shorter than one batch.  Larger instances were run once and hold too: the
stream with two saves (4 million states), the end of an operation of one item with
a crash, an expired lease and an error together (511 112 states).

For the creation, three requests are two that race for a key and one that comes
later, or a lost answer, a repetition and a rival; a key is needed per request and
one for the other client.

For the process, three connections are a request, a stream and one that is accepted
late; the goroutines are those of the code, and `late`, `cancelled` and `signalled` are
set once.  Nothing is bounded but the connections (`ApiProcessProofs` has any number).

For the cache, two operations compete for one source, and one item is enough for
a batch that is cut off; with two saves of one operation, a broken connection and a
failing read the properties of the list hold too (3.0 million states).

For the adapter, the statuses are all that `httpStatusError` names, a redirect, and
those on either side of its limits (410, 499); `n1` and `n2` are the right and a wrong
node.  A second end of a worker shows that a third one changes nothing: it finds the
same saved UPID.

Some properties need a well-behaved environment and say so in their first line,
because they are not true otherwise.  With an expired lease (`stalls > 0`) two workers
may submit the same item and overwrite a seat; so `SoleExecutor`, `OnlyMarkedIsSubmitted`
and `SeatShowsResult` ask for `stalls = 0`.  `fail` may call an operation FAILED whose
items all succeeded; so `TerminalIsClassified` asks for `faults = 0` too.  After two
repository errors in a row (the save of the UPID fails and so does the save in `fail`),
or when the process stops between the request and the save, PVE has a task that nobody
knows of; so `NoSilentTask` asks for `stops = stalls = 0` and at most one error, and
`WaveIsBounded` for none.  `ReaderIsCurrent` and `EndIsFinal` hold while the stream is
kept (`Kept`: no restart and no eviction).

Fairness.  `Run` polls on a ticker, and every call to PVE is bounded by a timeout,
so a worker that can step eventually steps (`WF(Step(w))`); a lease that nobody
renews runs out (`WF(LeaseLapses)`).  Nothing is assumed of PVE, of the database,
or of the worker that stops; `deploy/compose.yaml` restarts stopped processes, which
`crash` reflects by a second worker.  The adapter's requests end by the request
timeout and its sleeps by the poll interval (`WF(Submit \/ Wait)`), and deadlines pass
(`WF(Expire)`); nothing is assumed of `PveTakes` and `PveEnds`.  For the stream: the poll ticker ticks, the
browser reads and reconnects (server-sent `retry`), and operations are saved until
they end, which is what `crash` shows.  For the cache: the page is visible, so
it polls and React runs its effects; nothing is assumed of handlers, connections or
event sources, because the claim is that polling makes up for them.  For the process:
goroutines run, calls end, and a call whose context is done fails (`WF(Run)`, `WF(Work)`,
`WF(Handle(r))`); nothing is assumed of the shutdown timer, because whoever is told to
end must not need it.  `OperationCreation` assumes no fairness: all
its properties are about safety.

## 4. Proofs

Every invariant and every action property of a passing run is a theorem, two of them
under a condition that the run meets (`SeatShowsResult`: no repository error;
`VmIsExclusive`: one worker, without mishaps).  Liveness is not proved (see the end of
this section).

`OperationRunnerProofs` proves, for arbitrary sets of workers, operations, items
and seats and arbitrary budgets, from the named assumptions on the constants only:

* `TypeCorrectness`: `Spec => []TypeOK`.
* `CopyInvariance`: `Spec => []CopyInv`.
* `UpidStability`: `Spec => UpidIsStable`, a stored UPID is never lost or replaced,
  not even by a worker that lost its lease long ago.

`UpidIsStable` is an action property that is not evident from one step: a save
overwrites all item rows with a private copy.  It holds because a save succeeds
only if the copy's version is the row's, and `CopyInv` says that such a copy knows
every stored UPID (`CopyKnowsUpids`).  To be inductive it needs that no copy is
ahead of the row (`CopyIsNotAhead`: otherwise a later save of someone else could
make a copy "current" again that missed a UPID) and that a worker adds a UPID only
to an item that has none in its copy (`SubmitsWithoutUpid`).  The torn read of
`GetOperation` is harmless for it because the row is read first: items newer than
the version are only a conflict waiting to happen.

The proof has one lemma per kind of repository call (`CommitKeeps`, `SaveKeeps`,
`RenewKeeps`, `ApplyKeeps`, `PrivateStepKeeps`) and one step per action on top.

In its second part, with nothing assumed of the environment either:

* `RecordInvariance`: `Spec => []RecordInv`.
* `PromiseRefinement`: `Spec => IsOperationPromise`.
* `TerminalConsistency`, `TruthfulOutcome`, `IntentRecorded`: `Spec => []` of
  `TerminalIsConsistent`, `OutcomeIsTrue`, `IntentIsRecorded`.

A save overwrites a whole operation, so what it may do follows from what is known of
the copy, and that depends on how far the loops of `execute` are.  `RecordInv` says
nothing of a copy of an old version, as it can never be saved.  One of the stored
version agrees with the store in its status (`StatusFits`), has only new items before
the operation runs (`FreshFits`), has items without a result ahead of the loop, settled
ones behind it and submitted ones between (`ItemsFit`), names requests of its own
items (`PveFits`), and may be saved (`MaySave`): what it tells of PVE is so, and it is
a step of `OperationPromise`.  That two workers can execute one operation at once
does no harm: the first save makes the other's copy old.  There is one lemma per
place in the loops, and one for saves, which turns `MaySave` into the promise.

And in its third part:

* `EarnedPower`: `Spec => []PowerIsEarned`, from the supporting `TaskOwnership` (`Spec =>
  []OwnTasks`).

A seat's power state is written without any compare-and-set, so here `RecordInv` does
not help: the copy may be of an old version.  `OwnTasks` is what a worker knows from
its own past, whatever others saved meanwhile: the UPIDs of its copy are tasks of its
own items, and a loop has seen to the items behind it.

`OperationRunnerLeaseProofs` proves what needs a well-behaved environment.  Every theorem
is about the same `Spec`; the condition is part of the property.

* `Aloneness` (`Spec => []AloneInv`), `SoleExecution` (`SoleExecutor`) and `MarkedSubmission`
  (`OnlyMarkedIsSubmitted`), as long as no lease has expired under a worker.  Two workers
  could then only meet by a claim; `AloneInv` adds that who executes an unfinished
  operation has its lease, which excludes the claim, and the stored version (`Fresh`),
  so that the save that gives the lease up and finishes the operation is his.  That
  finished operations stay finished is taken from `PromiseRefinement`.
* `Classification`: `Spec => []TerminalIsClassified`.  Without errors nothing gets to
  `fail` (`CalmInv`), so that only `finalize` finishes an operation.
* `SeatsShowResults`: `Spec => [](faults = 0 => SeatShowsResult)`.  The condition is needed:
  `seat_diverges` is the counterexample, and `crash` has no repository error.  The
  invariant `SeatInv` speaks of unfinished operations too: of the items that ever
  touched a seat there is one whose result, be it stored or still in the hands of its
  executor, is what the seat shows.  Resetting a seat for a new operation makes the new
  item that one.  It needs that an operation has one item of a seat
  (`SeatsAssumption`, the unique index of the schema).
* `NothingSilentlyRuns`: `Spec => []NoSilentTask`, from `KeptInv`: PVE may have taken one
  request of an item, and that one is stored, stored as lost (UNKNOWN), or in the hand of
  its executor, who waits for the answer, is about to save it, or is in `fail` with a
  copy that names it.  A second error in `fail` would lose it, hence `faults <= 1`.
* `BoundedWaves`: `Spec => []WaveIsBounded`, from `WaveInv`: items whose task is still
  waited for are in the wave of an executor, and a wave has at most `WaveSize` items.
  With `KeptInv` the tasks in progress are mapped one to one into the wave.
* `ExclusiveVm`: with a single worker `Spec => [](~Unlucky => VmIsExclusive)`: it begins an
  operation when all older ones are finished (`OrderInv`), and of a finished one only
  UNKNOWN items have tasks in progress.  With two workers `vm_conflict` is the
  counterexample.

`OperationCreationProofs` proves, for any number of requests, keys, seats and
failures:

* `AnswersFit`: `Spec => []AnswerFits`, from the inductive `CreationInv`: a key of
  the table names an operation made with the seats of its hash, an uncommitted key
  is held by one transaction and not in the table (`LockInv`, the primary key), and
  a request that is not done has made nothing.
* `CreateOnceRefinement`: `Spec => IsCreateOnce`.  `StepOnce` maps each step: a
  request leaving its sender to `Ask`, commits and lookups to `Resolve`, refusals and
  early failures to `Refuse`, the rest to stuttering.  `LockInv` is what makes a
  commit the first use of its key.
* `NoPageConflict`: `Spec => []PageHasNoConflict`.  It needs `KeyInv`: requests of
  the page with one key name the same seats, those of the intent that the manager
  holds the key for, and a key of the table belongs to a request that was sent
  with it.  That the sorted list of the page names exactly the chosen seats
  (`SentIsChosen`) is a pigeonhole argument.
* `NoSecondOperation`: `Spec => []WholeClassOnce`, for a user who never selects seats.
  Requests of the page are then numbered in the order in which they are sent
  (`OrderInv`), all ask for the same, and the key is given up only after an answer
  with an operation; so two requests without such an answer between them have one
  key (`WholeInv`), and one key makes one operation.
* `TypeCorrectness`: `Spec => []TypeOK`.

`PveAdapterProofs` proves, for any requests, contents of the pool, sets of statuses
and number of ended workers:

* `TypeCorrectness`: `Spec => []TypeOK`.
* `CertainErrors` and `RetryableErrors`: `Spec => []` of `CertainIsHarmless` and
  `RetryableIsHarmless`.
* `ManagedOnly`: `Spec => []OnlyManaged`.
* `CallRefinement`: `Spec => IsPveCall`.

They rest on `AdapterInv`: nothing has been sent, said or saved before the mutation
leaves (`NothingYet`); without a UPID a certain error or FAILED excludes a live
mutation (`Refusals`); with one there is a task and the result is its result
(`Results`).  The lemmas `LostErrors` and `RefusedErrors` say what the error functions
of `http.go` return for each kind of trouble; `NotSubmittedKeeps` and
`NotSubmittedCalls` say that the runner may then conclude what it does.

`ApiProcessProofs` proves, for any number of connections:

* `NobodyLeftBehind`: `Spec => []LeavesNobodyBehind`.
* `RightlyBlamed`: `Spec => WorkerIsBlamedRightly`.

They rest on `ProcessInv`: without a timeout `run` is past `Shutdown` only when no
request is served, none can come and the worker is gone; `run` blocks in its select
only while there was no signal, and has not called `cancel` before it leaves it.

`RepositoryPairProofs` proves, if operations are numbered and `Nobody` is no worker:

* `SameContents`: `Spec => []Same`, the rows say what the maps say, with two exceptions.
  The time of a desktop in `prechecked` may be later in memory, and of leases nothing is
  said once `tied`.  It is inductive call by call.
* `SameAnswers`: `Spec => []AnswersAgree`, the answers are equal but for five cases.
  An unknown operation is "not found" in memory and a version conflict for the
  statements of PostgreSQL that change a row (save, renew).  The lease of a finished
  operation can be renewed in memory (`memory.go` 216) and is a version conflict in
  PostgreSQL (`postgres.go` 536); the runner never does that.  And a desktop that does
  not run but whose agent is said to be ready makes its seat a ready one in the list
  of PostgreSQL (`postgres.go` 55) and not in that of the memory repository
  (`domain/classroom.go` 101).  No result of an item produces such a row (`DesktopAfter`),
  but the development data has one.  A classroom with a desktop in `prechecked` is the
  same but for that time.  And after a tie claims and renewals may differ, because one
  repository has a lease where the other has none; all other calls still agree.

`LiveViewProofs` proves about `EventStream`, for any number of readers, operations, items,
any limits and any number of restarts, evictions, failing reads and broken connections:

* `TypeCorrectness`, `SequenceOrder` and `NoGaps`: `Spec => []TypeOK`, `Spec =>
  SequencesIncrease`, `Spec => NoGap`.  They rest on `StreamInv`: the numbers of a history
  grow, and by one where there is no snapshot; the frames that wait continue what the
  reader has, each the one before it; and the cursor of the handler is where they end.
* `ReadersAreCurrent`: `Spec => []ReaderIsCurrent`.  Its invariant `KeptInv` is about every
  point at which the connection could break: with any number of the waiting frames, and
  the events that the history has after them, the reader's view becomes the one observed
  last, or he is told of a gap (`CatchesUp`).  `Brings` says what a sequence of frames
  makes of a view without executing it: the last frame that tells of an item decides.
* `EndsAreFinal`: `Spec => []EndIsFinal`, with `ReadInv`: the row is read before the items
  and a finished operation is not saved again, so a view with a terminal row is the
  final one, although handlers overtake each other.

and about `OperationCache`, with that module's page in place of the readers:

* `FramesComeInOrder`: `CacheSpec => FramesFollow`, from `StreamInv` again.
* `PageTypeCorrectness`, `FinishedIsComplete` and `ChosenHaveSources`: `CacheSpec => []` of
  `CacheTypeOK`, `FinishedShowsAll` and `ChosenAreFollowed`.  `CacheInv` adds that every
  event, in the log or on its way, shows the final view if it shows a terminal one
  (`EventsInv`); that a chosen operation without a source is terminal in the list and in
  every answer that may still replace the list (`SourceGone`, `RowIsRead`); that what a
  request has read of a finished operation is final, its row having been read first
  (`AnswerTrue`); and that without failures the list has only final views of finished
  operations when no request is under way (`Complete`): the event that ended the source
  has asked for the list anew.

The module extends `OperationCache`, which extends `EventStream`; the theorems about
`EventStream` cite only the assumptions of that module.

`AccessPolicy` proves, for all principals, permissions and resources: `RolesCompose`
(several roles allow what one of them allows, and nothing else), `DefaultDeny` (a
name, a known permission, and the same organization or the platform administrator are
needed), `OnlyAssignedConnects` and `TeacherStaysInClassrooms`.

Only model-checked: the five liveness properties `EveryOperationEnds`, `EventuallyFinal`,
`EveryCallEnds`, `EventuallyShown` and `ProcessEnds`, because liveness under fairness and
`ENABLED` are out of the prover's reach; and the counterexamples of the five runs that
record a divergence, which are behaviours of an instance.  So is induction over data:
that is why `EventStream` finds places in the log and the events after an id by
quantifiers and `SubSeq` (`PlaceOf`, `Newer`) instead of a recursive selection.

## 5. Not modelled

* The wrap of the sequence number at 9 007 199 254 740 000 and ids above half of it:
  no instance comes near them.  An operation has a few hundred events.
* The HTTP API and its middleware decode, map errors and log; they keep nothing and
  share nothing.  What they do to the state is in the modules of what they call.
* `cmd/worker` is the loop of `Run` without a server, with the same signal context;
  `cmd/healthcheck` sends one request.  Reading and checking the environment is a
  function of it without a state.
* The keyring encrypts with AES-GCM from the library; the schema's constraints are
  used where an operation relies on them; deployment and rendering are static.
* The fake PVE adapter is a stand-in for tests.  Of the HTTP adapter, construction,
  TLS settings and the text of URLs and UPIDs are left out.
* Of the page, a browser that refuses the session storage, several tabs, the
  confirmation of a RESTORE and the guard of the button when all desktops run.
* The authorization policy is modelled, but who calls it cannot be: no handler does
  yet.

See `components` in `PROJECT.json` for each part.

## 6. What could come next

1. An abstract specification of a feed (a sequence of views and one position per
   reader) that `EventStream` implements while the stream is kept.
2. What `NoSilentTask` becomes after a stopped process or a second error: at most one
   unknown task per such mishap.
3. `SeatShowsResult` without its condition, once `fail` tells the seats.
4. The calls of several clients at once on both repositories, with the transactions
   of `OperationCreation`, instead of one call after the other.
5. The authorization policy in front of the handlers, when they call it.

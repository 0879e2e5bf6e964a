# unikit in TLA+

unikit is a Python toolbox for services that run background work: locks in
Redis, progress of long tasks, tasks on taskiq workers, process pools for
CPU-bound tasks, and dependency injection that ties them together.  This
directory holds TLA+ models of its stateful parts, the TLC runs that check
them, and theorems about them checked by TLAPS.

All paths below are relative to `src/src/unikit/`.

    tlc -workers 2 -config lock_prompt.cfg MCRedisLock.tla     a run
    tlapm RedisLockProofs.tla                                  the proofs

`PROJECT.json` lists every run, its properties, for each property a plausible
bug in the code that the run would catch (a *mutant*), the source lines each
definition translates, the disagreements between code and documentation that
the runs exhibit, and the hazards the properties are for.

## 1. Inventory

| Part | State it keeps | Operations | Interacts through | What is hard |
|---|---|---|---|---|
| Lock service: `lock/service.py`, `contrib/redis/lock/` | Redis: lock id -> JSON value with secret and expiry, time to live; each caller: a lock object | `acquire`, `wait_and_acquire`, `with_lock`, `get_lock`, `release`, `clean_all_locks`, all with an async variant; `extend_lock` and `delete`, sync only | Redis commands | two-command release and extension, expiry between them, crashed holders, waiting with a deadline, ids built from operation and target |
| Progress state: `progress.py` | counters, percentage, batch size | `register_*`, `reset_batch_size`, `progress_percent` | called by a service between calls of `track` | counters that are `None` until used; percentages and items that exclude each other |
| Progress tracker and reporter: `progress.py`, `contrib/taskiq/progress.py`, `utils/dict_utils.py` | tracker: its state object, number of untracked updates; backend: a `TaskProgress` per task | `track`, `atrack`, `set_object`, `get_object` | taskiq's result backend, three commands for a report | coroutines that share a tracker, failing reports, read-modify-write of one stored dictionary under several keys |
| Composite tracker: `progress.py:312-477`, `contrib/taskiq/composite.py` | handles of subtasks, aggregated state | `register_subtask(s)`, `aaggregate`, `await_for_subtasks` | result backend entries other tasks write | polling that must end; failed, vanished and over-reporting subtasks |
| Worker abstraction and taskiq service: `worker.py`, `contrib/taskiq/service.py`, `task.py`, `middleware.py`, `otlp.py`, `security_context.py` | registry of services; per callback a current task, a principal and a span; in the backend a progress and a result per job | post, execute under middlewares, ask, wait | broker, result backend, dependency injector | status read in two commands, crashes and redelivery, timeouts, context of one task seen by another |
| CPU pool and CPU-bound tasks: `contrib/taskiq/cpu_pool.py`, `cpu_task.py`, `contrib/django/taskiq/cpu_task.py` | one pool per worker, one background loop per process of it, one result backend per task | init, get, shutdown; run in a process | broker events, process pool | several brokers share the pool; handlers that block the event loop; what a process inherits and keeps |
| Event loop bridges: `utils/async_utils.py` | the loop that was registered | `run_coroutine_in_running_loop` | threads and loops | a thread that waits for a loop that does not run |
| Dependency injection: `di.py`, `registry.py` | bindings, the scope with its instances, registries | register, resolve, look up | every other part | first resolution by two threads, order of registrations, several keys of one instance |
| Requests: `contrib/django/di/`, `middleware.py`, `logger.py` | current request per context, trace id per request | middlewares, wrapped views with hooks, the log filter | Django, the injector | threads that are used again, tasks of one loop, helpers that outlive a request, early answers |
| Rest | none or configuration | Django commands, parsing, `lock/noop.py` | | |

What makes the parts correct:

* **Lock service**: two callers never both use a resource while their leases
  run; only owners release and extend; a running lease is really stored; a lock
  is never taken over; a dead holder's lock lapses; a wait with a deadline ends.
* **Progress state**: each outcome is counted once; `items_done` counts all
  (`register_failed` does not add to it).
* **Tracker**: nothing registered is lost or counted twice, whatever fails or
  interleaves; what callers see does not go backwards; reports do happen.
* **Composite tracker**: waiting ends once all subtasks did, and not before.
* **Tasks**: a body that runs in a callback of the worker sees the principal it
  was posted by (bodies in CPU processes are not followed); status and result agree; what is known is executed until it has a result.
* **Pools and loops**: one pool works at a time, what it accepted ends, nobody
  waits for a loop that does not run or for a resource of another loop.
* **Injection**: one instance per singleton, of a class that was registered.
* **Requests**: code sees its own request and user; log records one trace id;
  hooks are kept.

## 2. Modules

    LeaseLock          what a lock service promises, without Redis
      ^ implemented by
    RedisLock          the lock service over Redis       <- RedisLockProofs
      ^ MCRedisLock    instances for TLC

    ProgressState      the counters and their methods, pure operators
      ^ ProgressCalls      any sequence of calls         <- ProgressCallsProofs
      |   ^ MCProgressCalls
      ^ ProgressTracker    trackers, coroutines, backend <- ProgressTrackerProofs
      |   ^ MCProgressTracker
      ^ CompositeProgress  a parent and its subtasks <- CompositeProgressProofs
          ^ MCCompositeProgress

    TaskLifecycle      registry, middlewares, clients    <- TaskLifecycleProofs
    CpuTasks           brokers, pools, their processes   <- CpuTasksProofs
    DiContainer        bindings, scopes, threads         <- DiContainerProofs
    RequestScope       requests, views, log records      <- RequestScopeProofs
      ^ MCTaskLifecycle, MCCpuTasks, MCDiContainer, MCRequestScope

### RedisLock

Each client is a thread or task of any process.  `store` is Redis: under the id
of a lock its secret, its time to live, and the `exp` written into the JSON
value, which is a separate field because `extend_lock` renews only the first.
`lock[c]` is the lock object the client holds and `pc[c]` its place in the code.
One action is one command to Redis with the Python code up to the next one:
`BeginAcquire` builds the lock object (`_build_new_lock`), `Granted` and
`Denied` are the two answers to `SET NX PXAT`; `ReleaseGet` and `ReleaseDelete`,
`ExtendGet` and `ExtendSet` are the two commands of `release` and `extend_lock`;
`CheckDeadline` and `Retry` are the loop of `wait_and_acquire`.  The sync and
the async service send the same commands, so one model stands for both.
`release` is also called with stale handles and with handles from `get_lock`,
which have no secret.  `Crash` is the death of a client and also a command that
raises with its reply lost.  `AdminDelete` and `CleanAllLocks` are operators.

Time is kept as countdowns that `Tick` decreases, in Redis and in every lock
object at the same rate: the clocks of the clients and of Redis agree.  Lock
ids are what `_create_pk_for_lock` makes of a request: the target if there is
one, and the operation with its parameters otherwise.

How fast clients are is a parameter of the specification, not of the code:

| Specification | Time may pass | Stands for |
|---|---|---|
| `Spec` | always; operators interfere | anything goes |
| `ClientSpec` | always | no operator |
| `PromptSpec` | but no lease lapses between the two commands of one release or extension | the round trips are short against leases; bodies may overrun theirs |
| `PunctualSpec` | but no lease lapses while its owner asks for it or uses it | callers chose `timeout` longer than their bodies |

### ProgressState, ProgressCalls

`ProgressState` translates each method of the class into an operator from state
to state, with `None` as its own value.  `ProgressCalls` lets a caller call them
in any order and keeps, in `told`, what it said; the properties relate the two.

### ProgressTracker

Coroutines of one task share a tracker.  Objects have identities (`heap`),
because a report ends with `self._state = ...` (`contrib/taskiq/progress.py:45`)
and a coroutine that waits can refer to an object that is no longer the
tracker's.  A report is a GET of the whole `TaskProgress`, a SET of it and a
second GET; the backend executes a read at one step (`BackendReads`) and the
coroutine goes on at a later one (`Serialise`, `Adopt`), so that replies can be
stale when they are used.  `ReportFails` is an exception in any of them, the
write executed or not.  `overlapped` remembers whether a coroutine ever entered
the tracker or the reporter while another was in it; coroutines that take turns
are the case of one coroutine, or of several that await one another.  A second
writer stores an object under another key of the same `TaskProgress`
(`ReadForNote`, `WriteNote`).  `Track` registers an item
with the methods that count it in `items_done`; what `register_failed` does
instead is the business of `ProgressCalls`.

### CompositeProgress

A parent task, its subtasks in other workers, and what the result backend holds
of each: the progress a subtask reported (`progress`) and how it ended
(`result`: its return value had a progress state in it, had none, or it was an
error).  A subtask may end at any moment, between any two reads of the parent.
The parent waits: `Finish` and `BeginAggregate` are the two outcomes of
`all_subtasks_complete`, which compares the sum of the last aggregation with the
subtasks registered by now; `ReadResult` and `ReadProgress` are the two reads of
`_fetch_subtask_progress`, at most `max_concurrency` subtasks at a time, each of
which may raise; `Aggregate` adds the answers up and `ReportUpdate` stores the
sum, or raises out of the loop.  Other coroutines of the parent register
subtasks at any time.  `CreateTracker` is `create_composite_tracker` called once
more: by the same task, or by the task when it runs again after a crash at any
point.  Its `ainit` takes over the state that is stored, but no subtask; `shown`
remembers whether the tracker in use has since reported.

The loops of Python that add up are `Sum(f)`, the number of units `<<t, i>>` with
`i` in `1..f[t]`: a cardinality, so that the library's theorems about finite sets
say all that is needed of sums, for any number of subtasks.  `SumAdds` in
`MCCompositeProgress` compares it with a fold over the values of bounded functions.

Subtasks are registered with the number of items they then work on.  A caller
that keeps the default `items_total=1` for a subtask with more items, or one
that registers the same id twice, gets a sum that means nothing, and no property
could hold of it.

### TaskLifecycle

A job is one call of `post_task`: `Post` chooses a service as the registry does
and attaches what the middleware finds in the container of the poster, which
may be the body of another job.  `run[j]` is the callback in which taskiq's
receiver executes the message: its context variables, its span, and its place
in the chain of `pre_execute` hooks (one action each, in the order of the
broker), body, `on_error`, `post_execute`, result and acknowledgement.  Each
callback begins with an empty context, because the receiver makes a task for it.
`PreFails` and `SaveFails` are calls that raise, `Crash` takes the worker away;
a message that was not acknowledged is delivered again.  A client's question is
two reads (`ReadResult`/`NoResult`, then `ReadProgress`), a wait is one that
polls.  `past` is history: how executions ended, what could not be stored.
Nothing is said of which services share a queue; they share one result backend,
as the default service is asked about jobs of all.

### CpuTasks

A worker process has brokers, each with a startup and a shutdown handler that
calls `init_cpu_pool` or `shutdown_cpu_pool`; both wait for the pool without
awaiting, so that from `BeginClose` to `FinishInit` or `FinishShutdown` the
event loop is `blocked` and no task begins on it.  Only a thread that got a pool
may still submit to it (`GetPool`, `SubmitGot`).  A process of a pool has the
loop registered in it (`wl`), which a fork inherits, a background loop that may
die, and remembers on which loop the backend of its task (`backend`) and a
resource its tasks share, such as a channel layer (`layer`), were first used.
`TakeSync` and `TakeAsync` are `_run_cpu_bound_in_process`; a body then uses one of
the two through the bridge (`Bridge`, `NoLoopFound`), or awaits it on the loop
that `asyncio.run` made for its task (`Await`).  `Answer` is the loop that answers:
it binds what is used for the first time, and whoever uses on one loop, that of
an `asyncio.run` included, what belongs to another, waits for ever.
`ProcessDies` breaks the pool, which the code never replaces.

### DiContainer

`bind` is the injector's table: for each key the class and the interface its
provider knows of.  `one` and `list` are what `IfaceAwareSingletonScope` keeps,
per scope object.  `Injector.get` is several steps, of which only the last runs
under the injector's lock: the provider is looked up, then the scope, which
whoever finds none makes (`BindScope`, `ReadScope`); `Find`, `Create`,
`FindList` and `CreateList` are the scope's `get`.  Modules register at any time
between.  Instances are numbers; `past.given` remembers all answers for a key.

### RequestScope

A request is handled in a context: that of a thread, which is used again (WSGI),
or that of its own task (ASGI).  `current` is what `set_request` left in each;
nothing clears it.  A request passes the middlewares inwards and outwards
(`next`), and in between the wrapper of its view: hook, injection, body, hook,
with early answers and exceptions leaving on the way; `hooks` is what was called,
with the outcome of the first hook (passed, answered, raised).  An async view is
a coroutine until both hooks were called: its second hook comes before its body.
A body may start a helper with a copy of the context or without.  Whatever logs,
calls the filter, whose check and store of the trace id are two steps
(`BeginsFilter`, `EndFilter`).
`service` is a singleton that keeps the security context it was made with.
asgiref's `Local` is modelled as the context variable it is since asgiref 3.7;
the `threading.local` in the code is for an import that cannot fail, as the
module imports asgiref elsewhere.

## 3. Runs

| Run | Specification and bounds | Shows |
|---|---|---|
| `lock_prompt` | `PromptSpec`; 2 clients, 3 secrets, 2 requests for one key, leases to 2, deadline 1 | leases exclude, are stored, only owners release and extend; `RedisLock` implements `LeaseLock`; `PromptInv` |
| `lock_punctual` | `PunctualSpec`; 2 clients, 2 keys, leases to 2, deadline 1 | mutual exclusion of bodies; owners are never refused |
| `lock_fair` | `FairSpec`; 2 clients, one request, leases to 2, deadline 1; operators delete locks in use | types, no takeover, orphans lapse, waits with a deadline end |
| `calls` | batches of 0, 1, 2 items, sizes 1 and 3, 4 items between resets | each outcome counted once, in `items_done` too unless `register_failed` told it |
| `tracker` | 2 coroutines, 3 items, every update reported, failures, a second key | no more is shown than was done; coroutines that take turns lose nothing |
| `composite` | `FairSpec`; 2 subtasks of 1 item each, counted with `register_successful` or `register_failed`, 1 failed read, 2 trackers, max_concurrency 2 | waiting does not end before all subtasks are complete, and ends if all ended and their ends count for all their items; what is shown was done and does not fall |
| `tasks` | `FairSpec`; 3 jobs of 2 principals, one posted by another's body and known to no service, 2 services, 1 client, 1 fault | context, status and results of tasks |
| `cpu` | `FairSpec`; 2 brokers, 4 tasks of 3 kinds, pools of 1 process, 2 loops per process, 2 calls of a body, 2 deaths | one pool works, loops are a process's own, tasks are refused for a cause; what is accepted ends and handlers return, unless a body is stuck (`Stuck`) |
| `di` | 2 interfaces, one with a registry, 2 classes, 2 threads, 2 registrations, 3 instances, 2 scopes | one instance, same answer, right class, lists agree |
| `requests` | 2 requests, 2 threads, 4 views (class, async class, included twice, function), 3 middlewares, both servers | own request and user, one trace id, bodies of class views between their hooks |

Why the bounds are enough: two clients suffice for every conflict between an
owner and a usurper (a third client plays no role that the usurper cannot play,
as no action reads more than one other client's state), three secrets leave a
fresh one whenever each client holds one and Redis a third.  Leases of 1 and 2
let one lapse at any point between two commands, or pass by halves, and let an
extension be shorter or longer than what is left.  Four items let every counter
pass 1 and 2 in both orders; three items let two coroutines have one item each
under way while a third was stored.  Two subtasks let one hide the other in a
sum, and let reads of one fall before and reads of the other after any step; one
failed read puts a finished subtask back among the running ones.  One item each
is enough for the end of waiting: a subtask that ended is at its number or below
it, whatever the number is; that sums of other numbers are safe too is
`AllAreComplete`.  Two brokers are enough for one to replace or to take away the
other's pool, a third would repeat it.  Processes of one pool share nothing but
its queue, so one in each pool is enough for what they leave to each other; the
theorems hold for any number.  Of four tasks a sync one comes after a sync and
after an async one, and the async one after either.  One fault per job history
separates each crash from each step after it; a second would restart the same
callback.  Two registrations let a class be bound in two ways, or an interface
to two classes, before, between and after resolutions by two threads.  Two
requests are one and the one that was there before, or beside it.  The theorems
below have none of these bounds.

Runs that expect a violation show where code and documentation disagree:

| Run | Disagreement |
|---|---|
| `lock_release_race` | a release whose lease lapses between GET and DELETE deletes the next owner's lock (`sync.py:41-42`, `async_.py:52-53`) |
| `composite_register_failed` | a failure told by `register_failed` is not in `items_done`, the "number of items processed so far (regardless of the processing outcome)" (`progress.py:26`, `116`), so that a subtask that uses it and returns its progress keeps its parent, which polls "until all subtasks are complete", polling for ever (`progress.py:455`, `461`) |

`lock_release_race` needs a pause of the caller as long as what is left of its
lease; `lock_prompt` and the theorems say that this is the only way.  `extend_lock`
has the same gap between its GET and its PEXPIREAT, and returns a lock that its
caller no longer owns (`sync.py:78-80`).

Other disagreements.  Those with a definition are stated as the documentation
has them, and TLC refutes the definition in a moment when it is put into the cfg
named, in place of the properties there, as an INVARIANT (`TimeoutReleases` and
`OverrideHolds` as a PROPERTY); the passing runs say what holds beside it and
name the excluded case.

| Definition | In | Disagreement | Holds beside it |
|---|---|---|---|
| `DoneCountsOutcomes` of `ProgressCalls` | `calls.cfg` | by itself, the cause of `composite_register_failed` (`progress.py:26`, `116`) | `DoneCountsDetailed` |
| `ReportedInTime` of `ProgressTracker` | `tracker.cfg`, `ReportEvery = 2` | with `report_every_x_updates` above 1 (5 is the default) track never "invokes storage backend": its counter is reset on each call (`progress.py:237`, `245`, `259`) | the properties with `ReportEvery = 1` |
| `NothingDangles` of `CpuTasks` | `cpu.cfg` | an async body uses the resources that tasks of a process share on a loop of its own, so that something does "dangle" (`cpu_task.py:226-227`, `319`) | `AcceptedEnds` and `HandlersReturn`, with `Stuck` |
| `TimeoutReleases` of `TaskLifecycle` | `tasks.cfg`, `Timeout <- MCEveryKind` | `await_for_task` passes the seconds of its timeout, 0 for a day as for half a second, and 0 is no limit (`service.py:47`) | nothing: other timeouts are taskiq's |
| `OverrideHolds` of `DiContainer` | `di.cfg` | after `register(I, A); register(I, B); get(A)`, `get(I)` is an A, although registering again "will \_\_override\_\_ previously set implementation" (`di.py:121`, `149-150`) | `RightClass`, with `Rebound` |
| `HookAnswerIsResponse` of `RequestScope` | `requests.cfg` | the answer of the hook before an async view, which "must be returned", ends as an error (`_injection.py:133`, `261`) | `HooksRun` |
| `AnswersPassAfterHook` of `RequestScope` | `requests.cfg` | the answer of the first hook does not pass the second, which gets the "response generated by view or before_request_hook" (`_injection.py:162`, `261`) | `HooksRun` |
| `AfterHookIsAfter` of `RequestScope` | `requests.cfg` | the second hook of an async view, "invoked after view logic", gets a coroutine before the body runs (`_injection.py:152`, `274`) | `HooksRun` |

And these, each the reason for a condition in a property above:

* Locks.  After `extend_lock`, `get_lock(...).get_ts_expires()` is the old
  expiry (definition `StoredExpiryIsActual` of `RedisLock`).
  `waiting_timeout=timedelta(0)` is falsy and waits without end
  (`lock/service.py:115`, `169`; set `WaitingTimeout = 0` in `lock_fair.cfg`).
* Progress.  An item registered while another coroutine reports is dropped with
  the object it was registered on (`NothingLost` of `ProgressTracker`).
  `reset_batch_size` keeps an old percentage, which then hides the batch's
  (`progress.py:170`).  A second composite tracker, or the task when it runs
  again, takes its subtasks for complete because of what the first one stored
  (`composite.py:53`; `CompletedIsComplete` of `CompositeProgress`).
* Tasks.  A holder given to `SecurityContextMiddleware` is stored and never used:
  `pre_execute`, `post_execute` and `on_error` always set the default one
  (`middleware.py:102`, `119`), so a container that reads the other holder sees
  no principal; `Holder = "custom"` in `tasks.cfg` violates `BodySeesPoster`.
* Pools.  Sync code that an async CPU-bound task runs in a helper thread of a
  forked process finds the worker's loop, which says that it is running, and
  waits for ever where the docstring promises a `RuntimeError`
  (`async_utils.py:192`, `233`); `Stuck` names the case.
* Injection.  One class under two interfaces has two
  instances; so has a class that was resolved before its list, and any class
  when two threads race for the first scope (`di.py:144`).
* Requests.  A callback that `process_resolver` meets twice, as patterns
  included twice are, is wrapped twice and loses its hooks, and functions have none
  (`_injection.py:131`, `212`).  Two overlapping filter calls give one request two
  trace ids (`logger.py:44-51`).  Code before the injecting middleware, or
  between two requests of a thread, sees the last request (`_injection.py:98`).

**Fairness.** `Tick` is weakly fair: time goes on.  For each client the steps of
the waiting loop together are weakly fair: a thread that is not blocked is
scheduled, and Redis answers.  Nothing is assumed of bodies (they may run for
ever), of crashes, or of the choice between clients that compete for a lock, so
`WaitEnds` follows from the deadline and not from luck.

In `CompositeProgress` the steps of the parent together are weakly fair: its
event loop runs and the backend answers or raises, only finitely often the
latter.  Nothing is assumed of the subtasks: `CountedWaitingEnds`, and
`WaitingEnds`, speak of those that did end.

In `TaskLifecycle` the queue delivers what waits (weak fairness of `Delivers`),
a callback goes on (`Executes`) and a client's call gets its answers.  Nobody has
to post, and faults need not happen; that there is a bound on them stands for a
worker that is not down for ever.

In `CpuTasks` all steps of processes and of blocked handlers together are weakly
fair: some thread that can run does.  This is enough, as every step ends
something.  A body that waits for a loop that never answers has no step, which
is the point of `AcceptedEnds`.  Bodies compute for a finite time; that one
which never returns blocks a shutdown is plain.

## 4. Proofs

For every set of clients, requests and secrets, every lease length and every
deadline:

* `TypeCorrect`: `Spec => []TypeOK`.
* `NeverTakenOver`, under `Spec`: operators, stale handles and any delay included.
* `PromptInvariant`, from which `LeasesExclude`, `RunningLeasesStored`,
  `OwnersRelease`, `OwnersExtend` and `PromiseKept` (refinement of `LeaseLock`)
  follow.
* `PunctualInvariant`, from which `BodiesExclude` and `OwnersNotRefused` follow.

and for every batch, number of calls, coroutines and items:

* `OutcomesAreCounted`, `DoneCountsAllDetailed` (about `ProgressCalls`),
* `TrackerTyped`, `NeverOvercounts` and, of coroutines that take turns,
  `NothingIsLost`, `NotesAreKept`, `StoredGrows` (about `ProgressTracker`).

For any subtasks with any positive numbers of items, however they count them, any
`max_concurrency`, failed reads and restarts of the parent:

* `TypeCorrect`, `NothingInvented`, `AllAreComplete`, `ProgressNeverFalls`, all from
  `Invariance` (about `CompositeProgress`).

For any brokers, tasks, kinds of tasks, pool size and numbers of faults:

* `TypeCorrect`, `OnePool`, `SyncLoop`, `RefusedOnlyForCause` (about `CpuTasks`).

For any services, jobs, posters, clients, order of the middlewares and faults,
if the middlewares for task, principal and span are installed and the default
holder is used (`Deployed`):

* `TypeCorrect`, `SeesPoster`, `CleansUp`, `AnswersTruly`, `NeverFalls`.

For any interfaces, classes, threads and registrations: `TypeCorrect`,
`MadeOnce`, `AnsweredAgain`, `AnsweredRight`, `ListsAgree` (about `DiContainer`).
For any requests, threads, views and lists of middlewares with an
`InjectRequestMiddleware`: `TypeCorrect`, `SeesOwnRequest`, `HooksAlwaysRun` and
`TracesAreOne` (about `RequestScope`).

**The argument for locks.** Exclusion itself is not inductive: it says nothing of
what is stored.  `PromptInv` adds why a client inside is safe.  The core is
`RunningIsOwned` (who uses a lock and has time left finds its own secret in
Redis) and `OwnedIsUsed` (who finds its secret there uses the lock, and Redis
agrees on the time left).  Two clients that own the same key have the same
secret, which `SecretsDistinct` excludes; `LockOfCall` turns "the same resource"
into "the same key".  `PendingIsOwned` says that what a client compared is still
true when it sends its second command, and is where promptness is needed: a
tick may not end a lease in between.  `UnsentIsUnknown` keeps a lock object that
lost its race from matching what is stored, `UserHasSecret` keeps `None` from
counting as a secret, and `StoreNormal` says that an expired key has no secret
left to match.  `PunctualInv` adds that no lease asked for or used is over.  Each
action has a lemma of its own (`...Safe`), time included.  `NeverTakenOver` needs
none of this, only types: of all commands `SET NX` alone writes a secret, and it
finds the key absent (`SecretStays`).

**The argument for the refinement.** A stored key is a lease and the secret of a
lock object that was sent is a claim.  `SET` is a grant (fresh by
`UnsentIsUnknown` and `SecretsDistinct`), `DELETE` gives back and `PEXPIREAT`
prolongs the client's own lease (`PendingIsOwned`), a tick of Redis is a tick of
leases, building a lock object or losing it forgets a claim, and all else
changes nothing.

**The argument for counters.** `items_done` and the outcomes told differ by the
failures that `register_failed` was told since the last reset (`DoneGap`), which
each method keeps; a property that speaks of no such failure is not inductive, as
the next call may be one, and follows from it.

**The argument for trackers.** `CountInv` extends `NoOvercount` to the documents
coroutines have read or will write.  A state is plausible when it is made and
stays so, because `processed` only grows; reports copy plausible states.  For
coroutines that take turns, `TurnInv` says that one at most is under way
(`OneAtATime`), that the tracker counts all that was processed (`AllCounted`), and
that nothing has moved between two awaits of a report (`ReportIsCurrent`): the
object it refers to is the tracker's, what it has read is what is stored, and what
it writes, or has written and reads back, counts all items.  Nobody else writes in
between, which is what the properties ask for with `~overlapped`.

**The argument for composite trackers.** Every number the parent holds is a sum
of answers that were read at different times, some of them before a restart, so no
comparison with the subtasks' present states is inductive.  `Known(t)` is what a
read of subtask `t` would return now; it only grows (`Grows`), because a subtask
counts no item twice and its end reports no less than its progress did
(`SubtaskInv`).  `IInv` says that there is a *share* of each subtask, at most
`Known(t)`, such that the shares add up to the parent's state (`StateInv`), and
others that add up to what is stored (`StoredInv`).  So what is stored was done.
When a tracker has aggregated, only registered subtasks have shares
(`Registered`); a sum of shares that reaches the total then leaves no room in any
of them (`SumGrows`), and all are complete.  That the sum cannot fall is `ShownInv`:
in the round of reads under way each share that was shown is found again, in the
answer, or in the progress that is about to be read because the result was not
there (`Found`).  A failed read breaks this, which is why `ShownNeverFalls` asks
for a backend that answers.

**The argument for pools.** `PoolInv` says that processes belong to the pool
that `_pool` names: a new one is stored when the processes of the old one are
gone.  `BodyInv` says that a process with a sync body has a loop of its own
registered, in the place of whatever it inherited, and that an async body after
it changes nothing; so what a sync body finds is never the worker's loop.
`CauseInv` says why a task is refused: `_pool` names a pool that takes tasks, unless
a process died or a handler is at work (`CurrentInv`), and a handler at work blocks
the event loop (`BlockedInv`), so that no task comes to ask.

**The argument for tasks.** `ExecInv` says what the hooks that a callback has
passed did (`Did`), by its place in the order, and that each message carries the
principal of its chain; a body that posts has passed them all (`PosterSees`).
`ClientInv` says that what a client was told is still in the backend, and that a
call which went on to read the progress began without a result or failed;
answers are true and do not fall because results and progress are never taken
away.

**The argument for injection.** `OneInstance` is not inductive: an instance is
found through two keys, and a thread may carry an old provider.  `GoodProv` says
which providers a class can have, by the ways it was registered, in the table
and in the hands of threads (`ThreadInv`); `KeptInv` says that a class that was
made is stored wherever such a provider looks.  `AInv` adds what was answered:
every answer for a key is what the scope has under the key the next one will look
at (`AgreesInv`, `AnswerInv`), it is of a class that was registered for it
(`RightInv`), and a class that was first made in a list is stored as the list has
it (`ListInv`).

**The argument for requests.** `Apart`: a thread handles one request at a time.
So what a request set in its context stays until it is answered (`ContextInv`),
and no thread shows a request that is handled elsewhere.  `HandlerInv` says that
a request in its view has passed the injecting middleware.  A helper has a
context of its own, copied from one that shows its request.  What a singleton
keeps is the proxy and never a user.  For the hooks, `TrailInv` says which calls a
view has behind it at each place in the wrapper: an async view is awaited when
both hooks were called, a sync one is run between them.  For trace ids, `TraceInv`
says that the id a filter call found or made is the one its request has, unless two
calls overlapped, and that a record has the id its request had (`RecordInv`);
helpers count as callers of the request they copied (`HelperInv`).

**Assumptions.** `MaxLease` is positive, a request names an operation or a target
(asserted by `_build_new_lock`), `None` is neither a secret, a key, a number, a
state of progress nor a trace id; a subtask is registered with a positive number of
items; secrets in use are never drawn again (22 random characters).  Sets of
actors and bounds are what the comments at the `ASSUME`s of each module say.  TLC
evaluates these on its instances.

**Only model-checked.** Liveness, which is out of the prover's reach:
`OrphanLapses` and `WaitEnds` of locks, `CountedWaitingEnds`, `AcceptedEnds` and
`HandlersReturn`, `JobGetsResult`.  Every invariant and action
property of the passing runs is a theorem.  `SumAdds` would need an induction over a
recursive definition; the proofs do not use it.

## 5. Not modelled

* `get_all` reads key by key; it changes nothing and promises no snapshot.
* Clock skew between clients and Redis.  `ts_expires` comes from the client's
  clock and is enforced by the server's.
* The 0.2 s between two attempts, and that `await_and_acquire` sleeps with
  `time.sleep` (`service.py:176`), which stops every other task of its loop.
* The owner string, the form of lock names, and that `op_params` in another
  order make another name.
* Results that expire in the backend before the parent read them.
* ETA, speed, status messages, failed items, logging of progress; `set_progress`,
  which writes the progress of a task without the labels of the middleware.
* The span of a producer, whose status is set after its end (`otlp.py:78-79`) and
  lost; labels with dates and names; the in-memory broker.
* Recycling of processes: `setup_cpu_pool_on_broker` cannot ask for it.  A
  background loop that starts after its caller gave up.  A result backend whose
  startup fails (`contrib/django/taskiq/cpu_task.py:73`).
* Constructors with dependencies and circular ones, builders of a registry,
  commands and templates; an instance that is added to a registry as such.
* Trace ids that a request header brings: they are the same at each call, where
  generated ones need the store.  Of the records the request log writes on the
  way out, one is modelled.
* The adapters for Celery, Django's commands and settings, which keep no state
  of their own, and the stateless utilities.

## 6. Plan

1. Theorems: what the abstract lease lock promises by itself; steps towards the
   liveness properties that are safety (what each step of a wait makes smaller).
2. Composition: the body of `TaskLifecycle` reports through `ProgressTracker`, and
   runs in a process of `CpuTasks`, so that status, progress and redelivery meet.
3. Tasks of one event loop as clients of `RedisLock`, for `await_and_acquire`.
4. Pure algorithms against reference definitions over bounded inputs:
   `deepmerge`, `set_objects`/`get_object`, lock names, timers.

# A verification of the Rayon executor service

This directory holds a TLA+ model of `qubit-rayon-executor`, the model-checking
runs over it, and proofs about its core. Source paths below are those of the
repository (`src/src/...` for the crate, `src/doc/...` for its guide).

## The system

`RayonExecutorService` accepts tasks, queues them, and runs them on a Rayon
thread pool. It bounds the number of unfinished tasks, lets queued tasks be
cancelled one by one (tracked handles, cancellation endpoints) or all at once
(`stop`), and lets threads wait until everything accepted has ended.

| Component | State it keeps | Operations | What makes it correct |
|---|---|---|---|
| Shared state (`rayon_executor_service_state.rs`, `internal/rayon_executor_service_inner.rs`) | one record behind a mutex: lifecycle, id counter, queue, running counter and set, cancelling set, scheduled closures; the condition variable `terminated` | `admit`, `take_next`, `finish_running`, `cancel_pending_task`, `finish_cancelling`, `shutdown`, `stop`, two waits, snapshot queries | a task is in one place; capacity; reservations cover the work; nobody sleeps through termination |
| Service and worker closures (`rayon_executor_service.rs`, `internal/callable_job.rs`, `internal/runnable_job.rs`) | per calling thread: closures still to spawn, jobs being cancelled; per worker: the job it holds; the pool's pending closures | `submit*`, `dispatch`, `run_one`, `shutdown`, `stop`, `wait_termination*` | one closure per reservation; one owner per job; a panic changes no accounting; accepted tasks end |
| Handles and endpoints (`rayon_task_handle.rs`) | the task's id, its result slot, a reference to the shared state | `cancel`, `cancellation_handle().cancel()`, `status`, `get`, `try_get` | answers stay true; a task a worker has taken is never withdrawn |
| Result slots (library `qubit-executor`) | the status of each task | `accept`, start, publish, `cancel_unstarted`, `cancel` | external: modelled by its transitions |
| Rayon pool (library) | spawned closures, worker threads | `spawn_fifo` | external: a count of identical closures |
| Asynchronous notifications (`capacity_changes*.rs`, `internal/*wak*.rs`, feature `async-wait`) | two watch channels, registered wakers; per thread: what it has still to publish | `subscribe_termination`, `capacity_changes`, `notify_async_changes`, `await_termination`, the operations of a `CapacityChanges` | no lost capacity or termination notification, a panicking waker harms nobody |
| Jobs and panic payloads (`internal/callable_job.rs`, `internal/runnable_job.rs`, `internal/panic_payload.rs`) | the callable and its slot; a payload in flight | `run`, `cancel`, `discard_panic_payload` | a task leaves the counts with a result, whatever panics on the way |
| Builder (`rayon_executor_service_builder.rs`) | the configuration | setters, `build` | zero values refused, reservations sized by the pool that was really created |

The components interact through the shared state only. A caller holds the mutex
for one method at a time and does the rest outside: it spawns the closures its
admission reserved, or cancels the jobs it took out of the queue. A closure
takes one job, runs it outside the mutex, gives the task back under the mutex,
and either spawns its successor or releases its reservation. What is hard is
what happens between those critical sections:

- a stop or a cancellation takes work away from closures that are already on
  their way;
- reservations are counted when they are promised, spawned later, and released
  by somebody else;
- a cancelled task keeps its place in the capacity while its captured values are
  dropped, which is user code and may be slow, may panic, or may call the
  service;
- a result is visible before the counters know of it, and a handle, an endpoint
  and a worker can all look at a task in that interval;
- termination is a derived condition that five methods can make true, and each
  of them must wake the waiters;
- with `async-wait` what a method changed is published after the mutex is
  released, so publications arrive late and out of order, and the wakers they
  call on the publishing thread may panic or call the service;
- a task may block the worker it runs on, for another task or for the end of the
  service it is part of.

## The modules

`RayonExecutorServiceState` is the record and its condition variable. Every
variable has the name of the field, every action the name of the method; a
method that takes the mutex once is one action, with its early returns as
guards. The queue is the set of its keys: the map is ordered by id and
`pop_first` takes the least, so the set determines what is taken. `parked` is
the set of threads blocked on the condition variable; `notify_all` empties it.
parking_lot's condition variable has no spurious wake-ups and none are modelled.
`MaxTaskId` stands for `usize::MAX`: it is the bound the code itself has, because
`checked_add` panics there. `take_next` is two actions, `take_next` and
`take_nothing`. `StateNext` composes the methods under the rules their callers
have to keep.

`RayonExecutorService` extends it with the callers and the workers. A caller is
any thread; a thread's place inside a call is `pc`:

| Place | Code |
|---|---|
| `dispatching` | the loop of `dispatch` after `admit`; the handle is returned when it ends |
| `claimed`, `cleaning` | a cancellation or a stop that owns jobs: before `job.cancel()`, and after the slot says `Cancelled` while captured values are dropped |
| `absent`, `absent_endpoint`, `endpoint_cancel` | the fallbacks of `cancel_task`: reading the status; `is_running_task`; `task.cancel()` |
| `waiting`, `waiting_for`, `expired` | `wait_termination`, its timed form, and the latter when its deadline has passed |

A worker's place `wpc` follows `run_one`: `taken` (job in hand, not started),
`running`, `ran` (result published, task still counted), `spawning` (the
successor is due). `slot` is the status of each task's result slot. Decisions
worth knowing:

- All submissions return a tracked handle. A detached or untracked task is one
  whose handle nobody uses; its path through the service is the same.
- User code that calls the service from inside a task or a destructor is one
  more caller. Blocking a worker in such a call is not modelled (see below).
- `Succeeded` stands for both ways a task returns; `Panicked` is kept apart,
  because the code takes care that a panic follows the same path.
- The removal of a closure from the pool and its `take_next` are one action:
  nothing another thread can see happens between them.
- `answer` keeps what a caller's last call returned, so that properties can say
  that answers stay true.

`ExecutorContract` is what a user is promised: lives of tasks (`New`, `Queued`,
`Active`, `Withdrawn`, `Done`), results published once, capacity, start in the
order of acceptance, at most one active task per thread, the observed lifecycle,
and progress. `RayonExecutorService` maps itself onto it with `PhaseOf`,
`ResultOf` and `ObservedLifecycle`; `JobPanics` does so with slots that panics write;
and `RayonExecutorServiceState` alone, which knows of no results, maps itself onto
the contract of tasks that have no handle (`TaskLife`). `Detached` is the set of
those tasks: they may leave without a result. The module ends with what a user may
conclude from the contract, `Promises` (bounds, order, what a result says, when the
service is terminated) and `NothingRevoked` (results, closing, stopping and
termination are for good).

`RayonExecutorServiceProgress` states of the service what its liveness rests on, as
properties of single states and steps: who has something to do
(`CallerGoesOn`, `WorkerGoesOn`) can do it, when nobody has nothing is left behind, and
doing it uses up a stock of work. The stock is the comments' lexicographic order:
queued tasks, tasks in somebody's hands, steps left to workers and closures still to
be spawned, closures in the pool, steps left to calls.

`CancelAnswers` adds a history variable, the phase and result of the task when a
cancellation began, and states what the guide says of its answers.

`AsyncNotifications` extends the shared state, not the service: it replaces the
steps of callers and closures by those that matter for notification, and proves
(`KeepsStateProtocol`) that it uses the state by the same rules. A thread that
runs a publishing method goes through `holding` (the guard is not dropped yet),
`pending` (the channels it has still to advance; fixed under the mutex, as the
arguments of `notify_async_changes` are) and `waking` (wakers it has still to
call), and only then does what it owes: `successor` of `run_one`, `jobs` of `stop`.
A future's `place` follows the retry loop of the guide
(`src/doc/user_guide.md:155-173`) or `await_termination`:

| Place | Code |
|---|---|
| `idle`, `done` | no future; `await_termination` has returned |
| `retry` | subscribed, or told of a change: the next submission is due |
| `saturated` | the submission was refused; `changed()` has not been called yet |
| `check` | `subscribe_termination` after `subscribe()`, before it takes the mutex |
| `poll` | the watch future is to be polled again, its waker called; an awaiter polls the first time here, too, and may have its repair to publish first |
| `asleep` | its waker is registered, or is being called |

A channel is what its receivers can tell: `termination_tx` is its value, `unseen`
the producers that have not seen the last version of `capacity_tx`, `borrowed` those
that hold a `Ref` and with it a read lock that a publication waits for. A `Ref` may
be borrowed before an attempt or after it, and held as long as the borrow checker lets
it live, which is until `changed()` is called. So may a version be marked as seen: the
API has no rule about it, and neither has the model for the producers in `Careless`.
The others mark only if an attempt follows. What is promised of producers is promised
of these, because nothing in the service can give back a hint that a producer has
thrown away: with `MayMarkSeen_always`, by which all mark whenever they like, TLC finds
one that sleeps beside free capacity (`RestIsClean` fails). A future in `Panicky` has
a waker that panics (and is not polled again by anybody's duty); one in `Reentrant`
a waker that takes the mutex before it returns.

`AsyncNotificationsProgress` says of it what `RayonExecutorServiceProgress` says of
the service: which threads, closures and publishing awaiters can go on (`CanGoOn`),
that when none can nobody sleeps who should not (`RestIsClean`), and that each step
that nobody calls for uses up a stock of work (`NotifyingSpendsWork`). A `Ref` that is
kept counts as something that can go on: its holder can drop it. The futures of
panicky wakers sleep no longer than others: their wakers are called, too.

`BlockingTasks` extends the shared state with tasks that wait inside the pool:
`AwaitResult` is a `get` in a task, `AwaitEnd` a timed wait for termination in a
task or a destructor. The documentation forbids waits that can go round in a
circle without saying which cannot; `discipline` is one of two rules that suffice:
wait only for tasks accepted earlier, or only for later ones while one worker
never waits. The result of a task that ran counts as there when it has left
`running_tasks` (in the code it is visible a little earlier). That of a cancelled task
is there when its `job.cancel()` has begun (`PublishCancelled`), which a stop calls job
by job: behind a destructor that waits for the end, the others have to wait
(`Turn`). A cancelled task needs no worker, which is why the
pool is not stuck by a wait for it.

`JobPanics` extends the shared state with what happens inside a job. A job's `at` is
the last boundary a panic has reached: `caught` is the catch inside
`CallableJob::run`, `unwound` the one around the job in `run_one`, `stop` and
`cancel_task`. The payload caught there is discarded (`Discard`), and its destructor
is user code: it returns, panics into the second catch of `discard_panic_payload`
(`caught_again`, `unwound_again`), whose own payload is never dropped (`Forget`), or
aborts the process. Without the second catch the job, its result or the loop around it
would be lost; that is the mutant of `JobsEnd`. `JobsGoOn` and `HandlingAdvances` say
that a job's thread can go on and is at its end after at most eight steps. User code
runs in `calling`, `dropping` and `releasing`, and while a result is published (the
wakers of the slot; the destructor of a result nobody wants). A panic while another
one unwinds aborts the process.

`RayonExecutorServiceBuilder` is the builder with its setters and `build`, and
keeps the services it has built. A service has one thread count, the one its pool
reports (`pool.current_num_threads()`), which is what `PoolAssumption` says of the
constants of the other modules; what is shown here is that it is positive and no more
than was asked for, although Rayon takes a zero for a default of its own. That the
count is the right number of closures to reserve is shown of the service
(`ClosuresMeetDemand`).

The definitions with a suffixed name (`take_next_peeks`, `notify_never`, ...) are
plausible mistakes in the definition below them. They are used by no behaviour;
each shows that a property would notice.

## The runs

| Run | Instance | What it shows |
|---|---|---|
| `state` | capacity 4, 3 threads, 5 ids, 2 waiters | the invariants of the shared state, and the contract as far as it is not about results (closed for good, started in order) |
| `service` | 2 callers, 3 workers, capacity 2, 3 ids | ownership, one closure per reservation, as many closures on their way as waiting tasks and free workers need, quiescence after termination, soundness of answers, harmless endpoint fallback, that the state is used only as `state` assumes (`StateSpec` is implied), that a service in which nobody goes on is clean, and that going on spends work |
| `contract` | 2 callers, 2 workers, capacity 2, 2 ids, fair | the service implements `ExecutorContract`, progress included (with 2 ids its capacity guard never binds; `state` has more ids than places, and checks the contract there) |
| `termination` | 2 callers, 1 worker, capacity 2, 2 ids, fair | accepted tasks get a final result, capacity comes back, a closed service terminates, waiters return; who goes on has a step enabled |
| `async` | 2 threads, 2 producers (one waker panics; one is careless), 1 awaiter (its waker calls back), capacity 2, 2 workers, 3 ids | no lost hint, no lost termination, no early one, nothing dropped by a publication, the state is used as `state` assumes, a service at rest leaves nobody waiting for what has happened, and between two calls it comes to rest |
| `async_progress` | as `async` with 1 worker and 2 ids, both producers careful, fair, readers drop their `Ref`s | publications end, producers awaken, queued tasks leave, awaits of a terminated service end |
| `async_stuck_reader` | as `async_progress`, but a `Ref` may be kept for ever | an await that begins after termination ends nevertheless |
| `blocking` | capacity 4, 3 workers, 4 ids, both disciplines, fair | the pool is never stuck, waits for results end, nobody sees the end from inside |
| `job_panics` | capacity 3, 2 workers, 4 ids, one of them detached, fair | panics reported, those of payloads contained, jobs end, the safety of the contract kept (no task retires without a result) |
| `builder` | values 0, 1, 3; no detected parallelism; Rayon creates at most 2 threads | no zero reaches Rayon, no pool is larger than asked for |
| `cancelled_while_queued` | 2 callers, 1 worker, 2 ids | a disagreement with the guide, see below |
| `completed_reports_finished` | as above | a disagreement with the guide, see below |

Bounds. Two callers are enough for every race the code has between calls: two
submissions, two cancellations of one task, a stop against a submission, a
waiter against whoever terminates the service. More ids than capacity make a
freed place be taken again and let the counter reach its end. Over-reservation
(an admission that reserves two closures for one new task) needs three threads,
hence three workers in `service`; hand-over to a successor needs more tasks than threads,
hence one worker in `termination`. Callers and workers are symmetric; the runs
without temporal properties use that. In `async` two threads publish out of order
and a third party registers in between; two producers are needed for a panicking
waker to have somebody behind it, and one awaiter is enough because awaiters
share nothing but the channel. One id more than workers makes a closure owe a
successor while it publishes. In `job_panics` a stop can own three jobs, so that one
panics with others before and behind it. The builder's values lie at zero, within
and above Rayon's limit.

The runs of the composed service do not check for deadlock: if every caller has
entered `wait_termination` and nobody is left to shut the service down, the
system stops, as its documentation says. `job_panics` does not either: an aborted
process takes no step. All other runs check it.

Fairness. Weak fairness of every thread that is inside a call (the operating
system runs it; destructors return; deadlines pass) and of every worker (Rayon
runs what was spawned; tasks return). Nobody is obliged to begin a call: a
service that is never shut down may stay up for ever. The guide makes the same
exception for user code that never returns (`src/doc/user_guide.md`, lines
262-265).

In `AsyncNotifications` the same holds of threads inside a call, the wakers they
call included, of closures, and of futures whose waker has been called: an executor
polls them again. Two things are said besides. Callers stop calling some day,
because the mutex promises a waiting thread nothing against callers that take it
for ever; the guide makes no finite-wait promise either. And in `async_progress`,
not in `async_stuck_reader`, a `Ref` is dropped some day, which is user code. So
the properties of `async_progress` say nothing of a reader that keeps its `Ref`
for ever: that such a reader holds up publications is a property of tokio's watch, and
`LateAwaiterCompletes` is what can be promised in spite of it. `RestIsClean` and
`NotifyingSpendsWork` need no such assumption, because a kept `Ref` is not rest. In
`BlockingTasks` and `JobPanics` a thread that has a job and is not blocked goes on, and
the code of a task returns or panics.

## Disagreements with the documentation

- *Cancelled although not queued.* The guide says that cancellation succeeds only
  while a task is queued, and `RayonTaskHandle::cancel` that `Cancelled` means
  that this call claimed the task. A cancellation that meets another one in
  progress also answers `Cancelled` (`rayon_task_handle.rs:301`).
  `AnswersSound` shows that the answer is nevertheless true: the task never
  runs.
- *Completed but still running.* The guide says that a completed task reports
  `AlreadyFinished`. An endpoint reports `AlreadyRunning` until `finish_running`
  has removed the id, which is after the result is visible
  (`rayon_task_handle.rs:159`); the handle's own `cancel`, which reads the status,
  reports `AlreadyFinished` at the same moment.

## The proofs

`RayonExecutorServiceStateProofs` proves, for every capacity, thread count, id
bound and set of waiters, that `StateSpec` keeps `StateTypeOK`,
`OwnershipConsistent`, `CapacityRespected`, `WorkIsReserved` and
`NoLostTerminationWakeup`, and that it satisfies `ClosedForGood`. The only
assumption is `ConfigAssumption`: the configured numbers are positive, as the
builder ensures, and there is at least one id.

The invariant `StateInv` is the conjunction of the five properties (the first, types,
is checked by a run only as part of the service's `TypeOK`). They need each other. The
capacity bound survives a stop only because queue and cancelling set are disjoint, so
that moving the one into the other adds sizes. A completion lowers the count only
because `running` is the size of `running_tasks`. The reservations bound is stated
with both `running <= scheduled` and `Min2(NumThreads, running + Cardinality(queue))
<= scheduled`: the first is what an empty closure relies on when it gives its
reservation up, the second is what an admission re-establishes when it computes how
many closures to add. There is one lemma per method, one step per conjunct, and four
lemmas on the sizes of sets of ids.

The module also says what a user sees of each method (`AdmitSeen` to `StopSeen`): which
task changes its phase and how, what lifecycle is observed afterwards, and that the
three collections together are as many as `occupied` counts (`OccupiedCounts`). From
these lemmas follow all three refinements of the contract. The first is
`TasksLiveOnce` in this module: the methods alone, in whatever order their callers may
use them, keep `StateKeepsContract`, the contract without results. Since
`AsyncNotifications`, `BlockingTasks` and `JobPanics` are proved to use the state as
`StateSpec` says, it holds of each of them (`NotifyingServiceKeepsContract`,
`BlockingServiceKeepsContract`, `PanicsKeepStateProtocol`).

`RayonExecutorServiceProofs` does the same for the composed service, for every
finite set of callers and every pool, under `PoolAssumption` (the state was built
with the number of threads the pool really has). `ServiceInv` is the invariant:
`StateInv`, the checked `TypeOK`, `ReservationsConserved`, `SingleOwner` and
`AnswersSound`, and four parts that make them inductive:

- `CallsInShape`: only a dispatching caller has closures to spawn, only a
  cancelling one owns jobs, and a task that was found absent stays out of the
  queue and of `cancelling` (an endpoint's, after `is_running_task`, also out of
  `running_tasks`);
- `TargetsInShape`: a single cancellation owns exactly the task it is about, any
  other cancelling call is a stop;
- `HoldersCounted`: `running` is the number of workers with a job in hand;
- `SlotsFollowOwners`: the status each owner's task has at each place.

The argument runs in a circle that the conjunction closes. A closure in the pool is a
reservation (`ReservationsConserved`), and fewer tasks run than there are busy workers
(`HoldersCounted`), so a closure that takes a job satisfies `IdleReservation`; whoever
finishes a task owns it (`SingleOwner`); so each step is a `StateNext` step
(`StepsKeepProtocol`), which gives back `StateInv`, and with it that the collections
are disjoint, which is what keeps one owner per job and one status per owner. From the
invariant follow `TerminatedIsQuiescent`, `EndpointFallbackHarmless`,
`KeepsStateProtocol` and `ClosuresMeetDemand`: the closures on their way are the
reservations less the tasks in hand, and `WorkIsReserved` bounds those from both sides
(`FreeWorkersAreUsed`). By `KeepsStateProtocol`, every theorem about the state holds
of the service.

`RayonExecutorServiceRefinement` proves that the service keeps the safety part of
`ExecutorContract`, results included: `ContractInit`, and every step a `ContractNext`
step or one that leaves the mapped variables alone. There is one lemma per action of
the contract; each adds to what is seen of the method what the step does to the
result.

`ExecutorContractProofs` proves of the contract alone, for every finite set of tasks
and whichever of them are detached, that it keeps `Promises` and `NothingRevoked`; its
only hypothesis, `ContractConstants`, says that tasks are a finite set of numbers and
the two bounds are numbers. The promises need each other: that a queued task is not
overtaken in its result needs that results of tasks that ran belong to active or
retired ones; that a terminated service stands still needs that nothing is
unfinished then. `TaskSteps` says once what a step does to one task, and the lemmas on
order and results use nothing else. `ServiceKeepsPromises` and
`PanickingJobsKeepPromises` carry both over, through an instance of the proof module
under the refinement mapping; `ContractFitsService` and `ContractFitsJobs` discharge the
hypothesis.

The last part of `RayonExecutorServiceProofs` proves the part of liveness that is not a
matter of fairness. The argument for it has three parts. *Who has something to do can
do it*: `WhoGoesOnIsNotHeldUp` proves that one of the guards written out in `CanGoOn`
and `CanWork` holds; that these guards are those of the steps, an equality with
`ENABLED`, is the part of `GoesOnIsEnabled` that stays with TLC. It needs that what a
closure takes from and what a cancellation goes through have a least id. *When nobody
has, nothing is
left behind*: `QuietIsClean` follows from `ServiceInv`. Without a step left there is no
place for a closure, so by `ReservationsConserved` nothing is reserved, so by
`WorkIsReserved` nothing is queued or running (a pool has at least one thread); nobody
owns a job, so nothing is being cancelled, and a task owned by nobody has a final
result. A closed service is then terminated, and `NoLostTerminationWakeup` leaves no
waiter parked. *Nobody goes in circles*: `GoingOnSpendsWork`, step by step. The lemmas
`WorkerAdvances` and `CallAdvances` count the steps left to one thread; `HandOffSpends`
shows that a closure handed to the pool and one handed to a successor both go down
the order; a step that notifies may give waiters one more step each, so waiters are
last in it. `StockIsFinite` says that all of it is finite. Together: as long as nobody
begins a new call, the threads come to rest after finitely many steps, and at rest
everything that was accepted is finished. What is left to TLC is that the fairness
assumed makes them take these steps.

`AsyncNotificationsProofs` holds for every finite set of threads, all sets of
producers and awaiters, whichever wakers panic or call back. `WorkInv` says that what
threads owe accounts for the counts of the state (`NothingDropped`: a reservation is a
running task, a closure in the pool, or a successor owed), and that no job is owed by
two. Hence a closure that starts satisfies `IdleReservation`, every step is a
`StateNext` step, and the theorems about the state hold here. `NotifyInv` is the chain
from a change of the state to a sleeping future: `HintOnTheWay` (if an attempt would
not be saturated and a careful producer is to wait or sleeps, the publication is
pending or the receiver is marked), `HintWakes` (a marked receiver that sleeps has its
waker in somebody's hands), `EndPublished` and `EndWakes` for termination, `EndIsReal`
for the other direction, and `WakersAsleep`, `WakersApart` and `AwaitersPublish`,
which say that a waker is called once, for a future that sleeps and will find
something. The first link needs that only the steps that publish `capacity` can turn
`AdmitOutcome` from `Saturated`; that is proved from the shape of `AdmitOutcome` and
`occupied`, method by method.

`RestFindsNobodyWaiting` and `NotificationsDoNotSpin` are the same two arguments for
notifications. At rest nobody holds the mutex (`LockBeforeWakers`: who holds it has no
waker in hand, so it can always be released), hence no thread is in a call and
nothing is still to be published (`NobodyIsBusy`), hence a thread is free and no
closure, job or queued task is left (`NothingIsLeft`). Then there is room or the
service is closed, and the chain of `NotifyInv` has no pending link: whoever slept would
have its waker in nobody's hands. That a thread is there to be free is the assumption
`Threads # {}` of `NotificationAssumption`: the builder makes no pool without one. The
stock is again lexicographic: producers that have not succeeded (a retry that does
leaves the loop, so the task it adds comes later in the order), tasks queued, tasks in
hand, successors, closures, awaiters that are to check, publications, wakers to be
called, the mutex held, hints not seen, `Ref`s, and last the steps of futures until
they sleep. There is one lemma per action; `StockIsFinite` says that the parts are
finite sets if there are finitely many futures.

`BlockingTasksProofs` proves that the pool is not stuck for every number of
workers, by a least element: if every running task waited, the oldest of them
would wait for an older unfinished one, which by `StartedInOrder` runs already. For
the other rule the newest running task waits for a queued one, and by
`WorkIsReserved` the worker that does not wait has a closure.

`JobPanicsProofs` ties the stage of a job to the collection its task is in
(`StagesFollowCounts`) and its slot to its stage (`SlotsFollowStages`: no status before
admission, `Pending` in the queue and in the hands of a cancellation that has not
begun, final from the publication on); that a task leaves the counts only from stage
`over`, and what its slot says there, gives `OutcomePublished` and `PanicReported`. The
same invariant gives `PanicsKeepContract`: a publication finds no result, and only a
running task is reported as succeeded or panicked and only a withdrawn one as
cancelled, whatever has panicked in between. `JobsAreNotHeldUp` adds that the loop of a
stop is never stuck: its jobs are all still being cancelled (`JobsOfStopsAreCounted`),
and either none has begun, so any may, or the one that has needs nobody. With
`JobsDoNotTurnBack`, which counts the stages a job has left, only fairness separates this
from `JobsEnd`. The abort of the process is the end of
the behaviour, which safety allows. `RayonExecutorServiceBuilderProofs` proves
`NoUnaskedPool` from the order of the checks of `build`, for every limit of Rayon.

Proved but in no run of their own, because a run checks something stronger:
`ClosedForGood` and `StartedInOrder` (implied by `StateKeepsContract`),
`OutcomePublished`, `Promises` and `NothingRevoked` (by `PanicsKeepContract` and
`ImplementsContract`), `JobsGoOn` and `HandlingAdvances` (they are why `JobsEnd` holds), and
the types of `RayonExecutorServiceState`, `AsyncNotifications` and `BlockingTasks`.

Every safety property that a passing run checks is also proved, except the part of
`GoesOnIsEnabled` that is about `ENABLED`. (`CanGoOn` of the notifications and `CanHandle`
of the jobs are also the guards of steps written out, and are read as such: no run
compares them with `ENABLED`.) Only model-checked besides it, because it
is out of the prover's reach: liveness under fairness, that is the progress part of
`ImplementsContract`, `AcceptedTasksComplete`, `CapacityReturns`, `ShutdownTerminates`,
`WaitersReturn`, `ProducersAwaken`, `PublicationsEnd`, `QueuedTasksLeave`,
`AwaitersComplete`, `LateAwaiterCompletes`, `ResultsArrive` and `JobsEnd`. Of those about
the service, the notifications and the jobs, the states and steps are covered by the
arguments above.

## Not modelled

- Lifetime: `Arc` counts, what happens when the last clone of a service is dropped,
  and the closing of a watch channel. A closure, a handle and an endpoint each keep
  the state alive (a handle or endpoint without the pool), and
  `await_termination` borrows the service, so within this crate a channel can close
  only under a `CapacityChanges` whose service is gone; then `changed` returns
  tokio's error and the loop ends.
- The generation number of `capacity_tx`: it wraps, but tokio compares versions,
  and no code of the crate reads it.
- Inside the libraries: Rayon's queues and work stealing, tokio's sharded
  notification lists and spurious polls, the orders of memory in the slots. Each is
  modelled by what its callers here can see.
- What a calling waker does in the service is the step of another thread. A waker
  that blocks for ever blocks its publisher; the guide says so of user code. Panics
  in the drop of a waker are left out.
- A receiver of `capacity_tx` that is cloned: a clone is one more producer. The
  queries `has_changed`, `is_closed` and `same_channel` change nothing.
- Task code that never returns, and waits inside the pool outside the two
  disciplines: the documentation names them as deadlocks, and they are.
- The values of results, `get` and futures outside the pool, the thread name prefix,
  and the crate root, which only re-exports.

## Plan

What the first plan listed is done, but for lifetime (above). What could follow:

1. Lifetime: references to state and pool held by clones, closures, handles and
   endpoints; a channel that closes while a subscriber waits.
2. `AsyncNotifications` over `RayonExecutorService` instead of the shared state, with
   the spawns of `dispatch` and the fallbacks of endpoints between publications; the
   instance is too large for a run of minutes, and `KeepsStateProtocol`, proved of
   both, already carries the theorems across.
3. A refinement of the notifications to an abstract waiter that is woken or need
   not be.

# Specifications of rwlocker

TLA+ models of `rwlocker`, a library of read-write locks and condition variables
for Python threads and asyncio tasks, with the TLC configurations that check them
and the TLAPS proofs about them. Line numbers are those of `src/rwlocker/`.

Contents: [the system](#the-system), [the modules](#the-modules),
[what is abstracted](#what-is-abstracted), [the properties](#the-properties),
[the runs](#the-runs), [fairness](#fairness), [the proofs](#the-proofs),
[what the models found](#what-the-models-found),
[not modelled, and the plan](#not-modelled-and-the-plan).

## The system

| Component | Where | State | Operations |
|---|---|---|---|
| Lock policies: write-preferring, read-preferring, reader-phase fair, strict fair, each plain and with a reentrant writer | `mixins.py` 10-460 | `_readers_active`, `_reader_owners`, `_writer_active`, `_writer_owner` or `_writer_id` and `_write_count`, `_readers_turn`, `_reader_phase_pending`, `_reader_phase_cutoff` | `_can_read`, `_can_write`, the acquire and release cores, `_downgrade_core`, `_on_reader_abort`, `_on_writer_abort` |
| Wait queues of the locks | `queues.py` 23-122 | the deque `_waiters` | `wait`, `notify`, `notify_all`, discard |
| Thread lock proxies | `thread_rwlock.py` 59-290 | `those_waiting`, `_waiter_seq`, `_downgraded_thread_id`, the mutex `_lock` | `acquire` (blocking, timed, non-blocking), `release`, `downgrade`, `locked` |
| asyncio lock proxies | `async_rwlock.py` 59-265 | the same without a mutex, `_downgraded_task` | the same, cancellable at each await instead of timed |
| Thread condition | `thread_rwlock.py` 662-949, `mixins.py` 463-506, `queues.py` 125-165 | its own waiter deque | `wait`, `wait_for`, `notify`, `notify_all`, `downgrade` |
| asyncio condition | `async_rwlock.py` 630-900, `mixins.py` 463-506, `queues.py` 167-195 | its own waiter deque | the same, with a reacquire loop that holds cancellations back |
| Adapters of the standard locks and conditions | `base.py`, `thread_rwlock.py` 625-657 and 953-987, and the asyncio ones | the wrapped object, one for all routes | delegation of `acquire`, `release`, `wait`, `notify`, the `locked()` probe |
| Example programs | `../examples/*.py` | their own attributes, under a lock or a condition of the package | eight small services: ledger, token manager, configuration cache, job queue, and others |
| Lazy exports | `__init__.py` | module globals | `__getattr__` |

How they interact. A lock object owns two proxies, `lock.read` and `lock.write`.
A proxy's `acquire` takes the mutex (thread stack) or simply runs to its next
`await` (asyncio stack) and calls back into the lock's policy: `_can_read` or
`_can_write` decide, an acquire core records the hold. If the answer is no, the
caller counts itself in `those_waiting`, parks in the proxy's wait queue and,
each time it is notified, asks again. The policy reads the proxies' counters and
queues in turn, and notifies them when a release, a downgrade or an aborted wait
may let somebody in. A condition releases and reacquires the lock through the
same proxies. An adapter puts one standard primitive behind `lock.read`, `lock.write` and
the object's own methods; a condition of the package takes an adapter for its lock, too.
The example programs are clients: threads or tasks that enter sections, wait, notify and
downgrade, and rely on what the lock and the condition promise.

What is hard here, and why tests hardly reach it:

- Between the notify and the moment the woken caller runs, others take the fast
  path: the wakeup must survive that (`NoLostWakeup`, the liveness properties).
- A wait may end by a timeout, an exception or a cancellation at the same moment
  as it is notified. The notify is then spent on a caller that will not take the
  lock; `_on_reader_abort` and `_on_writer_abort` have to pass it on.
- A waiter left in the deque, or a cancelled future in it, can swallow a notify.
- The fair policy counts the slots of a phase apart from the readers that own
  them, and touches the count on four paths.
- The write proxy has one downgrade marker for all threads, and `acquire` clears
  it after the mutex was given back.
- Four attributes record who reads and who writes; ownership checks, nested
  reads, the refused upgrade and the release routing need them to agree.
- `wait` of a condition is cut by other threads at five points. It may be timed out,
  interrupted or cancelled at each, its reacquire included, and its waiter may be
  notified at any of them.
- `locked()` of an adapter over an RLock acquires the lock for a moment, in the sight of
  all others.
- The programs give the lock up between two sections (a token that was seen expired, a
  flag that was claimed, a commit that is uploaded), and others run in between.

`PROJECT.json` lists each hazard at its line with the properties that cover it.

## The modules

| Module | What it is | Code |
|---|---|---|
| `ReadersWriterLock` | the abstract lock: read and write holds of each caller, and when one more may be granted | the promise of `RWLockBase` |
| `LockState` | the attributes of a lock and of its proxies as one record, the wait queue operators, the reader bookkeeping | `queues.py` 23-122, `thread_rwlock.py` 234-264 |
| `WritePolicy`, `ReadPolicy`, `PhasePolicy`, `FairPolicy` | each policy mixin, its methods as operators from a record to a record, plain and reentrant | `mixins.py` 10-318, 365-460 |
| `RWLockCore` | the virtual dispatch on the class of a lock, and the write core | `mixins.py` 41-51, 326-363, `thread_rwlock.py` 154-185, 266-290 |
| `LockClients` | the callers, the release and downgrade steps that both stacks share, and the properties | `thread_rwlock.py` 136-139, 193-221 |
| `ThreadRWLock` | threads: `acquire`, `ThreadWaitQueue.wait`, timeouts, interrupts | `thread_rwlock.py` 90-134, 187-221, `queues.py` 72-88 |
| `AsyncRWLock` | tasks: `acquire`, `AsyncWaitQueue.wait`, cancellation | `async_rwlock.py` 88-117, 166-197, `queues.py` 110-116 |
| `FairPhaseHistory` | `ThreadRWLock` with a history variable for the order of arrival | - |
| `ReadWriteCondition` | the abstract condition over the abstract lock: wait, notify, and the way back | the promise of `RWConditionBase` |
| `ConditionClients` | a condition over the lock of `LockClients`: its queue, the checks of `wait`, `notify`, and the properties | `mixins.py` 463-506, `queues.py` 125-195 |
| `ThreadRWCondition` | `wait` of a thread, over `ThreadRWLock` | `thread_rwlock.py` 693-879 |
| `AsyncRWCondition` | `wait` of a task, over `AsyncRWLock` | `async_rwlock.py` 665-860 |
| `StandardAdapters` | the adapters over a standard lock and a standard condition, `locked()` step by step | `base.py` 20-40, 129-158, 179-208, 224-335 |
| `ConditionOverAdapter` | a condition of the package whose lock is an adapter, as far as its `wait` | `mixins.py` 468-494, `thread_rwlock.py` 743-755 |
| `ConditionPrograms` | what the example programs do with a condition, over `ReadWriteCondition` | `thread_rwlock.py` 146-152, 793-831, 871-878 |
| `TransactionLedger`, `AuthTokenManager`, `GlobalConfigCache`, `ImageProcessingQueue`, `LedgerConditionSync`, `ServiceBootBarrier` | six of the example programs | the file of that name in `examples/` |
| `ClientPrograms` | one of the programs in each behaviour, and that all its calls end | - |
| `MCClasses`, `MCThreadRWLock`, `MCAsyncRWLock`, `MCFairPhaseHistory`, `MCThreadRWCondition`, `MCAsyncRWCondition`, `MCStandardAdapters`, `MCConditionOverAdapter`, `MCClientPrograms` | the instances for TLC: sets of lock classes, who nests, and each specification with them | - |
| `LockClientsProofs`, `ThreadRWLockProofs`, `FairPhaseHistoryProofs`, `ConditionClientsProofs`, `ThreadRWConditionProofs`, `AsyncRWConditionProofs`, `StandardAdaptersProofs`, `ClientProgramsProofs` | the proofs | - |

The eight lock classes of each stack are one model: `Init` chooses the class,
a policy and whether the writer is reentrant, from the constant `Classes`. The
methods of a class run under the mutex or between two awaits and call each other,
so they are operators composed like the calls: `ReleaseWriteCore` calls
`OnWriterAbort`, which in the fair classes calls `FairStart`, which calls
`FairWake`, which calls `Notify`. A step of a proxy is one action.

Thread actions, each from taking the mutex to giving it back:

| Action | Code |
|---|---|
| `TryAcquire` | the fast path of `acquire`, 101-106. A non-blocking call that fails changes nothing |
| `Park` | the slow path down to `self._lock.release()` in `wait` |
| `GiveUpAtOnce` | a timeout that is over at the first check: counted, uncounted, aborted |
| `Expire` | the time of a timed wait passes, the thread parked or already notified |
| `ResumeAcquire`, `ResumePark`, `ResumeAbort` | `wait` has the mutex again, the loop looks at the lock and acquires, waits again, or gives up with the `finally` clause |
| `Interrupt` | an exception leaves `waiter.acquire()`: the abort path, whatever the lock would say |
| `ClearMarker` | `_downgraded_thread_id = None` at 190, after the mutex was given back |
| `ReadRelease`, `WriteRelease`, `Downgrade` | 136-139, 207-221, 193-205. `WriteRelease` has the routed, the plain and the refused release as disjuncts |

Asyncio actions, each from one suspending await to the next: `TryAcquire`, `Park`,
`ResumeAcquire`, `ResumePark`, `ResumeAbort` and the releases as above; `Cancel` is
`task.cancel()`, which finishes a pending future at once (it stays in the deque)
and reaches the coroutine only when the event loop runs the task. A task that was
notified first raises all the same.

The conditions extend the lock modules, and every step of theirs on the lock is one of
the lock's. `wait` of the thread condition is six actions, between which anything may
happen: `EnterWait` (the checks and `add_waiter`, 747-755), `LetGo` (`release` through the
proxy, 756-760), `WakeUp` or `TimeOut` (`waiter.acquire()` returns, 762-772; `PassLimit`
is its time going by), `Regain` and the lock's own `Resume` (the `acquire` of the
`finally` clause, 774), `LeaveWait` (775-776). `FailRegain` is an exception that ends that
`acquire`: `wait` raises without the lock, and lines 775-776 are not reached, so that a
waiter that was not notified stays in the deque for ever. The caller may wait again, with
a waiter of its own, so the one it has left becomes `None` in the deque. `wait` of the asyncio condition is cut at its
awaits: `EnterWait` down to `await waiter` (721-737), `CancelWait`, then `RegainAtOnce` when
the lock is free or `StartRegain`, and `FinishRegain`, or `RegainAgain` for each
cancellation that ends the acquire and starts it afresh (742-751). The variables
`cond`, `at` and `mode` are the condition's deque, the place of each caller in `wait`, and
the proxy it called. `Regain` may have to wait in the lock's own deque, like any acquire.

Which calls a client makes: any interleaving of the calls above, with nested holds
up to each caller's `MaxDepth`. A thread releases what it holds, in any order; one that has
downgraded may release through `lock.read` or through `lock.write`. `ForeignReleases`
says which callers, in a plain and in a reentrant class, also call `write.release()` when
they hold nothing. A client
that waits for its own write hold without a timeout, in a class that is not
reentrant, waits for ever by its own mistake: `WaitsForItself` leaves that call out.

`StandardAdapters`: `Route` is a proxy or the object itself, `Routed` the primitive that the
adapter sends it to. `AskPrimitive`, `AskOwned`, `TryAcquire`, `GiveBack` and `Heed` are
the steps of `locked()` (`base.py` 29-40); `Wait`, `Notify`, `Cancelled`, `Regain` and
`Return` delegate to the standard condition. What the standard library does itself is
external, and modelled as its documentation has it: an exclusive lock, an RLock with its
owner and count, and a condition whose notified waiters acquire the lock again, where a
cancelled task leaves the line before it acquires and a timed out thread after.

The client programs are written over `ReadWriteCondition` and nothing more: what holds of
them holds over each implementation that refines it, thread and asyncio. (A lock is a
condition that nobody waits on.) A caller runs one call of its program, from its first `pc`
to `"end"`; an action is what it does between two points where others may run, and is
named for what the call does there. `WaitAt`, `ComesBack` and `LooksAgain` are the loop of
`wait_for`: a caller that comes back looks at its predicate again, and waits again when it
has to. In `ServiceBootBarrier` the loop has its timeout, which is over at any time.

## What is abstracted

- Tickets. The code numbers the waits (`_waiter_seq`) and compares the number with
  `_reader_phase_cutoff`. `FairPolicy` keeps the set of the waits at or below the
  cutoff (`reserved`): a start of a phase puts every present wait in it, a later
  wait has a larger number, a finished wait leaves. The set has no bound to choose,
  where a counter would.
- `those_waiting` is the set of callers it counts; `QueuesAgree` states that the
  set and the callers' own position agree.
- A waiter (a lock object, or a future) is named by the caller that waits in it: a
  caller waits in one place at a time.
- `ThreadWaitQueue.wait` appends the waiter and drops the mutex in one step, since
  it holds the mutex until then. Releasing a waiter never fails in a lock's queue,
  where each waiter is locked until it is notified, and is popped by that.
- `_writer_active`, `_writer_owner` and `_writer_id` are one field `writer`. The
  reentrant classes never set `_writer_active`, and their wake methods, inherited
  from the plain ones, read it all the same: `WriterActive` keeps that.
- The order in which threads get the mutex, and in which the event loop runs ready
  tasks, is arbitrary: asyncio's is FIFO, so the model has more behaviours.
- Timeouts have no length, only "ahead" and "passed".
- `locked()` of the package's own locks changes nothing and is left out; that of the
  adapters is modelled. `wait_for` is a loop of `wait`, modelled in the client programs.
- A condition's waiter is named by the caller that waits in it, too. `notify(n)` is
  called with any `n` up to the length of the deque, as `notify_all` does; a larger one does
  no more. Callers in `Waiters` call `wait`, and any holder may notify; calls that the
  checks refuse change nothing.
- `WaitsAfterDowngrade` holds the callers that wait in a block they have downgraded;
  only the run of that question has any.
- An RLock that is held twice waits with both acquisitions in the standard library; the
  callers of `StandardAdapters` wait with one.
- Of the programs' data the models keep what their promises are about: the token is expired
  or not, a job is one of so many, a commit is the caller that made it. Payloads, prints,
  sleeps and the threads' start and join are left out. `Amounts` has a payment that can be
  refused, and one that cannot; `Rounds` bounds the jobs of a consumer, and there are jobs
  enough for all, as in the example's own `__main__`. `data.made`, `data.fetches` and
  `data.invalidations` are history, for the properties.
- A task of `GlobalConfigCache` is cancelled at most once, at any of its awaits. A second
  cancellation that ends the acquire of the `except` clause (line 42) leaves the flag set,
  and the later calls wait for ever: the example makes no promise about that.

## The properties

Stated in `LockClients` for both stacks, unless a module is named.

- `RefinesLock`: each step of the code is a legal step of the abstract lock or
  changes no hold. `MutualExclusion` is the abstract lock's.
- `HoldsAgree`: `_readers_active`, `_reader_owners`, the writer and its depth agree
  with each other and with what the callers' own returned calls add up to.
- `QueuesAgree`: the counters count exactly the callers in a slow path; the deques
  hold, once each, exactly the waiters that are not released.
- `NoLostWakeup` (`ThreadRWLock`, `AsyncRWLock`): when a parked caller could have the lock now,
  somebody is awake who will take it or pass the wakeup on.
- `PhaseAgrees`: an open phase has a reader that will end it, and the pending slots
  are those of the reserved waits.
- `MarkerRoutes`: the marker names a caller as long as its downgraded hold lasts, and
  names no caller inside a write section when that calls `write.release()`.
- `WriteSectionKept`: a write section ends by its own caller's release.
- `ReadersServed`, `WritersServed`: liveness, below.
- `LateReadersWait` (`FairPhaseHistory`): a reader that comes late to an open phase
  of the fair classes does not get in ahead of the writers it found queued. It does not
  hold; see below. `LateReadersWaitForWriters` is the part that does: only a queued writer
  that gives up its wait meanwhile can let such a reader in.

Of the conditions, in `ConditionClients` or in the two condition modules:

- `RefinesCondition`: seen from outside, `wait` gives the lock up and joins the line in
  one step, a notify reaches the waiters at the head of the line, and a wait comes back
  only by a notify, its timeout, an exception or a cancellation, with the hold it gave
  up, and leaves no waiter behind; a thread whose reacquire fails raises with no hold, and
  leaves its place in the line to nobody: it takes one notification and wakes no other
  wait of that thread. In the mapping a thread in `entering` holds nothing any
  more: `wait` releases a moment after it has enqueued, and nobody can tell.
- `NotifyReaches`: cancelled futures in the deque use up no notification.
- `NotifiedReturn`: liveness of the reacquire.
- `DowngradedRoutes`: what `release` is documented to do for a downgraded block, in a
  block that waits on the condition too. It does not hold; see below.
- `UsesLock` (`ThreadRWCondition`): the lock of a condition behaves as `ThreadRWLock` says.
  Proved, not run.

Of the adapters (`StandardAdapters`, `ConditionOverAdapter`):

- `AdapterIsCondition`: by whichever routes its callers acquire, release, wait and notify,
  an adapter is the abstract condition with write sections only; the probes of `locked()`
  show in nothing that the callers hold.
- `LockedAnswers`: the probe calls a lock free only while nobody holds it, its caller
  included, and locked only if it is, or another thread is probing it at that moment: two
  `locked()` calls that meet may both be told of a lock that nobody has. (Likewise an
  `acquire(False)` that meets a probe fails, though nobody holds the lock.)
- `OneAcquisitionMayWait`: does not hold; see below.

Of the client programs, each the promise of a comment in its source:

- `AuditSeesOwnPayment`: a payment is audited with the balance that it has made, since it
  downgrades and does not release.
- `TokenFetchedOnce`: no more fetches than invalidations, whoever saw the token expired.
- `RefreshFlagOwned`: the flag is set exactly while one refresher has claimed it, also when
  its load, or its wait for the lock to publish, is cancelled.
- `JobsAreFetched`: no job is left beside a consumer that sleeps un-notified, though
  consumers that were not waiting take jobs that were announced to others.
- `SyncMeansUploaded`: `sync_completed` says so only when every commit is uploaded.
- `AnswerIsCurrent`: what `wait_for` answers is true when it returns, also when the timeout
  and the notification come together.
- `ProgramsEnd`: every call of every program returns.

## The runs

| Run | Instance | Shows | States |
|---|---|---|---|
| `thread_lock` | 4 threads that nest to depth 2, three of which write; two may time out, one of these a writer that may be interrupted; all of them release what they do not hold in the reentrant classes; all 8 classes, with the history variable | every safety property and the refinement; `LateReadersWaitForWriters` in the fair classes | 420,172 |
| `thread_foreign_plain` | 3 threads that release what they do not hold, plain classes | violation: see below | - |
| `fair_late_readers_timeout` | one queued writer may time out | violation: see below | - |
| `async_lock` | 4 tasks that nest to depth 2, three of which write and may be cancelled, all 8 classes | every safety property and the refinement | 501,126 |
| `thread_condition` | 3 threads that wait and notify, two of them writers, one with timeouts and with exceptions in its sleep and in its reacquire, which leave one waiter behind, all 8 classes | `RefinesCondition` | 445,922 |
| `thread_condition_downgrade` | 3 threads, one of which waits in a downgraded block | violation: see below | - |
| `async_condition` | 3 tasks that wait and notify, two cancellable at every await, all 8 classes | `RefinesCondition`, `NotifyReaches`, and the lock's queues and wakeups, since a cancelled reacquire aborts and queues up again in one step | 303,139 |
| `thread_live` | a reader that waits on a condition, with timeouts, a writer, a thread that reads and writes, all 8 classes | `ReadersServed`, `WritersServed`, `NotifiedReturn` | 18,936 |
| `async_live` | the same, the reader cancellable in `acquire` and in `wait` | the same | 7,633 |
| `client_programs` | 4 callers of each of the six programs, in every distribution of its calls | the promise of each program, and `ProgramsEnd` | 177,947 |
| `adapters` | 3 callers of an adapter over a Lock, an RLock or an asyncio lock, two of which wait, one impatient | `LockedAnswers`, `AdapterIsCondition` | 1,144 |
| `adapter_wait` | 2 callers of a condition over an adapter | violation: see below | - |

Why the bounds are enough. The policies compare counts with zero, the fair one
compares the number of pending slots with the number of waiting readers. Three
callers give a holder, a woken caller and a third that overtakes or gives up; four
give two waiters of each kind behind a phase, or a phase of two readers with a
writer and a late reader. Depth 2 is the least at which a nested hold, an inner
release and a refused downgrade exist. `MaxDepth` is the only bound that the code
of the locks does not have.

Of the conditions, three callers give two waiters in the deque and one that notifies, a
waiter on its way out while another one waits, and a writer between a wait's end and its
reacquire. `wait` refuses nested holds, so depth 1 is enough there. `MaxAbandoned` bounds the
waiters that failed waits leave in the deque, each of which takes one notification: with one
of them, `notify(1)` finds a live waiter, a dead one, or a dead one before a live one.

The programs take their callers from a constant set and choose in `Init` what each of them
calls, so that the run has every mix of four: one producer and three consumers, two
refreshers with two readers, four payments of which some are refused. Two sections of one
caller with others between them need two callers, a third that sleeps meanwhile, and a
fourth that comes late. The adapter has one probe, one holder and one caller that waits or
probes, too; its condition is the standard library's, so two waiters are enough.

Deadlock is checked in every run of the locks: no reachable state leaves all callers
parked. With nesting that includes a reader that asks again while a writer waits for
it. It is checked in `adapters`, where a waiter that nobody notifies leaves the others free to
go on, and in `client_programs`, where the one state to stay in is the end of all calls
(`AllEnded`). It is not checked in the condition runs, where all callers may wait with nobody
left to notify them.

Symmetry is not used: `RefinesLock` and the liveness properties do not allow it, and
the others are small enough without.

`HoldsAgree` and its like are run beside the theorems that state them: the runs find a slip
of the model, or of the code, with a trace.

Each property of each passing run has a mutant in `PROJECT.json`: an operator,
marked `Mutant:` in its module, that changes one definition the way a slip in the
code would, and under which TLC finds that property violated.

## Fairness

The liveness runs use `FairCondSpec`, since all that a caller of a lock may do a caller of
a condition may do too. What it assumes:

- a caller that is awake is run at last (weak fairness of `Resume` and `ClearMarker`):
  the operating system's scheduler, or the event loop, does that;
- the time of a timed wait passes (weak fairness of `Expire`);
- a holder calls release at last, though it may make other calls first (strong
  fairness of `ReadRelease` and `WriteRelease`): the README's "when lock holders
  continue to make progress";
- a task that waits for its own hold is cancelled (weak fairness of that `Cancel`
  only): that wait is the client's mistake, and modelled only for tasks whose
  timeout ends it.

The steps of `wait` are treated alike: `Waiting` (in the asyncio condition `Regaining`)
stands in one weak fairness condition with `Resume` and `ClearMarker`, as a caller has one
next step, and `PassLimit` in one with `Expire`. Nothing is assumed of `EnterWait`,
`CallNotify` and `CancelWait`: `NotifiedReturn` starts from a wait that was notified or has ended
otherwise. A task that is cancelled again while it reacquires leaves its place in the
lock's deque for a new one at the end; one that is cancelled for ever may reacquire for
ever, so the asyncio property stops at the next cancellation.

`ProgramSpec` assumes of each caller that it takes its next step if it can for good (weak
fairness of `ProgramStep`), and nothing of `Cancellation`. A lock that is handed round for
ever could keep a caller out under weak fairness, but every call of a program ends, so that
the lock comes free for good at last.

No caller is obliged to ask for the lock, to downgrade, to time out with a set
timing, or to be cancelled. Nothing is assumed on who gets the mutex first, so
`ReadersServed` needs the code's own provision against overtaking.

`WritersServed` promises that some writer gets in, not which: a writer on the fast
path may pass a woken one again and again, in every class. `ReadersServed` does not
hold for the write-preferring classes and `WritersServed` not for the read-preferring
and phase classes; the library's README says as much, and the properties name the
classes they are about (`ServesReaders`, `ServesWriters`). In the fair asyncio classes
writers that are cancelled again and again may keep a queued writer out, since each abort
opens a new phase for the readers that wait by then; so `async_live` lets a reader be
cancelled and no writer.

## The proofs

All theorems hold for every set of callers, every choice of classes and every bound,
under the assumptions named in the modules and `Disciplined`: in the plain classes, no
caller releases a write lock that it does not hold. (Without it they break, as
`thread_foreign_plain` shows.)

| Theorem | Statement |
|---|---|
| `TypeCorrect`, `AsyncTypeCorrect` | `Spec => []TypeOK`; the natural-number types of the counters are the point: no count goes below zero |
| `HoldsAlwaysAgree`, `AsyncHoldsAlwaysAgree` | `Spec => []HoldsAgree` |
| `MarkerAlwaysRoutes`, `AsyncMarkerAlwaysRoutes` | `Spec => []MarkerRoutes` |
| `WriteSectionAlwaysKept` | `Spec => []WriteSectionKept` |
| `Exclusion`, `AsyncExclusion` | `Spec => []MutualExclusion` |
| `Refinement`, `AsyncRefinement` | `Spec => RefinesLock` |
| `QueuesAlwaysAgree`, `AsyncQueuesAlwaysAgree` | `Spec => []QueuesAgree` |
| `PhaseAlwaysAgrees`, `AsyncPhaseAlwaysAgrees` | `Spec => []PhaseAgrees` |
| `WakeupAlwaysKept`, `AsyncWakeupAlwaysKept` | `Spec => []NoLostWakeup` |
| `ConditionUsesLock` | `CondSpec => UsesLock`, where `UsesLock` is `ThreadRWLock!Spec`; assumes `WaitsAfterDowngrade = {}` |
| `CondTypeCorrect`, `CondExclusion`, `CondMarkerRoutes`, `CondDowngradedRoutes`, `CondQueuesAgree`, `CondPhaseAgrees`, `CondWakeupKept` | what the lock of a thread condition keeps, from the theorem above |
| `ConditionRefinement` | `CondSpec => RefinesCondition`: the thread condition implements `ReadWriteCondition`; assumes `WaitsAfterDowngrade = {}` |
| `AdapterTypeCorrect`, `LockedAnswersRight`, `AdapterRefinement` | `Spec => []AdapterTypeOK`, `Spec => LockedAnswers`, `Spec => AdapterIsCondition`, of `StandardAdapters`; they need nothing but `AdapterAssumption` |
| `AsyncCondTypeCorrect`, `AsyncCondHoldsAgree`, `AsyncCondExclusion`, `AsyncCondMarkerRoutes`, `AsyncCondDowngradedRoutes`, `AsyncCondQueuesAgree`, `AsyncCondPhaseAgrees`, `AsyncCondWakeupKept`, `AsyncCondRefinesLock` | the same, and the refinement of the abstract lock, for the lock of an asyncio condition; they assume `WaitsAfterDowngrade = {}`, too |
| `AsyncConditionRefinement`, `AsyncNotifyReaches` | `CondSpec => RefinesCondition`, `CondSpec => NotifyReaches`, of the asyncio condition, under the same assumption |
| `NoDeadlock`, `AsyncNoDeadlock` | `Spec => []SomebodyMoves(...)`: when a caller waits for the lock, some caller is awake, or holds the lock and waits for nobody else. A client of a plain class that waits for the write hold it has itself is the one exception the statement names |
| `CondNoDeadlock`, `AsyncCondNoDeadlock` | `CondSpec => []SomebodyRuns(...)`: the same through a condition, where the holder is not asleep in `wait()` either; they assume `WaitsAfterDowngrade = {}`, too |
| `LateReadersExcused` | `HistorySpec => LateReadersWaitForWriters` |
| `LateReadersAlwaysWait` | `HistorySpec => LateReadersWait`, the library's own claim; assumes `WritersStay`: no thread that writes has a timeout or may be interrupted (without it, `fair_late_readers_timeout` finds it violated) |
| `AuditAlwaysSeesOwn`, `TokenAlwaysFetchedOnce`, `RefreshFlagAlwaysOwned`, `JobsAlwaysFetched`, `SyncAlwaysUploaded`, `AnswerAlwaysCurrent` | `ProgramSpec => []` the promise of each client program |
| `ProgramExclusion`, `ProgramsUseCondition` | `ProgramSpec => []Cond!Lock!MutualExclusion`, `ProgramSpec => Cond!Spec`: every program uses the condition as `ReadWriteCondition` allows |

The argument. `MutualExclusion` is about what callers hold by their own account, the
code decides by the lock's attributes, and the release path by the marker. So the
inductive invariant `ClientInv` (`LockClientsProofs`) is the conjunction of typing,
`HoldsAgree`, `MarkerRoutes` and the discipline of the callers. None of the
conjuncts is inductive alone: a release that decrements `_readers_active` stays in
the naturals only because the holds agree; it goes to the right core only because
the marker routes; the marker routes only if a downgrade leaves the writer without
another write hold, which is again in `HoldsAgree`. `_readers_active` is tied to
`_reader_owners` as the cardinality of the set of holds (`ReadHolds`), so that no sum
over callers, hence no induction over data, is needed.

- `LockClientsProofs`, first part: what each core method does to the holds and to the types,
  for each policy. Notifies and phase changes keep the holds (`SameHolds`); an acquire that
  `CanAcquire` allows, a release and a downgrade keep `HoldsConsistent`.
- Its second part: each shared step keeps `ClientInv`, one lemma per step, and is a legal
  step of the abstract lock or leaves `held` alone.
- `ThreadRWLockProofs`, and the first half of `AsyncRWConditionProofs`: one step per action, from
  those lemmas; then the temporal theorems.

`QueuesAgree`, `PhaseAgrees` and `NoLostWakeup` are about those who wait, and need a second
invariant, `WaitInv`, on top of the first. `NoLostWakeup` is far from inductive: a release
wakes one writer or some readers, and who they are depends on the policy, the phase and the
order of the deques. What is inductive is stronger, and simpler (`Kept`, in the third
part of `LockClientsProofs`), with D the callers that have to give up, late or cancelled:

- `Orderly`: who waits stands in its deque, once, unless it is woken, or its future is
  cancelled; nobody else stands there.
- `PhaseCounted`, `TurnHeld`: the pending slots are those of the reserved waits; a turn has
  a reader that holds or waits.
- `ReadersKept`: *every* waiting reader that could be in is woken or in D. A notify of one
  reader would not keep this; the code notifies them all, or as many as there are
  slots, and that these are the right ones is the heart of the fair classes' proof.
- `WritersKept`: if a writer could be in, *some* waiting writer is woken or in D.
- `WaitersCounted`: `those_waiting` is who is in a slow path, and who is there holds nothing,
  but for the write hold that a client waits for by its own mistake. It turns `_can_read` and
  `_can_write` of a waiter into a condition on the lock alone (`MayRead`, `MayWrite`): a
  nested reader would be let in whatever the phase, and it never waits.

That part takes the core methods one by one, from `Notify` (which pops a prefix
of the deque: `PoppedPrefix`, `NotifyWakes`) up to the phase changes, the acquire and
release cores and the aborts, and ends with what a caller does in its slow path. A caller
that has come back from its wait and has not decided yet is `Busy`: counted, in no deque, and
not to be counted on. Its end (`ClientEnters`, `ClientParks`, `ClientResumes`,
`ClientParksAgain`, `ClientAborts`) is what threads and tasks have in common; for threads D
is `Late`, those whose deadline has passed, for tasks it is `dying`.

- The fourth part: the waits form no circle. `WaitersCounted` says that a waiter holds nothing,
  so a holder does not wait; if nobody holds, `FreeLockWakes` goes through the policies and
  phases: one kind of the waiters could be in (`MayRead`, `MayWrite`), and by `Kept` one of that
  kind is awake. TLC's own deadlock check would not show it: one idle caller that
  can still start a call hides a circle among the others.
- `ThreadRWConditionProofs`: `CondInv` says that no caller inside `wait` has a downgraded
  hold. It is what makes the release inside `wait`, which does not end a downgraded
  block, the ordinary release; every other step of the condition is a step of the lock
  by its form or leaves the lock alone (an exception in the reacquire is the lock's own
  `Interrupt`). For the refinement, `SleepInv` adds where the waiters are. `LineKept`: no
  thread has two waiters in the deque, one that waits and was not notified has one, and one
  outside `wait` has none. `PlaceKept`: what a thread holds at each place of `wait`, and
  which acquire it is in; it is what tells a `Regain` that queues up (seen from outside,
  nothing happens) from one that gets the lock, and what lets `LetGo` be no step at all,
  since `EnterWait` gave the lock up already as far as anybody outside can tell. The proof
  then has one lemma per kind of step: `LockIsSeen`, `EnterIsSeen`, `SleepIsUnseen`,
  `ReturnIsSeen`, `NotifyIsSeen`.
- `AsyncRWConditionProofs`: a reacquire that is cancelled aborts and queues up again before
  any other task runs, which is no step of `AsyncRWLock`; so there is no `UsesLock` here.
  `CondInv` is the lock's invariant with the type of the condition and `Places`: a task
  inside `wait` has no downgraded hold, and a regaining one is in the acquire of its own
  proxy. `EnterEffect` and `QueueEffect` say what an acquire does from any state with the
  same holds, `AbortedFrame` that the abort leads to one; `RegainAgainPart` joins them.
  `RegainAgainWaits` does the same for `WaitInv`: the abort passes a wakeup on before the
  task stands in line again (`AbortedKept`, `SlowPathKeeps`). For the refinement, `SleepInv`
  says where the waiters are: only a parked task that was not notified has a future in the
  deque, one that was cancelled there is about to raise, and nobody in `wait` holds the
  lock before the step it returns in, so `entering` and `back` never show. Each step then
  is one of the abstract condition or is seen by nobody: the cleanup of a cancelled future
  takes it out of the deque, but out of the line it was already (`CleanedTidies`), and a
  reacquire shows only when it ends (`ReturnIsSeen`, `QueuingIsUnseen`). `AsyncNotifyReaches`
  is by the same lemma as the notify's step of the refinement.
- `ConditionClientsProofs`: what both conditions share: the waiter queue keeps its type and
  holds each waiter once, and what the checks of `wait` have found out when it releases. The
  second half is about the line that a notify can reach. Cancelled futures stay in the
  deque, so the line (`LineOf`) is the deque without them, and it is defined by the rank of
  each live place rather than by recursion over the deque: whatever lists the live places in
  order is the line (`Lists`, `ListedAtRank`, `LineIs`), and `LineJoins`, `LineCancelled`,
  `LineCleaned` and `LineNotified` give, for each thing the deque undergoes, such a list.
- `StandardAdaptersProofs`: `AdapterInv` ties the primitive's owner and count to what the
  callers hold and to the probes: the owner is the caller that holds, or the one whose probe
  has the lock for a moment (`OwnerAgrees`), and only a caller that does not own an RLock
  comes as far as that (`ProbeAgrees`), which is the check of `_is_owned` at work. Without it
  neither an answer of `locked()` nor the step of a probe, which has to be invisible, can
  be shown right.

- `FairPhaseHistoryProofs`: `WaitInv` says that a reader without a slot is not let in past a
  waiting writer (`ReaderNeedsSlot`); what remains is that a late reader gets no slot. The
  history is about several steps, so `HistoryInv` says what is true between them: a late
  reader still waits, no writer has got in, and it has no slot before some writer has given
  up. It is inductive because of `StepNoSlot`: as long as no writer holds the lock, before or
  after the step, and none gives up, the step hands out no slot. The two other places
  where the code starts a phase, a release and a downgrade of the writer, end a write
  section, and with it the history. For `LateReadersAlwaysWait`, `StayInv` adds that a thread
  without a timeout has no deadline, so that no writer ever gives up (`NoWriterGivesUp`).
- `ClientProgramsProofs`: a program is safe for what its sections hold, so each program's
  invariant begins with `Holding`: at which points of it a caller has the write side, at
  which the read side, and that it holds nothing elsewhere. The steps of the condition keep
  that and the exclusion of the lock, one lemma each, whatever the program. What follows
  from the exclusion is then the step that every program's argument needs: who stands
  at a writing point stands there alone, and nobody gets to one while another one reads. The
  rest of each invariant is what the program itself adds. In the queue program it is a
  count: `Fetchers`, the consumers that were told or are about to look, are no fewer than the
  jobs as long as anybody is in the line, for which the line has to hold each sleeper
  once and nobody who was told (`Lined`); a notify of n moves n callers from the line to
  the fetchers, or empties it. In the sync program it is that a commit not yet uploaded
  has a caller at one of two points, both inside the section; in the config program the flag
  has one owner, in and out of the lock, also after a cancellation. The proof of
  `ProgramsUseCondition` reads each statement as a step of `ReadWriteCondition`: `Holding`
  gives the hold that the step asks for.

Only model-checked: the liveness properties (`ReadersServed`, `WritersServed`,
`NotifiedReturn`, `ProgramsEnd`), because liveness under fairness is out of the prover's
reach. Every other property of a passing run is a theorem. Of the four that the other runs
find violated, three are theorems under the assumption that makes them true:
`WriteSectionKept` (`Disciplined`), `LateReadersWait` (`WritersStay`) and `DowngradedRoutes`
(`WaitsAfterDowngrade = {}`); `OneAcquisitionMayWait` fails for every adapter.
The tickets and the sum of `_reader_owners` are abstracted
to sets for the proofs' sake, too: what a loop over them computes would be an induction over
data.

## What the models found

- `fair_late_readers_timeout`. The fair lock "freezes each reader phase at phase start
  so late readers cannot cut in front of an already-queued writer" (the library's
  README, line 64). But `_on_writer_abort`, which a queued writer runs when its wait
  times out or is interrupted, starts a phase even when one is open and other writers
  are queued; the readers that came late are then counted in, and pass those writers.
- `thread_foreign_plain`. `release` is documented to raise "if the lock was not acquired
  by the current thread" (`thread_rwlock.py` 711). The plain classes raise only
  when nobody holds the write lock: another thread can end a write section, and a
  second writer then gets in beside the first.
- `thread_condition_downgrade`. `write.release()` "intelligently detects if the lock was
  downgraded by the current thread" (`thread_rwlock.py` 210), and the condition's
  `downgrade` lets readers in "while maintaining the condition context" (877). A block
  that has downgraded and calls `cond.read.wait()` comes back with its read hold but
  without the marker if a writer ran meanwhile: the end of the block raises and the read
  hold is never released. `with cond.write: cond.write.downgrade(); cond.read.wait()`
  does so in the library itself.
- `adapter_wait`. A condition takes any `RWLockBase` for its lock (`thread_rwlock.py` 892), and
  the `Lock` adapter is there for "dependency injection where an RWLock signature is
  required" (630). An adapter knows no owner, so `_get_owned_lock_depth` (`mixins.py` 476-494)
  takes `locked()` for ownership, of the read side and of the write side, which are the same
  lock: one acquisition counts twice, and `wait` of `RWCondition(Lock())` raises "nested
  acquisitions" every time.

## Not modelled, and the plan

Not modelled:

- the programs `in_memory_cache` and `telemetry_dispatcher`: each operation is one read
  section or one write section, and a model would restate mutual exclusion;
- the lazy exports, which keep no state of a lock; benchmarks and figures, which measure
  the library and draw the results;
- an exception that ends the acquire of the mutex itself, in the `finally` clause of
  `ThreadWaitQueue.wait` (`queues.py` 86): what follows runs without the mutex, and nothing
  that the code says of its state holds any more;
- that a notification which reaches a task just before its cancellation is spent on it: the
  abstract condition allows it, as the code makes no promise to pass it on.

Done: the abstract lock, the policies, both locks, the history of the fair classes; the
abstract condition and both conditions, with failing reacquires; the adapters; six client
programs. Left:

1. The tickets: a module with `_waiter_seq` and `_reader_phase_cutoff` themselves, shown to
   implement `FairPolicy`'s set `reserved`.
2. `WritersServed` per writer, under the assumption that no writer takes the fast path.

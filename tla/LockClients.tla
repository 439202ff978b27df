---------------------------- MODULE LockClients ----------------------------
(***************************************************************************)
(* The callers of one RWLock object, threads or asyncio tasks, and what    *)
(* the lock promises them.  The thread and the asyncio stack share their   *)
(* core methods (mixins.py), and the text of their release and downgrade;  *)
(* they differ in how a caller waits, and are modelled apart from here.    *)
(***************************************************************************)
EXTENDS RWLockCore

CONSTANTS Classes,           \* <<policy, reentrant>>: the classes to run
          Readers,           \* callers of lock.read.acquire
          Writers,           \* callers of lock.write.acquire
          ForeignReleases,   \* <<caller, reentrant>>: who releases, in a lock of
                             \* which kind, what it does not hold
          MaxDepth           \* bound on each caller's nested holds of a kind

ASSUME ClientAssumption ==
  /\ Classes \subseteq Policy \X BOOLEAN
  /\ Readers \subseteq Caller
  /\ Writers \subseteq Caller
  /\ ForeignReleases \subseteq Caller \X BOOLEAN
  /\ MaxDepth \in [Caller -> Nat]

VARIABLES
  lock,       \* the RWLock object and its proxies
  marker,     \* lock.write._downgraded_thread_id, or _downgraded_task
  call,       \* the acquire that t is in, or "marker" on its way out of it
  held,       \* what t holds, counted by what its own calls returned
  downgraded  \* callers whose downgraded hold is not released yet

clientVars == <<lock, marker, call, held, downgraded>>

ClientTypeOK ==
  /\ lock \in LockRecord
  /\ marker \in Caller \cup {None}
  /\ call \in [Caller -> Kind \cup {"none", "marker"}]
  /\ held \in [Caller -> [r : Nat, w : Nat]]
  /\ downgraded \subseteq Caller

ClientInit ==
  /\ \E c \in Classes : lock = NewLock(c[1], c[2])
  /\ marker = None
  /\ call = [t \in Caller |-> "none"]
  /\ held = [t \in Caller |-> [r |-> 0, w |-> 0]]
  /\ downgraded = {}

-----------------------------------------------------------------------------
(* Which calls a caller may make, and what it holds after one.             *)

Idle(t) == call[t] = "none"

MayAsk(t, k) ==
  /\ Idle(t)
  /\ IF k = "read" THEN t \in Readers /\ held[t].r < MaxDepth[t]
                   ELSE t \in Writers /\ held[t].w < MaxDepth[t]

\* A caller that waits for its own write hold waits for ever: with a lock that
\* is not reentrant that is the client's mistake, unless the wait can be ended.
WaitsForItself(t) == ~lock.reentrant /\ lock.writer = t

Gains(t, k) ==
  held' = IF k = "read" THEN [held EXCEPT ![t].r = @ + 1]
                        ELSE [held EXCEPT ![t].w = @ + 1]

Loses(t, k) ==
  held' = IF k = "read" THEN [held EXCEPT ![t].r = @ - 1]
                        ELSE [held EXCEPT ![t].w = IF @ = 0 THEN 0 ELSE @ - 1]

-----------------------------------------------------------------------------
(* release and downgrade.  They take the mutex and give it back, or never  *)
(* await: each is one step.                                                *)

ReleaseRead(t) ==
  /\ Idle(t)
  /\ held[t].r > 0
  /\ lock' = ReleaseReadCore(lock, t)
  /\ Loses(t, "read")
  /\ UNCHANGED <<marker, call>>

EndRead(t) ==
  /\ ReleaseRead(t)
  /\ downgraded' = IF held[t].r = 1 THEN downgraded \ {t} ELSE downgraded

\* Who calls lock.write.release(): a holder, a caller that has downgraded, and
\* those that release what they do not hold.
CallsWriteRelease(t) ==
  /\ Idle(t)
  /\ \/ held[t].w > 0
     \/ t \in downgraded
     \/ <<t, lock.reentrant>> \in ForeignReleases

\* The release goes to the read core: the marker names t, and t does read.
RoutedToRead(t) == marker = t /\ lock.owners[t] > 0

EndDowngraded(t) ==
  /\ CallsWriteRelease(t)
  /\ RoutedToRead(t)
  /\ lock' = ReleaseReadCore(lock, t)
  /\ marker' = None
  /\ Loses(t, "read")
  /\ downgraded' = downgraded \ {t}
  /\ UNCHANGED call

EndWrite(t) ==
  /\ CallsWriteRelease(t)
  /\ ~RoutedToRead(t)
  /\ MayReleaseWrite(lock, t)
  /\ lock' = ReleaseWriteCore(lock)
  /\ marker' = IF marker = t THEN None ELSE marker
  /\ Loses(t, "write")
  /\ UNCHANGED <<call, downgraded>>

\* RuntimeError: nothing but the marker changes.
EndRefused(t) ==
  /\ CallsWriteRelease(t)
  /\ ~RoutedToRead(t)
  /\ ~MayReleaseWrite(lock, t)
  /\ marker' = IF marker = t THEN None ELSE marker
  /\ UNCHANGED <<lock, call, held, downgraded>>

WriteToRead(t) ==
  /\ Idle(t)
  /\ held[t].w > 0
  /\ MayDowngrade(lock, t)
  /\ lock' = DowngradeCore(lock, t)
  /\ marker' = t
  /\ held' = [held EXCEPT ![t] = [r |-> @.r + 1, w |-> @.w - 1]]
  /\ downgraded' = downgraded \cup {t}
  /\ UNCHANGED call

-----------------------------------------------------------------------------
(* What the classes promise.                                               *)

Promise == INSTANCE ReadersWriterLock

\* A caller inside a write section is alone: no other caller is inside a read
\* or a write section (the purpose of every _can_read and _can_write).
MutualExclusion == Promise!MutualExclusion

\* Seen from outside, each critical section of the code is one step of the
\* abstract lock, a legal one, or changes no hold: acquire, release, the routed
\* release and the downgrade do to the callers' holds what they should.
RefinesLock == Promise!Spec

\* "Raises: RuntimeError: If the lock was not acquired by the current thread"
\* (release of the condition's proxies, which is the lock's): a write section
\* ends by its own caller's release, so the lock stays that caller's meanwhile.
WriteSectionKept ==
  \A t \in Caller : held[t].w > 0 => lock.writer = t

\* The attributes agree with each other, and with what the callers hold by
\* their own account: every acquire, release and downgrade updates four of them
\* (_readers_active, _reader_owners, the writer, its depth), and the ownership
\* checks, the nested read and the refused upgrade rely on all.
HoldsAgree ==
  /\ HoldsConsistent(lock)
  /\ \A t \in Caller :
       /\ lock.owners[t] = held[t].r
       /\ held[t].w = IF lock.writer = t THEN WriteDepth(lock) ELSE 0

\* those_waiting counts exactly the callers inside a slow path, and the deques
\* hold, each once, the waiters of those not yet released (a cancelled future
\* may stay until its task runs or a notify pops it): a waiter that a timeout
\* or a cancellation left behind would swallow a later notify.
QueuesAgree ==
  \A k \in Kind :
    LET queued == {lock.queue[k][i] : i \in 1 .. Len(lock.queue[k])}
    IN  /\ lock.waiting[k] = {t \in Caller : call[t] = k}
        /\ queued \subseteq lock.waiting[k] \ lock.woken
        /\ lock.waiting[k] \ (lock.woken \cup lock.cancelled) \subseteq queued
        /\ Len(lock.queue[k]) = Cardinality(queued)

\* No wakeup is lost: when a parked caller could have the lock now, some caller
\* is awake, that is, has been released or has to give up, and will pass the
\* wakeup on.  Each release, abort and downgrade of mixins.py notifies for this.
WakeupKept(awake) ==
  (\E t \in Caller \ awake : call[t] \in Kind /\ CanAcquire(lock, call[t], t))
    => awake # {}

\* A readers' turn does not outlive its readers: somebody holds or waits who
\* will end it.  In the fair policy the slots still pending are exactly the
\* reserved waits that are not over: one too many would shut the writers out
\* for ever, one too few would end the phase before its readers are in.
PhaseAgrees ==
  /\ lock.turn => lock.active > 0 \/ lock.waiting["read"] # {}
  /\ lock.reserved \subseteq lock.waiting["read"]
  /\ lock.pending = Cardinality(lock.reserved)

\* The single downgrade marker routes write.release() right, though each write
\* acquire clears it, the thread classes outside the mutex: it names the caller
\* as long as its downgraded hold lasts, and no caller inside a write section.
MarkerRoutes ==
  \A t \in Caller :
    /\ t \in downgraded => marker = t /\ held[t].r > 0 /\ held[t].w = 0
    /\ call[t] = "marker" => held[t].w > 0
    /\ held[t].w > 0 => call[t] = "marker" \/ marker # t

\* The classes that let no caller of the kind starve: the write-preferring ones
\* do not promise it to readers, the read-preferring and the phase ones not to
\* writers.
ServesReaders == lock.policy # "write"
ServesWriters == lock.policy \in {"write", "fair"}

\* When a caller waits for the write lock, it leaves the wait or some writer gets
\* in, however many readers come and go.  (Which of two writers gets in is not
\* promised: one may take the fast path before a woken one has run.)
WritersServed ==
  \A t \in Writers :
    ServesWriters /\ call[t] = "write" ~> call[t] # "write" \/ lock.writer # None

=============================================================================

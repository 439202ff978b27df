---------------------------- MODULE ThreadRWLock ----------------------------
(***************************************************************************)
(* The thread RWLock classes: RWLockProxy.acquire and ThreadWaitQueue.wait *)
(* run by several threads.  An action is what one thread does between      *)
(* taking the lock's mutex and giving it back, plus the two things that    *)
(* happen outside it: a timed wait expires, and a write acquire clears the *)
(* downgrade marker on its way out.                                        *)
(***************************************************************************)
EXTENDS LockClients

CONSTANTS TimedCallers,  \* threads that also acquire with a timeout
          Interruptible  \* threads that a signal handler may raise in

ASSUME ThreadAssumption == TimedCallers \cup Interruptible \subseteq Caller

VARIABLE deadline  \* whether t's acquire has a deadline, ahead or passed

vars == <<clientVars, deadline>>

Deadline == {"none", "ahead", "passed"}

TypeOK == ClientTypeOK /\ deadline \in [Caller -> Deadline]

Init == ClientInit /\ deadline = [t \in Caller |-> "none"]

-----------------------------------------------------------------------------
(* acquire.                                                                *)

Granted(t, k) ==
  /\ call' = [call EXCEPT ![t] = IF k = "write" THEN "marker" ELSE "none"]
  /\ deadline' = [deadline EXCEPT ![t] = "none"]
  /\ Gains(t, k)
  /\ UNCHANGED <<marker, downgraded>>

\* The fast path, the same for a blocking and a non-blocking call.
TryAcquire(t, k) ==
  /\ MayAsk(t, k)
  /\ ~Refused(lock, k, t)
  /\ CanAcquire(lock, k, t)
  /\ lock' = AcquireCore(lock, k, t)
  /\ Granted(t, k)

\* The slow path up to the wait: count itself, append a waiter, drop the mutex.
Park(t, k, d) ==
  /\ MayAsk(t, k)
  /\ ~Refused(lock, k, t)
  /\ ~CanAcquire(lock, k, t)
  /\ IF d = "ahead" THEN t \in TimedCallers ELSE ~WaitsForItself(t)
  /\ lock' = Append1(Join(lock, k, t), k, t)
  /\ call' = [call EXCEPT ![t] = k]
  /\ deadline' = [deadline EXCEPT ![t] = d]
  /\ UNCHANGED <<marker, held, downgraded>>

\* A timeout that is over before the first wait: count itself, and abort.
GiveUpAtOnce(t, k) ==
  /\ MayAsk(t, k)
  /\ t \in TimedCallers
  /\ ~Refused(lock, k, t)
  /\ ~CanAcquire(lock, k, t)
  /\ lock' = OnAbort(Leave(Join(lock, k, t), k, t), k, t)
  /\ UNCHANGED <<marker, call, deadline, held, downgraded>>

\* Time goes by, with the thread parked, or woken and not running yet.
Expire(t) ==
  /\ call[t] \in Kind
  /\ deadline[t] = "ahead"
  /\ deadline' = [deadline EXCEPT ![t] = "passed"]
  /\ UNCHANGED clientVars

\* The waiter was released, or its acquire(timeout) returned False.
Awake(t) ==
  /\ call[t] \in Kind
  /\ t \in lock.woken \/ deadline[t] = "passed"

\* Mutant: an expired waiter stays in the deque.
WaiterLeftBehind(t) == [lock EXCEPT !.woken = @ \ {t}]

\* wait() has the mutex again: an expired waiter may still be in the deque.
Retaken(t) ==
  Discard([lock EXCEPT !.woken = @ \ {t}], call[t], t)

\* Acquire on behalf of t, still counted in those_waiting, then uncount it.
ResumeAcquire(t) ==
  /\ Awake(t)
  /\ CanAcquire(Retaken(t), call[t], t)
  /\ lock' = Leave(AcquireCore(Retaken(t), call[t], t), call[t], t)
  /\ Granted(t, call[t])

ResumePark(t) ==
  /\ Awake(t)
  /\ ~CanAcquire(Retaken(t), call[t], t)
  /\ deadline[t] # "passed"
  /\ lock' = Append1(Retaken(t), call[t], t)
  /\ UNCHANGED <<marker, call, deadline, held, downgraded>>

\* The finally clause of acquire, without the lock.
Abort(t) ==
  /\ lock' = OnAbort(Leave(Retaken(t), call[t], t), call[t], t)
  /\ call' = [call EXCEPT ![t] = "none"]
  /\ deadline' = [deadline EXCEPT ![t] = "none"]
  /\ UNCHANGED <<marker, held, downgraded>>

ResumeAbort(t) ==
  /\ Awake(t)
  /\ ~CanAcquire(Retaken(t), call[t], t)
  /\ deadline[t] = "passed"
  /\ Abort(t)

\* An exception leaves waiter.acquire(), parked or already woken: wait() takes
\* the mutex again and acquire aborts without another look at the lock.
Interrupt(t) ==
  /\ call[t] \in Kind
  /\ t \in Interruptible
  /\ Abort(t)

\* Mutant: the write acquire leaves the marker as it is.
MarkerNotCleared(t) ==
  /\ call[t] = "marker"
  /\ call' = [call EXCEPT ![t] = "none"]
  /\ UNCHANGED <<lock, marker, deadline, held, downgraded>>

\* RWLockWriterProxy.acquire, after super().acquire() gave back the mutex.
ClearMarker(t) ==
  /\ call[t] = "marker"
  /\ marker' = None
  /\ call' = [call EXCEPT ![t] = "none"]
  /\ UNCHANGED <<lock, deadline, held, downgraded>>

-----------------------------------------------------------------------------
(* release and downgrade.                                                  *)

ReadRelease(t) == EndRead(t) /\ UNCHANGED deadline

WriteRelease(t) ==
  /\ EndDowngraded(t) \/ EndWrite(t) \/ EndRefused(t)
  /\ UNCHANGED deadline

Downgrade(t) == WriteToRead(t) /\ UNCHANGED deadline

-----------------------------------------------------------------------------

Acquiring(t, k) ==
  \/ TryAcquire(t, k)
  \/ \E d \in {"none", "ahead"} : Park(t, k, d)
  \/ GiveUpAtOnce(t, k)

Resume(t) == ResumeAcquire(t) \/ ResumePark(t) \/ ResumeAbort(t)

Next ==
  \E t \in Caller :
    \/ \E k \in Kind : Acquiring(t, k)
    \/ Expire(t)
    \/ Resume(t)
    \/ Interrupt(t)
    \/ ClearMarker(t)
    \/ ReadRelease(t)
    \/ WriteRelease(t)
    \/ Downgrade(t)

Spec == Init /\ [][Next]_vars

-----------------------------------------------------------------------------

\* No wakeup is lost (WakeupKept), though a timed-out or interrupted thread may
\* have used up the notify that another one needed: _on_reader_abort and
\* _on_writer_abort pass it on.
NoLostWakeup == WakeupKept({t \in Caller : Awake(t)})

\* A thread that waits for the read lock gets in, or gives up: writers may come
\* and go, but each write release (and each writer that gives up) notifies the
\* waiting readers, and _can_write keeps every writer out until they are in.
ReadersServed ==
  \A t \in Readers : ServesReaders /\ call[t] = "read" ~> call[t] # "read"

=============================================================================

---------------------------- MODULE AsyncRWLock ----------------------------
(***************************************************************************)
(* The asyncio RWLock classes: AsyncRWLockProxy.acquire and                *)
(* AsyncWaitQueue.wait run by the tasks of one event loop.  An action is   *)
(* what one task does between two awaits that suspend it.  There is no     *)
(* mutex and no timeout: a task that waits gives up when it is cancelled,  *)
(* which marks its future at once and reaches its coroutine later.         *)
(***************************************************************************)
EXTENDS LockClients

CONSTANT Cancellable  \* tasks that may be cancelled while they wait

ASSUME TaskAssumption == Cancellable \subseteq Caller

VARIABLE dying  \* tasks whose next step raises CancelledError in acquire

vars == <<clientVars, dying>>

TypeOK == ClientTypeOK /\ dying \subseteq Caller

Init == ClientInit /\ dying = {}

-----------------------------------------------------------------------------
(* acquire.                                                                *)

\* Mutant: the write acquire leaves the marker as it is.
GrantedKeepingMarker(t, k) ==
  /\ call' = [call EXCEPT ![t] = "none"]
  /\ Gains(t, k)
  /\ UNCHANGED <<marker, downgraded>>

\* No await lies between the grant and the end of the writer proxy's acquire,
\* which clears the marker.
Granted(t, k) ==
  /\ call' = [call EXCEPT ![t] = "none"]
  /\ marker' = IF k = "write" THEN None ELSE marker
  /\ Gains(t, k)
  /\ UNCHANGED downgraded

\* acquire() called on the lock as it is in s: the fast path, the same for a
\* blocking and a non-blocking call.
Enter(s, t, k) ==
  /\ ~Refused(s, k, t)
  /\ CanAcquire(s, k, t)
  /\ lock' = AcquireCore(s, k, t)
  /\ Granted(t, k)

\* The slow path up to the first await: count itself, append a future.
Queue(s, t, k) ==
  /\ ~Refused(s, k, t)
  /\ ~CanAcquire(s, k, t)
  /\ lock' = Append1(Join(s, k, t), k, t)
  /\ call' = [call EXCEPT ![t] = k]
  /\ UNCHANGED <<marker, held, downgraded>>

TryAcquire(t, k) == MayAsk(t, k) /\ Enter(lock, t, k) /\ UNCHANGED dying

Park(t, k) ==
  /\ MayAsk(t, k)
  /\ t \in Cancellable \/ ~WaitsForItself(t)
  /\ Queue(lock, t, k)
  /\ UNCHANGED dying

\* task.cancel(): a pending future is done now, and stays in the deque; one that
\* a notify has set already is let be, and the task will raise all the same.
Cancel(t) ==
  /\ call[t] \in Kind
  /\ t \in Cancellable \ dying
  /\ lock' = IF t \in lock.woken THEN lock ELSE [lock EXCEPT !.cancelled = @ \cup {t}]
  /\ dying' = dying \cup {t}
  /\ UNCHANGED <<marker, call, held, downgraded>>

\* The event loop has the task in its ready queue.
Awake(t) == call[t] \in Kind /\ (t \in lock.woken \/ t \in dying)

\* The await returned: the notify has popped the future already.
Woken(t) == [lock EXCEPT !.woken = @ \ {t}]

\* Acquire on behalf of t, still counted in those_waiting, then uncount it.
ResumeAcquire(t) ==
  /\ Awake(t)
  /\ t \notin dying
  /\ CanAcquire(Woken(t), call[t], t)
  /\ lock' = Leave(AcquireCore(Woken(t), call[t], t), call[t], t)
  /\ Granted(t, call[t])
  /\ UNCHANGED dying

ResumePark(t) ==
  /\ Awake(t)
  /\ t \notin dying
  /\ ~CanAcquire(Woken(t), call[t], t)
  /\ lock' = Append1(Woken(t), call[t], t)
  /\ UNCHANGED <<marker, call, held, downgraded, dying>>

\* Mutant: the future of a cancelled task stays in the deque.
FutureLeftBehind(t) ==
  [lock EXCEPT !.woken = @ \ {t}, !.cancelled = @ \ {t}]

\* The await raised: wait() takes the future out, if no notify did.
Raised(t) ==
  Discard([lock EXCEPT !.woken = @ \ {t}, !.cancelled = @ \ {t}], call[t], t)

\* The finally clause of acquire, without the lock: pass on a wakeup that the
\* cancelled task may have used up.
Aborted(t) == OnAbort(Leave(Raised(t), call[t], t), call[t], t)

\* Mutant: a task that was notified before it was cancelled tells nobody.
AbortUnnotified(t) ==
  /\ Awake(t)
  /\ t \in dying
  /\ lock' = IF t \in lock.woken THEN Leave(Raised(t), call[t], t) ELSE Aborted(t)
  /\ call' = [call EXCEPT ![t] = "none"]
  /\ dying' = dying \ {t}
  /\ UNCHANGED <<marker, held, downgraded>>

ResumeAbort(t) ==
  /\ Awake(t)
  /\ t \in dying
  /\ lock' = Aborted(t)
  /\ call' = [call EXCEPT ![t] = "none"]
  /\ dying' = dying \ {t}
  /\ UNCHANGED <<marker, held, downgraded>>

-----------------------------------------------------------------------------
(* release and downgrade.                                                  *)

ReadRelease(t) == EndRead(t) /\ UNCHANGED dying

WriteRelease(t) ==
  /\ EndDowngraded(t) \/ EndWrite(t) \/ EndRefused(t)
  /\ UNCHANGED dying

Downgrade(t) == WriteToRead(t) /\ UNCHANGED dying

-----------------------------------------------------------------------------

Acquiring(t, k) == TryAcquire(t, k) \/ Park(t, k)

Resume(t) == ResumeAcquire(t) \/ ResumePark(t) \/ ResumeAbort(t)

Next ==
  \E t \in Caller :
    \/ \E k \in Kind : Acquiring(t, k)
    \/ Cancel(t)
    \/ Resume(t)
    \/ ReadRelease(t)
    \/ WriteRelease(t)
    \/ Downgrade(t)

Spec == Init /\ [][Next]_vars

-----------------------------------------------------------------------------

\* No wakeup is lost (WakeupKept), though a notify may find only futures that
\* are cancelled, or release a task that is cancelled before it runs.
NoLostWakeup == WakeupKept({t \in Caller : Awake(t)})

\* A task that waits for the read lock gets in, or is cancelled: writers may come
\* and go, but each write release (and each writer that gives up) notifies the
\* waiting readers, and _can_write keeps every writer out until they are in.
ReadersServed ==
  \A t \in Readers :
    ServesReaders /\ call[t] = "read" ~> call[t] # "read" \/ t \in dying

=============================================================================

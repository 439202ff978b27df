-------------------------- MODULE AsyncRWCondition --------------------------
(***************************************************************************)
(* AsyncRWCondition over an asyncio RWLock.  wait() enqueues a future and  *)
(* releases the lock before its first await.  Back from that await, with a *)
(* result or cancelled, it acquires the lock again, and starts the acquire *)
(* afresh each time a cancellation ends it: CancelledError leaves wait()   *)
(* only when the lock is held.                                             *)
(***************************************************************************)
EXTENDS AsyncRWLock, ConditionClients

sleepVars == <<cond, at, mode>>

condVars == <<vars, sleepVars>>

CondTypeOK == TypeOK /\ ConditionTypeOK

CondInit == Init /\ ConditionInit

-----------------------------------------------------------------------------
(* wait, up to its first await.                                            *)

\* The checks, add_waiter(), and release() through the proxy.
EnterWait(t, k) ==
  /\ CallsWait(t, k)
  /\ cond' = AddWaiter(cond, t)
  /\ IF k = "read"
     THEN ReleaseRead(t) /\ UNCHANGED downgraded
     ELSE EndDowngraded(t) \/ EndWrite(t)
  /\ at' = [at EXCEPT ![t] = "parked"]
  /\ mode' = [mode EXCEPT ![t] = k]
  /\ UNCHANGED dying

\* task.cancel() at that await: as in Cancel, with the condition's deque.
CancelWait(t) ==
  /\ at[t] = "parked"
  /\ t \in Cancellable \ dying
  /\ cond' = IF t \in cond.woken THEN cond ELSE [cond EXCEPT !.cancelled = @ \cup {t}]
  /\ dying' = dying \cup {t}
  /\ UNCHANGED <<clientVars, at, mode>>

-----------------------------------------------------------------------------
(* wait, from the end of an await to the next one or to its return.        *)

Ready(t) == at[t] = "parked" /\ (t \in cond.woken \/ t \in dying)

\* The except clause takes a cancelled future out of the deque.
Cleaned(t) ==
  IF t \in dying
  THEN RemoveWaiter([cond EXCEPT !.cancelled = @ \ {t}], t)
  ELSE cond

Returns(t, c) ==
  /\ cond' = [c EXCEPT !.woken = @ \ {t}]
  /\ at' = [at EXCEPT ![t] = "out"]
  /\ mode' = [mode EXCEPT ![t] = "read"]

\* The acquire() of the finally clause finds the lock free, or queues up.
RegainAtOnce(t) ==
  /\ Ready(t)
  /\ Enter(lock, t, mode[t])
  /\ Returns(t, Cleaned(t))
  /\ dying' = dying \ {t}

StartRegain(t) ==
  /\ Ready(t)
  /\ Queue(lock, t, mode[t])
  /\ cond' = Cleaned(t)
  /\ at' = [at EXCEPT ![t] = "regaining"]
  /\ dying' = dying \ {t}
  /\ UNCHANGED mode

FinishRegain(t) ==
  /\ at[t] = "regaining"
  /\ ResumeAcquire(t)
  /\ Returns(t, cond)

\* Mutant: a cancellation during the acquire leaves wait() without the lock.
RegainAbandoned(t) ==
  /\ at[t] = "regaining"
  /\ ResumeAbort(t)
  /\ Returns(t, cond)

\* A cancellation ends the acquire, and the loop calls acquire() again, before
\* any other task runs.
RegainAgain(t) ==
  /\ at[t] = "regaining"
  /\ Awake(t)
  /\ t \in dying
  /\ \/ Enter(Aborted(t), t, mode[t]) /\ Returns(t, cond)
     \/ Queue(Aborted(t), t, mode[t]) /\ UNCHANGED sleepVars
  /\ dying' = dying \ {t}

-----------------------------------------------------------------------------

CallNotify(t, k) == NotifyWaiters(t, k) /\ UNCHANGED dying

\* The lock, used outside of wait() or by its reacquire.
LockStep(t) ==
  /\ \/ /\ at[t] = "out"
        /\ \/ \E k \in Kind : Acquiring(t, k)
           \/ Resume(t)
           \/ ReadRelease(t)
           \/ WriteRelease(t)
           \/ Downgrade(t)
     \/ Cancel(t)
     \/ at[t] = "regaining" /\ ResumePark(t)
  /\ UNCHANGED sleepVars

\* What the event loop runs by itself, once a task in wait() is ready.
Regaining(t) ==
  RegainAtOnce(t) \/ StartRegain(t) \/ FinishRegain(t) \/ RegainAgain(t)

CondNext ==
  \E t \in Caller :
    \/ LockStep(t)
    \/ \E k \in Kind : EnterWait(t, k) \/ CallNotify(t, k)
    \/ CancelWait(t)
    \/ Regaining(t)

CondSpec == CondInit /\ [][CondNext]_condVars

\* The event loop runs every task in its ready queue.  A section ends: a holder
\* releases at last, though it may make other calls meanwhile (strong fairness).
\* A task that waits for its own hold has a timeout that cancels it.  Nothing else
\* obliges a task to be cancelled, to ask for the lock, to downgrade, to wait or to
\* notify.
CondFairness ==
  \A t \in Caller :
    /\ WF_condVars(Regaining(t) \/ (LockStep(t) /\ (Resume(t) \/ ResumePark(t))))
    /\ SF_condVars(LockStep(t) /\ ReadRelease(t))
    /\ SF_condVars(LockStep(t) /\ WriteRelease(t))
    /\ WF_condVars(WaitsForItself(t) /\ LockStep(t) /\ Cancel(t))

FairCondSpec == CondSpec /\ CondFairness

-----------------------------------------------------------------------------

WaitOutside ==
  [t \in Caller |->
     IF at[t] = "out"
     THEN [stage |-> "out", kind |-> "read", limited |-> FALSE]
     ELSE [stage |-> Stage(t), kind |-> mode[t], limited |-> t \in Cancellable]]

Outside == INSTANCE ReadWriteCondition WITH
  Fallible <- {},
  Nobody <- None,
  held <- HeldOutside,
  line <- Line,
  told <- cond.woken,
  wait <- WaitOutside

\* "The exception is propagated only after the lock is safely re-acquired", and
\* tasks "that have already been cancelled are ignored and do not count" for
\* notify: seen from outside, wait() releases and enqueues in one step, a notify
\* reaches the waiters at the head of the line, and a wait returns with the lock
\* held as it was, by a notify or a cancellation.
RefinesCondition == Outside!Spec

\* A reader's wait that was notified, or cancelled, returns or raises: the lock is
\* had again however many writers come and go, unless another cancellation ends
\* the acquire in between and makes it start afresh.
NotifiedReturn ==
  \A t \in Waiters \cap Readers :
    (ServesReaders /\ mode[t] = "read" /\ (Ready(t) \/ at[t] = "regaining"))
      ~> (at[t] = "out" \/ (at[t] = "regaining" /\ t \in dying))

=============================================================================

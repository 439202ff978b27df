------------------------- MODULE ThreadRWCondition -------------------------
(***************************************************************************)
(* RWCondition over a thread RWLock.  wait() is no critical section: it    *)
(* enqueues a waiter, releases the lock through its proxy, sleeps, and     *)
(* acquires the lock again, and other threads run between all of these.    *)
(* Every step that touches the lock is a step of ThreadRWLock.             *)
(***************************************************************************)
EXTENDS ThreadRWLock, ConditionClients

CONSTANT MaxAbandoned  \* bound on the waiters that failed waits leave behind

ASSUME AbandonAssumption == MaxAbandoned \in Nat

VARIABLES
  got,   \* threads whose waiter.acquire() in wait() returned True
  limit  \* whether t's wait() has a timeout, ahead or passed

sleepVars == <<cond, at, mode, got, limit>>

condVars == <<vars, sleepVars>>

CondTypeOK ==
  /\ TypeOK
  /\ ConditionTypeOK
  /\ got \subseteq Caller
  /\ limit \in [Caller -> Deadline]

CondInit ==
  /\ Init
  /\ ConditionInit
  /\ got = {}
  /\ limit = [t \in Caller |-> "none"]

-----------------------------------------------------------------------------
(* wait.                                                                   *)

\* The checks, and add_waiter().  Nothing of the lock is read that another
\* thread could change meanwhile.
EnterWait(t, k, d) ==
  /\ CallsWait(t, k)
  /\ cond' = AddWaiter(cond, t)
  /\ at' = [at EXCEPT ![t] = "entering"]
  /\ mode' = [mode EXCEPT ![t] = k]
  /\ limit' = [limit EXCEPT ![t] = d]
  /\ UNCHANGED <<vars, got>>

\* release() through the proxy.  A block that was downgraded stays one: its end
\* is still to call write.release().
LetGo(t) ==
  /\ at[t] = "entering"
  /\ IF mode[t] = "read"
     THEN ReleaseRead(t) /\ UNCHANGED <<downgraded, deadline>>
     ELSE (EndDowngraded(t) \/ EndWrite(t)) /\ UNCHANGED deadline
  /\ at' = [at EXCEPT ![t] = "parked"]
  /\ UNCHANGED <<cond, mode, got, limit>>

PassLimit(t) ==
  /\ at[t] = "parked"
  /\ limit[t] = "ahead"
  /\ limit' = [limit EXCEPT ![t] = "passed"]
  /\ UNCHANGED <<vars, cond, at, mode, got>>

\* waiter.acquire() returned True.
WakeUp(t) ==
  /\ at[t] = "parked"
  /\ t \in cond.woken
  /\ got' = got \cup {t}
  /\ at' = [at EXCEPT ![t] = "regaining"]
  /\ UNCHANGED <<vars, cond, mode, limit>>

\* It returned False, or raised.  The waiter stays in the deque for now.
TimeOut(t) ==
  /\ at[t] = "parked"
  /\ limit[t] = "passed" \/ t \in Interruptible
  /\ at' = [at EXCEPT ![t] = "regaining"]
  /\ UNCHANGED <<vars, cond, mode, got, limit>>

\* The acquire() of the finally clause, on the lock's fast or slow path.
Regain(t) ==
  /\ at[t] = "regaining"
  /\ ~Holds(t)
  /\ TryAcquire(t, mode[t]) \/ Park(t, mode[t], "none")
  /\ UNCHANGED sleepVars

\* Mutant: an expired waiter stays in the deque.
LeaveKeepingWaiter(t) ==
  /\ at[t] = "regaining"
  /\ Idle(t)
  /\ Holds(t)
  /\ cond' = [cond EXCEPT !.woken = @ \ {t}]
  /\ at' = [at EXCEPT ![t] = "out"]
  /\ mode' = [mode EXCEPT ![t] = "read"]
  /\ got' = got \ {t}
  /\ limit' = [limit EXCEPT ![t] = "none"]
  /\ UNCHANGED vars

\* With the lock again, wait() takes out a waiter that was not notified in time
\* (it may have been notified since), and returns.
LeaveWait(t) ==
  /\ at[t] = "regaining"
  /\ Idle(t)
  /\ Holds(t)
  /\ LET gone == [cond EXCEPT !.woken = @ \ {t}]
     IN  cond' = IF t \in got THEN gone ELSE RemoveWaiter(gone, t)
  /\ at' = [at EXCEPT ![t] = "out"]
  /\ mode' = [mode EXCEPT ![t] = "read"]
  /\ got' = got \ {t}
  /\ limit' = [limit EXCEPT ![t] = "none"]
  /\ UNCHANGED vars

\* An exception ends the reacquire while it waits for the lock: wait() raises
\* without the lock, and does not come to take its waiter out.  The waiter stays
\* locked in the deque, where a notify pops it and counts it.
FailRegain(t) ==
  /\ at[t] = "regaining"
  /\ Interrupt(t)
  /\ LET q == cond.queue
     IN  /\ Cardinality({i \in 1 .. Len(q) : q[i] \in {t, None}}) <= MaxAbandoned
         /\ cond' = [cond EXCEPT
              !.queue = [i \in 1 .. Len(q) |-> IF q[i] = t THEN None ELSE q[i]],
              !.woken = @ \ {t}]
  /\ at' = [at EXCEPT ![t] = "out"]
  /\ mode' = [mode EXCEPT ![t] = "read"]
  /\ got' = got \ {t}
  /\ limit' = [limit EXCEPT ![t] = "none"]

CallNotify(t, k) == NotifyWaiters(t, k) /\ UNCHANGED <<deadline, got, limit>>

-----------------------------------------------------------------------------

\* The lock, used outside of wait() or by its reacquire.
LockStep(t) ==
  /\ \/ /\ at[t] = "out"
        /\ \/ \E k \in Kind : Acquiring(t, k)
           \/ Interrupt(t)
           \/ ReadRelease(t)
           \/ WriteRelease(t)
           \/ Downgrade(t)
     \/ Expire(t)
     \/ Resume(t)
     \/ ClearMarker(t)
  /\ UNCHANGED sleepVars

Waiting(t) ==
  \/ LetGo(t)
  \/ WakeUp(t)
  \/ TimeOut(t)
  \/ Regain(t)
  \/ LeaveWait(t)

CondNext ==
  \E t \in Caller :
    \/ LockStep(t)
    \/ \E k \in Kind, d \in {"none", "ahead"} :
         (d = "ahead" => t \in TimedCallers) /\ EnterWait(t, k, d)
    \/ PassLimit(t)
    \/ Waiting(t)
    \/ FailRegain(t)
    \/ \E k \in Kind : CallNotify(t, k)

CondSpec == CondInit /\ [][CondNext]_condVars

\* Python runs every thread that can run, and time passes.  A section ends: a
\* holder releases at last, though it may make other calls meanwhile (strong
\* fairness).  Nothing obliges a thread to ask for the lock, to downgrade, to wait
\* or to notify.
CondFairness ==
  \A t \in Caller :
    /\ WF_condVars(Waiting(t) \/ (LockStep(t) /\ (Resume(t) \/ ClearMarker(t))))
    /\ WF_condVars(PassLimit(t) \/ (LockStep(t) /\ Expire(t)))
    /\ SF_condVars(LockStep(t) /\ ReadRelease(t))
    /\ SF_condVars(LockStep(t) /\ WriteRelease(t))

FairCondSpec == CondSpec /\ CondFairness

-----------------------------------------------------------------------------

Limited(t) == limit[t] # "none" \/ t \in Interruptible

WaitOutside == [t \in Caller |->
  IF at[t] = "out"
  THEN [stage |-> "out", kind |-> "read", limited |-> FALSE]
  ELSE [stage |-> Stage(t), kind |-> mode[t], limited |-> Limited(t)]]

Outside == INSTANCE ReadWriteCondition WITH
  Fallible <- Interruptible,
  Nobody <- None,
  held <- HeldOutside,
  line <- cond.queue,
  told <- cond.woken,
  wait <- WaitOutside

\* Seen from outside, wait() releases and enqueues in one step, a notify reaches
\* the waiters at the head of the line, and a wait returns with the lock held as
\* it was, by a notify or by its timeout, leaving nothing behind in the deque; only
\* an exception in its reacquire lets it return without the lock, and leaves at most
\* its own waiter behind.
RefinesCondition == Outside!Spec

\* Whatever the condition does to its lock, the lock's own callers may do: all
\* that holds of ThreadRWLock holds of the lock of a condition.
UsesLock == Spec

\* A reader's wait that was notified, or whose timeout has passed, returns: the
\* lock is had again however many writers come and go.
NotifiedReturn ==
  \A t \in Waiters \cap Readers :
    (/\ ServesReaders
     /\ at[t] # "out"
     /\ mode[t] = "read"
     /\ t \in cond.woken \/ limit[t] = "passed")
      ~> at[t] = "out"

=============================================================================

----------------------- MODULE AsyncRWConditionProofs -----------------------
(***************************************************************************)
(* The asyncio RWLock classes and their condition, for every set of tasks, *)
(* all eight classes and every bound, cancellation included.               *)
(*                                                                         *)
(* First the lock alone keeps what the thread classes keep.  Then the lock *)
(* of an RWCondition does, whatever is notified and cancelled, as long as  *)
(* no block waits after it has downgraded.  A cancelled reacquire aborts   *)
(* and queues up again in one step, which is no step of the lock's own     *)
(* callers, so this needs more than that they may do what wait() does.     *)
(* Last, the condition implements the abstract one, its cancelled waiters  *)
(* and reacquires included.                                                *)
(***************************************************************************)
EXTENDS AsyncRWCondition, ConditionClientsProofs

-----------------------------------------------------------------------------
(* The lock alone.                                                         *)

IInv == ClientInv /\ dying \subseteq Caller

-----------------------------------------------------------------------------
(* The steps of acquire; the others are those of LockClientsProofs.        *)

\* An acquire that succeeds clears the marker if it is a write.
LEMMA GrantedStep ==
  ASSUME ClientInv, NEW t \in Caller, NEW k \in Kind, call[t] \in {"none", k},
         NEW s \in LockRecord, SameHolds(s, lock), CanAcquire(s, k, t),
         lock' \in {AcquireCore(s, k, t), Leave(AcquireCore(s, k, t), k, t)},
         Granted(t, k)
  PROVE  ClientInv' /\ (Promise!AcquireRead(t) \/ Promise!AcquireWrite(t))
<1>1. /\ Gains(t, k) /\ UNCHANGED downgraded
      /\ call' = [call EXCEPT ![t] = "none"]
      /\ marker' = IF k = "write" THEN None ELSE marker
  BY DEF Granted
<1>2. CASE k = "read"
  BY <1>1, <1>2, AcquireStep
<1>3. CASE k = "write"
  BY <1>1, <1>3, AcquireStep
<1> QED
  BY <1>2, <1>3 DEF Kind

\* The fast path.
LEMMA TryAcquireStep ==
  ASSUME ClientInv, NEW t \in Caller, NEW k \in Kind, TryAcquire(t, k)
  PROVE  ClientInv' /\ (Promise!AcquireRead(t) \/ Promise!AcquireWrite(t))
<1>1. /\ CanAcquire(lock, k, t) /\ lock' = AcquireCore(lock, k, t)
      /\ Granted(t, k) /\ call[t] = "none"
  BY DEF TryAcquire, Enter, MayAsk, Idle
<1>2. lock \in LockRecord /\ SameHolds(lock, lock)
  BY DEF ClientInv, ClientTypeOK, SameHolds
<1> QED
  BY <1>1, <1>2, GrantedStep

\* Parking grants nothing.
LEMMA ParkStep ==
  ASSUME ClientInv, NEW t \in Caller, NEW k \in Kind, Park(t, k)
  PROVE  ClientInv' /\ held' = held
<1>1. /\ lock' = Append1(Join(lock, k, t), k, t)
      /\ call' = [call EXCEPT ![t] = k] /\ call[t] = "none"
      /\ UNCHANGED <<marker, held, downgraded>>
  BY DEF Park, Queue, MayAsk, Idle
<1>2. Join(lock, k, t) \in LockRecord /\ SameHolds(Join(lock, k, t), lock)
  BY WaitFrame DEF ClientInv, ClientTypeOK
<1>3. lock' \in LockRecord /\ SameHolds(lock', Join(lock, k, t))
  BY <1>1, <1>2, WaitFrame
<1>4. SameHolds(lock', lock)
  BY <1>2, <1>3, SameHoldsTransitive
<1>5. /\ call' \in [Caller -> Kind \cup {"none", "marker"}]
      /\ \A u \in Caller : call'[u] = "marker" <=> call[u] = "marker"
  BY <1>1 DEF ClientInv, ClientTypeOK, Kind
<1> QED
  BY <1>1, <1>3, <1>4, <1>5, QuietStep

\* Cancelling a waiting task touches its future only.
LEMMA CancelStep ==
  ASSUME ClientInv, NEW t \in Caller, Cancel(t)
  PROVE  ClientInv' /\ held' = held
<1>1. /\ lock' \in {lock, [lock EXCEPT !.cancelled = @ \cup {t}]}
      /\ UNCHANGED <<marker, call, held, downgraded>>
  BY DEF Cancel
<1>2. lock' \in LockRecord /\ SameHolds(lock', lock)
  <2> DEFINE dead == lock.cancelled \cup {t}
  <2>1. lock \in LockRecord /\ SameHolds(lock, lock)
    BY DEF ClientInv, ClientTypeOK, SameHolds
  <2>2. dead \subseteq Caller
    BY <2>1 DEF LockRecord
  <2>3. lock' = lock \/ lock' = [lock EXCEPT !.cancelled = dead]
    BY <1>1, <2>1 DEF LockRecord
  <2> HIDE DEF dead
  <2>4. /\ [lock EXCEPT !.cancelled = dead] \in LockRecord
        /\ SameHolds([lock EXCEPT !.cancelled = dead], lock)
    BY <2>1, <2>2 DEF LockRecord, SameHolds
  <2> QED
    BY <2>1, <2>3, <2>4
<1>3. call' \in [Caller -> Kind \cup {"none", "marker"}]
  BY <1>1 DEF ClientInv, ClientTypeOK
<1> QED
  BY <1>1, <1>2, <1>3, QuietStep

\* Nor does the end of the await touch a hold, returning or raising.
LEMMA AwaitFrame ==
  ASSUME ClientInv, NEW t \in Caller, call[t] \in Kind
  PROVE  /\ Woken(t) \in LockRecord /\ SameHolds(Woken(t), lock)
         /\ Raised(t) \in LockRecord /\ SameHolds(Raised(t), lock)
<1>1. Woken(t) \in LockRecord /\ SameHolds(Woken(t), lock)
  BY DEF Woken, ClientInv, ClientTypeOK, LockRecord, SameHolds
<1> DEFINE s == [lock EXCEPT !.woken = @ \ {t}, !.cancelled = @ \ {t}]
<1>2. s \in LockRecord /\ SameHolds(s, lock)
  BY DEF ClientInv, ClientTypeOK, LockRecord, SameHolds
<1>3. Discard(s, call[t], t) \in LockRecord /\ SameHolds(Discard(s, call[t], t), s)
  BY <1>2, WaitFrame
<1>4. Raised(t) = Discard(s, call[t], t)
  BY DEF Raised
<1> HIDE DEF s
<1> QED
  BY <1>1, <1>2, <1>3, <1>4, SameHoldsTransitive

\* A woken task that finds the lock free gets it.
LEMMA ResumeAcquireStep ==
  ASSUME ClientInv, NEW t \in Caller, ResumeAcquire(t)
  PROVE  ClientInv' /\ (Promise!AcquireRead(t) \/ Promise!AcquireWrite(t))
<1>1. PICK k \in Kind : k = call[t]
  BY DEF ResumeAcquire, Awake
<1>2. /\ CanAcquire(Woken(t), k, t) /\ Granted(t, k)
      /\ lock' = Leave(AcquireCore(Woken(t), k, t), k, t)
  BY <1>1 DEF ResumeAcquire
<1>3. Woken(t) \in LockRecord /\ SameHolds(Woken(t), lock)
  BY <1>1, AwaitFrame
<1> QED
  BY <1>1, <1>2, <1>3, GrantedStep

\* A woken task that finds the lock taken parks again.
LEMMA ResumeParkStep ==
  ASSUME ClientInv, NEW t \in Caller, ResumePark(t)
  PROVE  ClientInv' /\ held' = held
<1>1. /\ call[t] \in Kind /\ lock' = Append1(Woken(t), call[t], t)
      /\ UNCHANGED <<marker, call, held, downgraded>>
  BY DEF ResumePark, Awake
<1>2. Woken(t) \in LockRecord /\ SameHolds(Woken(t), lock)
  BY <1>1, AwaitFrame
<1>3. lock' \in LockRecord /\ SameHolds(lock', Woken(t))
  BY <1>1, <1>2, WaitFrame
<1>4. SameHolds(lock', lock)
  BY <1>2, <1>3, SameHoldsTransitive
<1>5. call' \in [Caller -> Kind \cup {"none", "marker"}]
  BY <1>1 DEF ClientInv, ClientTypeOK
<1> QED
  BY <1>1, <1>3, <1>4, <1>5, QuietStep

\* A cancelled task leaves without the lock.
LEMMA ResumeAbortStep ==
  ASSUME ClientInv, NEW t \in Caller, ResumeAbort(t)
  PROVE  ClientInv' /\ held' = held
<1>1. /\ lock' = OnAbort(Leave(Raised(t), call[t], t), call[t], t)
      /\ call[t] \in Kind /\ call' = [call EXCEPT ![t] = "none"]
      /\ UNCHANGED <<marker, held, downgraded>>
  BY DEF ResumeAbort, Aborted, Awake
<1>2. Raised(t) \in LockRecord /\ SameHolds(Raised(t), lock)
  BY <1>1, AwaitFrame
<1>3. lock' \in LockRecord /\ SameHolds(lock', Raised(t))
  BY <1>1, <1>2, AbortEffect
<1>4. SameHolds(lock', lock)
  BY <1>2, <1>3, SameHoldsTransitive
<1>5. /\ call' \in [Caller -> Kind \cup {"none", "marker"}]
      /\ \A u \in Caller : call'[u] = "marker" <=> call[u] = "marker"
  BY <1>1 DEF ClientInv, ClientTypeOK, Kind
<1> QED
  BY <1>1, <1>3, <1>4, <1>5, QuietStep

-----------------------------------------------------------------------------
(* All steps.                                                              *)

\* Only tasks are ever dying.
LEMMA DyingType ==
  ASSUME IInv, Next
  PROVE  dying' \subseteq Caller
BY DEF IInv, Next, Acquiring, TryAcquire, Enter, Park, Queue, Cancel, Resume, ResumeAcquire,
       ResumePark, ResumeAbort, Granted, ReadRelease, WriteRelease, Downgrade

\* Every step keeps the invariant, and is a step of the abstract lock or changes
\* no hold.
LEMMA NextStep ==
  ASSUME IInv, [Next]_vars
  PROVE  IInv' /\ [Promise!Next]_held
<1> DEFINE Good == ClientInv' /\ [Promise!Next]_held
<1> USE DEF IInv
<1>1. ASSUME NEW t \in Caller, NEW k \in Kind, Acquiring(t, k) PROVE Good
  <2>1. CASE TryAcquire(t, k)
    BY <2>1, TryAcquireStep DEF Promise!Next
  <2>2. CASE Park(t, k)
    BY <2>2, ParkStep
  <2> QED
    BY <1>1, <2>1, <2>2 DEF Acquiring
<1>2. ASSUME NEW t \in Caller, Cancel(t) PROVE Good
  BY <1>2, CancelStep
<1>3. ASSUME NEW t \in Caller, Resume(t) PROVE Good
  <2>1. CASE ResumeAcquire(t)
    BY <2>1, ResumeAcquireStep DEF Promise!Next
  <2>2. CASE ResumePark(t)
    BY <2>2, ResumeParkStep
  <2>3. CASE ResumeAbort(t)
    BY <2>3, ResumeAbortStep
  <2> QED
    BY <1>3, <2>1, <2>2, <2>3 DEF Resume
<1>4. ASSUME NEW t \in Caller, ReadRelease(t) PROVE Good
  BY <1>4, EndReadStep DEF ReadRelease, Promise!Next
<1>5. ASSUME NEW t \in Caller, WriteRelease(t) PROVE Good
  <2>1. CASE EndDowngraded(t)
    BY <2>1, EndDowngradedStep DEF Promise!Next
  <2>2. CASE EndWrite(t)
    BY <2>2, EndWriteStep DEF Promise!Next
  <2>3. CASE EndRefused(t)
    BY <2>3, EndRefusedStep
  <2> QED
    BY <1>5, <2>1, <2>2, <2>3 DEF WriteRelease
<1>6. ASSUME NEW t \in Caller, Downgrade(t) PROVE Good
  BY <1>6, WriteToReadStep DEF Downgrade, Promise!Next
<1>7. CASE Next
  <2>1. Good
    BY <1>1, <1>2, <1>3, <1>4, <1>5, <1>6, <1>7 DEF Next
  <2> QED
    BY <1>7, <2>1, DyingType
<1>8. CASE UNCHANGED vars
  BY <1>8 DEF vars, clientVars, ClientInv, ClientTypeOK, HoldsAgree, MarkerRoutes,
              DisciplinedLock
<1> QED
  BY <1>7, <1>8

-----------------------------------------------------------------------------
(* The waiting tasks: the queues, the readers' phase and the wakeups.       *)

WaitInv ==
  /\ WaitersCounted
  /\ Kept(lock, dying)
  /\ \A t \in lock.cancelled : call[t] \in Kind

\* The await is over: t is counted and in no queue.
LEMMA AwaitedBusy ==
  ASSUME ClientInv, WaitInv, NEW t \in Caller, NEW k \in Kind, call[t] = k
  PROVE  /\ t \in lock.woken \ dying =>
              /\ Busy(Woken(t), t, k, dying) /\ SameHolds(Woken(t), lock)
              /\ Woken(t).waiting = lock.waiting /\ Woken(t).cancelled = lock.cancelled
         /\ /\ Busy(Raised(t), t, k, dying \ {t}) /\ SameHolds(Raised(t), lock)
            /\ Raised(t).waiting = lock.waiting /\ Raised(t).cancelled = lock.cancelled \ {t}
<1>1. /\ lock \in LockRecord /\ t \in lock.waiting[k] /\ Kept(lock, dying)
      /\ lock.cancelled \subseteq dying /\ lock.cancelled \subseteq Caller
  BY DEF ClientInv, ClientTypeOK, WaitInv, WaitersCounted, Kept, InOrder, LockRecord
<1>2. ASSUME t \in lock.woken \ dying
      PROVE  /\ Busy(Woken(t), t, k, dying) /\ SameHolds(Woken(t), lock)
             /\ Woken(t).waiting = lock.waiting /\ Woken(t).cancelled = lock.cancelled
  <2>1. Woken(t) = Unmarked(lock, t, lock.cancelled)
    BY <1>1 DEF Woken, Unmarked, LockRecord
  <2> QED
    BY <1>1, <1>2, <2>1, WokenBusy
<1>3. /\ Busy(Raised(t), t, k, dying \ {t}) /\ SameHolds(Raised(t), lock)
      /\ Raised(t).waiting = lock.waiting /\ Raised(t).cancelled = lock.cancelled \ {t}
  <2> DEFINE c == lock.cancelled \ {t}
             s == Raised(t)
             E == dying \ {t}
  <2>1. s = Discard(Unmarked(lock, t, c), k, t)
    BY DEF Raised, Unmarked
  <2>2. /\ c \in SUBSET Caller /\ lock.cancelled \subseteq c \cup {t} /\ c \subseteq E
        /\ Kept(lock, dying) /\ dying \ {t} \subseteq E
    BY <1>1
  <2>3. c = lock.cancelled \ {t} /\ E = dying \ {t}
    OBVIOUS
  <2> HIDE DEF c, s, E
  <2>4. LET d == Discard(Unmarked(lock, t, c), k, t)
        IN  Busy(d, t, k, E) /\ SameHolds(d, lock) /\ d.waiting = lock.waiting /\ d.cancelled = c
    BY <1>1, <2>2, RetakeBusy
  <2> QED
    BY <2>1, <2>3, <2>4 DEF s
<1> QED
  BY <1>2, <1>3

\* Every cancelled future is that of a waiting task, when a step of t puts this
\* task into a wait or out of one that was not cancelled.
LEMMA CancelledKept ==
  ASSUME IInv, WaitInv, NEW t \in Caller, t \notin lock.cancelled,
         NEW v \in Kind \cup {"none"}, call' = [call EXCEPT ![t] = v],
         lock'.cancelled = lock.cancelled, WaitersCounted', Kept(lock', dying')
  PROVE  WaitInv'
<1>1. call \in [Caller -> Kind \cup {"none", "marker"}] /\ lock.cancelled \subseteq Caller
  BY DEF IInv, ClientInv, ClientTypeOK, LockRecord
<1> QED
  BY <1>1 DEF WaitInv

\* The fast path.
LEMMA TryAcquireWaits ==
  ASSUME IInv, WaitInv, NEW t \in Caller, NEW k \in Kind, TryAcquire(t, k)
  PROVE  WaitInv'
<1>1. /\ call[t] = "none" /\ CanAcquire(lock, k, t) /\ lock' = AcquireCore(lock, k, t)
      /\ Gains(t, k) /\ call' = [call EXCEPT ![t] = "none"] /\ dying' = dying
  BY DEF TryAcquire, Enter, MayAsk, Idle, Granted
<1>2. ClientInv /\ WaitersCounted /\ Kept(lock, dying) /\ lock.cancelled \subseteq dying
  BY DEF IInv, WaitInv, Kept, InOrder
<1>3. t \notin lock.cancelled
  BY <1>1 DEF WaitInv, Kind
<1>4. WaitersCounted' /\ Kept(lock', dying') /\ lock'.cancelled = lock.cancelled
  BY <1>1, <1>2, ClientEnters
<1> QED
  BY <1>1, <1>3, <1>4, CancelledKept

\* The slow path up to the first await.
LEMMA ParkWaits ==
  ASSUME IInv, WaitInv, NEW t \in Caller, NEW k \in Kind, Park(t, k)
  PROVE  WaitInv'
<1>1. /\ call[t] = "none" /\ ~Refused(lock, k, t) /\ ~CanAcquire(lock, k, t)
      /\ lock' = Append1(Join(lock, k, t), k, t) /\ call' = [call EXCEPT ![t] = k]
      /\ held' = held /\ dying' = dying
  BY DEF Park, Queue, MayAsk, Idle
<1>2. ClientInv /\ WaitersCounted /\ Kept(lock, dying) /\ lock.cancelled \subseteq dying
  BY DEF IInv, WaitInv, Kept, InOrder
<1>3. t \notin lock.cancelled
  BY <1>1 DEF WaitInv, Kind
<1>4. WaitersCounted' /\ Kept(lock', dying') /\ lock'.cancelled = lock.cancelled
  BY <1>1, <1>2, ClientParks
<1> QED
  BY <1>1, <1>3, <1>4, CancelledKept

\* A cancelled future is awake, and may stay in its deque.
LEMMA CancelWaits ==
  ASSUME IInv, WaitInv, NEW t \in Caller, Cancel(t)
  PROVE  WaitInv'
<1>1. /\ lock' = lock \/ lock' = [lock EXCEPT !.cancelled = @ \cup {t}]
      /\ call' = call /\ held' = held /\ dying' = dying \cup {t} /\ call[t] \in Kind
  BY DEF Cancel
<1>2. lock \in LockRecord /\ WaitersCounted /\ Kept(lock, dying)
  BY DEF IInv, WaitInv, ClientInv, ClientTypeOK
<1>3. CASE lock' = lock
  <2>1. Kept(lock', dying')
    BY <1>1, <1>2, <1>3, KeptByMore
  <2> QED
    BY <1>1, <1>2, <1>3, <2>1 DEF WaitInv, WaitersCounted
<1>4. CASE lock' = [lock EXCEPT !.cancelled = @ \cup {t}]
  <2>1. /\ lock' \in LockRecord /\ SameHolds(lock', lock)
        /\ lock'.waiting = lock.waiting /\ lock'.queue = lock.queue
        /\ lock'.woken = lock.woken /\ lock'.cancelled = lock.cancelled \cup {t}
        /\ lock'.turn = lock.turn /\ lock'.pending = lock.pending
        /\ lock'.reserved = lock.reserved
    BY <1>2, <1>4 DEF LockRecord, SameHolds
  <2>2. lock'.policy = lock.policy /\ lock'.active = lock.active /\ lock'.writer = lock.writer
    BY <2>1 DEF SameHolds
  <2>3. Orderly(lock', {})
    BY <1>2, <2>1 DEF Kept, InOrder, Orderly
  <2>4. PhaseCounted(lock', {}) /\ TurnHeld(lock')
    BY <1>2, <2>1, <2>2 DEF Kept, InOrder, PhaseCounted, TurnHeld
  <2>5. lock'.cancelled \subseteq dying'
    BY <1>1, <1>2, <2>1 DEF Kept, InOrder
  <2>6. ReadersKept(lock', lock'.woken \cup dying')
    BY <1>1, <1>2, <2>1, <2>2 DEF Kept, ReadersKept, MayRead
  <2>7. WritersKept(lock', lock'.woken \cup dying')
    BY <1>1, <1>2, <2>1, <2>2 DEF Kept, WritersKept, MayWrite
  <2>8. Kept(lock', dying')
    BY <2>1, <2>3, <2>4, <2>5, <2>6, <2>7 DEF Kept, InOrder
  <2>9. WaitersCounted'
    BY <1>1, <1>2, <2>1, WaitersQuiet DEF WaitersCounted
  <2> QED
    BY <1>1, <2>1, <2>8, <2>9 DEF WaitInv
<1> QED
  BY <1>1, <1>3, <1>4

\* A task that runs again acquires, parks again or raises.
LEMMA ResumeWaits ==
  ASSUME IInv, WaitInv, NEW t \in Caller, Resume(t)
  PROVE  WaitInv'
<1>1. PICK k \in Kind : k = call[t]
  BY DEF Resume, ResumeAcquire, ResumePark, ResumeAbort, Awake
<1>2. ClientInv /\ WaitersCounted
  BY DEF IInv, WaitInv
<1> DEFINE w == Woken(t)
           r == Raised(t)
<1>3. /\ t \in lock.woken \ dying =>
           /\ Busy(w, t, k, dying) /\ SameHolds(w, lock)
           /\ w.waiting = lock.waiting /\ w.cancelled = lock.cancelled
      /\ Busy(r, t, k, dying \ {t}) /\ SameHolds(r, lock)
      /\ r.waiting = lock.waiting /\ r.cancelled = lock.cancelled \ {t}
  BY <1>1, <1>2, AwaitedBusy
<1>4. CASE ResumeAcquire(t)
  <2>1. /\ t \in lock.woken \ dying /\ CanAcquire(w, k, t)
        /\ lock' = Leave(AcquireCore(w, k, t), k, t)
        /\ Gains(t, k) /\ call' = [call EXCEPT ![t] = "none"] /\ dying' = dying
    BY <1>1, <1>4 DEF ResumeAcquire, Awake, Granted
  <2> HIDE DEF w
  <2>2. WaitersCounted' /\ Kept(lock', dying') /\ lock'.cancelled = lock.cancelled
    BY <1>1, <1>2, <1>3, <2>1, ClientResumes
  <2>3. t \notin lock.cancelled
    BY <2>1 DEF WaitInv, Kept, InOrder
  <2> QED
    BY <2>1, <2>2, <2>3, CancelledKept
<1>5. CASE ResumePark(t)
  <2>1. /\ t \in lock.woken \ dying /\ ~CanAcquire(w, k, t)
        /\ lock' = Append1(w, k, t) /\ UNCHANGED <<call, held, dying>>
    BY <1>1, <1>5 DEF ResumePark, Awake
  <2> HIDE DEF w
  <2>2. WaitersCounted' /\ Kept(lock', dying') /\ lock'.cancelled = lock.cancelled
    BY <1>1, <1>2, <1>3, <2>1, ClientParksAgain
  <2> QED
    BY <2>1, <2>2 DEF WaitInv
<1>6. CASE ResumeAbort(t)
  <2>1. /\ lock' = OnAbort(Leave(r, k, t), k, t) /\ call' = [call EXCEPT ![t] = "none"]
        /\ held' = held /\ dying' = dying \ {t}
    BY <1>1, <1>6 DEF ResumeAbort, Aborted
  <2> HIDE DEF r
  <2>2. WaitersCounted' /\ Kept(lock', dying') /\ lock'.cancelled = lock.cancelled \ {t}
    BY <1>1, <1>2, <1>3, <2>1, ClientAborts
  <2>3. call \in [Caller -> Kind \cup {"none", "marker"}] /\ lock.cancelled \subseteq Caller
    BY DEF IInv, ClientInv, ClientTypeOK, LockRecord
  <2> QED
    BY <2>1, <2>2, <2>3 DEF WaitInv
<1> QED
  BY <1>4, <1>5, <1>6 DEF Resume

\* Every step.
LEMMA WaitStep ==
  ASSUME IInv, WaitInv, [Next]_vars
  PROVE  WaitInv'
<1> USE DEF IInv
<1>1. ASSUME NEW t \in Caller, NEW k \in Kind, Acquiring(t, k) PROVE WaitInv'
  BY <1>1, TryAcquireWaits, ParkWaits DEF Acquiring
<1>2. ASSUME NEW t \in Caller, Cancel(t) PROVE WaitInv'
  BY <1>2, CancelWaits
<1>3. ASSUME NEW t \in Caller, Resume(t) PROVE WaitInv'
  BY <1>3, ResumeWaits
<1>4. ASSUME NEW t \in Caller, ReadRelease(t) \/ WriteRelease(t) \/ Downgrade(t)
      PROVE  WaitInv'
  <2>1. /\ dying' = dying
        /\ EndRead(t) \/ EndDowngraded(t) \/ EndWrite(t) \/ EndRefused(t) \/ WriteToRead(t)
    BY <1>4 DEF ReadRelease, WriteRelease, Downgrade
  <2>2. WaitersCounted' /\ Kept(lock', dying) /\ lock'.cancelled = lock.cancelled
    BY <2>1, WaitersRelease DEF WaitInv
  <2>3. call' = call
    BY <2>1 DEF EndRead, ReleaseRead, EndDowngraded, EndWrite, EndRefused, WriteToRead
  <2> QED
    BY <2>1, <2>2, <2>3 DEF WaitInv
<1>5. CASE Next
  BY <1>1, <1>2, <1>3, <1>4, <1>5 DEF Next
<1>6. CASE UNCHANGED vars
  BY <1>6 DEF vars, clientVars, WaitInv, WaitersCounted
<1> QED
  BY <1>5, <1>6

-----------------------------------------------------------------------------
(* The theorems.                                                           *)

\* The inductive invariant, of every behaviour of the classes.
THEOREM AsyncInvariance == ASSUME Disciplined PROVE Spec => []IInv
<1>1. Init => IInv
  BY ClientInitInv DEF Init, IInv
<1>2. IInv /\ [Next]_vars => IInv'
  BY NextStep
<1> QED
  BY <1>1, <1>2, PTL DEF Spec

\* Type correctness, no counter below zero: no cancellation is counted twice.
THEOREM AsyncTypeCorrect == ASSUME Disciplined PROVE Spec => []TypeOK
<1>1. IInv => TypeOK
  BY DEF IInv, ClientInv, TypeOK
<1> QED
  BY <1>1, AsyncInvariance, PTL

\* The attributes of the lock agree with what the tasks hold.
THEOREM AsyncHoldsAlwaysAgree == ASSUME Disciplined PROVE Spec => []HoldsAgree
<1>1. IInv => HoldsAgree
  BY DEF IInv, ClientInv
<1> QED
  BY <1>1, AsyncInvariance, PTL

\* The downgrade marker always routes write.release() to the right core.
THEOREM AsyncMarkerAlwaysRoutes == ASSUME Disciplined PROVE Spec => []MarkerRoutes
<1>1. IInv => MarkerRoutes
  BY DEF IInv, ClientInv
<1> QED
  BY <1>1, AsyncInvariance, PTL

\* A task inside a write section is alone.
THEOREM AsyncExclusion == ASSUME Disciplined PROVE Spec => []MutualExclusion
<1>1. IInv => MutualExclusion
  BY ClientInvExcludes DEF IInv
<1> QED
  BY <1>1, AsyncInvariance, PTL

\* The asyncio classes implement the same abstract lock as the thread classes.
THEOREM AsyncRefinement == ASSUME Disciplined PROVE Spec => RefinesLock
<1>1. Init => Promise!Init
  BY DEF Init, ClientInit, Promise!Init
<1>2. IInv /\ [Next]_vars => [Promise!Next]_held
  BY NextStep
<1> QED
  BY <1>1, <1>2, AsyncInvariance, PTL DEF Spec, RefinesLock, Promise!Spec

\* The waits are in order, in every behaviour of the classes.
THEOREM AsyncWaitInvariance == ASSUME Disciplined PROVE Spec => [](IInv /\ WaitInv)
<1>1. Init => IInv /\ WaitInv
  BY ClientInitInv, WaitersInit DEF Init, IInv, WaitInv
<1>2. IInv /\ WaitInv /\ [Next]_vars => IInv' /\ WaitInv'
  BY NextStep, WaitStep
<1> QED
  BY <1>1, <1>2, PTL DEF Spec

\* What the invariant says of the waits: those awake are the woken and the dying.
LEMMA WaitInvAgrees ==
  ASSUME IInv, WaitInv
  PROVE  QueuesAgree /\ PhaseAgrees /\ NoLostWakeup
<1> DEFINE awake == {t \in Caller : Awake(t)}
<1>1. \A t \in Caller : call[t] \in Kind /\ t \in lock.woken \cup dying => t \in awake
  BY DEF Awake
<1> HIDE DEF awake
<1>2. QueuesAgree /\ PhaseAgrees /\ WakeupKept(awake)
  BY <1>1, WaitersAgree DEF IInv, WaitInv
<1> QED
  BY <1>2 DEF NoLostWakeup, awake

\* Every waiting task is counted once, and its future stands once in the deque
\* until a notify pops it or the cancelled task takes it out.
THEOREM AsyncQueuesAlwaysAgree == ASSUME Disciplined PROVE Spec => []QueuesAgree
BY AsyncWaitInvariance, WaitInvAgrees, PTL

\* The fair classes' phase never outlives its readers, and never loses a slot.
THEOREM AsyncPhaseAlwaysAgrees == ASSUME Disciplined PROVE Spec => []PhaseAgrees
BY AsyncWaitInvariance, WaitInvAgrees, PTL

\* No task sleeps on a lock that it could have, unless another one is in the
\* event loop's ready queue to pass the wakeup on, cancellations included.
THEOREM AsyncWakeupAlwaysKept == ASSUME Disciplined PROVE Spec => []NoLostWakeup
BY AsyncWaitInvariance, WaitInvAgrees, PTL

\* What is more, the waits never form a circle.
LEMMA WaitInvMoves ==
  ASSUME IInv, WaitInv
  PROVE  SomebodyMoves({t \in Caller : Awake(t)})
<1> DEFINE awake == {t \in Caller : Awake(t)}
<1>1. \A t \in Caller : call[t] \in Kind /\ t \in lock.woken \cup dying => t \in awake
  BY DEF Awake
<1> HIDE DEF awake
<1>2. SomebodyMoves(awake)
  BY <1>1, WaitersMove DEF IInv, WaitInv
<1> QED
  BY <1>2 DEF awake

\* The tasks of a lock never all wait for each other, cancellations included.
THEOREM AsyncNoDeadlock ==
  ASSUME Disciplined PROVE Spec => []SomebodyMoves({t \in Caller : Awake(t)})
BY AsyncWaitInvariance, WaitInvMoves, PTL

-----------------------------------------------------------------------------
(* The condition.                                                          *)

\* A task parked in wait() is in no acquire, and one that reacquires is in the one
\* of its proxy; neither has a downgraded hold.
Places ==
  \A t \in Caller :
    /\ at[t] # "out" => t \notin downgraded
    /\ at[t] = "parked" => call[t] = "none"
    /\ at[t] = "regaining" => call[t] = mode[t]

CondInv == IInv /\ ConditionTypeOK /\ Places

\* A legal step of the abstract lock, or one that changes no hold.
Legal == IInv' /\ [Promise!Next]_held

-----------------------------------------------------------------------------
(* Acquiring, from the state s that the caller finds the lock in.          *)

\* The fast path of acquire.
LEMMA EnterEffect ==
  ASSUME ClientInv, NEW t \in Caller, NEW k \in Kind, call[t] \in {"none", k},
         NEW s \in LockRecord, SameHolds(s, lock), Enter(s, t, k)
  PROVE  /\ ClientInv' /\ [Promise!Next]_held /\ downgraded' = downgraded
         /\ call' = [call EXCEPT ![t] = "none"] /\ Gains(t, k)
         /\ Promise!AcquireRead(t) \/ Promise!AcquireWrite(t)
<1>1. CanAcquire(s, k, t) /\ lock' = AcquireCore(s, k, t) /\ Granted(t, k)
  BY DEF Enter
<1>2. ClientInv' /\ (Promise!AcquireRead(t) \/ Promise!AcquireWrite(t))
  BY <1>1, GrantedStep
<1> QED
  BY <1>1, <1>2 DEF Promise!Next, Granted

\* The slow path of acquire, up to its await.
LEMMA QueueEffect ==
  ASSUME ClientInv, NEW t \in Caller, NEW k \in Kind, call[t] \in {"none", k},
         NEW s \in LockRecord, SameHolds(s, lock), Queue(s, t, k)
  PROVE  ClientInv' /\ held' = held /\ downgraded' = downgraded
         /\ call' = [call EXCEPT ![t] = k]
<1>1. /\ lock' = Append1(Join(s, k, t), k, t) /\ call' = [call EXCEPT ![t] = k]
      /\ UNCHANGED <<marker, held, downgraded>>
  BY DEF Queue
<1>2. Join(s, k, t) \in LockRecord /\ SameHolds(Join(s, k, t), s)
  BY WaitFrame
<1>3. lock' \in LockRecord /\ SameHolds(lock', Join(s, k, t))
  BY <1>1, <1>2, WaitFrame
<1>4. SameHolds(lock', lock)
  BY <1>2, <1>3, SameHoldsTransitive
<1>5. /\ call' \in [Caller -> Kind \cup {"none", "marker"}]
      /\ \A u \in Caller : call'[u] = "marker" <=> call[u] = "marker"
  BY <1>1 DEF ClientInv, ClientTypeOK, Kind
<1> QED
  BY <1>1, <1>3, <1>4, <1>5, QuietStep

\* The abort of an acquire grants nothing.
LEMMA AbortedFrame ==
  ASSUME ClientInv, NEW t \in Caller, call[t] \in Kind
  PROVE  Aborted(t) \in LockRecord /\ SameHolds(Aborted(t), lock)
<1>1. Raised(t) \in LockRecord /\ SameHolds(Raised(t), lock)
  BY AwaitFrame
<1>2. Aborted(t) \in LockRecord /\ SameHolds(Aborted(t), Raised(t))
  BY <1>1, AbortEffect DEF Aborted
<1> QED
  BY <1>1, <1>2, SameHoldsTransitive

-----------------------------------------------------------------------------
(* The steps.                                                              *)

\* A step of t disturbs no other caller's place.
LEMMA PlacesKept ==
  ASSUME CondInv, NEW t \in Caller,
         \A u \in Caller \ {t} :
           /\ call'[u] = call[u] /\ at'[u] = at[u] /\ mode'[u] = mode[u]
           /\ u \in downgraded' => u \in downgraded,
         at'[t] # "out" => t \notin downgraded',
         at'[t] = "parked" => call'[t] = "none",
         at'[t] = "regaining" => call'[t] = mode'[t]
  PROVE  Places'
BY DEF CondInv, Places

\* The lock, used outside of wait(), cancelled, or parked in again.
LEMMA LockPart ==
  ASSUME CondInv, NEW t \in Caller, LockStep(t)
  PROVE  CondInv' /\ Legal
<1>1. Next /\ UNCHANGED sleepVars
  BY DEF LockStep, Next, Resume
<1>2. Legal
  BY <1>1, NextStep DEF CondInv, Legal
<1>3. ConditionTypeOK'
  BY <1>1 DEF CondInv, ConditionTypeOK, sleepVars
<1>4. call \in [Caller -> Kind \cup {"none", "marker"}]
  BY DEF CondInv, IInv, ClientInv, ClientTypeOK
<1>5. CASE at[t] = "out"
  <2>1. /\ \A u \in Caller \ {t} : call'[u] = call[u]
        /\ \A u \in Caller \ {t} : u \in downgraded' => u \in downgraded
    BY <1>4 DEF LockStep, Acquiring, TryAcquire, Enter, Park, Queue, Granted, Cancel, Resume,
                ResumeAcquire, ResumePark, ResumeAbort, ReadRelease, EndRead, ReleaseRead,
                WriteRelease, EndDowngraded, EndWrite, EndRefused, Downgrade, WriteToRead
  <2>2. Places'
    BY <1>1, <1>5, <2>1, PlacesKept DEF sleepVars
  <2> QED
    BY <1>2, <1>3, <2>2 DEF CondInv, Legal
<1>6. CASE at[t] # "out"
  <2>1. call' = call /\ downgraded' = downgraded
    BY <1>6 DEF LockStep, Cancel, ResumePark
  <2> QED
    BY <1>1, <1>2, <1>3, <2>1 DEF CondInv, Legal, Places, sleepVars
<1> QED
  BY <1>5, <1>6

\* wait() releases through its proxy: for a task that has not downgraded, the
\* ordinary release.
LEMMA EnterWaitPart ==
  ASSUME CondInv, WaitsAfterDowngrade = {}, NEW t \in Caller, NEW k \in Kind,
         EnterWait(t, k)
  PROVE  CondInv' /\ Legal
<1>1. /\ cond' = AddWaiter(cond, t) /\ at' = [at EXCEPT ![t] = "parked"]
      /\ mode' = [mode EXCEPT ![t] = k] /\ dying' = dying
      /\ call[t] = "none" /\ t \notin downgraded
  BY DEF EnterWait, CallsWait, Idle
<1>2. ConditionTypeOK'
  <2>1. cond' \in QueueRecord
    BY <1>1, WaiterType DEF CondInv, ConditionTypeOK
  <2> QED
    BY <1>1, <2>1 DEF CondInv, ConditionTypeOK, Place
<1>3. EndRead(t) \/ EndDowngraded(t) \/ EndWrite(t)
  BY <1>1 DEF EnterWait, EndRead
<1>4. ClientInv' /\ (Promise!ReleaseRead(t) \/ Promise!ReleaseWrite(t))
  BY <1>3, EndReadStep, EndDowngradedStep, EndWriteStep DEF CondInv, IInv
<1>5. Legal
  BY <1>1, <1>4 DEF Legal, IInv, CondInv, Promise!Next
<1>6. call' = call /\ downgraded' \subseteq downgraded
  BY <1>3 DEF EndRead, ReleaseRead, EndDowngraded, EndWrite
<1>7. Places'
  <2>1. \A u \in Caller \ {t} : at'[u] = at[u] /\ mode'[u] = mode[u]
    BY <1>1 DEF CondInv, ConditionTypeOK
  <2>2. at'[t] = "parked" /\ call'[t] = "none" /\ t \notin downgraded'
    BY <1>1, <1>6 DEF CondInv, ConditionTypeOK
  <2> QED
    BY <1>6, <2>1, <2>2, PlacesKept
<1> QED
  BY <1>2, <1>5, <1>7 DEF CondInv, Legal

\* The condition's queue after the except clause of wait().
LEMMA CleanedType ==
  ASSUME CondInv, NEW t \in Caller
  PROVE  Cleaned(t) \in QueueRecord
<1> DEFINE c == [cond EXCEPT !.cancelled = @ \ {t}]
<1>1. cond \in QueueRecord /\ c \in QueueRecord
  BY DEF CondInv, ConditionTypeOK, QueueRecord
<1>2. Cleaned(t) = IF t \in dying THEN RemoveWaiter(c, t) ELSE cond
  BY DEF Cleaned
<1> HIDE DEF c
<1> QED
  BY <1>1, <1>2, WaiterType

\* The end of wait(), the lock being held again.
LEMMA ReturnPart ==
  ASSUME CondInv, NEW t \in Caller, NEW c \in QueueRecord, Returns(t, c),
         call' = [call EXCEPT ![t] = "none"], downgraded' = downgraded
  PROVE  ConditionTypeOK' /\ Places'
<1>1. /\ cond' = [c EXCEPT !.woken = @ \ {t}] /\ at' = [at EXCEPT ![t] = "out"]
      /\ mode' = [mode EXCEPT ![t] = "read"]
  BY DEF Returns
<1>2. ConditionTypeOK'
  BY <1>1 DEF CondInv, ConditionTypeOK, QueueRecord, Place, Kind
<1>3. \A u \in Caller \ {t} : call'[u] = call[u] /\ at'[u] = at[u] /\ mode'[u] = mode[u]
  BY <1>1 DEF CondInv, ConditionTypeOK, IInv, ClientInv, ClientTypeOK
<1>4. at'[t] = "out"
  BY <1>1 DEF CondInv, ConditionTypeOK
<1> QED
  BY <1>2, <1>3, <1>4, PlacesKept

\* The reacquire that finds the lock free, at once or woken.
LEMMA RegainPart ==
  ASSUME CondInv, NEW t \in Caller, RegainAtOnce(t) \/ FinishRegain(t)
  PROVE  CondInv' /\ Legal
<1>1. CASE RegainAtOnce(t)
  <2>1. /\ at[t] = "parked" /\ Enter(lock, t, mode[t]) /\ Returns(t, Cleaned(t))
        /\ dying' = dying \ {t}
    BY <1>1 DEF RegainAtOnce, Ready
  <2>2. mode[t] \in Kind /\ call[t] = "none"
    BY <2>1 DEF CondInv, ConditionTypeOK, Places
  <2>3. lock \in LockRecord /\ SameHolds(lock, lock)
    BY DEF CondInv, IInv, ClientInv, ClientTypeOK, SameHolds
  <2>4. ClientInv' /\ [Promise!Next]_held /\ downgraded' = downgraded
        /\ call' = [call EXCEPT ![t] = "none"]
    BY <2>1, <2>2, <2>3, EnterEffect DEF CondInv, IInv
  <2>5. ConditionTypeOK' /\ Places'
    BY <2>1, <2>4, CleanedType, ReturnPart
  <2> QED
    BY <2>1, <2>4, <2>5 DEF CondInv, IInv, Legal
<1>2. CASE FinishRegain(t)
  <2>1. ResumeAcquire(t) /\ Returns(t, cond)
    BY <1>2 DEF FinishRegain
  <2>2. Legal
    BY <2>1, NextStep DEF CondInv, Legal, Next, Resume
  <2>3. downgraded' = downgraded /\ call' = [call EXCEPT ![t] = "none"]
    BY <2>1 DEF ResumeAcquire, Granted
  <2>4. cond \in QueueRecord
    BY DEF CondInv, ConditionTypeOK
  <2>5. ConditionTypeOK' /\ Places'
    BY <2>1, <2>3, <2>4, ReturnPart
  <2> QED
    BY <2>2, <2>5 DEF CondInv, Legal
<1> QED
  BY <1>1, <1>2

\* The reacquire that has to queue up.
LEMMA StartRegainPart ==
  ASSUME CondInv, NEW t \in Caller, StartRegain(t)
  PROVE  CondInv' /\ Legal
<1>1. /\ at[t] = "parked" /\ Queue(lock, t, mode[t]) /\ cond' = Cleaned(t)
      /\ at' = [at EXCEPT ![t] = "regaining"] /\ mode' = mode /\ dying' = dying \ {t}
  BY DEF StartRegain, Ready
<1>2. mode[t] \in Kind /\ call[t] = "none" /\ t \notin downgraded
  BY <1>1 DEF CondInv, ConditionTypeOK, Places
<1>3. lock \in LockRecord /\ SameHolds(lock, lock)
  BY DEF CondInv, IInv, ClientInv, ClientTypeOK, SameHolds
<1>4. ClientInv' /\ held' = held /\ downgraded' = downgraded
      /\ call' = [call EXCEPT ![t] = mode[t]]
  BY <1>1, <1>2, <1>3, QueueEffect DEF CondInv, IInv
<1>5. ConditionTypeOK'
  BY <1>1, CleanedType DEF CondInv, ConditionTypeOK, Place
<1>6. Places'
  <2>1. \A u \in Caller \ {t} : call'[u] = call[u] /\ at'[u] = at[u]
    BY <1>1, <1>4 DEF CondInv, ConditionTypeOK, IInv, ClientInv, ClientTypeOK
  <2>2. at'[t] = "regaining" /\ call'[t] = mode'[t] /\ t \notin downgraded'
    BY <1>1, <1>2, <1>4 DEF CondInv, ConditionTypeOK, IInv, ClientInv, ClientTypeOK
  <2> QED
    BY <1>1, <1>4, <2>1, <2>2, PlacesKept
<1> QED
  BY <1>1, <1>4, <1>5, <1>6 DEF CondInv, IInv, Legal

\* A cancelled reacquire aborts, and starts afresh before anybody else runs.
LEMMA RegainAgainPart ==
  ASSUME CondInv, NEW t \in Caller, RegainAgain(t)
  PROVE  CondInv' /\ Legal
<1>1. /\ at[t] = "regaining" /\ call[t] \in Kind /\ dying' = dying \ {t}
      /\ \/ Enter(Aborted(t), t, mode[t]) /\ Returns(t, cond)
         \/ Queue(Aborted(t), t, mode[t]) /\ UNCHANGED sleepVars
  BY DEF RegainAgain, Awake
<1>2. mode[t] \in Kind /\ call[t] = mode[t] /\ t \notin downgraded
  BY <1>1 DEF CondInv, ConditionTypeOK, Places
<1>3. Aborted(t) \in LockRecord /\ SameHolds(Aborted(t), lock)
  BY <1>1, AbortedFrame DEF CondInv, IInv
<1>4. CASE Enter(Aborted(t), t, mode[t]) /\ Returns(t, cond)
  <2>1. ClientInv' /\ [Promise!Next]_held /\ downgraded' = downgraded
        /\ call' = [call EXCEPT ![t] = "none"]
    BY <1>2, <1>3, <1>4, EnterEffect DEF CondInv, IInv
  <2>2. cond \in QueueRecord
    BY DEF CondInv, ConditionTypeOK
  <2>3. ConditionTypeOK' /\ Places'
    BY <1>4, <2>1, <2>2, ReturnPart
  <2> QED
    BY <1>1, <2>1, <2>3 DEF CondInv, IInv, Legal
<1>5. CASE Queue(Aborted(t), t, mode[t]) /\ UNCHANGED sleepVars
  <2>1. ClientInv' /\ held' = held /\ downgraded' = downgraded
        /\ call' = [call EXCEPT ![t] = mode[t]]
    BY <1>2, <1>3, <1>5, QueueEffect DEF CondInv, IInv
  <2>2. call' = call
    BY <1>2, <2>1 DEF CondInv, IInv, ClientInv, ClientTypeOK
  <2> QED
    BY <1>1, <1>5, <2>1, <2>2 DEF CondInv, IInv, Legal, ConditionTypeOK, Places, sleepVars
<1> QED
  BY <1>1, <1>4, <1>5

\* A cancelled wait, and a notify, touch the condition's queue only.
LEMMA SleepPart ==
  ASSUME CondInv, NEW t \in Caller,
         CancelWait(t) \/ \E k \in Kind : CallNotify(t, k)
  PROVE  CondInv' /\ Legal
<1>1. UNCHANGED <<clientVars, at, mode>> /\ dying' \in {dying, dying \cup {t}}
  BY DEF CancelWait, CallNotify, NotifyWaiters
<1>2. cond' \in QueueRecord
  <2>1. CASE CancelWait(t)
    <3>1. cond' = cond \/ cond' = [cond EXCEPT !.cancelled = @ \cup {t}]
      BY <2>1 DEF CancelWait
    <3> QED
      BY <3>1 DEF CondInv, ConditionTypeOK, QueueRecord
  <2>2. CASE \E k \in Kind : CallNotify(t, k)
    <3>1. \E n \in 1 .. Len(cond.queue) : cond' = Signal(cond, n)
      BY <2>2 DEF CallNotify, NotifyWaiters
    <3> QED
      BY <3>1, SignalType DEF CondInv, ConditionTypeOK
  <2> QED
    BY <2>1, <2>2
<1>3. ConditionTypeOK' /\ Places'
  BY <1>1, <1>2 DEF CondInv, ConditionTypeOK, Places, clientVars
<1>4. IInv' /\ held' = held
  BY <1>1 DEF CondInv, IInv, clientVars, ClientInv, ClientTypeOK, HoldsAgree, MarkerRoutes,
              DisciplinedLock
<1> QED
  BY <1>3, <1>4 DEF CondInv, Legal

\* Every step of the condition.
LEMMA CondStep ==
  ASSUME CondInv, WaitsAfterDowngrade = {}, [CondNext]_condVars
  PROVE  CondInv' /\ Legal
<1>1. CASE CondNext
  <2>1. PICK t \in Caller :
          \/ LockStep(t)
          \/ \E k \in Kind : EnterWait(t, k) \/ CallNotify(t, k)
          \/ CancelWait(t)
          \/ Regaining(t)
    BY <1>1 DEF CondNext
  <2>2. CASE LockStep(t)
    BY <2>2, LockPart
  <2>3. CASE \E k \in Kind : EnterWait(t, k)
    BY <2>3, EnterWaitPart
  <2>4. CASE CancelWait(t) \/ \E k \in Kind : CallNotify(t, k)
    BY <2>4, SleepPart
  <2>5. CASE Regaining(t)
    BY <2>5, RegainPart, StartRegainPart, RegainAgainPart DEF Regaining
  <2> QED
    BY <2>1, <2>2, <2>3, <2>4, <2>5
<1>2. CASE UNCHANGED condVars
  BY <1>2 DEF condVars, vars, clientVars, sleepVars, CondInv, ConditionTypeOK, Places, Legal,
              IInv, ClientInv, ClientTypeOK, HoldsAgree, MarkerRoutes, DisciplinedLock
<1> QED
  BY <1>1, <1>2

-----------------------------------------------------------------------------
(* The tasks that wait for the lock, in acquire or in the reacquire.        *)

\* wait() gives the lock up, by one of the lock's own releases.
LEMMA EnterWaitWaits ==
  ASSUME CondInv, WaitInv, WaitsAfterDowngrade = {}, NEW t \in Caller, NEW k \in Kind,
         EnterWait(t, k)
  PROVE  WaitInv'
<1>1. dying' = dying /\ t \notin downgraded
  BY DEF EnterWait, CallsWait
<1>2. EndRead(t) \/ EndDowngraded(t) \/ EndWrite(t)
  BY <1>1 DEF EnterWait, EndRead
<1>3. call' = call
  BY <1>2 DEF EndRead, ReleaseRead, EndDowngraded, EndWrite
<1>4. WaitersCounted' /\ Kept(lock', dying) /\ lock'.cancelled = lock.cancelled
  BY <1>2, WaitersRelease DEF WaitInv, CondInv, IInv
<1> QED
  BY <1>1, <1>3, <1>4 DEF WaitInv

\* Back from the condition, t has no future in the lock's deques, and whether it
\* was cancelled is forgotten.
LEMMA ParkedCaller ==
  ASSUME CondInv, WaitInv, NEW t \in Caller, at[t] = "parked"
  PROVE  /\ mode[t] \in Kind /\ call[t] = "none" /\ t \notin lock.cancelled
         /\ ClientInv /\ WaitersCounted /\ Kept(lock, dying)
         /\ lock.cancelled \subseteq dying \ {t}
<1>1. mode[t] \in Kind /\ call[t] = "none"
  BY DEF CondInv, ConditionTypeOK, Places
<1>2. t \notin lock.cancelled
  BY <1>1 DEF WaitInv, Kind
<1> QED
  BY <1>1, <1>2 DEF CondInv, IInv, WaitInv, Kept, InOrder

\* The reacquire begins as any acquire does.
LEMMA RegainWaits ==
  ASSUME CondInv, WaitInv, NEW t \in Caller, RegainAtOnce(t) \/ StartRegain(t)
  PROVE  WaitInv'
<1> DEFINE k == mode[t]
           E == dying \ {t}
<1>1. /\ at[t] = "parked" /\ dying' = E
      /\ Enter(lock, t, k) \/ Queue(lock, t, k)
  BY DEF RegainAtOnce, StartRegain, Ready
<1>2. /\ k \in Kind /\ call[t] = "none" /\ t \notin lock.cancelled
      /\ ClientInv /\ WaitersCounted /\ Kept(lock, dying)
      /\ lock.cancelled \subseteq E /\ dying \ {t} \subseteq E
  BY <1>1, ParkedCaller
<1> HIDE DEF k, E
<1>3. CASE Enter(lock, t, k)
  <2>1. /\ CanAcquire(lock, k, t) /\ lock' = AcquireCore(lock, k, t)
        /\ Gains(t, k) /\ call' = [call EXCEPT ![t] = "none"]
    BY <1>3 DEF Enter, Granted
  <2>2. WaitersCounted' /\ Kept(lock', E) /\ lock'.cancelled = lock.cancelled
    BY <1>2, <2>1, ClientEnters
  <2> QED
    BY <1>1, <1>2, <2>1, <2>2, CancelledKept DEF CondInv
<1>4. CASE Queue(lock, t, k)
  <2>1. /\ ~Refused(lock, k, t) /\ ~CanAcquire(lock, k, t)
        /\ lock' = Append1(Join(lock, k, t), k, t)
        /\ call' = [call EXCEPT ![t] = k] /\ held' = held
    BY <1>4 DEF Queue
  <2>2. WaitersCounted' /\ Kept(lock', E) /\ lock'.cancelled = lock.cancelled
    BY <1>2, <2>1, ClientParks
  <2> QED
    BY <1>1, <1>2, <2>1, <2>2, CancelledKept DEF CondInv
<1> QED
  BY <1>1, <1>3, <1>4

\* What the abort of a cancelled reacquire leaves to the next one.
LEMMA AbortedKept ==
  ASSUME ClientInv, WaitInv, NEW t \in Caller, NEW k \in Kind, call[t] = k
  PROVE  LET s == Aborted(t)
         IN  /\ Kept(s, dying \ {t}) /\ SameHolds(s, lock)
             /\ s.cancelled = lock.cancelled \ {t}
             /\ s.waiting = [lock.waiting EXCEPT ![k] = @ \ {t}]
<1> DEFINE r == Raised(t)
           s == OnAbort(Leave(r, k, t), k, t)
<1>1. /\ Busy(r, t, k, dying \ {t}) /\ SameHolds(r, lock)
      /\ r.waiting = lock.waiting /\ r.cancelled = lock.cancelled \ {t}
  BY AwaitedBusy
<1>2. Aborted(t) = s
  BY DEF Aborted
<1> HIDE DEF r
<1>3. /\ Kept(s, dying \ {t}) /\ s.cancelled = r.cancelled
      /\ s.waiting = [r.waiting EXCEPT ![k] = @ \ {t}]
  BY <1>1, AbortKeeps
<1>4. SameHolds(s, r)
  BY <1>1, AbortEffect DEF Busy
<1>5. SameHolds(s, lock)
  BY <1>1, <1>4, SameHoldsTransitive
<1> HIDE DEF s
<1> QED
  BY <1>1, <1>2, <1>3, <1>5

\* A cancelled reacquire leaves the line and joins it again, or gets the lock, in
\* one step: the wakeup it may have used up is passed on in between.
LEMMA RegainAgainWaits ==
  ASSUME CondInv, WaitInv, NEW t \in Caller, RegainAgain(t)
  PROVE  WaitInv'
<1> DEFINE k == mode[t]
           s == Aborted(t)
           E == dying \ {t}
<1>1. /\ at[t] = "regaining" /\ call[t] \in Kind /\ dying' = E
      /\ Enter(s, t, k) \/ Queue(s, t, k)
  BY DEF RegainAgain, Awake
<1>2. k \in Kind /\ call[t] = k /\ ClientInv /\ WaitersCounted
  BY <1>1 DEF CondInv, IInv, ConditionTypeOK, Places, WaitInv
<1>3. /\ Kept(s, E) /\ SameHolds(s, lock) /\ s.cancelled = lock.cancelled \ {t}
      /\ s.waiting = [lock.waiting EXCEPT ![k] = @ \ {t}]
  BY <1>2, AbortedKept DEF WaitInv
<1>4. s \in LockRecord
  BY <1>3 DEF Kept, InOrder
<1>5. /\ call \in [Caller -> Kind \cup {"none", "marker"}]
      /\ lock.waiting \in [Kind -> SUBSET Caller] /\ lock.cancelled \subseteq Caller
      /\ \A j \in Kind : lock.waiting[j] = {u \in Caller : call[u] = j}
  BY <1>2 DEF ClientInv, ClientTypeOK, LockRecord, WaitersCounted
<1>6. \A j \in Kind : s.waiting[j] = lock.waiting[j] \ {t}
  BY <1>2, <1>3, <1>5
<1> HIDE DEF k, s, E
<1>7. CASE Enter(s, t, k)
  <2>1. /\ CanAcquire(s, k, t) /\ lock' = AcquireCore(s, k, t)
        /\ Gains(t, k) /\ call' = [call EXCEPT ![t] = "none"]
    BY <1>7 DEF Enter, Granted
  <2>2. Kept(lock', E) /\ SameWaits(lock', s)
    BY <1>2, <1>3, <2>1, EnterKeeps
  <2>3. \A j \in Kind : lock'.waiting[j] = lock.waiting[j] \ {t}
    BY <1>6, <2>2 DEF SameWaits
  <2>4. WaitersCounted'
    BY <1>2, <1>3, <1>4, <2>1, <2>3, WaitersGrant
  <2>5. \A u \in lock'.cancelled : call'[u] \in Kind
    BY <1>3, <1>5, <2>1, <2>2 DEF SameWaits, WaitInv
  <2> QED
    BY <1>1, <2>2, <2>4, <2>5 DEF WaitInv
<1>8. CASE Queue(s, t, k)
  <2>1. /\ ~CanAcquire(s, k, t) /\ lock' = Append1(Join(s, k, t), k, t)
        /\ call' = [call EXCEPT ![t] = k] /\ held' = held
    BY <1>8 DEF Queue
  <2>2. \A j \in Kind : t \notin s.waiting[j]
    BY <1>6
  <2>3. /\ Kept(lock', E) /\ lock'.cancelled = s.cancelled /\ SameHolds(lock', s)
        /\ lock'.waiting = [s.waiting EXCEPT ![k] = @ \cup {t}]
    <3>1. k \in Kind /\ Kept(s, E) /\ ~CanAcquire(s, k, t)
      BY <1>2, <1>3, <2>1
    <3>2. LET u == Append1(Join(s, k, t), k, t)
          IN  /\ Kept(u, E) /\ u.cancelled = s.cancelled /\ SameHolds(u, s)
              /\ u.waiting = [s.waiting EXCEPT ![k] = @ \cup {t}]
      BY <2>2, <3>1, SlowPathKeeps
    <3> QED
      BY <2>1, <3>2
  <2>4. call' = call
    BY <1>2, <1>5, <2>1
  <2>5. \A j \in Kind : lock'.waiting[j] = lock.waiting[j]
    <3>1. s.waiting \in [Kind -> SUBSET Caller]
      BY <1>4 DEF LockRecord
    <3>2. t \in lock.waiting[k] /\ \A j \in Kind \ {k} : t \notin lock.waiting[j]
      BY <1>2, <1>5
    <3>3. /\ lock'.waiting[k] = s.waiting[k] \cup {t}
          /\ \A j \in Kind \ {k} : lock'.waiting[j] = s.waiting[j]
      BY <1>2, <2>3, <3>1
    <3>4. lock'.waiting[k] = lock.waiting[k]
      BY <1>2, <1>6, <3>2, <3>3
    <3>5. ASSUME NEW j \in Kind \ {k} PROVE lock'.waiting[j] = lock.waiting[j]
      <4>1. lock'.waiting[j] = lock.waiting[j] \ {t}
        BY <1>6, <3>3
      <4> QED
        BY <3>2, <4>1
    <3> QED
      BY <3>4, <3>5
  <2>6. SameHolds(lock', lock)
    BY <1>3, <2>3, SameHoldsTransitive
  <2>7. WaitersCounted'
    BY <1>2, <1>5, <2>1, <2>4, <2>5, <2>6, WaitersQuiet
  <2> QED
    BY <1>1, <1>3, <2>3, <2>4, <2>7 DEF WaitInv
<1> QED
  BY <1>1, <1>7, <1>8

\* Every step of the condition.
LEMMA CondWaitStep ==
  ASSUME CondInv, WaitInv, WaitsAfterDowngrade = {}, [CondNext]_condVars
  PROVE  WaitInv'
<1>1. CASE CondNext
  <2>1. PICK t \in Caller :
          \/ LockStep(t)
          \/ \E k \in Kind : EnterWait(t, k) \/ CallNotify(t, k)
          \/ CancelWait(t)
          \/ Regaining(t)
    BY <1>1 DEF CondNext
  <2>2. CASE LockStep(t) \/ FinishRegain(t)
    <3>1. Next
      BY <2>2 DEF LockStep, FinishRegain, Next, Resume
    <3> QED
      BY <3>1, WaitStep DEF CondInv
  <2>3. CASE \E k \in Kind : EnterWait(t, k)
    BY <2>3, EnterWaitWaits
  <2>4. CASE CancelWait(t) \/ \E k \in Kind : CallNotify(t, k)
    <3>1. UNCHANGED clientVars /\ dying \subseteq dying'
      BY <2>4 DEF CancelWait, CallNotify, NotifyWaiters
    <3>2. Kept(lock, dying')
      BY <3>1, KeptByMore DEF WaitInv
    <3> QED
      BY <3>1, <3>2 DEF clientVars, WaitInv, WaitersCounted
  <2>5. CASE RegainAtOnce(t) \/ StartRegain(t)
    BY <2>5, RegainWaits
  <2>6. CASE RegainAgain(t)
    BY <2>6, RegainAgainWaits
  <2> QED
    BY <2>1, <2>2, <2>3, <2>4, <2>5, <2>6 DEF Regaining
<1>2. CASE UNCHANGED condVars
  BY <1>2 DEF condVars, vars, clientVars, WaitInv, WaitersCounted
<1> QED
  BY <1>1, <1>2

-----------------------------------------------------------------------------
(* The theorems.                                                           *)

\* The inductive invariant of a condition and its lock.
THEOREM AsyncCondInvariance ==
  ASSUME Disciplined, WaitsAfterDowngrade = {} PROVE CondSpec => []CondInv
<1>1. CondInit => CondInv
  <2> SUFFICES ASSUME CondInit PROVE CondInv
    OBVIOUS
  <2>1. IInv
    BY ClientInitInv DEF CondInit, Init, IInv
  <2>2. << >> \in Seq(Caller \cup {None})
    OBVIOUS
  <2> QED
    BY <2>1, <2>2 DEF CondInit, ConditionInit, CondInv, ConditionTypeOK, QueueRecord, Place,
                      Places, Kind
<1>2. CondInv /\ [CondNext]_condVars => CondInv'
  BY CondStep
<1> QED
  BY <1>1, <1>2, PTL DEF CondSpec

\* Type correctness of the lock and of the condition's queue: no cancellation, in
\* wait or in the reacquire, is counted twice.
THEOREM AsyncCondTypeCorrect ==
  ASSUME Disciplined, WaitsAfterDowngrade = {} PROVE CondSpec => []CondTypeOK
<1>1. CondInv => CondTypeOK
  BY DEF CondInv, CondTypeOK, IInv, ClientInv, TypeOK
<1> QED
  BY <1>1, AsyncCondInvariance, PTL

\* Whatever waits, notifies and is cancelled, the lock's attributes agree with what
\* the tasks hold.
THEOREM AsyncCondHoldsAgree ==
  ASSUME Disciplined, WaitsAfterDowngrade = {} PROVE CondSpec => []HoldsAgree
<1>1. CondInv => HoldsAgree
  BY DEF CondInv, IInv, ClientInv
<1> QED
  BY <1>1, AsyncCondInvariance, PTL

\* write.release() is routed right in every block that does not wait after its
\* downgrade.
THEOREM AsyncCondMarkerRoutes ==
  ASSUME Disciplined, WaitsAfterDowngrade = {} PROVE CondSpec => []MarkerRoutes
<1>1. CondInv => MarkerRoutes
  BY DEF CondInv, IInv, ClientInv
<1> QED
  BY <1>1, AsyncCondInvariance, PTL

\* The lock of an asyncio condition implements the abstract lock, a reacquire that
\* is cancelled and started afresh included.
THEOREM AsyncCondRefinesLock ==
  ASSUME Disciplined, WaitsAfterDowngrade = {} PROVE CondSpec => RefinesLock
<1>1. CondInit => Promise!Init
  BY DEF CondInit, Init, ClientInit, Promise!Init
<1>2. CondInv /\ [CondNext]_condVars => [Promise!Next]_held
  BY CondStep DEF Legal
<1> QED
  BY <1>1, <1>2, AsyncCondInvariance, PTL DEF CondSpec, RefinesLock, Promise!Spec

\* The waits for the lock are in order, those of the reacquire included.
THEOREM AsyncCondWaitInvariance ==
  ASSUME Disciplined, WaitsAfterDowngrade = {} PROVE CondSpec => [](CondInv /\ WaitInv)
<1>1. CondInit => WaitInv
  BY ClientInitInv, WaitersInit DEF CondInit, Init, WaitInv
<1>2. CondInv /\ WaitInv /\ [CondNext]_condVars => WaitInv'
  BY CondWaitStep
<1> QED
  BY <1>1, <1>2, AsyncCondInvariance, PTL DEF CondSpec

\* No reacquire, however often it is cancelled and started afresh, leaves a future
\* behind in the lock's deques.
THEOREM AsyncCondQueuesAgree ==
  ASSUME Disciplined, WaitsAfterDowngrade = {} PROVE CondSpec => []QueuesAgree
<1>1. CondInv /\ WaitInv => QueuesAgree
  BY WaitInvAgrees DEF CondInv
<1> QED
  BY <1>1, AsyncCondWaitInvariance, PTL

\* Nor does it keep a wakeup to itself: no task sleeps on a lock that it could
\* have, unless another one is in the ready queue to pass the wakeup on.
THEOREM AsyncCondWakeupKept ==
  ASSUME Disciplined, WaitsAfterDowngrade = {} PROVE CondSpec => []NoLostWakeup
<1>1. CondInv /\ WaitInv => NoLostWakeup
  BY WaitInvAgrees DEF CondInv
<1> QED
  BY <1>1, AsyncCondWaitInvariance, PTL

\* A reacquire that is cancelled and queues up again leaves the slots of a readers'
\* phase counted right.
THEOREM AsyncCondPhaseAgrees ==
  ASSUME Disciplined, WaitsAfterDowngrade = {} PROVE CondSpec => []PhaseAgrees
<1>1. CondInv /\ WaitInv => PhaseAgrees
  BY WaitInvAgrees DEF CondInv
<1> QED
  BY <1>1, AsyncCondWaitInvariance, PTL

\* Whatever is notified and cancelled, a task inside a write section is alone.
THEOREM AsyncCondExclusion ==
  ASSUME Disciplined, WaitsAfterDowngrade = {} PROVE CondSpec => []MutualExclusion
<1>1. CondInv => MutualExclusion
  BY ClientInvExcludes DEF CondInv, IInv
<1> QED
  BY <1>1, AsyncCondInvariance, PTL

\* A release that ends a downgraded block is routed to the read core, if the block
\* has not waited on the condition meanwhile.
THEOREM AsyncCondDowngradedRoutes ==
  ASSUME Disciplined, WaitsAfterDowngrade = {} PROVE CondSpec => []DowngradedRoutes
<1>1. CondInv => DowngradedRoutes
  BY DEF CondInv, IInv, ClientInv, ClientTypeOK, HoldsAgree, MarkerRoutes,
         DowngradedRoutes, RoutedToRead
<1> QED
  BY <1>1, AsyncCondInvariance, PTL

-----------------------------------------------------------------------------
(* Where a task is in wait(), and what it holds there.                     *)

\* Only a parked task that was not notified has a future in the deque, pending or
\* cancelled.
LineKept ==
  /\ LineOnce(cond.queue)
  /\ Queued(cond.queue) \subseteq Caller
  /\ \A t \in Caller :
       /\ t \in Queued(cond.queue) => at[t] = "parked" /\ t \notin cond.woken
       /\ t \in cond.cancelled => at[t] = "parked" /\ t \in dying
       /\ at[t] = "out" => t \notin cond.woken

\* wait() holds nothing until it returns, and a task is in it that waits for a
\* notify, or has had one, or may be cancelled.
PlaceKept(t) ==
  /\ at[t] \in {"out", "parked", "regaining"}
  /\ at[t] # "out" => held[t] = Nothing
  /\ at[t] = "parked" =>
       /\ t \in Queued(cond.queue) \cup cond.cancelled \cup cond.woken
       /\ t \in dying => t \in cond.cancelled \cup cond.woken
  /\ at[t] = "regaining" => t \in cond.woken \cup Cancellable
  /\ t \in dying => t \in Cancellable /\ (at[t] = "parked" \/ call[t] \in Kind)

SleepInv == LineKept /\ \A t \in Caller : PlaceKept(t)

\* A step of t is nothing to the place of another task, unless it notifies it.
LEMMA OthersPlaces ==
  ASSUME SleepInv, NEW t \in Caller, LineKept', PlaceKept(t)',
         \A u \in Caller \ {t} :
           /\ at'[u] = at[u] /\ call'[u] = call[u] /\ held'[u] = held[u]
           /\ u \in dying' <=> u \in dying
           /\ u \in cond.woken => u \in cond'.woken
           /\ u \in cond.cancelled => u \in cond'.cancelled
           /\ u \in Queued(cond.queue) =>
                u \in Queued(cond'.queue) \cup cond'.cancelled \cup cond'.woken
  PROVE  SleepInv'
<1>1. ASSUME NEW u \in Caller \ {t} PROVE PlaceKept(u)'
  BY DEF SleepInv, PlaceKept
<1> QED
  BY <1>1 DEF SleepInv

-----------------------------------------------------------------------------
(* What is seen of the tasks from outside.                                 *)

\* No async wait() is seen between its enqueue and its release.
LEMMA HeldSeen ==
  ASSUME CondInv, SleepInv
  PROVE  HeldOutside = held
<1>1. held \in [Caller -> [r : Nat, w : Nat]]
  BY DEF CondInv, IInv, ClientInv, ClientTypeOK
<1>2. \A u \in Caller : at[u] # "entering"
  BY DEF SleepInv, PlaceKept
<1> QED
  BY <1>1, <1>2 DEF HeldOutside

\* A task in wait() is apart: it is back, with the lock, only when it returns.
LEMMA PlaceSeen ==
  ASSUME CondInv, SleepInv
  PROVE  WaitOutside = [t \in Caller |->
           IF at[t] = "out" THEN Outside!Out
           ELSE [stage |-> "apart", kind |-> mode[t], limited |-> t \in Cancellable]]
<1>1. \A u \in Caller : at[u] # "out" => Stage(u) = "apart"
  BY DEF SleepInv, PlaceKept, Stage, Holds, Nothing
<1> QED
  BY <1>1 DEF WaitOutside, Outside!Out

\* Its wait is limited if it may be cancelled.
LEMMA LimitSeen ==
  ASSUME NEW t \in Caller, at[t] # "out"
  PROVE  WaitOutside[t].limited <=> t \in Cancellable
<1> DEFINE cancels == t \in Cancellable
<1>1. WaitOutside[t] = [stage |-> Stage(t), kind |-> mode[t], limited |-> cancels]
  BY DEF WaitOutside
<1> HIDE DEF cancels
<1>2. WaitOutside[t].limited = cancels
  BY <1>1
<1> QED
  BY <1>2 DEF cancels

\* The invariants after the step show what is seen after it.
LEMMA SeenAfter ==
  ASSUME CondInv', SleepInv'
  PROVE  /\ HeldOutside' = held'
         /\ WaitOutside' = [t \in Caller |->
              IF at'[t] = "out" THEN Outside!Out
              ELSE [stage |-> "apart", kind |-> mode'[t], limited |-> t \in Cancellable]]
<1>1. held' \in [Caller -> [r : Nat, w : Nat]]
  BY DEF CondInv, IInv, ClientInv, ClientTypeOK
<1>2. \A u \in Caller : at'[u] # "entering"
  BY DEF SleepInv, PlaceKept
<1>3. HeldOutside' = held'
  BY <1>1, <1>2 DEF HeldOutside
<1>4. \A u \in Caller : at'[u] # "out" => Stage(u)' = "apart"
  BY DEF SleepInv, PlaceKept, Stage, Holds, Nothing
<1> QED
  BY <1>3, <1>4 DEF WaitOutside, Outside!Out

\* A legal step of the lock is legal for the holds seen from outside.
LEMMA LockSeen ==
  ASSUME HeldOutside = held, HeldOutside' = held', NEW t \in Caller
  PROVE  /\ Promise!AcquireRead(t) => Outside!Lock!AcquireRead(t)
         /\ Promise!AcquireWrite(t) => Outside!Lock!AcquireWrite(t)
         /\ Promise!ReleaseRead(t) => Outside!Lock!ReleaseRead(t)
         /\ Promise!ReleaseWrite(t) => Outside!Lock!ReleaseWrite(t)
         /\ Promise!Downgrade(t) => Outside!Lock!Downgrade(t)
<1>1. Promise!AcquireRead(t) => Outside!Lock!AcquireRead(t)
  BY DEF Promise!AcquireRead, Outside!Lock!AcquireRead
<1>2. Promise!AcquireWrite(t) => Outside!Lock!AcquireWrite(t)
  BY DEF Promise!AcquireWrite, Outside!Lock!AcquireWrite, Promise!Holds, Outside!Lock!Holds
<1>3. Promise!ReleaseRead(t) => Outside!Lock!ReleaseRead(t)
  BY DEF Promise!ReleaseRead, Outside!Lock!ReleaseRead
<1>4. Promise!ReleaseWrite(t) => Outside!Lock!ReleaseWrite(t)
  BY DEF Promise!ReleaseWrite, Outside!Lock!ReleaseWrite
<1>5. Promise!Downgrade(t) => Outside!Lock!Downgrade(t)
  BY DEF Promise!Downgrade, Outside!Lock!Downgrade
<1> QED
  BY <1>1, <1>2, <1>3, <1>4, <1>5

\* The line is that of the futures that are not cancelled.
LEMMA LineSeen ==
  ASSUME CondInv
  PROVE  /\ cond \in QueueRecord
         /\ Line \in Seq(Caller \cup {None})
         /\ Queued(Line) = Queued(cond.queue) \ cond.cancelled
         /\ \A t : Outside!InLine(t) <=> t \in Queued(Line)
         /\ \A t : Outside!LineWithout(t) = Without(Line, t)
<1>1. cond \in QueueRecord
  BY DEF CondInv, ConditionTypeOK
<1>2. /\ Line \in Seq(Caller \cup {None})
      /\ Queued(Line) = Queued(cond.queue) \ cond.cancelled
  BY <1>1, LineShape DEF Line
<1>3. \A t : Outside!InLine(t) <=> t \in Queued(Line)
  BY DEF Outside!InLine, Queued
<1>4. \A t : Outside!LineWithout(t) = Without(Line, t)
  BY DEF Outside!LineWithout, Outside!InLine, Without
<1> QED
  BY <1>1, <1>2, <1>3, <1>4

LEMMA LineAfter == Line' = LineOf(cond')
BY DEF Line, LineOf, LivePlaces, Rank

\* What is a step of the abstract condition, or none.
Seen == Outside!Next \/ UNCHANGED Outside!vars

\* What moves in the condition's queue but not in the line, and in the lock but in
\* no hold, is seen by nobody.
LEMMA Unseen ==
  ASSUME CondInv, SleepInv, CondInv', SleepInv', held' = held,
         Line' = Line, cond'.woken = cond.woken, mode' = mode,
         \A t \in Caller : at'[t] = "out" <=> at[t] = "out"
  PROVE  Seen
BY HeldSeen, PlaceSeen, SeenAfter DEF Seen, Outside!vars

-----------------------------------------------------------------------------
(* The lock, outside of wait() or for its reacquire.                       *)

\* What a task outside of wait() does to its holds is a step of the abstract lock.
LEMMA LockStepIs ==
  ASSUME ClientInv, NEW t \in Caller, LockStep(t)
  PROVE  \/ Promise!AcquireRead(t)
         \/ Promise!AcquireWrite(t)
         \/ Promise!ReleaseRead(t)
         \/ Promise!ReleaseWrite(t)
         \/ Promise!Downgrade(t)
         \/ held' = held
<1>1. CASE \E k \in Kind : Acquiring(t, k)
  BY <1>1, TryAcquireStep, ParkStep DEF Acquiring
<1>2. CASE Resume(t)
  BY <1>2, ResumeAcquireStep, ResumeParkStep, ResumeAbortStep DEF Resume
<1>3. CASE ReadRelease(t)
  BY <1>3, EndReadStep DEF ReadRelease
<1>4. CASE WriteRelease(t)
  BY <1>4, EndDowngradedStep, EndWriteStep DEF WriteRelease, EndRefused
<1>5. CASE Downgrade(t)
  BY <1>5, WriteToReadStep DEF Downgrade
<1>6. CASE Cancel(t) \/ ResumePark(t)
  BY <1>6 DEF Cancel, ResumePark
<1> QED
  BY <1>1, <1>2, <1>3, <1>4, <1>5, <1>6 DEF LockStep

\* Who a step of the lock is about.
LEMMA LockFrame ==
  ASSUME IInv, NEW t \in Caller, LockStep(t)
  PROVE  /\ \A u \in Caller \ {t} :
              call'[u] = call[u] /\ held'[u] = held[u] /\ (u \in dying' <=> u \in dying)
         /\ t \in dying' => t \in dying \cup Cancellable
         /\ t \in dying' /\ (t \in dying => call[t] \in Kind) => call'[t] \in Kind
<1>1. held \in [Caller -> [r : Nat, w : Nat]] /\ call \in [Caller -> Kind \cup {"none", "marker"}]
  BY DEF IInv, ClientInv, ClientTypeOK
<1>2. \A u \in Caller \ {t} : call'[u] = call[u] /\ (u \in dying' <=> u \in dying)
  BY <1>1 DEF LockStep, Acquiring, TryAcquire, Enter, Park, Queue, Granted, Cancel, Resume,
              ResumeAcquire, ResumePark, ResumeAbort, ReadRelease, EndRead, ReleaseRead,
              WriteRelease, EndDowngraded, EndWrite, EndRefused, Downgrade, WriteToRead
<1>3. held' = held \/ \E v : held' = [held EXCEPT ![t] = v]
  BY LockStepIs DEF IInv, Promise!AcquireRead, Promise!AcquireWrite, Promise!ReleaseRead,
                    Promise!ReleaseWrite, Promise!Downgrade
<1>4. t \in dying' => t \in dying \cup Cancellable
  BY DEF LockStep, Acquiring, TryAcquire, Park, Cancel, Resume, ResumeAcquire, ResumePark,
         ResumeAbort, ReadRelease, WriteRelease, Downgrade
<1>5. t \in dying' /\ (t \in dying => call[t] \in Kind) => call'[t] \in Kind
  <2>1. t \in dying' => \/ dying' = dying /\ t \in dying
                        \/ Cancel(t)
    BY DEF LockStep, Acquiring, TryAcquire, Park, Cancel, Resume, ResumeAcquire, ResumePark,
           ResumeAbort, ReadRelease, WriteRelease, Downgrade
  <2>2. CASE Cancel(t)
    BY <2>2 DEF Cancel
  <2>3. CASE t \in dying /\ dying' = dying /\ call[t] \in Kind
    BY <1>1, <2>3 DEF LockStep, Acquiring, TryAcquire, Park, MayAsk, Idle, Cancel, Resume,
           ResumeAcquire, ResumePark, ResumeAbort, ReadRelease, EndRead, ReleaseRead,
           WriteRelease, CallsWriteRelease, EndDowngraded, EndWrite, EndRefused, Downgrade,
           WriteToRead, Kind
  <2> QED
    BY <2>1, <2>2, <2>3
<1> QED
  BY <1>1, <1>2, <1>3, <1>4, <1>5

\* The lock's steps keep the places, and are seen as steps of the lock.
LEMMA LockIsSeen ==
  ASSUME CondInv, SleepInv, NEW t \in Caller, LockStep(t)
  PROVE  SleepInv' /\ Seen
<1>1. UNCHANGED <<cond, at, mode>>
  BY DEF LockStep, sleepVars
<1>2. CondInv'
  BY LockPart
<1>3. /\ \A u \in Caller \ {t} :
           call'[u] = call[u] /\ held'[u] = held[u] /\ (u \in dying' <=> u \in dying)
      /\ t \in dying' => t \in dying \cup Cancellable
      /\ t \in dying' /\ (t \in dying => call[t] \in Kind) => call'[t] \in Kind
  BY LockFrame DEF CondInv
<1>4. at[t] # "parked"
  BY DEF LockStep, Cancel, ResumePark, Awake, CondInv, Places, Kind
<1>5. at[t] # "out" => held' = held
  BY DEF LockStep, Cancel, ResumePark
<1>6. LineKept'
  BY <1>1, <1>3, <1>4 DEF SleepInv, LineKept
<1>7. PlaceKept(t)'
  BY <1>1, <1>3, <1>4, <1>5 DEF SleepInv, PlaceKept
<1>8. SleepInv'
  BY <1>1, <1>3, <1>6, <1>7, OthersPlaces
<1>9. Line' = Line
  BY <1>1 DEF Line, LineOf, LivePlaces
<1>10. CASE held' = held
  BY <1>1, <1>2, <1>8, <1>9, <1>10, Unseen
<1>11. CASE held' # held
  <2>1. HeldOutside = held /\ HeldOutside' = held' /\ WaitOutside' = WaitOutside
    BY <1>1, <1>2, <1>8, HeldSeen, PlaceSeen, SeenAfter
  <2>2. \/ Outside!Lock!AcquireRead(t)
        \/ Outside!Lock!AcquireWrite(t)
        \/ Outside!Lock!ReleaseRead(t)
        \/ Outside!Lock!ReleaseWrite(t)
        \/ Outside!Lock!Downgrade(t)
    BY <1>11, <2>1, LockStepIs, LockSeen DEF CondInv, IInv
  <2>3. WaitOutside[t].stage = "out"
    BY <1>5, <1>11, PlaceSeen DEF Outside!Out
  <2>4. Outside!LockStep(t)
    BY <1>1, <1>9, <2>1, <2>2, <2>3 DEF Outside!LockStep
  <2> QED
    BY <1>8, <2>4 DEF Seen, Outside!Next
<1> QED
  BY <1>8, <1>10, <1>11

-----------------------------------------------------------------------------
(* The waits, their cancellations, and the notifies.                       *)

\* wait() gives the lock up and joins the line in one step.
LEMMA EnterIsSeen ==
  ASSUME CondInv, SleepInv, WaitsAfterDowngrade = {}, NEW t \in Caller, NEW k \in Kind,
         EnterWait(t, k)
  PROVE  SleepInv' /\ Seen
<1> DEFINE q == cond.queue
<1>1. /\ CallsWait(t, k) /\ cond' = AddWaiter(cond, t)
      /\ at[t] = "out" /\ call[t] = "none" /\ dying' = dying
      /\ at' = [at EXCEPT ![t] = "parked"] /\ mode' = [mode EXCEPT ![t] = k]
  BY DEF EnterWait, CallsWait, Idle
<1>2. CondInv'
  BY EnterWaitPart
<1>3. /\ cond \in QueueRecord /\ q \in Seq(Caller \cup {None})
      /\ at \in [Caller -> Place] /\ mode \in [Caller -> Kind]
      /\ held \in [Caller -> [r : Nat, w : Nat]]
  BY DEF CondInv, ConditionTypeOK, QueueRecord, IInv, ClientInv, ClientTypeOK
<1>4. held[t] = HeldOnce(k)
  BY <1>1, WaiterHolds DEF CondInv, IInv
<1>5. held' = [held EXCEPT ![t] = Nothing] /\ call' = call
  <2>1. IF k = "read" THEN ReleaseRead(t) ELSE EndDowngraded(t) \/ EndWrite(t)
    BY DEF EnterWait
  <2> QED
    BY <1>4, <2>1, GivesUp DEF CondInv, IInv
<1>6. cond'.queue = Append(q, t) /\ cond'.woken = cond.woken /\ cond'.cancelled = cond.cancelled
  BY <1>1, <1>3 DEF AddWaiter, QueueRecord
<1>7. LineOnce(q) /\ t \notin Queued(q) /\ t \notin cond.cancelled
  BY <1>1 DEF SleepInv, LineKept
<1>8. LineOnce(Append(q, t)) /\ Queued(Append(q, t)) = Queued(q) \cup {t}
  BY <1>3, <1>7, LineJoined
<1> HIDE DEF q
<1>9. LineKept'
  BY <1>1, <1>3, <1>6, <1>8 DEF SleepInv, LineKept, q
<1>10. PlaceKept(t)'
  BY <1>1, <1>3, <1>5, <1>6, <1>8 DEF SleepInv, PlaceKept, Kind
<1>11. SleepInv'
  BY <1>1, <1>3, <1>5, <1>6, <1>8, <1>9, <1>10, OthersPlaces DEF q
<1>12. Line' = Append(Line, t)
  <2>1. LineOf(AddWaiter(cond, t)) = Append(LineOf(cond), t)
    BY <1>3, <1>7, LineJoins
  <2> QED
    BY <1>1, <2>1, LineAfter DEF Line
<1>13. /\ HeldOutside = held /\ HeldOutside' = held'
       /\ WaitOutside[t].stage = "out"
       /\ WaitOutside' = [WaitOutside EXCEPT ![t] =
                            [stage |-> "apart", kind |-> k, limited |-> t \in Cancellable]]
  <2>1. HeldOutside = held /\ HeldOutside' = held'
    BY <1>2, <1>11, HeldSeen, SeenAfter
  <2>2. WaitOutside[t].stage = "out"
    BY <1>1, PlaceSeen DEF Outside!Out
  <2>3. WaitOutside' = [WaitOutside EXCEPT ![t] =
                          [stage |-> "apart", kind |-> k, limited |-> t \in Cancellable]]
    BY <1>1, <1>2, <1>3, <1>11, PlaceSeen, SeenAfter
  <2> QED
    BY <2>1, <2>2, <2>3
<1>14. Outside!Wait(t, k, t \in Cancellable)
  BY <1>4, <1>5, <1>6, <1>12, <1>13 DEF Outside!Wait, Outside!Single, HeldOnce, Nothing
<1>15. (t \in Cancellable) \in BOOLEAN
  OBVIOUS
<1> QED
  BY <1>11, <1>14, <1>15 DEF Seen, Outside!Next, Outside!Kind, Kind

\* A cancelled wait gives its place in the line up, unless it was notified before.
LEMMA CancelIsSeen ==
  ASSUME CondInv, SleepInv, NEW t \in Caller, CancelWait(t)
  PROVE  SleepInv' /\ Seen
<1>1. /\ at[t] = "parked" /\ t \in Cancellable \ dying /\ dying' = dying \cup {t}
      /\ cond' = IF t \in cond.woken THEN cond ELSE [cond EXCEPT !.cancelled = @ \cup {t}]
      /\ UNCHANGED <<at, mode, call, held>>
  BY DEF CancelWait, clientVars
<1>2. CondInv'
  BY SleepPart
<1>3. cond \in QueueRecord
  BY DEF CondInv, ConditionTypeOK
<1>4. CASE t \in cond.woken
  <2>1. cond' = cond
    BY <1>1, <1>4
  <2>2. LineKept'
    BY <1>1, <2>1 DEF SleepInv, LineKept
  <2>3. PlaceKept(t)'
    BY <1>1, <1>4, <2>1 DEF SleepInv, PlaceKept
  <2>4. SleepInv'
    BY <1>1, <2>1, <2>2, <2>3, OthersPlaces
  <2>5. Line' = Line
    BY <2>1, LineAfter DEF Line
  <2> QED
    BY <1>1, <1>2, <2>1, <2>4, <2>5, Unseen
<1>5. CASE t \notin cond.woken
  <2>1. /\ cond' = [cond EXCEPT !.cancelled = @ \cup {t}]
        /\ cond'.queue = cond.queue /\ cond'.woken = cond.woken
        /\ cond'.cancelled = cond.cancelled \cup {t}
    BY <1>1, <1>3, <1>5 DEF QueueRecord
  <2>2. t \in Queued(cond.queue) \ cond.cancelled /\ LineOnce(cond.queue)
    BY <1>1, <1>5 DEF SleepInv, LineKept, PlaceKept
  <2>3. LineKept'
    BY <1>1, <2>1 DEF SleepInv, LineKept
  <2>4. PlaceKept(t)'
    BY <1>1, <2>1 DEF SleepInv, PlaceKept
  <2>5. SleepInv'
    BY <1>1, <2>1, <2>3, <2>4, OthersPlaces
  <2>6. Line' = Without(Line, t)
    BY <1>3, <2>1, <2>2, LineAfter, LineCancelled DEF Line
  <2>7. WaitOutside[t].limited
    BY <1>1, LimitSeen
  <2>8. HeldOutside' = HeldOutside /\ WaitOutside' = WaitOutside
    BY <1>1, <1>2, <2>5, HeldSeen, PlaceSeen, SeenAfter
  <2>9. Outside!GiveUp(t)
    BY <2>1, <2>2, <2>6, <2>7, <2>8, LineSeen DEF Outside!GiveUp
  <2> QED
    BY <2>5, <2>9 DEF Seen, Outside!Next
<1> QED
  BY <1>4, <1>5

\* A notify reaches the head of the line: the first of its tasks, if it has any.
LEMMA NotifyIsSeen ==
  ASSUME CondInv, SleepInv, NEW t \in Caller, NEW k \in Kind, CallNotify(t, k)
  PROVE  SleepInv' /\ Seen /\ (Line # << >> => Line[1] \in cond'.woken)
<1> DEFINE q == cond.queue
           N == Len(q)
           C == cond.cancelled
           W == cond.woken
           M == Len(Line)
<1>1. /\ UNCHANGED <<at, mode, call, held, dying>> /\ at[t] = "out" /\ Owns(k, t)
      /\ \E n \in 1 .. N : cond' = Signal(cond, n)
  BY DEF CallNotify, NotifyWaiters, clientVars
<1>2. CondInv'
  BY SleepPart
<1>3. PICK n \in 1 .. N : cond' = Signal(cond, n)
  BY <1>1
<1>4. cond \in QueueRecord /\ LineOnce(q) /\ q \in Seq(Caller \cup {None})
  BY DEF CondInv, ConditionTypeOK, SleepInv, LineKept, QueueRecord
<1>5. /\ cond'.cancelled = C
      /\ \E m \in 0 .. M :
           /\ m = 0 => Line = << >>
           /\ Line' = SubSeq(Line, m + 1, M)
           /\ cond'.woken = W \cup ({Line[i] : i \in 1 .. m} \ {None})
      /\ \E p \in 0 .. N :
           /\ cond'.queue = SubSeq(q, p + 1, N)
           /\ cond'.woken = W \cup ({q[i] : i \in 1 .. p} \ (C \cup {None}))
  BY <1>3, <1>4, LineNotified, LineAfter DEF Line
<1>6. PICK m \in 0 .. M :
        /\ m = 0 => Line = << >>
        /\ Line' = SubSeq(Line, m + 1, M)
        /\ cond'.woken = W \cup ({Line[i] : i \in 1 .. m} \ {None})
  BY <1>5
<1>7. PICK p \in 0 .. N :
        /\ cond'.queue = SubSeq(q, p + 1, N)
        /\ cond'.woken = W \cup ({q[i] : i \in 1 .. p} \ (C \cup {None}))
  BY <1>5
<1> DEFINE rest == SubSeq(q, p + 1, N)
           head == {q[i] : i \in 1 .. p} \ {None}
<1>8. /\ LineOnce(rest) /\ Queued(rest) \subseteq Queued(q) \ head
      /\ head \subseteq Queued(q) /\ Queued(q) \subseteq Queued(rest) \cup head \cup {None}
  BY <1>4, LineRest
<1>9. cond'.queue = rest /\ cond'.woken = W \cup (head \ C)
  BY <1>7
<1> HIDE DEF rest, head
<1>10. None \notin Queued(q) /\ Queued(q) \subseteq Caller
  BY CallerAssumption DEF SleepInv, LineKept
<1>11. LineKept'
  BY <1>1, <1>5, <1>8, <1>9, <1>10 DEF SleepInv, LineKept
<1>12. PlaceKept(t)'
  BY <1>1 DEF SleepInv, PlaceKept
<1>13. SleepInv'
  BY <1>1, <1>5, <1>8, <1>9, <1>10, <1>11, <1>12, OthersPlaces
<1>14. CASE m = 0
  <2>1. Line = << >>
    BY <1>6, <1>14
  <2>2. M = 0 /\ Line' = << >>
    BY <1>6, <1>14, <2>1
  <2>3. cond'.woken = W
    BY <1>6, <1>14
  <2> QED
    BY <1>1, <1>2, <1>13, <2>1, <2>2, <2>3, Unseen
<1>15. CASE m # 0
  <2>1. M \in Nat /\ m \in 1 .. M
    <3>1. M \in Nat
      BY LineSeen
    <3> QED
      BY <1>15, <3>1
  <2>2. HeldOutside = held /\ HeldOutside' = HeldOutside /\ WaitOutside' = WaitOutside
    BY <1>1, <1>2, <1>13, HeldSeen, PlaceSeen, SeenAfter
  <2>3. WaitOutside[t].stage = "out"
    BY <1>1, PlaceSeen DEF Outside!Out
  <2>4. Outside!Lock!Holds(t)
    BY <1>1, <2>2, OwnerHolds DEF Outside!Lock!Holds, CondInv, IInv
  <2>5. Outside!Notify(t, m)
    BY <1>6, <2>1, <2>2, <2>3, <2>4 DEF Outside!Notify
  <2>6. Line[1] \in cond'.woken
    <3>1. Line[1] \in {Line[i] : i \in 1 .. m}
      BY <2>1
    <3>2. Line[1] # None
      <4>1. Line[1] \in Queued(Line)
        BY <2>1 DEF Queued
      <4> QED
        BY <4>1, LineSeen, CallerAssumption DEF SleepInv, LineKept
    <3> QED
      BY <1>6, <3>1, <3>2
  <2> QED
    BY <1>13, <2>1, <2>5, <2>6 DEF Seen, Outside!Next
<1> QED
  BY <1>14, <1>15

-----------------------------------------------------------------------------
(* The reacquire.                                                          *)

\* t has left the deque c, and everybody else is where he was in the line.
Tidied(c, t) ==
  /\ c \in QueueRecord /\ c.woken = cond.woken /\ c.cancelled = cond.cancelled \ {t}
  /\ LineOnce(c.queue)
  /\ Queued(c.queue) \subseteq Queued(cond.queue) \ {t}
  /\ \A u \in Caller \ {t} :
       u \in Queued(cond.queue) => u \in Queued(c.queue) \cup c.cancelled
  /\ t \notin Queued(Line)
  /\ LineOf(c) = Line

\* The except clause of wait() sees to that.
LEMMA CleanedTidies ==
  ASSUME CondInv, SleepInv, NEW t \in Caller, Ready(t)
  PROVE  Tidied(Cleaned(t), t)
<1>1. at[t] = "parked" /\ (t \in cond.woken \/ t \in dying)
  BY DEF Ready
<1>2. /\ cond \in QueueRecord /\ cond.cancelled \subseteq Caller
      /\ LineOnce(cond.queue)
      /\ t \in Queued(cond.queue) => t \notin cond.woken
      /\ t \in cond.cancelled => t \in dying
  BY DEF CondInv, ConditionTypeOK, QueueRecord, SleepInv, LineKept
<1>3. CASE t \in dying
  <2> DEFINE d == RemoveWaiter([cond EXCEPT !.cancelled = @ \ {t}], t)
  <2>1. Cleaned(t) = d
    BY <1>3 DEF Cleaned
  <2>2. t \in cond.cancelled \/ t \notin Queued(cond.queue)
    BY <1>1, <1>2, <1>3 DEF SleepInv, PlaceKept
  <2>3. /\ d \in QueueRecord /\ d.queue = Without(cond.queue, t)
        /\ d.woken = cond.woken /\ d.cancelled = cond.cancelled \ {t}
        /\ LineOf(d) = LineOf(cond)
    BY <1>2, <2>2, LineCleaned
  <2> HIDE DEF d
  <2>4. LineOnce(d.queue) /\ Queued(d.queue) \subseteq Queued(cond.queue) \ {t}
    <3>1. cond.queue \in Seq(Caller \cup {None})
      BY <1>2 DEF QueueRecord
    <3> QED
      BY <1>2, <2>3, <3>1, LineLeft
  <2>5. /\ Queued(Line) = Queued(cond.queue) \ cond.cancelled
        /\ Queued(Line) = Queued(d.queue) \ d.cancelled
    BY <1>2, <2>3, LineShape DEF Line
  <2>6. \A u \in Caller \ {t} :
          u \in Queued(cond.queue) => u \in Queued(d.queue) \cup d.cancelled
    BY <2>3, <2>5
  <2>7. t \notin Queued(Line)
    BY <2>2, <2>5
  <2> QED
    BY <2>1, <2>3, <2>4, <2>6, <2>7 DEF Tidied, Line
<1>4. CASE t \notin dying
  <2>1. Cleaned(t) = cond /\ t \notin Queued(cond.queue) /\ t \notin cond.cancelled
    BY <1>1, <1>2, <1>4 DEF Cleaned
  <2>2. t \notin Queued(Line)
    BY <2>1, LineSeen
  <2> QED
    BY <1>2, <2>1, <2>2 DEF Tidied, Line
<1> QED
  BY <1>3, <1>4

\* After it there is nothing left to do.
LEMMA RegainingTidy ==
  ASSUME CondInv, SleepInv, NEW t \in Caller, at[t] = "regaining"
  PROVE  Tidied(cond, t)
<1>1. /\ cond \in QueueRecord /\ LineOnce(cond.queue)
      /\ t \notin Queued(cond.queue) /\ t \notin cond.cancelled
  BY DEF CondInv, ConditionTypeOK, SleepInv, LineKept
<1>2. t \notin Queued(Line)
  BY <1>1, LineSeen
<1> QED
  BY <1>1, <1>2 DEF Tidied, Line

\* The wait ends, and t holds again what it gave up.
LEMMA ReturnIsSeen ==
  ASSUME CondInv, SleepInv, CondInv', NEW t \in Caller, NEW c, Tidied(c, t), Returns(t, c),
         at[t] # "out", t \in cond.woken \cup Cancellable,
         call' = [call EXCEPT ![t] = "none"], dying' = dying \ {t},
         held' = [held EXCEPT ![t] = HeldOnce(mode[t])],
         IF mode[t] = "read" THEN Promise!AcquireRead(t) ELSE Promise!AcquireWrite(t)
  PROVE  SleepInv' /\ Seen
<1>1. /\ cond' = [c EXCEPT !.woken = @ \ {t}] /\ at' = [at EXCEPT ![t] = "out"]
      /\ mode' = [mode EXCEPT ![t] = "read"]
  BY DEF Returns
<1>2. /\ at \in [Caller -> Place] /\ mode \in [Caller -> Kind]
      /\ call \in [Caller -> Kind \cup {"none", "marker"}]
      /\ held \in [Caller -> [r : Nat, w : Nat]]
  BY DEF CondInv, ConditionTypeOK, IInv, ClientInv, ClientTypeOK
<1>3. /\ cond'.queue = c.queue /\ cond'.cancelled = cond.cancelled \ {t}
      /\ cond'.woken = cond.woken \ {t}
  BY <1>1 DEF Tidied, QueueRecord
<1>4. /\ LineOnce(c.queue) /\ Queued(c.queue) \subseteq Queued(cond.queue) \ {t}
      /\ \A u \in Caller \ {t} :
           u \in Queued(cond.queue) => u \in Queued(c.queue) \cup cond'.cancelled
      /\ t \notin Queued(Line) /\ LineOf(c) = Line
  BY <1>3 DEF Tidied
<1>5. LineKept'
  BY <1>1, <1>2, <1>3, <1>4 DEF SleepInv, LineKept
<1>6. PlaceKept(t)'
  BY <1>1, <1>2 DEF PlaceKept
<1>7. SleepInv'
  BY <1>1, <1>2, <1>3, <1>4, <1>5, <1>6, OthersPlaces
<1>8. Line' = Line
  <2>1. LineOf(cond') = LineOf(c)
    <3>1. cond'.queue = c.queue /\ cond'.cancelled = c.cancelled
      BY <1>3 DEF Tidied
    <3> QED
      BY <3>1 DEF LineOf, LivePlaces
  <2> QED
    BY <1>4, <2>1, LineAfter
<1>9. HeldOutside = held /\ HeldOutside' = held'
  BY <1>7, HeldSeen, SeenAfter
<1>10. /\ WaitOutside[t] = [stage |-> "apart", kind |-> mode[t], limited |-> t \in Cancellable]
       /\ WaitOutside' = [WaitOutside EXCEPT ![t] = Outside!Out]
  <2>1. WaitOutside[t] = [stage |-> "apart", kind |-> mode[t], limited |-> t \in Cancellable]
    BY PlaceSeen
  <2>2. WaitOutside' = [WaitOutside EXCEPT ![t] = Outside!Out]
    BY <1>1, <1>2, <1>7, PlaceSeen, SeenAfter
  <2> QED
    BY <2>1, <2>2
<1>11. /\ WaitOutside[t].stage = "apart" /\ WaitOutside[t].kind = mode[t]
       /\ t \in cond.woken \/ WaitOutside[t].limited
  <2>1. WaitOutside[t].stage = "apart" /\ WaitOutside[t].kind = mode[t]
    BY <1>10
  <2> QED
    BY <2>1, LimitSeen
<1>12. IF WaitOutside[t].kind = "read" THEN Outside!Lock!AcquireRead(t)
                                       ELSE Outside!Lock!AcquireWrite(t)
  BY <1>9, <1>11, LockSeen
<1>13. Outside!RegainAndReturn(t)
  BY <1>3, <1>4, <1>8, <1>10, <1>11, <1>12, LineSeen
     DEF Outside!RegainAndReturn, Outside!Leave
<1> QED
  BY <1>7, <1>13 DEF Seen, Outside!Next

\* Every way for the reacquire to end.
LEMMA RegainIsSeen ==
  ASSUME CondInv, SleepInv, NEW t \in Caller,
         \/ RegainAtOnce(t)
         \/ FinishRegain(t)
         \/ RegainAgain(t) /\ Enter(Aborted(t), t, mode[t]) /\ Returns(t, cond)
  PROVE  SleepInv' /\ Seen
<1>1. CondInv'
  BY RegainPart, RegainAgainPart
<1>2. mode[t] \in Kind /\ dying \subseteq Caller
  BY DEF CondInv, ConditionTypeOK, IInv
<1>3. CASE RegainAtOnce(t)
  <2>1. /\ Ready(t) /\ at[t] = "parked" /\ Enter(lock, t, mode[t]) /\ Returns(t, Cleaned(t))
        /\ dying' = dying \ {t}
    BY <1>3 DEF RegainAtOnce, Ready
  <2>2. held[t] = Nothing /\ t \in cond.woken \cup Cancellable /\ call[t] = "none"
    BY <2>1 DEF SleepInv, PlaceKept, Ready, CondInv, Places
  <2>3. lock \in LockRecord /\ SameHolds(lock, lock)
    BY DEF CondInv, IInv, ClientInv, ClientTypeOK, SameHolds
  <2>4. /\ Gains(t, mode[t]) /\ call' = [call EXCEPT ![t] = "none"]
        /\ Promise!AcquireRead(t) \/ Promise!AcquireWrite(t)
    BY <1>2, <2>1, <2>2, <2>3, EnterEffect DEF CondInv, IInv
  <2>5. /\ held' = [held EXCEPT ![t] = HeldOnce(mode[t])]
        /\ IF mode[t] = "read" THEN Promise!AcquireRead(t) ELSE Promise!AcquireWrite(t)
    BY <1>2, <2>2, <2>4, GainsOnce DEF CondInv, IInv
  <2> QED
    BY <1>1, <2>1, <2>2, <2>4, <2>5, CleanedTidies, ReturnIsSeen
<1>4. CASE FinishRegain(t)
  <2>1. /\ at[t] = "regaining" /\ ResumeAcquire(t) /\ Returns(t, cond)
        /\ t \notin dying /\ dying' = dying
    BY <1>4 DEF FinishRegain, ResumeAcquire
  <2>2. held[t] = Nothing /\ t \in cond.woken \cup Cancellable /\ call[t] = mode[t]
    BY <2>1 DEF SleepInv, PlaceKept, CondInv, Places
  <2>3. /\ Gains(t, mode[t]) /\ call' = [call EXCEPT ![t] = "none"]
        /\ Promise!AcquireRead(t) \/ Promise!AcquireWrite(t)
    BY <2>1, <2>2, ResumeAcquireStep DEF ResumeAcquire, Granted, CondInv, IInv
  <2>4. /\ held' = [held EXCEPT ![t] = HeldOnce(mode[t])]
        /\ IF mode[t] = "read" THEN Promise!AcquireRead(t) ELSE Promise!AcquireWrite(t)
    BY <1>2, <2>2, <2>3, GainsOnce DEF CondInv, IInv
  <2>5. dying' = dying \ {t}
    BY <2>1
  <2> QED
    BY <1>1, <2>1, <2>2, <2>3, <2>4, <2>5, RegainingTidy, ReturnIsSeen
<1>5. CASE RegainAgain(t) /\ Enter(Aborted(t), t, mode[t]) /\ Returns(t, cond)
  <2>1. at[t] = "regaining" /\ call[t] \in Kind /\ dying' = dying \ {t}
    BY <1>5 DEF RegainAgain, Awake
  <2>2. held[t] = Nothing /\ t \in cond.woken \cup Cancellable /\ call[t] = mode[t]
    BY <2>1 DEF SleepInv, PlaceKept, CondInv, Places
  <2>3. Aborted(t) \in LockRecord /\ SameHolds(Aborted(t), lock)
    BY <2>1, AbortedFrame DEF CondInv, IInv
  <2>4. /\ Gains(t, mode[t]) /\ call' = [call EXCEPT ![t] = "none"]
        /\ Promise!AcquireRead(t) \/ Promise!AcquireWrite(t)
    BY <1>2, <1>5, <2>2, <2>3, EnterEffect DEF CondInv, IInv
  <2>5. /\ held' = [held EXCEPT ![t] = HeldOnce(mode[t])]
        /\ IF mode[t] = "read" THEN Promise!AcquireRead(t) ELSE Promise!AcquireWrite(t)
    BY <1>2, <2>2, <2>4, GainsOnce DEF CondInv, IInv
  <2> QED
    BY <1>1, <1>5, <2>1, <2>2, <2>4, <2>5, RegainingTidy, ReturnIsSeen
<1> QED
  BY <1>3, <1>4, <1>5

\* A reacquire that has to queue up, at first or again, is seen by nobody.
LEMMA QueuingIsUnseen ==
  ASSUME CondInv, SleepInv, NEW t \in Caller,
         \/ StartRegain(t)
         \/ RegainAgain(t) /\ Queue(Aborted(t), t, mode[t]) /\ UNCHANGED sleepVars
  PROVE  SleepInv' /\ Seen
<1>1. CondInv'
  BY StartRegainPart, RegainAgainPart
<1>2. PICK c : c = IF StartRegain(t) THEN Cleaned(t) ELSE cond
  OBVIOUS
<1>3. /\ cond' = c /\ at[t] \in {"parked", "regaining"} /\ Tidied(c, t)
      /\ at' = [at EXCEPT ![t] = "regaining"] /\ mode' = mode
      /\ dying' = dying \ {t} /\ call' = [call EXCEPT ![t] = mode[t]] /\ held' = held
  <2>1. CASE StartRegain(t)
    BY <1>2, <2>1, CleanedTidies DEF StartRegain, Queue, Ready
  <2>2. CASE ~StartRegain(t)
    <3>1. at \in [Caller -> Place]
      BY DEF CondInv, ConditionTypeOK
    <3> QED
      BY <1>2, <2>2, <3>1, RegainingTidy DEF RegainAgain, Queue, sleepVars
  <2> QED
    BY <2>1, <2>2
<1>4. /\ at \in [Caller -> Place] /\ mode \in [Caller -> Kind]
      /\ call \in [Caller -> Kind \cup {"none", "marker"}]
  BY DEF CondInv, ConditionTypeOK, IInv, ClientInv, ClientTypeOK
<1>5. t \in cond.woken \cup Cancellable /\ held[t] = Nothing
  BY <1>3 DEF SleepInv, PlaceKept, StartRegain, Ready, RegainAgain
<1>6. LineKept'
  BY <1>3, <1>4 DEF SleepInv, LineKept, Tidied
<1>7. PlaceKept(t)'
  BY <1>3, <1>4, <1>5 DEF PlaceKept, Tidied
<1>8. SleepInv'
  BY <1>3, <1>4, <1>6, <1>7, OthersPlaces DEF Tidied
<1>9. Line' = Line /\ cond'.woken = cond.woken
  BY <1>3, LineAfter DEF Tidied
<1>10. \A u \in Caller : at'[u] = "out" <=> at[u] = "out"
  BY <1>3, <1>4
<1> QED
  BY <1>1, <1>3, <1>8, <1>9, <1>10, Unseen

\* Every step.
LEMMA CondStepSeen ==
  ASSUME CondInv, SleepInv, WaitsAfterDowngrade = {}, [CondNext]_condVars
  PROVE  SleepInv' /\ [Outside!Next]_Outside!vars
<1>1. ASSUME CondNext PROVE SleepInv' /\ Seen
  <2>1. PICK t \in Caller :
          \/ LockStep(t)
          \/ \E k \in Kind : EnterWait(t, k) \/ CallNotify(t, k)
          \/ CancelWait(t)
          \/ Regaining(t)
    BY <1>1 DEF CondNext
  <2>2. CASE LockStep(t)
    BY <2>2, LockIsSeen
  <2>3. ASSUME NEW k \in Kind, EnterWait(t, k) PROVE SleepInv' /\ Seen
    BY <2>3, EnterIsSeen
  <2>4. ASSUME NEW k \in Kind, CallNotify(t, k) PROVE SleepInv' /\ Seen
    BY <2>4, NotifyIsSeen
  <2>5. CASE CancelWait(t)
    BY <2>5, CancelIsSeen
  <2>6. CASE Regaining(t)
    BY <2>6, RegainIsSeen, QueuingIsUnseen DEF Regaining, RegainAgain
  <2> QED
    BY <2>1, <2>2, <2>3, <2>4, <2>5, <2>6
<1>2. CASE UNCHANGED condVars
  BY <1>2 DEF condVars, vars, clientVars, sleepVars, SleepInv, LineKept, PlaceKept,
              Outside!vars, HeldOutside, WaitOutside, Stage, Holds, Line, LineOf, LivePlaces
<1> QED
  BY <1>1, <1>2 DEF Seen

\* Only a notify takes waiters out of the deque while everybody stays where he is.
LEMMA NotifyStepReaches ==
  ASSUME CondInv, SleepInv, WaitsAfterDowngrade = {}, [CondNext]_condVars,
         Len(cond'.queue) < Len(cond.queue), at' = at, Line # << >>
  PROVE  Line[1] \in cond'.woken
<1>1. /\ at \in [Caller -> Place] /\ cond \in QueueRecord /\ Len(cond.queue) \in Nat
  BY DEF CondInv, ConditionTypeOK, QueueRecord
<1>2. cond' # cond
  BY <1>1
<1>3. CondNext
  BY <1>2 DEF condVars, sleepVars
<1>4. PICK t \in Caller :
        \/ LockStep(t)
        \/ \E k \in Kind : EnterWait(t, k) \/ CallNotify(t, k)
        \/ CancelWait(t)
        \/ Regaining(t)
  BY <1>3 DEF CondNext
<1>5. ~LockStep(t)
  BY <1>2 DEF LockStep, sleepVars
<1>6. ASSUME NEW k \in Kind, EnterWait(t, k) PROVE FALSE
  BY <1>1, <1>6 DEF EnterWait, CallsWait
<1>7. ~CancelWait(t)
  <2> SUFFICES ASSUME CancelWait(t) PROVE FALSE
    OBVIOUS
  <2>1. cond'.queue = cond.queue
    BY <1>1 DEF CancelWait, QueueRecord
  <2> QED
    BY <1>1, <2>1
<1>8. ~Regaining(t)
  BY <1>1, <1>2 DEF Regaining, RegainAtOnce, StartRegain, FinishRegain, RegainAgain, Ready,
                    Returns, sleepVars
<1>9. \E k \in Kind : CallNotify(t, k)
  BY <1>4, <1>5, <1>6, <1>7, <1>8
<1> QED
  BY <1>9, NotifyIsSeen

\* A new condition is a new abstract condition.
LEMMA CondInitSeen ==
  ASSUME CondInit
  PROVE  SleepInv /\ Outside!Init
<1>1. /\ held = [t \in Caller |-> [r |-> 0, w |-> 0]]
      /\ cond = [queue |-> << >>, woken |-> {}, cancelled |-> {}]
      /\ at = [t \in Caller |-> "out"] /\ dying = {}
  BY DEF CondInit, ConditionInit, Init, ClientInit
<1>2. SleepInv
  BY <1>1 DEF SleepInv, LineKept, LineOnce, PlaceKept, Queued
<1>3. HeldOutside = [t \in Caller |-> [r |-> 0, w |-> 0]]
  BY <1>1 DEF HeldOutside
<1>4. WaitOutside = [t \in Caller |-> Outside!Out]
  BY <1>1 DEF WaitOutside, Outside!Out
<1>5. Line = << >>
  <2>1. cond \in QueueRecord /\ Queued(cond.queue) = {}
    <3>1. << >> \in Seq(Caller \cup {None})
      OBVIOUS
    <3> QED
      BY <1>1, <3>1 DEF QueueRecord, Queued
  <2>2. Line \in Seq(Caller \cup {None}) /\ Queued(Line) = {}
    BY <2>1, LineShape DEF Line
  <2> QED
    BY <2>2, EmptySeq DEF Queued
<1> QED
  BY <1>1, <1>2, <1>3, <1>4, <1>5 DEF Outside!Init, Outside!Lock!Init

-----------------------------------------------------------------------------

\* wait() releases and enqueues as one step, a notify reaches the head of the line of
\* those not cancelled, and however often it is cancelled a wait returns with what it
\* gave up: the asyncio condition implements the abstract one.
THEOREM AsyncConditionRefinement ==
  ASSUME Disciplined, WaitsAfterDowngrade = {} PROVE CondSpec => RefinesCondition
<1>1. CondInit => SleepInv /\ Outside!Init
  BY CondInitSeen
<1>2. CondInv /\ SleepInv /\ [CondNext]_condVars
        => SleepInv' /\ [Outside!Next]_Outside!vars
  BY CondStepSeen
<1> QED
  BY <1>1, <1>2, AsyncCondInvariance, PTL DEF CondSpec, RefinesCondition, Outside!Spec

\* No notification is spent on cancelled tasks while another one waits.
THEOREM AsyncNotifyReaches ==
  ASSUME Disciplined, WaitsAfterDowngrade = {} PROVE CondSpec => NotifyReaches
<1>1. CondInit => SleepInv
  BY CondInitSeen
<1>2. CondInv /\ SleepInv /\ [CondNext]_condVars => SleepInv'
  BY CondStepSeen
<1>3. CondInv /\ SleepInv /\ [CondNext]_condVars
        => [Len(cond'.queue) < Len(cond.queue) /\ at' = at /\ Line # << >>
              => Line[1] \in cond'.woken]_cond
  BY NotifyStepReaches
<1> QED
  BY <1>1, <1>2, <1>3, AsyncCondInvariance, PTL DEF CondSpec, NotifyReaches

\* No task of a condition's lock waits in a circle, nor for one that sleeps in
\* wait(), though a wait() gives the lock up and reacquires it however often it is
\* cancelled.
THEOREM AsyncCondNoDeadlock ==
  ASSUME Disciplined, WaitsAfterDowngrade = {}
  PROVE  CondSpec => []SomebodyRuns({t \in Caller : Awake(t)})
<1>1. CondInit => SleepInv
  BY CondInitSeen
<1>2. CondInv /\ SleepInv /\ [CondNext]_condVars => SleepInv'
  BY CondStepSeen
<1>3. CondInv /\ WaitInv /\ SleepInv => SomebodyRuns({t \in Caller : Awake(t)})
  <2> SUFFICES ASSUME CondInv, WaitInv, SleepInv
               PROVE  SomebodyRuns({t \in Caller : Awake(t)})
    OBVIOUS
  <2>1. SomebodyMoves({t \in Caller : Awake(t)})
    BY WaitInvMoves DEF CondInv
  <2>2. \A t \in Caller : at[t] = "parked" => held[t] = Nothing
    BY DEF SleepInv, PlaceKept
  <2> QED
    BY <2>1, <2>2, SleepersMove
<1> QED
  BY <1>1, <1>2, <1>3, AsyncCondInvariance, AsyncCondWaitInvariance, PTL DEF CondSpec

=============================================================================

------------------------- MODULE ThreadRWLockProofs -------------------------
(***************************************************************************)
(* Mutual exclusion of the thread RWLock classes, the agreement of their   *)
(* attributes with the threads' holds, the routing of the downgrade marker *)
(* and the refinement of ReadersWriterLock, for every set of threads, all  *)
(* eight classes and every nesting bound.                                  *)
(***************************************************************************)
EXTENDS ThreadRWLock, LockClientsProofs

IInv == ClientInv /\ deadline \in [Caller -> Deadline]

-----------------------------------------------------------------------------
(* The steps of acquire; the others are those of LockClientsProofs.        *)

\* The fast path.
LEMMA TryAcquireStep ==
  ASSUME ClientInv, NEW t \in Caller, NEW k \in Kind, TryAcquire(t, k)
  PROVE  ClientInv' /\ (Promise!AcquireRead(t) \/ Promise!AcquireWrite(t))
<1>1. /\ CanAcquire(lock, k, t) /\ lock' = AcquireCore(lock, k, t)
      /\ Gains(t, k) /\ call[t] = "none" /\ UNCHANGED <<marker, downgraded>>
      /\ call' = [call EXCEPT ![t] = IF k = "write" THEN "marker" ELSE "none"]
  BY DEF TryAcquire, MayAsk, Idle, Granted
<1>2. lock \in LockRecord /\ SameHolds(lock, lock)
  BY DEF ClientInv, ClientTypeOK, SameHolds
<1>3. CASE k = "read"
  BY <1>1, <1>2, <1>3, AcquireStep
<1>4. CASE k = "write"
  BY <1>1, <1>2, <1>4, AcquireStep
<1> QED
  BY <1>3, <1>4 DEF Kind

\* Parking grants nothing.
LEMMA ParkStep ==
  ASSUME ClientInv, NEW t \in Caller, NEW k \in Kind, NEW d, Park(t, k, d)
  PROVE  ClientInv' /\ held' = held
<1>1. /\ lock' = Append1(Join(lock, k, t), k, t)
      /\ call' = [call EXCEPT ![t] = k] /\ call[t] = "none"
      /\ UNCHANGED <<marker, held, downgraded>>
  BY DEF Park, MayAsk, Idle
<1>2. Join(lock, k, t) \in LockRecord /\ SameHolds(Join(lock, k, t), lock)
  BY WaitFrame DEF ClientInv, ClientTypeOK
<1>3. lock' \in LockRecord /\ SameHolds(lock', Join(lock, k, t))
  BY <1>1, <1>2, WaitFrame
<1>4. SameHolds(lock', lock)
  BY <1>2, <1>3, SameHoldsTransitive
<1>5. /\ call' \in [Caller -> Kind \cup {"none", "marker"}]
      /\ \A u \in Caller : call'[u] = "marker" <=> call[u] = "marker"
  BY <1>1 DEF ClientInv, ClientTypeOK, Kind
<1> QED
  BY <1>1, <1>3, <1>4, <1>5, QuietStep

\* Giving up before the first wait grants nothing.
LEMMA GiveUpAtOnceStep ==
  ASSUME ClientInv, NEW t \in Caller, NEW k \in Kind, GiveUpAtOnce(t, k)
  PROVE  ClientInv' /\ held' = held
<1>1. /\ lock' = OnAbort(Leave(Join(lock, k, t), k, t), k, t)
      /\ UNCHANGED <<marker, call, held, downgraded>>
  BY DEF GiveUpAtOnce
<1>2. Join(lock, k, t) \in LockRecord /\ SameHolds(Join(lock, k, t), lock)
  BY WaitFrame DEF ClientInv, ClientTypeOK
<1>3. lock' \in LockRecord /\ SameHolds(lock', Join(lock, k, t))
  BY <1>1, <1>2, AbortEffect
<1>4. SameHolds(lock', lock)
  BY <1>2, <1>3, SameHoldsTransitive
<1>5. call' \in [Caller -> Kind \cup {"none", "marker"}]
  BY <1>1 DEF ClientInv, ClientTypeOK
<1> QED
  BY <1>1, <1>3, <1>4, <1>5, QuietStep

\* wait() on its way out touches its own waiter only.
LEMMA RetakenFrame ==
  ASSUME ClientInv, NEW t \in Caller, call[t] \in Kind
  PROVE  Retaken(t) \in LockRecord /\ SameHolds(Retaken(t), lock)
<1> DEFINE s == [lock EXCEPT !.woken = @ \ {t}]
<1>1. s \in LockRecord /\ SameHolds(s, lock)
  BY DEF ClientInv, ClientTypeOK, LockRecord, SameHolds
<1>2. Discard(s, call[t], t) \in LockRecord /\ SameHolds(Discard(s, call[t], t), s)
  BY <1>1, WaitFrame
<1>3. Retaken(t) = Discard(s, call[t], t)
  BY DEF Retaken
<1> HIDE DEF s
<1> QED
  BY <1>1, <1>2, <1>3, SameHoldsTransitive

\* A woken thread that finds the lock free gets it.
LEMMA ResumeAcquireStep ==
  ASSUME ClientInv, NEW t \in Caller, ResumeAcquire(t)
  PROVE  ClientInv' /\ (Promise!AcquireRead(t) \/ Promise!AcquireWrite(t))
<1>1. PICK k \in Kind : k = call[t]
  BY DEF ResumeAcquire, Awake
<1>2. /\ CanAcquire(Retaken(t), k, t) /\ Gains(t, k) /\ UNCHANGED <<marker, downgraded>>
      /\ lock' = Leave(AcquireCore(Retaken(t), k, t), k, t)
      /\ call' = [call EXCEPT ![t] = IF k = "write" THEN "marker" ELSE "none"]
  BY <1>1 DEF ResumeAcquire, Granted
<1>3. Retaken(t) \in LockRecord /\ SameHolds(Retaken(t), lock)
  BY <1>1, RetakenFrame
<1>4. CASE k = "read"
  BY <1>1, <1>2, <1>3, <1>4, AcquireStep
<1>5. CASE k = "write"
  BY <1>1, <1>2, <1>3, <1>5, AcquireStep
<1> QED
  BY <1>4, <1>5 DEF Kind

\* A woken thread that finds the lock taken parks again.
LEMMA ResumeParkStep ==
  ASSUME ClientInv, NEW t \in Caller, ResumePark(t)
  PROVE  ClientInv' /\ held' = held
<1>1. /\ call[t] \in Kind /\ lock' = Append1(Retaken(t), call[t], t)
      /\ UNCHANGED <<marker, call, held, downgraded>>
  BY DEF ResumePark, Awake
<1>2. Retaken(t) \in LockRecord /\ SameHolds(Retaken(t), lock)
  BY <1>1, RetakenFrame
<1>3. lock' \in LockRecord /\ SameHolds(lock', Retaken(t))
  BY <1>1, <1>2, WaitFrame
<1>4. SameHolds(lock', lock)
  BY <1>2, <1>3, SameHoldsTransitive
<1>5. call' \in [Caller -> Kind \cup {"none", "marker"}]
  BY <1>1 DEF ClientInv, ClientTypeOK
<1> QED
  BY <1>1, <1>3, <1>4, <1>5, QuietStep

\* Leaving the wait without the lock, after a timeout or an exception.
LEMMA AbortStep ==
  ASSUME ClientInv, NEW t \in Caller, call[t] \in Kind, Abort(t)
  PROVE  ClientInv' /\ held' = held
<1>1. /\ lock' = OnAbort(Leave(Retaken(t), call[t], t), call[t], t)
      /\ call' = [call EXCEPT ![t] = "none"]
      /\ UNCHANGED <<marker, held, downgraded>>
  BY DEF Abort
<1>2. Retaken(t) \in LockRecord /\ SameHolds(Retaken(t), lock)
  BY RetakenFrame
<1>3. lock' \in LockRecord /\ SameHolds(lock', Retaken(t))
  BY <1>1, <1>2, AbortEffect
<1>4. SameHolds(lock', lock)
  BY <1>2, <1>3, SameHoldsTransitive
<1>5. /\ call' \in [Caller -> Kind \cup {"none", "marker"}]
      /\ \A u \in Caller : call'[u] = "marker" <=> call[u] = "marker"
  BY <1>1 DEF ClientInv, ClientTypeOK, Kind
<1> QED
  BY <1>1, <1>3, <1>4, <1>5, QuietStep

\* The thread that leaves write.acquire() clears the marker; by then no other
\* thread can have a downgraded hold, for the write section excludes it.
LEMMA ClearMarkerStep ==
  ASSUME ClientInv, NEW t \in Caller, ClearMarker(t)
  PROVE  ClientInv' /\ held' = held
<1>1. /\ marker' = None /\ call[t] = "marker" /\ call' = [call EXCEPT ![t] = "none"]
      /\ lock' = lock /\ held' = held /\ downgraded' = downgraded
  BY DEF ClearMarker
<1>2. downgraded = {}
  <2>1. SUFFICES ASSUME NEW u \in downgraded PROVE FALSE
    OBVIOUS
  <2>2. u \in Caller /\ held[u].r > 0 /\ held[u].w = 0 /\ held[t].w > 0
    BY <1>1 DEF ClientInv, ClientTypeOK, MarkerRoutes
  <2>3. lock.writer = t
    BY <2>2 DEF ClientInv, HoldsAgree
  <2>4. lock.owners[u] = 0
    BY <2>2, <2>3, CallerAssumption DEF ClientInv, HoldsAgree, HoldsConsistent
  <2> QED
    BY <2>2, <2>4 DEF ClientInv, HoldsAgree
<1>3. ClientTypeOK'
  BY <1>1 DEF ClientInv, ClientTypeOK
<1>4. HoldsAgree' /\ DisciplinedLock'
  BY <1>1 DEF ClientInv, HoldsAgree, DisciplinedLock
<1>5. MarkerRoutes'
  BY <1>1, <1>2, CallerAssumption DEF ClientInv, ClientTypeOK, MarkerRoutes
<1> QED
  BY <1>1, <1>3, <1>4, <1>5 DEF ClientInv

-----------------------------------------------------------------------------
(* All steps.                                                              *)

\* A deadline stays one of the three, whatever the step.
LEMMA DeadlineType ==
  ASSUME IInv, Next
  PROVE  deadline' \in [Caller -> Deadline]
<1>1. \E t \in Caller, d \in Deadline :
        deadline' = deadline \/ deadline' = [deadline EXCEPT ![t] = d]
  BY DEF Next, Acquiring, TryAcquire, Park, GiveUpAtOnce, Expire, Resume,
         ResumeAcquire, ResumePark, ResumeAbort, Interrupt, Abort, Granted,
         ClearMarker, ReadRelease, WriteRelease, Downgrade, Deadline
<1> QED
  BY <1>1 DEF IInv

\* Every step keeps the invariant, and is a step of the abstract lock or changes
\* no hold.
LEMMA NextStep ==
  ASSUME IInv, [Next]_vars
  PROVE  IInv' /\ [Promise!Next]_held
<1> DEFINE Good == ClientInv' /\ [Promise!Next]_held
<1> USE DEF IInv
<1>1. ASSUME NEW t \in Caller, NEW k \in Kind, Acquiring(t, k) PROVE Good
  <2>1. CASE TryAcquire(t, k)
    BY <2>1, TryAcquireStep DEF Promise!Next
  <2>2. CASE \E d \in {"none", "ahead"} : Park(t, k, d)
    BY <2>2, ParkStep
  <2>3. CASE GiveUpAtOnce(t, k)
    BY <2>3, GiveUpAtOnceStep
  <2> QED
    BY <1>1, <2>1, <2>2, <2>3 DEF Acquiring
<1>2. ASSUME NEW t \in Caller, Expire(t) PROVE Good
  <2>1. UNCHANGED clientVars
    BY <1>2 DEF Expire
  <2> QED
    BY <2>1 DEF clientVars, ClientInv, ClientTypeOK, HoldsAgree, MarkerRoutes,
                DisciplinedLock
<1>3. ASSUME NEW t \in Caller, Resume(t) PROVE Good
  <2>1. CASE ResumeAcquire(t)
    BY <2>1, ResumeAcquireStep DEF Promise!Next
  <2>2. CASE ResumePark(t)
    BY <2>2, ResumeParkStep
  <2>3. CASE ResumeAbort(t)
    BY <2>3, AbortStep DEF ResumeAbort, Awake
  <2> QED
    BY <1>3, <2>1, <2>2, <2>3 DEF Resume
<1>4. ASSUME NEW t \in Caller, Interrupt(t) PROVE Good
  BY <1>4, AbortStep DEF Interrupt
<1>5. ASSUME NEW t \in Caller, ClearMarker(t) PROVE Good
  BY <1>5, ClearMarkerStep
<1>6. ASSUME NEW t \in Caller, ReadRelease(t) PROVE Good
  BY <1>6, EndReadStep DEF ReadRelease, Promise!Next
<1>7. ASSUME NEW t \in Caller, WriteRelease(t) PROVE Good
  <2>1. CASE EndDowngraded(t)
    BY <2>1, EndDowngradedStep DEF Promise!Next
  <2>2. CASE EndWrite(t)
    BY <2>2, EndWriteStep DEF Promise!Next
  <2>3. CASE EndRefused(t)
    BY <2>3, EndRefusedStep
  <2> QED
    BY <1>7, <2>1, <2>2, <2>3 DEF WriteRelease
<1>8. ASSUME NEW t \in Caller, Downgrade(t) PROVE Good
  BY <1>8, WriteToReadStep DEF Downgrade, Promise!Next
<1>9. CASE Next
  <2>1. Good
    BY <1>1, <1>2, <1>3, <1>4, <1>5, <1>6, <1>7, <1>8, <1>9 DEF Next
  <2> QED
    BY <1>9, <2>1, DeadlineType
<1>10. CASE UNCHANGED vars
  BY <1>10 DEF vars, clientVars, ClientInv, ClientTypeOK, HoldsAgree, MarkerRoutes,
               DisciplinedLock
<1> QED
  BY <1>9, <1>10

-----------------------------------------------------------------------------
(* The waiting threads: the queues, the readers' phase and the wakeups.     *)

\* The threads that are on their way out of the wait, woken or not.
Late == {t \in Caller : deadline[t] = "passed"}

\* Nobody cancels a thread.
WaitInv == WaitersCounted /\ Kept(lock, Late) /\ lock.cancelled = {}

\* wait() is over: t is counted and in no queue.
LEMMA RetakenBusy ==
  ASSUME ClientInv, WaitInv, NEW t \in Caller, NEW k \in Kind, call[t] = k,
         NEW E, Late \ {t} \subseteq E
  PROVE  /\ Busy(Retaken(t), t, k, E) /\ SameHolds(Retaken(t), lock)
         /\ Retaken(t).waiting = lock.waiting /\ Retaken(t).cancelled = {}
<1> DEFINE s == Retaken(t)
           c == {}
<1>1. lock \in LockRecord /\ t \in lock.waiting[k] /\ Kept(lock, Late) /\ lock.cancelled = c
  BY DEF ClientInv, ClientTypeOK, WaitInv, WaitersCounted
<1>2. Unmarked(lock, t, c) = [lock EXCEPT !.woken = @ \ {t}]
  BY <1>1 DEF Unmarked, LockRecord
<1>3. s = Discard(Unmarked(lock, t, c), k, t)
  BY <1>2 DEF Retaken
<1>4. c \in SUBSET Caller /\ lock.cancelled \subseteq c \cup {t} /\ c \subseteq E
  BY <1>1
<1> HIDE DEF c, s
<1>5. LET d == Discard(Unmarked(lock, t, c), k, t)
      IN  Busy(d, t, k, E) /\ SameHolds(d, lock) /\ d.waiting = lock.waiting /\ d.cancelled = c
  BY <1>1, <1>4, RetakeBusy
<1> QED
  BY <1>3, <1>5 DEF s, c

\* What a step that changes no deadline but t's, to d, does to Late.
LEMMA LateFrame ==
  ASSUME IInv, NEW t \in Caller, NEW d \in Deadline, deadline' = [deadline EXCEPT ![t] = d]
  PROVE  Late' = IF d = "passed" THEN Late \cup {t} ELSE Late \ {t}
BY DEF IInv, Late

\* The fast path.
LEMMA TryAcquireWaits ==
  ASSUME IInv, WaitInv, NEW t \in Caller, NEW k \in Kind, TryAcquire(t, k)
  PROVE  WaitInv'
<1>1. /\ call[t] = "none" /\ CanAcquire(lock, k, t) /\ lock' = AcquireCore(lock, k, t)
      /\ Gains(t, k) /\ deadline' = [deadline EXCEPT ![t] = "none"]
  BY DEF TryAcquire, MayAsk, Idle, Granted
<1>2. PICK v \in {"none", "marker"} : call' = [call EXCEPT ![t] = v]
  BY DEF TryAcquire, Granted
<1>3. Late' = Late \ {t}
  BY <1>1, LateFrame DEF Deadline
<1>4. ClientInv /\ WaitersCounted /\ Kept(lock, Late) /\ lock.cancelled = {}
  BY DEF IInv, WaitInv
<1>5. WaitersCounted' /\ Kept(lock', Late') /\ lock'.cancelled = lock.cancelled
  BY <1>1, <1>2, <1>3, <1>4, ClientEnters
<1> QED
  BY <1>4, <1>5 DEF WaitInv

\* The slow path up to the wait.
LEMMA ParkWaits ==
  ASSUME IInv, WaitInv, NEW t \in Caller, NEW k \in Kind,
         NEW d \in {"none", "ahead"}, Park(t, k, d)
  PROVE  WaitInv'
<1>1. /\ call[t] = "none" /\ ~Refused(lock, k, t) /\ ~CanAcquire(lock, k, t)
      /\ lock' = Append1(Join(lock, k, t), k, t) /\ call' = [call EXCEPT ![t] = k]
      /\ held' = held /\ deadline' = [deadline EXCEPT ![t] = d]
  BY DEF Park, MayAsk, Idle
<1>2. Late' = Late \ {t}
  BY <1>1, LateFrame DEF Deadline
<1>3. ClientInv /\ WaitersCounted /\ Kept(lock, Late) /\ lock.cancelled = {}
  BY DEF IInv, WaitInv
<1>4. WaitersCounted' /\ Kept(lock', Late') /\ lock'.cancelled = lock.cancelled
  BY <1>1, <1>2, <1>3, ClientParks
<1> QED
  BY <1>3, <1>4 DEF WaitInv

\* A thread that counts itself only to give up leaves no trace in the queues.
LEMMA GiveUpAtOnceWaits ==
  ASSUME IInv, WaitInv, NEW t \in Caller, NEW k \in Kind, GiveUpAtOnce(t, k)
  PROVE  WaitInv'
<1> DEFINE s == Join(lock, k, t)
<1>1. /\ call[t] = "none" /\ lock' = OnAbort(Leave(s, k, t), k, t)
      /\ UNCHANGED <<call, held, deadline>>
  BY DEF GiveUpAtOnce, MayAsk, Idle
<1>2. lock \in LockRecord /\ WaitersCounted /\ Kept(lock, Late) /\ lock.cancelled = {}
  BY DEF IInv, WaitInv, ClientInv, ClientTypeOK
<1>3. \A j \in Kind : t \notin lock.waiting[j]
  BY <1>1, <1>2, IdleWaitsNowhere DEF Kind
<1>4. /\ Busy(s, t, k, Late) /\ s.cancelled = {}
      /\ s.waiting = [lock.waiting EXCEPT ![k] = @ \cup {t}]
  BY <1>2, <1>3, JoinBusy
<1>5. s \in LockRecord /\ SameHolds(s, lock)
  BY <1>2, WaitFrame
<1> HIDE DEF s
<1>6. /\ Kept(lock', Late) /\ lock'.cancelled = {}
      /\ lock'.waiting = [s.waiting EXCEPT ![k] = @ \ {t}]
  BY <1>1, <1>4, AbortKeeps
<1>7. SameHolds(lock', s)
  BY <1>1, <1>5, AbortEffect
<1>8. SameHolds(lock', lock)
  BY <1>5, <1>7, SameHoldsTransitive
<1>9. \A j \in Kind : lock'.waiting[j] = lock.waiting[j]
  BY <1>2, <1>3, <1>4, <1>6 DEF LockRecord
<1>10. WaitersCounted'
  BY <1>1, <1>2, <1>8, <1>9, WaitersQuiet DEF WaitersCounted
<1>11. Late' = Late
  BY <1>1 DEF Late
<1> QED
  BY <1>6, <1>10, <1>11 DEF WaitInv

\* A deadline passes: one more thread is on its way out.
LEMMA ExpireWaits ==
  ASSUME IInv, WaitInv, NEW t \in Caller, Expire(t)
  PROVE  WaitInv'
<1>1. UNCHANGED <<lock, call, held>> /\ deadline' = [deadline EXCEPT ![t] = "passed"]
  BY DEF Expire, clientVars
<1>2. Late \subseteq Late'
  BY <1>1, LateFrame DEF Deadline
<1>3. Kept(lock, Late')
  BY <1>2, KeptByMore DEF WaitInv
<1> QED
  BY <1>1, <1>3 DEF WaitInv, WaitersCounted

\* A thread that is back from its wait acquires, parks again or gives up.
LEMMA ResumeWaits ==
  ASSUME IInv, WaitInv, NEW t \in Caller, Resume(t) \/ Interrupt(t)
  PROVE  WaitInv'
<1> DEFINE k == call[t]
           s == Retaken(t)
<1>1. k \in Kind
  BY DEF Resume, ResumeAcquire, ResumePark, ResumeAbort, Awake, Interrupt
<1>2. ClientInv /\ WaitersCounted
  BY DEF IInv, WaitInv
<1>3. \A E : Late \ {t} \subseteq E =>
               /\ Busy(s, t, k, E) /\ SameHolds(s, lock)
               /\ s.waiting = lock.waiting /\ s.cancelled = {}
  BY <1>1, <1>2, RetakenBusy
<1>4. CASE ResumeAcquire(t)
  <2>1. /\ CanAcquire(s, k, t) /\ lock' = Leave(AcquireCore(s, k, t), k, t)
        /\ Gains(t, k) /\ deadline' = [deadline EXCEPT ![t] = "none"]
    BY <1>4 DEF ResumeAcquire, Granted
  <2>2. PICK v \in {"none", "marker"} : call' = [call EXCEPT ![t] = v]
    BY <1>4 DEF ResumeAcquire, Granted
  <2>3. Late' = Late \ {t}
    BY <2>1, LateFrame DEF Deadline
  <2>4. k = call[t]
    OBVIOUS
  <2> HIDE DEF s, k
  <2>5. /\ Busy(s, t, k, Late') /\ SameHolds(s, lock)
        /\ s.waiting = lock.waiting /\ s.cancelled = {}
    BY <1>3, <2>3
  <2>6. WaitersCounted' /\ Kept(lock', Late') /\ lock'.cancelled = s.cancelled
    BY <1>1, <1>2, <2>1, <2>2, <2>4, <2>5, ClientResumes
  <2> QED
    BY <2>5, <2>6 DEF WaitInv
<1>5. CASE ResumePark(t)
  <2>1. /\ ~CanAcquire(s, k, t) /\ lock' = Append1(s, k, t)
        /\ UNCHANGED <<call, held, deadline>>
    BY <1>5 DEF ResumePark
  <2>2. Late' = Late
    BY <2>1 DEF Late
  <2> HIDE DEF s, k
  <2>3. /\ Busy(s, t, k, Late') /\ SameHolds(s, lock)
        /\ s.waiting = lock.waiting /\ s.cancelled = {}
    BY <1>3, <2>2
  <2>4. WaitersCounted' /\ Kept(lock', Late') /\ lock'.cancelled = s.cancelled
    BY <1>1, <1>2, <2>1, <2>3, ClientParksAgain
  <2> QED
    BY <2>3, <2>4 DEF WaitInv
<1>6. CASE Abort(t)
  <2>1. /\ lock' = OnAbort(Leave(s, k, t), k, t) /\ call' = [call EXCEPT ![t] = "none"]
        /\ held' = held /\ deadline' = [deadline EXCEPT ![t] = "none"]
    BY <1>6 DEF Abort
  <2>2. Late' = Late \ {t}
    BY <2>1, LateFrame DEF Deadline
  <2>3. k = call[t]
    OBVIOUS
  <2> HIDE DEF s, k
  <2>4. /\ Busy(s, t, k, Late') /\ SameHolds(s, lock)
        /\ s.waiting = lock.waiting /\ s.cancelled = {}
    BY <1>3, <2>2
  <2>5. WaitersCounted' /\ Kept(lock', Late') /\ lock'.cancelled = s.cancelled
    BY <1>1, <1>2, <2>1, <2>3, <2>4, ClientAborts
  <2> QED
    BY <2>4, <2>5 DEF WaitInv
<1> QED
  BY <1>4, <1>5, <1>6 DEF Resume, ResumeAbort, Interrupt

\* Every step.
LEMMA WaitStep ==
  ASSUME IInv, WaitInv, [Next]_vars
  PROVE  WaitInv'
<1> USE DEF IInv
<1>1. ASSUME NEW t \in Caller, NEW k \in Kind, Acquiring(t, k) PROVE WaitInv'
  BY <1>1, TryAcquireWaits, ParkWaits, GiveUpAtOnceWaits DEF Acquiring
<1>2. ASSUME NEW t \in Caller, Expire(t) PROVE WaitInv'
  BY <1>2, ExpireWaits
<1>3. ASSUME NEW t \in Caller, Resume(t) \/ Interrupt(t) PROVE WaitInv'
  BY <1>3, ResumeWaits
<1>4. ASSUME NEW t \in Caller, ClearMarker(t) PROVE WaitInv'
  <2>1. /\ call[t] = "marker" /\ call' = [call EXCEPT ![t] = "none"]
        /\ UNCHANGED <<lock, held, deadline>>
    BY <1>4 DEF ClearMarker
  <2>2. \A u \in Caller, k \in Kind : call'[u] = k <=> call[u] = k
    BY <2>1 DEF ClientInv, ClientTypeOK, Kind
  <2>3. WaitersCounted'
    BY <2>1, <2>2 DEF WaitInv, WaitersCounted
  <2> QED
    BY <2>1, <2>3 DEF WaitInv, Late
<1>5. ASSUME NEW t \in Caller, ReadRelease(t) \/ WriteRelease(t) \/ Downgrade(t)
      PROVE  WaitInv'
  <2>1. /\ deadline' = deadline
        /\ EndRead(t) \/ EndDowngraded(t) \/ EndWrite(t) \/ EndRefused(t) \/ WriteToRead(t)
    BY <1>5 DEF ReadRelease, WriteRelease, Downgrade
  <2>2. Late' = Late
    BY <2>1 DEF Late
  <2>3. WaitersCounted' /\ Kept(lock', Late) /\ lock'.cancelled = lock.cancelled
    BY <2>1, WaitersRelease DEF WaitInv
  <2> QED
    BY <2>2, <2>3 DEF WaitInv
<1>6. CASE Next
  BY <1>1, <1>2, <1>3, <1>4, <1>5, <1>6 DEF Next
<1>7. CASE UNCHANGED vars
  BY <1>7 DEF vars, clientVars, WaitInv, WaitersCounted, Late
<1> QED
  BY <1>6, <1>7

-----------------------------------------------------------------------------
(* The theorems.                                                           *)

\* The inductive invariant, of every behaviour of the classes.
THEOREM Invariance == ASSUME Disciplined PROVE Spec => []IInv
<1>1. Init => IInv
  BY ClientInitInv DEF Init, IInv, Deadline
<1>2. IInv /\ [Next]_vars => IInv'
  BY NextStep
<1> QED
  BY <1>1, <1>2, PTL DEF Spec

\* Type correctness: in particular no counter of the code goes below zero, so
\* no release is ever let through that has no acquire to match.
THEOREM TypeCorrect == ASSUME Disciplined PROVE Spec => []TypeOK
<1>1. IInv => TypeOK
  BY DEF IInv, ClientInv, TypeOK
<1> QED
  BY <1>1, Invariance, PTL

\* The attributes of the lock agree with what the threads hold.
THEOREM HoldsAlwaysAgree == ASSUME Disciplined PROVE Spec => []HoldsAgree
<1>1. IInv => HoldsAgree
  BY DEF IInv, ClientInv
<1> QED
  BY <1>1, Invariance, PTL

\* The downgrade marker always routes write.release() to the right core.
THEOREM MarkerAlwaysRoutes == ASSUME Disciplined PROVE Spec => []MarkerRoutes
<1>1. IInv => MarkerRoutes
  BY DEF IInv, ClientInv
<1> QED
  BY <1>1, Invariance, PTL

\* A write section ends only by its own thread's release or downgrade.
THEOREM WriteSectionAlwaysKept == ASSUME Disciplined PROVE Spec => []WriteSectionKept
<1>1. IInv => WriteSectionKept
  BY ClientInvExcludes DEF IInv
<1> QED
  BY <1>1, Invariance, PTL

\* A thread inside a write section is alone.
THEOREM Exclusion == ASSUME Disciplined PROVE Spec => []MutualExclusion
<1>1. IInv => MutualExclusion
  BY ClientInvExcludes DEF IInv
<1> QED
  BY <1>1, Invariance, PTL

\* The classes implement the abstract readers-writer lock: every critical
\* section of the code is one legal step of it, or leaves the holds as they are.
THEOREM Refinement == ASSUME Disciplined PROVE Spec => RefinesLock
<1>1. Init => Promise!Init
  BY DEF Init, ClientInit, Promise!Init
<1>2. IInv /\ [Next]_vars => [Promise!Next]_held
  BY NextStep
<1> QED
  BY <1>1, <1>2, Invariance, PTL DEF Spec, RefinesLock, Promise!Spec

\* The waits are in order, in every behaviour of the classes.
THEOREM WaitInvariance == ASSUME Disciplined PROVE Spec => [](IInv /\ WaitInv)
<1>1. Init => IInv /\ WaitInv
  BY ClientInitInv, WaitersInit DEF Init, IInv, Deadline, WaitInv
<1>2. IInv /\ WaitInv /\ [Next]_vars => IInv' /\ WaitInv'
  BY NextStep, WaitStep
<1> QED
  BY <1>1, <1>2, PTL DEF Spec

\* What the invariant says of the waits: those awake are the woken and the late.
LEMMA WaitInvAgrees ==
  ASSUME IInv, WaitInv
  PROVE  QueuesAgree /\ PhaseAgrees /\ NoLostWakeup
<1> DEFINE awake == {t \in Caller : Awake(t)}
<1>1. \A t \in Caller : call[t] \in Kind /\ t \in lock.woken \cup Late => t \in awake
  BY DEF Awake, Late
<1> HIDE DEF awake
<1>2. QueuesAgree /\ PhaseAgrees /\ WakeupKept(awake)
  BY <1>1, WaitersAgree DEF IInv, WaitInv
<1> QED
  BY <1>2 DEF NoLostWakeup, awake

\* Every waiting thread is counted once, and stands once in its deque until a
\* notify releases it: no timeout and no interrupt leaves a waiter behind.
THEOREM QueuesAlwaysAgree == ASSUME Disciplined PROVE Spec => []QueuesAgree
BY WaitInvariance, WaitInvAgrees, PTL

\* The fair classes' phase never outlives its readers, and never loses a slot.
THEOREM PhaseAlwaysAgrees == ASSUME Disciplined PROVE Spec => []PhaseAgrees
BY WaitInvariance, WaitInvAgrees, PTL

\* No thread sleeps on a lock that it could have, unless another one is awake to
\* pass the wakeup on.
THEOREM WakeupAlwaysKept == ASSUME Disciplined PROVE Spec => []NoLostWakeup
BY WaitInvariance, WaitInvAgrees, PTL

\* The threads of a lock never all wait for each other, timeouts and interrupts
\* included: its policies, its phases and its upgrade check leave no circle.
THEOREM NoDeadlock ==
  ASSUME Disciplined PROVE Spec => []SomebodyMoves({t \in Caller : Awake(t)})
<1> DEFINE awake == {t \in Caller : Awake(t)}
<1>1. IInv /\ WaitInv => SomebodyMoves(awake)
  <2> SUFFICES ASSUME IInv, WaitInv PROVE SomebodyMoves(awake)
    OBVIOUS
  <2>1. \A t \in Caller : call[t] \in Kind /\ t \in lock.woken \cup Late => t \in awake
    BY DEF Awake, Late
  <2> HIDE DEF awake
  <2> QED
    BY <2>1, WaitersMove DEF IInv, WaitInv
<1> QED
  BY <1>1, WaitInvariance, PTL

=============================================================================

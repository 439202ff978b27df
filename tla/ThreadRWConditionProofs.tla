---------------------- MODULE ThreadRWConditionProofs ----------------------
(***************************************************************************)
(* What the thread RWCondition does to its lock, other callers of the lock *)
(* may do too.  So every theorem about ThreadRWLock holds of the lock of a *)
(* condition, for every set of threads and all eight classes, as long as   *)
(* no block waits after it has downgraded.                                 *)
(***************************************************************************)
EXTENDS ThreadRWCondition, ThreadRWLockProofs, ConditionClientsProofs

\* wait() in mode "write" would end a downgraded block in the middle of it, so
\* the argument needs that no caller inside wait() has downgraded its hold.
CondInv ==
  /\ ConditionTypeOK
  /\ got \subseteq Caller
  /\ limit \in [Caller -> Deadline]
  /\ \A t \in Caller : at[t] # "out" => t \notin downgraded

-----------------------------------------------------------------------------
(* The steps.                                                              *)

\* A step of the lock alone, inside of wait() or outside.  A caller inside of
\* wait() does not downgrade.
LEMMA LockPart ==
  ASSUME CondInv, NEW t \in Caller, LockStep(t) \/ Regain(t)
  PROVE  CondInv' /\ Next
<1>1. UNCHANGED sleepVars
  BY DEF LockStep, Regain
<1>2. Next
  <2>1. CASE LockStep(t)
    BY <2>1 DEF LockStep, Next
  <2>2. CASE Regain(t)
    <3>1. mode[t] \in Kind
      BY DEF CondInv, ConditionTypeOK
    <3>2. Acquiring(t, mode[t])
      BY <2>2 DEF Regain, Acquiring
    <3> QED
      BY <3>1, <3>2 DEF Next
  <2> QED
    BY <2>1, <2>2
<1>3. downgraded' \subseteq downgraded \/ (at[t] = "out" /\ downgraded' = downgraded \cup {t})
  <2>1. CASE at[t] = "out" /\ Downgrade(t)
    BY <2>1 DEF Downgrade, WriteToRead
  <2>2. CASE ~(at[t] = "out" /\ Downgrade(t))
    BY <2>2 DEF LockStep, Regain, Acquiring, TryAcquire, Park, GiveUpAtOnce,
                Granted, Interrupt, Abort, ReadRelease, EndRead, WriteRelease,
                EndDowngraded, EndWrite, EndRefused, Expire, clientVars, Resume,
                ResumeAcquire, ResumePark, ResumeAbort, ClearMarker
  <2> QED
    BY <2>1, <2>2
<1> QED
  BY <1>1, <1>2, <1>3 DEF CondInv, ConditionTypeOK, sleepVars

\* release() in wait(), through the proxy of its mode: for a caller that has not
\* downgraded, the ordinary release.
LEMMA LetGoPart ==
  ASSUME CondInv, NEW t \in Caller, LetGo(t)
  PROVE  CondInv' /\ Next
<1>1. /\ at' = [at EXCEPT ![t] = "parked"] /\ UNCHANGED <<cond, mode, got, limit>>
      /\ t \notin downgraded
  BY DEF LetGo, CondInv
<1>2. (ReadRelease(t) \/ WriteRelease(t)) /\ downgraded' \subseteq downgraded
  <2>1. CASE mode[t] = "read"
    BY <1>1, <2>1 DEF LetGo, ReleaseRead, ReadRelease, EndRead
  <2>2. CASE mode[t] # "read"
    BY <2>2 DEF LetGo, WriteRelease, EndDowngraded, EndWrite
  <2> QED
    BY <2>1, <2>2
<1>3. Next
  BY <1>2 DEF Next
<1>4. at' \in [Caller -> Place]
  BY <1>1 DEF CondInv, ConditionTypeOK, Place
<1> QED
  BY <1>1, <1>2, <1>3, <1>4 DEF CondInv, ConditionTypeOK

\* An exception in the reacquire: for the lock, an interrupted acquire like any
\* other; in the condition's queue, a waiter without a thread.
LEMMA FailPart ==
  ASSUME CondInv, NEW t \in Caller, FailRegain(t)
  PROVE  CondInv' /\ Next
<1> USE DEF CondInv, ConditionTypeOK
<1> DEFINE q    == cond.queue
           left == [i \in 1 .. Len(q) |-> IF q[i] = t THEN None ELSE q[i]]
<1>1. /\ Interrupt(t) /\ cond' = [cond EXCEPT !.queue = left, !.woken = @ \ {t}]
      /\ at' = [at EXCEPT ![t] = "out"] /\ mode' = [mode EXCEPT ![t] = "read"]
      /\ got' = got \ {t} /\ limit' = [limit EXCEPT ![t] = "none"]
  BY DEF FailRegain
<1>2. q \in Seq(Caller \cup {None})
  BY DEF QueueRecord
<1>3. left \in Seq(Caller \cup {None})
  <2>1. Len(q) \in Nat /\ \A i \in 1 .. Len(q) : q[i] \in Caller \cup {None}
    BY <1>2
  <2>2. left \in [1 .. Len(q) -> Caller \cup {None}]
    BY <2>1
  <2> QED
    BY <2>1, <2>2, SeqDef
<1>4. cond' \in QueueRecord
  BY <1>1, <1>3 DEF QueueRecord
<1>5. downgraded' = downgraded
  BY <1>1 DEF Interrupt, Abort
<1>6. Next
  BY <1>1 DEF Next
<1> QED
  BY <1>1, <1>4, <1>5, <1>6 DEF Place, Kind, Deadline

\* The steps of wait() and notify() that touch the condition only.
LEMMA SleepPart ==
  ASSUME CondInv, WaitsAfterDowngrade = {}, NEW t \in Caller,
         \/ \E k \in Kind, d \in {"none", "ahead"} : EnterWait(t, k, d)
         \/ PassLimit(t)
         \/ WakeUp(t)
         \/ TimeOut(t)
         \/ LeaveWait(t)
         \/ \E k \in Kind : CallNotify(t, k)
  PROVE  CondInv' /\ UNCHANGED vars
<1> USE DEF CondInv, ConditionTypeOK
<1>1. ASSUME NEW k \in Kind, NEW d \in {"none", "ahead"}, EnterWait(t, k, d)
      PROVE  CondInv' /\ UNCHANGED vars
  <2>1. /\ cond' = AddWaiter(cond, t) /\ at' = [at EXCEPT ![t] = "entering"]
        /\ mode' = [mode EXCEPT ![t] = k] /\ limit' = [limit EXCEPT ![t] = d]
        /\ got' = got /\ UNCHANGED vars
    BY <1>1 DEF EnterWait
  <2>2. t \notin downgraded
    BY <1>1 DEF EnterWait, CallsWait
  <2>3. cond' \in QueueRecord
    BY <2>1, WaiterType
  <2>4. /\ at' \in [Caller -> Place] /\ mode' \in [Caller -> Kind]
        /\ limit' \in [Caller -> Deadline]
    BY <2>1 DEF Place, Deadline
  <2>5. \A u \in Caller : at'[u] # "out" => u \notin downgraded'
    BY <2>1, <2>2 DEF vars, clientVars
  <2> QED
    BY <2>1, <2>3, <2>4, <2>5
<1>2. ASSUME PassLimit(t) PROVE CondInv' /\ UNCHANGED vars
  BY <1>2 DEF PassLimit, Deadline, vars, clientVars
<1>3. ASSUME WakeUp(t) \/ TimeOut(t) PROVE CondInv' /\ UNCHANGED vars
  BY <1>3 DEF WakeUp, TimeOut, Place, vars, clientVars
<1>4. ASSUME LeaveWait(t) PROVE CondInv' /\ UNCHANGED vars
  <2> DEFINE gone == [cond EXCEPT !.woken = @ \ {t}]
  <2>1. /\ cond' = IF t \in got THEN gone ELSE RemoveWaiter(gone, t)
        /\ at' = [at EXCEPT ![t] = "out"] /\ mode' = [mode EXCEPT ![t] = "read"]
        /\ got' = got \ {t} /\ limit' = [limit EXCEPT ![t] = "none"]
        /\ UNCHANGED vars
    BY <1>4 DEF LeaveWait
  <2>2. gone \in QueueRecord
    BY DEF QueueRecord
  <2>3. cond' \in QueueRecord
    BY <2>1, <2>2, WaiterType
  <2> QED
    BY <2>1, <2>3 DEF Place, Kind, Deadline, vars, clientVars
<1>5. ASSUME NEW k \in Kind, CallNotify(t, k) PROVE CondInv' /\ UNCHANGED vars
  <2>1. /\ \E n \in 1 .. Len(cond.queue) : cond' = Signal(cond, n)
        /\ UNCHANGED <<at, mode, got, limit>> /\ UNCHANGED vars
    BY <1>5 DEF CallNotify, NotifyWaiters, vars
  <2>2. cond' \in QueueRecord
    BY <2>1, SignalType
  <2> QED
    BY <2>1, <2>2 DEF vars, clientVars
<1> QED
  BY <1>1, <1>2, <1>3, <1>4, <1>5

\* Every step of the condition is a step of its lock, or leaves the lock alone.
LEMMA CondStep ==
  ASSUME CondInv, WaitsAfterDowngrade = {}, [CondNext]_condVars
  PROVE  CondInv' /\ [Next]_vars
<1>1. CASE CondNext
  <2>1. PICK t \in Caller :
          \/ LockStep(t)
          \/ \E k \in Kind, d \in {"none", "ahead"} : EnterWait(t, k, d)
          \/ PassLimit(t)
          \/ Waiting(t)
          \/ FailRegain(t)
          \/ \E k \in Kind : CallNotify(t, k)
    BY <1>1 DEF CondNext
  <2>2. CASE LockStep(t) \/ Regain(t)
    BY <2>2, LockPart
  <2>3. CASE LetGo(t)
    BY <2>3, LetGoPart
  <2>4. CASE FailRegain(t)
    BY <2>4, FailPart
  <2>5. CASE ~(LockStep(t) \/ Regain(t) \/ LetGo(t) \/ FailRegain(t))
    BY <2>1, <2>5, SleepPart DEF Waiting
  <2> QED
    BY <2>2, <2>3, <2>4, <2>5
<1>2. CASE UNCHANGED condVars
  BY <1>2 DEF condVars, sleepVars, CondInv, ConditionTypeOK, vars, clientVars
<1> QED
  BY <1>1, <1>2

-----------------------------------------------------------------------------
(* The theorems.                                                           *)

\* The invariant of the condition's own state.
THEOREM CondInvariance == ASSUME WaitsAfterDowngrade = {} PROVE CondSpec => []CondInv
<1>1. CondInit => CondInv
  <2>1. << >> \in Seq(Caller)
    OBVIOUS
  <2> QED
    BY <2>1 DEF CondInit, ConditionInit, CondInv, ConditionTypeOK, QueueRecord, Place,
                Kind, Deadline
<1>2. CondInv /\ [CondNext]_condVars => CondInv'
  BY CondStep
<1> QED
  BY <1>1, <1>2, PTL DEF CondSpec

\* A condition uses its lock as any client may: wait() and notify() add no step
\* to those of ThreadRWLock.
THEOREM ConditionUsesLock ==
  ASSUME WaitsAfterDowngrade = {} PROVE CondSpec => UsesLock
<1>1. CondInit => Init
  BY DEF CondInit
<1>2. CondInv /\ [CondNext]_condVars => [Next]_vars
  BY CondStep
<1> QED
  BY <1>1, <1>2, CondInvariance, PTL DEF CondSpec, UsesLock, Spec

\* Type correctness of the lock and of the condition's queue.
THEOREM CondTypeCorrect ==
  ASSUME Disciplined, WaitsAfterDowngrade = {} PROVE CondSpec => []CondTypeOK
<1>1. CondInv /\ TypeOK => CondTypeOK
  BY DEF CondInv, CondTypeOK
<1> QED
  BY <1>1, CondInvariance, ConditionUsesLock, TypeCorrect, PTL DEF UsesLock

\* Whatever waits, notifies and times out, a thread inside a write section is alone.
THEOREM CondExclusion ==
  ASSUME Disciplined, WaitsAfterDowngrade = {} PROVE CondSpec => []MutualExclusion
BY ConditionUsesLock, Exclusion, PTL DEF UsesLock

\* write.release() is routed right in every block that does not wait after its
\* downgrade; the run of DowngradedRoutes shows that it is not in the others.
THEOREM CondMarkerRoutes ==
  ASSUME Disciplined, WaitsAfterDowngrade = {} PROVE CondSpec => []MarkerRoutes
BY ConditionUsesLock, MarkerAlwaysRoutes, PTL DEF UsesLock

\* A wait() that times out, is interrupted or is notified too late keeps no wakeup
\* of its lock to itself.
THEOREM CondWakeupKept ==
  ASSUME Disciplined, WaitsAfterDowngrade = {} PROVE CondSpec => []NoLostWakeup
BY ConditionUsesLock, WakeupAlwaysKept, PTL DEF UsesLock

\* A release that ends a downgraded block is routed to the read core, through a
\* condition, too, if the block has not waited meanwhile.
THEOREM CondDowngradedRoutes ==
  ASSUME Disciplined, WaitsAfterDowngrade = {} PROVE CondSpec => []DowngradedRoutes
<1>1. TypeOK /\ HoldsAgree /\ MarkerRoutes => DowngradedRoutes
  BY DEF TypeOK, ClientTypeOK, HoldsAgree, MarkerRoutes, DowngradedRoutes, RoutedToRead
<1> QED
  BY <1>1, ConditionUsesLock, TypeCorrect, HoldsAlwaysAgree, MarkerAlwaysRoutes, PTL
  DEF UsesLock

\* No reacquire of wait(), timed out or interrupted, leaves a waiter behind in the
\* lock's deques.
THEOREM CondQueuesAgree ==
  ASSUME Disciplined, WaitsAfterDowngrade = {} PROVE CondSpec => []QueuesAgree
BY ConditionUsesLock, QueuesAlwaysAgree, PTL DEF UsesLock

\* A thread that comes back from wait() into a readers' phase is counted in it as
\* any other reader is: the phase keeps exactly the slots that are not used.
THEOREM CondPhaseAgrees ==
  ASSUME Disciplined, WaitsAfterDowngrade = {} PROVE CondSpec => []PhaseAgrees
BY ConditionUsesLock, PhaseAlwaysAgrees, PTL DEF UsesLock

-----------------------------------------------------------------------------
(* The waiters.                                                            *)

\* A wait that fails leaves its waiter to nobody.
LEMMA LineAbandoned ==
  ASSUME NEW q \in Seq(Caller \cup {None}), LineOnce(q), NEW t \in Caller
  PROVE  LET r == [i \in 1 .. Len(q) |-> IF q[i] = t THEN None ELSE q[i]]
         IN  LineOnce(r) /\ Queued(r) \cap Caller \subseteq Queued(q) \ {t}
<1> DEFINE r == [i \in 1 .. Len(q) |-> IF q[i] = t THEN None ELSE q[i]]
<1>1. Len(q) \in Nat /\ None \notin Caller
  BY CallerAssumption
<1>2. Len(r) = Len(q)
  BY <1>1
<1>3. \A i \in 1 .. Len(q) : r[i] = IF q[i] = t THEN None ELSE q[i]
  OBVIOUS
<1> HIDE DEF r
<1>4. LineOnce(r)
  BY <1>1, <1>2, <1>3 DEF LineOnce
<1>5. Queued(r) \cap Caller \subseteq Queued(q) \ {t}
  BY <1>1, <1>2, <1>3 DEF Queued
<1> QED
  BY <1>4, <1>5 DEF r

\* No future of a thread is cancelled: notify(n) pops the first n waiters.
LEMMA LineSignalled ==
  ASSUME cond \in QueueRecord, cond.cancelled = {}, LineOnce(cond.queue),
         NEW n \in 1 .. Len(cond.queue)
  PROVE  LET q    == cond.queue
             head == {q[i] : i \in 1 .. n} \ {None}
             rest == SubSeq(q, n + 1, Len(q))
         IN  /\ Signal(cond, n) = [cond EXCEPT !.queue = rest, !.woken = @ \cup head]
             /\ LineOnce(rest)
             /\ Queued(rest) \subseteq Queued(q) \ head
             /\ head \subseteq Queued(q)
<1> DEFINE q    == cond.queue
           head == {q[i] : i \in 1 .. n} \ {None}
           rest == SubSeq(q, n + 1, Len(q))
           pop  == Popped(q, n, {})
<1>1. q \in Seq(Caller \cup {None})
  BY DEF QueueRecord
<1>2. Len(q) \in Nat /\ \A i \in 1 .. Len(q) : q[i] \in Caller \cup {None}
  BY <1>1
<1>3. pop = 1 .. n
  <2>1. ASSUME NEW i \in 1 .. Len(q)
        PROVE  Cardinality({j \in 1 .. (i - 1) : q[j] \notin {}}) = i - 1
    <3> DEFINE S == {j \in 1 .. (i - 1) : q[j] \notin {}}
    <3>1. S = 1 .. (i - 1)
      OBVIOUS
    <3>2. 1 \in Int /\ i - 1 \in Int /\ i - 1 >= 0
      BY <1>2
    <3>3. Cardinality(1 .. (i - 1)) = IF 1 > i - 1 THEN 0 ELSE (i - 1) - 1 + 1
      BY <3>2, FS_Interval
    <3> HIDE DEF S
    <3>4. Cardinality(S) = i - 1
      BY <3>1, <3>2, <3>3
    <3> QED
      BY <3>4 DEF S
  <2>2. pop = {i \in 1 .. Len(q) : i - 1 < n}
    BY <2>1 DEF Popped
  <2> HIDE DEF pop
  <2> QED
    BY <1>2, <2>2
<1>4. Cardinality(pop) = n
  <2>1. n \in Nat /\ n >= 1
    BY <1>2
  <2>2. Cardinality(1 .. n) = IF 1 > n THEN 0 ELSE n - 1 + 1
    BY <2>1, FS_Interval
  <2> HIDE DEF pop
  <2> QED
    BY <1>3, <2>1, <2>2
<1>5. Signal(cond, n) = [cond EXCEPT !.queue = rest, !.woken = @ \cup head]
  <2> HIDE DEF pop
  <2>1. Signal(cond, n) = [cond EXCEPT !.queue = SubSeq(@, Cardinality(pop) + 1, Len(@)),
                                       !.woken = @ \cup ({q[i] : i \in pop} \ ({} \cup {None}))]
    BY DEF Signal, pop
  <2> QED
    BY <1>3, <1>4, <2>1
<1>6. n \in 0 .. Len(q)
  BY <1>2
<1> QED
  BY <1>1, <1>5, <1>6, LineRest

-----------------------------------------------------------------------------
(* Where a thread is in wait(), and what it holds there.                   *)

\* A notified thread, and one outside of wait(), has no waiter in the deque.
LineKept ==
  /\ cond.cancelled = {}
  /\ LineOnce(cond.queue)
  /\ \A t \in Caller :
       /\ at[t] = "out" => t \notin cond.woken /\ t \notin Queued(cond.queue)
       /\ t \in cond.woken \cup got => t \notin Queued(cond.queue)
       /\ t \in got => at[t] = "regaining"

\* wait() gives up the one hold it was called with, and has it again at its end.
PlaceKept(t) ==
  /\ at[t] = "entering" => call[t] = "none" /\ held[t] = HeldOnce(mode[t])
  /\ at[t] = "parked" => call[t] = "none" /\ held[t] = Nothing
  /\ at[t] = "regaining" =>
       /\ t \in cond.woken \/ Limited(t)
       /\ \/ call[t] \in {"none", mode[t]} /\ held[t] = Nothing
          \/ call[t] \in {"none", "marker"} /\ held[t] = HeldOnce(mode[t])

SleepInv == LineKept /\ \A t \in Caller : PlaceKept(t)

\* A step of t is nothing to the place of another thread.
LEMMA OthersPlaces ==
  ASSUME SleepInv, NEW t \in Caller, LineKept', PlaceKept(t)',
         \A u \in Caller \ {t} :
           /\ at'[u] = at[u] /\ mode'[u] = mode[u] /\ call'[u] = call[u]
           /\ held'[u] = held[u] /\ (limit'[u] # "none" <=> limit[u] # "none")
           /\ u \in cond.woken => u \in cond'.woken
  PROVE  SleepInv'
<1>1. ASSUME NEW u \in Caller \ {t} PROVE PlaceKept(u)'
  BY DEF SleepInv, PlaceKept, Limited
<1> QED
  BY <1>1 DEF SleepInv

\* Who a step of the lock is about.
LEMMA LockFrame ==
  ASSUME IInv, NEW t \in Caller,
         LockStep(t) \/ Regain(t) \/ LetGo(t) \/ FailRegain(t)
  PROVE  \A u \in Caller \ {t} : call'[u] = call[u] /\ held'[u] = held[u]
<1>1. held \in [Caller -> [r : Nat, w : Nat]] /\ call \in [Caller -> Kind \cup {"none", "marker"}]
  BY DEF IInv, ClientInv, ClientTypeOK
<1>2. call' = call \/ \E v : call' = [call EXCEPT ![t] = v]
  BY DEF LockStep, Regain, LetGo, FailRegain, Acquiring, TryAcquire, Park, GiveUpAtOnce,
         Granted, Interrupt, Abort, ReadRelease, EndRead, ReleaseRead, WriteRelease,
         EndDowngraded, EndWrite, EndRefused, Downgrade, WriteToRead, Expire, clientVars,
         Resume, ResumeAcquire, ResumePark, ResumeAbort, ClearMarker
<1>3. held' = held \/ \E v : held' = [held EXCEPT ![t] = v]
  <2>1. CASE held' = held \/ \E k : Gains(t, k) \/ Loses(t, k)
    BY <2>1, <1>1 DEF Gains, Loses
  <2>2. CASE WriteToRead(t)
    BY <2>2 DEF WriteToRead
  <2> QED
    BY <2>1, <2>2
       DEF LockStep, Regain, LetGo, FailRegain, Acquiring, TryAcquire, Park, GiveUpAtOnce,
           Granted, Interrupt, Abort, ReadRelease, EndRead, ReleaseRead, WriteRelease,
           EndDowngraded, EndWrite, EndRefused, Downgrade, Expire, clientVars,
           Resume, ResumeAcquire, ResumePark, ResumeAbort, ClearMarker
<1> QED
  BY <1>1, <1>2, <1>3

\* What a thread outside of wait() does to its holds is a step of the abstract lock.
LEMMA LockStepIs ==
  ASSUME IInv, NEW t \in Caller, LockStep(t)
  PROVE  \/ Promise!AcquireRead(t)
         \/ Promise!AcquireWrite(t)
         \/ Promise!ReleaseRead(t)
         \/ Promise!ReleaseWrite(t)
         \/ Promise!Downgrade(t)
         \/ held' = held
<1> USE DEF IInv
<1>1. CASE \E k \in Kind : Acquiring(t, k)
  BY <1>1, TryAcquireStep DEF Acquiring, Park, GiveUpAtOnce
<1>2. CASE Resume(t)
  BY <1>2, ResumeAcquireStep DEF Resume, ResumePark, ResumeAbort, Abort
<1>3. CASE ReadRelease(t)
  BY <1>3, EndReadStep DEF ReadRelease
<1>4. CASE WriteRelease(t)
  BY <1>4, EndDowngradedStep, EndWriteStep DEF WriteRelease, EndRefused
<1>5. CASE Downgrade(t)
  BY <1>5, WriteToReadStep DEF Downgrade
<1>6. CASE Interrupt(t) \/ Expire(t) \/ ClearMarker(t)
  BY <1>6 DEF Interrupt, Abort, Expire, clientVars, ClearMarker
<1> QED
  BY <1>1, <1>2, <1>3, <1>4, <1>5, <1>6 DEF LockStep

\* The reacquire has again the hold that wait() gave up, or changes no hold.
Regained(t) ==
  /\ held[t] = Nothing
  /\ held' = [held EXCEPT ![t] = HeldOnce(mode[t])]
  /\ call'[t] \in {"none", "marker"}
  /\ IF mode[t] = "read" THEN Promise!AcquireRead(t) ELSE Promise!AcquireWrite(t)

StillWaits(t) ==
  /\ held' = held
  /\ call'[t] \in {call[t], "none"} \/ (held[t] = Nothing /\ call'[t] = mode[t])

\* What acquire did, by the kind of the hold that it gained.
LEMMA GainIs ==
  ASSUME IInv, NEW t \in Caller, mode[t] \in Kind, held[t] = Nothing, Gains(t, mode[t]),
         call'[t] \in {"none", "marker"}, Promise!AcquireRead(t) \/ Promise!AcquireWrite(t)
  PROVE  Regained(t)
BY GainsOnce DEF IInv, Regained

\* Inside of wait(), t steps on the lock for its reacquire only.
LEMMA ReacquireIs ==
  ASSUME IInv, CondInv, NEW t \in Caller, PlaceKept(t), at[t] # "out", LockStep(t) \/ Regain(t)
  PROVE  at[t] = "regaining" /\ (Regained(t) \/ StillWaits(t))
<1>1. mode[t] \in Kind /\ at[t] \in Place /\ call \in [Caller -> Kind \cup {"none", "marker"}]
  BY DEF IInv, ClientInv, ClientTypeOK, CondInv, ConditionTypeOK
<1>2. at[t] = "regaining"
  BY <1>1 DEF LockStep, Regain, PlaceKept, Expire, Resume, ResumeAcquire, ResumePark,
              ResumeAbort, Awake, ClearMarker, Kind, Place
<1>3. CASE Regain(t)
  <2>1. held[t] = Nothing
    BY <1>3 DEF Regain, Holds, Nothing
  <2>2. CASE TryAcquire(t, mode[t])
    <3>1. /\ Gains(t, mode[t])
          /\ Promise!AcquireRead(t) \/ Promise!AcquireWrite(t)
          /\ call' = [call EXCEPT ![t] = IF mode[t] = "write" THEN "marker" ELSE "none"]
      BY <1>1, <2>2, TryAcquireStep DEF TryAcquire, Granted, IInv
    <3>2. call'[t] \in {"none", "marker"}
      BY <1>1, <3>1
    <3> QED
      BY <1>1, <1>2, <2>1, <3>1, <3>2, GainIs
  <2>3. CASE Park(t, mode[t], "none")
    <3>1. held' = held /\ call' = [call EXCEPT ![t] = mode[t]]
      BY <2>3 DEF Park
    <3> QED
      BY <1>1, <1>2, <2>1, <3>1 DEF StillWaits
  <2> QED
    BY <1>3, <2>2, <2>3 DEF Regain
<1>4. CASE ResumeAcquire(t)
  <2>1. /\ Gains(t, call[t]) /\ call[t] \in Kind
        /\ call' = [call EXCEPT ![t] = IF call[t] = "write" THEN "marker" ELSE "none"]
    BY <1>4 DEF ResumeAcquire, Granted, Awake
  <2>2. Promise!AcquireRead(t) \/ Promise!AcquireWrite(t)
    BY <1>4, ResumeAcquireStep DEF IInv
  <2>3. call[t] = mode[t] /\ held[t] = Nothing
    BY <1>2, <2>1 DEF PlaceKept, Kind
  <2>4. call'[t] \in {"none", "marker"}
    BY <1>1, <2>1
  <2> QED
    BY <1>1, <1>2, <2>1, <2>2, <2>3, <2>4, GainIs
<1>5. CASE ResumePark(t) \/ ResumeAbort(t) \/ Expire(t) \/ ClearMarker(t)
  BY <1>1, <1>2, <1>5 DEF ResumePark, ResumeAbort, Abort, Expire, clientVars, ClearMarker,
                          StillWaits
<1>6. Regain(t) \/ Resume(t) \/ Expire(t) \/ ClearMarker(t)
  BY DEF LockStep
<1> QED
  BY <1>3, <1>4, <1>5, <1>6 DEF Resume

-----------------------------------------------------------------------------
(* The steps keep the deque and the places.                                *)

\* The lock, outside of wait() or in its reacquire.
LEMMA SleepLock ==
  ASSUME IInv, CondInv, SleepInv, NEW t \in Caller, LockStep(t) \/ Regain(t)
  PROVE  SleepInv'
<1>1. UNCHANGED sleepVars
  BY DEF LockStep, Regain
<1>2. LineKept'
  BY <1>1 DEF SleepInv, LineKept, sleepVars
<1>3. PlaceKept(t)'
  <2>1. CASE at[t] = "out"
    BY <1>1, <2>1 DEF PlaceKept, sleepVars
  <2>2. CASE at[t] # "out"
    <3>1. at[t] = "regaining" /\ (Regained(t) \/ StillWaits(t)) /\ PlaceKept(t)
      BY <2>2, ReacquireIs DEF SleepInv
    <3>2. UNCHANGED <<cond, at, mode, limit>>
      BY <1>1 DEF sleepVars
    <3>3. held \in [Caller -> [r : Nat, w : Nat]]
      BY DEF IInv, ClientInv, ClientTypeOK
    <3>4. CASE Regained(t)
      BY <3>1, <3>2, <3>3, <3>4 DEF Regained, PlaceKept, Limited
    <3>5. CASE StillWaits(t)
      BY <3>1, <3>2, <3>5 DEF StillWaits, PlaceKept, Limited
    <3> QED
      BY <3>1, <3>4, <3>5
  <2> QED
    BY <2>1, <2>2
<1>4. \A u \in Caller \ {t} : call'[u] = call[u] /\ held'[u] = held[u]
  BY LockFrame
<1> QED
  BY <1>1, <1>2, <1>3, <1>4, OthersPlaces DEF sleepVars

\* release() in wait() gives up the one hold.
LEMMA LetGoIs ==
  ASSUME IInv, CondInv, SleepInv, NEW t \in Caller, LetGo(t)
  PROVE  /\ held[t] = HeldOnce(mode[t]) /\ held' = [held EXCEPT ![t] = Nothing]
         /\ call' = call /\ call[t] = "none"
<1>1. held[t] = HeldOnce(mode[t]) /\ call[t] = "none" /\ mode[t] \in Kind
  BY DEF LetGo, SleepInv, PlaceKept, CondInv, ConditionTypeOK
<1> QED
  BY <1>1, GivesUp DEF LetGo, IInv

LEMMA SleepLetGo ==
  ASSUME IInv, CondInv, SleepInv, NEW t \in Caller, LetGo(t)
  PROVE  SleepInv'
<1>1. held' = [held EXCEPT ![t] = Nothing] /\ call' = call /\ call[t] = "none"
  BY LetGoIs
<1>2. /\ at[t] = "entering" /\ at' = [at EXCEPT ![t] = "parked"]
      /\ UNCHANGED <<cond, mode, got, limit>>
  BY DEF LetGo
<1>3. held \in [Caller -> [r : Nat, w : Nat]] /\ at \in [Caller -> Place]
  BY DEF IInv, ClientInv, ClientTypeOK, CondInv, ConditionTypeOK
<1>4. LineKept'
  BY <1>2, <1>3 DEF SleepInv, LineKept
<1>5. PlaceKept(t)'
  BY <1>1, <1>2, <1>3 DEF PlaceKept
<1> QED
  BY <1>1, <1>2, <1>3, <1>4, <1>5, OthersPlaces

\* An exception in the reacquire leaves the waiter of t to nobody.
LEMMA SleepFail ==
  ASSUME IInv, CondInv, SleepInv, NEW t \in Caller, FailRegain(t)
  PROVE  SleepInv'
<1> DEFINE q    == cond.queue
           left == [i \in 1 .. Len(q) |-> IF q[i] = t THEN None ELSE q[i]]
<1>1. /\ cond' = [cond EXCEPT !.queue = left, !.woken = @ \ {t}]
      /\ at[t] = "regaining" /\ at' = [at EXCEPT ![t] = "out"]
      /\ mode' = [mode EXCEPT ![t] = "read"] /\ got' = got \ {t}
      /\ limit' = [limit EXCEPT ![t] = "none"]
  BY DEF FailRegain
<1>2. /\ cond \in QueueRecord /\ q \in Seq(Caller \cup {None})
      /\ at \in [Caller -> Place] /\ mode \in [Caller -> Kind]
      /\ got \subseteq Caller /\ limit \in [Caller -> Deadline]
  BY DEF CondInv, ConditionTypeOK, QueueRecord
<1>3. LineOnce(q)
  BY DEF SleepInv, LineKept
<1>4. LineOnce(left) /\ Queued(left) \cap Caller \subseteq Queued(q) \ {t}
  BY <1>2, <1>3, LineAbandoned
<1> HIDE DEF left
<1>5. cond'.queue = left /\ cond'.woken = cond.woken \ {t} /\ cond'.cancelled = cond.cancelled
  BY <1>1, <1>2 DEF QueueRecord
<1>6. LineKept'
  BY <1>1, <1>2, <1>4, <1>5 DEF SleepInv, LineKept
<1>7. PlaceKept(t)'
  BY <1>1, <1>2 DEF PlaceKept
<1>8. \A u \in Caller \ {t} : call'[u] = call[u] /\ held'[u] = held[u]
  BY LockFrame
<1> QED
  BY <1>1, <1>2, <1>5, <1>6, <1>7, <1>8, OthersPlaces

LEMMA SleepEnter ==
  ASSUME IInv, CondInv, SleepInv, NEW t \in Caller, NEW k \in Kind, NEW d \in Deadline,
         EnterWait(t, k, d)
  PROVE  SleepInv'
<1> DEFINE q == cond.queue
<1>1. /\ CallsWait(t, k) /\ cond' = AddWaiter(cond, t)
      /\ at[t] = "out" /\ call[t] = "none"
      /\ at' = [at EXCEPT ![t] = "entering"] /\ mode' = [mode EXCEPT ![t] = k]
      /\ limit' = [limit EXCEPT ![t] = d] /\ got' = got
      /\ call' = call /\ held' = held
  BY DEF EnterWait, CallsWait, Idle, vars, clientVars
<1>2. /\ cond \in QueueRecord /\ q \in Seq(Caller \cup {None})
      /\ at \in [Caller -> Place] /\ mode \in [Caller -> Kind]
      /\ limit \in [Caller -> Deadline]
  BY DEF CondInv, ConditionTypeOK, QueueRecord
<1>3. cond'.queue = Append(q, t) /\ cond'.woken = cond.woken /\ cond'.cancelled = cond.cancelled
  BY <1>1, <1>2 DEF AddWaiter, QueueRecord
<1>4. LineOnce(q) /\ t \notin Queued(q)
  BY <1>1 DEF SleepInv, LineKept
<1>5. LineOnce(Append(q, t)) /\ Queued(Append(q, t)) = Queued(q) \cup {t}
  BY <1>2, <1>4, LineJoined
<1>6. LineKept'
  BY <1>1, <1>2, <1>3, <1>5 DEF SleepInv, LineKept
<1>7. PlaceKept(t)'
  BY <1>1, <1>2, WaiterHolds DEF PlaceKept, IInv
<1> QED
  BY <1>1, <1>2, <1>3, <1>6, <1>7, OthersPlaces

\* PassLimit, WakeUp, TimeOut: t looks at its own waiter and its own clock.
LEMMA SleepSleeps ==
  ASSUME IInv, CondInv, SleepInv, NEW t \in Caller, PassLimit(t) \/ WakeUp(t) \/ TimeOut(t)
  PROVE  SleepInv'
<1>1. /\ at[t] = "parked" /\ UNCHANGED <<cond, mode, call, held>>
      /\ at' = at \/ at' = [at EXCEPT ![t] = "regaining"]
  BY DEF PassLimit, WakeUp, TimeOut, vars, clientVars
<1>2. /\ at \in [Caller -> Place] /\ limit \in [Caller -> Deadline]
      /\ got \subseteq Caller
  BY DEF CondInv, ConditionTypeOK
<1>3. \A u \in Caller : limit'[u] # "none" <=> limit[u] # "none"
  BY <1>2 DEF PassLimit, WakeUp, TimeOut
<1>4. got' = got \/ (t \in cond.woken /\ got' = got \cup {t} /\ at' = [at EXCEPT ![t] = "regaining"])
  BY DEF PassLimit, WakeUp, TimeOut
<1>5. LineKept'
  BY <1>1, <1>2, <1>4 DEF SleepInv, LineKept
<1>6. at' # at => t \in cond.woken \/ Limited(t)
  BY DEF PassLimit, WakeUp, TimeOut, Limited
<1>7. PlaceKept(t)'
  BY <1>1, <1>2, <1>3, <1>6 DEF SleepInv, PlaceKept, Limited
<1> QED
  BY <1>1, <1>2, <1>3, <1>5, <1>7, OthersPlaces

\* The end of wait(): remove_waiter, unless the waiter was popped.
LEMMA SleepLeave ==
  ASSUME IInv, CondInv, SleepInv, NEW t \in Caller, LeaveWait(t)
  PROVE  SleepInv' /\ cond'.queue = Without(cond.queue, t) /\ cond'.woken = cond.woken \ {t}
<1> DEFINE q == cond.queue
<1>1. /\ cond' = IF t \in got THEN [cond EXCEPT !.woken = @ \ {t}]
                 ELSE RemoveWaiter([cond EXCEPT !.woken = @ \ {t}], t)
      /\ at' = [at EXCEPT ![t] = "out"] /\ mode' = [mode EXCEPT ![t] = "read"]
      /\ got' = got \ {t} /\ limit' = [limit EXCEPT ![t] = "none"]
      /\ call' = call /\ held' = held
  BY DEF LeaveWait, vars, clientVars
<1>2. /\ cond \in QueueRecord /\ q \in Seq(Caller \cup {None})
      /\ at \in [Caller -> Place] /\ mode \in [Caller -> Kind]
      /\ got \subseteq Caller /\ limit \in [Caller -> Deadline]
  BY DEF CondInv, ConditionTypeOK, QueueRecord
<1>3. LineOnce(q)
  BY DEF SleepInv, LineKept
<1>4. LineOnce(Without(q, t)) /\ Queued(Without(q, t)) \subseteq Queued(q) \ {t}
  BY <1>2, <1>3, LineLeft
<1>5. t \in got => Without(q, t) = q
  BY DEF SleepInv, LineKept, Without, Queued
<1>6. /\ cond'.queue = Without(q, t) /\ cond'.woken = cond.woken \ {t}
      /\ cond'.cancelled = cond.cancelled
  BY <1>1, <1>2, <1>5 DEF RemoveWaiter, QueueRecord
<1>7. LineKept'
  BY <1>1, <1>2, <1>4, <1>6 DEF SleepInv, LineKept
<1>8. PlaceKept(t)'
  BY <1>1, <1>2 DEF PlaceKept
<1> QED
  BY <1>1, <1>2, <1>6, <1>7, <1>8, OthersPlaces

\* notify(n) and notify_all() pop the head of the deque.
LEMMA SleepNotify ==
  ASSUME IInv, CondInv, SleepInv, NEW t \in Caller, NEW k \in Kind, CallNotify(t, k)
  PROVE  SleepInv'
<1> DEFINE q == cond.queue
<1>1. /\ UNCHANGED <<at, mode, got, limit, call, held>>
      /\ \E n \in 1 .. Len(q) : cond' = Signal(cond, n)
  BY DEF CallNotify, NotifyWaiters, clientVars
<1>2. PICK n \in 1 .. Len(q) : cond' = Signal(cond, n)
  BY <1>1
<1>3. cond \in QueueRecord /\ cond.cancelled = {} /\ LineOnce(q)
  BY DEF CondInv, ConditionTypeOK, SleepInv, LineKept
<1> DEFINE head == {q[i] : i \in 1 .. n} \ {None}
           rest == SubSeq(q, n + 1, Len(q))
<1>4. /\ cond' = [cond EXCEPT !.queue = rest, !.woken = @ \cup head]
      /\ LineOnce(rest) /\ Queued(rest) \subseteq Queued(q) \ head
      /\ head \subseteq Queued(q)
  BY <1>2, <1>3, LineSignalled
<1> HIDE DEF head, rest
<1>5. /\ cond'.queue = rest /\ cond'.woken = cond.woken \cup head
      /\ cond'.cancelled = cond.cancelled
  BY <1>3, <1>4 DEF QueueRecord
<1>6. LineKept'
  BY <1>1, <1>4, <1>5 DEF SleepInv, LineKept
<1>7. PlaceKept(t)'
  BY <1>1, <1>5 DEF SleepInv, PlaceKept, Limited
<1> QED
  BY <1>1, <1>5, <1>6, <1>7, OthersPlaces

-----------------------------------------------------------------------------
(* Each step, seen from outside, is one of the abstract condition.         *)

\* A step of t shows in nothing of another thread.
LEMMA OthersSeen ==
  ASSUME NEW t \in Caller,
         \A u \in Caller \ {t} :
           /\ at'[u] = at[u] /\ mode'[u] = mode[u] /\ held'[u] = held[u]
           /\ limit'[u] # "none" <=> limit[u] # "none"
  PROVE  /\ HeldOutside' = [HeldOutside EXCEPT ![t] = HeldOutside'[t]]
         /\ WaitOutside' = [WaitOutside EXCEPT ![t] = WaitOutside'[t]]
<1>1. \A u \in Caller \ {t} : HeldOutside'[u] = HeldOutside[u]
  BY DEF HeldOutside
<1>2. \A u \in Caller \ {t} : WaitOutside'[u] = WaitOutside[u]
  BY DEF WaitOutside, Stage, Holds, Limited
<1>3. /\ HeldOutside = [u \in Caller |-> HeldOutside[u]]
      /\ HeldOutside' = [u \in Caller |-> HeldOutside'[u]]
  BY DEF HeldOutside
<1>4. /\ WaitOutside = [u \in Caller |-> WaitOutside[u]]
      /\ WaitOutside' = [u \in Caller |-> WaitOutside'[u]]
  BY DEF WaitOutside
<1> QED
  BY <1>1, <1>2, <1>3, <1>4

\* What is seen of t itself.
LEMMA SelfSeen ==
  ASSUME NEW t \in Caller
  PROVE  /\ HeldOutside[t] = IF at[t] = "entering" THEN Nothing ELSE held[t]
         /\ WaitOutside[t] =
              IF at[t] = "out"
              THEN [stage |-> "out", kind |-> "read", limited |-> FALSE]
              ELSE [stage |-> IF at[t] = "regaining" /\ held[t] # Nothing THEN "back" ELSE "apart",
                    kind |-> mode[t], limited |-> Limited(t)]
         /\ HeldOutside'[t] = IF at'[t] = "entering" THEN Nothing ELSE held'[t]
         /\ WaitOutside'[t] =
              IF at'[t] = "out"
              THEN [stage |-> "out", kind |-> "read", limited |-> FALSE]
              ELSE [stage |-> IF at'[t] = "regaining" /\ held'[t] # Nothing THEN "back" ELSE "apart",
                    kind |-> mode'[t], limited |-> (limit'[t] # "none" \/ t \in Interruptible)]
BY DEF HeldOutside, WaitOutside, Stage, Holds, Limited, Nothing

\* A legal step of the lock is legal for the holds seen from outside, too.
LEMMA LockSeen ==
  ASSUME IInv, NEW t \in Caller, at[t] # "entering", at' = at
  PROVE  /\ Promise!AcquireRead(t) => Outside!Lock!AcquireRead(t)
         /\ Promise!AcquireWrite(t) => Outside!Lock!AcquireWrite(t)
         /\ Promise!ReleaseRead(t) => Outside!Lock!ReleaseRead(t)
         /\ Promise!ReleaseWrite(t) => Outside!Lock!ReleaseWrite(t)
         /\ Promise!Downgrade(t) => Outside!Lock!Downgrade(t)
         /\ held' = held => HeldOutside' = HeldOutside
<1>1. held \in [Caller -> [r : Nat, w : Nat]]
  BY DEF IInv, ClientInv, ClientTypeOK
<1>2. HeldOutside[t] = held[t]
  BY SelfSeen
<1>3. ASSUME NEW v, held' = [held EXCEPT ![t] = v]
      PROVE  HeldOutside' = [HeldOutside EXCEPT ![t] = v]
  BY <1>1, <1>3 DEF HeldOutside
<1>4. \A u \in Caller : HeldOutside[u] \in {held[u], Nothing}
  BY DEF HeldOutside, Nothing
<1>5. ASSUME Promise!AcquireRead(t) PROVE Outside!Lock!AcquireRead(t)
  <2>1. \A u \in Caller \ {t} : HeldOutside[u].w = 0
    BY <1>4, <1>5 DEF Promise!AcquireRead, Nothing
  <2>2. HeldOutside' = [HeldOutside EXCEPT ![t] = [held[t] EXCEPT !.r = @ + 1]]
    BY <1>3, <1>5 DEF Promise!AcquireRead
  <2> QED
    BY <1>2, <2>1, <2>2 DEF Outside!Lock!AcquireRead
<1>6. ASSUME Promise!AcquireWrite(t) PROVE Outside!Lock!AcquireWrite(t)
  <2>1. \A u \in Caller \ {t} : ~(HeldOutside[u].r + HeldOutside[u].w > 0)
    BY <1>4, <1>6 DEF Promise!AcquireWrite, Promise!Holds, Nothing
  <2>2. HeldOutside' = [HeldOutside EXCEPT ![t] = [held[t] EXCEPT !.w = @ + 1]]
    BY <1>3, <1>6 DEF Promise!AcquireWrite
  <2> QED
    BY <1>2, <2>1, <2>2 DEF Outside!Lock!AcquireWrite, Outside!Lock!Holds
<1>7. ASSUME Promise!ReleaseRead(t) PROVE Outside!Lock!ReleaseRead(t)
  <2>1. HeldOutside' = [HeldOutside EXCEPT ![t] = [held[t] EXCEPT !.r = @ - 1]]
    BY <1>3, <1>7 DEF Promise!ReleaseRead
  <2> QED
    BY <1>2, <1>7, <2>1 DEF Promise!ReleaseRead, Outside!Lock!ReleaseRead
<1>8. ASSUME Promise!ReleaseWrite(t) PROVE Outside!Lock!ReleaseWrite(t)
  <2>1. HeldOutside' = [HeldOutside EXCEPT ![t] = [held[t] EXCEPT !.w = @ - 1]]
    BY <1>3, <1>8 DEF Promise!ReleaseWrite
  <2> QED
    BY <1>2, <1>8, <2>1 DEF Promise!ReleaseWrite, Outside!Lock!ReleaseWrite
<1>9. ASSUME Promise!Downgrade(t) PROVE Outside!Lock!Downgrade(t)
  <2>1. HeldOutside' = [HeldOutside EXCEPT ![t] = [r |-> held[t].r + 1, w |-> 0]]
    BY <1>3, <1>9 DEF Promise!Downgrade
  <2> QED
    BY <1>2, <1>9, <2>1 DEF Promise!Downgrade, Outside!Lock!Downgrade
<1>10. held' = held => HeldOutside' = HeldOutside
  BY DEF HeldOutside
<1> QED
  BY <1>5, <1>6, <1>7, <1>8, <1>9, <1>10

\* What is a step of the abstract condition, or none.
Seen == Outside!Next \/ UNCHANGED Outside!vars

\* The steps that move a thread on its way, seen by nobody.
LEMMA Unseen ==
  ASSUME NEW t \in Caller, HeldOutside'[t] = HeldOutside[t], WaitOutside'[t] = WaitOutside[t],
         cond' = cond,
         \A u \in Caller \ {t} :
           /\ at'[u] = at[u] /\ mode'[u] = mode[u] /\ held'[u] = held[u]
           /\ limit'[u] # "none" <=> limit[u] # "none"
  PROVE  Seen
<1>1. HeldOutside' = HeldOutside
  BY OthersSeen DEF HeldOutside
<1>2. WaitOutside' = WaitOutside
  BY OthersSeen DEF WaitOutside
<1> QED
  BY <1>1, <1>2 DEF Seen, Outside!vars

\* The lock outside of wait(), and the reacquire.
LEMMA LockIsSeen ==
  ASSUME IInv, CondInv, SleepInv, NEW t \in Caller, LockStep(t) \/ Regain(t)
  PROVE  Seen
<1>1. UNCHANGED <<cond, at, mode, limit>>
  BY DEF LockStep, Regain, sleepVars
<1>2. \A u \in Caller \ {t} : held'[u] = held[u]
  BY LockFrame
<1>3. held \in [Caller -> [r : Nat, w : Nat]]
  BY DEF IInv, ClientInv, ClientTypeOK
<1>4. CASE at[t] = "out"
  <2>1. LockStep(t)
    BY <1>4 DEF Regain
  <2>2. WaitOutside' = WaitOutside
    <3>1. WaitOutside'[t] = WaitOutside[t]
      BY <1>1, <1>4, SelfSeen
    <3> QED
      BY <1>1, <1>2, <3>1, OthersSeen DEF WaitOutside
  <2>3. CASE held' = held
    BY <1>1, <1>4, <2>2, <2>3, LockSeen DEF Seen, Outside!vars
  <2>4. CASE held' # held
    <3>1. \/ Outside!Lock!AcquireRead(t)
          \/ Outside!Lock!AcquireWrite(t)
          \/ Outside!Lock!ReleaseRead(t)
          \/ Outside!Lock!ReleaseWrite(t)
          \/ Outside!Lock!Downgrade(t)
      BY <1>1, <1>4, <2>1, <2>4, LockStepIs, LockSeen
    <3>2. WaitOutside[t].stage = "out"
      <4>1. WaitOutside[t] = [stage |-> "out", kind |-> "read", limited |-> FALSE]
        BY <1>4, SelfSeen
      <4> QED
        BY <4>1
    <3>3. Outside!LockStep(t)
      BY <1>1, <2>2, <3>1, <3>2 DEF Outside!LockStep
    <3> QED
      BY <3>3 DEF Seen, Outside!Next
  <2> QED
    BY <2>3, <2>4
<1>5. CASE at[t] # "out"
  <2>1. at[t] = "regaining" /\ PlaceKept(t) /\ (Regained(t) \/ StillWaits(t))
    BY <1>5, ReacquireIs DEF SleepInv
  <2>2. CASE StillWaits(t)
    <3>1. held' = held
      BY <2>2 DEF StillWaits
    <3>2. HeldOutside'[t] = HeldOutside[t] /\ WaitOutside'[t] = WaitOutside[t]
      BY <1>1, <3>1, SelfSeen DEF Limited
    <3> QED
      BY <1>1, <1>2, <3>2, Unseen
  <2>3. CASE Regained(t)
    <3>1. /\ held[t] = Nothing /\ held'[t] = HeldOnce(mode[t])
          /\ IF mode[t] = "read" THEN Promise!AcquireRead(t) ELSE Promise!AcquireWrite(t)
      BY <1>3, <2>3 DEF Regained
    <3>2. held'[t] # Nothing
      BY <3>1 DEF HeldOnce, Nothing
    <3>3. WaitOutside[t] = [stage |-> "apart", kind |-> mode[t], limited |-> Limited(t)]
      BY <2>1, <3>1, SelfSeen
    <3>4. WaitOutside'[t] = [stage |-> "back", kind |-> mode[t], limited |-> Limited(t)]
      BY <1>1, <2>1, <3>2, SelfSeen DEF Limited
    <3>5. WaitOutside' = [WaitOutside EXCEPT ![t] = [WaitOutside[t] EXCEPT !.stage = "back"]]
      BY <1>1, <1>2, <3>3, <3>4, OthersSeen
    <3>6. t \in cond.woken \/ WaitOutside[t].limited
      BY <2>1, <3>3 DEF PlaceKept
    <3>7. IF WaitOutside[t].kind = "read" THEN Outside!Lock!AcquireRead(t)
                                          ELSE Outside!Lock!AcquireWrite(t)
      BY <1>1, <2>1, <3>1, <3>3, LockSeen
    <3>8. Outside!Regain(t)
      BY <1>1, <3>3, <3>5, <3>6, <3>7 DEF Outside!Regain
    <3> QED
      BY <3>8 DEF Seen, Outside!Next
  <2> QED
    BY <2>1, <2>2, <2>3
<1> QED
  BY <1>4, <1>5

\* wait() has given the lock up, seen from outside, as soon as it has enqueued.
LEMMA EnterIsSeen ==
  ASSUME IInv, CondInv, NEW t \in Caller, NEW k \in Kind, NEW d \in Deadline,
         EnterWait(t, k, d)
  PROVE  Seen
<1>1. /\ CallsWait(t, k) /\ cond' = AddWaiter(cond, t)
      /\ at[t] = "out"
      /\ at' = [at EXCEPT ![t] = "entering"] /\ mode' = [mode EXCEPT ![t] = k]
      /\ limit' = [limit EXCEPT ![t] = d] /\ held' = held
  BY DEF EnterWait, CallsWait, vars, clientVars
<1>2. /\ cond \in QueueRecord
      /\ at \in [Caller -> Place] /\ mode \in [Caller -> Kind]
      /\ limit \in [Caller -> Deadline]
  BY DEF CondInv, ConditionTypeOK
<1>3. cond'.queue = Append(cond.queue, t) /\ cond'.woken = cond.woken
  BY <1>1, <1>2 DEF AddWaiter, QueueRecord
<1> DEFINE limited == d # "none" \/ t \in Interruptible
<1>4. HeldOutside[t] = HeldOnce(k) /\ HeldOutside'[t] = Nothing
  BY <1>1, <1>2, WaiterHolds, SelfSeen DEF IInv
<1>5. /\ WaitOutside[t].stage = "out"
      /\ WaitOutside'[t] = [stage |-> "apart", kind |-> k, limited |-> limited]
  <2>1. WaitOutside[t] = [stage |-> "out", kind |-> "read", limited |-> FALSE]
    BY <1>1, SelfSeen
  <2>2. at'[t] = "entering" /\ mode'[t] = k /\ limit'[t] = d
    BY <1>1, <1>2
  <2>3. WaitOutside'[t] = [stage |-> "apart", kind |-> k, limited |-> limited]
    BY <2>2, SelfSeen
  <2> HIDE DEF limited
  <2> QED
    BY <2>1, <2>3
<1>6. /\ HeldOutside' = [HeldOutside EXCEPT ![t] = Nothing]
      /\ WaitOutside' = [WaitOutside EXCEPT ![t] =
                           [stage |-> "apart", kind |-> k, limited |-> limited]]
  BY <1>1, <1>2, <1>4, <1>5, OthersSeen
<1>7. limited \in BOOLEAN
  OBVIOUS
<1> HIDE DEF limited
<1>8. Outside!Wait(t, k, limited)
  BY <1>3, <1>4, <1>5, <1>6 DEF Outside!Wait, Outside!Single, HeldOnce, Nothing
<1> QED
  BY <1>7, <1>8 DEF Seen, Outside!Next, Outside!Kind, Kind

\* The release in wait(), the sleep and the end of the sleep are seen by nobody.
LEMMA SleepIsUnseen ==
  ASSUME IInv, CondInv, SleepInv, NEW t \in Caller,
         LetGo(t) \/ PassLimit(t) \/ WakeUp(t) \/ TimeOut(t)
  PROVE  Seen
<1>1. /\ held \in [Caller -> [r : Nat, w : Nat]]
      /\ at \in [Caller -> Place] /\ limit \in [Caller -> Deadline]
  BY DEF IInv, ClientInv, ClientTypeOK, CondInv, ConditionTypeOK
<1>2. CASE LetGo(t)
  <2>1. /\ held' = [held EXCEPT ![t] = Nothing]
        /\ at[t] = "entering" /\ at' = [at EXCEPT ![t] = "parked"]
        /\ UNCHANGED <<cond, mode, limit>>
    BY <1>2, LetGoIs DEF LetGo
  <2>2. HeldOutside'[t] = HeldOutside[t] /\ WaitOutside'[t] = WaitOutside[t]
    BY <1>1, <2>1, SelfSeen DEF Limited
  <2> QED
    BY <1>1, <2>1, <2>2, Unseen
<1>3. CASE PassLimit(t) \/ WakeUp(t) \/ TimeOut(t)
  <2>1. /\ UNCHANGED <<cond, mode, held>> /\ at[t] = "parked" /\ held[t] = Nothing
        /\ at' = at \/ at' = [at EXCEPT ![t] = "regaining"]
    BY <1>3 DEF PassLimit, WakeUp, TimeOut, vars, clientVars, SleepInv, PlaceKept
  <2>2. \A u \in Caller : limit'[u] # "none" <=> limit[u] # "none"
    BY <1>1, <1>3 DEF PassLimit, WakeUp, TimeOut
  <2>3. HeldOutside'[t] = HeldOutside[t] /\ WaitOutside'[t] = WaitOutside[t]
    BY <1>1, <2>1, <2>2, SelfSeen DEF Limited
  <2> QED
    BY <1>1, <2>1, <2>2, <2>3, Unseen
<1> QED
  BY <1>2, <1>3

\* The end of wait(), with the lock or, after an exception, without.
LEMMA ReturnIsSeen ==
  ASSUME IInv, CondInv, SleepInv, NEW t \in Caller, LeaveWait(t) \/ FailRegain(t)
  PROVE  Seen
<1>1. /\ at[t] = "regaining" /\ at' = [at EXCEPT ![t] = "out"]
      /\ mode' = [mode EXCEPT ![t] = "read"] /\ limit' = [limit EXCEPT ![t] = "none"]
      /\ held' = held
  BY DEF LeaveWait, FailRegain, Interrupt, Abort, vars, clientVars
<1>2. /\ cond \in QueueRecord /\ at \in [Caller -> Place] /\ mode \in [Caller -> Kind]
      /\ limit \in [Caller -> Deadline]
  BY DEF CondInv, ConditionTypeOK
<1>3. HeldOutside' = HeldOutside
  BY <1>1, <1>2 DEF HeldOutside
<1>4. WaitOutside'[t] = Outside!Out
  BY <1>1, <1>2, SelfSeen DEF Outside!Out
<1>5. WaitOutside' = [WaitOutside EXCEPT ![t] = Outside!Out]
  BY <1>1, <1>2, <1>4, OthersSeen
<1>6. WaitOutside[t].stage = IF held[t] # Nothing THEN "back" ELSE "apart"
  <2>1. WaitOutside[t] = [stage |-> IF held[t] # Nothing THEN "back" ELSE "apart",
                          kind |-> mode[t], limited |-> Limited(t)]
    BY <1>1, SelfSeen
  <2> QED
    BY <2>1
<1>7. CASE LeaveWait(t)
  <2>1. cond'.queue = Without(cond.queue, t) /\ cond'.woken = cond.woken \ {t}
    BY <1>7, SleepLeave
  <2>2. held[t] # Nothing
    BY <1>7 DEF LeaveWait, Holds, Nothing
  <2>3. cond'.queue = Outside!LineWithout(t)
    BY <2>1 DEF Without, Outside!LineWithout, Outside!InLine
  <2>4. Outside!Return(t)
    BY <1>3, <1>5, <1>6, <2>1, <2>2, <2>3 DEF Outside!Return, Outside!Leave
  <2> QED
    BY <2>4 DEF Seen, Outside!Next
<1>8. CASE FailRegain(t)
  <2> DEFINE q    == cond.queue
             left == [i \in 1 .. Len(q) |-> IF q[i] = t THEN None ELSE q[i]]
  <2>1. /\ cond' = [cond EXCEPT !.queue = left, !.woken = @ \ {t}]
        /\ t \in Interruptible /\ call[t] \in Kind
    BY <1>8 DEF FailRegain, Interrupt
  <2>2. cond'.queue = left /\ cond'.woken = cond.woken \ {t}
    BY <1>2, <2>1 DEF QueueRecord
  <2>3. held[t] = Nothing
    BY <1>1, <2>1 DEF SleepInv, PlaceKept, Kind
  <2>4. Outside!Fail(t)
    BY <1>3, <1>5, <1>6, <2>1, <2>2, <2>3 DEF Outside!Fail, Outside!Leave
  <2> QED
    BY <2>4 DEF Seen, Outside!Next
<1> QED
  BY <1>7, <1>8

\* A notify reaches the head of the line.
LEMMA NotifyIsSeen ==
  ASSUME IInv, CondInv, SleepInv, NEW t \in Caller, NEW k \in Kind, CallNotify(t, k)
  PROVE  Seen
<1> DEFINE q == cond.queue
<1>1. /\ UNCHANGED <<at, mode, limit, held>> /\ at[t] = "out" /\ Owns(k, t)
      /\ \E n \in 1 .. Len(q) : cond' = Signal(cond, n)
  BY DEF CallNotify, NotifyWaiters, clientVars
<1>2. PICK n \in 1 .. Len(q) : cond' = Signal(cond, n)
  BY <1>1
<1>3. cond \in QueueRecord /\ cond.cancelled = {} /\ LineOnce(q)
  BY DEF CondInv, ConditionTypeOK, SleepInv, LineKept
<1> DEFINE head == {q[i] : i \in 1 .. n} \ {None}
           rest == SubSeq(q, n + 1, Len(q))
<1>4. cond' = [cond EXCEPT !.queue = rest, !.woken = @ \cup head]
  BY <1>2, <1>3, LineSignalled
<1>5. cond'.queue = rest /\ cond'.woken = cond.woken \cup head
  <2> HIDE DEF head, rest
  <2> QED
    BY <1>3, <1>4 DEF QueueRecord
<1>6. HeldOutside' = HeldOutside /\ WaitOutside' = WaitOutside
  BY <1>1 DEF HeldOutside, WaitOutside, Stage, Holds, Limited
<1>7. HeldOutside[t].r + HeldOutside[t].w > 0
  <2>1. held[t].r + held[t].w > 0
    BY <1>1, OwnerHolds DEF IInv
  <2> QED
    BY <1>1, <2>1, SelfSeen
<1>8. WaitOutside[t].stage = "out"
  <2>1. WaitOutside[t] = [stage |-> "out", kind |-> "read", limited |-> FALSE]
    BY <1>1, SelfSeen
  <2> QED
    BY <2>1
<1>9. n <= Len(q)
  <2>1. q \in Seq(Caller \cup {None})
    BY <1>3 DEF QueueRecord
  <2> QED
    BY <2>1
<1>10. Outside!Notify(t, n)
  BY <1>5, <1>6, <1>7, <1>8, <1>9 DEF Outside!Notify, Outside!Lock!Holds
<1> QED
  BY <1>10 DEF Seen, Outside!Next

\* Every step.
LEMMA CondStepSeen ==
  ASSUME IInv, CondInv, SleepInv, [CondNext]_condVars
  PROVE  SleepInv' /\ [Outside!Next]_Outside!vars
<1>1. ASSUME CondNext PROVE SleepInv' /\ Seen
  <2>1. PICK t \in Caller :
          \/ LockStep(t)
          \/ \E k \in Kind, d \in {"none", "ahead"} : EnterWait(t, k, d)
          \/ PassLimit(t)
          \/ Waiting(t)
          \/ FailRegain(t)
          \/ \E k \in Kind : CallNotify(t, k)
    BY <1>1 DEF CondNext
  <2>2. CASE LockStep(t) \/ Regain(t)
    BY <2>2, SleepLock, LockIsSeen
  <2>3. ASSUME NEW k \in Kind, NEW d \in {"none", "ahead"}, EnterWait(t, k, d)
        PROVE  SleepInv' /\ Seen
    BY <2>3, SleepEnter, EnterIsSeen DEF Deadline
  <2>4. CASE LetGo(t)
    BY <2>4, SleepLetGo, SleepIsUnseen
  <2>5. CASE PassLimit(t) \/ WakeUp(t) \/ TimeOut(t)
    BY <2>5, SleepSleeps, SleepIsUnseen
  <2>6. CASE LeaveWait(t)
    BY <2>6, SleepLeave, ReturnIsSeen
  <2>7. CASE FailRegain(t)
    BY <2>7, SleepFail, ReturnIsSeen
  <2>8. ASSUME NEW k \in Kind, CallNotify(t, k)
        PROVE  SleepInv' /\ Seen
    BY <2>8, SleepNotify, NotifyIsSeen
  <2> QED
    BY <2>1, <2>2, <2>3, <2>4, <2>5, <2>6, <2>7, <2>8 DEF Waiting
<1>2. CASE UNCHANGED condVars
  BY <1>2 DEF condVars, vars, clientVars, sleepVars, SleepInv, LineKept, PlaceKept, Limited,
              Outside!vars, HeldOutside, WaitOutside, Stage, Holds
<1> QED
  BY <1>1, <1>2 DEF Seen

\* A new condition is a new abstract condition.
LEMMA CondInitSeen ==
  ASSUME CondInit
  PROVE  SleepInv /\ Outside!Init
<1>1. /\ held = [t \in Caller |-> [r |-> 0, w |-> 0]]
      /\ cond = [queue |-> << >>, woken |-> {}, cancelled |-> {}]
      /\ at = [t \in Caller |-> "out"] /\ got = {}
  BY DEF CondInit, ConditionInit, Init, ClientInit
<1>2. SleepInv
  BY <1>1 DEF SleepInv, LineKept, LineOnce, PlaceKept, Queued
<1>3. HeldOutside = [t \in Caller |-> [r |-> 0, w |-> 0]]
  BY <1>1 DEF HeldOutside
<1>4. WaitOutside = [t \in Caller |-> Outside!Out]
  BY <1>1 DEF WaitOutside, Outside!Out
<1> QED
  BY <1>1, <1>2, <1>3, <1>4 DEF Outside!Init, Outside!Lock!Init

-----------------------------------------------------------------------------

\* wait() releases and enqueues as one step, notify() reaches the head of the line,
\* and a wait comes back with what it gave up, or by an exception: the condition
\* implements the abstract one, over all eight classes of lock and for every number
\* of threads.
THEOREM ConditionRefinement ==
  ASSUME Disciplined, WaitsAfterDowngrade = {} PROVE CondSpec => RefinesCondition
<1>1. CondInit => SleepInv /\ Outside!Init
  BY CondInitSeen
<1>2. IInv /\ CondInv /\ SleepInv /\ [CondNext]_condVars
        => SleepInv' /\ [Outside!Next]_Outside!vars
  BY CondStepSeen
<1>3. CondSpec => []IInv
  BY ConditionUsesLock, Invariance, PTL DEF UsesLock
<1> QED
  BY <1>1, <1>2, <1>3, CondInvariance, PTL DEF CondSpec, RefinesCondition, Outside!Spec

\* The threads of a condition's lock never all wait for each other, nor for one that
\* sleeps in wait(): it holds nothing.
THEOREM CondNoDeadlock ==
  ASSUME Disciplined, WaitsAfterDowngrade = {}
  PROVE  CondSpec => []SomebodyRuns({t \in Caller : Awake(t)})
<1> DEFINE moves == SomebodyMoves({t \in Caller : Awake(t)})
           runs  == SomebodyRuns({t \in Caller : Awake(t)})
<1>1. CondInit => SleepInv
  BY CondInitSeen
<1>2. IInv /\ CondInv /\ SleepInv /\ [CondNext]_condVars => SleepInv'
  BY CondStepSeen
<1>3. SleepInv /\ moves => runs
  <2> SUFFICES ASSUME SleepInv, moves PROVE runs
    OBVIOUS
  <2>1. \A t \in Caller : at[t] = "parked" => held[t] = Nothing
    BY DEF SleepInv, PlaceKept
  <2> QED
    BY <2>1, SleepersMove
<1>4. CondSpec => []IInv /\ []moves
  BY ConditionUsesLock, Invariance, NoDeadlock, PTL DEF UsesLock
<1> QED
  BY <1>1, <1>2, <1>3, <1>4, CondInvariance, PTL DEF CondSpec

=============================================================================

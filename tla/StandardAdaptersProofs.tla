----------------------- MODULE StandardAdaptersProofs -----------------------
(***************************************************************************)
(* An adapter over one standard primitive is the abstract condition, and   *)
(* its locked() answers right, for every set of callers that come through  *)
(* whichever routes, each of the three primitives and every nesting bound. *)
(***************************************************************************)
EXTENDS StandardAdapters, SequenceTheorems, TLAPS

\* Who has the primitive, by its own account and by its callers'.
OwnerAgrees ==
  /\ owner["write"] = None => depth["write"] = 0
  /\ \A t \in Caller :
       /\ owner["write"] = t =>
            /\ depth["write"] > 0
            /\ depth["write"] = IF probe[t] = "trial" THEN 1 ELSE holds[t]
       /\ holds[t] > 0 \/ probe[t] = "trial" => owner["write"] = t

\* Only an RLock is probed by an acquire, and by a caller that does not own it.
ProbeAgrees ==
  \A t \in Caller :
    /\ probe[t] \in {"asked", "trial"} => primitive = "RLock" /\ holds[t] = 0
    /\ probe[t] # "none" => at[t] = "out"

\* wait() holds nothing until it is back.
WaitAgrees ==
  \A t \in Caller :
    /\ at[t] = "parked" => holds[t] = 0
    /\ at[t] = "back" => holds[t] = 1
    /\ at[t] # "out" => t \in Waiters

AdapterInv == AdapterTypeOK /\ OwnerAgrees /\ ProbeAgrees /\ WaitAgrees

-----------------------------------------------------------------------------
(* The primitive.                                                          *)

\* Who takes the primitive without having it finds it free.
LEMMA TakeOne ==
  ASSUME AdapterInv, NEW t \in Caller, holds[t] = 0, probe[t] # "trial", Take(t, "write")
  PROVE  /\ owner["write"] = None
         /\ owner' = [owner EXCEPT !["write"] = t]
         /\ depth' = [depth EXCEPT !["write"] = 1]
         /\ \A u \in Caller : holds[u] = 0 /\ probe[u] # "trial"
<1>1. owner["write"] # t
  BY DEF AdapterInv, OwnerAgrees
<1>2. owner["write"] = None /\ depth["write"] = 0
  BY <1>1 DEF Take, CanTake, AdapterInv, OwnerAgrees
<1>3. depth' = [depth EXCEPT !["write"] = 1]
  BY <1>2 DEF Take
<1>4. \A u \in Caller : ~(holds[u] > 0) /\ probe[u] # "trial"
  BY <1>2, AdapterAssumption DEF AdapterInv, OwnerAgrees
<1>5. \A u \in Caller : holds[u] \in 0 .. MaxDepth
  BY DEF AdapterInv, AdapterTypeOK
<1>6. \A u \in Caller : holds[u] = 0
  BY <1>4, <1>5, AdapterAssumption
<1> QED
  BY <1>2, <1>3, <1>4, <1>6 DEF Take

\* An owner that is not in a probe holds what the primitive counts, and is alone.
LEMMA OwnerHolds ==
  ASSUME AdapterInv, NEW t \in Caller, owner["write"] = t, probe[t] # "trial"
  PROVE  /\ holds[t] = depth["write"] /\ holds[t] > 0
         /\ \A u \in Caller \ {t} : holds[u] = 0 /\ probe[u] # "trial"
<1>1. \A u \in Caller \ {t} : ~(holds[u] > 0) /\ probe[u] # "trial"
  BY DEF AdapterInv, OwnerAgrees
<1>2. \A u \in Caller : holds[u] \in 0 .. MaxDepth
  BY DEF AdapterInv, AdapterTypeOK
<1>3. \A u \in Caller \ {t} : holds[u] = 0
  BY <1>1, <1>2, AdapterAssumption
<1> QED
  BY <1>1, <1>3 DEF AdapterInv, OwnerAgrees

\* The waiter queue without one waiter.
LEMMA WithoutWaiterType ==
  ASSUME AdapterTypeOK, NEW t
  PROVE  WithoutWaiter(t) \in Seq(Waiters)
<1>1. queue \in Seq(Waiters)
  BY DEF AdapterTypeOK
<1>2. CASE InLine(t)
  <2> DEFINE i == CHOOSE i \in 1 .. Len(queue) : queue[i] = t
             before == SubSeq(queue, 1, i - 1)
             after == SubSeq(queue, i + 1, Len(queue))
  <2>1. i \in 1 .. Len(queue)
    BY <1>2 DEF InLine
  <2>2. Len(queue) \in Nat /\ \A j \in 1 .. Len(queue) : queue[j] \in Waiters
    BY <1>1
  <2>3. WithoutWaiter(t) = before \o after
    BY <1>2 DEF WithoutWaiter
  <2> HIDE DEF i
  <2>4. before \in Seq(Waiters)
    BY <2>1, <2>2, SubSeqProperties
  <2>5. after \in Seq(Waiters)
    BY <2>1, <2>2, SubSeqProperties
  <2> HIDE DEF before, after
  <2> QED
    BY <2>3, <2>4, <2>5, ConcatProperties
<1>3. CASE ~InLine(t)
  BY <1>1, <1>3 DEF WithoutWaiter
<1> QED
  BY <1>2, <1>3

-----------------------------------------------------------------------------
(* The steps.                                                              *)

\* What a step of the adapter is, for the abstract condition.
Seen == Adapted!Next \/ UNCHANGED Adapted!vars

\* What the answers of locked() promise, in one step.
Answered ==
  \A t \in Caller :
    /\ (probe[t] # "free" /\ probe'[t] = "free") => \A u \in Caller : holds[u] = 0
    /\ (probe[t] # "locked" /\ probe'[t] = "locked")
         => \E u \in Caller : holds[u] > 0 \/ (u # t /\ probe[u] = "trial")

Good == AdapterInv' /\ Seen /\ Answered

\* acquire() is the acquire of a write lock.
LEMMA AcquireStep ==
  ASSUME AdapterInv, NEW t \in Caller, NEW k \in Route, Acquire(t, k)
  PROVE  Good
<1>1. /\ at[t] = "out" /\ probe[t] = "none"
      /\ holds[t] < IF primitive = "RLock" THEN MaxDepth ELSE 1
      /\ Take(t, "write") /\ holds' = [holds EXCEPT ![t] = @ + 1]
      /\ UNCHANGED <<primitive, probe, queue, told, at>>
  BY DEF Acquire, Idle, Routed, sleepVars
<1>2. /\ holds \in [Caller -> 0 .. MaxDepth] /\ MaxDepth \in Nat \ {0}
      /\ owner \in [Object -> Caller \cup {None}] /\ depth \in [Object -> 0 .. MaxDepth]
      /\ "write" \in Object
  BY AdapterAssumption DEF AdapterInv, AdapterTypeOK, Object
<1>3. /\ owner' = [owner EXCEPT !["write"] = t]
      /\ depth' = [depth EXCEPT !["write"] = holds[t] + 1]
      /\ \A u \in Caller \ {t} : holds[u] = 0 /\ probe[u] # "trial"
  <2>1. CASE owner["write"] = t
    <3>1. holds[t] = depth["write"] /\ \A u \in Caller \ {t} : holds[u] = 0 /\ probe[u] # "trial"
      BY <1>1, <2>1, OwnerHolds
    <3> QED
      BY <1>1, <3>1 DEF Take
  <2>2. CASE owner["write"] # t
    <3>1. holds[t] = 0
      BY <1>2, <2>2 DEF AdapterInv, OwnerAgrees
    <3> QED
      BY <1>1, <3>1, TakeOne
  <2> QED
    BY <2>1, <2>2
<1>4. holds[t] + 1 \in 1 .. MaxDepth
  BY <1>1, <1>2
<1>5. AdapterTypeOK'
  BY <1>1, <1>2, <1>3, <1>4 DEF AdapterInv, AdapterTypeOK
<1>6. OwnerAgrees'
  BY <1>1, <1>2, <1>3, <1>4, AdapterAssumption DEF OwnerAgrees
<1>7. ProbeAgrees' /\ WaitAgrees'
  BY <1>1, <1>2 DEF AdapterInv, ProbeAgrees, WaitAgrees
<1>8. Seen
  <2>1. HeldThrough' = [HeldThrough EXCEPT ![t].w = @ + 1]
    BY <1>1, <1>2 DEF HeldThrough
  <2>2. \A u \in Caller \ {t} : ~Adapted!Lock!Holds(u)
    BY <1>3 DEF Adapted!Lock!Holds, HeldThrough
  <2>3. Adapted!Lock!AcquireWrite(t)
    BY <2>1, <2>2 DEF Adapted!Lock!AcquireWrite
  <2>4. WaitThrough[t].stage = "out" /\ WaitThrough' = WaitThrough
    BY <1>1 DEF WaitThrough
  <2>5. Adapted!LockStep(t)
    BY <1>1, <2>3, <2>4 DEF Adapted!LockStep
  <2> QED
    BY <2>5 DEF Seen, Adapted!Next
<1> QED
  BY <1>1, <1>5, <1>6, <1>7, <1>8 DEF Good, AdapterInv, Answered

\* release() by a caller that the primitive knows for its owner.
LEMMA ReleaseStep ==
  ASSUME AdapterInv, NEW t \in Caller, NEW k \in Route, Release(t, k)
  PROVE  Good
<1>1. /\ at[t] = "out" /\ probe[t] = "none" /\ owner["write"] = t
      /\ owner' = [owner EXCEPT !["write"] = IF depth["write"] = 1 THEN None ELSE t]
      /\ depth' = [depth EXCEPT !["write"] = @ - 1]
      /\ holds' = [holds EXCEPT ![t] = @ - 1]
      /\ UNCHANGED <<primitive, probe, queue, told, at>>
  BY DEF Release, Idle, Routed, Give, sleepVars
<1>2. /\ holds \in [Caller -> 0 .. MaxDepth] /\ MaxDepth \in Nat \ {0}
      /\ owner \in [Object -> Caller \cup {None}] /\ depth \in [Object -> 0 .. MaxDepth]
      /\ "write" \in Object
  BY AdapterAssumption DEF AdapterInv, AdapterTypeOK, Object
<1>3. /\ holds[t] = depth["write"] /\ holds[t] > 0
      /\ \A u \in Caller \ {t} : holds[u] = 0 /\ probe[u] # "trial"
  BY <1>1, OwnerHolds
<1>4. holds[t] - 1 \in 0 .. MaxDepth
  BY <1>2, <1>3
<1>5. AdapterTypeOK'
  BY <1>1, <1>2, <1>3, <1>4 DEF AdapterInv, AdapterTypeOK
<1>6. OwnerAgrees'
  BY <1>1, <1>2, <1>3, <1>4, AdapterAssumption DEF OwnerAgrees
<1>7. ProbeAgrees' /\ WaitAgrees'
  BY <1>1, <1>2 DEF AdapterInv, ProbeAgrees, WaitAgrees
<1>8. Seen
  <2>1. HeldThrough' = [HeldThrough EXCEPT ![t].w = @ - 1] /\ HeldThrough[t].w > 0
    BY <1>1, <1>2, <1>3 DEF HeldThrough
  <2>2. Adapted!Lock!ReleaseWrite(t)
    BY <2>1 DEF Adapted!Lock!ReleaseWrite
  <2>3. WaitThrough[t].stage = "out" /\ WaitThrough' = WaitThrough
    BY <1>1 DEF WaitThrough
  <2>4. Adapted!LockStep(t)
    BY <1>1, <2>2, <2>3 DEF Adapted!LockStep
  <2> QED
    BY <2>4 DEF Seen, Adapted!Next
<1> QED
  BY <1>1, <1>5, <1>6, <1>7, <1>8 DEF Good, AdapterInv, Answered

\* The probes that the primitive itself answers, and the end of a probe.
LEMMA AskStep ==
  ASSUME AdapterInv, NEW t \in Caller,
         \/ \E k \in Route : AskPrimitive(t, k) \/ AskOwned(t, k)
         \/ Heed(t)
  PROVE  Good
<1>1. UNCHANGED <<primitive, owner, depth, holds, queue, told, at>>
  BY DEF AskPrimitive, AskOwned, Heed, lockVars, sleepVars
<1>2. PICK v \in {"none", "asked", "free", "locked"} : probe' = [probe EXCEPT ![t] = v]
  BY DEF AskPrimitive, AskOwned, Heed, Answers
<1>3. probe \in [Caller -> {"none", "asked", "trial", "free", "locked"}]
  BY DEF AdapterInv, AdapterTypeOK
<1>4. probe[t] # "trial" /\ (v # "none" => at[t] = "out")
  BY <1>1, <1>2, <1>3 DEF AskPrimitive, AskOwned, Heed, Idle, Answers
<1>5. v = "asked" => primitive = "RLock" /\ holds[t] = 0
  <2>1. SUFFICES ASSUME v = "asked" PROVE primitive = "RLock" /\ holds[t] = 0
    OBVIOUS
  <2>2. primitive = "RLock" /\ owner["write"] # t
    BY <1>2, <1>3, <2>1 DEF AskPrimitive, AskOwned, Heed, Answers, Routed
  <2>3. holds[t] \in 0 .. MaxDepth /\ ~(holds[t] > 0)
    BY <2>2 DEF AdapterInv, AdapterTypeOK, OwnerAgrees
  <2> QED
    BY <2>2, <2>3, AdapterAssumption
<1>6. AdapterTypeOK'
  BY <1>1, <1>2 DEF AdapterInv, AdapterTypeOK
<1>7. OwnerAgrees' /\ ProbeAgrees' /\ WaitAgrees'
  BY <1>1, <1>2, <1>3, <1>4, <1>5 DEF AdapterInv, OwnerAgrees, ProbeAgrees, WaitAgrees
<1>8. Seen
  BY <1>1 DEF Seen, Adapted!vars, HeldThrough, WaitThrough
<1>9. v = "free" => probe[t] = "free" \/ \A u \in Caller : holds[u] = 0
  <2>1. SUFFICES ASSUME v = "free" PROVE \A u \in Caller : holds[u] = 0
    OBVIOUS
  <2>2. owner["write"] = None
    BY <1>2, <1>3, <2>1 DEF AskPrimitive, AskOwned, Heed, Answers, Routed
  <2>3. \A u \in Caller : holds[u] \in 0 .. MaxDepth /\ ~(holds[u] > 0)
    BY <2>2, AdapterAssumption DEF AdapterInv, AdapterTypeOK, OwnerAgrees
  <2> QED
    BY <2>3, AdapterAssumption
<1>10. v = "locked" => \E u \in Caller : holds[u] > 0
  <2>1. SUFFICES ASSUME v = "locked" PROVE \E u \in Caller : holds[u] > 0
    OBVIOUS
  <2>2. /\ owner["write"] # None
        /\ primitive # "RLock" \/ owner["write"] = t
    BY <1>2, <1>3, <2>1, AdapterAssumption DEF AskPrimitive, AskOwned, Heed, Answers, Routed
  <2>3. PICK u \in Caller : owner["write"] = u
    BY <2>2 DEF AdapterInv, AdapterTypeOK, Object
  <2>4. probe[u] # "trial"
    BY <1>4, <2>2, <2>3 DEF AdapterInv, ProbeAgrees
  <2> QED
    BY <2>3, <2>4, OwnerHolds
<1>11. Answered
  BY <1>2, <1>3, <1>9, <1>10 DEF Answered
<1> QED
  BY <1>6, <1>7, <1>8, <1>11 DEF Good, AdapterInv

\* The probe of an RLock takes the lock for a moment, which no caller's holds show.
LEMMA TryStep ==
  ASSUME AdapterInv, NEW t \in Caller, NEW k \in Route, TryAcquire(t, k)
  PROVE  Good
<1>1. /\ probe[t] = "asked" /\ holds[t] = 0 /\ primitive = "RLock" /\ at[t] = "out"
      /\ UNCHANGED <<primitive, holds, queue, told, at>>
  BY DEF TryAcquire, sleepVars, AdapterInv, ProbeAgrees
<1>2. /\ holds \in [Caller -> 0 .. MaxDepth] /\ MaxDepth \in Nat \ {0}
      /\ owner \in [Object -> Caller \cup {None}] /\ depth \in [Object -> 0 .. MaxDepth]
      /\ "write" \in Object
      /\ probe \in [Caller -> {"none", "asked", "trial", "free", "locked"}]
  BY AdapterAssumption DEF AdapterInv, AdapterTypeOK, Object
<1>3. Seen
  BY <1>1 DEF Seen, Adapted!vars, HeldThrough, WaitThrough
<1>4. CASE CanTake(t, "write")
  <2>1. Take(t, "write") /\ probe' = [probe EXCEPT ![t] = "trial"]
    BY <1>4 DEF TryAcquire, Routed
  <2>2. /\ owner' = [owner EXCEPT !["write"] = t] /\ depth' = [depth EXCEPT !["write"] = 1]
        /\ \A u \in Caller : holds[u] = 0 /\ probe[u] # "trial"
    BY <1>1, <2>1, TakeOne
  <2>3. AdapterTypeOK'
    BY <1>1, <1>2, <2>1, <2>2 DEF AdapterInv, AdapterTypeOK
  <2>4. OwnerAgrees'
    BY <1>1, <1>2, <2>1, <2>2, AdapterAssumption DEF OwnerAgrees
  <2>5. ProbeAgrees' /\ WaitAgrees'
    BY <1>1, <1>2, <2>1 DEF AdapterInv, ProbeAgrees, WaitAgrees
  <2>6. Answered
    BY <1>2, <2>1 DEF Answered
  <2> QED
    BY <1>3, <2>3, <2>4, <2>5, <2>6 DEF Good, AdapterInv
<1>5. CASE ~CanTake(t, "write")
  <2>1. UNCHANGED <<owner, depth>> /\ probe' = [probe EXCEPT ![t] = "locked"]
    BY <1>5 DEF TryAcquire, Routed, Answers
  <2>2. PICK u \in Caller : u # t /\ owner["write"] = u
    BY <1>1, <1>2, <1>5 DEF CanTake
  <2>3. holds[u] > 0 \/ probe[u] = "trial"
    BY <2>2, OwnerHolds
  <2>4. Answered
    BY <1>2, <2>1, <2>2, <2>3 DEF Answered
  <2>5. AdapterTypeOK'
    BY <1>1, <2>1 DEF AdapterInv, AdapterTypeOK
  <2>6. OwnerAgrees' /\ ProbeAgrees' /\ WaitAgrees'
    BY <1>1, <1>2, <2>1 DEF AdapterInv, OwnerAgrees, ProbeAgrees, WaitAgrees
  <2> QED
    BY <1>3, <2>4, <2>5, <2>6 DEF Good, AdapterInv
<1> QED
  BY <1>4, <1>5

LEMMA GiveBackStep ==
  ASSUME AdapterInv, NEW t \in Caller, NEW k \in Route, GiveBack(t, k)
  PROVE  Good
<1>1. /\ probe[t] = "trial" /\ owner["write"] = t
      /\ owner' = [owner EXCEPT !["write"] = IF depth["write"] = 1 THEN None ELSE t]
      /\ depth' = [depth EXCEPT !["write"] = @ - 1]
      /\ probe' = [probe EXCEPT ![t] = "free"]
      /\ UNCHANGED <<primitive, holds, queue, told, at>>
  BY DEF GiveBack, Give, Routed, Answers, sleepVars
<1>2. /\ holds \in [Caller -> 0 .. MaxDepth] /\ MaxDepth \in Nat \ {0}
      /\ owner \in [Object -> Caller \cup {None}] /\ depth \in [Object -> 0 .. MaxDepth]
      /\ "write" \in Object
      /\ probe \in [Caller -> {"none", "asked", "trial", "free", "locked"}]
  BY AdapterAssumption DEF AdapterInv, AdapterTypeOK, Object
<1>3. depth["write"] = 1 /\ holds[t] = 0 /\ at[t] = "out"
  BY <1>1 DEF AdapterInv, OwnerAgrees, ProbeAgrees
<1>4. \A u \in Caller : holds[u] = 0 /\ (u # t => probe[u] # "trial")
  <2>1. \A u \in Caller \ {t} : ~(holds[u] > 0) /\ probe[u] # "trial"
    BY <1>1 DEF AdapterInv, OwnerAgrees
  <2>2. \A u \in Caller \ {t} : holds[u] = 0
    BY <1>2, <2>1
  <2> QED
    BY <1>3, <2>1, <2>2
<1>5. owner' = [owner EXCEPT !["write"] = None] /\ depth' = [depth EXCEPT !["write"] = 0]
  BY <1>1, <1>3
<1>6. AdapterTypeOK'
  BY <1>1, <1>2, <1>5 DEF AdapterInv, AdapterTypeOK
<1>7. OwnerAgrees'
  BY <1>1, <1>2, <1>4, <1>5, AdapterAssumption DEF OwnerAgrees
<1>8. ProbeAgrees' /\ WaitAgrees'
  BY <1>1, <1>2, <1>3 DEF AdapterInv, ProbeAgrees, WaitAgrees
<1>9. Answered
  BY <1>1, <1>2, <1>4 DEF Answered
<1>10. Seen
  BY <1>1 DEF Seen, Adapted!vars, HeldThrough, WaitThrough
<1> QED
  BY <1>6, <1>7, <1>8, <1>9, <1>10 DEF Good, AdapterInv

\* wait(), up to its sleep.
LEMMA WaitStep ==
  ASSUME AdapterInv, NEW t \in Caller, NEW k \in Route, Wait(t, k)
  PROVE  Good
<1>1. /\ at[t] = "out" /\ probe[t] = "none" /\ owner["write"] = t
      /\ t \in Waiters /\ holds[t] = 1
      /\ owner' = [owner EXCEPT !["write"] = IF depth["write"] = 1 THEN None ELSE t]
      /\ depth' = [depth EXCEPT !["write"] = @ - 1]
      /\ holds' = [holds EXCEPT ![t] = 0]
      /\ queue' = Append(queue, t) /\ at' = [at EXCEPT ![t] = "parked"]
      /\ UNCHANGED <<primitive, probe, told>>
  BY DEF Wait, Idle, Routed, Give
<1>2. /\ holds \in [Caller -> 0 .. MaxDepth] /\ MaxDepth \in Nat \ {0}
      /\ owner \in [Object -> Caller \cup {None}] /\ depth \in [Object -> 0 .. MaxDepth]
      /\ "write" \in Object /\ queue \in Seq(Waiters)
      /\ at \in [Caller -> {"out", "parked", "back"}]
  BY AdapterAssumption DEF AdapterInv, AdapterTypeOK, Object
<1>3. depth["write"] = 1 /\ \A u \in Caller \ {t} : holds[u] = 0 /\ probe[u] # "trial"
  BY <1>1, OwnerHolds
<1>4. owner' = [owner EXCEPT !["write"] = None] /\ depth' = [depth EXCEPT !["write"] = 0]
  BY <1>1, <1>3
<1>5. queue' \in Seq(Waiters)
  BY <1>1, <1>2, AppendProperties
<1>6. AdapterTypeOK'
  BY <1>1, <1>2, <1>4, <1>5 DEF AdapterInv, AdapterTypeOK
<1>7. OwnerAgrees'
  BY <1>1, <1>2, <1>3, <1>4, AdapterAssumption DEF OwnerAgrees
<1>8. ProbeAgrees' /\ WaitAgrees'
  BY <1>1, <1>2 DEF AdapterInv, ProbeAgrees, WaitAgrees
<1>9. Seen
  <2>1. /\ HeldThrough[t] = [r |-> 0, w |-> 1]
        /\ HeldThrough' = [HeldThrough EXCEPT ![t] = [r |-> 0, w |-> 0]]
    BY <1>1, <1>2 DEF HeldThrough
  <2> DEFINE limited == t \in Impatient
  <2>2. /\ WaitThrough[t].stage = "out"
        /\ WaitThrough' = [WaitThrough EXCEPT ![t] =
                             [stage |-> "apart", kind |-> "write", limited |-> limited]]
    BY <1>1, <1>2 DEF WaitThrough
  <2>3. limited \in BOOLEAN
    OBVIOUS
  <2> HIDE DEF limited
  <2>4. Adapted!Wait(t, "write", limited)
    BY <1>1, <2>1, <2>2 DEF Adapted!Wait, Adapted!Single
  <2> QED
    BY <2>3, <2>4 DEF Seen, Adapted!Next, Adapted!Kind
<1> QED
  BY <1>1, <1>6, <1>7, <1>8, <1>9 DEF Good, AdapterInv, Answered

\* notify(), by the owner.
LEMMA NotifyStep ==
  ASSUME AdapterInv, NEW t \in Caller, NEW k \in Route, Notify(t, k)
  PROVE  Good
<1>1. /\ at[t] = "out" /\ probe[t] = "none" /\ owner["write"] = t
      /\ UNCHANGED <<primitive, owner, depth, holds, probe, at>>
  BY DEF Notify, Idle, Routed, lockVars
<1>2. PICK n \in 1 .. Len(queue) :
        /\ told' = told \cup {queue[i] : i \in 1 .. n}
        /\ queue' = SubSeq(queue, n + 1, Len(queue))
  BY DEF Notify
<1>3. queue \in Seq(Waiters) /\ told \subseteq Waiters
  BY DEF AdapterInv, AdapterTypeOK
<1>4. Len(queue) \in Nat /\ \A i \in 1 .. Len(queue) : queue[i] \in Waiters
  BY <1>3
<1>5. told' \subseteq Waiters /\ None \notin {queue[i] : i \in 1 .. n}
  BY <1>2, <1>3, <1>4, AdapterAssumption
<1>6. queue' \in Seq(Waiters)
  <2>1. n + 1 \in Int /\ Len(queue) \in Int /\ \A i \in n + 1 .. Len(queue) : queue[i] \in Waiters
    BY <1>4
  <2> QED
    BY <1>2, <2>1, SubSeqProperties
<1>7. AdapterTypeOK'
  BY <1>1, <1>5, <1>6 DEF AdapterInv, AdapterTypeOK
<1>8. OwnerAgrees' /\ ProbeAgrees' /\ WaitAgrees'
  BY <1>1 DEF AdapterInv, OwnerAgrees, ProbeAgrees, WaitAgrees
<1>9. Seen
  <2>1. holds[t] > 0
    BY <1>1, OwnerHolds
  <2>2. Adapted!Lock!Holds(t)
    <3>1. HeldThrough[t] = [r |-> 0, w |-> holds[t]] /\ holds[t] \in 0 .. MaxDepth
      BY DEF HeldThrough, AdapterInv, AdapterTypeOK
    <3> QED
      BY <2>1, <3>1, AdapterAssumption DEF Adapted!Lock!Holds
  <2>3. WaitThrough[t].stage = "out" /\ WaitThrough' = WaitThrough /\ HeldThrough' = HeldThrough
    BY <1>1 DEF WaitThrough, HeldThrough
  <2>4. told' = told \cup ({queue[i] : i \in 1 .. n} \ {None})
    BY <1>2, <1>5
  <2>5. n <= Len(queue)
    BY <1>4
  <2>6. Adapted!Notify(t, n)
    BY <1>2, <2>2, <2>3, <2>4, <2>5 DEF Adapted!Notify
  <2> QED
    BY <2>6 DEF Seen, Adapted!Next
<1> QED
  BY <1>1, <1>7, <1>8, <1>9 DEF Good, AdapterInv, Answered

\* A task that is cancelled while it waits leaves the line.
LEMMA CancelledStep ==
  ASSUME AdapterInv, NEW t \in Caller, Cancelled(t)
  PROVE  Good
<1>1. /\ at[t] = "parked" /\ t \in Impatient /\ InLine(t) /\ queue' = WithoutWaiter(t)
      /\ UNCHANGED <<primitive, owner, depth, holds, probe, told, at>>
  BY DEF Cancelled, lockVars
<1>2. AdapterTypeOK'
  BY <1>1, WithoutWaiterType DEF AdapterInv, AdapterTypeOK
<1>3. OwnerAgrees' /\ ProbeAgrees' /\ WaitAgrees'
  BY <1>1 DEF AdapterInv, OwnerAgrees, ProbeAgrees, WaitAgrees
<1>4. WaitThrough[t].limited /\ WaitThrough' = WaitThrough /\ HeldThrough' = HeldThrough
  BY <1>1 DEF WaitThrough, HeldThrough
<1>5. Adapted!InLine(t) /\ queue' = Adapted!LineWithout(t)
  BY <1>1 DEF WithoutWaiter, InLine, Adapted!InLine, Adapted!LineWithout
<1>6. Adapted!GiveUp(t)
  BY <1>1, <1>4, <1>5 DEF Adapted!GiveUp
<1> QED
  BY <1>1, <1>2, <1>3, <1>6 DEF Good, AdapterInv, Answered, Seen, Adapted!Next

\* Back from the sleep: the standard condition acquires the primitive again.
LEMMA RegainStep ==
  ASSUME AdapterInv, NEW t \in Caller, NEW k \in Route, Regain(t, k)
  PROVE  Good
<1>1. /\ at[t] = "parked" /\ (t \in told \/ t \in Impatient) /\ Take(t, "write")
      /\ holds' = [holds EXCEPT ![t] = 1] /\ at' = [at EXCEPT ![t] = "back"]
      /\ UNCHANGED <<primitive, probe, queue, told>>
  BY DEF Regain, Routed
<1>2. /\ holds \in [Caller -> 0 .. MaxDepth] /\ MaxDepth \in Nat \ {0}
      /\ owner \in [Object -> Caller \cup {None}] /\ depth \in [Object -> 0 .. MaxDepth]
      /\ "write" \in Object
      /\ at \in [Caller -> {"out", "parked", "back"}]
  BY AdapterAssumption DEF AdapterInv, AdapterTypeOK, Object
<1>3. holds[t] = 0 /\ probe[t] = "none" /\ t \in Waiters
  BY <1>1 DEF AdapterInv, WaitAgrees, ProbeAgrees
<1>4. /\ owner' = [owner EXCEPT !["write"] = t] /\ depth' = [depth EXCEPT !["write"] = 1]
      /\ \A u \in Caller : holds[u] = 0 /\ probe[u] # "trial"
  BY <1>1, <1>3, TakeOne
<1>5. AdapterTypeOK'
  BY <1>1, <1>2, <1>4 DEF AdapterInv, AdapterTypeOK
<1>6. OwnerAgrees'
  BY <1>1, <1>2, <1>3, <1>4, AdapterAssumption DEF OwnerAgrees
<1>7. ProbeAgrees' /\ WaitAgrees'
  BY <1>1, <1>2, <1>3 DEF AdapterInv, ProbeAgrees, WaitAgrees
<1>8. Seen
  <2>1. HeldThrough' = [HeldThrough EXCEPT ![t].w = @ + 1]
    <3>1. HeldThrough[t] = [r |-> 0, w |-> 0]
      BY <1>3 DEF HeldThrough
    <3>2. [HeldThrough[t] EXCEPT !.w = @ + 1] = [r |-> 0, w |-> 1]
      BY <3>1
    <3>3. holds'[t] = 1 /\ \A u \in Caller \ {t} : holds'[u] = holds[u]
      BY <1>1, <1>2
    <3>4. HeldThrough' = [HeldThrough EXCEPT ![t] = [r |-> 0, w |-> 1]]
      BY <3>3 DEF HeldThrough
    <3> QED
      BY <3>1, <3>2, <3>4
  <2>2. \A u \in Caller \ {t} : ~Adapted!Lock!Holds(u)
    BY <1>4 DEF Adapted!Lock!Holds, HeldThrough
  <2>3. Adapted!Lock!AcquireWrite(t)
    BY <2>1, <2>2 DEF Adapted!Lock!AcquireWrite
  <2>4. WaitThrough[t] = [stage |-> "apart", kind |-> "write", limited |-> t \in Impatient]
    BY <1>1 DEF WaitThrough
  <2>5. WaitThrough' = [WaitThrough EXCEPT ![t] = [@ EXCEPT !.stage = "back"]]
    BY <1>1, <1>2 DEF WaitThrough
  <2>6. /\ WaitThrough[t].stage = "apart" /\ WaitThrough[t].kind = "write"
        /\ WaitThrough[t].limited = (t \in Impatient)
    BY <2>4
  <2>7. WaitThrough' = [WaitThrough EXCEPT ![t].stage = "back"]
    BY <2>5
  <2>8. Adapted!Regain(t)
    BY <1>1, <2>3, <2>6, <2>7 DEF Adapted!Regain
  <2> QED
    BY <2>8 DEF Seen, Adapted!Next
<1> QED
  BY <1>1, <1>5, <1>6, <1>7, <1>8 DEF Good, AdapterInv, Answered

\* wait() returns, and takes out a waiter that was not notified.
LEMMA ReturnStep ==
  ASSUME AdapterInv, NEW t \in Caller, Return(t)
  PROVE  Good
<1>1. /\ at[t] = "back" /\ queue' = WithoutWaiter(t) /\ told' = told \ {t}
      /\ at' = [at EXCEPT ![t] = "out"]
      /\ UNCHANGED <<primitive, owner, depth, holds, probe>>
  BY DEF Return, lockVars
<1>2. at \in [Caller -> {"out", "parked", "back"}]
  BY DEF AdapterInv, AdapterTypeOK
<1>3. AdapterTypeOK'
  BY <1>1, WithoutWaiterType DEF AdapterInv, AdapterTypeOK
<1>4. OwnerAgrees' /\ ProbeAgrees' /\ WaitAgrees'
  BY <1>1, <1>2 DEF AdapterInv, OwnerAgrees, ProbeAgrees, WaitAgrees
<1>5. WaitThrough[t].stage = "back" /\ HeldThrough' = HeldThrough
  BY <1>1 DEF WaitThrough, HeldThrough
<1>6. WaitThrough' = [WaitThrough EXCEPT ![t] = Adapted!Out]
  BY <1>1, <1>2 DEF WaitThrough, Adapted!Out
<1>7. queue' = Adapted!LineWithout(t)
  BY <1>1 DEF WithoutWaiter, InLine, Adapted!InLine, Adapted!LineWithout
<1>8. Adapted!Return(t)
  BY <1>1, <1>5, <1>6, <1>7 DEF Adapted!Return, Adapted!Leave
<1> QED
  BY <1>1, <1>3, <1>4, <1>8 DEF Good, AdapterInv, Answered, Seen, Adapted!Next

\* Every step.
LEMMA AdapterStep ==
  ASSUME AdapterInv, [Next]_vars
  PROVE  AdapterInv' /\ [Adapted!Next]_Adapted!vars /\ Answered
<1>1. ASSUME NEW t \in Caller, NEW k \in Route, Locking(t, k) PROVE Good
  BY <1>1, AcquireStep, ReleaseStep DEF Locking
<1>2. ASSUME NEW t \in Caller, NEW k \in Route, Locked(t, k) PROVE Good
  BY <1>2, AskStep, TryStep, GiveBackStep DEF Locked
<1>3. ASSUME NEW t \in Caller, NEW k \in Route, Signalling(t, k) PROVE Good
  BY <1>3, WaitStep, NotifyStep, RegainStep DEF Signalling
<1>4. ASSUME NEW t \in Caller, Heed(t) \/ Cancelled(t) \/ Return(t) PROVE Good
  BY <1>4, AskStep, CancelledStep, ReturnStep
<1>5. CASE Next
  <2>1. Good
    BY <1>1, <1>2, <1>3, <1>4, <1>5 DEF Next
  <2> QED
    BY <2>1 DEF Good, Seen
<1>6. CASE UNCHANGED vars
  BY <1>6 DEF vars, lockVars, sleepVars, AdapterInv, AdapterTypeOK, OwnerAgrees, ProbeAgrees,
              WaitAgrees, Answered, Adapted!vars, HeldThrough, WaitThrough
<1> QED
  BY <1>5, <1>6

LEMMA AdapterInit ==
  ASSUME Init
  PROVE  AdapterInv /\ Adapted!Init
<1>1. /\ owner = [o \in Object |-> None] /\ depth = [o \in Object |-> 0]
      /\ holds = [t \in Caller |-> 0] /\ probe = [t \in Caller |-> "none"]
      /\ queue = << >> /\ told = {} /\ at = [t \in Caller |-> "out"]
      /\ primitive \in Primitive
  BY DEF Init
<1>2. << >> \in Seq(Waiters) /\ 0 \in 0 .. MaxDepth
  BY AdapterAssumption
<1>3. AdapterInv
  BY <1>1, <1>2, AdapterAssumption
     DEF AdapterInv, AdapterTypeOK, OwnerAgrees, ProbeAgrees, WaitAgrees, Object
<1>4. HeldThrough = [t \in Caller |-> [r |-> 0, w |-> 0]]
  BY <1>1 DEF HeldThrough
<1>5. WaitThrough = [t \in Caller |-> Adapted!Out]
  BY <1>1 DEF WaitThrough, Adapted!Out
<1> QED
  BY <1>1, <1>3, <1>4, <1>5 DEF Adapted!Init, Adapted!Lock!Init

-----------------------------------------------------------------------------
(* The theorems.                                                           *)

\* The primitive is held by who has acquired it, or probes it, and nobody else.
THEOREM AdapterInvariance == Spec => []AdapterInv
<1>1. Init => AdapterInv
  BY AdapterInit
<1>2. AdapterInv /\ [Next]_vars => AdapterInv'
  BY AdapterStep
<1> QED
  BY <1>1, <1>2, PTL DEF Spec

\* Type correctness: an RLock is never acquired above MaxDepth, nor released below 0.
THEOREM AdapterTypeCorrect == Spec => []AdapterTypeOK
<1>1. AdapterInv => AdapterTypeOK
  BY DEF AdapterInv
<1> QED
  BY <1>1, AdapterInvariance, PTL

\* locked() says free only of a lock that nobody holds, and locked only of one that
\* is held, or that another caller is probing at that moment.
THEOREM LockedAnswersRight == Spec => LockedAnswers
<1>1. AdapterInv /\ [Next]_vars => [Answered]_vars
  BY AdapterStep
<1>2. [Answered]_vars <=>
        [\A t \in Caller :
           /\ (probe[t] # "free" /\ probe'[t] = "free") => \A u \in Caller : holds[u] = 0
           /\ (probe[t] # "locked" /\ probe'[t] = "locked")
                => \E u \in Caller : holds[u] > 0 \/ (u # t /\ probe[u] = "trial")]_vars
  BY DEF Answered
<1> QED
  BY <1>1, <1>2, AdapterInvariance, PTL DEF Spec, LockedAnswers

\* An adapter is the abstract condition, by whichever routes its callers come, and
\* however many of them probe it meanwhile.
THEOREM AdapterRefinement == Spec => AdapterIsCondition
<1>1. Init => Adapted!Init
  BY AdapterInit
<1>2. AdapterInv /\ [Next]_vars => [Adapted!Next]_Adapted!vars
  BY AdapterStep
<1> QED
  BY <1>1, <1>2, AdapterInvariance, PTL DEF Spec, AdapterIsCondition, Adapted!Spec

=============================================================================

-------------------------- MODULE StandardAdapters --------------------------
(***************************************************************************)
(* Lock, AsyncLock, Condition and AsyncCondition: one standard primitive   *)
(* behind the read proxy, the write proxy and the object's own methods.    *)
(* What is not the adapters' own is the standard library's: a threading or *)
(* asyncio lock, and a condition over it.  locked() of a threading.RLock   *)
(* that has no such method is found out by trying to acquire it, which the *)
(* other callers see.                                                      *)
(***************************************************************************)
EXTENDS Naturals, Sequences, FiniteSets

CONSTANTS Caller,    \* threads, or asyncio tasks
          None,      \* Python's None
          Waiters,   \* callers of wait()
          Impatient, \* waiters with a timeout, or that may be cancelled
          MaxDepth   \* bound on the nested acquisitions of an RLock

ASSUME AdapterAssumption ==
  /\ Impatient \subseteq Waiters
  /\ Waiters \subseteq Caller
  /\ None \notin Caller
  /\ MaxDepth \in Nat \ {0}

VARIABLES
  primitive,  \* what the adapter was made with
  owner,      \* which caller holds a primitive
  depth,      \* how often it has acquired it
  holds,      \* the acquisitions that a caller has made and not given up
  probe,      \* where t is in locked(), and its answer
  queue,      \* the waiters of the standard condition
  told,       \* waiters that were notified
  at          \* where t is in wait()

lockVars == <<primitive, owner, depth, holds>>

sleepVars == <<queue, told, at>>

vars == <<lockVars, probe, sleepVars>>

Primitive == {"Lock", "RLock", "asyncio"}

Route == {"read", "write", "direct"}

\* One of them would do; there are two for the mutant below.
Object == {"read", "write"}

\* Mutant: self.read is made with a primitive of its own.
RoutedApart(k) == IF k = "read" THEN "read" ELSE "write"

\* self.read = self.write = lock, and the direct methods go to self.write.
Routed(k) == "write"

AdapterTypeOK ==
  /\ primitive \in Primitive
  /\ owner \in [Object -> Caller \cup {None}]
  /\ depth \in [Object -> 0 .. MaxDepth]
  /\ holds \in [Caller -> 0 .. MaxDepth]
  /\ probe \in [Caller -> {"none", "asked", "trial", "free", "locked"}]
  /\ queue \in Seq(Waiters)
  /\ told \subseteq Waiters
  /\ at \in [Caller -> {"out", "parked", "back"}]

Init ==
  /\ primitive \in Primitive
  /\ owner = [o \in Object |-> None]
  /\ depth = [o \in Object |-> 0]
  /\ holds = [t \in Caller |-> 0]
  /\ probe = [t \in Caller |-> "none"]
  /\ queue = << >>
  /\ told = {}
  /\ at = [t \in Caller |-> "out"]

Idle(t) == at[t] = "out" /\ probe[t] = "none"

-----------------------------------------------------------------------------
(* The standard library's locks.                                           *)

CanTake(t, o) == owner[o] = None \/ (primitive = "RLock" /\ owner[o] = t)

Take(t, o) ==
  /\ CanTake(t, o)
  /\ owner' = [owner EXCEPT ![o] = t]
  /\ depth' = [depth EXCEPT ![o] = @ + 1]

Give(t, o) ==
  /\ owner[o] = t
  /\ owner' = [owner EXCEPT ![o] = IF depth[o] = 1 THEN None ELSE t]
  /\ depth' = [depth EXCEPT ![o] = @ - 1]

-----------------------------------------------------------------------------
(* acquire, release and locked, through a proxy or directly.               *)

\* A caller nests its acquisitions in an RLock only; in another lock it would
\* wait for itself.
Acquire(t, k) ==
  /\ Idle(t)
  /\ holds[t] < IF primitive = "RLock" THEN MaxDepth ELSE 1
  /\ Take(t, Routed(k))
  /\ holds' = [holds EXCEPT ![t] = @ + 1]
  /\ UNCHANGED <<primitive, probe, sleepVars>>

Release(t, k) ==
  /\ Idle(t)
  /\ Give(t, Routed(k))
  /\ holds' = [holds EXCEPT ![t] = @ - 1]
  /\ UNCHANGED <<primitive, probe, sleepVars>>

Answers(t, taken) == probe' = [probe EXCEPT ![t] = IF taken THEN "locked" ELSE "free"]

\* The primitive's own locked().
AskPrimitive(t, k) ==
  /\ Idle(t)
  /\ primitive # "RLock"
  /\ Answers(t, owner[Routed(k)] # None)
  /\ UNCHANGED <<lockVars, sleepVars>>

\* Mutant: nobody asks whether the caller itself is the owner.
AskNobody(t, k) ==
  /\ Idle(t)
  /\ primitive = "RLock"
  /\ probe' = [probe EXCEPT ![t] = "asked"]
  /\ UNCHANGED <<lockVars, sleepVars>>

\* _is_owned() of an RLock without locked().
AskOwned(t, k) ==
  /\ Idle(t)
  /\ primitive = "RLock"
  /\ IF owner[Routed(k)] = t
     THEN Answers(t, TRUE)
     ELSE probe' = [probe EXCEPT ![t] = "asked"]
  /\ UNCHANGED <<lockVars, sleepVars>>

\* lock.acquire(False), and for a moment the caller has the lock.
TryAcquire(t, k) ==
  /\ probe[t] = "asked"
  /\ IF CanTake(t, Routed(k))
     THEN Take(t, Routed(k)) /\ probe' = [probe EXCEPT ![t] = "trial"]
     ELSE Answers(t, TRUE) /\ UNCHANGED <<owner, depth>>
  /\ UNCHANGED <<primitive, holds, sleepVars>>

GiveBack(t, k) ==
  /\ probe[t] = "trial"
  /\ Give(t, Routed(k))
  /\ Answers(t, FALSE)
  /\ UNCHANGED <<primitive, holds, sleepVars>>

\* The caller has its answer, and goes on.
Heed(t) ==
  /\ probe[t] \in {"free", "locked"}
  /\ probe' = [probe EXCEPT ![t] = "none"]
  /\ UNCHANGED <<lockVars, sleepVars>>

-----------------------------------------------------------------------------
(* The standard library's conditions.                                      *)

InLine(t) == \E i \in 1 .. Len(queue) : queue[i] = t

WithoutWaiter(t) ==
  IF InLine(t)
  THEN LET i == CHOOSE i \in 1 .. Len(queue) : queue[i] = t
       IN  SubSeq(queue, 1, i - 1) \o SubSeq(queue, i + 1, Len(queue))
  ELSE queue

\* A caller waits with the one acquisition that wait() gives up.
Wait(t, k) ==
  /\ Idle(t)
  /\ t \in Waiters
  /\ holds[t] = 1
  /\ Give(t, Routed(k))
  /\ holds' = [holds EXCEPT ![t] = 0]
  /\ queue' = Append(queue, t)
  /\ at' = [at EXCEPT ![t] = "parked"]
  /\ UNCHANGED <<primitive, probe, told>>

Notify(t, k) ==
  /\ Idle(t)
  /\ owner[Routed(k)] = t
  /\ \E n \in 1 .. Len(queue) :
       /\ told' = told \cup {queue[i] : i \in 1 .. n}
       /\ queue' = SubSeq(queue, n + 1, Len(queue))
  /\ UNCHANGED <<lockVars, probe, at>>

\* A task that is cancelled takes its future out of the line first.
Cancelled(t) ==
  /\ primitive = "asyncio"
  /\ at[t] = "parked"
  /\ t \in Impatient
  /\ InLine(t)
  /\ queue' = WithoutWaiter(t)
  /\ UNCHANGED <<lockVars, probe, told, at>>

\* A thread whose time is over acquires the lock first.
Regain(t, k) ==
  /\ at[t] = "parked"
  /\ \/ t \in told
     \/ t \in Impatient /\ (primitive = "asyncio" => ~InLine(t))
  /\ Take(t, Routed(k))
  /\ holds' = [holds EXCEPT ![t] = 1]
  /\ at' = [at EXCEPT ![t] = "back"]
  /\ UNCHANGED <<primitive, probe, queue, told>>

Return(t) ==
  /\ at[t] = "back"
  /\ queue' = WithoutWaiter(t)
  /\ told' = told \ {t}
  /\ at' = [at EXCEPT ![t] = "out"]
  /\ UNCHANGED <<lockVars, probe>>

-----------------------------------------------------------------------------

Locking(t, k) == Acquire(t, k) \/ Release(t, k)

Locked(t, k) == AskPrimitive(t, k) \/ AskOwned(t, k) \/ TryAcquire(t, k) \/ GiveBack(t, k)

Signalling(t, k) == Wait(t, k) \/ Notify(t, k) \/ Regain(t, k)

Next ==
  \E t \in Caller :
    \/ \E k \in Route : Locking(t, k) \/ Locked(t, k) \/ Signalling(t, k)
    \/ Heed(t)
    \/ Cancelled(t)
    \/ Return(t)

Spec == Init /\ [][Next]_vars

-----------------------------------------------------------------------------

\* A caller that is told that the lock is free is told so while nobody held it: not
\* another one, who may acquire it at any step of the probe, and not the caller
\* itself, which could acquire an RLock again.  A lock that is called locked was
\* held, or another caller was probing it at that moment.
LockedAnswers ==
  [][\A t \in Caller :
       /\ (probe[t] # "free" /\ probe'[t] = "free") => \A u \in Caller : holds[u] = 0
       /\ (probe[t] # "locked" /\ probe'[t] = "locked")
            => \E u \in Caller : holds[u] > 0 \/ (u # t /\ probe[u] = "trial")]_vars

HeldThrough == [t \in Caller |-> [r |-> 0, w |-> holds[t]]]

WaitThrough == [t \in Caller |->
  IF at[t] = "out"
  THEN [stage |-> "out", kind |-> "read", limited |-> FALSE]
  ELSE [stage |-> IF at[t] = "back" THEN "back" ELSE "apart",
        kind |-> "write", limited |-> t \in Impatient]]

Adapted == INSTANCE ReadWriteCondition WITH
  Fallible <- {},
  Nobody <- None,
  held <- HeldThrough,
  line <- queue,
  wait <- WaitThrough

\* "Both .read and .write point to the same standard condition": a section that was
\* entered through any of the routes excludes all the others, a wait gives up and
\* has again what was acquired through another route, and the probes of locked()
\* show in nothing that the callers hold.
AdapterIsCondition == Adapted!Spec

=============================================================================

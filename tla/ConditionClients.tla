-------------------------- MODULE ConditionClients --------------------------
(***************************************************************************)
(* One RWCondition object over the lock of LockClients: its waiter queue,  *)
(* and where each caller is in a call of wait().  The thread and the       *)
(* asyncio condition share _RWConditionMixin and the queue's notify; they  *)
(* differ in what wait() does between giving the lock up and having it     *)
(* again, and are modelled apart from here.                                *)
(***************************************************************************)
EXTENDS LockClients

CONSTANTS Waiters,             \* callers of wait()
          WaitsAfterDowngrade  \* callers that wait in a downgraded block

ASSUME ConditionAssumption ==
  Waiters \subseteq Caller /\ WaitsAfterDowngrade \subseteq Waiters

VARIABLES
  cond,  \* the condition's waiter queue
  at,    \* where t is in wait()
  mode   \* the proxy, cond.read or cond.write, that t called wait() on

QueueRecord ==
  [queue     : Seq(Caller \cup {None}),  \* _waiters, the deque: None for the
                                \* waiter of a wait that is over, see there
   woken     : SUBSET Caller,   \* waiters released by a notify
   cancelled : SUBSET Caller]   \* waiters whose future is cancelled

Place == {"out", "entering", "parked", "regaining"}

ConditionTypeOK ==
  /\ cond \in QueueRecord
  /\ at \in [Caller -> Place]
  /\ mode \in [Caller -> Kind]

ConditionInit ==
  /\ cond = [queue |-> << >>, woken |-> {}, cancelled |-> {}]
  /\ at = [t \in Caller |-> "out"]
  /\ mode = [t \in Caller |-> "read"]

-----------------------------------------------------------------------------

Owns(k, t) == IF k = "read" THEN lock.owners[t] > 0 ELSE lock.writer = t

Holds(t) == held[t] # [r |-> 0, w |-> 0]

OwnedDepth(t) == lock.owners[t] + (IF lock.writer = t THEN WriteDepth(lock) ELSE 0)

\* When this fails, wait raises and changes nothing.
MayWait(k, t) == Owns(k, t) /\ OwnedDepth(t) = 1

\* The calls of wait that t makes: in a block that it has downgraded only if
\* the instance says so.
CallsWait(t, k) ==
  /\ Idle(t)
  /\ at[t] = "out"
  /\ t \in Waiters
  /\ t \in downgraded => t \in WaitsAfterDowngrade
  /\ MayWait(k, t)

AddWaiter(c, t) == [c EXCEPT !.queue = Append(@, t)]

RemoveWaiter(c, t) == [c EXCEPT !.queue = Without(@, t)]

\* Mutant: a cancelled waiter uses up a notification.
SignalCountingAll(c, n) ==
  LET pop == Popped(c.queue, n, {})
  IN  [c EXCEPT !.queue = SubSeq(@, Cardinality(pop) + 1, Len(@)),
                !.woken = @ \cup ({c.queue[i] : i \in pop} \ (c.cancelled \cup {None}))]

Signal(c, n) ==
  LET pop == Popped(c.queue, n, c.cancelled)
  IN  [c EXCEPT !.queue = SubSeq(@, Cardinality(pop) + 1, Len(@)),
                !.woken = @ \cup ({c.queue[i] : i \in pop} \ (c.cancelled \cup {None}))]

\* notify(n) and notify_all(), under the proxy of kind k.
NotifyWaiters(t, k) ==
  /\ Idle(t)
  /\ at[t] = "out"
  /\ Owns(k, t)
  /\ \E n \in 1 .. Len(cond.queue) : cond' = Signal(cond, n)
  /\ UNCHANGED <<clientVars, at, mode>>

-----------------------------------------------------------------------------
(* What the conditions promise.                                            *)

\* What t holds, seen from outside: wait() gives the lock up when it enqueues.
HeldOutside == [t \in Caller |->
  IF at[t] = "entering" THEN [r |-> 0, w |-> 0] ELSE held[t]]

Stage(t) ==
  IF at[t] = "out" THEN "out"
  ELSE IF at[t] = "regaining" /\ Holds(t) THEN "back"
  ELSE "apart"

\* The places in the deque of the waiters that a notify can reach.
LivePlaces(c) == {i \in 1 .. Len(c.queue) : c.queue[i] \notin c.cancelled}

Rank(S, i) == Cardinality({j \in S : j <= i})

\* These waiters, in the order they came.
LineOf(c) ==
  [n \in 1 .. Cardinality(LivePlaces(c)) |->
     c.queue[CHOOSE i \in LivePlaces(c) : Rank(LivePlaces(c), i) = n]]

Line == LineOf(cond)

\* Tasks "that have already been cancelled are ignored and do not count": a notify
\* that pops anything reaches the first of the others, wherever it is in the deque.
NotifyReaches ==
  [][Len(cond'.queue) < Len(cond.queue) /\ at' = at /\ Line # << >>
       => Line[1] \in cond'.woken]_cond

\* write.release() "intelligently detects if the lock was downgraded by the
\* current thread and routes the release to the reader core": a caller in a
\* block that it has downgraded is routed so, whether or not it has waited on
\* the condition meanwhile.
DowngradedRoutes ==
  \A t \in downgraded : at[t] = "out" /\ Idle(t) => RoutedToRead(t)

=============================================================================

----------------------- MODULE ConditionClientsProofs -----------------------
(***************************************************************************)
(* The waiter queue of a condition, for both stacks: it keeps its type     *)
(* whichever of its methods is called, holds each waiter once, and the     *)
(* line of those that a notify can reach moves with it.                    *)
(***************************************************************************)
EXTENDS ConditionClients, LockClientsProofs

\* add_waiter and remove_waiter.
LEMMA WaiterType ==
  ASSUME NEW c \in QueueRecord, NEW t \in Caller
  PROVE  /\ AddWaiter(c, t) \in QueueRecord
         /\ RemoveWaiter(c, t) \in QueueRecord
<1> DEFINE Waiter == Caller \cup {None}
<1>1. Append(c.queue, t) \in Seq(Waiter) /\ Without(c.queue, t) \in Seq(Waiter)
  BY AppendProperties, WithoutType DEF QueueRecord
<1> QED
  BY <1>1 DEF AddWaiter, RemoveWaiter, QueueRecord

\* notify and notify_all pop a prefix of the deque.
LEMMA SignalType ==
  ASSUME NEW c \in QueueRecord, NEW n
  PROVE  Signal(c, n) \in QueueRecord
<1> DEFINE q    == c.queue
           pop  == Popped(q, n, c.cancelled)
           rest == SubSeq(q, Cardinality(pop) + 1, Len(q))
           told == c.woken \cup ({q[i] : i \in pop} \ (c.cancelled \cup {None}))
<1>1. q \in Seq(Caller \cup {None})
  BY DEF QueueRecord
<1>2. Len(q) \in Nat /\ \A i \in 1 .. Len(q) : q[i] \in Caller \cup {None}
  BY <1>1
<1>3. pop \subseteq 1 .. Len(q)
  BY DEF Popped
<1>4. Cardinality(pop) \in Nat
  <2>1. IsFiniteSet(1 .. Len(q))
    BY <1>2, FS_Interval
  <2>2. IsFiniteSet(pop)
    BY <1>3, <2>1, FS_Subset
  <2> QED
    BY <2>2, FS_CardinalityType
<1>5. rest \in Seq(Caller \cup {None})
  <2>1. \A i \in Cardinality(pop) + 1 .. Len(q) : q[i] \in Caller \cup {None}
    BY <1>2, <1>4
  <2>2. Cardinality(pop) + 1 \in Int /\ Len(q) \in Int
    BY <1>2, <1>4
  <2> QED
    BY <2>1, <2>2, SubSeqProperties
<1>6. told \in SUBSET Caller
  BY <1>2, <1>3 DEF QueueRecord
<1>7. Signal(c, n) = [c EXCEPT !.queue = rest, !.woken = told]
  BY DEF Signal, QueueRecord
<1> HIDE DEF rest, told, pop, q
<1> QED
  BY <1>5, <1>6, <1>7 DEF QueueRecord

-----------------------------------------------------------------------------
(* The deque, and who waits.                                               *)

Nothing == [r |-> 0, w |-> 0]

HeldOnce(k) == IF k = "read" THEN [r |-> 1, w |-> 0] ELSE [r |-> 0, w |-> 1]

\* No caller has two waiters in the deque; waits that failed may have left some.
LineOnce(q) == \A i, j \in 1 .. Len(q) : q[i] = q[j] /\ q[i] # None => i = j

\* remove_waiter takes out the one waiter of t.
LEMMA LineLeft ==
  ASSUME NEW q \in Seq(Caller \cup {None}), LineOnce(q), NEW t \in Caller
  PROVE  LineOnce(Without(q, t)) /\ Queued(Without(q, t)) \subseteq Queued(q) \ {t}
<1> DEFINE r == Without(q, t)
<1>1. Len(q) \in Nat /\ t # None
  BY CallerAssumption
<1>2. CASE t \notin Queued(q)
  BY <1>2 DEF Without, Queued
<1>3. CASE t \in Queued(q)
  <2>1. PICK i \in 1 .. Len(q) :
          /\ q[i] = t /\ Len(r) = Len(q) - 1
          /\ \A j \in 1 .. Len(q) - 1 : r[j] = IF j < i THEN q[j] ELSE q[j + 1]
    BY <1>3, WithoutShape
  <2> HIDE DEF r
  <2> DEFINE from(a) == IF a < i THEN a ELSE a + 1
  <2>2. \A a \in 1 .. Len(r) : from(a) \in 1 .. Len(q) /\ r[a] = q[from(a)] /\ from(a) # i
    BY <1>1, <2>1
  <2>3. LineOnce(r)
    <3> SUFFICES ASSUME NEW a \in 1 .. Len(r), NEW b \in 1 .. Len(r),
                        r[a] = r[b], r[a] # None
                 PROVE  a = b
      BY DEF LineOnce
    <3>1. from(a) = from(b)
      BY <2>2 DEF LineOnce
    <3> QED
      BY <1>1, <2>1, <3>1
  <2>4. \A a \in 1 .. Len(r) : r[a] \in Queued(q) \ {t}
    BY <1>1, <2>1, <2>2 DEF LineOnce, Queued
  <2> QED
    BY <2>3, <2>4 DEF r, Queued
<1> QED
  BY <1>2, <1>3

\* add_waiter, of a caller that has none.
LEMMA LineJoined ==
  ASSUME NEW q \in Seq(Caller \cup {None}), LineOnce(q), NEW t \in Caller, t \notin Queued(q)
  PROVE  LineOnce(Append(q, t)) /\ Queued(Append(q, t)) = Queued(q) \cup {t}
<1> DEFINE r == Append(q, t)
<1>1. /\ Len(q) \in Nat /\ Len(r) = Len(q) + 1 /\ r[Len(q) + 1] = t
      /\ \A i \in 1 .. Len(q) : r[i] = q[i]
  BY AppendProperties
<1>2. \A i \in 1 .. Len(q) : q[i] # t
  BY DEF Queued
<1> HIDE DEF r
<1>3. LineOnce(r)
  BY <1>1, <1>2 DEF LineOnce
<1>4. Queued(r) = Queued(q) \cup {t}
  BY <1>1 DEF Queued
<1> QED
  BY <1>3, <1>4 DEF r

\* What is left of the deque when its first p waiters are popped.
LEMMA LineRest ==
  ASSUME NEW q \in Seq(Caller \cup {None}), LineOnce(q), NEW p \in 0 .. Len(q)
  PROVE  LET rest == SubSeq(q, p + 1, Len(q))
             head == {q[i] : i \in 1 .. p} \ {None}
         IN  /\ LineOnce(rest)
             /\ Queued(rest) \subseteq Queued(q) \ head
             /\ head \subseteq Queued(q)
             /\ Queued(q) \subseteq Queued(rest) \cup head \cup {None}
<1> DEFINE N    == Len(q)
           rest == SubSeq(q, p + 1, N)
           head == {q[i] : i \in 1 .. p} \ {None}
<1>1. /\ N \in Nat /\ p \in Nat /\ p <= N
      /\ \A i \in 1 .. N : q[i] \in Caller \cup {None}
  OBVIOUS
<1>2. Len(rest) = N - p /\ \A i \in 1 .. N - p : rest[i] = q[p + i]
  <2>1. p + 1 \in Int /\ N \in Int /\ \A i \in p + 1 .. N : q[i] \in Caller \cup {None}
    BY <1>1
  <2>2. /\ Len(rest) = IF p + 1 <= N THEN N - (p + 1) + 1 ELSE 0
        /\ \A i \in 1 .. N - (p + 1) + 1 : rest[i] = q[(p + 1) + i - 1]
    BY <2>1, SubSeqProperties
  <2> HIDE DEF rest
  <2>3. N - (p + 1) + 1 = N - p /\ \A i \in Int : (p + 1) + i - 1 = p + i
    BY <1>1
  <2>4. Len(rest) = N - p
    BY <1>1, <2>2
  <2>5. ASSUME NEW i \in 1 .. N - p PROVE rest[i] = q[p + i]
    <3>1. i \in 1 .. N - (p + 1) + 1 /\ (p + 1) + i - 1 = p + i
      BY <2>3
    <3> QED
      BY <2>2, <3>1
  <2> QED
    BY <2>4, <2>5
<1> HIDE DEF rest
<1>3. \A i \in 1 .. Len(rest) : p + i \in 1 .. N /\ p + i > p /\ rest[i] = q[p + i]
  BY <1>1, <1>2
<1>4. LineOnce(rest)
  <2> SUFFICES ASSUME NEW a \in 1 .. Len(rest), NEW b \in 1 .. Len(rest),
                      rest[a] = rest[b], rest[a] # None
               PROVE  a = b
    BY DEF LineOnce
  <2>1. p + a = p + b
    BY <1>3 DEF LineOnce
  <2> QED
    BY <1>1, <2>1
<1>5. ASSUME NEW a \in 1 .. Len(rest) PROVE rest[a] \in Queued(q) \ head
  <2>1. ASSUME NEW i \in 1 .. p, q[i] # None, q[i] = q[p + a] PROVE FALSE
    <3>1. i \in 1 .. N /\ p + a \in 1 .. N /\ p + a > p
      BY <1>1, <1>3
    <3>2. i = p + a
      BY <2>1, <3>1 DEF LineOnce
    <3> QED
      BY <1>1, <3>1, <3>2
  <2> QED
    BY <1>3, <2>1 DEF Queued
<1>6. Queued(rest) \subseteq Queued(q) \ head
  BY <1>5 DEF Queued
<1>7. head \subseteq Queued(q)
  BY <1>1 DEF Queued
<1>8. ASSUME NEW i \in 1 .. N PROVE q[i] \in Queued(rest) \cup head \cup {None}
  <2>1. CASE i <= p
    BY <1>1, <2>1
  <2>2. CASE ~(i <= p)
    <3>1. i - p \in 1 .. N - p /\ p + (i - p) = i
      BY <1>1, <2>2
    <3>2. i - p \in 1 .. Len(rest) /\ rest[i - p] = q[i]
      BY <1>2, <3>1
    <3> QED
      BY <3>2 DEF Queued
  <2> QED
    BY <2>1, <2>2
<1>9. Queued(q) \subseteq Queued(rest) \cup head \cup {None}
  BY <1>8 DEF Queued
<1> QED
  BY <1>4, <1>6, <1>7, <1>9 DEF rest

\* What the checks of wait() find out: t holds the lock once, in the mode it waits in.
LEMMA WaiterHolds ==
  ASSUME ClientInv, NEW t \in Caller, NEW k \in Kind, CallsWait(t, k)
  PROVE  held[t] = HeldOnce(k)
<1>1. /\ held[t] \in [r : Nat, w : Nat] /\ lock \in LockRecord
      /\ lock.owners[t] = held[t].r
      /\ held[t].w = IF lock.writer = t THEN WriteDepth(lock) ELSE 0
  BY DEF ClientInv, ClientTypeOK, HoldsAgree
<1>2. lock.writer = t => WriteDepth(lock) > 0
  BY CallerAssumption DEF ClientInv, HoldsAgree, HoldsConsistent, WriteDepth
<1>3. held[t].r + held[t].w = 1
  BY <1>1 DEF CallsWait, MayWait, OwnedDepth
<1>4. IF k = "read" THEN held[t].r > 0 ELSE held[t].w > 0
  BY <1>1, <1>2 DEF CallsWait, MayWait, Owns
<1> QED
  BY <1>1, <1>3, <1>4 DEF HeldOnce

\* release() in wait(), through the proxy of its mode, gives up that hold.
LEMMA GivesUp ==
  ASSUME ClientInv, NEW t \in Caller, NEW k \in Kind, held[t] = HeldOnce(k),
         IF k = "read" THEN ReleaseRead(t) ELSE EndDowngraded(t) \/ EndWrite(t)
  PROVE  held' = [held EXCEPT ![t] = Nothing] /\ call' = call
<1>1. held \in [Caller -> [r : Nat, w : Nat]]
  BY DEF ClientInv, ClientTypeOK
<1>2. CASE k = "read"
  <2>1. call' = call /\ held' = [held EXCEPT ![t] = [held[t] EXCEPT !.r = @ - 1]]
    BY <1>2 DEF ReleaseRead, Loses
  <2>2. [held[t] EXCEPT !.r = @ - 1] = Nothing
    BY <1>2 DEF HeldOnce, Nothing
  <2> QED
    BY <2>1, <2>2
<1>3. CASE k = "write"
  <2>1. held[t].r = 0
    BY <1>3 DEF HeldOnce
  <2>2. ~RoutedToRead(t)
    BY <2>1 DEF RoutedToRead, ClientInv, HoldsAgree
  <2>3. EndWrite(t)
    BY <1>3, <2>2 DEF EndDowngraded
  <2>4. /\ call' = call
        /\ held' = [held EXCEPT ![t] = [held[t] EXCEPT !.w = IF @ = 0 THEN 0 ELSE @ - 1]]
    BY <2>3 DEF EndWrite, Loses
  <2>5. [held[t] EXCEPT !.w = IF @ = 0 THEN 0 ELSE @ - 1] = Nothing
    BY <1>3 DEF HeldOnce, Nothing
  <2> QED
    BY <2>4, <2>5
<1> QED
  BY <1>2, <1>3 DEF Kind

\* What the reacquire of wait() gained is the hold that was given up.
LEMMA GainsOnce ==
  ASSUME ClientInv, NEW t \in Caller, NEW k \in Kind, held[t] = Nothing, Gains(t, k),
         Promise!AcquireRead(t) \/ Promise!AcquireWrite(t)
  PROVE  /\ held' = [held EXCEPT ![t] = HeldOnce(k)]
         /\ IF k = "read" THEN Promise!AcquireRead(t) ELSE Promise!AcquireWrite(t)
<1>1. held \in [Caller -> [r : Nat, w : Nat]]
  BY DEF ClientInv, ClientTypeOK
<1>2. CASE k = "read"
  <2>1. held' = [held EXCEPT ![t] = HeldOnce("read")]
    <3>1. [held[t] EXCEPT !.r = @ + 1] = HeldOnce("read")
      BY DEF HeldOnce, Nothing
    <3>2. held' = [held EXCEPT ![t] = [held[t] EXCEPT !.r = @ + 1]]
      BY <1>2 DEF Gains
    <3> QED
      BY <3>1, <3>2
  <2>2. ~Promise!AcquireWrite(t)
    BY <1>1, <2>1 DEF Promise!AcquireWrite, HeldOnce, Nothing
  <2> QED
    BY <1>2, <2>1, <2>2
<1>3. CASE k = "write"
  <2>1. held' = [held EXCEPT ![t] = HeldOnce("write")]
    <3>1. [held[t] EXCEPT !.w = @ + 1] = HeldOnce("write")
      BY DEF HeldOnce, Nothing
    <3>2. held' = [held EXCEPT ![t] = [held[t] EXCEPT !.w = @ + 1]]
      BY <1>3 DEF Gains
    <3> QED
      BY <3>1, <3>2
  <2>2. ~Promise!AcquireRead(t)
    BY <1>1, <2>1 DEF Promise!AcquireRead, HeldOnce, Nothing
  <2> QED
    BY <1>3, <2>1, <2>2
<1> QED
  BY <1>2, <1>3 DEF Kind

\* notify() is called with the lock held.
LEMMA OwnerHolds ==
  ASSUME ClientInv, NEW t \in Caller, NEW k \in Kind, Owns(k, t)
  PROVE  held[t].r + held[t].w > 0
<1>1. /\ held[t] \in [r : Nat, w : Nat] /\ lock.owners[t] = held[t].r
      /\ held[t].w = IF lock.writer = t THEN WriteDepth(lock) ELSE 0
  BY DEF ClientInv, ClientTypeOK, HoldsAgree
<1>2. lock.writer = t => WriteDepth(lock) > 0
  BY CallerAssumption DEF ClientInv, HoldsAgree, HoldsConsistent, WriteDepth
<1> QED
  BY <1>1, <1>2 DEF Owns

-----------------------------------------------------------------------------
(* Places, in order.                                                       *)

\* f lists the m members of S from the least to the largest.
Lists(f, m, S) ==
  /\ m \in Nat /\ f \in [1 .. m -> S]
  /\ \A a, b \in 1 .. m : a < b => f[a] < f[b]
  /\ \A i \in S : \E a \in 1 .. m : f[a] = i

\* A list that is in order and leaves nothing out has each member at its rank.
LEMMA ListedAtRank ==
  ASSUME NEW S \in SUBSET Int, NEW m, NEW f, Lists(f, m, S)
  PROVE  /\ Cardinality(S) = m
         /\ \A a \in 1 .. m : Rank(S, f[a]) = a
         /\ \A i \in S, a \in 1 .. m : Rank(S, i) = a => i = f[a]
<1>1. m \in Nat /\ f \in [1 .. m -> S]
  BY DEF Lists
<1>2. ASSUME NEW a \in 1 .. m, NEW b \in 1 .. m
      PROVE  (f[b] <= f[a] <=> b <= a) /\ (f[a] = f[b] => a = b)
  <2>1. f[a] \in Int /\ f[b] \in Int
    BY <1>1
  <2>2. (a < b => f[a] < f[b]) /\ (b < a => f[b] < f[a])
    BY DEF Lists
  <2> QED
    BY <1>1, <2>1, <2>2
<1>3. Cardinality(S) = m
  <2>1. f \in Bijection(1 .. m, S)
    BY <1>1, <1>2 DEF Lists, Bijection, Injection, Surjection, IsInjective
  <2> QED
    BY <1>1, <2>1, FS_CountingElements DEF ExistsBijection
<1>4. ASSUME NEW a \in 1 .. m PROVE Rank(S, f[a]) = a
  <2> DEFINE T == {j \in S : j <= f[a]}
             g == [b \in 1 .. a |-> f[b]]
  <2>1. a \in Nat /\ \A b \in 1 .. a : b \in 1 .. m
    BY <1>1
  <2>2. g \in [1 .. a -> T]
    BY <1>1, <1>2, <2>1
  <2>3. \A j \in T : \E b \in 1 .. a : g[b] = j
    <3> SUFFICES ASSUME NEW j \in T PROVE \E b \in 1 .. a : g[b] = j
      OBVIOUS
    <3>1. PICK b \in 1 .. m : f[b] = j
      BY DEF Lists
    <3>2. b <= a
      BY <1>2, <3>1
    <3> QED
      BY <1>1, <3>1, <3>2
  <2>4. g \in Bijection(1 .. a, T)
    <3> HIDE DEF T
    <3>1. \A b, c \in 1 .. a : g[b] = g[c] => b = c
      BY <1>2, <2>1
    <3> HIDE DEF g
    <3> QED
      BY <2>2, <2>3, <3>1 DEF Bijection, Injection, Surjection, IsInjective
  <2> HIDE DEF T, g
  <2>5. Cardinality(T) = a
    BY <2>1, <2>4, FS_CountingElements DEF ExistsBijection
  <2> QED
    BY <2>5 DEF Rank, T
<1>5. ASSUME NEW i \in S, NEW a \in 1 .. m, Rank(S, i) = a PROVE i = f[a]
  <2>1. PICK b \in 1 .. m : f[b] = i
    BY DEF Lists
  <2> QED
    BY <1>4, <1>5, <2>1
<1> QED
  BY <1>3, <1>4, <1>5

\* Every finite set of places can be listed.
LEMMA CanBeListed ==
  ASSUME NEW N \in Nat, NEW S \in SUBSET (1 .. N)
  PROVE  \E f : Lists(f, Cardinality(S), S)
<1> DEFINE m == Cardinality(S)
           rank == [i \in S |-> Rank(S, i)]
           f == [a \in 1 .. m |-> CHOOSE i \in S : Rank(S, i) = a]
<1>1. IsFiniteSet(S) /\ m \in Nat
  <2>1. IsFiniteSet(1 .. N)
    BY FS_Interval
  <2> QED
    BY <2>1, FS_Subset, FS_CardinalityType
<1>2. ASSUME NEW i \in S
      PROVE  Rank(S, i) \in 1 .. m
  <2> DEFINE T == {j \in S : j <= i}
  <2>1. T \subseteq S /\ T # {}
    OBVIOUS
  <2>2. IsFiniteSet(T) /\ Cardinality(T) <= m /\ Cardinality(T) \in Nat
    BY <1>1, <2>1, FS_Subset, FS_CardinalityType
  <2>3. Cardinality(T) # 0
    BY <2>1, <2>2, FS_EmptySet
  <2> HIDE DEF T
  <2>4. Cardinality(T) \in 1 .. m
    BY <1>1, <2>2, <2>3
  <2> QED
    BY <2>4 DEF Rank, T
<1>3. ASSUME NEW i \in S, NEW j \in S, i < j
      PROVE  Rank(S, i) < Rank(S, j)
  <2> DEFINE T(k) == {l \in S : l <= k}
  <2>1. T(i) \subseteq T(j) /\ T(j) \subseteq S /\ j \in T(j) /\ j \notin T(i)
    <3>1. i \in Int /\ j \in Int /\ \A k \in S : k \in Int
      OBVIOUS
    <3>2. \A k \in S : k <= i => k <= j
      BY <1>3, <3>1
    <3>3. T(i) \subseteq T(j) /\ T(j) \subseteq S
      BY <3>2
    <3>4. j <= j /\ ~(j <= i)
      BY <1>3, <3>1
    <3>5. j \in T(j)
      BY <3>4
    <3>6. j \notin T(i)
      BY <3>4
    <3> QED
      BY <3>3, <3>5, <3>6
  <2>2. IsFiniteSet(T(j))
    BY <1>1, <2>1, FS_Subset
  <2>3. T(i) # T(j)
    BY <2>1
  <2>4. Cardinality(T(i)) <= Cardinality(T(j)) /\ Cardinality(T(i)) # Cardinality(T(j))
    BY <2>1, <2>2, <2>3, FS_Subset
  <2>5. Rank(S, i) = Cardinality(T(i)) /\ Rank(S, j) = Cardinality(T(j))
    BY DEF Rank
  <2> HIDE DEF T
  <2> QED
    BY <1>1, <1>2, <2>4, <2>5
<1>4. ASSUME NEW i \in S, NEW j \in S, Rank(S, i) = Rank(S, j) PROVE i = j
  <2>1. Rank(S, i) \in Int /\ i \in Int /\ j \in Int
    BY <1>2
  <2> QED
    BY <1>3, <1>4, <2>1
<1>5. rank \in Injection(S, 1 .. m)
  <2>1. rank \in [S -> 1 .. m]
    BY <1>2
  <2>2. \A i, j \in S : rank[i] = rank[j] => i = j
    BY <1>4
  <2> HIDE DEF rank, m
  <2> QED
    BY <2>1, <2>2 DEF Injection, IsInjective
<1>6. rank \in Surjection(S, 1 .. m)
  <2>1. IsFiniteSet(1 .. m) /\ Cardinality(1 .. m) = m
    BY <1>1, FS_Interval
  <2> HIDE DEF rank
  <2> QED
    BY <1>5, <2>1, FS_Injection
<1>7. \A a \in 1 .. m : \E i \in S : Rank(S, i) = a
  BY <1>6 DEF Surjection
<1>8. \A a \in 1 .. m : f[a] \in S /\ Rank(S, f[a]) = a
  BY <1>7
<1> HIDE DEF f, rank
<1>9. \A a, b \in 1 .. m : a < b => f[a] < f[b]
  <2> SUFFICES ASSUME NEW a \in 1 .. m, NEW b \in 1 .. m, a < b PROVE f[a] < f[b]
    OBVIOUS
  <2>1. /\ f[a] \in S /\ Rank(S, f[a]) = a /\ f[a] \in Int
        /\ f[b] \in S /\ Rank(S, f[b]) = b /\ f[b] \in Int
    <3>1. \A i \in S : i \in Int
      OBVIOUS
    <3> QED
      BY <1>8, <3>1
  <2>2. f[b] < f[a] => b < a
    BY <1>3, <2>1
  <2> QED
    BY <1>1, <2>1, <2>2
<1>10. \A i \in S : \E a \in 1 .. m : f[a] = i
  BY <1>2, <1>4, <1>8
<1>11. f \in [1 .. m -> S]
  BY <1>8 DEF f
<1> QED
  BY <1>1, <1>9, <1>10, <1>11 DEF Lists

-----------------------------------------------------------------------------
(* The line.                                                               *)

\* The line is whatever lists the live places.
LEMMA LineIs ==
  ASSUME NEW c, NEW m, NEW f, Lists(f, m, LivePlaces(c)), Len(c.queue) \in Nat
  PROVE  /\ LineOf(c) = [a \in 1 .. m |-> c.queue[f[a]]]
         /\ Len(LineOf(c)) = m
<1> DEFINE S == LivePlaces(c)
<1>1. S \in SUBSET Int
  BY DEF LivePlaces
<1>2. /\ Cardinality(S) = m
      /\ \A a \in 1 .. m : Rank(S, f[a]) = a
      /\ \A i \in S, a \in 1 .. m : Rank(S, i) = a => i = f[a]
  BY <1>1, ListedAtRank
<1>3. m \in Nat /\ \A a \in 1 .. m : f[a] \in S
  BY DEF Lists
<1> HIDE DEF S
<1>4. ASSUME NEW a \in 1 .. m
      PROVE  (CHOOSE i \in S : Rank(S, i) = a) = f[a]
  BY <1>2, <1>3
<1>5. LineOf(c) = [a \in 1 .. m |-> c.queue[CHOOSE i \in S : Rank(S, i) = a]]
  BY <1>2 DEF LineOf, S
<1>6. LineOf(c) = [a \in 1 .. m |-> c.queue[f[a]]]
  BY <1>4, <1>5
<1>7. LineOf(c) \in Seq({c.queue[f[a]] : a \in 1 .. m})
  BY <1>3, <1>6, SeqDef
<1> QED
  BY <1>3, <1>6, <1>7

\* The places of the line, and who stands there.
LEMMA LineShape ==
  ASSUME NEW c \in QueueRecord
  PROVE  /\ \E f : Lists(f, Len(LineOf(c)), LivePlaces(c))
                   /\ LineOf(c) = [a \in 1 .. Len(LineOf(c)) |-> c.queue[f[a]]]
         /\ LineOf(c) \in Seq(Caller \cup {None})
         /\ Queued(LineOf(c)) = Queued(c.queue) \ c.cancelled
<1> DEFINE q == c.queue
           S == LivePlaces(c)
           L == LineOf(c)
<1>1. Len(q) \in Nat /\ \A i \in 1 .. Len(q) : q[i] \in Caller \cup {None}
  BY DEF QueueRecord
<1>2. S \in SUBSET (1 .. Len(q)) /\ \A i \in 1 .. Len(q) : i \in S <=> q[i] \notin c.cancelled
  BY DEF LivePlaces
<1>3. PICK f : Lists(f, Cardinality(S), S)
  BY <1>1, <1>2, CanBeListed
<1>4. L = [a \in 1 .. Cardinality(S) |-> q[f[a]]] /\ Len(L) = Cardinality(S)
  BY <1>1, <1>3, LineIs
<1> HIDE DEF L, S, q
<1>5. /\ Len(L) \in Nat /\ \A a \in 1 .. Len(L) : f[a] \in S
      /\ \A i \in S : \E a \in 1 .. Len(L) : f[a] = i
  BY <1>3, <1>4 DEF Lists
<1>6. L \in [1 .. Len(L) -> Caller \cup {None}]
  BY <1>1, <1>2, <1>4, <1>5
<1>7. L \in Seq(Caller \cup {None})
  BY <1>5, <1>6, SeqDef
<1>8. \A a \in 1 .. Len(L) : L[a] = q[f[a]]
  BY <1>4
<1>9. Queued(L) = Queued(q) \ c.cancelled
  <2>1. Queued(L) \subseteq Queued(q) \ c.cancelled
    BY <1>2, <1>5, <1>8 DEF Queued
  <2>2. Queued(q) \ c.cancelled \subseteq Queued(L)
    BY <1>2, <1>5, <1>8 DEF Queued
  <2> QED
    BY <2>1, <2>2
<1> QED
  BY <1>3, <1>4, <1>7, <1>9 DEF L, S, q

-----------------------------------------------------------------------------
(* How the line moves.                                                     *)

\* Two lines with the same places for the same waiters are the same.
LEMMA LineBuilt ==
  ASSUME NEW c \in QueueRecord, NEW L \in Seq(Caller \cup {None}), NEW g,
         Lists(g, Len(L), LivePlaces(c)), \A a \in 1 .. Len(L) : c.queue[g[a]] = L[a]
  PROVE  LineOf(c) = L
<1>1. Len(c.queue) \in Nat
  BY DEF QueueRecord
<1>2. LineOf(c) = [a \in 1 .. Len(L) |-> c.queue[g[a]]] /\ Len(LineOf(c)) = Len(L)
  BY <1>1, LineIs
<1>3. LineOf(c) \in Seq(Caller \cup {None})
  BY LineShape
<1>4. \A a \in 1 .. Len(LineOf(c)) : LineOf(c)[a] = L[a]
  BY <1>2
<1> QED
  BY <1>2, <1>3, <1>4, SeqEqual

\* add_waiter puts a waiter at the end.
LEMMA LineJoins ==
  ASSUME NEW c \in QueueRecord, NEW t \in Caller, t \notin c.cancelled
  PROVE  LineOf(AddWaiter(c, t)) = Append(LineOf(c), t)
<1> DEFINE q == c.queue
           N == Len(q)
           d == AddWaiter(c, t)
           L == LineOf(c)
           M == Len(L)
           R == Append(L, t)
<1>1. /\ q \in Seq(Caller \cup {None}) /\ N \in Nat
      /\ d \in QueueRecord /\ d.queue = Append(q, t) /\ d.cancelled = c.cancelled
  <2>1. q \in Seq(Caller \cup {None}) /\ N \in Nat
    BY DEF QueueRecord
  <2>2. d \in QueueRecord
    BY WaiterType
  <2>3. d.queue = Append(q, t) /\ d.cancelled = c.cancelled
    BY DEF AddWaiter, QueueRecord
  <2> QED
    BY <2>1, <2>2, <2>3
<1>2. /\ Len(d.queue) = N + 1 /\ d.queue[N + 1] = t
      /\ \A i \in 1 .. N : d.queue[i] = q[i]
  BY <1>1, AppendProperties
<1>3. PICK f : Lists(f, M, LivePlaces(c)) /\ L = [a \in 1 .. M |-> q[f[a]]]
  BY LineShape
<1>4. L \in Seq(Caller \cup {None})
  BY LineShape
<1>5. /\ R \in Seq(Caller \cup {None}) /\ Len(R) = M + 1 /\ R[M + 1] = t
      /\ \A a \in 1 .. M : R[a] = L[a]
  BY <1>4, AppendProperties
<1>6. /\ \A i \in LivePlaces(c) : i \in 1 .. N
      /\ LivePlaces(d) = LivePlaces(c) \cup {N + 1}
  BY <1>1, <1>2 DEF LivePlaces
<1> HIDE DEF d, L, R, N
<1>7. /\ M \in Nat
      /\ \A a \in 1 .. M : f[a] \in LivePlaces(c)
      /\ \A a, b \in 1 .. M : a < b => f[a] < f[b]
      /\ \A i \in LivePlaces(c) : \E a \in 1 .. M : f[a] = i
  BY <1>3 DEF Lists
<1> HIDE DEF M
<1> DEFINE g == [a \in 1 .. M + 1 |-> IF a = M + 1 THEN N + 1 ELSE f[a]]
<1>8. /\ g[M + 1] = N + 1
      /\ \A a \in 1 .. M : g[a] = f[a]
      /\ \A a \in 1 .. M + 1 : a = M + 1 \/ a \in 1 .. M
  BY <1>7
<1>9. g \in [1 .. M + 1 -> LivePlaces(d)]
  BY <1>6, <1>7
<1> HIDE DEF g
<1>10. \A a, b \in 1 .. M + 1 : a < b => g[a] < g[b]
  <2> SUFFICES ASSUME NEW a \in 1 .. M + 1, NEW b \in 1 .. M + 1, a < b PROVE g[a] < g[b]
    OBVIOUS
  <2>1. a \in 1 .. M
    BY <1>7
  <2>2. CASE b = M + 1
    BY <1>1, <1>6, <1>7, <1>8, <2>1, <2>2
  <2>3. CASE b \in 1 .. M
    BY <1>7, <1>8, <2>1, <2>3
  <2> QED
    BY <1>8, <2>2, <2>3
<1>11. \A i \in LivePlaces(d) : \E a \in 1 .. M + 1 : g[a] = i
  <2>1. M + 1 \in 1 .. M + 1 /\ \A a \in 1 .. M : a \in 1 .. M + 1
    BY <1>7
  <2> QED
    BY <1>6, <1>7, <1>8, <2>1
<1>12. Lists(g, Len(R), LivePlaces(d))
  <2>1. M + 1 \in Nat
    BY <1>7
  <2> QED
    BY <1>5, <1>9, <1>10, <1>11, <2>1 DEF Lists
<1>13. \A a \in 1 .. Len(R) : d.queue[g[a]] = R[a]
  BY <1>2, <1>3, <1>5, <1>6, <1>7, <1>8
<1>14. LineOf(d) = R
  BY <1>1, <1>5, <1>12, <1>13, LineBuilt
<1> QED
  BY <1>14 DEF d, R, L

\* A waiter that is cancelled in its place leaves the line.
LEMMA LineCancelled ==
  ASSUME NEW c \in QueueRecord, LineOnce(c.queue), NEW t \in Caller,
         t \in Queued(c.queue) \ c.cancelled
  PROVE  LineOf([c EXCEPT !.cancelled = @ \cup {t}]) = Without(LineOf(c), t)
<1> DEFINE q == c.queue
           N == Len(q)
           d == [c EXCEPT !.cancelled = @ \cup {t}]
           L == LineOf(c)
           M == Len(L)
           R == Without(L, t)
<1>1. /\ q \in Seq(Caller \cup {None}) /\ N \in Nat /\ t # None
      /\ d \in QueueRecord /\ d.queue = q /\ d.cancelled = c.cancelled \cup {t}
  BY CallerAssumption DEF QueueRecord
<1>2. PICK f : Lists(f, M, LivePlaces(c)) /\ L = [a \in 1 .. M |-> q[f[a]]]
  BY LineShape
<1>3. L \in Seq(Caller \cup {None}) /\ t \in Queued(L)
  BY LineShape
<1>4. PICK k \in 1 .. M :
        /\ L[k] = t /\ Len(R) = M - 1
        /\ \A a \in 1 .. M - 1 : R[a] = IF a < k THEN L[a] ELSE L[a + 1]
  BY <1>3, WithoutShape
<1>5. R \in Seq(Caller \cup {None})
  BY <1>3, WithoutType
<1> HIDE DEF L, R
<1>6. /\ M \in Nat
      /\ \A a \in 1 .. M : f[a] \in LivePlaces(c)
      /\ \A a, b \in 1 .. M : a < b => f[a] < f[b]
      /\ \A i \in LivePlaces(c) : \E a \in 1 .. M : f[a] = i
  BY <1>2 DEF Lists
<1>7. \A i \in LivePlaces(c) : i \in 1 .. N
  BY DEF LivePlaces
<1>8. f[k] \in 1 .. N /\ q[f[k]] = t
  BY <1>2, <1>4, <1>6, <1>7
<1>9. LivePlaces(d) = LivePlaces(c) \ {f[k]}
  BY <1>1, <1>8 DEF LivePlaces, LineOnce
<1> HIDE DEF M, N, d
<1> DEFINE from(a) == IF a < k THEN a ELSE a + 1
           g == [a \in 1 .. M - 1 |-> f[from(a)]]
<1>10. \A a \in 1 .. M - 1 : from(a) \in 1 .. M /\ from(a) # k /\ g[a] = f[from(a)]
  BY <1>4, <1>6
<1>11. \A a, b \in 1 .. M - 1 : a < b => from(a) < from(b)
  BY <1>4, <1>6
<1>12. \A b \in 1 .. M : b # k => \E a \in 1 .. M - 1 : from(a) = b
  <2> SUFFICES ASSUME NEW b \in 1 .. M, b # k PROVE \E a \in 1 .. M - 1 : from(a) = b
    OBVIOUS
  <2>1. CASE b < k
    <3>1. b \in 1 .. M - 1 /\ from(b) = b
      BY <1>4, <1>6, <2>1
    <3> QED
      BY <3>1
  <2>2. CASE b > k
    <3>1. b - 1 \in 1 .. M - 1 /\ from(b - 1) = b
      BY <1>4, <1>6, <2>2
    <3> QED
      BY <3>1
  <2> QED
    BY <1>4, <1>6, <2>1, <2>2
<1>13. \A a, b \in 1 .. M : f[a] = f[b] => a = b
  <2> SUFFICES ASSUME NEW a \in 1 .. M, NEW b \in 1 .. M, f[a] = f[b] PROVE a = b
    OBVIOUS
  <2>1. f[a] \in Int /\ f[b] \in Int
    BY <1>6, <1>7
  <2>2. ~(a < b) /\ ~(b < a)
    BY <1>6, <2>1
  <2> QED
    BY <1>6, <2>2
<1>14. g \in [1 .. M - 1 -> LivePlaces(d)]
  <2>1. \A a \in 1 .. M - 1 : f[from(a)] \in LivePlaces(d)
    BY <1>4, <1>6, <1>9, <1>10, <1>13
  <2> QED
    BY <2>1
<1> HIDE DEF g, from
<1>15. Lists(g, Len(R), LivePlaces(d))
  <2>1. \A a, b \in 1 .. M - 1 : a < b => g[a] < g[b]
    BY <1>6, <1>10, <1>11
  <2>2. \A i \in LivePlaces(d) : \E a \in 1 .. M - 1 : g[a] = i
    <3> SUFFICES ASSUME NEW i \in LivePlaces(d) PROVE \E a \in 1 .. M - 1 : g[a] = i
      OBVIOUS
    <3>1. PICK b \in 1 .. M : f[b] = i
      BY <1>6, <1>9
    <3>2. PICK a \in 1 .. M - 1 : from(a) = b
      BY <1>9, <1>12, <3>1
    <3> QED
      BY <1>10, <3>1, <3>2
  <2>3. M - 1 \in Nat
    BY <1>4, <1>6
  <2> QED
    BY <1>4, <1>14, <2>1, <2>2, <2>3 DEF Lists
<1>16. \A a \in 1 .. Len(R) : d.queue[g[a]] = R[a]
  <2>1. \A a \in 1 .. M - 1 : R[a] = L[from(a)]
    BY <1>4 DEF from
  <2>2. \A b \in 1 .. M : L[b] = q[f[b]]
    BY <1>2
  <2> QED
    BY <1>1, <1>4, <1>10, <2>1, <2>2
<1>17. LineOf(d) = R
  BY <1>1, <1>5, <1>15, <1>16, LineBuilt
<1> QED
  BY <1>17 DEF d, R, L

\* remove_waiter of a waiter that is out of the line already.
LEMMA LineCleaned ==
  ASSUME NEW c \in QueueRecord, LineOnce(c.queue), NEW t \in Caller,
         t \in c.cancelled \/ t \notin Queued(c.queue)
  PROVE  LET d == RemoveWaiter([c EXCEPT !.cancelled = @ \ {t}], t)
         IN  /\ d \in QueueRecord /\ d.queue = Without(c.queue, t)
             /\ d.woken = c.woken /\ d.cancelled = c.cancelled \ {t}
             /\ LineOf(d) = LineOf(c)
<1> DEFINE q == c.queue
           N == Len(q)
           r == [c EXCEPT !.cancelled = @ \ {t}]
           d == RemoveWaiter(r, t)
           R == Without(q, t)
           L == LineOf(c)
           M == Len(L)
<1>1. q \in Seq(Caller \cup {None}) /\ N \in Nat /\ t # None
  BY CallerAssumption DEF QueueRecord
<1>2. r \in QueueRecord /\ r.queue = q /\ r.woken = c.woken /\ r.cancelled = c.cancelled \ {t}
  BY DEF QueueRecord
<1>3. d \in QueueRecord /\ d.queue = R /\ d.woken = c.woken /\ d.cancelled = c.cancelled \ {t}
  <2> HIDE DEF r
  <2>1. d \in QueueRecord
    BY <1>2, WaiterType
  <2>2. d.queue = R /\ d.woken = r.woken /\ d.cancelled = r.cancelled
    BY <1>2 DEF RemoveWaiter, QueueRecord
  <2> QED
    BY <1>2, <2>1, <2>2
<1> HIDE DEF d, r
<1>4. CASE t \notin Queued(q)
  <2>1. R = q
    BY <1>4 DEF Without, Queued
  <2>2. LivePlaces(d) = LivePlaces(c)
    BY <1>3, <1>4, <2>1 DEF LivePlaces, Queued
  <2> HIDE DEF R, L
  <2>3. LineOf(d) = L
    BY <1>3, <2>1, <2>2 DEF LineOf, L
  <2> QED
    BY <1>3, <2>3 DEF d, r, R, L
<1>5. CASE t \in Queued(q) /\ t \in c.cancelled
  <2> HIDE DEF R
  <2>1. PICK p \in 1 .. N :
          /\ q[p] = t /\ Len(R) = N - 1
          /\ \A j \in 1 .. N - 1 : R[j] = IF j < p THEN q[j] ELSE q[j + 1]
    <3>1. q \in Seq(Caller \cup {None}) /\ t \in Queued(q)
      BY <1>1, <1>5
    <3> HIDE DEF q
    <3>2. \E i \in 1 .. Len(q) :
            /\ q[i] = t /\ Len(Without(q, t)) = Len(q) - 1
            /\ \A j \in 1 .. Len(q) - 1 :
                 Without(q, t)[j] = IF j < i THEN q[j] ELSE q[j + 1]
      BY <3>1, WithoutShape
    <3> QED
      BY <3>2 DEF R
  <2>2. PICK f : Lists(f, M, LivePlaces(c)) /\ L = [a \in 1 .. M |-> q[f[a]]]
    BY LineShape
  <2>3. L \in Seq(Caller \cup {None})
    BY LineShape
  <2> HIDE DEF L
  <2>4. /\ M \in Nat
        /\ \A a \in 1 .. M : f[a] \in LivePlaces(c)
        /\ \A a, b \in 1 .. M : a < b => f[a] < f[b]
        /\ \A i \in LivePlaces(c) : \E a \in 1 .. M : f[a] = i
    BY <2>2 DEF Lists
  <2>5. /\ \A i \in LivePlaces(c) : i \in 1 .. N /\ i # p
        /\ \A i \in 1 .. N : i \in LivePlaces(c) <=> q[i] \notin c.cancelled
    BY <1>5, <2>1 DEF LivePlaces
  <2>6. \A i \in 1 .. N : i # p => q[i] # t
    BY <1>1, <2>1 DEF LineOnce
  <2>7. \A j \in 1 .. N - 1 : j \in LivePlaces(d) <=> R[j] \notin c.cancelled \ {t}
    BY <1>3, <2>1 DEF LivePlaces
  <2>8. \A j \in LivePlaces(d) : j \in 1 .. N - 1
    BY <1>3, <2>1 DEF LivePlaces
  <2> HIDE DEF M, N
  <2> DEFINE to(i) == IF i < p THEN i ELSE i - 1
             g == [a \in 1 .. M |-> to(f[a])]
  <2>9. ASSUME NEW i \in 1 .. N, i # p
        PROVE  /\ to(i) \in 1 .. N - 1 /\ R[to(i)] = q[i]
               /\ i \in LivePlaces(c) <=> to(i) \in LivePlaces(d)
    <3>1. to(i) \in 1 .. N - 1
      BY <1>1, <2>1, <2>9
    <3>2. R[to(i)] = q[i]
      <4>1. CASE i < p
        BY <2>1, <3>1, <4>1
      <4>2. CASE ~(i < p)
        <5>1. to(i) = i - 1 /\ ~(i - 1 < p) /\ (i - 1) + 1 = i
          BY <1>1, <2>1, <2>9, <4>2
        <5> QED
          BY <2>1, <3>1, <5>1
      <4> QED
        BY <4>1, <4>2
    <3> HIDE DEF to
    <3>3. i \in LivePlaces(c) <=> to(i) \in LivePlaces(d)
      BY <2>5, <2>6, <2>7, <2>9, <3>1, <3>2
    <3> QED
      BY <3>1, <3>2, <3>3
  <2>10. \A i, j \in 1 .. N : i # p /\ j # p /\ i < j => to(i) < to(j)
    BY <1>1, <2>1
  <2>11. ASSUME NEW j \in 1 .. N - 1
         PROVE  \E i \in 1 .. N : i # p /\ to(i) = j
    <3>1. CASE j < p
      <4>1. j \in 1 .. N /\ j # p /\ to(j) = j
        BY <1>1, <2>1, <3>1
      <4> QED
        BY <4>1
    <3>2. CASE ~(j < p)
      <4>1. j + 1 \in 1 .. N /\ j + 1 # p /\ to(j + 1) = j
        BY <1>1, <2>1, <3>2
      <4> QED
        BY <4>1
    <3> QED
      BY <3>1, <3>2
  <2> HIDE DEF to
  <2>12. \A a \in 1 .. M : g[a] = to(f[a]) /\ g[a] \in LivePlaces(d)
    BY <2>4, <2>5, <2>9
  <2>13. g \in [1 .. M -> LivePlaces(d)]
    BY <2>12
  <2> HIDE DEF g
  <2>14. \A a, b \in 1 .. M : a < b => g[a] < g[b]
    BY <2>4, <2>5, <2>10, <2>12
  <2>15. \A j \in LivePlaces(d) : \E a \in 1 .. M : g[a] = j
    <3> SUFFICES ASSUME NEW j \in LivePlaces(d) PROVE \E a \in 1 .. M : g[a] = j
      OBVIOUS
    <3>1. PICK i \in 1 .. N : i # p /\ to(i) = j
      BY <2>8, <2>11
    <3>2. PICK a \in 1 .. M : f[a] = i
      BY <2>4, <2>9, <3>1
    <3> QED
      BY <2>12, <3>1, <3>2
  <2>16. Lists(g, Len(L), LivePlaces(d))
    BY <2>4, <2>13, <2>14, <2>15 DEF Lists, M
  <2>17. \A a \in 1 .. Len(L) : d.queue[g[a]] = L[a]
    <3> SUFFICES ASSUME NEW a \in 1 .. M PROVE R[g[a]] = q[f[a]]
      BY <1>3, <2>2 DEF M
    <3>1. f[a] \in 1 .. N /\ f[a] # p
      BY <2>4, <2>5
    <3> QED
      BY <2>9, <2>12, <3>1
  <2>18. LineOf(d) = L
    BY <1>3, <2>3, <2>16, <2>17, LineBuilt
  <2> QED
    BY <1>3, <2>18 DEF d, r, R, L
<1> QED
  BY <1>4, <1>5

\* notify(n) takes the first waiters of the line, and at least one if there is any.
LEMMA LineNotified ==
  ASSUME NEW c \in QueueRecord, NEW n \in 1 .. Len(c.queue)
  PROVE  LET d == Signal(c, n)
             L == LineOf(c)
         IN  /\ d \in QueueRecord /\ d.cancelled = c.cancelled
             /\ \E m \in 0 .. Len(L) :
                  /\ m = 0 => L = << >>
                  /\ LineOf(d) = SubSeq(L, m + 1, Len(L))
                  /\ d.woken = c.woken \cup ({L[i] : i \in 1 .. m} \ {None})
             /\ \E p \in 0 .. Len(c.queue) :
                  /\ d.queue = SubSeq(c.queue, p + 1, Len(c.queue))
                  /\ d.woken = c.woken \cup
                                 ({c.queue[i] : i \in 1 .. p} \ (c.cancelled \cup {None}))
<1> DEFINE q == c.queue
           N == Len(q)
           C == c.cancelled
           d == Signal(c, n)
           pop == Popped(q, n, C)
           p == Cardinality(pop)
           L == LineOf(c)
           M == Len(L)
<1>1. q \in Seq(Caller \cup {None}) /\ N \in Nat
  BY DEF QueueRecord
<1>2. /\ p \in 0 .. N /\ pop = 1 .. p
      /\ p = N \/ \E i \in 1 .. p : q[i] \notin C
  <2>1. n \in Nat /\ n > 0
    BY <1>1
  <2> QED
    BY <1>1, <2>1, PoppedPrefix
<1>3. /\ d \in QueueRecord /\ d.cancelled = C
      /\ d.queue = SubSeq(q, p + 1, N)
      /\ d.woken = c.woken \cup ({q[i] : i \in pop} \ (C \cup {None}))
  <2>1. d \in QueueRecord
    BY SignalType
  <2> HIDE DEF pop
  <2>2. d = [c EXCEPT !.queue = SubSeq(q, p + 1, N),
                      !.woken = c.woken \cup ({q[i] : i \in pop} \ (C \cup {None}))]
    BY DEF Signal, pop, QueueRecord
  <2>3. d.cancelled = C /\ d.queue = SubSeq(q, p + 1, N)
        /\ d.woken = c.woken \cup ({q[i] : i \in pop} \ (C \cup {None}))
    <3> HIDE DEF d, p
    <3> QED
      BY <2>2 DEF QueueRecord
  <2> QED
    BY <2>1, <2>3
<1> HIDE DEF p, pop
<1>4. d.woken = c.woken \cup ({q[i] : i \in 1 .. p} \ (C \cup {None}))
  BY <1>2, <1>3
<1>5. Len(d.queue) = N - p /\ \A i \in 1 .. N - p : d.queue[i] = q[p + i]
  <2>1. p + 1 \in Int /\ N \in Int /\ \A i \in p + 1 .. N : q[i] \in Caller \cup {None}
    BY <1>1, <1>2
  <2>2. /\ Len(d.queue) = IF p + 1 <= N THEN N - (p + 1) + 1 ELSE 0
        /\ \A i \in 1 .. N - (p + 1) + 1 : d.queue[i] = q[(p + 1) + i - 1]
    BY <1>3, <2>1, SubSeqProperties
  <2>3. N - (p + 1) + 1 = N - p /\ \A i \in Int : (p + 1) + i - 1 = p + i
    BY <1>1, <1>2
  <2>4. Len(d.queue) = N - p
    BY <1>1, <1>2, <2>2
  <2>5. ASSUME NEW i \in 1 .. N - p PROVE d.queue[i] = q[p + i]
    <3>1. i \in 1 .. N - (p + 1) + 1 /\ (p + 1) + i - 1 = p + i
      BY <2>3
    <3> QED
      BY <2>2, <3>1
  <2> QED
    BY <2>4, <2>5
<1>6. PICK f : Lists(f, M, LivePlaces(c)) /\ L = [a \in 1 .. M |-> q[f[a]]]
  BY LineShape
<1>7. L \in Seq(Caller \cup {None})
  BY LineShape
<1> HIDE DEF d, L
<1>8. /\ M \in Nat
      /\ \A a \in 1 .. M : f[a] \in LivePlaces(c) /\ L[a] = q[f[a]]
      /\ \A a, b \in 1 .. M : a < b => f[a] < f[b]
      /\ \A i \in LivePlaces(c) : \E a \in 1 .. M : f[a] = i
  BY <1>6 DEF Lists
<1>9. /\ \A i \in LivePlaces(c) : i \in 1 .. N /\ q[i] \notin C
      /\ \A i \in 1 .. N : q[i] \notin C => i \in LivePlaces(c)
  BY DEF LivePlaces
<1>10. /\ \A j \in LivePlaces(d) : j \in 1 .. N - p /\ q[p + j] \notin C
       /\ \A j \in 1 .. N - p : q[p + j] \notin C => j \in LivePlaces(d)
  BY <1>3, <1>5 DEF LivePlaces
<1> HIDE DEF M, N
<1> DEFINE H == {a \in 1 .. M : f[a] <= p}
           m == Cardinality(H)
           R == SubSeq(L, m + 1, M)
<1>11. m \in 0 .. M /\ H = 1 .. m
  <2>1. ASSUME NEW a \in H, NEW b \in 1 .. a PROVE b \in H
    <3>1. a \in 1 .. M /\ b \in 1 .. M /\ f[a] <= p /\ b <= a
      BY <1>8
    <3>2. f[a] \in Int /\ f[b] \in Int /\ p \in Int
      BY <1>2, <1>8, <1>9, <3>1
    <3>3. f[b] <= f[a]
      BY <1>8, <3>1, <3>2
    <3> QED
      BY <3>1, <3>2, <3>3
  <2>2. H \in SUBSET (1 .. M) /\ \A a \in H : 1 .. a \subseteq H
    BY <2>1
  <2> HIDE DEF H
  <2> QED
    BY <1>8, <2>2, PrefixIsInterval
<1>12. \A a \in 1 .. M : f[a] <= p <=> a <= m
  BY <1>11
<1> HIDE DEF H, m
<1>13. m = 0 => L = << >>
  <2> SUFFICES ASSUME m = 0 PROVE M = 0
    BY <1>7, EmptySeq DEF M
  <2>1. \A a \in 1 .. M : ~(f[a] <= p)
    BY <1>12
  <2>2. CASE p = N
    BY <1>1, <1>8, <1>9, <2>1, <2>2
  <2>3. CASE \E i \in 1 .. p : q[i] \notin C
    <3>1. PICK i \in 1 .. p : q[i] \notin C
      BY <2>3
    <3>2. i \in 1 .. N /\ i <= p
      <4>1. p \in 0 .. N /\ i \in 1 .. p
        BY <1>2
      <4> QED
        BY <1>1, <4>1
    <3> QED
      BY <1>8, <1>9, <2>1, <3>1, <3>2
  <2> QED
    BY <1>2, <2>2, <2>3
<1>14. {q[i] : i \in 1 .. p} \ (C \cup {None}) = {L[a] : a \in 1 .. m} \ {None}
  <2>1. ASSUME NEW i \in 1 .. p, q[i] \notin C
        PROVE  \E a \in 1 .. m : L[a] = q[i]
    <3>1. i \in LivePlaces(c)
      <4>1. p \in 0 .. N /\ i \in 1 .. p
        BY <1>2
      <4>2. i \in 1 .. N
        BY <1>1, <4>1
      <4> QED
        BY <1>9, <2>1, <4>2
    <3>2. PICK a \in 1 .. M : f[a] = i
      BY <1>8, <3>1
    <3>3. a \in 1 .. m
      BY <1>2, <1>11, <1>12, <3>2
    <3> QED
      BY <1>8, <3>2, <3>3
  <2>2. ASSUME NEW a \in 1 .. m
        PROVE  L[a] \notin C /\ \E i \in 1 .. p : q[i] = L[a]
    <3>1. a \in 1 .. M /\ f[a] <= p
      BY <1>8, <1>11, <1>12
    <3>2. f[a] \in 1 .. p /\ q[f[a]] \notin C /\ L[a] = q[f[a]]
      BY <1>2, <1>8, <1>9, <3>1
    <3> QED
      BY <3>2
  <2> QED
    BY <2>1, <2>2
<1>15. /\ R \in Seq(Caller \cup {None}) /\ Len(R) = M - m
       /\ \A a \in 1 .. M - m : R[a] = L[m + a]
  <2>1. m + 1 \in Int /\ M \in Int /\ \A a \in m + 1 .. M : L[a] \in Caller \cup {None}
    BY <1>7, <1>8, <1>11 DEF M
  <2>2. /\ R \in Seq(Caller \cup {None})
        /\ Len(R) = IF m + 1 <= M THEN M - (m + 1) + 1 ELSE 0
        /\ \A a \in 1 .. M - (m + 1) + 1 : R[a] = L[(m + 1) + a - 1]
    BY <2>1, SubSeqProperties
  <2> HIDE DEF R
  <2>3. M - (m + 1) + 1 = M - m /\ \A a \in Int : (m + 1) + a - 1 = m + a
    BY <1>8, <1>11
  <2>4. Len(R) = M - m
    BY <1>8, <1>11, <2>2
  <2>5. ASSUME NEW a \in 1 .. M - m PROVE R[a] = L[m + a]
    <3>1. a \in 1 .. M - (m + 1) + 1 /\ (m + 1) + a - 1 = m + a
      BY <2>3
    <3> QED
      BY <2>2, <3>1
  <2> QED
    BY <2>2, <2>4, <2>5
<1> HIDE DEF R
<1> DEFINE g == [a \in 1 .. M - m |-> f[m + a] - p]
<1>16. ASSUME NEW a \in 1 .. M - m
       PROVE  /\ m + a \in 1 .. M /\ f[m + a] \in 1 .. N /\ g[a] = f[m + a] - p
              /\ g[a] \in LivePlaces(d)
  <2>1. m + a \in 1 .. M /\ ~(m + a <= m)
    BY <1>8, <1>11
  <2>2. f[m + a] \in 1 .. N /\ q[f[m + a]] \notin C /\ ~(f[m + a] <= p)
    BY <1>8, <1>9, <1>12, <2>1
  <2>3. f[m + a] - p \in 1 .. N - p /\ p + (f[m + a] - p) = f[m + a]
    BY <1>1, <1>2, <2>2
  <2> QED
    BY <1>10, <2>1, <2>2, <2>3
<1>17. g \in [1 .. M - m -> LivePlaces(d)]
  BY <1>16
<1> HIDE DEF g
<1>18. \A a, b \in 1 .. M - m : a < b => g[a] < g[b]
  <2> SUFFICES ASSUME NEW a \in 1 .. M - m, NEW b \in 1 .. M - m, a < b PROVE g[a] < g[b]
    OBVIOUS
  <2>1. m + a < m + b
    BY <1>8, <1>11
  <2>2. f[m + a] < f[m + b]
    BY <1>8, <1>16, <2>1
  <2> QED
    BY <1>1, <1>2, <1>16, <2>2
<1>19. \A j \in LivePlaces(d) : \E a \in 1 .. M - m : g[a] = j
  <2> SUFFICES ASSUME NEW j \in LivePlaces(d) PROVE \E a \in 1 .. M - m : g[a] = j
    OBVIOUS
  <2>1. j \in 1 .. N - p /\ p + j \in 1 .. N /\ ~(p + j <= p) /\ (p + j) - p = j
    BY <1>1, <1>2, <1>10
  <2>2. PICK b \in 1 .. M : f[b] = p + j
    BY <1>8, <1>9, <1>10, <2>1
  <2>3. b - m \in 1 .. M - m /\ m + (b - m) = b
    BY <1>8, <1>11, <1>12, <2>1, <2>2
  <2> QED
    BY <1>16, <2>1, <2>2, <2>3
<1>20. Lists(g, Len(R), LivePlaces(d))
  <2>1. M - m \in Nat
    BY <1>8, <1>11
  <2> QED
    BY <1>15, <1>17, <1>18, <1>19, <2>1 DEF Lists
<1>21. \A a \in 1 .. Len(R) : d.queue[g[a]] = R[a]
  <2> SUFFICES ASSUME NEW a \in 1 .. M - m PROVE d.queue[g[a]] = L[m + a]
    BY <1>15
  <2>1. g[a] \in 1 .. N - p /\ p + g[a] = f[m + a]
    BY <1>1, <1>2, <1>10, <1>16
  <2> QED
    BY <1>5, <1>8, <1>16, <2>1
<1>22. LineOf(d) = R
  BY <1>3, <1>15, <1>20, <1>21, LineBuilt
<1>23. d.woken = c.woken \cup ({L[a] : a \in 1 .. m} \ {None})
  BY <1>4, <1>14
<1> QED
  BY <1>2, <1>3, <1>4, <1>11, <1>13, <1>22, <1>23 DEF d, L, M, N, R

-----------------------------------------------------------------------------
(* Nobody waits for ever on a lock that a sleeper keeps.                   *)

\* SomebodyMoves, where a holder asleep in wait() is none that moves.
SomebodyRuns(awake) ==
  (\E t \in Caller : call[t] \in Kind)
    => \/ awake # {}
       \/ \E t \in Caller : /\ Promise!Holds(t)
                            /\ at[t] # "parked"
                            /\ call[t] \in Kind => WaitsForItself(t)

LEMMA SleepersMove ==
  ASSUME NEW awake, SomebodyMoves(awake),
         \A t \in Caller : at[t] = "parked" => held[t] = Nothing
  PROVE  SomebodyRuns(awake)
<1>1. \A t \in Caller : held[t] = Nothing => ~Promise!Holds(t)
  BY DEF Nothing, Promise!Holds
<1> QED
  BY <1>1 DEF SomebodyMoves, SomebodyRuns

=============================================================================

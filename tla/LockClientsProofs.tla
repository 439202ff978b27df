-------------------------- MODULE LockClientsProofs --------------------------
(***************************************************************************)
(* What the thread and the asyncio lock have in common, in four parts.     *)
(*                                                                         *)
(* First the core operators: each returns a record of the right type, and  *)
(* does to the holds what its name says.  Waking and phase keeping never   *)
(* touch a hold; only acquire, release and downgrade do.  Then what a step *)
(* of a caller does to the shared state: each lemma takes one kind of      *)
(* step, keeps ClientInv and names the step of ReadersWriterLock that it   *)
(* is.  Then those who wait: the deques, the readers' phase and the        *)
(* wakeups, operation by operation, and what a caller does to them.  Last, *)
(* that the waits never form a circle.                                     *)
(***************************************************************************)
EXTENDS LockClients, FiniteSetTheorems, SequenceTheorems, TLAPS

\* s and u give the lock to the same callers, and belong to the same class.
SameHolds(s, u) ==
  /\ s.policy = u.policy
  /\ s.reentrant = u.reentrant
  /\ s.writer = u.writer
  /\ s.depth = u.depth
  /\ s.active = u.active
  /\ s.owners = u.owners

-----------------------------------------------------------------------------
(* The wait queues.                                                        *)

\* Popping n waiters off a deque (_notify_unlocked) touches the queue and the
\* set of the woken, and no hold.
LEMMA NotifyFrame ==
  ASSUME NEW s \in LockRecord, NEW k \in Kind, NEW n
  PROVE  Notify(s, k, n) \in LockRecord /\ SameHolds(Notify(s, k, n), s)
<1> DEFINE q   == s.queue[k]
           pop == Popped(q, n, s.cancelled)
           rest == SubSeq(q, Cardinality(pop) + 1, Len(q))
<1>1. q \in Seq(Caller)
  BY DEF LockRecord
<1>2. Len(q) \in Nat /\ \A i \in 1 .. Len(q) : q[i] \in Caller
  BY <1>1
<1>3. pop \subseteq 1 .. Len(q)
  BY DEF Popped
<1>4. Cardinality(pop) \in Nat
  <2>1. IsFiniteSet(1 .. Len(q))
    BY <1>2, FS_Interval
  <2>2. IsFiniteSet(pop)
    BY <1>3, <2>1, FS_Subset
  <2> QED
    BY <2>2, FS_CardinalityType
<1>5. rest \in Seq(Caller)
  <2>1. \A i \in Cardinality(pop) + 1 .. Len(q) : q[i] \in Caller
    BY <1>2, <1>4
  <2>2. Cardinality(pop) + 1 \in Int /\ Len(q) \in Int
    BY <1>2, <1>4
  <2> QED
    BY <2>1, <2>2, SubSeqProperties
<1>6. {q[i] : i \in pop} \ s.cancelled \subseteq Caller
  BY <1>2, <1>3
<1> HIDE DEF rest, pop, q
<1> DEFINE woken == s.woken \cup ({q[i] : i \in pop} \ s.cancelled)
           queue == [s.queue EXCEPT ![k] = rest]
<1>7. queue \in [Kind -> Seq(Caller)] /\ woken \in SUBSET Caller
  BY <1>5, <1>6 DEF LockRecord
<1>8. Notify(s, k, n) = [s EXCEPT !.queue = queue, !.woken = woken]
  BY DEF Notify, rest, pop, q, LockRecord
<1> HIDE DEF woken, queue
<1> QED
  BY <1>7, <1>8 DEF LockRecord, SameHolds

\* Every waiter of a queue is woken by notify_all: the same frame.
LEMMA NotifyAllFrame ==
  ASSUME NEW s \in LockRecord, NEW k \in Kind
  PROVE  NotifyAll(s, k) \in LockRecord /\ SameHolds(NotifyAll(s, k), s)
BY NotifyFrame DEF NotifyAll

\* Removing a waiter from a deque leaves a deque.
LEMMA WithoutType ==
  ASSUME NEW C, NEW q \in Seq(C), NEW t
  PROVE  Without(q, t) \in Seq(C)
<1>1. CASE \E i \in 1 .. Len(q) : q[i] = t
  <2> DEFINE i == CHOOSE i \in 1 .. Len(q) : q[i] = t
             before == SubSeq(q, 1, i - 1)
             after == SubSeq(q, i + 1, Len(q))
  <2>1. i \in 1 .. Len(q)
    BY <1>1
  <2>2. Len(q) \in Nat /\ \A j \in 1 .. Len(q) : q[j] \in C
    OBVIOUS
  <2>3. Without(q, t) = before \o after
    BY <1>1 DEF Without
  <2> HIDE DEF i
  <2>4. before \in Seq(C)
    <3>1. \A j \in 1 .. i - 1 : q[j] \in C
      BY <2>1, <2>2
    <3>2. 1 \in Int /\ i - 1 \in Int
      BY <2>1, <2>2
    <3> QED
      BY <3>1, <3>2, SubSeqProperties
  <2>5. after \in Seq(C)
    <3>1. \A j \in i + 1 .. Len(q) : q[j] \in C
      BY <2>1, <2>2
    <3>2. i + 1 \in Int /\ Len(q) \in Int
      BY <2>1, <2>2
    <3> QED
      BY <3>1, <3>2, SubSeqProperties
  <2> QED
    BY <2>3, <2>4, <2>5, ConcatProperties
<1>2. CASE ~\E i \in 1 .. Len(q) : q[i] = t
  BY <1>2 DEF Without
<1> QED
  BY <1>1, <1>2

\* Entering and leaving a wait (those_waiting, the deque, the set of the woken)
\* touches no hold.
LEMMA WaitFrame ==
  ASSUME NEW s \in LockRecord, NEW k \in Kind, NEW t \in Caller
  PROVE  /\ Join(s, k, t) \in LockRecord /\ SameHolds(Join(s, k, t), s)
         /\ Leave(s, k, t) \in LockRecord /\ SameHolds(Leave(s, k, t), s)
         /\ Append1(s, k, t) \in LockRecord /\ SameHolds(Append1(s, k, t), s)
         /\ Discard(s, k, t) \in LockRecord /\ SameHolds(Discard(s, k, t), s)
<1>1. Join(s, k, t) \in LockRecord /\ SameHolds(Join(s, k, t), s)
  BY DEF Join, LockRecord, SameHolds
<1>2. Leave(s, k, t) \in LockRecord /\ SameHolds(Leave(s, k, t), s)
  BY DEF Leave, LockRecord, SameHolds
<1>3. Append1(s, k, t) \in LockRecord /\ SameHolds(Append1(s, k, t), s)
  BY AppendProperties DEF Append1, LockRecord, SameHolds
<1>4. Discard(s, k, t) \in LockRecord /\ SameHolds(Discard(s, k, t), s)
  BY WithoutType DEF Discard, LockRecord, SameHolds
<1> QED
  BY <1>1, <1>2, <1>3, <1>4

\* Starting, continuing and ending a readers' turn wakes callers and sets the
\* phase's own attributes, and touches no hold.
LEMMA PhaseFrame ==
  ASSUME NEW s \in LockRecord
  PROVE  /\ PhaseWake(s) \in LockRecord /\ SameHolds(PhaseWake(s), s)
         /\ PhaseStart(s) \in LockRecord /\ SameHolds(PhaseStart(s), s)
         /\ PhaseFinishOrContinue(s) \in LockRecord
         /\ SameHolds(PhaseFinishOrContinue(s), s)
<1>1. "read" \in Kind /\ "write" \in Kind
  BY DEF Kind
<1>2. \A u \in LockRecord : PhaseWake(u) \in LockRecord /\ SameHolds(PhaseWake(u), u)
  BY <1>1, NotifyAllFrame DEF PhaseWake, SameHolds
<1>3. \A b \in BOOLEAN : LET u == [s EXCEPT !.turn = b]
                         IN  u \in LockRecord /\ SameHolds(u, s)
  BY DEF LockRecord, SameHolds
<1>4. PhaseStart(s) \in LockRecord /\ SameHolds(PhaseStart(s), s)
  BY <1>2, <1>3 DEF PhaseStart, SameHolds
<1>5. /\ PhaseFinishOrContinue(s) \in LockRecord
      /\ SameHolds(PhaseFinishOrContinue(s), s)
  <2> DEFINE over == [s EXCEPT !.turn = FALSE]
             woken == Notify(over, "write", 1)
  <2>1. over \in LockRecord /\ SameHolds(over, s)
    BY <1>3
  <2>2. woken \in LockRecord /\ SameHolds(woken, over)
    BY <1>1, <2>1, NotifyFrame
  <2>3. PhaseFinishOrContinue(s) \in {PhaseWake(s), woken, over}
    BY DEF PhaseFinishOrContinue
  <2> HIDE DEF over, woken
  <2> QED
    BY <1>2, <2>1, <2>2, <2>3 DEF SameHolds
<1> QED
  BY <1>2, <1>4, <1>5

\* The same of the strict fair phase, with its count of pending readers.
LEMMA FairFrame ==
  ASSUME NEW s \in LockRecord, NEW t
  PROVE  /\ FairWake(s) \in LockRecord /\ SameHolds(FairWake(s), s)
         /\ FairStart(s) \in LockRecord /\ SameHolds(FairStart(s), s)
         /\ FairFinishOrContinue(s) \in LockRecord
         /\ SameHolds(FairFinishOrContinue(s), s)
         /\ ConsumeSlot(s, t) \in LockRecord /\ SameHolds(ConsumeSlot(s, t), s)
<1>1. "read" \in Kind /\ "write" \in Kind
  BY DEF Kind
<1>2. \A u \in LockRecord : FairWake(u) \in LockRecord /\ SameHolds(FairWake(u), u)
  BY <1>1, NotifyFrame DEF FairWake, SameHolds
<1>3. FairStart(s) \in LockRecord /\ SameHolds(FairStart(s), s)
  <2> DEFINE start == [s EXCEPT !.turn     = s.waiting["read"] # {},
                                !.pending  = Cardinality(s.waiting["read"]),
                                !.reserved = s.waiting["read"]]
  <2>1. s.waiting["read"] \in SUBSET Caller
    BY <1>1 DEF LockRecord
  <2>2. Cardinality(s.waiting["read"]) \in Nat
    BY <2>1, CallerAssumption, FS_Subset, FS_CardinalityType
  <2>3. start \in LockRecord /\ SameHolds(start, s)
    BY <2>1, <2>2 DEF LockRecord, SameHolds
  <2> QED
    BY <1>2, <2>3 DEF FairStart, SameHolds
<1>4. /\ FairFinishOrContinue(s) \in LockRecord
      /\ SameHolds(FairFinishOrContinue(s), s)
  <2> DEFINE over == [s EXCEPT !.turn = FALSE, !.pending = 0, !.reserved = {}]
  <2>1. over \in LockRecord /\ SameHolds(over, s)
    BY DEF LockRecord, SameHolds
  <2> DEFINE woken == Notify(over, "write", 1)
  <2>2. woken \in LockRecord /\ SameHolds(woken, over)
    BY <1>1, <2>1, NotifyFrame
  <2>3. FairFinishOrContinue(s) \in {FairWake(s), woken, over}
    BY DEF FairFinishOrContinue
  <2> HIDE DEF over, woken
  <2> QED
    BY <1>2, <2>1, <2>2, <2>3 DEF SameHolds
<1>5. ConsumeSlot(s, t) \in LockRecord /\ SameHolds(ConsumeSlot(s, t), s)
  <2> DEFINE pending == IF IsReserved(s, t) THEN s.pending - 1 ELSE s.pending
             reserved == s.reserved \ {t}
  <2>1. pending \in Nat
    BY DEF IsReserved, LockRecord
  <2>2. reserved \in SUBSET Caller
    BY DEF LockRecord
  <2>3. ConsumeSlot(s, t) = [s EXCEPT !.pending = pending, !.reserved = reserved]
    BY DEF ConsumeSlot, LockRecord
  <2> HIDE DEF pending, reserved
  <2> QED
    BY <2>1, <2>2, <2>3 DEF LockRecord, SameHolds
<1> QED
  BY <1>2, <1>3, <1>4, <1>5

-----------------------------------------------------------------------------
(* The holds.                                                              *)

\* Counting a reader in or out, and turning the writer into a reader, keeps
\* the record's type; a reader can be counted out if it was counted in.
LEMMA ReaderType ==
  ASSUME NEW s \in LockRecord, NEW t \in Caller
  PROVE  /\ AddReader(s, t) \in LockRecord
         /\ s.active > 0 /\ s.owners[t] > 0 => DropReader(s, t) \in LockRecord
         /\ WriterToReader(s, t) \in LockRecord
<1>1. ASSUME NEW u \in LockRecord
      PROVE  AddReader(u, t) \in LockRecord
  <2> DEFINE m == u.active + 1
             o == [u.owners EXCEPT ![t] = @ + 1]
  <2>1. m \in Nat /\ o \in [Caller -> Nat]
    BY DEF LockRecord
  <2>2. AddReader(u, t) = [u EXCEPT !.active = m, !.owners = o]
    BY DEF AddReader, LockRecord
  <2> HIDE DEF m, o
  <2> QED
    BY <2>1, <2>2 DEF LockRecord
<1>2. ASSUME s.active > 0, s.owners[t] > 0
      PROVE  DropReader(s, t) \in LockRecord
  <2> DEFINE m == s.active - 1
             o == [s.owners EXCEPT ![t] = @ - 1]
  <2>1. m \in Nat /\ o \in [Caller -> Nat]
    BY <1>2 DEF LockRecord
  <2>2. DropReader(s, t) = [s EXCEPT !.active = m, !.owners = o]
    BY DEF DropReader, LockRecord
  <2> HIDE DEF m, o
  <2> QED
    BY <2>1, <2>2 DEF LockRecord
<1>3. [s EXCEPT !.writer = None, !.depth = 0] \in LockRecord
  BY DEF LockRecord
<1> QED
  BY <1>1, <1>2, <1>3 DEF WriterToReader

\* What a caller that gives up does (_on_reader_abort, _on_writer_abort) can
\* wake others and end a phase, and touches no hold.
LEMMA AbortFrame ==
  ASSUME NEW s \in LockRecord, NEW t \in Caller
  PROVE  /\ OnReaderAbort(s, t) \in LockRecord /\ SameHolds(OnReaderAbort(s, t), s)
         /\ OnWriterAbort(s) \in LockRecord /\ SameHolds(OnWriterAbort(s), s)
<1> DEFINE Frame(u) == u \in LockRecord /\ SameHolds(u, s)
<1>1. "read" \in Kind /\ "write" \in Kind
  BY DEF Kind
<1>2. Frame(s)
  BY DEF SameHolds
<1>3. /\ Frame(Notify(s, "write", 1))
      /\ Frame(NotifyAll(s, "read"))
      /\ Frame(PhaseStart(s))
      /\ Frame(FairStart(s))
      /\ Frame(PhaseFinishOrContinue(s))
  BY <1>1, NotifyFrame, NotifyAllFrame, PhaseFrame, FairFrame
<1>4. Frame(WPrefOnReaderAbort(s, t))
  BY <1>2 DEF WPrefOnReaderAbort
<1>5. Frame(RPrefOnReaderAbort(s, t))
  BY <1>2, <1>3 DEF RPrefOnReaderAbort
<1>6. Frame(PhaseOnReaderAbort(s, t))
  BY <1>2, <1>3 DEF PhaseOnReaderAbort
<1>7. Frame(FairOnReaderAbort(s, t))
  <2> DEFINE out == ConsumeSlot(s, t)
  <2>1. Frame(out)
    BY FairFrame
  <2>2. Frame(FairWake(out)) /\ Frame(FairFinishOrContinue(out))
    BY <2>1, FairFrame DEF SameHolds
  <2>3. FairOnReaderAbort(s, t) \in {FairWake(out), FairFinishOrContinue(out), out}
    BY DEF FairOnReaderAbort
  <2> QED
    BY <2>1, <2>2, <2>3
<1>8. /\ Frame(WPrefOnWriterAbort(s))
      /\ Frame(RPrefOnWriterAbort(s))
      /\ Frame(PhaseOnWriterAbort(s))
      /\ Frame(FairOnWriterAbort(s))
  BY <1>3 DEF WPrefOnWriterAbort, RPrefOnWriterAbort, PhaseOnWriterAbort,
              FairOnWriterAbort
<1>9. OnReaderAbort(s, t) \in {WPrefOnReaderAbort(s, t), RPrefOnReaderAbort(s, t),
                              PhaseOnReaderAbort(s, t), FairOnReaderAbort(s, t)}
  BY DEF OnReaderAbort
<1>10. OnWriterAbort(s) \in {WPrefOnWriterAbort(s), RPrefOnWriterAbort(s),
                            PhaseOnWriterAbort(s), FairOnWriterAbort(s)}
  BY DEF OnWriterAbort
<1> HIDE DEF Frame
<1>11. Frame(OnReaderAbort(s, t)) /\ Frame(OnWriterAbort(s))
  BY <1>4, <1>5, <1>6, <1>7, <1>8, <1>9, <1>10
<1> QED
  BY <1>11 DEF Frame

\* _acquire_read_core counts the reader in, in every policy, and whatever else
\* it does (a fair slot consumed, other readers woken) touches no hold.
LEMMA AcquireReadEffect ==
  ASSUME NEW s \in LockRecord, NEW t \in Caller
  PROVE  /\ AcquireReadCore(s, t) \in LockRecord
         /\ SameHolds(AcquireReadCore(s, t), AddReader(s, t))
<1> DEFINE Effect(u) == u \in LockRecord /\ SameHolds(u, AddReader(s, t))
<1>1. Effect(AddReader(s, t))
  BY ReaderType DEF SameHolds
<1>2. Effect(WPrefAcquireRead(s, t)) /\ Effect(RPrefAcquireRead(s, t))
  BY <1>1 DEF WPrefAcquireRead, RPrefAcquireRead
<1>3. Effect(PhaseAcquireRead(s, t))
  <2>1. Effect(PhaseWake(AddReader(s, t)))
    BY <1>1, PhaseFrame DEF SameHolds
  <2> QED
    BY <1>1, <2>1 DEF PhaseAcquireRead
<1>4. Effect(FairAcquireRead(s, t))
  <2> DEFINE slot == ConsumeSlot(s, t)
             in == AddReader(slot, t)
  <2>1. slot \in LockRecord /\ SameHolds(slot, s)
    BY FairFrame
  <2>2. in \in LockRecord
    BY <2>1, ReaderType
  <2>3. SameHolds(in, AddReader(s, t))
    BY <2>1 DEF AddReader, SameHolds, LockRecord
  <2>4. Effect(FairWake(in))
    BY <2>2, <2>3, FairFrame DEF SameHolds
  <2> QED
    BY <2>2, <2>3, <2>4 DEF FairAcquireRead
<1>5. AcquireReadCore(s, t) \in {WPrefAcquireRead(s, t), RPrefAcquireRead(s, t),
                                PhaseAcquireRead(s, t), FairAcquireRead(s, t)}
  BY DEF AcquireReadCore
<1> HIDE DEF Effect
<1>6. Effect(AcquireReadCore(s, t))
  BY <1>2, <1>3, <1>4, <1>5
<1> QED
  BY <1>6 DEF Effect

\* _release_read_core counts a counted reader out, in every policy.
LEMMA ReleaseReadEffect ==
  ASSUME NEW s \in LockRecord, NEW t \in Caller, s.active > 0, s.owners[t] > 0
  PROVE  /\ ReleaseReadCore(s, t) \in LockRecord
         /\ SameHolds(ReleaseReadCore(s, t), DropReader(s, t))
<1> DEFINE left == DropReader(s, t)
           Effect(u) == u \in LockRecord /\ SameHolds(u, left)
<1>1. "write" \in Kind
  BY DEF Kind
<1>2. Effect(left)
  BY ReaderType DEF SameHolds
<1> HIDE DEF left
<1>3. /\ Effect(Notify(left, "write", 1))
      /\ Effect(PhaseFinishOrContinue(left))
      /\ Effect(FairFinishOrContinue(left))
  BY <1>1, <1>2, NotifyFrame, PhaseFrame, FairFrame
<1>4. ReleaseReadCore(s, t) \in {left, Notify(left, "write", 1),
        PhaseFinishOrContinue(left), FairFinishOrContinue(left)}
  BY DEF ReleaseReadCore, WPrefReleaseRead, RPrefReleaseRead, PhaseReleaseRead,
         FairReleaseRead, left
<1> HIDE DEF Effect
<1>5. Effect(ReleaseReadCore(s, t))
  BY <1>2, <1>3, <1>4
<1> QED
  BY <1>5 DEF Effect, left

\* _downgrade_core turns the writer into a reader, in every policy.
LEMMA DowngradeEffect ==
  ASSUME NEW s \in LockRecord, NEW t \in Caller
  PROVE  /\ DowngradeCore(s, t) \in LockRecord
         /\ SameHolds(DowngradeCore(s, t), WriterToReader(s, t))
<1> DEFINE shared == WriterToReader(s, t)
           Effect(u) == u \in LockRecord /\ SameHolds(u, shared)
<1>1. "read" \in Kind
  BY DEF Kind
<1>2. Effect(shared)
  BY ReaderType DEF SameHolds
<1> HIDE DEF shared
<1>3. /\ Effect(NotifyAll(shared, "read"))
      /\ Effect(PhaseStart(shared))
      /\ Effect(FairStart(shared))
  BY <1>1, <1>2, NotifyAllFrame, PhaseFrame, FairFrame
<1>4. DowngradeCore(s, t) \in {shared, NotifyAll(shared, "read"),
        PhaseStart(shared), FairStart(shared)}
  BY DEF DowngradeCore, WPrefDowngrade, RPrefDowngrade, PhaseDowngrade,
         FairDowngrade, shared
<1> HIDE DEF Effect
<1>5. Effect(DowngradeCore(s, t))
  BY <1>2, <1>3, <1>4
<1> QED
  BY <1>5 DEF Effect, shared

\* _acquire_write_core only names the writer; _release_write_core pops one
\* level, and at the outermost gives the lock up, in every policy.
LEMMA WriteCoreEffect ==
  ASSUME NEW s \in LockRecord, NEW t \in Caller
  PROVE  /\ AcquireWriteCore(s, t) \in LockRecord
         /\ ReleaseWriteCore(s) \in LockRecord
         /\ SameHolds(ReleaseWriteCore(s),
                      IF s.reentrant /\ s.depth > 1
                      THEN [s EXCEPT !.depth = @ - 1]
                      ELSE [s EXCEPT !.writer = None, !.depth = 0])
<1>1. AcquireWriteCore(s, t) \in LockRecord
  <2> DEFINE m == IF s.reentrant THEN s.depth + 1 ELSE s.depth
  <2>1. m \in Nat
    BY DEF LockRecord
  <2>2. AcquireWriteCore(s, t) = [s EXCEPT !.writer = t, !.depth = m]
    BY DEF AcquireWriteCore, LockRecord
  <2> HIDE DEF m
  <2> QED
    BY <2>1, <2>2 DEF LockRecord
<1> DEFINE free == [s EXCEPT !.writer = None, !.depth = 0]
           inner == [s EXCEPT !.depth = @ - 1]
<1>2. CASE s.reentrant /\ s.depth > 1
  <2>1. ReleaseWriteCore(s) = inner
    BY <1>2 DEF ReleaseWriteCore
  <2>2. inner \in LockRecord
    <3> DEFINE m == s.depth - 1
    <3>1. m \in Nat
      BY <1>2 DEF LockRecord
    <3> HIDE DEF m
    <3>2. [s EXCEPT !.depth = m] \in LockRecord
      BY <3>1 DEF LockRecord
    <3> QED
      BY <3>2 DEF m
  <2> QED
    BY <1>1, <1>2, <2>1, <2>2 DEF SameHolds
<1>3. CASE ~(s.reentrant /\ s.depth > 1)
  <2>1. ReleaseWriteCore(s) = OnWriterAbort(free)
    BY <1>3 DEF ReleaseWriteCore
  <2>2. free \in LockRecord
    BY DEF LockRecord
  <2> QED
    BY <1>1, <1>3, <2>1, <2>2, AbortFrame
<1> QED
  BY <1>2, <1>3

-----------------------------------------------------------------------------
(* Consistency of the holds.                                               *)

\* Consistency is about the holds only.
LEMMA SameHoldsConsistent ==
  ASSUME NEW s, NEW u, SameHolds(u, s), HoldsConsistent(s)
  PROVE  HoldsConsistent(u)
BY DEF SameHolds, HoldsConsistent, ReadHolds

\* With no reader counted, no caller is recorded as a reader.
LEMMA NoReaders ==
  ASSUME NEW s \in LockRecord, HoldsConsistent(s), s.active = 0
  PROVE  \A t \in Caller : s.owners[t] = 0
<1>1. ReadHolds(s) = {}
  BY FS_EmptySet DEF HoldsConsistent
<1> SUFFICES ASSUME NEW t \in Caller, s.owners[t] # 0
             PROVE  FALSE
  OBVIOUS
<1>2. s.owners[t] \in Nat
  BY DEF LockRecord
<1>3. <<t, 1>> \in {t} \X (1 .. s.owners[t])
  BY <1>2
<1> QED
  BY <1>1, <1>3 DEF ReadHolds

\* A reader may be counted in beside no writer, or under its own write.
LEMMA AddReaderConsistent ==
  ASSUME NEW s \in LockRecord, NEW t \in Caller, HoldsConsistent(s),
         s.writer \in {None, t}
  PROVE  HoldsConsistent(AddReader(s, t))
<1> DEFINE u == AddReader(s, t)
           n == s.owners[t] + 1
<1>1. /\ u.active = s.active + 1
      /\ u.owners = [s.owners EXCEPT ![t] = n]
      /\ u.writer = s.writer /\ u.depth = s.depth /\ u.reentrant = s.reentrant
  BY DEF AddReader, LockRecord
<1>2. s.owners \in [Caller -> Nat]
  BY DEF LockRecord
<1> HIDE DEF u
<1>3. ReadHolds(u) = ReadHolds(s) \cup {<<t, n>>}
  <2>1. u.owners[t] = n /\ \A v \in Caller \ {t} : u.owners[v] = s.owners[v]
    BY <1>1, <1>2
  <2>2. 1 .. n = (1 .. s.owners[t]) \cup {n}
    BY <1>2
  <2> QED
    BY <2>1, <2>2 DEF ReadHolds
<1>4. <<t, n>> \notin ReadHolds(s)
  BY <1>2 DEF ReadHolds
<1>5. IsFiniteSet(ReadHolds(u)) /\ u.active = Cardinality(ReadHolds(u))
  <2> DEFINE old == ReadHolds(s)
             hold == <<t, n>>
  <2>1. IsFiniteSet(old) /\ s.active = Cardinality(old)
    BY DEF HoldsConsistent
  <2>2. hold \notin old /\ ReadHolds(u) = old \cup {hold}
    BY <1>3, <1>4
  <2> HIDE DEF old, hold
  <2>3. IsFiniteSet(old \cup {hold}) /\ Cardinality(old \cup {hold}) = Cardinality(old) + 1
    BY <2>1, <2>2, FS_AddElement
  <2> QED
    BY <1>1, <2>1, <2>2, <2>3
<1>6. u.writer # None => \A v \in Caller \ {u.writer} : u.owners[v] = 0
  BY <1>1, <1>2 DEF HoldsConsistent
<1> QED
  BY <1>1, <1>5, <1>6 DEF HoldsConsistent, u

\* A caller recorded as a reader can be counted out.
LEMMA DropReaderConsistent ==
  ASSUME NEW s \in LockRecord, NEW t \in Caller, HoldsConsistent(s),
         s.owners[t] > 0
  PROVE  s.active > 0 /\ HoldsConsistent(DropReader(s, t))
<1> DEFINE u == DropReader(s, t)
           n == s.owners[t]
<1>1. /\ u.active = s.active - 1
      /\ u.owners = [s.owners EXCEPT ![t] = n - 1]
      /\ u.writer = s.writer /\ u.depth = s.depth /\ u.reentrant = s.reentrant
  BY DEF DropReader, LockRecord
<1>2. s.owners \in [Caller -> Nat]
  BY DEF LockRecord
<1> HIDE DEF u
<1>3. ReadHolds(u) = ReadHolds(s) \ {<<t, n>>}
  <2>1. u.owners[t] = n - 1 /\ \A v \in Caller \ {t} : u.owners[v] = s.owners[v]
    BY <1>1, <1>2
  <2>2. 1 .. (n - 1) = (1 .. n) \ {n}
    BY <1>2
  <2> QED
    BY <2>1, <2>2 DEF ReadHolds
<1>4. <<t, n>> \in ReadHolds(s)
  <2>1. <<t, n>> \in {t} \X (1 .. n)
    BY <1>2
  <2> QED
    BY <2>1 DEF ReadHolds
<1>5. IsFiniteSet(ReadHolds(u)) /\ u.active = Cardinality(ReadHolds(u))
  BY <1>1, <1>3, <1>4, FS_RemoveElement DEF HoldsConsistent
<1>6. s.active > 0
  <2>1. s.active \in Nat
    BY DEF LockRecord
  <2>2. s.active # 0
    BY NoReaders
  <2> QED
    BY <2>1, <2>2
<1>7. u.writer # None => \A v \in Caller \ {u.writer} : u.owners[v] = 0
  BY <1>1, <1>2 DEF HoldsConsistent
<1> QED
  BY <1>1, <1>5, <1>6, <1>7 DEF HoldsConsistent, u

\* The writer, holding once, may become a reader.
LEMMA WriterToReaderConsistent ==
  ASSUME NEW s \in LockRecord, NEW t \in Caller, HoldsConsistent(s), s.writer = t
  PROVE  HoldsConsistent(WriterToReader(s, t))
<1> DEFINE free == [s EXCEPT !.writer = None, !.depth = 0]
<1>1. free \in LockRecord /\ free.writer = None
  BY DEF LockRecord
<1>2. HoldsConsistent(free)
  BY DEF HoldsConsistent, ReadHolds, LockRecord
<1> QED
  BY <1>1, <1>2, AddReaderConsistent DEF WriterToReader

\* A caller may become the writer of a lock nobody holds, or nest its write.
LEMMA AcquireWriteConsistent ==
  ASSUME NEW s \in LockRecord, NEW t \in Caller, HoldsConsistent(s),
         \/ s.writer = None /\ s.active = 0
         \/ s.reentrant /\ s.writer = t
  PROVE  HoldsConsistent(AcquireWriteCore(s, t))
<1> DEFINE u == AcquireWriteCore(s, t)
<1>1. /\ u.writer = t /\ u.active = s.active /\ u.owners = s.owners
      /\ u.reentrant = s.reentrant
      /\ u.depth = IF s.reentrant THEN s.depth + 1 ELSE s.depth
  BY DEF AcquireWriteCore, LockRecord
<1>2. s.depth \in Nat /\ t # None
  BY CallerAssumption DEF LockRecord
<1>3. \A v \in Caller \ {t} : s.owners[v] = 0
  BY <1>2, NoReaders DEF HoldsConsistent
<1>4. ReadHolds(u) = ReadHolds(s)
  BY <1>1 DEF ReadHolds
<1> HIDE DEF u
<1>5. u.depth > 0 <=> u.reentrant /\ u.writer # None
  BY <1>1, <1>2 DEF HoldsConsistent
<1> QED
  BY <1>1, <1>3, <1>4, <1>5 DEF HoldsConsistent, u

\* A release of the write core leaves a consistent lock, whoever calls it.
LEMMA ReleaseWriteConsistent ==
  ASSUME NEW s \in LockRecord, HoldsConsistent(s), s.writer # None
  PROVE  HoldsConsistent(ReleaseWriteCore(s))
<1> DEFINE u == IF s.reentrant /\ s.depth > 1
                THEN [s EXCEPT !.depth = @ - 1]
                ELSE [s EXCEPT !.writer = None, !.depth = 0]
<1>1. SameHolds(ReleaseWriteCore(s), u)
  <2>1. s.writer \in Caller
    BY DEF LockRecord
  <2> QED
    BY <2>1, WriteCoreEffect
<1>2. HoldsConsistent(u)
  <2>1. CASE s.reentrant /\ s.depth > 1
    <3> DEFINE inner == [s EXCEPT !.depth = @ - 1]
    <3>1. /\ inner.writer = s.writer /\ inner.active = s.active
          /\ inner.owners = s.owners /\ inner.reentrant = s.reentrant
          /\ inner.depth = s.depth - 1
      BY DEF LockRecord
    <3>2. s.depth \in Nat
      BY DEF LockRecord
    <3> HIDE DEF inner
    <3>3. inner.depth > 0 <=> inner.reentrant /\ inner.writer # None
      BY <2>1, <3>1, <3>2 DEF HoldsConsistent
    <3>4. ReadHolds(inner) = ReadHolds(s)
      BY <3>1 DEF ReadHolds
    <3>5. HoldsConsistent(inner)
      BY <3>1, <3>3, <3>4 DEF HoldsConsistent
    <3> QED
      BY <2>1, <3>5 DEF inner
  <2>2. CASE ~(s.reentrant /\ s.depth > 1)
    BY <2>2 DEF HoldsConsistent, ReadHolds, LockRecord
  <2> QED
    BY <2>1, <2>2
<1> HIDE DEF u
<1> QED
  BY <1>1, <1>2, SameHoldsConsistent

\* No policy lets a reader in beside another caller's write.
LEMMA CanReadSafe ==
  ASSUME NEW s, NEW t, CanRead(s, t)
  PROVE  s.writer \in {None, t}
BY DEF CanRead, WPrefCanRead, WPrefCanReadReentrant, RPrefCanRead,
       RPrefCanReadReentrant, PhaseCanRead, PhaseCanReadReentrant, FairCanRead,
       FairCanReadReentrant

\* No policy lets a writer in beside anybody, save under its own write.
LEMMA CanWriteSafe ==
  ASSUME NEW s, NEW t, CanWrite(s, t)
  PROVE  \/ s.writer = None /\ s.active = 0
         \/ s.reentrant /\ s.writer = t
BY DEF CanWrite, WPrefCanWrite, WPrefCanWriteReentrant, RPrefCanWrite,
       RPrefCanWriteReentrant, PhaseCanWrite, PhaseCanWriteReentrant,
       FairCanWrite, FairCanWriteReentrant

-----------------------------------------------------------------------------
(* The callers.                                                            *)

\* Nobody releases what it does not hold, unless the class checks owners.
Disciplined ==
  \A c \in Classes, t \in Caller : <<t, c[2]>> \in ForeignReleases => c[2]

DisciplinedLock ==
  \A t \in Caller : <<t, lock.reentrant>> \in ForeignReleases => lock.reentrant

\* The inductive invariant.  Mutual exclusion alone is not inductive: a release
\* that counted wrongly, or was routed to the wrong core by a stale marker,
\* would break it two steps later.
ClientInv ==
  /\ ClientTypeOK
  /\ HoldsAgree
  /\ MarkerRoutes
  /\ DisciplinedLock

-----------------------------------------------------------------------------

\* A fresh lock is free, and nobody holds it.
LEMMA ClientInitInv ==
  ASSUME Disciplined
  PROVE  ClientInit => ClientInv
<1> SUFFICES ASSUME ClientInit PROVE ClientInv
  OBVIOUS
<1>1. PICK c \in Classes : lock = NewLock(c[1], c[2])
  BY DEF ClientInit
<1>2. c[1] \in Policy /\ c[2] \in BOOLEAN
  BY ClientAssumption
<1>3. /\ lock.reentrant = c[2] /\ lock.writer = None /\ lock.depth = 0
      /\ lock.active = 0 /\ lock.owners = [t \in Caller |-> 0]
  BY <1>1 DEF NewLock
<1>4. lock \in LockRecord
  <2>1. << >> \in Seq(Caller)
    OBVIOUS
  <2>2. [k \in Kind |-> {}] \in [Kind -> SUBSET Caller]
    OBVIOUS
  <2>3. [k \in Kind |-> << >>] \in [Kind -> Seq(Caller)]
    BY <2>1
  <2> QED
    BY <1>1, <1>2, <2>2, <2>3 DEF NewLock, LockRecord
<1>5. ClientTypeOK
  BY <1>4 DEF ClientInit, ClientTypeOK
<1>6. HoldsAgree
  <2>1. ReadHolds(lock) = {}
    BY <1>3 DEF ReadHolds
  <2>2. HoldsConsistent(lock)
    BY <1>3, <2>1, FS_EmptySet DEF HoldsConsistent
  <2> QED
    BY <1>3, <2>2, CallerAssumption DEF HoldsAgree, ClientInit
<1>7. MarkerRoutes
  BY DEF ClientInit, MarkerRoutes
<1>8. DisciplinedLock
  BY <1>3 DEF Disciplined, DisciplinedLock
<1> QED
  BY <1>5, <1>6, <1>7, <1>8 DEF ClientInv

\* A step that touches no hold, no marker, and no thread's way out of acquire.
LEMMA QuietStep ==
  ASSUME ClientInv, lock' \in LockRecord, SameHolds(lock', lock),
         UNCHANGED <<marker, held, downgraded>>,
         call' \in [Caller -> Kind \cup {"none", "marker"}],
         \A u \in Caller : call'[u] = "marker" <=> call[u] = "marker"
  PROVE  ClientInv' /\ held' = held
<1>1. ClientTypeOK'
  BY DEF ClientInv, ClientTypeOK
<1>2. HoldsConsistent(lock')
  BY SameHoldsConsistent DEF ClientInv, HoldsAgree
<1>3. HoldsAgree'
  BY <1>2 DEF ClientInv, HoldsAgree, SameHolds, WriteDepth
<1>4. MarkerRoutes'
  BY DEF ClientInv, MarkerRoutes
<1>5. DisciplinedLock'
  BY DEF ClientInv, DisciplinedLock, SameHolds
<1> QED
  BY <1>1, <1>3, <1>4, <1>5 DEF ClientInv

\* Granting the read lock, on the fast path or after a wait (s is the lock as
\* the thread finds it): it is an AcquireRead of the abstract lock.
LEMMA ReadGrantedStep ==
  ASSUME ClientInv, NEW t \in Caller, call[t] \in {"none", "read"},
         NEW s \in LockRecord, SameHolds(s, lock), CanRead(s, t),
         lock' \in LockRecord, SameHolds(lock', AddReader(s, t)),
         Gains(t, "read"), call' = [call EXCEPT ![t] = "none"],
         UNCHANGED <<marker, downgraded>>
  PROVE  ClientInv' /\ Promise!AcquireRead(t)
<1>1. /\ held' = [held EXCEPT ![t].r = @ + 1]
      /\ call' = [call EXCEPT ![t] = "none"]
      /\ marker' = marker /\ downgraded' = downgraded
  BY DEF Gains
<1>2. s.writer \in {None, t} /\ HoldsConsistent(s)
  BY CanReadSafe, SameHoldsConsistent DEF ClientInv, HoldsAgree
<1>3. HoldsConsistent(lock')
  BY <1>2, AddReaderConsistent, SameHoldsConsistent
<1>4. /\ lock'.owners = [lock.owners EXCEPT ![t] = @ + 1]
      /\ lock'.writer = lock.writer /\ lock'.depth = lock.depth
      /\ lock'.reentrant = lock.reentrant
  BY DEF SameHolds, AddReader, LockRecord
<1>5. held \in [Caller -> [r : Nat, w : Nat]] /\ lock.owners \in [Caller -> Nat]
  BY DEF ClientInv, ClientTypeOK, LockRecord
<1>6. ClientTypeOK'
  BY <1>1, <1>5 DEF ClientInv, ClientTypeOK
<1>7. HoldsAgree'
  BY <1>1, <1>3, <1>4, <1>5 DEF ClientInv, HoldsAgree, WriteDepth
<1>8. MarkerRoutes'
  BY <1>1, <1>5 DEF ClientInv, MarkerRoutes
<1>9. DisciplinedLock'
  BY <1>4 DEF ClientInv, DisciplinedLock
<1>10. Promise!AcquireRead(t)
  <2>1. \A u \in Caller \ {t} : held[u].w = 0
    BY <1>2, CallerAssumption DEF ClientInv, HoldsAgree, SameHolds
  <2> QED
    BY <1>1, <2>1 DEF Promise!AcquireRead
<1> QED
  BY <1>6, <1>7, <1>8, <1>9, <1>10 DEF ClientInv

\* Granting the write lock is an AcquireWrite of the abstract lock.
LEMMA WriteGrantedStep ==
  ASSUME ClientInv, NEW t \in Caller, call[t] \in {"none", "write"},
         NEW s \in LockRecord, SameHolds(s, lock), CanWrite(s, t),
         lock' \in LockRecord, SameHolds(lock', AcquireWriteCore(s, t)),
         Gains(t, "write"), UNCHANGED downgraded,
         \/ call' = [call EXCEPT ![t] = "marker"] /\ marker' = marker
         \/ call' = [call EXCEPT ![t] = "none"] /\ marker' = None
  PROVE  ClientInv' /\ Promise!AcquireWrite(t)
<1>1. /\ held' = [held EXCEPT ![t].w = @ + 1]
      /\ downgraded' = downgraded
  BY DEF Gains
<1>2. /\ HoldsConsistent(s)
      /\ \/ s.writer = None /\ s.active = 0
         \/ s.reentrant /\ s.writer = t
  BY CanWriteSafe, SameHoldsConsistent DEF ClientInv, HoldsAgree
<1>3. HoldsConsistent(lock')
  BY <1>2, AcquireWriteConsistent, SameHoldsConsistent
<1>4. /\ lock'.owners = lock.owners /\ lock'.writer = t
      /\ lock'.depth = IF lock.reentrant THEN lock.depth + 1 ELSE lock.depth
      /\ lock'.reentrant = lock.reentrant
  BY DEF SameHolds, AcquireWriteCore, LockRecord
<1>5. /\ held \in [Caller -> [r : Nat, w : Nat]]
      /\ lock.depth \in Nat /\ t # None
  BY CallerAssumption DEF ClientInv, ClientTypeOK, LockRecord
<1>6. \A u \in Caller \ {t} : held[u].r = 0 /\ held[u].w = 0
  <2>1. \A u \in Caller \ {t} : lock.owners[u] = 0
    BY <1>2, <1>5, NoReaders DEF SameHolds, HoldsConsistent
  <2>2. lock.writer \in {None, t}
    BY <1>2 DEF SameHolds
  <2>3. \A u \in Caller \ {t} : lock.writer # u
    BY <2>2, CallerAssumption
  <2> QED
    BY <2>1, <2>3 DEF ClientInv, HoldsAgree
<1>7. ClientTypeOK'
  <2>1. held' \in [Caller -> [r : Nat, w : Nat]]
    BY <1>1, <1>5
  <2>2. call' \in [Caller -> Kind \cup {"none", "marker"}]
    BY DEF ClientInv, ClientTypeOK
  <2>3. marker' \in Caller \cup {None}
    BY DEF ClientInv, ClientTypeOK
  <2> QED
    BY <1>1, <2>1, <2>2, <2>3 DEF ClientInv, ClientTypeOK
<1>8. held[t].w = IF lock.reentrant THEN lock.depth ELSE 0
  <2>1. CASE lock.writer = None
    <3>1. lock.depth = 0
      BY <1>5, <2>1 DEF ClientInv, HoldsAgree, HoldsConsistent
    <3>2. held[t].w = 0
      BY <1>5, <2>1 DEF ClientInv, HoldsAgree
    <3> QED
      BY <3>1, <3>2
  <2>2. CASE lock.reentrant /\ lock.writer = t
    BY <2>2 DEF ClientInv, HoldsAgree, WriteDepth
  <2> QED
    BY <1>2, <2>1, <2>2 DEF SameHolds
<1>9. HoldsAgree'
  <2>1. held'[t].w = WriteDepth(lock') /\ held'[t].r = lock'.owners[t]
    BY <1>1, <1>4, <1>5, <1>8 DEF WriteDepth, ClientInv, HoldsAgree
  <2>2. \A u \in Caller \ {t} : held'[u].w = 0 /\ held'[u].r = lock'.owners[u]
    BY <1>1, <1>4, <1>5, <1>6 DEF ClientInv, HoldsAgree
  <2> QED
    BY <1>3, <1>4, <2>1, <2>2 DEF HoldsAgree
<1>10. downgraded = {}
  <2>1. SUFFICES ASSUME NEW u \in downgraded PROVE FALSE
    OBVIOUS
  <2>2. u \in Caller /\ held[u].r > 0 /\ held[u].w = 0
    BY DEF ClientInv, ClientTypeOK, MarkerRoutes
  <2>3. u = t
    BY <1>6, <2>2
  <2>4. lock.owners[t] > 0 /\ lock.writer # t
    <3>1. lock.owners[t] > 0
      BY <2>2, <2>3 DEF ClientInv, HoldsAgree
    <3>2. HoldsConsistent(lock)
      BY DEF ClientInv, HoldsAgree
    <3>3. SUFFICES ASSUME lock.writer = t PROVE WriteDepth(lock) # 0
      BY <2>2, <2>3, <3>1 DEF ClientInv, HoldsAgree
    <3>4. lock.reentrant => lock.depth > 0
      BY <1>5, <3>2, <3>3 DEF HoldsConsistent
    <3> QED
      BY <1>5, <3>4 DEF WriteDepth
  <2> QED
    BY <1>2, <2>4, NoReaders DEF SameHolds
<1>11. MarkerRoutes'
  <2>1. SUFFICES ASSUME NEW u \in Caller
                 PROVE  /\ call'[u] = "marker" => held'[u].w > 0
                        /\ held'[u].w > 0 => call'[u] = "marker" \/ marker' # u
    BY <1>1, <1>10 DEF MarkerRoutes
  <2>2. call \in [Caller -> Kind \cup {"none", "marker"}]
    BY DEF ClientInv, ClientTypeOK
  <2>3. held'[t].w > 0 /\ (call'[t] = "marker" \/ marker' = None)
    BY <1>1, <1>5, <2>2
  <2>4. CASE u = t
    BY <1>5, <2>3, <2>4
  <2>5. CASE u # t
    BY <1>1, <1>5, <1>6, <2>2, <2>5 DEF ClientInv, MarkerRoutes
  <2> QED
    BY <2>4, <2>5
<1>12. DisciplinedLock'
  BY <1>4 DEF ClientInv, DisciplinedLock
<1>13. Promise!AcquireWrite(t)
  BY <1>1, <1>6 DEF Promise!AcquireWrite, Promise!Holds
<1> QED
  BY <1>7, <1>9, <1>11, <1>12, <1>13 DEF ClientInv

\* A read hold ends, by read.release() or by a routed write.release(): it is a
\* ReleaseRead of the abstract lock.
LEMMA ReadReleasedStep ==
  ASSUME ClientInv, NEW t \in Caller, lock.owners[t] > 0,
         lock' = ReleaseReadCore(lock, t),
         held' = [held EXCEPT ![t].r = @ - 1],
         UNCHANGED call
  PROVE  /\ ClientTypeOK' <=> marker' \in Caller \cup {None} /\ downgraded' \subseteq Caller
         /\ HoldsAgree' /\ DisciplinedLock' /\ Promise!ReleaseRead(t)
<1>1. lock \in LockRecord /\ HoldsConsistent(lock)
  BY DEF ClientInv, ClientTypeOK, HoldsAgree
<1>2. lock.active > 0 /\ HoldsConsistent(DropReader(lock, t))
  BY <1>1, DropReaderConsistent
<1>3. lock' \in LockRecord /\ SameHolds(lock', DropReader(lock, t))
  BY <1>1, <1>2, ReleaseReadEffect
<1>4. HoldsConsistent(lock')
  BY <1>2, <1>3, SameHoldsConsistent
<1>5. /\ lock'.owners = [lock.owners EXCEPT ![t] = @ - 1]
      /\ lock'.writer = lock.writer /\ lock'.depth = lock.depth
      /\ lock'.reentrant = lock.reentrant
  BY <1>1, <1>3 DEF SameHolds, DropReader, LockRecord
<1>6. /\ held \in [Caller -> [r : Nat, w : Nat]] /\ lock.owners \in [Caller -> Nat]
      /\ held[t].r > 0
  BY <1>1 DEF ClientInv, ClientTypeOK, HoldsAgree, LockRecord
<1>7. held' \in [Caller -> [r : Nat, w : Nat]]
  BY <1>6
<1>8. ClientTypeOK' <=> marker' \in Caller \cup {None} /\ downgraded' \subseteq Caller
  BY <1>3, <1>7 DEF ClientInv, ClientTypeOK
<1>9. HoldsAgree'
  BY <1>4, <1>5, <1>6 DEF ClientInv, HoldsAgree, WriteDepth
<1>10. DisciplinedLock'
  BY <1>5 DEF ClientInv, DisciplinedLock
<1>11. Promise!ReleaseRead(t)
  BY <1>6 DEF Promise!ReleaseRead
<1> QED
  BY <1>8, <1>9, <1>10, <1>11

\* read.release() leaves the marker alone; the downgraded hold is the last read
\* hold to go.
LEMMA EndReadStep ==
  ASSUME ClientInv, NEW t \in Caller, EndRead(t)
  PROVE  ClientInv' /\ Promise!ReleaseRead(t)
<1>1. /\ held[t].r > 0 /\ lock' = ReleaseReadCore(lock, t)
      /\ held' = [held EXCEPT ![t].r = @ - 1] /\ call' = call
      /\ downgraded' = IF held[t].r = 1 THEN downgraded \ {t} ELSE downgraded
      /\ marker' = marker
  BY DEF EndRead, ReleaseRead, Loses
<1>2. lock.owners[t] > 0
  BY <1>1 DEF ClientInv, HoldsAgree
<1>3. /\ ClientTypeOK' <=> marker' \in Caller \cup {None} /\ downgraded' \subseteq Caller
      /\ HoldsAgree' /\ DisciplinedLock' /\ Promise!ReleaseRead(t)
  BY <1>1, <1>2, ReadReleasedStep
<1>4. ClientTypeOK'
  BY <1>1, <1>3 DEF ClientInv, ClientTypeOK
<1>5. MarkerRoutes'
  BY <1>1 DEF ClientInv, MarkerRoutes, ClientTypeOK
<1> QED
  BY <1>3, <1>4, <1>5 DEF ClientInv

\* The routed release: the marker named this thread, so no other thread is
\* downgraded, and the read hold that ends is the downgraded one.
LEMMA EndDowngradedStep ==
  ASSUME ClientInv, NEW t \in Caller, EndDowngraded(t)
  PROVE  ClientInv' /\ Promise!ReleaseRead(t)
<1>1. /\ marker = t /\ lock.owners[t] > 0 /\ lock' = ReleaseReadCore(lock, t)
      /\ held' = [held EXCEPT ![t].r = @ - 1] /\ call' = call
      /\ downgraded' = downgraded \ {t} /\ marker' = None
  BY DEF EndDowngraded, RoutedToRead, Loses
<1>2. /\ ClientTypeOK' <=> marker' \in Caller \cup {None} /\ downgraded' \subseteq Caller
      /\ HoldsAgree' /\ DisciplinedLock' /\ Promise!ReleaseRead(t)
  BY <1>1, ReadReleasedStep
<1>3. ClientTypeOK'
  BY <1>1, <1>2 DEF ClientInv, ClientTypeOK
<1>4. downgraded' = {}
  BY <1>1 DEF ClientInv, MarkerRoutes, ClientTypeOK
<1>5. MarkerRoutes'
  BY <1>1, <1>4, CallerAssumption DEF ClientInv, MarkerRoutes, ClientTypeOK
<1> QED
  BY <1>2, <1>3, <1>5 DEF ClientInv

\* A disciplined release of the write core is the writer's own: a reentrant
\* class checks it, and otherwise only a holder calls it.
LEMMA ReleaserIsWriter ==
  ASSUME ClientInv, NEW t \in Caller, CallsWriteRelease(t), ~RoutedToRead(t),
         MayReleaseWrite(lock, t)
  PROVE  lock.writer = t
<1>1. CASE lock.reentrant
  BY <1>1 DEF MayReleaseWrite
<1>2. CASE ~lock.reentrant
  <2>1. held[t].w > 0 \/ t \in downgraded
    BY <1>2 DEF CallsWriteRelease, ClientInv, DisciplinedLock
  <2>2. t \notin downgraded
    BY DEF ClientInv, MarkerRoutes, HoldsAgree, RoutedToRead
  <2>3. held[t].w > 0
    BY <2>1, <2>2
  <2> QED
    BY <2>3 DEF ClientInv, HoldsAgree
<1> QED
  BY <1>1, <1>2

\* A release of the write core is a EndWrite of the abstract lock.
LEMMA EndWriteStep ==
  ASSUME ClientInv, NEW t \in Caller, EndWrite(t)
  PROVE  ClientInv' /\ Promise!ReleaseWrite(t)
<1>1. /\ lock' = ReleaseWriteCore(lock) /\ call' = call
      /\ marker' = IF marker = t THEN None ELSE marker
      /\ held' = [held EXCEPT ![t].w = IF @ = 0 THEN 0 ELSE @ - 1]
      /\ downgraded' = downgraded
  BY DEF EndWrite, Loses
<1>2. lock.writer = t /\ t # None
  BY ReleaserIsWriter, CallerAssumption DEF EndWrite
<1>3. lock \in LockRecord /\ HoldsConsistent(lock) /\ lock.depth \in Nat
  BY DEF ClientInv, ClientTypeOK, HoldsAgree, LockRecord
<1>4. held \in [Caller -> [r : Nat, w : Nat]]
  BY DEF ClientInv, ClientTypeOK
<1>5. held[t].w = WriteDepth(lock) /\ held[t].w > 0
  <2>1. lock.reentrant => lock.depth > 0
    BY <1>2, <1>3 DEF HoldsConsistent
  <2> QED
    BY <1>2, <1>3, <2>1 DEF ClientInv, HoldsAgree, WriteDepth
<1>6. held' = [held EXCEPT ![t].w = @ - 1]
  <2>1. (IF held[t].w = 0 THEN 0 ELSE held[t].w - 1) = held[t].w - 1
    BY <1>4, <1>5
  <2> QED
    BY <1>1, <2>1
<1>7. lock' \in LockRecord /\ HoldsConsistent(lock')
  BY <1>1, <1>2, <1>3, WriteCoreEffect, ReleaseWriteConsistent
<1>8. /\ lock'.owners = lock.owners /\ lock'.reentrant = lock.reentrant
      /\ IF lock.reentrant /\ lock.depth > 1
         THEN lock'.writer = t /\ lock'.depth = lock.depth - 1
         ELSE lock'.writer = None
  <2> DEFINE left == IF lock.reentrant /\ lock.depth > 1
                     THEN [lock EXCEPT !.depth = @ - 1]
                     ELSE [lock EXCEPT !.writer = None, !.depth = 0]
  <2>1. SameHolds(lock', left)
    BY <1>1, <1>3, WriteCoreEffect
  <2>2. /\ left.owners = lock.owners /\ left.reentrant = lock.reentrant
        /\ IF lock.reentrant /\ lock.depth > 1
           THEN left.writer = t /\ left.depth = lock.depth - 1
           ELSE left.writer = None
    BY <1>2, <1>3 DEF LockRecord
  <2> HIDE DEF left
  <2> QED
    BY <2>1, <2>2 DEF SameHolds
<1>9. ClientTypeOK'
  <2>1. held[t].w - 1 \in Nat
    BY <1>4, <1>5
  <2>2. held' \in [Caller -> [r : Nat, w : Nat]]
    BY <1>4, <1>6, <2>1
  <2> QED
    BY <1>1, <1>7, <2>2 DEF ClientInv, ClientTypeOK
<1>10. HoldsAgree'
  <2>1. \A u \in Caller : lock'.owners[u] = held'[u].r
    BY <1>4, <1>6, <1>8 DEF ClientInv, HoldsAgree
  <2>2. \A u \in Caller \ {t} : held'[u].w = 0 /\ lock'.writer # u
    BY <1>2, <1>4, <1>6, <1>8, CallerAssumption DEF ClientInv, HoldsAgree
  <2>3. held'[t].w = IF lock'.writer = t THEN WriteDepth(lock') ELSE 0
    <3>1. held'[t].w = WriteDepth(lock) - 1
      BY <1>4, <1>5, <1>6
    <3>2. CASE lock.reentrant /\ lock.depth > 1
      BY <1>8, <3>1, <3>2 DEF WriteDepth
    <3>3. CASE ~(lock.reentrant /\ lock.depth > 1)
      <4>1. WriteDepth(lock) = 1
        BY <1>3, <1>5, <3>3 DEF WriteDepth
      <4> QED
        BY <1>2, <1>8, <3>1, <3>3, <4>1
    <3> QED
      BY <3>2, <3>3
  <2> QED
    BY <1>7, <2>1, <2>2, <2>3 DEF HoldsAgree
<1>11. t \notin downgraded
  BY <1>5 DEF ClientInv, MarkerRoutes
<1>12. MarkerRoutes'
  <2>1. Idle(t) /\ marker # t
    BY <1>5 DEF EndWrite, CallsWriteRelease, ClientInv, MarkerRoutes, Idle
  <2> QED
    BY <1>1, <1>4, <1>6, <1>11, <2>1 DEF ClientInv, MarkerRoutes, ClientTypeOK, Idle
<1>13. DisciplinedLock'
  BY <1>8 DEF ClientInv, DisciplinedLock
<1>14. Promise!ReleaseWrite(t)
  BY <1>5, <1>6 DEF Promise!ReleaseWrite
<1> QED
  BY <1>9, <1>10, <1>12, <1>13, <1>14 DEF ClientInv

\* A release that raises changes at most a stale marker.
LEMMA EndRefusedStep ==
  ASSUME ClientInv, NEW t \in Caller, EndRefused(t)
  PROVE  ClientInv' /\ held' = held
<1>1. /\ lock' = lock /\ call' = call /\ held' = held
      /\ marker' = IF marker = t THEN None ELSE marker
      /\ downgraded' = downgraded
  BY DEF EndRefused
<1>2. t \notin downgraded
  BY DEF EndRefused, RoutedToRead, ClientInv, MarkerRoutes, HoldsAgree
<1>3. ClientTypeOK' /\ HoldsAgree' /\ DisciplinedLock'
  BY <1>1 DEF ClientInv, ClientTypeOK, HoldsAgree, DisciplinedLock
<1>4. MarkerRoutes'
  BY <1>1, <1>2, CallerAssumption DEF ClientInv, MarkerRoutes, ClientTypeOK
<1> QED
  BY <1>1, <1>3, <1>4 DEF ClientInv

\* The downgrade of an outermost write hold.
LEMMA WriteToReadStep ==
  ASSUME ClientInv, NEW t \in Caller, WriteToRead(t)
  PROVE  ClientInv' /\ Promise!Downgrade(t)
<1>1. /\ held[t].w > 0 /\ lock.writer = t /\ lock.depth <= 1
      /\ lock' = DowngradeCore(lock, t) /\ marker' = t
      /\ held' = [held EXCEPT ![t] = [r |-> @.r + 1, w |-> @.w - 1]]
      /\ downgraded' = downgraded \cup {t}
      /\ call' = call /\ call[t] = "none"
  BY DEF WriteToRead, MayDowngrade, Idle
<1>2. lock \in LockRecord /\ HoldsConsistent(lock)
  BY DEF ClientInv, ClientTypeOK, HoldsAgree
<1>3. held \in [Caller -> [r : Nat, w : Nat]] /\ lock.depth \in Nat /\ t # None
  BY <1>2, CallerAssumption DEF ClientInv, ClientTypeOK, LockRecord
<1>4. held[t].w = 1
  BY <1>1, <1>3 DEF ClientInv, HoldsAgree, WriteDepth
<1>5. lock' \in LockRecord /\ SameHolds(lock', WriterToReader(lock, t))
  BY <1>1, <1>2, DowngradeEffect
<1>6. HoldsConsistent(lock')
  BY <1>1, <1>2, <1>5, WriterToReaderConsistent, SameHoldsConsistent
<1>7. /\ lock'.owners = [lock.owners EXCEPT ![t] = @ + 1]
      /\ lock'.writer = None /\ lock'.reentrant = lock.reentrant
  BY <1>2, <1>5 DEF SameHolds, WriterToReader, AddReader, LockRecord
<1>8. held' = [held EXCEPT ![t] = [r |-> @.r + 1, w |-> 0]]
  BY <1>1, <1>3, <1>4
<1>9. ClientTypeOK'
  <2>1. held' \in [Caller -> [r : Nat, w : Nat]]
    BY <1>3, <1>8
  <2> QED
    BY <1>1, <1>5, <2>1 DEF ClientInv, ClientTypeOK
<1>10. HoldsAgree'
  <2>1. lock.owners \in [Caller -> Nat]
    BY <1>2 DEF LockRecord
  <2>2. \A u \in Caller : lock'.owners[u] = held'[u].r
    BY <1>3, <1>7, <1>8, <2>1 DEF ClientInv, HoldsAgree
  <2>3. \A u \in Caller : held'[u].w = 0 /\ lock'.writer # u
    BY <1>1, <1>3, <1>7, <1>8, CallerAssumption DEF ClientInv, HoldsAgree
  <2> QED
    BY <1>6, <2>2, <2>3 DEF HoldsAgree
<1>11. downgraded = {}
  <2>1. SUFFICES ASSUME NEW u \in downgraded PROVE FALSE
    OBVIOUS
  <2>2. u \in Caller /\ held[u].r > 0 /\ held[u].w = 0
    BY DEF ClientInv, ClientTypeOK, MarkerRoutes
  <2>3. u # t /\ lock.owners[u] = 0
    BY <1>1, <1>2, <1>3, <2>2 DEF HoldsConsistent
  <2> QED
    BY <2>2, <2>3 DEF ClientInv, HoldsAgree
<1>12. MarkerRoutes'
  BY <1>1, <1>3, <1>8, <1>11 DEF ClientInv, MarkerRoutes, ClientTypeOK
<1>13. DisciplinedLock'
  BY <1>7 DEF ClientInv, DisciplinedLock
<1>14. Promise!Downgrade(t)
  BY <1>4, <1>8 DEF Promise!Downgrade
<1> QED
  BY <1>9, <1>10, <1>12, <1>13, <1>14 DEF ClientInv

-----------------------------------------------------------------------------

\* What one core operation after another does to the holds.
LEMMA SameHoldsTransitive ==
  ASSUME NEW a, NEW b, NEW c, SameHolds(a, b), SameHolds(b, c)
  PROVE  SameHolds(a, c)
BY DEF SameHolds

\* An abort, from whatever state of the deques, grants nothing.
LEMMA AbortEffect ==
  ASSUME NEW s \in LockRecord, NEW k \in Kind, NEW t \in Caller
  PROVE  /\ OnAbort(Leave(s, k, t), k, t) \in LockRecord
         /\ SameHolds(OnAbort(Leave(s, k, t), k, t), s)
<1>1. Leave(s, k, t) \in LockRecord /\ SameHolds(Leave(s, k, t), s)
  BY WaitFrame
<1>2. /\ OnAbort(Leave(s, k, t), k, t) \in LockRecord
      /\ SameHolds(OnAbort(Leave(s, k, t), k, t), Leave(s, k, t))
  BY <1>1, AbortFrame DEF OnAbort
<1> QED
  BY <1>1, <1>2, SameHoldsTransitive

\* An acquire succeeds, on the fast path or after a wait (s is the lock as the
\* caller finds it): it is a grant of the abstract lock.
LEMMA AcquireStep ==
  ASSUME ClientInv, NEW t \in Caller, NEW k \in Kind, call[t] \in {"none", k},
         NEW s \in LockRecord, SameHolds(s, lock), CanAcquire(s, k, t),
         lock' \in {AcquireCore(s, k, t), Leave(AcquireCore(s, k, t), k, t)},
         Gains(t, k), UNCHANGED downgraded,
         \/ k = "write" /\ call' = [call EXCEPT ![t] = "marker"] /\ marker' = marker
         \/ k = "write" /\ call' = [call EXCEPT ![t] = "none"] /\ marker' = None
         \/ k = "read" /\ call' = [call EXCEPT ![t] = "none"] /\ marker' = marker
  PROVE  ClientInv' /\ (Promise!AcquireRead(t) \/ Promise!AcquireWrite(t))
<1> DEFINE c == AcquireCore(s, k, t)
<1>1. c \in LockRecord
  BY AcquireReadEffect, WriteCoreEffect DEF AcquireCore
<1>2. SameHolds(c, c)
  BY DEF SameHolds
<1>3. lock' \in LockRecord /\ SameHolds(lock', c)
  <2>1. Leave(c, k, t) \in LockRecord /\ SameHolds(Leave(c, k, t), c)
    BY <1>1, WaitFrame
  <2>2. lock' = c \/ lock' = Leave(c, k, t)
    OBVIOUS
  <2> HIDE DEF c
  <2> QED
    BY <1>1, <1>2, <2>1, <2>2
<1>4. CASE k = "read"
  <2>1. c = AcquireReadCore(s, t) /\ CanRead(s, t)
    BY <1>4 DEF AcquireCore, CanAcquire
  <2> HIDE DEF c
  <2>2. SameHolds(c, AddReader(s, t))
    BY <2>1, AcquireReadEffect
  <2>3. SameHolds(lock', AddReader(s, t))
    BY <1>3, <2>2, SameHoldsTransitive
  <2> QED
    BY <1>3, <1>4, <2>1, <2>3, ReadGrantedStep
<1>5. CASE k = "write"
  <2>1. c = AcquireWriteCore(s, t) /\ CanWrite(s, t)
    BY <1>5 DEF AcquireCore, CanAcquire
  <2> HIDE DEF c
  <2>2. SameHolds(lock', AcquireWriteCore(s, t))
    BY <1>3, <2>1
  <2> QED
    BY <1>3, <1>5, <2>1, <2>2, WriteGrantedStep
<1> QED
  BY <1>4, <1>5 DEF Kind

-----------------------------------------------------------------------------

\* The invariant gives mutual exclusion and keeps the write sections.
LEMMA ClientInvExcludes ==
  ASSUME ClientInv
  PROVE  MutualExclusion /\ WriteSectionKept
<1>1. WriteSectionKept
  BY DEF ClientInv, HoldsAgree, WriteSectionKept
<1>2. MutualExclusion
  <2> SUFFICES ASSUME NEW t \in Caller, NEW u \in Caller \ {t}, held[t].w > 0
               PROVE  held[u].r = 0 /\ held[u].w = 0
    BY DEF MutualExclusion, Promise!MutualExclusion, Promise!Holds
  <2>1. lock.writer = t /\ HoldsConsistent(lock)
    BY DEF ClientInv, HoldsAgree
  <2>2. held[u].w = 0
    BY <2>1 DEF ClientInv, HoldsAgree
  <2>3. lock.owners[u] = 0
    BY <2>1, CallerAssumption DEF HoldsConsistent
  <2> QED
    BY <2>2, <2>3 DEF ClientInv, HoldsAgree
<1> QED
  BY <1>1, <1>2

-----------------------------------------------------------------------------
(* Those who wait: what the core operators do to them.  The queues stay in *)
(* order, the readers' phase stays counted, and nobody who could have the  *)
(* lock is left parked.  Each lemma takes one operation; a caller that has *)
(* left its queue and is still counted as waiting is busy.                 *)

Queued(q) == {q[i] : i \in 1 .. Len(q)}

Distinct(q) == \A i, j \in 1 .. Len(q) : q[i] = q[j] => i = j

\* Who waits is in its queue, once, unless a notify has popped it.
Orderly(s, busy) ==
  /\ s.waiting["read"] \cap s.waiting["write"] = {}
  /\ s.woken \subseteq (s.waiting["read"] \cup s.waiting["write"]) \ busy
  /\ \A k \in Kind :
       /\ Distinct(s.queue[k])
       /\ Queued(s.queue[k]) \subseteq s.waiting[k] \ (s.woken \cup busy)
       /\ s.waiting[k] \ (s.woken \cup s.cancelled \cup busy) \subseteq Queued(s.queue[k])

\* u differs from s by notifies alone.
OnlyWakes(u, s) ==
  /\ SameHolds(u, s)
  /\ u.waiting = s.waiting
  /\ u.cancelled = s.cancelled
  /\ s.woken \subseteq u.woken
  /\ u.turn = s.turn
  /\ u.pending = s.pending
  /\ u.reserved = s.reserved

\* The phase's attributes agree, but for the slot of a caller of X that no
\* longer waits.
PhaseCounted(s, X) ==
  /\ s.policy \in {"write", "read"} => ~s.turn
  /\ s.policy # "fair" => s.reserved = {}
  /\ s.pending = Cardinality(s.reserved)
  /\ s.reserved # {} => s.turn
  /\ s.reserved \subseteq s.waiting["read"] \cup X

TurnHeld(s) == s.turn => s.active > 0 \/ s.waiting["read"] # {}

\* Who waits holds nothing (AsyncRWLock and ThreadRWLock prove it), and so what
\* _can_read and _can_write ask of a waiter comes to this.
MayRead(s, t) ==
  /\ s.writer = None
  /\ \/ s.waiting["write"] = {} \/ s.policy = "read"
     \/ s.policy = "phase" /\ s.turn
     \/ s.policy = "fair" /\ t \in s.reserved

MayWrite(s) ==
  /\ s.writer = None /\ s.active = 0
  /\ s.policy = "read" => s.waiting["read"] = {}
  /\ s.policy = "phase" => ~(s.turn /\ s.waiting["read"] # {})
  /\ s.policy = "fair" => ~(s.turn /\ s.pending > 0)

\* Every waiting reader that could be in is awake, and so is some waiting writer
\* if one could be in.
ReadersKept(s, awake) == \A t \in s.waiting["read"] : MayRead(s, t) => t \in awake

WritersKept(s, awake) ==
  MayWrite(s) /\ s.waiting["write"] # {} => s.waiting["write"] \cap awake # {}

\* What a core operation may rely on, and what it leaves: D are the waiters that
\* have to give up (cancelled, or too late), awake like the woken.
InOrder(s, D) ==
  /\ s \in LockRecord
  /\ Orderly(s, {})
  /\ PhaseCounted(s, {})
  /\ s.cancelled \subseteq D

Kept(s, D) ==
  /\ InOrder(s, D)
  /\ TurnHeld(s)
  /\ ReadersKept(s, s.woken \cup D)
  /\ WritersKept(s, s.woken \cup D)

\* No core operation counts a waiter in or out, or cancels one.
SameWaits(u, s) == u.waiting = s.waiting /\ u.cancelled = s.cancelled

-----------------------------------------------------------------------------
(* The deque.                                                              *)

\* A set of positions that holds, with each, those before it, is an interval
\* from 1 on.
LEMMA PrefixIsInterval ==
  ASSUME NEW m \in Nat, NEW S \in SUBSET (1 .. m),
         \A i \in S : 1 .. i \subseteq S
  PROVE  /\ Cardinality(S) \in 0 .. m
         /\ S = 1 .. Cardinality(S)
<1>1. IsFiniteSet(1 .. m) /\ Cardinality(1 .. m) = m
  BY FS_Interval
<1>2. IsFiniteSet(S) /\ Cardinality(S) \in Nat /\ Cardinality(S) <= m
  BY <1>1, FS_Subset, FS_CardinalityType
<1>3. S \subseteq 1 .. Cardinality(S)
  <2>1. ASSUME NEW i \in S PROVE i <= Cardinality(S)
    <3>1. IsFiniteSet(1 .. i) /\ Cardinality(1 .. i) = i
      BY FS_Interval
    <3>2. 1 .. i \subseteq S
      OBVIOUS
    <3> QED
      BY <1>2, <3>1, <3>2, FS_Subset
  <2> QED
    BY <1>2, <2>1
<1>4. IsFiniteSet(1 .. Cardinality(S)) /\ Cardinality(1 .. Cardinality(S)) = Cardinality(S)
  BY <1>2, FS_Interval
<1>5. S = 1 .. Cardinality(S)
  BY <1>3, <1>4, FS_Subset
<1> QED
  BY <1>2, <1>5

\* A notify pops from the front of the deque, and every waiter if n is large
\* enough; at least one, or all of them are cancelled, if n is positive.
LEMMA PoppedPrefix ==
  ASSUME NEW C, NEW q \in Seq(C), NEW n \in Nat, NEW dead
  PROVE  LET m == Cardinality(Popped(q, n, dead))
         IN  /\ m \in 0 .. Len(q)
             /\ Popped(q, n, dead) = 1 .. m
             /\ n >= Len(q) => m = Len(q)
             /\ n > 0 => m = Len(q) \/ \E i \in 1 .. m : q[i] \notin dead
<1> DEFINE Live(i) == {j \in 1 .. (i - 1) : q[j] \notin dead}
           S == Popped(q, n, dead)
           m == Cardinality(S)
<1>1. Len(q) \in Nat
  OBVIOUS
<1>2. ASSUME NEW i \in 1 .. Len(q)
      PROVE  IsFiniteSet(Live(i)) /\ Cardinality(Live(i)) \in Nat /\ Cardinality(Live(i)) <= i - 1
  <2>1. IsFiniteSet(1 .. (i - 1)) /\ Cardinality(1 .. (i - 1)) = i - 1
    <3>1. 1 \in Int /\ i - 1 \in Int /\ i - 1 >= 0
      BY <1>1
    <3>2. /\ IsFiniteSet(1 .. (i - 1))
          /\ Cardinality(1 .. (i - 1)) = IF 1 > i - 1 THEN 0 ELSE (i - 1) - 1 + 1
      BY <3>1, FS_Interval
    <3> QED
      BY <3>1, <3>2
  <2>2. Live(i) \subseteq 1 .. (i - 1)
    OBVIOUS
  <2> HIDE DEF Live
  <2> QED
    BY <2>1, <2>2, FS_Subset, FS_CardinalityType
<1>3. S = {i \in 1 .. Len(q) : Cardinality(Live(i)) < n}
  BY DEF Popped
<1>4. \A i \in S : 1 .. i \subseteq S
  <2> SUFFICES ASSUME NEW i \in S, NEW j \in 1 .. i PROVE j \in S
    OBVIOUS
  <2>1. i \in 1 .. Len(q) /\ j \in 1 .. Len(q) /\ Cardinality(Live(i)) < n
    BY <1>1, <1>3
  <2>2. Live(j) \subseteq Live(i)
    BY <2>1
  <2>3. Cardinality(Live(j)) <= Cardinality(Live(i))
    BY <1>2, <2>1, <2>2, FS_Subset
  <2> HIDE DEF Live
  <2>4. Cardinality(Live(j)) < n
    BY <1>2, <2>1, <2>3
  <2> QED
    BY <1>3, <2>1, <2>4
<1>5. m \in 0 .. Len(q) /\ S = 1 .. m
  <2>1. S \in SUBSET (1 .. Len(q))
    BY <1>3
  <2> HIDE DEF S
  <2> QED
    BY <1>1, <1>4, <2>1, PrefixIsInterval
<1>6. ASSUME n >= Len(q) PROVE m = Len(q)
  <2>1. ASSUME NEW i \in 1 .. Len(q) PROVE i \in S
    <3> HIDE DEF Live
    <3>1. Cardinality(Live(i)) < n
      BY <1>1, <1>2, <1>6
    <3> QED
      BY <1>3, <3>1
  <2>2. S = 1 .. Len(q)
    BY <1>3, <2>1
  <2> DEFINE l == Len(q)
  <2>3. Cardinality(1 .. l) = l
    <3>1. l \in Nat
      BY <1>1
    <3> HIDE DEF l
    <3> QED
      BY <3>1, FS_Interval
  <2> HIDE DEF S
  <2> QED
    BY <2>2, <2>3
<1>7. ASSUME n > 0, m # Len(q) PROVE \E i \in 1 .. m : q[i] \notin dead
  <2>1. m + 1 \in 1 .. Len(q) /\ m + 1 \notin S
    <3> HIDE DEF S, m
    <3> QED
      BY <1>1, <1>5, <1>7
  <2>2. ~(Cardinality(Live(m + 1)) < n)
    BY <1>3, <2>1
  <2>3. Live(m + 1) # {}
    <3>1. SUFFICES ASSUME Live(m + 1) = {} PROVE FALSE
      OBVIOUS
    <3>2. Cardinality(Live(m + 1)) = 0
      BY <3>1, FS_EmptySet
    <3> QED
      BY <1>7, <2>2, <3>2
  <2>4. PICK j \in 1 .. (m + 1) - 1 : q[j] \notin dead
    BY <2>3
  <2>5. (m + 1) - 1 = m
    BY <1>5
  <2> QED
    BY <2>4, <2>5
<1> HIDE DEF S, m
<1> QED
  BY <1>5, <1>6, <1>7 DEF S, m

\* A deque without repetition is as long as the set of its elements is large.
LEMMA DistinctLength ==
  ASSUME NEW q \in Seq(Caller), Distinct(q)
  PROVE  IsFiniteSet(Queued(q)) /\ Len(q) = Cardinality(Queued(q))
<1>1. Len(q) \in Nat /\ q \in [1 .. Len(q) -> Queued(q)]
  BY DEF Queued
<1>2. q \in Surjection(1 .. Len(q), Queued(q))
  BY <1>1 DEF Surjection, Queued
<1>3. q \in Injection(1 .. Len(q), Queued(q))
  BY <1>1 DEF Injection, IsInjective, Distinct
<1>4. IsFiniteSet(1 .. Len(q)) /\ Cardinality(1 .. Len(q)) = Len(q)
  BY <1>1, FS_Interval
<1> QED
  BY <1>2, <1>3, <1>4, FS_Surjection

-----------------------------------------------------------------------------
(* The operations on one queue.                                            *)

\* A notify keeps the queues in order, and wakes what it should: one waiter at
\* least if n is positive, every one if n is as large as the queue is long.
LEMMA NotifyWakes ==
  ASSUME NEW s \in LockRecord, NEW busy, Orderly(s, busy),
         NEW k \in Kind, NEW n \in Nat
  PROVE  LET u == Notify(s, k, n)
         IN  /\ u \in LockRecord /\ OnlyWakes(u, s) /\ Orderly(u, busy)
             /\ n > 0 => \/ s.waiting[k] \subseteq busy
                         \/ s.waiting[k] \cap (u.woken \cup s.cancelled) # {}
             /\ n >= Len(s.queue[k]) =>
                  s.waiting[k] \subseteq u.woken \cup s.cancelled \cup busy
<1> DEFINE q    == s.queue[k]
           pop  == Popped(q, n, s.cancelled)
           m    == Cardinality(pop)
           rest == SubSeq(q, m + 1, Len(q))
           out  == {q[i] : i \in pop} \ s.cancelled
           u    == Notify(s, k, n)
<1>1. q \in Seq(Caller) /\ Len(q) \in Nat /\ \A i \in 1 .. Len(q) : q[i] \in Caller
  BY DEF LockRecord
<1>2. /\ m \in 0 .. Len(q) /\ pop = 1 .. m
      /\ n >= Len(q) => m = Len(q)
      /\ n > 0 => m = Len(q) \/ \E i \in 1 .. m : q[i] \notin s.cancelled
  <2> HIDE DEF q
  <2> QED
    BY <1>1, PoppedPrefix
<1>3. u \in LockRecord /\ SameHolds(u, s)
  BY NotifyFrame
<1>4. u = [s EXCEPT !.queue = [s.queue EXCEPT ![k] = rest], !.woken = s.woken \cup out]
  BY DEF Notify, LockRecord
<1>5. s.queue \in [Kind -> Seq(Caller)]
  BY DEF LockRecord
<1> HIDE DEF u, out, rest, m, pop
<1>6. /\ u.waiting = s.waiting /\ u.cancelled = s.cancelled /\ u.turn = s.turn
      /\ u.pending = s.pending /\ u.reserved = s.reserved
      /\ u.woken = s.woken \cup out
      /\ u.queue = [s.queue EXCEPT ![k] = rest]
  BY <1>4 DEF LockRecord
<1>7. /\ Len(rest) = Len(q) - m
      /\ \A i \in 1 .. Len(q) - m : rest[i] = q[m + i]
  <2>1. m + 1 \in Int /\ Len(q) \in Int /\ \A i \in m + 1 .. Len(q) : q[i] \in Caller
    BY <1>1, <1>2
  <2>2. /\ Len(rest) = IF m + 1 <= Len(q) THEN Len(q) - (m + 1) + 1 ELSE 0
        /\ \A i \in 1 .. Len(q) - (m + 1) + 1 : rest[i] = q[(m + 1) + i - 1]
    <3> HIDE DEF q
    <3> QED
      BY <2>1, SubSeqProperties DEF rest
  <2>3. Len(q) - (m + 1) + 1 = Len(q) - m
    BY <1>1, <1>2
  <2>4. Len(rest) = Len(q) - m
    BY <1>1, <1>2, <2>2
  <2>5. ASSUME NEW i \in 1 .. Len(q) - m PROVE rest[i] = q[m + i]
    <3>1. (m + 1) + i - 1 = m + i
      BY <1>1, <1>2
    <3> QED
      BY <2>2, <2>3, <3>1
  <2> QED
    BY <2>4, <2>5
<1>8. Queued(rest) = {q[i] : i \in m + 1 .. Len(q)}
  <2>1. ASSUME NEW i \in m + 1 .. Len(q) PROVE q[i] \in Queued(rest)
    <3>1. i - m \in 1 .. Len(q) - m /\ m + (i - m) = i
      BY <1>1, <1>2
    <3> QED
      BY <1>7, <3>1 DEF Queued
  <2>2. ASSUME NEW i \in 1 .. Len(rest) PROVE rest[i] \in {q[j] : j \in m + 1 .. Len(q)}
    <3>1. m + i \in m + 1 .. Len(q) /\ rest[i] = q[m + i]
      BY <1>1, <1>2, <1>7
    <3> QED
      BY <3>1
  <2> QED
    BY <2>1, <2>2 DEF Queued
<1>9. Distinct(q) /\ Queued(q) \subseteq s.waiting[k] \ (s.woken \cup busy)
  BY DEF Orderly
<1>10. Distinct(rest)
  <2> SUFFICES ASSUME NEW i \in 1 .. Len(rest), NEW j \in 1 .. Len(rest), rest[i] = rest[j]
               PROVE  i = j
    BY DEF Distinct
  <2>1. /\ m + i \in 1 .. Len(q) /\ m + j \in 1 .. Len(q)
        /\ q[m + i] = q[m + j]
    BY <1>1, <1>2, <1>7
  <2>2. m + i = m + j
    BY <1>9, <2>1 DEF Distinct
  <2> QED
    BY <1>2, <2>2
<1>11. out = {q[i] : i \in 1 .. m} \ s.cancelled
  BY <1>2 DEF out
<1>12. Queued(q) = Queued(rest) \cup {q[i] : i \in 1 .. m}
  <2>1. 1 .. Len(q) = (1 .. m) \cup (m + 1 .. Len(q))
    BY <1>1, <1>2
  <2> QED
    BY <1>8, <2>1 DEF Queued
<1>13. Queued(rest) \cap out = {}
  <2>1. \A i \in 1 .. m, j \in m + 1 .. Len(q) : q[i] # q[j]
    <3> SUFFICES ASSUME NEW i \in 1 .. m, NEW j \in m + 1 .. Len(q), q[i] = q[j] PROVE FALSE
      OBVIOUS
    <3>1. i \in 1 .. Len(q) /\ j \in 1 .. Len(q) /\ i # j
      BY <1>1, <1>2
    <3> QED
      BY <1>9, <3>1 DEF Distinct
  <2> QED
    BY <1>8, <1>11, <2>1
<1> HIDE DEF q
<1>14. Orderly(u, busy)
  <2>1. out \subseteq s.waiting[k] \ (s.woken \cup busy)
    BY <1>9, <1>11, <1>12
  <2>2. \A j \in Kind \ {k} : s.waiting[j] \cap out = {} /\ u.queue[j] = s.queue[j]
    BY <1>5, <1>6, <2>1 DEF Orderly, Kind
  <2>3. u.queue[k] = rest
    BY <1>5, <1>6
  <2>4. /\ Queued(rest) \subseteq s.waiting[k] \ (u.woken \cup busy)
        /\ s.waiting[k] \ (u.woken \cup s.cancelled \cup busy) \subseteq Queued(rest)
    <3>1. s.waiting[k] \ (s.woken \cup s.cancelled \cup busy) \subseteq Queued(q)
      BY DEF Orderly, q
    <3>2. Queued(q) \ Queued(rest) \subseteq out \cup s.cancelled
      BY <1>11, <1>12
    <3> QED
      BY <1>6, <1>9, <1>12, <1>13, <3>1, <3>2
  <2>5. u.woken \subseteq (s.waiting["read"] \cup s.waiting["write"]) \ busy
    BY <1>6, <2>1 DEF Orderly, Kind
  <2>6. ASSUME NEW j \in Kind
        PROVE  /\ Distinct(u.queue[j])
               /\ Queued(u.queue[j]) \subseteq u.waiting[j] \ (u.woken \cup busy)
               /\ u.waiting[j] \ (u.woken \cup u.cancelled \cup busy) \subseteq Queued(u.queue[j])
    <3>1. CASE j = k
      BY <1>6, <1>10, <2>3, <2>4, <3>1
    <3>2. CASE j # k
      BY <1>6, <2>2, <3>2 DEF Orderly
    <3> QED
      BY <3>1, <3>2
  <2> QED
    BY <1>6, <2>5, <2>6 DEF Orderly
<1>15. ASSUME m = Len(q) PROVE s.waiting[k] \subseteq u.woken \cup s.cancelled \cup busy
  <2>1. Queued(rest) = {}
    BY <1>1, <1>8, <1>15
  <2>2. u.queue[k] = rest
    BY <1>5, <1>6
  <2>3. u.waiting[k] \ (u.woken \cup u.cancelled \cup busy) \subseteq Queued(u.queue[k])
    BY <1>14 DEF Orderly
  <2> QED
    BY <1>6, <2>1, <2>2, <2>3
<1>16. ASSUME n > 0, NEW i \in 1 .. m, q[i] \notin s.cancelled
       PROVE  s.waiting[k] \cap u.woken # {}
  BY <1>6, <1>9, <1>11, <1>12, <1>16
<1>17. OnlyWakes(u, s)
  BY <1>3, <1>6 DEF OnlyWakes
<1>18. n > 0 => \/ s.waiting[k] \subseteq busy
                \/ s.waiting[k] \cap (u.woken \cup s.cancelled) # {}
  BY <1>2, <1>15, <1>16
<1>19. n >= Len(q) => s.waiting[k] \subseteq u.woken \cup s.cancelled \cup busy
  BY <1>2, <1>15
<1> QED
  BY <1>3, <1>14, <1>17, <1>18, <1>19 DEF u, q

\* deque.remove takes out one waiter, and the others stay in order.
LEMMA WithoutShape ==
  ASSUME NEW C, NEW q \in Seq(C), NEW t, t \in Queued(q)
  PROVE  LET w == Without(q, t)
         IN  \E i \in 1 .. Len(q) :
               /\ q[i] = t /\ Len(w) = Len(q) - 1
               /\ \A j \in 1 .. Len(q) - 1 : w[j] = IF j < i THEN q[j] ELSE q[j + 1]
<1> DEFINE i == CHOOSE i \in 1 .. Len(q) : q[i] = t
           before == SubSeq(q, 1, i - 1)
           after == SubSeq(q, i + 1, Len(q))
           r == before \o after
<1>1. i \in 1 .. Len(q) /\ q[i] = t
  BY DEF Queued
<1>2. Without(q, t) = r
  BY <1>1 DEF Without, Queued
<1>3. Len(q) \in Nat /\ \A j \in 1 .. Len(q) : q[j] \in C
  OBVIOUS
<1> HIDE DEF i
<1>4. /\ before \in Seq(C) /\ Len(before) = i - 1
      /\ \A j \in 1 .. i - 1 : before[j] = q[j]
  <2>1. 1 \in Int /\ i - 1 \in Int /\ \A j \in 1 .. i - 1 : q[j] \in C
    BY <1>1, <1>3
  <2>2. /\ before \in Seq(C)
        /\ Len(before) = IF 1 <= i - 1 THEN (i - 1) - 1 + 1 ELSE 0
        /\ \A j \in 1 .. (i - 1) - 1 + 1 : before[j] = q[1 + j - 1]
    BY <2>1, SubSeqProperties
  <2>3. (i - 1) - 1 + 1 = i - 1 /\ \A j \in Int : 1 + j - 1 = j
    BY <2>1
  <2>4. Len(before) = i - 1
    BY <1>1, <1>3, <2>2
  <2>5. \A j \in 1 .. i - 1 : before[j] = q[j]
    BY <2>2, <2>3
  <2> QED
    BY <2>2, <2>4, <2>5
<1>5. /\ after \in Seq(C) /\ Len(after) = Len(q) - i
      /\ \A j \in 1 .. Len(q) - i : after[j] = q[i + j]
  <2>1. i + 1 \in Int /\ Len(q) \in Int /\ \A j \in i + 1 .. Len(q) : q[j] \in C
    BY <1>1, <1>3
  <2>2. /\ after \in Seq(C)
        /\ Len(after) = IF i + 1 <= Len(q) THEN Len(q) - (i + 1) + 1 ELSE 0
        /\ \A j \in 1 .. Len(q) - (i + 1) + 1 : after[j] = q[(i + 1) + j - 1]
    BY <2>1, SubSeqProperties
  <2>3. Len(q) - (i + 1) + 1 = Len(q) - i /\ \A j \in Int : (i + 1) + j - 1 = i + j
    BY <1>1, <1>3
  <2>4. Len(after) = Len(q) - i
    BY <1>1, <1>3, <2>2
  <2>5. ASSUME NEW j \in 1 .. Len(q) - i PROVE after[j] = q[i + j]
    <3>1. j \in 1 .. Len(q) - (i + 1) + 1 /\ (i + 1) + j - 1 = i + j
      BY <2>3
    <3> QED
      BY <2>2, <3>1
  <2> QED
    BY <2>2, <2>4, <2>5
<1> HIDE DEF before, after
<1>6. /\ Len(r) = Len(q) - 1
      /\ \A j \in 1 .. Len(q) - 1 : r[j] = IF j < i THEN q[j] ELSE q[j + 1]
  <2>1. /\ Len(r) = Len(before) + Len(after)
        /\ \A j \in 1 .. Len(before) + Len(after) :
             r[j] = IF j <= Len(before) THEN before[j] ELSE after[j - Len(before)]
    BY <1>4, <1>5, ConcatProperties
  <2>2. Len(before) + Len(after) = Len(q) - 1
    BY <1>1, <1>3, <1>4, <1>5
  <2> HIDE DEF r
  <2>3. ASSUME NEW j \in 1 .. Len(q) - 1 PROVE r[j] = IF j < i THEN q[j] ELSE q[j + 1]
    <3>1. CASE j < i
      <4>1. j \in 1 .. i - 1 /\ j <= Len(before)
        BY <1>1, <1>3, <1>4, <3>1
      <4>2. r[j] = before[j]
        BY <2>1, <2>2, <4>1
      <4> QED
        BY <1>4, <3>1, <4>1, <4>2
    <3>2. CASE ~(j < i)
      <4>1. j - (i - 1) \in 1 .. Len(q) - i /\ ~(j <= i - 1) /\ i + (j - (i - 1)) = j + 1
        BY <1>1, <1>3, <3>2
      <4>2. r[j] = after[j - (i - 1)]
        BY <1>4, <2>1, <2>2, <4>1
      <4>3. after[j - (i - 1)] = q[i + (j - (i - 1))]
        BY <1>5, <4>1
      <4> QED
        BY <3>2, <4>1, <4>2, <4>3
    <3> QED
      BY <3>1, <3>2
  <2> QED
    BY <2>1, <2>2, <2>3
<1> QED
  BY <1>1, <1>2, <1>6

\* deque.remove takes out the only waiter of t, and leaves the others.
LEMMA WithoutRemoves ==
  ASSUME NEW q \in Seq(Caller), Distinct(q), NEW t
  PROVE  Distinct(Without(q, t)) /\ Queued(Without(q, t)) = Queued(q) \ {t}
<1>1. CASE ~\E i \in 1 .. Len(q) : q[i] = t
  <2>1. Without(q, t) = q /\ t \notin Queued(q)
    BY <1>1 DEF Without, Queued
  <2> QED
    BY <2>1
<1>2. CASE \E i \in 1 .. Len(q) : q[i] = t
  <2> DEFINE r == Without(q, t)
  <2>1. Len(q) \in Nat
    OBVIOUS
  <2>2. t \in Queued(q)
    BY <1>2 DEF Queued
  <2>3. PICK i \in 1 .. Len(q) :
          /\ q[i] = t /\ Len(r) = Len(q) - 1
          /\ \A j \in 1 .. Len(q) - 1 : r[j] = IF j < i THEN q[j] ELSE q[j + 1]
    BY <2>2, WithoutShape
  <2> HIDE DEF r
  <2>4. Distinct(r)
    <3> SUFFICES ASSUME NEW a \in 1 .. Len(r), NEW b \in 1 .. Len(r), r[a] = r[b]
                 PROVE  a = b
      BY DEF Distinct
    <3> DEFINE at(c) == IF c < i THEN c ELSE c + 1
    <3>1. a \in 1 .. Len(q) - 1 /\ b \in 1 .. Len(q) - 1
      BY <2>3
    <3>2. at(a) \in 1 .. Len(q) /\ at(b) \in 1 .. Len(q)
      BY <2>1, <3>1
    <3>3. q[at(a)] = q[at(b)]
      BY <2>3, <3>1
    <3>4. at(a) = at(b)
      BY <3>2, <3>3 DEF Distinct
    <3> QED
      BY <2>1, <3>1, <3>4
  <2>5. Queued(r) = Queued(q) \ {t}
    <3>1. ASSUME NEW a \in 1 .. Len(r) PROVE r[a] \in Queued(q) \ {t}
      <4>1. /\ a \in 1 .. Len(q) /\ a + 1 \in 1 .. Len(q)
            /\ r[a] = IF a < i THEN q[a] ELSE q[a + 1]
        BY <2>1, <2>3
      <4>2. a < i => q[a] # t
        BY <2>1, <2>3, <4>1 DEF Distinct
      <4>3. ~(a < i) => q[a + 1] # t
        BY <2>1, <2>3, <4>1 DEF Distinct
      <4> QED
        BY <4>1, <4>2, <4>3 DEF Queued
    <3>2. ASSUME NEW a \in 1 .. Len(q), q[a] # t PROVE q[a] \in Queued(r)
      <4>1. CASE a < i
        <5>1. a \in 1 .. Len(r) /\ r[a] = q[a]
          BY <2>1, <2>3, <4>1
        <5> QED
          BY <5>1 DEF Queued
      <4>2. CASE a > i
        <5>1. a - 1 \in 1 .. Len(r) /\ ~(a - 1 < i) /\ (a - 1) + 1 = a
          BY <2>1, <2>3, <4>2
        <5>2. r[a - 1] = q[a]
          BY <2>3, <5>1
        <5> QED
          BY <5>1, <5>2 DEF Queued
      <4> QED
        BY <2>1, <2>3, <3>2, <4>1, <4>2
    <3> QED
      BY <3>1, <3>2 DEF Queued
  <2> QED
    BY <2>4, <2>5 DEF r
<1> QED
  BY <1>1, <1>2

\* A caller that counts itself is busy until it is in the queue.
LEMMA JoinOrderly ==
  ASSUME NEW s \in LockRecord, Orderly(s, {}), NEW k \in Kind, NEW t \in Caller,
         \A j \in Kind : t \notin s.waiting[j]
  PROVE  Orderly(Join(s, k, t), {t})
<1>1. /\ Join(s, k, t).waiting = [s.waiting EXCEPT ![k] = @ \cup {t}]
      /\ Join(s, k, t).woken = s.woken /\ Join(s, k, t).cancelled = s.cancelled
      /\ Join(s, k, t).queue = s.queue
  BY DEF Join, LockRecord
<1>2. s.waiting \in [Kind -> SUBSET Caller]
  BY DEF LockRecord
<1>3. t \notin s.woken
  BY DEF Orderly, Kind
<1> QED
  BY <1>1, <1>2, <1>3 DEF Orderly, Kind

\* Its waiter is appended, and it is busy no more.
LEMMA AppendOrderly ==
  ASSUME NEW s \in LockRecord, NEW k \in Kind, NEW t \in s.waiting[k], Orderly(s, {t})
  PROVE  Orderly(Append1(s, k, t), {})
<1> DEFINE q == s.queue[k]
           r == Append(q, t)
<1>1. /\ Append1(s, k, t).waiting = s.waiting /\ Append1(s, k, t).woken = s.woken
      /\ Append1(s, k, t).cancelled = s.cancelled
      /\ Append1(s, k, t).queue = [s.queue EXCEPT ![k] = r]
  BY DEF Append1, LockRecord
<1>2. s.queue \in [Kind -> Seq(Caller)] /\ q \in Seq(Caller) /\ Len(q) \in Nat
  BY DEF LockRecord
<1>3. Distinct(q) /\ t \notin Queued(q)
  BY DEF Orderly
<1>4. t \in Caller
  BY DEF LockRecord
<1>5. Len(r) = Len(q) + 1 /\ (\A i \in 1 .. Len(q) : r[i] = q[i]) /\ r[Len(q) + 1] = t
  <2> HIDE DEF q
  <2> QED
    BY <1>2, <1>4, AppendProperties
<1> HIDE DEF r
<1>6. Queued(r) = Queued(q) \cup {t}
  <2>1. 1 .. Len(r) = (1 .. Len(q)) \cup {Len(q) + 1}
    BY <1>2, <1>5
  <2> QED
    BY <1>5, <2>1 DEF Queued
<1>7. Distinct(r)
  <2> SUFFICES ASSUME NEW i \in 1 .. Len(r), NEW j \in 1 .. Len(r), r[i] = r[j]
               PROVE  i = j
    BY DEF Distinct
  <2>1. \A l \in 1 .. Len(r) : l = Len(q) + 1 \/ l \in 1 .. Len(q)
    BY <1>2, <1>5
  <2>2. \A l \in 1 .. Len(q) : r[l] = q[l] /\ q[l] # t
    BY <1>3, <1>5 DEF Queued
  <2> QED
    BY <1>3, <1>5, <2>1, <2>2 DEF Distinct
<1> HIDE DEF q
<1>8. \A j \in Kind \ {k} : t \notin s.waiting[j]
  BY DEF Orderly, Kind
<1>9. ASSUME NEW j \in Kind
      PROVE  LET p == [s.queue EXCEPT ![k] = r][j]
             IN  /\ Distinct(p)
                 /\ Queued(p) \subseteq s.waiting[j] \ s.woken
                 /\ s.waiting[j] \ (s.woken \cup s.cancelled) \subseteq Queued(p)
  <2>1. CASE j = k
    BY <1>2, <1>6, <1>7, <2>1 DEF Orderly, q
  <2>2. CASE j # k
    BY <1>2, <1>8, <2>2 DEF Orderly
  <2> QED
    BY <2>1, <2>2
<1> QED
  BY <1>1, <1>9 DEF Orderly

\* A busy caller that is uncounted is a waiter no more.
LEMMA LeaveOrderly ==
  ASSUME NEW s \in LockRecord, NEW k \in Kind, NEW t \in s.waiting[k], Orderly(s, {t})
  PROVE  Orderly(Leave(s, k, t), {})
<1>1. /\ Leave(s, k, t).waiting = [s.waiting EXCEPT ![k] = @ \ {t}]
      /\ Leave(s, k, t).woken = s.woken /\ Leave(s, k, t).cancelled = s.cancelled
      /\ Leave(s, k, t).queue = s.queue
  BY DEF Leave, LockRecord
<1>2. s.waiting \in [Kind -> SUBSET Caller]
  BY DEF LockRecord
<1> QED
  BY <1>1, <1>2 DEF Orderly, Kind

\* A waiter that resumes takes itself out of its queue, if no notify did, and
\* out of the woken (and the cancelled); r is s without these marks.
LEMMA RetakeOrderly ==
  ASSUME NEW s \in LockRecord, NEW k \in Kind, NEW t \in s.waiting[k], Orderly(s, {}),
         NEW r \in LockRecord, r.waiting = s.waiting, r.queue = s.queue,
         r.woken = s.woken \ {t}, s.cancelled \subseteq r.cancelled \cup {t}
  PROVE  /\ Orderly(Discard(r, k, t), {t})
         /\ t \in s.woken => Orderly(r, {t})
<1> DEFINE q == s.queue[k]
           w == Without(q, t)
           d == Discard(r, k, t)
<1>1. /\ d.waiting = s.waiting /\ d.woken = s.woken \ {t}
      /\ d.cancelled = r.cancelled
      /\ d.queue = [s.queue EXCEPT ![k] = w]
  BY DEF Discard, LockRecord
<1>2. s.queue \in [Kind -> Seq(Caller)] /\ q \in Seq(Caller)
  BY DEF LockRecord
<1>3. Distinct(q)
  BY DEF Orderly
<1>4. Distinct(w) /\ Queued(w) = Queued(q) \ {t}
  <2> HIDE DEF q
  <2> QED
    BY <1>2, <1>3, WithoutRemoves
<1>5. \A j \in Kind \ {k} : t \notin s.waiting[j]
  BY DEF Orderly, Kind
<1> HIDE DEF d, w, q
<1>6. ASSUME NEW j \in Kind
      PROVE  /\ Distinct(d.queue[j])
             /\ Queued(d.queue[j]) \subseteq d.waiting[j] \ (d.woken \cup {t})
             /\ d.waiting[j] \ (d.woken \cup d.cancelled \cup {t}) \subseteq Queued(d.queue[j])
  <2>1. CASE j = k
    BY <1>1, <1>2, <1>4, <2>1 DEF Orderly, q
  <2>2. CASE j # k
    BY <1>1, <1>2, <1>5, <2>2 DEF Orderly
  <2> QED
    BY <2>1, <2>2
<1>7. Orderly(d, {t})
  BY <1>1, <1>6 DEF Orderly
<1>8. ASSUME t \in s.woken PROVE Orderly(r, {t})
  BY <1>8 DEF Orderly
<1> QED
  BY <1>7, <1>8 DEF d

-----------------------------------------------------------------------------
(* Waking.                                                                 *)

\* A notify changes nothing that the phase or a guard looks at.
LEMMA OnlyWakesFrame ==
  ASSUME NEW s, NEW u, OnlyWakes(u, s), NEW A, NEW B, A \subseteq B, NEW X
  PROVE  /\ PhaseCounted(s, X) => PhaseCounted(u, X)
         /\ TurnHeld(s) => TurnHeld(u)
         /\ ReadersKept(s, A) => ReadersKept(u, B)
         /\ WritersKept(s, A) => WritersKept(u, B)
<1>1. /\ u.policy = s.policy /\ u.writer = s.writer /\ u.active = s.active
      /\ u.waiting = s.waiting /\ u.turn = s.turn /\ u.pending = s.pending
      /\ u.reserved = s.reserved
  BY DEF OnlyWakes, SameHolds
<1> QED
  BY <1>1 DEF PhaseCounted, TurnHeld, ReadersKept, WritersKept, MayRead, MayWrite

\* One writer is notified: if one waits, one is awake.
LEMMA NotifyWriterKeeps ==
  ASSUME NEW s, NEW D, InOrder(s, D), TurnHeld(s), ReadersKept(s, s.woken \cup D)
  PROVE  Kept(Notify(s, "write", 1), D) /\ SameWaits(Notify(s, "write", 1), s)
<1> DEFINE u == Notify(s, "write", 1)
<1>1. /\ u \in LockRecord /\ OnlyWakes(u, s) /\ Orderly(u, {})
      /\ \/ s.waiting["write"] \subseteq {}
         \/ s.waiting["write"] \cap (u.woken \cup s.cancelled) # {}
  BY NotifyWakes DEF InOrder, Kind
<1> HIDE DEF u
<1>2. SameWaits(u, s) /\ s.woken \cup D \subseteq u.woken \cup D
  BY <1>1 DEF OnlyWakes, SameWaits
<1>3. PhaseCounted(u, {}) /\ TurnHeld(u) /\ ReadersKept(u, u.woken \cup D)
  BY <1>1, <1>2, OnlyWakesFrame DEF InOrder
<1>4. WritersKept(u, u.woken \cup D)
  BY <1>1, <1>2 DEF WritersKept, SameWaits, InOrder
<1> QED
  BY <1>1, <1>2, <1>3, <1>4 DEF Kept, InOrder, SameWaits, u

\* All readers are notified: they are all awake.
LEMMA NotifyReadersWakes ==
  ASSUME NEW s \in LockRecord, NEW busy, Orderly(s, busy)
  PROVE  LET u == NotifyAll(s, "read")
         IN  /\ u \in LockRecord /\ OnlyWakes(u, s) /\ Orderly(u, busy)
             /\ s.waiting["read"] \subseteq u.woken \cup s.cancelled \cup busy
<1> DEFINE n == Len(s.queue["read"])
<1>1. s.queue["read"] \in Seq(Caller) /\ "read" \in Kind
  BY DEF LockRecord, Kind
<1>2. n \in Nat /\ n >= Len(s.queue["read"]) /\ NotifyAll(s, "read") = Notify(s, "read", n)
  BY <1>1 DEF NotifyAll
<1> HIDE DEF n
<1> QED
  BY <1>1, <1>2, NotifyWakes

LEMMA NotifyReadersKeeps ==
  ASSUME NEW s, NEW D, InOrder(s, D), TurnHeld(s), WritersKept(s, s.woken \cup D)
  PROVE  Kept(NotifyAll(s, "read"), D) /\ SameWaits(NotifyAll(s, "read"), s)
<1> DEFINE u == NotifyAll(s, "read")
<1>1. /\ u \in LockRecord /\ OnlyWakes(u, s) /\ Orderly(u, {})
      /\ s.waiting["read"] \subseteq u.woken \cup s.cancelled \cup {}
  BY NotifyReadersWakes DEF InOrder
<1> HIDE DEF u
<1>2. SameWaits(u, s) /\ s.woken \cup D \subseteq u.woken \cup D
  BY <1>1 DEF OnlyWakes, SameWaits
<1>3. PhaseCounted(u, {}) /\ TurnHeld(u) /\ WritersKept(u, u.woken \cup D)
  BY <1>1, <1>2, OnlyWakesFrame DEF InOrder
<1>4. ReadersKept(u, u.woken \cup D)
  BY <1>1, <1>2 DEF ReadersKept, SameWaits, InOrder
<1> QED
  BY <1>1, <1>2, <1>3, <1>4 DEF Kept, InOrder, SameWaits, u

\* A wake of the phase only notifies; with no writer inside it reaches all.
LEMMA PhaseWakeWakes ==
  ASSUME NEW s \in LockRecord, NEW busy, Orderly(s, busy)
  PROVE  LET u == PhaseWake(s)
         IN  /\ u \in LockRecord /\ OnlyWakes(u, s) /\ Orderly(u, busy)
             /\ s.writer = None => s.waiting["read"] \subseteq u.woken \cup s.cancelled \cup busy
<1>1. OnlyWakes(s, s)
  BY DEF OnlyWakes, SameHolds
<1>2. CASE ~WriterActive(s) /\ s.waiting["read"] # {}
  BY <1>2, NotifyReadersWakes DEF PhaseWake
<1>3. CASE ~(~WriterActive(s) /\ s.waiting["read"] # {})
  BY <1>1, <1>3 DEF PhaseWake, WriterActive
<1> QED
  BY <1>2, <1>3

\* In the fair phase the wake is as long as the phase has slots.
LEMMA FairWakeWakes ==
  ASSUME NEW s \in LockRecord, NEW busy, Orderly(s, busy)
  PROVE  LET u == FairWake(s)
         IN  /\ u \in LockRecord /\ OnlyWakes(u, s) /\ Orderly(u, busy)
             /\ s.writer = None /\ s.pending >= Cardinality(s.waiting["read"])
                  => s.waiting["read"] \subseteq u.woken \cup s.cancelled \cup busy
<1> DEFINE c == Cardinality(s.waiting["read"])
           n == Least(c, s.pending)
<1>1. IsFiniteSet(s.waiting["read"]) /\ c \in Nat
  <2>1. s.waiting["read"] \in SUBSET Caller
    BY DEF LockRecord, Kind
  <2> QED
    BY <2>1, CallerAssumption, FS_Subset, FS_CardinalityType
<1>2. s.pending \in Nat /\ s.queue["read"] \in Seq(Caller)
  BY DEF LockRecord, Kind
<1>3. n \in Nat /\ (s.pending >= c => n = c)
  BY <1>1, <1>2 DEF Least
<1>4. Len(s.queue["read"]) <= c
  <2>1. /\ Distinct(s.queue["read"])
        /\ Queued(s.queue["read"]) \in SUBSET s.waiting["read"]
    BY DEF Orderly, Kind
  <2>2. Len(s.queue["read"]) = Cardinality(Queued(s.queue["read"]))
    BY <1>2, <2>1, DistinctLength
  <2>3. Cardinality(Queued(s.queue["read"])) <= c
    BY <1>1, <2>1, FS_Subset
  <2> QED
    BY <2>2, <2>3
<1>5. s.pending >= c => n >= Len(s.queue["read"])
  BY <1>1, <1>2, <1>3, <1>4
<1>6. OnlyWakes(s, s)
  BY DEF OnlyWakes, SameHolds
<1>7. CASE WriterActive(s)
  BY <1>6, <1>7 DEF FairWake, WriterActive
<1>8. CASE ~WriterActive(s)
  <2>1. FairWake(s) = Notify(s, "read", n)
    BY <1>8 DEF FairWake
  <2> HIDE DEF n
  <2> QED
    BY <1>3, <1>5, <2>1, NotifyWakes DEF Kind
<1> QED
  BY <1>7, <1>8

\* An empty queue: all its waiters have been popped.
LEMMA NobodyQueued ==
  ASSUME NEW s \in LockRecord, NEW k \in Kind, NEW D, InOrder(s, D), ~HasWaiters(s, k)
  PROVE  s.waiting[k] \subseteq s.woken \cup D
<1>1. Queued(s.queue[k]) = {}
  BY DEF HasWaiters, Queued
<1> QED
  BY <1>1 DEF InOrder, Orderly

-----------------------------------------------------------------------------
(* The readers' phase.                                                     *)

\* Who holds, and the phase's attributes, do not matter to the queues.
LEMMA OrderlyFrame ==
  ASSUME NEW s, NEW u, NEW busy, Orderly(s, busy),
         u.waiting = s.waiting, u.cancelled = s.cancelled,
         u.woken = s.woken, u.queue = s.queue
  PROVE  Orderly(u, busy)
BY DEF Orderly

\* The readers' turn starts, with a reader in or about to be.
LEMMA PhaseStartKeeps ==
  ASSUME NEW s, NEW D, InOrder(s, D), s.policy = "phase",
         s.active > 0 \/ s.waiting["read"] # {}
  PROVE  Kept(PhaseStart(s), D) /\ SameWaits(PhaseStart(s), s)
<1> DEFINE b == [s EXCEPT !.turn = TRUE]
           u == PhaseStart(s)
<1>1. /\ b \in LockRecord /\ b.policy = "phase" /\ b.turn /\ b.writer = s.writer
      /\ b.active = s.active /\ b.waiting = s.waiting /\ b.cancelled = s.cancelled
      /\ b.woken = s.woken /\ b.queue = s.queue
      /\ b.pending = s.pending /\ b.reserved = s.reserved
  BY DEF InOrder, LockRecord
<1>2. u = PhaseWake(b)
  BY DEF PhaseStart
<1> HIDE DEF b, u
<1>3. Orderly(b, {})
  BY <1>1, OrderlyFrame DEF InOrder
<1>4. PhaseCounted(b, {}) /\ TurnHeld(b)
  BY <1>1 DEF PhaseCounted, TurnHeld, InOrder
<1>5. /\ u \in LockRecord /\ OnlyWakes(u, b) /\ Orderly(u, {})
      /\ b.writer = None => b.waiting["read"] \subseteq u.woken \cup b.cancelled \cup {}
  BY <1>1, <1>2, <1>3, PhaseWakeWakes
<1>6. PhaseCounted(u, {}) /\ TurnHeld(u)
  BY <1>4, <1>5, OnlyWakesFrame
<1>7. /\ u.policy = "phase" /\ u.turn /\ u.writer = s.writer /\ u.active = s.active
      /\ u.waiting = s.waiting /\ u.cancelled = s.cancelled
  BY <1>1, <1>5 DEF OnlyWakes, SameHolds
<1>8. ReadersKept(u, u.woken \cup D)
  BY <1>1, <1>5, <1>7 DEF ReadersKept, MayRead, InOrder
<1>9. ~MayWrite(u)
  BY <1>7 DEF MayWrite, InOrder, LockRecord
<1> QED
  BY <1>5, <1>6, <1>7, <1>8, <1>9 DEF Kept, InOrder, SameWaits, WritersKept, u

\* The last reader is out: the turn goes on for those who wait for it, or ends.
LEMMA PhaseFinishKeeps ==
  ASSUME NEW s, NEW D, InOrder(s, D), s.policy = "phase",
         ReadersKept(s, s.woken \cup D)
  PROVE  /\ Kept(PhaseFinishOrContinue(s), D)
         /\ SameWaits(PhaseFinishOrContinue(s), s)
<1>1. CASE s.turn /\ s.waiting["read"] # {}
  <2> DEFINE u == PhaseWake(s)
  <2>1. PhaseFinishOrContinue(s) = u
    BY <1>1 DEF PhaseFinishOrContinue
  <2>2. u \in LockRecord /\ OnlyWakes(u, s) /\ Orderly(u, {})
    BY PhaseWakeWakes DEF InOrder
  <2> HIDE DEF u
  <2>3. TurnHeld(s) /\ ~MayWrite(s)
    BY <1>1 DEF TurnHeld, MayWrite
  <2>4. WritersKept(s, s.woken \cup D)
    BY <2>3 DEF WritersKept
  <2>5. SameWaits(u, s) /\ s.woken \cup D \subseteq u.woken \cup D
    BY <2>2 DEF OnlyWakes, SameWaits
  <2>6. /\ PhaseCounted(u, {}) /\ TurnHeld(u)
        /\ ReadersKept(u, u.woken \cup D) /\ WritersKept(u, u.woken \cup D)
    BY <2>2, <2>3, <2>4, <2>5, OnlyWakesFrame DEF InOrder
  <2> QED
    BY <2>1, <2>2, <2>5, <2>6 DEF Kept, InOrder, SameWaits
<1>2. CASE ~(s.turn /\ s.waiting["read"] # {})
  <2> DEFINE b == [s EXCEPT !.turn = FALSE]
  <2>1. /\ b \in LockRecord /\ b.policy = "phase" /\ ~b.turn /\ b.writer = s.writer
        /\ b.active = s.active /\ b.waiting = s.waiting /\ b.cancelled = s.cancelled
        /\ b.woken = s.woken /\ b.queue = s.queue
        /\ b.pending = s.pending /\ b.reserved = s.reserved
    BY DEF InOrder, LockRecord
  <2>2. PhaseFinishOrContinue(s) = IF b.waiting["write"] # {} THEN Notify(b, "write", 1) ELSE b
    BY <1>2 DEF PhaseFinishOrContinue
  <2> HIDE DEF b
  <2>3. InOrder(b, D) /\ TurnHeld(b)
    BY <2>1, OrderlyFrame DEF InOrder, PhaseCounted, TurnHeld
  <2>4. ReadersKept(b, b.woken \cup D)
    BY <2>1 DEF ReadersKept, MayRead
  <2>5. CASE b.waiting["write"] # {}
    BY <2>1, <2>2, <2>3, <2>4, <2>5, NotifyWriterKeeps DEF SameWaits
  <2>6. CASE b.waiting["write"] = {}
    BY <2>1, <2>2, <2>3, <2>4, <2>6 DEF Kept, WritersKept, SameWaits
  <2> QED
    BY <2>5, <2>6
<1> QED
  BY <1>1, <1>2

\* The fair phase starts, for those who wait now.
LEMMA FairStartKeeps ==
  ASSUME NEW s, NEW D, InOrder(s, D), s.policy = "fair",
         s.active > 0 \/ s.waiting["read"] # {}
  PROVE  Kept(FairStart(s), D) /\ SameWaits(FairStart(s), s)
<1> DEFINE b == [s EXCEPT !.turn     = s.waiting["read"] # {},
                          !.pending  = Cardinality(s.waiting["read"]),
                          !.reserved = s.waiting["read"]]
           u == FairStart(s)
<1>1. s.waiting["read"] \in SUBSET Caller /\ IsFiniteSet(s.waiting["read"])
      /\ Cardinality(s.waiting["read"]) \in Nat
      /\ (Cardinality(s.waiting["read"]) > 0 <=> s.waiting["read"] # {})
  <2>1. s.waiting["read"] \in SUBSET Caller
    BY DEF InOrder, LockRecord, Kind
  <2> QED
    BY <2>1, CallerAssumption, FS_Subset, FS_CardinalityType, FS_EmptySet
<1>2. /\ b \in LockRecord /\ b.policy = "fair" /\ b.writer = s.writer
      /\ b.turn = (s.waiting["read"] # {})
      /\ b.active = s.active /\ b.waiting = s.waiting /\ b.cancelled = s.cancelled
      /\ b.woken = s.woken /\ b.queue = s.queue
      /\ b.pending = Cardinality(s.waiting["read"]) /\ b.reserved = s.waiting["read"]
  BY <1>1 DEF InOrder, LockRecord
<1>3. u = IF b.turn THEN FairWake(b) ELSE b
  BY DEF FairStart
<1> HIDE DEF b, u
<1>4. Orderly(b, {}) /\ PhaseCounted(b, {}) /\ TurnHeld(b)
  BY <1>1, <1>2, OrderlyFrame DEF InOrder, PhaseCounted, TurnHeld
<1>5. /\ u \in LockRecord /\ OnlyWakes(u, b) /\ Orderly(u, {})
      /\ b.writer = None => b.waiting["read"] \subseteq u.woken \cup b.cancelled \cup {}
  <2>1. CASE b.turn
    <3>1. b.pending >= Cardinality(b.waiting["read"])
      BY <1>1, <1>2
    <3> QED
      BY <1>2, <1>3, <1>4, <2>1, <3>1, FairWakeWakes
  <2>2. CASE ~b.turn
    BY <1>2, <1>3, <1>4, <2>2 DEF OnlyWakes, SameHolds
  <2> QED
    BY <2>1, <2>2
<1>6. PhaseCounted(u, {}) /\ TurnHeld(u)
  BY <1>4, <1>5, OnlyWakesFrame
<1>7. /\ u.policy = "fair" /\ u.writer = s.writer /\ u.active = s.active
      /\ u.turn = (s.waiting["read"] # {}) /\ u.pending = Cardinality(s.waiting["read"])
      /\ u.waiting = s.waiting /\ u.cancelled = s.cancelled
  BY <1>2, <1>5 DEF OnlyWakes, SameHolds
<1>8. ReadersKept(u, u.woken \cup D)
  BY <1>2, <1>5, <1>7 DEF ReadersKept, MayRead, InOrder
<1>9. ~MayWrite(u)
  <2>1. CASE s.active > 0
    BY <1>7, <2>1 DEF MayWrite
  <2>2. CASE s.waiting["read"] # {}
    <3>1. u.turn /\ u.pending > 0
      BY <1>1, <1>7, <2>2
    <3> QED
      BY <1>7, <3>1 DEF MayWrite
  <2> QED
    BY <2>1, <2>2
<1> QED
  BY <1>5, <1>6, <1>7, <1>8, <1>9 DEF Kept, InOrder, SameWaits, WritersKept, u

\* A phase with slots left has a reader that waits for one.
LEMMA SlotsPending ==
  ASSUME NEW s \in LockRecord, NEW X, PhaseCounted(s, X)
  PROVE  IsFiniteSet(s.reserved) /\ (s.pending > 0 <=> s.reserved # {})
<1>1. s.reserved \in SUBSET Caller
  BY DEF LockRecord
<1>2. IsFiniteSet(s.reserved) /\ Cardinality(s.reserved) \in Nat
      /\ (Cardinality(s.reserved) = 0 <=> s.reserved = {})
  BY <1>1, CallerAssumption, FS_Subset, FS_CardinalityType, FS_EmptySet
<1> QED
  BY <1>2 DEF PhaseCounted

LEMMA FairFinishKeeps ==
  ASSUME NEW s, NEW D, InOrder(s, D), s.policy = "fair",
         ReadersKept(s, s.woken \cup D)
  PROVE  /\ Kept(FairFinishOrContinue(s), D)
         /\ SameWaits(FairFinishOrContinue(s), s)
<1>1. CASE s.turn /\ s.pending > 0
  <2> DEFINE u == FairWake(s)
  <2>1. FairFinishOrContinue(s) = u
    BY <1>1 DEF FairFinishOrContinue
  <2>2. u \in LockRecord /\ OnlyWakes(u, s) /\ Orderly(u, {})
    BY FairWakeWakes DEF InOrder
  <2> HIDE DEF u
  <2>3. TurnHeld(s) /\ ~MayWrite(s)
    BY <1>1, SlotsPending DEF TurnHeld, MayWrite, InOrder, PhaseCounted
  <2>4. WritersKept(s, s.woken \cup D)
    BY <2>3 DEF WritersKept
  <2>5. SameWaits(u, s) /\ s.woken \cup D \subseteq u.woken \cup D
    BY <2>2 DEF OnlyWakes, SameWaits
  <2>6. /\ PhaseCounted(u, {}) /\ TurnHeld(u)
        /\ ReadersKept(u, u.woken \cup D) /\ WritersKept(u, u.woken \cup D)
    BY <2>2, <2>3, <2>4, <2>5, OnlyWakesFrame DEF InOrder
  <2> QED
    BY <2>1, <2>2, <2>5, <2>6 DEF Kept, InOrder, SameWaits
<1>2. CASE ~(s.turn /\ s.pending > 0)
  <2> DEFINE b == [s EXCEPT !.turn = FALSE, !.pending = 0, !.reserved = {}]
  <2>1. /\ b \in LockRecord /\ b.policy = "fair" /\ ~b.turn /\ b.writer = s.writer
        /\ b.active = s.active /\ b.waiting = s.waiting /\ b.cancelled = s.cancelled
        /\ b.woken = s.woken /\ b.queue = s.queue
        /\ b.pending = 0 /\ b.reserved = {}
    BY DEF InOrder, LockRecord
  <2>2. FairFinishOrContinue(s) = IF b.waiting["write"] # {} THEN Notify(b, "write", 1) ELSE b
    BY <1>2 DEF FairFinishOrContinue
  <2> HIDE DEF b
  <2>3. InOrder(b, D) /\ TurnHeld(b)
    BY <2>1, OrderlyFrame, FS_EmptySet DEF InOrder, PhaseCounted, TurnHeld
  <2>4. ReadersKept(b, b.woken \cup D)
    BY <2>1 DEF ReadersKept, MayRead
  <2>5. CASE b.waiting["write"] # {}
    BY <2>1, <2>2, <2>3, <2>4, <2>5, NotifyWriterKeeps DEF SameWaits
  <2>6. CASE b.waiting["write"] = {}
    BY <2>1, <2>2, <2>3, <2>4, <2>6 DEF Kept, WritersKept, SameWaits
  <2> QED
    BY <2>5, <2>6
<1> QED
  BY <1>1, <1>2

\* A reader's wait is over: its slot goes with it.
LEMMA ConsumeSlotCounts ==
  ASSUME NEW s \in LockRecord, NEW t \in Caller, PhaseCounted(s, {t})
  PROVE  LET u == ConsumeSlot(s, t)
         IN  /\ u \in LockRecord
             /\ SameHolds(u, s) /\ SameWaits(u, s) /\ u.woken = s.woken
             /\ u.queue = s.queue /\ u.turn = s.turn
             /\ u.reserved = s.reserved \ {t}
             /\ s.policy = "fair" => PhaseCounted(u, {})
<1> DEFINE u == ConsumeSlot(s, t)
<1>1. u \in LockRecord /\ SameHolds(u, s)
  BY FairFrame
<1>2. /\ u.turn = s.turn /\ u.woken = s.woken /\ u.queue = s.queue
      /\ u.waiting = s.waiting /\ u.cancelled = s.cancelled
      /\ u.reserved = s.reserved \ {t}
      /\ u.pending = IF IsReserved(s, t) THEN s.pending - 1 ELSE s.pending
  BY DEF ConsumeSlot, LockRecord
<1> HIDE DEF u
<1>3. IsFiniteSet(s.reserved) /\ (s.pending > 0 <=> s.reserved # {})
  BY SlotsPending
<1>4. IsReserved(s, t) <=> t \in s.reserved
  BY <1>3 DEF IsReserved, PhaseCounted
<1>5. u.pending = Cardinality(u.reserved)
  <2>1. Cardinality(s.reserved \ {t}) = IF t \in s.reserved THEN Cardinality(s.reserved) - 1
                                        ELSE Cardinality(s.reserved)
    BY <1>3, FS_RemoveElement
  <2> QED
    BY <1>2, <1>4, <2>1 DEF PhaseCounted
<1>6. s.policy = "fair" => PhaseCounted(u, {})
  BY <1>1, <1>2, <1>5 DEF PhaseCounted, SameHolds
<1> QED
  BY <1>1, <1>2, <1>6 DEF SameWaits, u

-----------------------------------------------------------------------------
(* The core operations.                                                    *)

\* What _acquire_read_core leaves: a reader more, and its slot consumed.
ReaderIn(u, s, t, busy, D) ==
  /\ u \in LockRecord
  /\ Orderly(u, busy)
  /\ PhaseCounted(u, {})
  /\ t \notin u.reserved
  /\ u.active > 0
  /\ SameWaits(u, s)
  /\ ReadersKept(u, u.woken \cup D \cup busy)

\* A wake after it changes nothing of that.
LEMMA ReaderInWakes ==
  ASSUME NEW s, NEW t, NEW busy, NEW D, NEW b, ReaderIn(b, s, t, busy, D),
         NEW u \in LockRecord, OnlyWakes(u, b), Orderly(u, busy)
  PROVE  ReaderIn(u, s, t, busy, D)
<1>1. /\ u.reserved = b.reserved /\ u.active = b.active /\ u.waiting = b.waiting
      /\ u.cancelled = b.cancelled /\ b.woken \subseteq u.woken
  BY DEF OnlyWakes, SameHolds
<1>2. PhaseCounted(b, {}) /\ ReadersKept(b, b.woken \cup D \cup busy)
  BY DEF ReaderIn
<1>3. PhaseCounted(u, {}) /\ ReadersKept(u, u.woken \cup D \cup busy)
  <2> DEFINE A == b.woken \cup D \cup busy
             B == u.woken \cup D \cup busy
  <2>1. A \subseteq B
    BY <1>1
  <2> HIDE DEF A, B
  <2>2. /\ PhaseCounted(b, {}) => PhaseCounted(u, {})
        /\ ReadersKept(b, A) => ReadersKept(u, B)
    BY <2>1, OnlyWakesFrame
  <2> QED
    BY <1>2, <2>2 DEF A, B
<1> QED
  BY <1>1, <1>3 DEF ReaderIn, SameWaits

\* A reader is let in.
LEMMA AcquireReadKeeps ==
  ASSUME NEW s \in LockRecord, NEW t \in Caller, NEW busy, NEW D,
         Orderly(s, busy), PhaseCounted(s, {}),
         ReadersKept(s, s.woken \cup D \cup busy)
  PROVE  ReaderIn(AcquireReadCore(s, t), s, t, busy, D)
<1>1. ASSUME NEW b \in LockRecord, SameHolds(b, s), SameWaits(b, s),
             b.woken = s.woken, b.queue = s.queue, b.turn = s.turn,
             b.reserved \subseteq s.reserved, t \notin b.reserved, PhaseCounted(b, {})
      PROVE  ReaderIn(AddReader(b, t), s, t, busy, D)
  <2> DEFINE u == AddReader(b, t)
  <2>1. /\ u.policy = s.policy /\ u.writer = s.writer /\ u.active = s.active + 1
        /\ u.waiting = s.waiting /\ u.cancelled = s.cancelled /\ u.woken = s.woken
        /\ u.queue = s.queue /\ u.turn = s.turn /\ u.reserved = b.reserved
        /\ u.pending = b.pending
    BY <1>1 DEF AddReader, SameHolds, SameWaits, LockRecord
  <2>2. u \in LockRecord
    BY ReaderType
  <2> HIDE DEF u
  <2>3. s.active \in Nat
    BY DEF LockRecord
  <2>4. Orderly(u, busy)
    BY <2>1, OrderlyFrame
  <2>5. PhaseCounted(u, {})
    BY <1>1, <2>1 DEF PhaseCounted, SameHolds, SameWaits
  <2>6. ReadersKept(u, u.woken \cup D \cup busy)
    BY <1>1, <2>1 DEF ReadersKept, MayRead
  <2> QED
    BY <1>1, <2>1, <2>2, <2>3, <2>4, <2>5, <2>6 DEF ReaderIn, SameWaits, u
<1>2. CASE s.policy # "fair"
  <2> DEFINE u == AddReader(s, t)
  <2>1. ReaderIn(u, s, t, busy, D)
    BY <1>1, <1>2 DEF PhaseCounted, SameHolds, SameWaits
  <2>2. ReaderIn(PhaseWake(u), s, t, busy, D)
    <3> HIDE DEF u
    <3>1. u \in LockRecord /\ Orderly(u, busy)
      BY <2>1 DEF ReaderIn
    <3>2. PhaseWake(u) \in LockRecord /\ OnlyWakes(PhaseWake(u), u) /\ Orderly(PhaseWake(u), busy)
      BY <3>1, PhaseWakeWakes
    <3> QED
      BY <2>1, <3>2, ReaderInWakes
  <2>3. AcquireReadCore(s, t) \in {u, PhaseWake(u)}
    BY <1>2 DEF AcquireReadCore, WPrefAcquireRead, RPrefAcquireRead, PhaseAcquireRead, LockRecord, Policy
  <2> QED
    BY <2>1, <2>2, <2>3
<1>3. CASE s.policy = "fair"
  <2> DEFINE c == ConsumeSlot(s, t)
             u == AddReader(c, t)
  <2>1. PhaseCounted(s, {t})
    BY DEF PhaseCounted
  <2>2. /\ c \in LockRecord /\ SameHolds(c, s) /\ SameWaits(c, s)
        /\ c.woken = s.woken /\ c.queue = s.queue /\ c.turn = s.turn
        /\ c.reserved = s.reserved \ {t} /\ PhaseCounted(c, {})
    BY <1>3, <2>1, ConsumeSlotCounts
  <2>3. ReaderIn(u, s, t, busy, D)
    <3> HIDE DEF c
    <3> QED
      BY <1>1, <2>2
  <2>4. ReaderIn(FairWake(u), s, t, busy, D)
    <3> HIDE DEF u
    <3>1. u \in LockRecord /\ Orderly(u, busy)
      BY <2>3 DEF ReaderIn
    <3>2. FairWake(u) \in LockRecord /\ OnlyWakes(FairWake(u), u) /\ Orderly(FairWake(u), busy)
      BY <3>1, FairWakeWakes
    <3> QED
      BY <2>3, <3>2, ReaderInWakes
  <2>5. AcquireReadCore(s, t) \in {u, FairWake(u)}
    BY <1>3 DEF AcquireReadCore, FairAcquireRead
  <2> QED
    BY <2>3, <2>4, <2>5
<1> QED
  BY <1>2, <1>3

\* A reader leaves the lock.
LEMMA ReleaseReadKeeps ==
  ASSUME NEW s, NEW t \in Caller, NEW D, Kept(s, D), s.active > 0, s.owners[t] > 0
  PROVE  /\ Kept(ReleaseReadCore(s, t), D)
         /\ SameWaits(ReleaseReadCore(s, t), s)
<1> DEFINE b == DropReader(s, t)
           u == ReleaseReadCore(s, t)
<1>1. b \in LockRecord
  BY ReaderType DEF Kept, InOrder
<1>2. /\ b.policy = s.policy /\ b.writer = s.writer /\ b.active = s.active - 1
      /\ b.waiting = s.waiting /\ b.cancelled = s.cancelled /\ b.woken = s.woken
      /\ b.queue = s.queue /\ b.turn = s.turn /\ b.reserved = s.reserved
      /\ b.pending = s.pending
  BY DEF DropReader, Kept, InOrder, LockRecord
<1>3. /\ s.policy = "write" => u = IF b.active = 0 THEN Notify(b, "write", 1) ELSE b
      /\ s.policy = "read" => u = IF b.active = 0 THEN Notify(b, "write", 1) ELSE b
      /\ s.policy = "phase" => u = IF b.active = 0 THEN PhaseFinishOrContinue(b) ELSE b
      /\ s.policy = "fair" => u = IF b.active = 0 THEN FairFinishOrContinue(b) ELSE b
      /\ s.policy \in Policy
  BY DEF ReleaseReadCore, WPrefReleaseRead, RPrefReleaseRead, PhaseReleaseRead,
         FairReleaseRead, Kept, InOrder, LockRecord
<1> HIDE DEF b, u
<1>4. InOrder(b, D)
  BY <1>1, <1>2, OrderlyFrame DEF Kept, InOrder, PhaseCounted
<1>5. ReadersKept(b, b.woken \cup D)
  BY <1>2 DEF Kept, ReadersKept, MayRead
<1>6. CASE b.active # 0
  <2>1. b.active > 0 /\ u = b
    BY <1>1, <1>3, <1>6 DEF LockRecord, Policy
  <2>2. TurnHeld(b) /\ WritersKept(b, b.woken \cup D)
    BY <2>1 DEF TurnHeld, WritersKept, MayWrite
  <2> QED
    BY <1>2, <1>4, <1>5, <2>1, <2>2 DEF Kept, SameWaits, u
<1>7. CASE b.active = 0
  <2>1. CASE s.policy \in {"write", "read"}
    <3>1. u = Notify(b, "write", 1)
      BY <1>3, <1>7, <2>1
    <3>2. TurnHeld(b)
      BY <1>2, <1>4, <2>1 DEF TurnHeld, InOrder, PhaseCounted
    <3> QED
      BY <1>2, <1>4, <1>5, <3>1, <3>2, NotifyWriterKeeps DEF SameWaits, u
  <2>2. CASE s.policy = "phase"
    BY <1>2, <1>3, <1>4, <1>5, <1>7, <2>2, PhaseFinishKeeps DEF SameWaits, u
  <2>3. CASE s.policy = "fair"
    BY <1>2, <1>3, <1>4, <1>5, <1>7, <2>3, FairFinishKeeps DEF SameWaits, u
  <2> QED
    BY <1>3, <2>1, <2>2, <2>3 DEF Policy
<1> QED
  BY <1>6, <1>7

\* A reader gives up: s is the lock without its wait, and perhaps with its slot.
LEMMA ReaderAbortKeeps ==
  ASSUME NEW s \in LockRecord, NEW t \in Caller, NEW D,
         Orderly(s, {}), PhaseCounted(s, {t}), s.cancelled \subseteq D,
         ReadersKept(s, s.woken \cup D),
         s.turn \/ s.policy = "read" \/ WritersKept(s, s.woken \cup D)
  PROVE  Kept(OnReaderAbort(s, t), D) /\ SameWaits(OnReaderAbort(s, t), s)
<1> DEFINE u == OnReaderAbort(s, t)
<1>1. s.policy # "fair" => InOrder(s, D)
  BY DEF InOrder, PhaseCounted
<1>2. CASE s.policy = "write"
  <2>1. u = s /\ ~s.turn
    BY <1>2 DEF OnReaderAbort, WPrefOnReaderAbort, PhaseCounted
  <2> QED
    BY <1>1, <1>2, <2>1 DEF Kept, TurnHeld, SameWaits
<1>3. CASE s.policy = "read"
  <2>1. /\ u = IF s.waiting["read"] = {} /\ s.active = 0 THEN Notify(s, "write", 1) ELSE s
        /\ ~s.turn
    BY <1>3 DEF OnReaderAbort, RPrefOnReaderAbort, PhaseCounted
  <2> HIDE DEF u
  <2>2. TurnHeld(s)
    BY <2>1 DEF TurnHeld
  <2>3. CASE s.waiting["read"] = {} /\ s.active = 0
    BY <1>1, <1>3, <2>1, <2>2, <2>3, NotifyWriterKeeps DEF u
  <2>4. CASE ~(s.waiting["read"] = {} /\ s.active = 0)
    <3>1. WritersKept(s, s.woken \cup D)
      BY <1>3, <2>4 DEF WritersKept, MayWrite
    <3> QED
      BY <1>1, <1>3, <2>1, <2>2, <2>4, <3>1 DEF Kept, SameWaits, u
  <2> QED
    BY <2>3, <2>4
<1>4. CASE s.policy = "phase"
  <2>1. u = IF s.turn /\ s.active = 0 THEN PhaseFinishOrContinue(s) ELSE s
    BY <1>4 DEF OnReaderAbort, PhaseOnReaderAbort
  <2> HIDE DEF u
  <2>2. CASE s.turn /\ s.active = 0
    BY <1>1, <1>4, <2>1, <2>2, PhaseFinishKeeps DEF u
  <2>3. CASE ~(s.turn /\ s.active = 0)
    <3>1. s.active \in Nat
      BY DEF LockRecord
    <3>2. TurnHeld(s) /\ WritersKept(s, s.woken \cup D)
      BY <1>4, <2>3, <3>1 DEF TurnHeld, WritersKept, MayWrite
    <3> QED
      BY <1>1, <1>4, <2>1, <2>3, <3>2 DEF Kept, SameWaits, u
  <2> QED
    BY <2>2, <2>3
<1>5. CASE s.policy = "fair"
  <2> DEFINE c == ConsumeSlot(s, t)
  <2>1. /\ c \in LockRecord /\ SameHolds(c, s) /\ SameWaits(c, s)
        /\ c.woken = s.woken /\ c.queue = s.queue /\ c.turn = s.turn
        /\ c.reserved = s.reserved \ {t} /\ PhaseCounted(c, {})
    BY <1>5, ConsumeSlotCounts
  <2>2. u = IF c.turn /\ c.pending > 0
            THEN FairWake(c)
            ELSE IF c.turn /\ c.active = 0 THEN FairFinishOrContinue(c) ELSE c
    BY <1>5 DEF OnReaderAbort, FairOnReaderAbort
  <2> HIDE DEF c, u
  <2>3. InOrder(c, D) /\ c.policy = "fair"
    BY <1>5, <2>1, OrderlyFrame DEF InOrder, SameWaits, SameHolds
  <2>4. ReadersKept(c, c.woken \cup D)
    BY <2>1 DEF ReadersKept, MayRead, SameHolds, SameWaits
  <2>5. CASE c.turn /\ c.pending > 0
    <3>1. u \in LockRecord /\ OnlyWakes(u, c) /\ Orderly(u, {})
      BY <2>1, <2>2, <2>3, <2>5, FairWakeWakes DEF InOrder
    <3>2. TurnHeld(c) /\ ~MayWrite(c)
      BY <2>1, <2>3, <2>5, SlotsPending DEF TurnHeld, MayWrite, InOrder, PhaseCounted
    <3>3. WritersKept(c, c.woken \cup D)
      BY <3>2 DEF WritersKept
    <3>4. SameWaits(u, c) /\ c.woken \cup D \subseteq u.woken \cup D
      BY <3>1 DEF OnlyWakes, SameWaits
    <3>5. /\ PhaseCounted(u, {}) /\ TurnHeld(u)
          /\ ReadersKept(u, u.woken \cup D) /\ WritersKept(u, u.woken \cup D)
      BY <2>1, <2>4, <3>1, <3>2, <3>3, <3>4, OnlyWakesFrame
    <3> QED
      BY <2>1, <2>3, <3>1, <3>4, <3>5 DEF Kept, InOrder, SameWaits, u
  <2>6. CASE ~(c.turn /\ c.pending > 0) /\ c.turn /\ c.active = 0
    BY <2>1, <2>2, <2>3, <2>4, <2>6, FairFinishKeeps DEF SameWaits, u
  <2>7. CASE ~(c.turn /\ c.pending > 0) /\ ~(c.turn /\ c.active = 0)
    <3>1. c.active \in Nat /\ u = c
      BY <2>1, <2>2, <2>7 DEF LockRecord
    <3>2. TurnHeld(c)
      BY <2>7, <3>1 DEF TurnHeld
    <3>3. WritersKept(c, c.woken \cup D)
      BY <1>5, <2>1, <2>7, <3>1 DEF WritersKept, MayWrite, SameHolds, SameWaits
    <3> QED
      BY <2>1, <2>3, <2>4, <3>1, <3>2, <3>3 DEF Kept, SameWaits, u
  <2> QED
    BY <2>5, <2>6, <2>7
<1> HIDE DEF u
<1> QED
  BY <1>2, <1>3, <1>4, <1>5 DEF LockRecord, Policy, u

\* A writer leaves the lock, or gives up waiting for it.
LEMMA WriterAbortKeeps ==
  ASSUME NEW s, NEW D, InOrder(s, D), TurnHeld(s)
  PROVE  Kept(OnWriterAbort(s), D) /\ SameWaits(OnWriterAbort(s), s)
<1> DEFINE u == OnWriterAbort(s)
<1>1. "read" \in Kind /\ "write" \in Kind /\ s \in LockRecord /\ s.policy \in Policy
  BY DEF Kind, InOrder, LockRecord
<1>2. ASSUME s.waiting["read"] = {} \/ ~HasWaiters(s, "read")
      PROVE  Kept(Notify(s, "write", 1), D) /\ SameWaits(Notify(s, "write", 1), s)
  <2>1. s.waiting["read"] \subseteq s.woken \cup D
    BY <1>1, <1>2, NobodyQueued
  <2>2. ReadersKept(s, s.woken \cup D)
    BY <2>1 DEF ReadersKept
  <2> QED
    BY <2>2, NotifyWriterKeeps
<1>3. CASE s.policy = "write"
  <2>1. u = IF s.waiting["write"] # {} /\ HasWaiters(s, "write")
            THEN Notify(s, "write", 1)
            ELSE NotifyAll(s, "read")
    BY <1>3 DEF OnWriterAbort, WPrefOnWriterAbort
  <2> HIDE DEF u
  <2>2. CASE s.waiting["write"] # {} /\ HasWaiters(s, "write")
    <3>1. ReadersKept(s, s.woken \cup D)
      BY <1>3, <2>2 DEF ReadersKept, MayRead
    <3> QED
      BY <2>1, <2>2, <3>1, NotifyWriterKeeps DEF u
  <2>3. CASE ~(s.waiting["write"] # {} /\ HasWaiters(s, "write"))
    <3>1. s.waiting["write"] \subseteq s.woken \cup D
      BY <1>1, <2>3, NobodyQueued
    <3>2. WritersKept(s, s.woken \cup D)
      BY <3>1 DEF WritersKept
    <3> QED
      BY <2>1, <2>3, <3>2, NotifyReadersKeeps DEF u
  <2> QED
    BY <2>2, <2>3
<1>4. CASE s.policy = "read"
  <2>1. u = IF s.waiting["read"] # {} /\ HasWaiters(s, "read")
            THEN NotifyAll(s, "read")
            ELSE Notify(s, "write", 1)
    BY <1>4 DEF OnWriterAbort, RPrefOnWriterAbort
  <2> HIDE DEF u
  <2>2. CASE s.waiting["read"] # {} /\ HasWaiters(s, "read")
    <3>1. WritersKept(s, s.woken \cup D)
      BY <1>4, <2>2 DEF WritersKept, MayWrite
    <3> QED
      BY <2>1, <2>2, <3>1, NotifyReadersKeeps DEF u
  <2>3. CASE ~(s.waiting["read"] # {} /\ HasWaiters(s, "read"))
    BY <1>2, <2>1, <2>3 DEF u
  <2> QED
    BY <2>2, <2>3
<1>5. CASE s.policy = "phase"
  <2>1. u = IF s.waiting["read"] # {} /\ HasWaiters(s, "read")
            THEN PhaseStart(s)
            ELSE Notify(s, "write", 1)
    BY <1>5 DEF OnWriterAbort, PhaseOnWriterAbort
  <2> HIDE DEF u
  <2>2. CASE s.waiting["read"] # {} /\ HasWaiters(s, "read")
    BY <1>5, <2>1, <2>2, PhaseStartKeeps DEF u
  <2>3. CASE ~(s.waiting["read"] # {} /\ HasWaiters(s, "read"))
    BY <1>2, <2>1, <2>3 DEF u
  <2> QED
    BY <2>2, <2>3
<1>6. CASE s.policy = "fair"
  <2>1. u = IF s.waiting["read"] # {} /\ HasWaiters(s, "read")
            THEN FairStart(s)
            ELSE Notify(s, "write", 1)
    BY <1>6 DEF OnWriterAbort, FairOnWriterAbort
  <2> HIDE DEF u
  <2>2. CASE s.waiting["read"] # {} /\ HasWaiters(s, "read")
    BY <1>6, <2>1, <2>2, FairStartKeeps DEF u
  <2>3. CASE ~(s.waiting["read"] # {} /\ HasWaiters(s, "read"))
    BY <1>2, <2>1, <2>3 DEF u
  <2> QED
    BY <2>2, <2>3
<1> HIDE DEF u
<1> QED
  BY <1>1, <1>3, <1>4, <1>5, <1>6 DEF Policy, u

\* The release of a write hold, nested or not.
LEMMA ReleaseWriteKeeps ==
  ASSUME NEW s, NEW D, Kept(s, D), s.writer # None
  PROVE  Kept(ReleaseWriteCore(s), D) /\ SameWaits(ReleaseWriteCore(s), s)
<1>1. CASE s.reentrant /\ s.depth > 1
  <2> DEFINE n == s.depth - 1
             b == [s EXCEPT !.depth = n]
  <2>1. n \in Nat
    BY <1>1 DEF Kept, InOrder, LockRecord
  <2>2. ReleaseWriteCore(s) = b
    BY <1>1 DEF ReleaseWriteCore, Kept, InOrder, LockRecord
  <2> HIDE DEF n
  <2>3. /\ b \in LockRecord /\ b.policy = s.policy /\ b.turn = s.turn /\ b.writer = s.writer
        /\ b.active = s.active /\ b.waiting = s.waiting /\ b.cancelled = s.cancelled
        /\ b.woken = s.woken /\ b.queue = s.queue
        /\ b.pending = s.pending /\ b.reserved = s.reserved
    BY <2>1 DEF Kept, InOrder, LockRecord
  <2> HIDE DEF b
  <2>4. InOrder(b, D) /\ TurnHeld(b)
    BY <2>3, OrderlyFrame DEF Kept, InOrder, PhaseCounted, TurnHeld
  <2>5. ReadersKept(b, b.woken \cup D) /\ WritersKept(b, b.woken \cup D)
    BY <2>3 DEF ReadersKept, MayRead, WritersKept, MayWrite
  <2> QED
    BY <2>2, <2>3, <2>4, <2>5 DEF Kept, SameWaits
<1>2. CASE ~(s.reentrant /\ s.depth > 1)
  <2> DEFINE b == [s EXCEPT !.writer = None, !.depth = 0]
  <2>1. ReleaseWriteCore(s) = OnWriterAbort(b)
    BY <1>2 DEF ReleaseWriteCore
  <2>2. /\ b \in LockRecord /\ b.policy = s.policy /\ b.turn = s.turn
        /\ b.active = s.active /\ b.waiting = s.waiting /\ b.cancelled = s.cancelled
        /\ b.woken = s.woken /\ b.queue = s.queue
        /\ b.pending = s.pending /\ b.reserved = s.reserved
    BY DEF Kept, InOrder, LockRecord
  <2> HIDE DEF b
  <2>3. InOrder(b, D) /\ TurnHeld(b)
    BY <2>2, OrderlyFrame DEF Kept, InOrder, PhaseCounted, TurnHeld
  <2> QED
    BY <2>1, <2>2, <2>3, WriterAbortKeeps DEF SameWaits
<1> QED
  BY <1>1, <1>2

\* The downgrade opens the lock to the readers.
LEMMA DowngradeKeeps ==
  ASSUME NEW s, NEW t \in Caller, NEW D, Kept(s, D)
  PROVE  Kept(DowngradeCore(s, t), D) /\ SameWaits(DowngradeCore(s, t), s)
<1> DEFINE b == WriterToReader(s, t)
           u == DowngradeCore(s, t)
<1>1. s \in LockRecord /\ s.policy \in Policy /\ s.active \in Nat
  BY DEF Kept, InOrder, LockRecord
<1>2. b \in LockRecord
  BY <1>1, ReaderType
<1>3. /\ b.policy = s.policy /\ b.turn = s.turn /\ b.active = s.active + 1
      /\ b.waiting = s.waiting /\ b.cancelled = s.cancelled
      /\ b.woken = s.woken /\ b.queue = s.queue
      /\ b.pending = s.pending /\ b.reserved = s.reserved
  BY <1>1 DEF WriterToReader, AddReader, LockRecord
<1>4. /\ s.policy = "write" =>
           u = IF b.waiting["write"] = {} THEN NotifyAll(b, "read") ELSE b
      /\ s.policy = "read" => u = NotifyAll(b, "read")
      /\ s.policy = "phase" => u = PhaseStart(b)
      /\ s.policy = "fair" => u = FairStart(b)
  BY DEF DowngradeCore, WPrefDowngrade, RPrefDowngrade, PhaseDowngrade, FairDowngrade
<1> HIDE DEF b, u
<1>5. InOrder(b, D) /\ TurnHeld(b) /\ b.active > 0
  BY <1>1, <1>2, <1>3, OrderlyFrame DEF Kept, InOrder, PhaseCounted, TurnHeld
<1>6. WritersKept(b, b.woken \cup D)
  BY <1>5 DEF WritersKept, MayWrite
<1>7. CASE s.policy = "write" /\ b.waiting["write"] # {}
  <2>1. ReadersKept(b, b.woken \cup D)
    BY <1>3, <1>7 DEF ReadersKept, MayRead
  <2> QED
    BY <1>3, <1>4, <1>5, <1>6, <1>7, <2>1 DEF Kept, SameWaits, u
<1>8. CASE s.policy = "read" \/ (s.policy = "write" /\ b.waiting["write"] = {})
  BY <1>3, <1>4, <1>5, <1>6, <1>8, NotifyReadersKeeps DEF SameWaits, u
<1>9. CASE s.policy = "phase"
  BY <1>3, <1>4, <1>5, <1>9, PhaseStartKeeps DEF SameWaits, u
<1>10. CASE s.policy = "fair"
  BY <1>3, <1>4, <1>5, <1>10, FairStartKeeps DEF SameWaits, u
<1>11. s.policy \in {"write", "read", "phase", "fair"}
  BY <1>1 DEF Policy
<1> QED
  BY <1>7, <1>8, <1>9, <1>10, <1>11

-----------------------------------------------------------------------------
(* A caller inside its slow path.                                          *)

\* t is counted as a waiter of kind k and is in no queue: it has just counted
\* itself, or has come back from its wait.
Busy(s, t, k, D) ==
  /\ s \in LockRecord
  /\ t \in s.waiting[k]
  /\ Orderly(s, {t})
  /\ PhaseCounted(s, {}) /\ TurnHeld(s)
  /\ s.cancelled \subseteq D
  /\ ReadersKept(s, s.woken \cup D \cup {t})
  /\ WritersKept(s, s.woken \cup D \cup {t})

\* The guards: a waiter that could be in may acquire; a caller that may acquire,
\* and holds nothing, could be in.
LEMMA GuardsOfWaiters ==
  ASSUME NEW s \in LockRecord, NEW t \in Caller, PhaseCounted(s, {})
  PROVE  /\ MayRead(s, t) => CanRead(s, t)
         /\ MayWrite(s) => CanWrite(s, t)
         /\ s.owners[t] = 0 /\ ~(s.reentrant /\ s.writer = t) =>
              /\ CanRead(s, t) => MayRead(s, t)
              /\ CanWrite(s, t) => MayWrite(s)
<1>1. s.policy \in Policy /\ s.reentrant \in BOOLEAN
  BY DEF LockRecord
<1>2. (s.pending > 0 <=> s.reserved # {}) /\ (s.reserved # {} => s.turn)
  BY SlotsPending DEF PhaseCounted
<1>3. MayRead(s, t) => CanRead(s, t)
  BY <1>1, <1>2 DEF MayRead, CanRead, WPrefCanRead, WPrefCanReadReentrant, RPrefCanRead,
     RPrefCanReadReentrant, PhaseCanRead, PhaseCanReadReentrant, FairCanRead,
     FairCanReadReentrant, IsReserved, Policy
<1>4. MayWrite(s) => CanWrite(s, t)
  BY <1>1 DEF MayWrite, CanWrite, WPrefCanWrite, WPrefCanWriteReentrant, RPrefCanWrite,
     RPrefCanWriteReentrant, PhaseCanWrite, PhaseCanWriteReentrant,
     FairCanWrite, FairCanWriteReentrant, Policy
<1>5. ASSUME s.owners[t] = 0, ~(s.reentrant /\ s.writer = t)
      PROVE  /\ CanRead(s, t) => MayRead(s, t)
             /\ CanWrite(s, t) => MayWrite(s)
  <2>1. ~IsNestedReader(s, t)
    BY <1>5 DEF IsNestedReader
  <2>2. CanRead(s, t) => MayRead(s, t)
    BY <1>1, <1>5, <2>1 DEF MayRead, CanRead, WPrefCanRead, WPrefCanReadReentrant, RPrefCanRead,
       RPrefCanReadReentrant, PhaseCanRead, PhaseCanReadReentrant, FairCanRead,
       FairCanReadReentrant, IsReserved, Policy
  <2>3. CanWrite(s, t) => MayWrite(s)
    BY <1>1, <1>5 DEF MayWrite, CanWrite, WPrefCanWrite, WPrefCanWriteReentrant, RPrefCanWrite,
       RPrefCanWriteReentrant, PhaseCanWrite, PhaseCanWriteReentrant,
       FairCanWrite, FairCanWriteReentrant, Policy
  <2> QED
    BY <2>2, <2>3
<1> QED
  BY <1>3, <1>4, <1>5

\* Whether a caller that does not wait has to give up does not matter.
LEMMA KeptForOthers ==
  ASSUME NEW s, NEW t, NEW D, NEW E, Kept(s, D),
         \A k \in Kind : t \notin s.waiting[k],
         D \ {t} \subseteq E, s.cancelled \subseteq E
  PROVE  Kept(s, E)
<1>1. t \notin s.waiting["read"] /\ t \notin s.waiting["write"]
  BY DEF Kind
<1>2. ReadersKept(s, s.woken \cup E)
  BY <1>1 DEF Kept, ReadersKept
<1>3. WritersKept(s, s.woken \cup E)
  BY <1>1 DEF Kept, WritersKept
<1> QED
  BY <1>2, <1>3 DEF Kept, InOrder

\* The slow path begins.
LEMMA JoinBusy ==
  ASSUME NEW s, NEW k \in Kind, NEW t \in Caller, NEW D, Kept(s, D),
         \A j \in Kind : t \notin s.waiting[j]
  PROVE  /\ Busy(Join(s, k, t), t, k, D)
         /\ Join(s, k, t).cancelled = s.cancelled
         /\ Join(s, k, t).waiting = [s.waiting EXCEPT ![k] = @ \cup {t}]
<1> DEFINE u == Join(s, k, t)
<1>1. s \in LockRecord /\ s.waiting \in [Kind -> SUBSET Caller]
  BY DEF Kept, InOrder, LockRecord
<1>2. u \in LockRecord
  BY <1>1, WaitFrame
<1>3. Orderly(u, {t})
  BY <1>1, JoinOrderly DEF Kept, InOrder
<1>4. /\ u.policy = s.policy /\ u.turn = s.turn /\ u.active = s.active /\ u.writer = s.writer
      /\ u.waiting = [s.waiting EXCEPT ![k] = @ \cup {t}]
      /\ u.cancelled = s.cancelled /\ u.woken = s.woken
      /\ u.pending = s.pending /\ u.reserved = s.reserved
  BY <1>1 DEF Join, LockRecord
<1>5. /\ t \in u.waiting[k]
      /\ s.waiting["read"] \subseteq u.waiting["read"]
      /\ u.waiting["read"] \subseteq s.waiting["read"] \cup {t}
      /\ s.waiting["write"] \subseteq u.waiting["write"]
      /\ u.waiting["write"] \subseteq s.waiting["write"] \cup {t}
  BY <1>1, <1>4 DEF Kind
<1> HIDE DEF u
<1>6. PhaseCounted(u, {}) /\ TurnHeld(u)
  BY <1>4, <1>5 DEF Kept, InOrder, PhaseCounted, TurnHeld
<1>7. ReadersKept(u, u.woken \cup D \cup {t})
  BY <1>4, <1>5 DEF Kept, ReadersKept, MayRead
<1>8. WritersKept(u, u.woken \cup D \cup {t})
  BY <1>4, <1>5 DEF Kept, WritersKept, MayWrite
<1> QED
  BY <1>2, <1>3, <1>4, <1>5, <1>6, <1>7, <1>8 DEF Busy, Kept, InOrder, u

\* The lock without the marks of t's wait; c are the futures still cancelled.
Unmarked(l, t, c) == [l EXCEPT !.woken = @ \ {t}, !.cancelled = c]

\* A waiter comes back from its wait, and takes its waiter out of the deque.
LEMMA RetakeBusy ==
  ASSUME NEW l, NEW k \in Kind, NEW t \in Caller, NEW D, NEW E, Kept(l, D),
         t \in l.waiting[k], D \ {t} \subseteq E,
         NEW c \in SUBSET Caller, l.cancelled \subseteq c \cup {t}, c \subseteq E
  PROVE  LET s == Discard(Unmarked(l, t, c), k, t)
         IN  /\ Busy(s, t, k, E) /\ SameHolds(s, l)
             /\ s.waiting = l.waiting /\ s.cancelled = c
<1> DEFINE r == Unmarked(l, t, c)
           s == Discard(r, k, t)
<1>1. l \in LockRecord /\ t \in Caller
  BY DEF Kept, InOrder
<1>2. r \in LockRecord /\ SameHolds(r, l)
  BY <1>1 DEF Unmarked, LockRecord, SameHolds
<1>3. /\ r.waiting = l.waiting /\ r.queue = l.queue /\ r.woken = l.woken \ {t}
      /\ r.cancelled = c /\ r.turn = l.turn
      /\ r.pending = l.pending /\ r.reserved = l.reserved
  BY <1>1 DEF Unmarked, LockRecord
<1>4. s = Discard(r, k, t)
  OBVIOUS
<1> HIDE DEF r, s
<1>5. s \in LockRecord /\ SameHolds(s, r)
  BY <1>2, <1>4, WaitFrame DEF SameHolds
<1>6. Orderly(s, {t})
  BY <1>1, <1>2, <1>3, <1>4, RetakeOrderly DEF Kept, InOrder
<1>7. /\ s.waiting = l.waiting /\ s.woken = l.woken \ {t} /\ s.cancelled = c
      /\ s.turn = l.turn /\ s.pending = l.pending /\ s.reserved = l.reserved
  BY <1>2, <1>3, <1>4 DEF Discard, LockRecord
<1>8. SameHolds(s, l)
  BY <1>2, <1>5, SameHoldsTransitive
<1>9. s.policy = l.policy /\ s.writer = l.writer /\ s.active = l.active
  BY <1>8 DEF SameHolds
<1>10. PhaseCounted(s, {}) /\ TurnHeld(s)
  BY <1>7, <1>9 DEF Kept, InOrder, PhaseCounted, TurnHeld
<1>11. ReadersKept(s, s.woken \cup E \cup {t})
  BY <1>7, <1>9 DEF Kept, ReadersKept, MayRead
<1>12. WritersKept(s, s.woken \cup E \cup {t})
  BY <1>7, <1>9 DEF Kept, WritersKept, MayWrite
<1> QED
  BY <1>5, <1>6, <1>7, <1>8, <1>10, <1>11, <1>12 DEF Busy, r, s

\* There is none to take out when a notify has popped it.
LEMMA WokenBusy ==
  ASSUME NEW l, NEW k \in Kind, NEW t \in Caller, NEW D, Kept(l, D),
         t \in l.waiting[k], t \in l.woken
  PROVE  LET s == Unmarked(l, t, l.cancelled)
         IN  /\ Busy(s, t, k, D) /\ SameHolds(s, l)
             /\ s.waiting = l.waiting /\ s.cancelled = l.cancelled
<1> DEFINE c == l.cancelled
           s == Unmarked(l, t, c)
<1>1. c \in SUBSET Caller /\ l.cancelled \subseteq c \cup {t} /\ c \subseteq D
  BY DEF Kept, InOrder, LockRecord
<1>2. /\ l \in LockRecord /\ s \in LockRecord
      /\ s.queue = l.queue /\ t \notin Queued(l.queue[k])
  BY <1>1 DEF Kept, InOrder, Orderly, Unmarked, LockRecord
<1>3. Without(s.queue[k], t) = s.queue[k]
  BY <1>2 DEF Without, Queued
<1>4. s = Discard(Unmarked(l, t, c), k, t)
  BY <1>2, <1>3 DEF Discard, LockRecord
<1>5. D \ {t} \subseteq D
  OBVIOUS
<1> HIDE DEF c, s
<1>6. Busy(s, t, k, D) /\ SameHolds(s, l) /\ s.waiting = l.waiting /\ s.cancelled = c
  BY <1>1, <1>4, <1>5, RetakeBusy
<1> QED
  BY <1>6 DEF c, s

\* It cannot have the lock, and waits.
LEMMA ParkKeeps ==
  ASSUME NEW s, NEW k \in Kind, NEW t \in Caller, NEW D, Busy(s, t, k, D),
         ~CanAcquire(s, k, t)
  PROVE  Kept(Append1(s, k, t), D) /\ SameWaits(Append1(s, k, t), s)
<1> DEFINE u == Append1(s, k, t)
<1>1. s \in LockRecord /\ t \in s.waiting[k] /\ Orderly(s, {t})
  BY DEF Busy
<1>2. u \in LockRecord /\ SameHolds(u, s)
  BY <1>1, WaitFrame
<1>3. Orderly(u, {})
  BY <1>1, AppendOrderly
<1>4. /\ u.waiting = s.waiting /\ u.woken = s.woken /\ u.cancelled = s.cancelled
      /\ u.turn = s.turn /\ u.pending = s.pending /\ u.reserved = s.reserved
  BY <1>1 DEF Append1, LockRecord
<1> HIDE DEF u
<1>5. u.policy = s.policy /\ u.writer = s.writer /\ u.active = s.active
  BY <1>2 DEF SameHolds
<1>6. PhaseCounted(u, {}) /\ TurnHeld(u)
  BY <1>4, <1>5 DEF Busy, PhaseCounted, TurnHeld
<1>7. /\ k = "read" => ~MayRead(s, t)
      /\ k = "write" => ~MayWrite(s)
  BY <1>1, GuardsOfWaiters DEF Busy, CanAcquire, Kind
<1>8. /\ k = "read" => t \notin s.waiting["write"]
      /\ k = "write" => t \notin s.waiting["read"]
  BY <1>1 DEF Orderly
<1>9. ReadersKept(u, u.woken \cup D)
  BY <1>4, <1>5, <1>7, <1>8 DEF Busy, ReadersKept, MayRead, Kind
<1>10. WritersKept(u, u.woken \cup D)
  BY <1>4, <1>5, <1>7, <1>8 DEF Busy, WritersKept, MayWrite, Kind
<1> QED
  BY <1>2, <1>3, <1>4, <1>6, <1>9, <1>10 DEF Busy, Kept, InOrder, SameWaits, u

\* It gives up.
LEMMA AbortKeeps ==
  ASSUME NEW s, NEW k \in Kind, NEW t \in Caller, NEW D, Busy(s, t, k, D)
  PROVE  LET u == OnAbort(Leave(s, k, t), k, t)
         IN  /\ Kept(u, D) /\ u.cancelled = s.cancelled
             /\ u.waiting = [s.waiting EXCEPT ![k] = @ \ {t}]
<1> DEFINE b == Leave(s, k, t)
<1>1. s \in LockRecord /\ t \in s.waiting[k] /\ Orderly(s, {t})
  BY DEF Busy
<1>2. b \in LockRecord /\ SameHolds(b, s)
  BY <1>1, WaitFrame
<1>3. Orderly(b, {})
  BY <1>1, LeaveOrderly
<1>4. /\ b.waiting = [s.waiting EXCEPT ![k] = @ \ {t}]
      /\ b.woken = s.woken /\ b.cancelled = s.cancelled
      /\ b.turn = s.turn /\ b.pending = s.pending /\ b.reserved = s.reserved
      /\ s.waiting \in [Kind -> SUBSET Caller]
  BY <1>1 DEF Leave, LockRecord
<1> HIDE DEF b
<1>5. b.policy = s.policy /\ b.writer = s.writer /\ b.active = s.active
  BY <1>2 DEF SameHolds
<1>6. CASE k = "read"
  <2>1. b.waiting["read"] = s.waiting["read"] \ {t} /\ b.waiting["write"] = s.waiting["write"]
        /\ t \notin s.waiting["write"]
    BY <1>1, <1>4, <1>6 DEF Orderly, Kind
  <2>2. PhaseCounted(b, {t})
    BY <1>4, <1>5, <2>1 DEF Busy, PhaseCounted
  <2>3. ReadersKept(b, b.woken \cup D)
    BY <1>4, <1>5, <2>1 DEF Busy, ReadersKept, MayRead
  <2>4. b.turn \/ b.policy = "read" \/ WritersKept(b, b.woken \cup D)
    BY <1>4, <1>5, <2>1 DEF Busy, WritersKept, MayWrite
  <2>5. b.cancelled \subseteq D
    BY <1>4 DEF Busy
  <2> QED
    BY <1>2, <1>3, <1>4, <1>6, <2>2, <2>3, <2>4, <2>5, ReaderAbortKeeps DEF OnAbort, SameWaits, b
<1>7. CASE k = "write"
  <2>1. b.waiting["read"] = s.waiting["read"]
    BY <1>4, <1>7 DEF Kind
  <2>2. InOrder(b, D) /\ TurnHeld(b)
    BY <1>2, <1>3, <1>4, <1>5, <2>1 DEF Busy, InOrder, PhaseCounted, TurnHeld
  <2>3. OnAbort(b, k, t) = OnWriterAbort(b)
    BY <1>7 DEF OnAbort
  <2> QED
    BY <1>4, <2>2, <2>3, WriterAbortKeeps DEF SameWaits, b
<1> QED
  BY <1>6, <1>7 DEF Kind

\* It gets the lock, and is uncounted.
LEMMA AcquireKeeps ==
  ASSUME NEW s, NEW k \in Kind, NEW t \in Caller, NEW D, Busy(s, t, k, D)
  PROVE  LET u == Leave(AcquireCore(s, k, t), k, t)
         IN  /\ Kept(u, D) /\ u.cancelled = s.cancelled
             /\ u.waiting = [s.waiting EXCEPT ![k] = @ \ {t}]
<1> DEFINE b == AcquireCore(s, k, t)
           u == Leave(b, k, t)
<1>1. s \in LockRecord /\ t \in s.waiting[k] /\ Orderly(s, {t})
  BY DEF Busy
<1>2. b \in LockRecord
  BY <1>1, AcquireReadEffect, WriteCoreEffect DEF AcquireCore
<1>3. /\ u \in LockRecord
      /\ u.waiting = [b.waiting EXCEPT ![k] = @ \ {t}]
      /\ u.woken = b.woken /\ u.cancelled = b.cancelled
      /\ u.policy = b.policy /\ u.writer = b.writer /\ u.active = b.active
      /\ u.turn = b.turn /\ u.pending = b.pending /\ u.reserved = b.reserved
      /\ b.waiting \in [Kind -> SUBSET Caller]
  <2> HIDE DEF b
  <2>1. u \in LockRecord
    BY <1>2, WaitFrame
  <2>2. u = [b EXCEPT !.waiting = [b.waiting EXCEPT ![k] = @ \ {t}]]
    BY <1>2 DEF Leave, LockRecord
  <2> HIDE DEF u
  <2> QED
    BY <1>2, <2>1, <2>2 DEF LockRecord
<1>4. ASSUME b.waiting = s.waiting, Orderly(b, {t}) PROVE Orderly(u, {})
  <2> HIDE DEF b
  <2> QED
    BY <1>1, <1>2, <1>4, LeaveOrderly
<1>5. CASE k = "read"
  <2>1. ReaderIn(b, s, t, {t}, D)
    BY <1>1, <1>5, AcquireReadKeeps DEF Busy, AcquireCore
  <2> HIDE DEF b, u
  <2>2. b.waiting = s.waiting /\ b.cancelled = s.cancelled /\ Orderly(b, {t})
    BY <2>1 DEF ReaderIn, SameWaits
  <2>3. Orderly(u, {})
    BY <1>4, <2>2 DEF u
  <2>4. /\ u.waiting["read"] = s.waiting["read"] \ {t}
        /\ u.waiting["write"] = s.waiting["write"]
    BY <1>3, <1>5, <2>2 DEF Kind
  <2>5. PhaseCounted(u, {}) /\ TurnHeld(u)
    BY <1>3, <2>1, <2>2, <2>4 DEF ReaderIn, PhaseCounted, TurnHeld
  <2>6. ReadersKept(u, u.woken \cup D)
    BY <1>3, <2>1, <2>2, <2>4 DEF ReaderIn, ReadersKept, MayRead
  <2>7. WritersKept(u, u.woken \cup D)
    BY <1>3, <2>1 DEF ReaderIn, WritersKept, MayWrite
  <2> QED
    BY <1>3, <2>2, <2>3, <2>5, <2>6, <2>7 DEF Busy, Kept, InOrder, b, u
<1>6. CASE k = "write"
  <2>1. b = AcquireWriteCore(s, t)
    BY <1>6 DEF AcquireCore
  <2> HIDE DEF u
  <2>2. /\ b.waiting = s.waiting /\ b.cancelled = s.cancelled /\ b.woken = s.woken
        /\ b.queue = s.queue /\ b.policy = s.policy /\ b.active = s.active
        /\ b.turn = s.turn /\ b.pending = s.pending /\ b.reserved = s.reserved
        /\ b.writer = t
    <3> HIDE DEF b
    <3> QED
      BY <1>1, <2>1 DEF AcquireWriteCore, LockRecord
  <2> HIDE DEF b
  <2>3. Orderly(b, {t})
    BY <1>1, <2>2, OrderlyFrame
  <2>4. Orderly(u, {})
    BY <1>4, <2>2, <2>3 DEF u
  <2>5. u.waiting["read"] = s.waiting["read"] /\ u.writer # None
    BY <1>3, <1>6, <2>2, CallerAssumption DEF Kind
  <2>6. PhaseCounted(u, {}) /\ TurnHeld(u)
    BY <1>3, <2>2, <2>5 DEF Busy, PhaseCounted, TurnHeld
  <2>7. ReadersKept(u, u.woken \cup D) /\ WritersKept(u, u.woken \cup D)
    BY <2>5 DEF ReadersKept, MayRead, WritersKept, MayWrite
  <2> QED
    BY <1>3, <2>2, <2>4, <2>6, <2>7 DEF Busy, Kept, InOrder, b, u
<1> QED
  BY <1>5, <1>6 DEF Kind

\* The fast path.
LEMMA EnterKeeps ==
  ASSUME NEW s, NEW k \in Kind, NEW t \in Caller, NEW D, Kept(s, D)
  PROVE  Kept(AcquireCore(s, k, t), D) /\ SameWaits(AcquireCore(s, k, t), s)
<1> DEFINE u == AcquireCore(s, k, t)
<1>1. s \in LockRecord /\ Orderly(s, {}) /\ PhaseCounted(s, {})
  BY DEF Kept, InOrder
<1>2. u \in LockRecord
  BY <1>1, AcquireReadEffect, WriteCoreEffect DEF AcquireCore
<1>3. CASE k = "read"
  <2>1. ReadersKept(s, s.woken \cup D \cup {})
    BY DEF Kept
  <2>2. ReaderIn(u, s, t, {}, D)
    BY <1>1, <1>3, <2>1, AcquireReadKeeps DEF AcquireCore
  <2> HIDE DEF u
  <2>3. TurnHeld(u) /\ WritersKept(u, u.woken \cup D)
    BY <2>2 DEF ReaderIn, TurnHeld, WritersKept, MayWrite
  <2>4. ReadersKept(u, u.woken \cup D)
    BY <2>2 DEF ReaderIn, ReadersKept
  <2> QED
    BY <2>2, <2>3, <2>4 DEF Kept, InOrder, ReaderIn, SameWaits, u
<1>4. CASE k = "write"
  <2>1. u = AcquireWriteCore(s, t)
    BY <1>4 DEF AcquireCore
  <2> HIDE DEF u
  <2>2. /\ u.waiting = s.waiting /\ u.cancelled = s.cancelled /\ u.woken = s.woken
        /\ u.queue = s.queue /\ u.policy = s.policy /\ u.active = s.active
        /\ u.turn = s.turn /\ u.pending = s.pending /\ u.reserved = s.reserved
        /\ u.writer = t
    BY <1>1, <2>1 DEF AcquireWriteCore, LockRecord
  <2>3. Orderly(u, {}) /\ PhaseCounted(u, {}) /\ TurnHeld(u)
    BY <1>1, <2>2, OrderlyFrame DEF Kept, PhaseCounted, TurnHeld
  <2>4. ReadersKept(u, u.woken \cup D) /\ WritersKept(u, u.woken \cup D)
    BY <2>2, CallerAssumption DEF ReadersKept, MayRead, WritersKept, MayWrite
  <2> QED
    BY <1>2, <2>2, <2>3, <2>4 DEF Kept, InOrder, SameWaits, u
<1> QED
  BY <1>3, <1>4 DEF Kind

-----------------------------------------------------------------------------
(* The callers.                                                            *)

\* those_waiting counts who is inside a slow path; who is holds nothing, but for
\* a write hold that it waits for in vain; and where the writer is not
\* reentrant, it does not read.
WaitersCounted ==
  /\ \A k \in Kind : lock.waiting[k] = {t \in Caller : call[t] = k}
  /\ \A t \in Caller : call[t] \in Kind =>
       held[t].r = 0 /\ (lock.reentrant => held[t].w = 0)
  /\ ~lock.reentrant /\ lock.writer # None => lock.active = 0

\* A step that grants nothing and lets nobody into a slow path.
LEMMA WaitersQuiet ==
  ASSUME WaitersCounted, SameHolds(lock', lock), held' = held,
         \A k \in Kind : lock'.waiting[k] = {t \in Caller : call'[t] = k},
         \A t \in Caller : call'[t] \in Kind => call[t] \in Kind
  PROVE  WaitersCounted'
BY DEF WaitersCounted, SameHolds

\* A caller that is let into the slow path holds nothing that could get it in.
LEMMA WaitersPark ==
  ASSUME ClientInv, WaitersCounted, NEW t \in Caller, NEW k \in Kind,
         ~Refused(lock, k, t), ~CanAcquire(lock, k, t),
         SameHolds(lock', lock), held' = held, call[t] = "none",
         call' = [call EXCEPT ![t] = k],
         lock'.waiting = [lock.waiting EXCEPT ![k] = @ \cup {t}]
  PROVE  WaitersCounted'
<1>1. /\ lock \in LockRecord /\ HoldsConsistent(lock)
      /\ call \in [Caller -> Kind \cup {"none", "marker"}]
      /\ held[t].r = lock.owners[t]
      /\ held[t].w = IF lock.writer = t THEN WriteDepth(lock) ELSE 0
  BY DEF ClientInv, ClientTypeOK, HoldsAgree
<1>2. lock.waiting \in [Kind -> SUBSET Caller] /\ lock.owners[t] \in Nat
  BY <1>1 DEF LockRecord
<1>3. lock.reentrant => lock.writer # t
  BY CallerAssumption DEF CanAcquire, CanRead, CanWrite, WPrefCanReadReentrant,
     WPrefCanWriteReentrant, RPrefCanReadReentrant, RPrefCanWriteReentrant,
     PhaseCanReadReentrant, PhaseCanWriteReentrant, FairCanReadReentrant,
     FairCanWriteReentrant
<1>4. lock.owners[t] = 0
  <2> SUFFICES ASSUME lock.owners[t] > 0 PROVE FALSE
    BY <1>2
  <2>1. lock.active > 0
    BY <1>1, DropReaderConsistent
  <2>2. IsNestedReader(lock, t)
    BY <2>1 DEF IsNestedReader
  <2>3. CASE lock.writer = None
    <3>1. CASE k = "read"
      <4>1. CanRead(lock, t)
        BY <1>1, <2>2, <2>3 DEF CanRead, WPrefCanRead, WPrefCanReadReentrant, RPrefCanRead,
           RPrefCanReadReentrant, PhaseCanRead, PhaseCanReadReentrant, FairCanRead,
           FairCanReadReentrant
      <4> QED
        BY <3>1, <4>1 DEF CanAcquire
    <3>2. CASE k = "write"
      BY <2>2, <2>3, <3>2, CallerAssumption DEF Refused, UpgradeRefused
    <3> QED
      BY <3>1, <3>2 DEF Kind
  <2>4. CASE lock.writer # None
    <3>1. lock.writer = t
      BY <1>1, <1>2, <2>4 DEF HoldsConsistent
    <3>2. lock.active = 0
      BY <1>3, <2>4, <3>1 DEF WaitersCounted
    <3> QED
      BY <2>1, <3>2
  <2> QED
    BY <2>3, <2>4
<1>5. held[t].r = 0 /\ (lock.reentrant => held[t].w = 0)
  BY <1>1, <1>3, <1>4
<1>6. \A u \in Caller : call'[u] \in Kind =>
         held[u].r = 0 /\ (lock.reentrant => held[u].w = 0)
  BY <1>1, <1>5 DEF WaitersCounted
<1>7. \A j \in Kind : lock'.waiting[j] = {u \in Caller : call'[u] = j}
  <2> SUFFICES ASSUME NEW j \in Kind PROVE lock'.waiting[j] = {u \in Caller : call'[u] = j}
    OBVIOUS
  <2>1. lock.waiting[j] = {u \in Caller : call[u] = j}
    BY DEF WaitersCounted
  <2>2. CASE j = k
    BY <1>1, <1>2, <2>1, <2>2
  <2>3. CASE j # k
    BY <1>1, <1>2, <2>1, <2>3 DEF Kind
  <2> QED
    BY <2>2, <2>3
<1> QED
  BY <1>6, <1>7 DEF WaitersCounted, SameHolds

\* A caller that is let in leaves the slow path, if it was there.
LEMMA WaitersGrant ==
  ASSUME ClientInv, WaitersCounted, NEW t \in Caller, NEW k \in Kind,
         NEW s \in LockRecord, SameHolds(s, lock), CanAcquire(s, k, t),
         lock' \in {AcquireCore(s, k, t), Leave(AcquireCore(s, k, t), k, t)},
         Gains(t, k), NEW v \in {"none", "marker"}, call' = [call EXCEPT ![t] = v],
         \A j \in Kind : lock'.waiting[j] = lock.waiting[j] \ {t}
  PROVE  WaitersCounted'
<1> DEFINE b == AcquireCore(s, k, t)
<1>1. /\ call \in [Caller -> Kind \cup {"none", "marker"}]
      /\ held \in [Caller -> [r : Nat, w : Nat]]
  BY DEF ClientInv, ClientTypeOK
<1>2. SameHolds(lock', b)
  <2>1. b \in LockRecord
    BY AcquireReadEffect, WriteCoreEffect DEF AcquireCore
  <2>2. SameHolds(b, b)
    BY DEF SameHolds
  <2>3. lock' = b \/ lock' = Leave(b, k, t)
    OBVIOUS
  <2> HIDE DEF b
  <2>4. SameHolds(Leave(b, k, t), b)
    BY <2>1, WaitFrame
  <2> QED
    BY <2>2, <2>3, <2>4
<1>3. /\ lock'.reentrant = lock.reentrant
      /\ ~lock'.reentrant /\ lock'.writer # None => lock'.active = 0
  <2>1. CASE k = "read"
    <3>1. b = AcquireReadCore(s, t) /\ CanRead(s, t)
      BY <2>1 DEF AcquireCore, CanAcquire
    <3>2. ~s.reentrant => s.writer = None
      BY <3>1 DEF CanRead, WPrefCanRead, RPrefCanRead, PhaseCanRead, FairCanRead
    <3> HIDE DEF b
    <3>3. SameHolds(b, AddReader(s, t))
      BY <3>1, AcquireReadEffect
    <3>4. SameHolds(lock', AddReader(s, t))
      BY <1>2, <3>3, SameHoldsTransitive
    <3> QED
      BY <3>2, <3>4 DEF SameHolds, AddReader, LockRecord
  <2>2. CASE k = "write"
    <3>1. b = AcquireWriteCore(s, t) /\ CanWrite(s, t)
      BY <2>2 DEF AcquireCore, CanAcquire
    <3>2. ~s.reentrant => s.active = 0
      BY <3>1 DEF CanWrite, WPrefCanWrite, RPrefCanWrite, PhaseCanWrite, FairCanWrite
    <3> HIDE DEF b
    <3> QED
      BY <1>2, <3>1, <3>2 DEF SameHolds, AcquireWriteCore, LockRecord
  <2> QED
    BY <2>1, <2>2 DEF Kind
<1>4. \A j \in Kind : lock'.waiting[j] = {u \in Caller : call'[u] = j}
  BY <1>1 DEF WaitersCounted, Kind
<1>5. \A u \in Caller : call'[u] \in Kind => call[u] \in Kind /\ held'[u] = held[u]
  BY <1>1 DEF Gains, Kind
<1> QED
  BY <1>3, <1>4, <1>5 DEF WaitersCounted

\* The releases and the downgrade.
LEMMA WaitersRelease ==
  ASSUME ClientInv, WaitersCounted, NEW D, Kept(lock, D), NEW t \in Caller,
         EndRead(t) \/ EndDowngraded(t) \/ EndWrite(t) \/ EndRefused(t) \/ WriteToRead(t)
  PROVE  WaitersCounted' /\ Kept(lock', D) /\ lock'.cancelled = lock.cancelled
<1> DEFINE Calm == /\ lock'.reentrant = lock.reentrant
                   /\ ~lock'.reentrant /\ lock'.writer # None => lock'.active = 0
<1>1. /\ lock \in LockRecord /\ HoldsConsistent(lock)
      /\ \A u \in Caller : held[u].r = lock.owners[u]
  BY DEF ClientInv, ClientTypeOK, HoldsAgree
<1>2. /\ call' = call /\ call[t] = "none"
      /\ \A u \in Caller \ {t} : held'[u] = held[u]
  BY DEF ClientInv, ClientTypeOK, EndRead, ReleaseRead, EndDowngraded, EndWrite, EndRefused,
     WriteToRead, CallsWriteRelease, Idle, Loses
<1>3. ASSUME Calm, Kept(lock', D), SameWaits(lock', lock) PROVE WaitersCounted'
  <2>1. \A u \in Caller : call'[u] \in Kind => u # t
    BY <1>2 DEF Kind
  <2> QED
    BY <1>2, <1>3, <2>1 DEF WaitersCounted, SameWaits
<1>4. ASSUME lock' = ReleaseReadCore(lock, t), lock.owners[t] > 0
      PROVE  Calm /\ Kept(lock', D) /\ SameWaits(lock', lock)
  <2>1. lock.active > 0
    BY <1>1, <1>4, DropReaderConsistent
  <2>2. Kept(lock', D) /\ SameWaits(lock', lock)
    BY <1>4, <2>1, ReleaseReadKeeps
  <2>3. SameHolds(lock', DropReader(lock, t))
    BY <1>1, <1>4, <2>1, ReleaseReadEffect
  <2>4. Calm
    BY <1>1, <2>1, <2>3 DEF WaitersCounted, SameHolds, DropReader, LockRecord
  <2> QED
    BY <2>2, <2>4
<1>5. CASE EndRead(t)
  BY <1>1, <1>3, <1>4, <1>5 DEF EndRead, ReleaseRead, SameWaits
<1>6. CASE EndDowngraded(t)
  BY <1>3, <1>4, <1>6 DEF EndDowngraded, RoutedToRead, SameWaits
<1>7. CASE EndWrite(t)
  <2>1. lock' = ReleaseWriteCore(lock) /\ lock.writer # None
    BY <1>7, CallerAssumption DEF EndWrite, MayReleaseWrite
  <2>2. Kept(lock', D) /\ SameWaits(lock', lock)
    BY <2>1, ReleaseWriteKeeps
  <2>3. SameHolds(lock', IF lock.reentrant /\ lock.depth > 1
                         THEN [lock EXCEPT !.depth = @ - 1]
                         ELSE [lock EXCEPT !.writer = None, !.depth = 0])
    BY <1>1, <2>1, WriteCoreEffect
  <2>4. Calm
    BY <1>1, <2>3 DEF SameHolds, LockRecord
  <2> QED
    BY <1>3, <2>2, <2>4 DEF SameWaits
<1>8. CASE EndRefused(t)
  <2>1. lock' = lock
    BY <1>8 DEF EndRefused
  <2> QED
    BY <1>3, <2>1 DEF WaitersCounted, SameWaits
<1>9. CASE WriteToRead(t)
  <2>1. lock' = DowngradeCore(lock, t)
    BY <1>9 DEF WriteToRead
  <2>2. Kept(lock', D) /\ SameWaits(lock', lock)
    BY <2>1, DowngradeKeeps
  <2>3. SameHolds(lock', WriterToReader(lock, t))
    BY <1>1, <2>1, DowngradeEffect
  <2>4. Calm
    BY <1>1, <2>3 DEF SameHolds, WriterToReader, AddReader, LockRecord
  <2> QED
    BY <1>3, <2>2, <2>4 DEF SameWaits
<1> QED
  BY <1>5, <1>6, <1>7, <1>8, <1>9

-----------------------------------------------------------------------------
(* The steps of acquire, whatever stack the caller runs on: D are the        *)
(* callers that had to give up before the step, E those after it.            *)

\* More callers awake do no harm.
LEMMA KeptByMore ==
  ASSUME NEW s, NEW D, NEW E, Kept(s, D), D \subseteq E
  PROVE  Kept(s, E)
<1>1. ReadersKept(s, s.woken \cup E)
  BY DEF Kept, ReadersKept
<1>2. WritersKept(s, s.woken \cup E)
  BY DEF Kept, WritersKept
<1> QED
  BY <1>1, <1>2 DEF Kept, InOrder

\* That it counts itself first does not change whether a caller may acquire.
LEMMA JoinGuards ==
  ASSUME NEW s \in LockRecord, NEW k \in Kind, NEW t \in Caller, ~CanAcquire(s, k, t)
  PROVE  ~CanAcquire(Join(s, k, t), k, t)
<1> DEFINE u == Join(s, k, t)
<1>1. /\ u.policy = s.policy /\ u.reentrant = s.reentrant /\ u.writer = s.writer
      /\ u.active = s.active /\ u.owners = s.owners /\ u.turn = s.turn
      /\ u.pending = s.pending /\ u.reserved = s.reserved
      /\ u.waiting = [s.waiting EXCEPT ![k] = @ \cup {t}]
  BY DEF Join, LockRecord
<1> HIDE DEF u
<1>2. CASE k = "read"
  <2>1. s.waiting["write"] = u.waiting["write"]
    BY <1>1, <1>2 DEF LockRecord, Kind
  <2>2. CanRead(u, t) = CanRead(s, t)
    BY <1>1, <2>1 DEF CanRead, WPrefCanRead, WPrefCanReadReentrant, RPrefCanRead,
       RPrefCanReadReentrant, PhaseCanRead, PhaseCanReadReentrant, FairCanRead,
       FairCanReadReentrant, IsReserved, IsNestedReader
  <2> QED
    BY <1>2, <2>2 DEF CanAcquire, u
<1>3. CASE k = "write"
  <2>1. s.waiting["read"] = u.waiting["read"]
    BY <1>1, <1>3 DEF LockRecord, Kind
  <2>2. CanWrite(u, t) = CanWrite(s, t)
    BY <1>1, <2>1 DEF CanWrite, WPrefCanWrite, WPrefCanWriteReentrant, RPrefCanWrite,
       RPrefCanWriteReentrant, PhaseCanWrite, PhaseCanWriteReentrant, FairCanWrite,
       FairCanWriteReentrant
  <2> QED
    BY <1>3, <2>2 DEF CanAcquire, u
<1> QED
  BY <1>2, <1>3 DEF Kind

\* Who makes no call waits in no queue.
LEMMA IdleWaitsNowhere ==
  ASSUME WaitersCounted, NEW t, call[t] \notin Kind
  PROVE  \A k \in Kind : t \notin lock.waiting[k]
BY DEF WaitersCounted

\* The fast path.
LEMMA ClientEnters ==
  ASSUME ClientInv, WaitersCounted, NEW t \in Caller, NEW k \in Kind, NEW D, NEW E,
         Kept(lock, D), D \ {t} \subseteq E, lock.cancelled \subseteq E,
         call[t] = "none", CanAcquire(lock, k, t), lock' = AcquireCore(lock, k, t),
         Gains(t, k), NEW v \in {"none", "marker"}, call' = [call EXCEPT ![t] = v]
  PROVE  WaitersCounted' /\ Kept(lock', E) /\ lock'.cancelled = lock.cancelled
<1>1. \A j \in Kind : t \notin lock.waiting[j]
  BY IdleWaitsNowhere DEF Kind
<1>2. Kept(lock', D) /\ SameWaits(lock', lock)
  BY EnterKeeps
<1>3. \A j \in Kind : lock'.waiting[j] = lock.waiting[j] \ {t}
  BY <1>1, <1>2 DEF SameWaits
<1>4. lock \in LockRecord /\ SameHolds(lock, lock)
  BY DEF ClientInv, ClientTypeOK, SameHolds
<1>5. WaitersCounted'
  BY <1>3, <1>4, WaitersGrant
<1>6. Kept(lock', E)
  BY <1>1, <1>2, KeptForOthers DEF SameWaits
<1> QED
  BY <1>2, <1>5, <1>6 DEF SameWaits

\* The slow path up to the wait, seen from the lock.
LEMMA SlowPathKeeps ==
  ASSUME NEW s, NEW k \in Kind, NEW t \in Caller, NEW D, Kept(s, D),
         \A j \in Kind : t \notin s.waiting[j], ~CanAcquire(s, k, t)
  PROVE  LET u == Append1(Join(s, k, t), k, t)
         IN  /\ Kept(u, D) /\ u.cancelled = s.cancelled /\ SameHolds(u, s)
             /\ u.waiting = [s.waiting EXCEPT ![k] = @ \cup {t}]
<1> DEFINE j == Join(s, k, t)
           u == Append1(j, k, t)
<1>1. s \in LockRecord
  BY DEF Kept, InOrder
<1>2. /\ Busy(j, t, k, D) /\ j.cancelled = s.cancelled
      /\ j.waiting = [s.waiting EXCEPT ![k] = @ \cup {t}]
  BY JoinBusy
<1>3. ~CanAcquire(j, k, t)
  BY <1>1, JoinGuards
<1>4. j \in LockRecord /\ SameHolds(j, s)
  BY <1>1, WaitFrame
<1> HIDE DEF j
<1>5. Kept(u, D) /\ SameWaits(u, j)
  BY <1>2, <1>3, ParkKeeps
<1>6. SameHolds(u, j)
  BY <1>4, WaitFrame
<1>7. SameHolds(u, s)
  BY <1>4, <1>6, SameHoldsTransitive
<1> QED
  BY <1>2, <1>5, <1>7 DEF SameWaits, j

\* The same, seen from the caller.
LEMMA ClientParks ==
  ASSUME ClientInv, WaitersCounted, NEW t \in Caller, NEW k \in Kind, NEW D, NEW E,
         Kept(lock, D), D \ {t} \subseteq E, lock.cancelled \subseteq E,
         call[t] = "none", ~Refused(lock, k, t), ~CanAcquire(lock, k, t),
         lock' = Append1(Join(lock, k, t), k, t),
         call' = [call EXCEPT ![t] = k], held' = held
  PROVE  WaitersCounted' /\ Kept(lock', E) /\ lock'.cancelled = lock.cancelled
<1>1. \A j \in Kind : t \notin lock.waiting[j]
  BY IdleWaitsNowhere DEF Kind
<1>2. Kept(lock, E)
  BY <1>1, KeptForOthers
<1>3. /\ Kept(lock', E) /\ lock'.cancelled = lock.cancelled /\ SameHolds(lock', lock)
      /\ lock'.waiting = [lock.waiting EXCEPT ![k] = @ \cup {t}]
  BY <1>1, <1>2, SlowPathKeeps
<1>4. WaitersCounted'
  BY <1>3, WaitersPark
<1> QED
  BY <1>3, <1>4

\* Who leaves the slow path is counted no more.
LEMMA WaitsEnd ==
  ASSUME ClientInv, WaitersCounted, NEW t \in Caller, NEW k \in Kind, call[t] = k,
         NEW v \in {"none", "marker"}, call' = [call EXCEPT ![t] = v],
         lock'.waiting = [lock.waiting EXCEPT ![k] = @ \ {t}]
  PROVE  \A j \in Kind : /\ lock'.waiting[j] = lock.waiting[j] \ {t}
                         /\ lock'.waiting[j] = {u \in Caller : call'[u] = j}
<1>1. /\ call \in [Caller -> Kind \cup {"none", "marker"}]
      /\ lock.waiting \in [Kind -> SUBSET Caller]
      /\ \A j \in Kind : lock.waiting[j] = {u \in Caller : call[u] = j}
  BY DEF ClientInv, ClientTypeOK, WaitersCounted, LockRecord
<1> SUFFICES ASSUME NEW j \in Kind
             PROVE  /\ lock'.waiting[j] = lock.waiting[j] \ {t}
                    /\ lock'.waiting[j] = {u \in Caller : call'[u] = j}
  OBVIOUS
<1>2. lock'.waiting[j] = lock.waiting[j] \ {t}
  BY <1>1
<1>3. v # j
  BY DEF Kind
<1>4. lock'.waiting[j] = {u \in Caller : call'[u] = j}
  BY <1>1, <1>2, <1>3
<1> QED
  BY <1>2, <1>4

\* A waiter that is back, with the lock as s, gets it.
LEMMA ClientResumes ==
  ASSUME ClientInv, WaitersCounted, NEW t \in Caller, NEW k \in Kind, NEW E, NEW s,
         Busy(s, t, k, E), SameHolds(s, lock), s.waiting = lock.waiting,
         call[t] = k, CanAcquire(s, k, t),
         lock' = Leave(AcquireCore(s, k, t), k, t), Gains(t, k),
         NEW v \in {"none", "marker"}, call' = [call EXCEPT ![t] = v]
  PROVE  WaitersCounted' /\ Kept(lock', E) /\ lock'.cancelled = s.cancelled
<1>1. /\ Kept(lock', E) /\ lock'.cancelled = s.cancelled
      /\ lock'.waiting = [lock.waiting EXCEPT ![k] = @ \ {t}]
  BY AcquireKeeps
<1>2. \A j \in Kind : lock'.waiting[j] = lock.waiting[j] \ {t}
  BY <1>1, WaitsEnd
<1>3. s \in LockRecord
  BY DEF Busy
<1>4. WaitersCounted'
  BY <1>2, <1>3, WaitersGrant
<1> QED
  BY <1>1, <1>4

\* It finds the lock taken, and parks again.
LEMMA ClientParksAgain ==
  ASSUME ClientInv, WaitersCounted, NEW t \in Caller, NEW k \in Kind, NEW E, NEW s,
         Busy(s, t, k, E), SameHolds(s, lock), s.waiting = lock.waiting,
         ~CanAcquire(s, k, t), lock' = Append1(s, k, t), call' = call, held' = held
  PROVE  WaitersCounted' /\ Kept(lock', E) /\ lock'.cancelled = s.cancelled
<1>1. Kept(lock', E) /\ SameWaits(lock', s)
  BY ParkKeeps
<1>2. s \in LockRecord
  BY DEF Busy
<1>3. SameHolds(lock', s)
  BY <1>2, WaitFrame
<1>4. SameHolds(lock', lock)
  BY <1>3, SameHoldsTransitive
<1>5. \A j \in Kind : lock'.waiting[j] = {u \in Caller : call'[u] = j}
  BY <1>1 DEF SameWaits, WaitersCounted
<1>6. WaitersCounted'
  BY <1>4, <1>5, WaitersQuiet
<1> QED
  BY <1>1, <1>6 DEF SameWaits

\* It leaves without the lock.
LEMMA ClientAborts ==
  ASSUME ClientInv, WaitersCounted, NEW t \in Caller, NEW k \in Kind, NEW E, NEW s,
         Busy(s, t, k, E), SameHolds(s, lock), s.waiting = lock.waiting,
         call[t] = k, lock' = OnAbort(Leave(s, k, t), k, t),
         call' = [call EXCEPT ![t] = "none"], held' = held
  PROVE  WaitersCounted' /\ Kept(lock', E) /\ lock'.cancelled = s.cancelled
<1>1. /\ Kept(lock', E) /\ lock'.cancelled = s.cancelled
      /\ lock'.waiting = [lock.waiting EXCEPT ![k] = @ \ {t}]
  BY AbortKeeps
<1>2. \A j \in Kind : lock'.waiting[j] = {u \in Caller : call'[u] = j}
  BY <1>1, WaitsEnd
<1>3. s \in LockRecord
  BY DEF Busy
<1>4. SameHolds(lock', s)
  BY <1>3, AbortEffect
<1>5. SameHolds(lock', lock)
  BY <1>4, SameHoldsTransitive
<1>6. \A u \in Caller : call'[u] \in Kind => call[u] \in Kind
  BY DEF ClientInv, ClientTypeOK, Kind
<1>7. WaitersCounted'
  BY <1>2, <1>5, <1>6, WaitersQuiet
<1> QED
  BY <1>1, <1>7

-----------------------------------------------------------------------------
(* The invariant at the start, and what it gives.                          *)

\* A fresh lock has no waiters.
LEMMA WaitersInit ==
  ASSUME ClientInv, ClientInit, NEW D
  PROVE  WaitersCounted /\ Kept(lock, D) /\ lock.cancelled = {}
<1>1. PICK c \in Classes : lock = NewLock(c[1], c[2])
  BY DEF ClientInit
<1>2. /\ lock.waiting = [k \in Kind |-> {}] /\ lock.queue = [k \in Kind |-> << >>]
      /\ lock.woken = {} /\ lock.cancelled = {} /\ lock.turn = FALSE
      /\ lock.pending = 0 /\ lock.reserved = {} /\ lock.writer = None
  BY <1>1 DEF NewLock
<1>3. lock \in LockRecord
  BY DEF ClientInv, ClientTypeOK
<1>4. Orderly(lock, {})
  BY <1>2 DEF Orderly, Distinct, Queued, Kind
<1>5. PhaseCounted(lock, {}) /\ TurnHeld(lock)
  BY <1>2, FS_EmptySet DEF PhaseCounted, TurnHeld
<1>6. ReadersKept(lock, lock.woken \cup D) /\ WritersKept(lock, lock.woken \cup D)
  BY <1>2 DEF ReadersKept, WritersKept, Kind
<1>7. WaitersCounted
  BY <1>2 DEF WaitersCounted, ClientInit, Kind
<1> QED
  BY <1>2, <1>3, <1>4, <1>5, <1>6, <1>7 DEF Kept, InOrder

\* Nobody is parked who could have the lock, unless somebody is awake.
LEMMA WaitersAgree ==
  ASSUME ClientInv, WaitersCounted, NEW D, Kept(lock, D), NEW awake,
         \A t \in Caller : call[t] \in Kind /\ t \in lock.woken \cup D => t \in awake
  PROVE  QueuesAgree /\ PhaseAgrees /\ WakeupKept(awake)
<1>1. /\ lock \in LockRecord /\ Orderly(lock, {}) /\ PhaseCounted(lock, {}) /\ TurnHeld(lock)
      /\ lock.queue \in [Kind -> Seq(Caller)]
  BY DEF Kept, InOrder, LockRecord
<1>2. QueuesAgree
  <2> SUFFICES ASSUME NEW k \in Kind
               PROVE  LET queued == Queued(lock.queue[k])
                      IN  /\ lock.waiting[k] = {t \in Caller : call[t] = k}
                          /\ queued \subseteq lock.waiting[k] \ lock.woken
                          /\ lock.waiting[k] \ (lock.woken \cup lock.cancelled) \subseteq queued
                          /\ Len(lock.queue[k]) = Cardinality(queued)
    BY DEF QueuesAgree, Queued
  <2>1. lock.queue[k] \in Seq(Caller) /\ Distinct(lock.queue[k])
    BY <1>1 DEF Orderly
  <2>2. Len(lock.queue[k]) = Cardinality(Queued(lock.queue[k]))
    BY <2>1, DistinctLength
  <2> QED
    BY <1>1, <2>2 DEF Orderly, WaitersCounted
<1>3. PhaseAgrees
  BY <1>1 DEF PhaseAgrees, PhaseCounted, TurnHeld
<1>4. WakeupKept(awake)
  <2> SUFFICES ASSUME NEW t \in Caller \ awake, call[t] \in Kind, CanAcquire(lock, call[t], t)
               PROVE  awake # {}
    BY DEF WakeupKept
  <2>1. lock.owners[t] = 0 /\ ~(lock.reentrant /\ lock.writer = t)
    <3>1. held[t].r = 0 /\ (lock.reentrant => held[t].w = 0)
      BY DEF WaitersCounted
    <3>2. lock.owners[t] = held[t].r /\ (lock.writer = t => held[t].w = WriteDepth(lock))
      BY DEF ClientInv, HoldsAgree
    <3>3. lock.reentrant /\ lock.writer = t => lock.depth > 0
      BY CallerAssumption DEF ClientInv, HoldsAgree, HoldsConsistent
    <3> QED
      BY <3>1, <3>2, <3>3 DEF WriteDepth
  <2>2. CASE call[t] = "read"
    <3>1. MayRead(lock, t)
      BY <1>1, <2>1, <2>2, GuardsOfWaiters DEF CanAcquire
    <3>2. t \in lock.waiting["read"]
      BY <2>2 DEF WaitersCounted, Kind
    <3> QED
      BY <3>1, <3>2 DEF Kept, ReadersKept
  <2>3. CASE call[t] = "write"
    <3>1. MayWrite(lock)
      BY <1>1, <2>1, <2>3, GuardsOfWaiters DEF CanAcquire
    <3>2. t \in lock.waiting["write"]
      BY <2>3 DEF WaitersCounted, Kind
    <3>3. PICK u \in lock.waiting["write"] : u \in lock.woken \cup D
      BY <3>1, <3>2 DEF Kept, WritersKept
    <3>4. u \in Caller /\ call[u] \in Kind
      BY <3>3 DEF WaitersCounted, Kind
    <3> QED
      BY <3>3, <3>4
  <2> QED
    BY <2>2, <2>3 DEF Kind
<1> QED
  BY <1>2, <1>3, <1>4

-----------------------------------------------------------------------------
(* Nobody waits for ever on a lock that nobody can give up.                *)

\* The callers never all wait for each other: when one waits, somebody is awake, or
\* holds the lock and does not wait itself.  (A plain lock lets a client wait for
\* the lock that it holds.)
SomebodyMoves(awake) ==
  (\E t \in Caller : call[t] \in Kind)
    => \/ awake # {}
       \/ \E t \in Caller : Promise!Holds(t) /\ (call[t] \in Kind => WaitsForItself(t))

\* A lock that nobody holds has one of its waiters awake: in each policy, and each
\* phase, one kind of them may have it.
LEMMA FreeLockWakes ==
  ASSUME NEW s \in LockRecord, NEW D, Kept(s, D), s.writer = None, s.active = 0,
         NEW k \in Kind, s.waiting[k] # {}
  PROVE  \E j \in Kind : s.waiting[j] \cap (s.woken \cup D) # {}
<1>1. PhaseCounted(s, {}) /\ s.policy \in Policy
  BY DEF Kept, InOrder, LockRecord
<1>2. ASSUME NEW t \in s.waiting["read"], MayRead(s, t)
      PROVE  s.waiting["read"] \cap (s.woken \cup D) # {}
  BY <1>2 DEF Kept, ReadersKept
<1>3. MayWrite(s) /\ s.waiting["write"] # {} => s.waiting["write"] \cap (s.woken \cup D) # {}
  BY DEF Kept, WritersKept
<1>4. CASE s.waiting["read"] # {} /\ s.waiting["write"] = {}
  BY <1>2, <1>4 DEF MayRead, Kind
<1>5. CASE s.waiting["write"] # {} /\ ~MayWrite(s)
  <2>1. \/ s.policy = "read" /\ s.waiting["read"] # {}
        \/ s.policy = "phase" /\ s.turn /\ s.waiting["read"] # {}
        \/ s.policy = "fair" /\ s.pending > 0
    BY <1>5 DEF MayWrite
  <2>2. s.pending > 0 => s.reserved # {}
    BY <1>1, SlotsPending
  <2>3. s.reserved \subseteq s.waiting["read"]
    BY <1>1 DEF PhaseCounted
  <2>4. \E t \in s.waiting["read"] : MayRead(s, t)
    BY <2>1, <2>2, <2>3 DEF MayRead
  <2> QED
    BY <1>2, <2>4 DEF Kind
<1>6. CASE s.waiting["write"] # {} /\ MayWrite(s)
  BY <1>3, <1>6 DEF Kind
<1> QED
  BY <1>4, <1>5, <1>6 DEF Kind

LEMMA WaitersMove ==
  ASSUME ClientInv, WaitersCounted, NEW D, Kept(lock, D), NEW awake,
         \A t \in Caller : call[t] \in Kind /\ t \in lock.woken \cup D => t \in awake
  PROVE  SomebodyMoves(awake)
<1> SUFFICES ASSUME NEW t \in Caller, call[t] \in Kind
             PROVE  \/ awake # {}
                    \/ \E u \in Caller : Promise!Holds(u)
                                           /\ (call[u] \in Kind => WaitsForItself(u))
  BY DEF SomebodyMoves
<1>1. /\ lock \in LockRecord /\ HoldsConsistent(lock)
      /\ held \in [Caller -> [r : Nat, w : Nat]]
      /\ \A u \in Caller : /\ lock.owners[u] = held[u].r
                           /\ held[u].w = IF lock.writer = u THEN WriteDepth(lock) ELSE 0
  BY DEF ClientInv, ClientTypeOK, HoldsAgree
<1>2. \A u \in Caller : call[u] \in Kind =>
        held[u].r = 0 /\ (lock.reentrant => held[u].w = 0)
  BY DEF WaitersCounted
<1>3. CASE lock.writer # None
  <2>1. lock.writer \in Caller /\ WriteDepth(lock) > 0
    BY <1>1, <1>3 DEF LockRecord, HoldsConsistent, WriteDepth
  <2>2. held[lock.writer].w > 0 /\ held[lock.writer].r \in Nat
    BY <1>1, <2>1
  <2>3. call[lock.writer] \in Kind => WaitsForItself(lock.writer)
    <3> SUFFICES ASSUME call[lock.writer] \in Kind PROVE ~lock.reentrant
      BY DEF WaitsForItself
    <3> QED
      BY <1>1, <1>2, <2>1, <2>2 DEF LockRecord
  <2>4. held[lock.writer].w \in Nat
    BY <1>1, <2>1
  <2>5. Promise!Holds(lock.writer)
    BY <2>2, <2>4 DEF Promise!Holds
  <2> QED
    BY <2>1, <2>3, <2>5
<1>4. CASE lock.writer = None /\ lock.active # 0
  <2>1. ReadHolds(lock) # {}
    BY <1>1, <1>4, FS_EmptySet DEF HoldsConsistent
  <2>2. PICK u \in Caller : lock.owners[u] > 0
    BY <1>1, <2>1 DEF ReadHolds, LockRecord
  <2>3. held[u].r > 0 /\ held[u].r \in Nat /\ held[u].w \in Nat
    BY <1>1, <2>2
  <2> QED
    BY <1>2, <2>3 DEF Promise!Holds
<1>5. CASE lock.writer = None /\ lock.active = 0
  <2>1. lock.waiting[call[t]] # {}
    BY DEF WaitersCounted
  <2>2. PICK j \in Kind : \E u \in lock.waiting[j] : u \in lock.woken \cup D
    <3>1. \E j \in Kind : lock.waiting[j] \cap (lock.woken \cup D) # {}
      BY <1>1, <1>5, <2>1, FreeLockWakes
    <3> QED
      BY <3>1
  <2>3. PICK u \in lock.waiting[j] : u \in lock.woken \cup D
    BY <2>2
  <2>4. u \in Caller /\ call[u] \in Kind
    BY <2>2, <2>3 DEF WaitersCounted
  <2> QED
    BY <2>3, <2>4
<1> QED
  BY <1>3, <1>4, <1>5

=============================================================================

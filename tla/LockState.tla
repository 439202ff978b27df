----------------------------- MODULE LockState -----------------------------
(***************************************************************************)
(* The attributes of one RWLock object and of its two proxies, as a        *)
(* record, and the bookkeeping that every policy shares.  The core methods *)
(* of the code run to their end under the lock's mutex (or between two     *)
(* awaits), and call each other; here each is an operator from a record to *)
(* a record, and the caller's identity is a parameter.                     *)
(***************************************************************************)
EXTENDS Naturals, Sequences, FiniteSets

CONSTANTS Caller,   \* threads, or asyncio tasks
          None      \* Python's None

ASSUME CallerAssumption == IsFiniteSet(Caller) /\ None \notin Caller

Kind == {"read", "write"}                        \* lock.read, lock.write

Policy == {"write", "read", "phase", "fair"}     \* the four policy mixins

LockRecord ==
  [policy    : Policy,
   reentrant : BOOLEAN,                  \* one of the ...ReentrantWriter classes
   writer    : Caller \cup {None},       \* _writer_owner, or _writer_id
   depth     : Nat,                      \* _write_count of the reentrant classes
   active    : Nat,                      \* _readers_active
   owners    : [Caller -> Nat],          \* _reader_owners, 0 for an absent key
   waiting   : [Kind -> SUBSET Caller],  \* whose wait those_waiting counts
   queue     : [Kind -> Seq(Caller)],    \* condition._waiters, the deque
   woken     : SUBSET Caller,            \* waiters released by a notify
   cancelled : SUBSET Caller,            \* waiters whose future is done
   turn      : BOOLEAN,                  \* _readers_turn
   pending   : Nat,                      \* _reader_phase_pending
   reserved  : SUBSET Caller]            \* waiters up to _reader_phase_cutoff

NewLock(policy, reentrant) ==
  [policy    |-> policy,
   reentrant |-> reentrant,
   writer    |-> None,
   depth     |-> 0,
   active    |-> 0,
   owners    |-> [t \in Caller |-> 0],
   waiting   |-> [k \in Kind |-> {}],
   queue     |-> [k \in Kind |-> << >>],
   woken     |-> {},
   cancelled |-> {},
   turn      |-> FALSE,
   pending   |-> 0,
   reserved  |-> {}]

-----------------------------------------------------------------------------
(* The wait queues.                                                        *)

HasWaiters(s, k) == s.queue[k] # << >>

\* The positions that "while waiters and n > 0" pops: a cancelled waiter is
\* popped too, and does not use up n.
Popped(q, n, dead) ==
  {i \in 1 .. Len(q) : Cardinality({j \in 1 .. (i - 1) : q[j] \notin dead}) < n}

Notify(s, k, n) ==
  LET q   == s.queue[k]
      pop == Popped(q, n, s.cancelled)
  IN  [s EXCEPT !.queue[k] = SubSeq(q, Cardinality(pop) + 1, Len(q)),
                !.woken    = @ \cup ({q[i] : i \in pop} \ s.cancelled)]

NotifyAll(s, k) == Notify(s, k, Len(s.queue[k]))

Append1(s, k, t) == [s EXCEPT !.queue[k] = Append(@, t)]

\* deque.remove, which does nothing when the waiter was popped already.
Without(q, t) ==
  IF \E i \in 1 .. Len(q) : q[i] = t
  THEN LET i == CHOOSE i \in 1 .. Len(q) : q[i] = t
       IN  SubSeq(q, 1, i - 1) \o SubSeq(q, i + 1, Len(q))
  ELSE q

Discard(s, k, t) == [s EXCEPT !.queue[k] = Without(@, t)]

-----------------------------------------------------------------------------
(* Readers, the writer, and those who wait.                                *)

AddReader(s, t) == [s EXCEPT !.active = @ + 1, !.owners[t] = @ + 1]

DropReader(s, t) == [s EXCEPT !.active = @ - 1, !.owners[t] = @ - 1]

\* _readers_active > 0 and _is_current_reader()
IsNestedReader(s, t) == s.active > 0 /\ s.owners[t] > 0

\* _writer_active: the reentrant classes never set it, they use _writer_id.
WriterActive(s) == ~s.reentrant /\ s.writer # None

\* Mutants: the downgrade counts no reader, or keeps the write depth.
UncountedDowngrade(s, t) ==
  [s EXCEPT !.writer = None, !.depth = 0, !.owners[t] = @ + 1]
DowngradeKeepingDepth(s, t) == AddReader([s EXCEPT !.writer = None], t)

\* The write hold becomes a read hold (every _downgrade_core begins so).
WriterToReader(s, t) == AddReader([s EXCEPT !.writer = None, !.depth = 0], t)

Join(s, k, t) == [s EXCEPT !.waiting[k] = @ \cup {t}]

Leave(s, k, t) == [s EXCEPT !.waiting[k] = @ \ {t}]

-----------------------------------------------------------------------------
(* What the attributes say of the holds, and how they must agree.          *)

\* One element for each read hold recorded in _reader_owners.
ReadHolds(s) == UNION {{t} \X (1 .. s.owners[t]) : t \in Caller}

\* How often its writer holds the lock.
WriteDepth(s) == IF s.reentrant THEN s.depth ELSE 1

\* _readers_active is the sum of _reader_owners, no other caller reads beside
\* the writer, and the reentrant classes count the writer's holds.
HoldsConsistent(s) ==
  /\ IsFiniteSet(ReadHolds(s))
  /\ s.active = Cardinality(ReadHolds(s))
  /\ s.writer # None => \A u \in Caller \ {s.writer} : s.owners[u] = 0
  /\ s.depth > 0 <=> s.reentrant /\ s.writer # None

=============================================================================

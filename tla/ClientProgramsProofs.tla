------------------------ MODULE ClientProgramsProofs ------------------------
(***************************************************************************)
(* The example programs.  First what the steps of ConditionPrograms do to  *)
(* the condition when the caller is where the program has it: the holds    *)
(* stay exclusive.  Then one program after the other: which points of it   *)
(* hold which side of the lock, and what follows for its data.             *)
(***************************************************************************)
EXTENDS ClientPrograms, FiniteSetTheorems, SequenceTheorems, TLAPS

Nothing == [r |-> 0, w |-> 0]

ReadHold == Cond!Single("read")

WriteHold == Cond!Single("write")

OneHold == {ReadHold, WriteHold}

Waiting == [stage : {"out", "apart", "back"}, kind : {"read", "write"}, limited : BOOLEAN]

\* Nobody holds the lock twice, and who writes is alone.
CondInv ==
  /\ held \in [Caller -> {Nothing} \cup OneHold]
  /\ Cond!Lock!MutualExclusion
  /\ line \in Seq(Caller)
  /\ told \subseteq Caller
  /\ wait \in [Caller -> Waiting]

\* Who sleeps has given up its hold, or has it back.
SleeperHolds(t) ==
  \/ wait[t].stage = "apart" /\ held[t] = Nothing
  \/ wait[t].stage = "back" /\ held[t] = Cond!Single(wait[t].kind)

\* What a caller holds at each point of its program: the points where it writes,
\* those where it reads, and those where it may do either.
Stands(t, writing, reading, either) ==
  IF pc[t] = "asleep"
  THEN SleeperHolds(t)
  ELSE /\ wait[t].stage = "out"
       /\ pc[t] \in writing => held[t] = WriteHold
       /\ pc[t] \in reading => held[t] = ReadHold
       /\ pc[t] \in either => held[t] \in OneHold
       /\ pc[t] \notin writing \cup reading \cup either => held[t] = Nothing

Holding(writing, reading, either) ==
  /\ pc = [t \in Caller |-> pc[t]]
  /\ \A t \in Caller : Stands(t, writing, reading, either)

\* Everybody who sleeps waits in a section of the kind k.
SleepsIn(k) == \A t \in Caller : pc[t] = "asleep" => wait[t].kind = k

\* A payment that is booked stays the last one until it has been audited.
LedgerInv ==
  /\ Holding({"book", "booked"}, {"audit"}, {"leave"})
  /\ data = [balance |-> data.balance, log |-> data.log, amount |-> data.amount,
             made |-> data.made, audited |-> data.audited]
  /\ data.log \in Seq(Caller)
  /\ data.made = [t \in Caller |-> data.made[t]]
  /\ data.audited = [t \in Caller |-> data.audited[t]]
  /\ \A t \in Caller :
       /\ pc[t] \in {"booked", "audit"} =>
            /\ data.made[t] = data.balance
            /\ data.log # << >> /\ data.log[Len(data.log)] = t
       /\ pc[t] \in {"pay", "book", "booked", "audit"} => data.audited[t] = None
       /\ data.audited[t] \in {None, data.made[t]}

\* Who fetches does so because the token is expired, and nobody else sees to it.
TokenInv ==
  /\ Holding({"fetch"}, {"stale"}, {"leave"})
  /\ data \in [expired : BOOLEAN, fetches : Nat, invalidations : Nat]
  /\ \A t \in Caller : pc[t] = "fetch" => data.expired
  /\ data.fetches + (IF data.expired THEN 1 ELSE 0) <= data.invalidations

Owns(t) == pc[t] \in {"claimed", "load", "publish", "recover", "unclaim"}

\* The flag is set as long as there is an owner, and there is one at most.
ConfigInv ==
  /\ Holding({"claim", "claimed", "publish", "unclaim"}, {"look"}, {"leave"})
  /\ data \in [refreshing : BOOLEAN, version : Nat, cancelled : SUBSET Caller]
  /\ data.refreshing <=> \E t \in Caller : Owns(t)
  /\ \A t, u \in Caller : Owns(t) /\ Owns(u) => t = u

\* Nobody stands in the line twice, and who is in it has not been told.
Lined ==
  /\ \A i, j \in 1 .. Len(line) : line[i] = line[j] => i = j
  /\ \A i \in 1 .. Len(line) : pc[line[i]] = "asleep" /\ line[i] \notin told
  /\ \A t \in Caller :
       /\ t \in told => pc[t] = "asleep"
       /\ pc[t] = "asleep" => ~wait[t].limited /\ (wait[t].stage = "back" => t \in told)

Fetchers == {t \in Caller : t \in told \/ pc[t] \in {"consume", "look"}}

QueueInv ==
  /\ Holding({"extend", "leave", "look", "taken"}, {}, {})
  /\ SleepsIn("write")
  /\ data = [jobs |-> data.jobs, todo |-> data.todo]
  /\ data.jobs \in Nat
  /\ Lined
  /\ line # << >> => data.jobs <= Cardinality(Fetchers)

\* A commit that has not been uploaded keeps the lock until it is.
SyncInv ==
  /\ Holding({"committed", "announcing"}, {"upload", "uploaded", "look"}, {"leave"})
  /\ SleepsIn("read")
  /\ data \in [completed : BOOLEAN, committed : SUBSET Caller, uploaded : SUBSET Caller]
  /\ \A t \in data.committed : t \in data.uploaded \/ pc[t] \in {"committed", "upload"}
  /\ data.completed => data.committed \subseteq data.uploaded

\* The answer is given in the read section.
BootInv ==
  /\ Holding({"marked", "leave"}, {"look", "answered"}, {})
  /\ SleepsIn("read")
  /\ data = [ready |-> data.ready, late |-> data.late, success |-> data.success]
  /\ data.ready \in BOOLEAN
  /\ data.late \subseteq Caller
  /\ data.success = [t \in Caller |-> data.success[t]]
  /\ \A t \in Caller : pc[t] = "answered" => (data.success[t] <=> data.ready)

ProgramInv ==
  /\ CondInv
  /\ program \in {"ledger", "token", "config", "queue", "sync", "boot"}
  /\ program = "ledger" => LedgerInv
  /\ program = "token" => TokenInv
  /\ program = "config" => ConfigInv
  /\ program = "queue" => QueueInv
  /\ program = "sync" => SyncInv
  /\ program = "boot" => BootInv

-----------------------------------------------------------------------------
(* The steps of the condition.                                             *)

LEMMA HoldValues ==
  /\ ReadHold = [r |-> 1, w |-> 0]
  /\ WriteHold = [r |-> 0, w |-> 1]
BY DEF ReadHold, WriteHold, Cond!Single

\* The lock grants a caller without a hold one, and keeps the others out.
LEMMA GrantEffect ==
  ASSUME CondInv, NEW t \in Caller, held[t] = Nothing, NEW k \in {"read", "write"},
         IF k = "read" THEN Cond!Lock!AcquireRead(t) ELSE Cond!Lock!AcquireWrite(t)
  PROVE  /\ held' = [held EXCEPT ![t] = Cond!Single(k)]
         /\ held' \in [Caller -> {Nothing} \cup OneHold]
         /\ Cond!Lock!MutualExclusion'
<1>1. CASE k = "read"
  <2>1. /\ \A u \in Caller \ {t} : held[u].w = 0
        /\ held' = [held EXCEPT ![t].r = @ + 1]
    BY <1>1 DEF Cond!Lock!AcquireRead
  <2>2. held' = [held EXCEPT ![t] = ReadHold]
    <3>1. [held[t] EXCEPT !.r = @ + 1] = ReadHold
      BY HoldValues DEF Nothing
    <3> QED
      BY <2>1, <3>1
  <2>3. Cond!Lock!MutualExclusion'
    BY <2>1, <2>2, HoldValues
    DEF CondInv, OneHold, Nothing, Cond!Lock!MutualExclusion, Cond!Lock!Holds
  <2> QED
    BY <1>1, <2>2, <2>3 DEF CondInv, OneHold, ReadHold
<1>2. CASE k = "write"
  <2>1. /\ \A u \in Caller \ {t} : ~Cond!Lock!Holds(u)
        /\ held' = [held EXCEPT ![t].w = @ + 1]
    BY <1>2 DEF Cond!Lock!AcquireWrite
  <2>2. held' = [held EXCEPT ![t] = WriteHold]
    <3>1. [held[t] EXCEPT !.w = @ + 1] = WriteHold
      BY HoldValues DEF Nothing
    <3> QED
      BY <2>1, <3>1
  <2>3. Cond!Lock!MutualExclusion'
    BY <2>1, <2>2, HoldValues
    DEF CondInv, OneHold, Nothing, Cond!Lock!MutualExclusion, Cond!Lock!Holds
  <2> QED
    BY <1>2, <2>2, <2>3 DEF CondInv, OneHold, WriteHold
<1> QED
  BY <1>1, <1>2

\* with cond.read, with cond.write: a caller without a hold gets one.
LEMMA AcquireEffect ==
  ASSUME CondInv, NEW t \in Caller, held[t] = Nothing, NEW k \in {"read", "write"},
         Acquire(t, k)
  PROVE  /\ held' = [held EXCEPT ![t] = Cond!Single(k)]
         /\ line' = line /\ told' = told /\ wait' = wait
         /\ CondInv'
<1>1. /\ line' = line /\ told' = told /\ wait' = wait
      /\ IF k = "read" THEN Cond!Lock!AcquireRead(t) ELSE Cond!Lock!AcquireWrite(t)
  BY DEF Acquire
<1> QED
  BY <1>1, GrantEffect DEF CondInv

\* The end of a section: its hold is gone.
LEMMA ReleaseEffect ==
  ASSUME CondInv, NEW t \in Caller, held[t] \in OneHold, Release(t)
  PROVE  /\ held' = [held EXCEPT ![t] = Nothing]
         /\ line' = line /\ told' = told /\ wait' = wait
         /\ CondInv'
<1>1. line' = line /\ told' = told /\ wait' = wait
  BY DEF Release
<1>2. held' = [held EXCEPT ![t] = Nothing]
  <2>1. CASE held[t] = ReadHold
    BY <2>1, HoldValues DEF Release, Cond!Lock!ReleaseRead, CondInv, Nothing
  <2>2. CASE held[t] = WriteHold
    BY <2>2, HoldValues DEF Release, Cond!Lock!ReleaseWrite, CondInv, Nothing
  <2> QED
    BY <2>1, <2>2 DEF OneHold
<1>3. Cond!Lock!MutualExclusion'
  BY <1>2 DEF CondInv, Nothing, Cond!Lock!MutualExclusion, Cond!Lock!Holds
<1> QED
  BY <1>1, <1>2, <1>3 DEF CondInv

\* The writer becomes a reader.
LEMMA DowngradeEffect ==
  ASSUME CondInv, NEW t \in Caller, held[t] = WriteHold, Downgrade(t)
  PROVE  /\ held' = [held EXCEPT ![t] = ReadHold]
         /\ line' = line /\ told' = told /\ wait' = wait
         /\ CondInv'
<1>1. line' = line /\ told' = told /\ wait' = wait
  BY DEF Downgrade
<1>2. held' = [held EXCEPT ![t] = ReadHold]
  BY HoldValues DEF Downgrade, Cond!Lock!Downgrade, CondInv
<1>3. Cond!Lock!MutualExclusion'
  <2>1. held[t].w > 0 /\ held'[t].w = 0
    BY <1>2, HoldValues DEF CondInv
  <2>2. \A u \in Caller \ {t} : held[u] = Nothing
    BY <2>1, HoldValues
    DEF CondInv, OneHold, Nothing, Cond!Lock!MutualExclusion, Cond!Lock!Holds
  <2> QED
    BY <1>2, <2>1, <2>2 DEF CondInv, Nothing, Cond!Lock!MutualExclusion
<1> QED
  BY <1>1, <1>2, <1>3 DEF CondInv, OneHold

\* A statement of the program.
LEMMA NoConditionEffect ==
  ASSUME CondInv, NoCondition
  PROVE  /\ held' = held /\ line' = line /\ told' = told /\ wait' = wait
         /\ CondInv'
BY DEF CondInv, NoCondition, condVars, Cond!Lock!MutualExclusion, Cond!Lock!Holds

\* cond.notify(n) pops the first n of the line, or all of them.
LEMMA NotifyEffect ==
  ASSUME CondInv, NEW t \in Caller, NEW n \in Nat, NotifyUpTo(t, n)
  PROVE  /\ held' = held /\ wait' = wait
         /\ CondInv'
<1> DEFINE m == IF n < Len(line) THEN n ELSE Len(line)
<1>1. m \in 0 .. Len(line) /\ Len(line) \in Nat
  BY DEF CondInv
<1>2. CASE m = 0
  <2>1. held' = held /\ line' = line /\ told' = told /\ wait' = wait
    BY <1>2 DEF NotifyUpTo, condVars
  <2> QED
    BY <2>1 DEF CondInv, Cond!Lock!MutualExclusion, Cond!Lock!Holds
<1>3. CASE m # 0
  <2>1. /\ told' = told \cup ({line[i] : i \in 1 .. m} \ {None})
        /\ line' = SubSeq(line, m + 1, Len(line))
        /\ held' = held /\ wait' = wait
    BY <1>3 DEF NotifyUpTo, Cond!Notify
  <2> HIDE DEF m
  <2>2. line' \in Seq(Caller)
    BY <2>1, <1>1, SubSeqProperties DEF CondInv
  <2>3. told' \subseteq Caller
    BY <2>1, <1>1 DEF CondInv
  <2> QED
    BY <2>1, <2>2, <2>3 DEF CondInv, Cond!Lock!MutualExclusion, Cond!Lock!Holds
<1> QED
  BY <1>2, <1>3

LEMMA NotifyAllEffect ==
  ASSUME CondInv, NEW t \in Caller, NotifyAll(t)
  PROVE  held' = held /\ wait' = wait /\ CondInv'
<1>1. Len(line) \in Nat
  BY DEF CondInv
<1> QED
  BY <1>1, NotifyEffect DEF NotifyAll

\* cond.wait() gives up the hold and joins the line.
LEMMA WaitEffect ==
  ASSUME CondInv, NEW t \in Caller, NEW k \in {"read", "write"}, NEW limited \in BOOLEAN,
         Cond!Wait(t, k, limited)
  PROVE  /\ held' = [held EXCEPT ![t] = Nothing]
         /\ line' = Append(line, t) /\ told' = told
         /\ wait' = [wait EXCEPT ![t] = [stage |-> "apart", kind |-> k, limited |-> limited]]
         /\ CondInv'
<1>1. /\ held' = [held EXCEPT ![t] = Nothing]
      /\ line' = Append(line, t) /\ told' = told
      /\ wait' = [wait EXCEPT ![t] = [stage |-> "apart", kind |-> k, limited |-> limited]]
  BY DEF Cond!Wait, Nothing
<1>2. Cond!Lock!MutualExclusion'
  BY <1>1 DEF CondInv, Nothing, Cond!Lock!MutualExclusion, Cond!Lock!Holds
<1>3. line' \in Seq(Caller)
  BY <1>1, AppendProperties DEF CondInv
<1> QED
  BY <1>1, <1>2, <1>3 DEF CondInv, Waiting

\* Leaving the line from wherever one stands in it.
LEMMA LineWithoutType ==
  ASSUME line \in Seq(Caller), NEW t \in Caller
  PROVE  Cond!LineWithout(t) \in Seq(Caller)
<1> DEFINE i == CHOOSE i \in 1 .. Len(line) : line[i] = t
<1>1. CASE Cond!InLine(t)
  <2>1. i \in 1 .. Len(line) /\ Len(line) \in Nat
    BY <1>1 DEF Cond!InLine
  <2>2. Cond!LineWithout(t) = SubSeq(line, 1, i - 1) \o SubSeq(line, i + 1, Len(line))
    BY <1>1 DEF Cond!LineWithout
  <2> HIDE DEF i
  <2>3. /\ SubSeq(line, 1, i - 1) \in Seq(Caller)
        /\ SubSeq(line, i + 1, Len(line)) \in Seq(Caller)
    BY <2>1, SubSeqProperties
  <2> QED
    BY <2>2, <2>3, ConcatProperties
<1>2. CASE ~Cond!InLine(t)
  BY <1>2 DEF Cond!LineWithout
<1> QED
  BY <1>1, <1>2

\* A wait that ends by itself.
LEMMA GiveUpEffect ==
  ASSUME CondInv, NEW t \in Caller, Cond!GiveUp(t)
  PROVE  /\ held' = held /\ told' = told /\ wait' = wait
         /\ CondInv'
<1>1. held' = held /\ told' = told /\ wait' = wait /\ line' = Cond!LineWithout(t)
  BY DEF Cond!GiveUp
<1>2. line' \in Seq(Caller)
  BY <1>1, LineWithoutType DEF CondInv
<1> QED
  BY <1>1, <1>2 DEF CondInv, Cond!Lock!MutualExclusion, Cond!Lock!Holds

\* The waiter has the hold that it gave up again, and is alone if it writes.
LEMMA RegainEffect ==
  ASSUME CondInv, NEW t \in Caller, held[t] = Nothing, Cond!Regain(t)
  PROVE  /\ held' = [held EXCEPT ![t] = Cond!Single(wait[t].kind)]
         /\ line' = line /\ told' = told
         /\ wait' = [wait EXCEPT ![t].stage = "back"]
         /\ wait[t].stage = "apart"
         /\ CondInv'
<1> DEFINE k == wait[t].kind
<1>1. /\ line' = line /\ told' = told
      /\ wait' = [wait EXCEPT ![t].stage = "back"]
      /\ wait[t].stage = "apart"
  BY DEF Cond!Regain
<1>2. k \in {"read", "write"} /\ wait' \in [Caller -> Waiting]
  BY <1>1 DEF CondInv, Waiting
<1>3. IF k = "read" THEN Cond!Lock!AcquireRead(t) ELSE Cond!Lock!AcquireWrite(t)
  BY DEF Cond!Regain
<1> HIDE DEF k
<1>4. /\ held' = [held EXCEPT ![t] = Cond!Single(k)]
      /\ held' \in [Caller -> {Nothing} \cup OneHold]
      /\ Cond!Lock!MutualExclusion'
  BY <1>2, <1>3, GrantEffect
<1>5. CondInv'
  BY <1>1, <1>2, <1>4 DEF CondInv
<1> QED
  BY <1>1, <1>4, <1>5 DEF k

\* wait() returns with that hold.
LEMMA ReturnEffect ==
  ASSUME CondInv, NEW t \in Caller, Cond!Return(t)
  PROVE  /\ held' = held /\ line' = Cond!LineWithout(t) /\ told' = told \ {t}
         /\ wait' = [wait EXCEPT ![t] = Cond!Out]
         /\ wait[t].stage = "back"
         /\ CondInv'
<1>1. /\ held' = held /\ line' = Cond!LineWithout(t) /\ told' = told \ {t}
      /\ wait' = [wait EXCEPT ![t] = Cond!Out]
      /\ wait[t].stage = "back"
  BY DEF Cond!Return, Cond!Leave
<1>2. line' \in Seq(Caller)
  BY <1>1, LineWithoutType DEF CondInv
<1> QED
  BY <1>1, <1>2
  DEF CondInv, Waiting, Cond!Out, Cond!Lock!MutualExclusion, Cond!Lock!Holds

-----------------------------------------------------------------------------
(* The moves of a program: which points a step may go between.             *)

\* Only the caller that moves has to be looked at.
LEMMA OthersStand ==
  ASSUME NEW writing, NEW reading, NEW either, Holding(writing, reading, either),
         NEW t \in Caller, NEW p, pc' = [pc EXCEPT ![t] = p],
         \A u \in Caller \ {t} : held'[u] = held[u] /\ wait'[u] = wait[u],
         Stands(t, writing, reading, either)'
  PROVE  Holding(writing, reading, either)'
<1>1. pc' = [u \in Caller |-> pc'[u]]
  BY DEF Holding
<1>2. ASSUME NEW u \in Caller, u # t PROVE Stands(u, writing, reading, either)'
  BY <1>2 DEF Holding, Stands, SleeperHolds
<1> QED
  BY <1>1, <1>2 DEF Holding

\* A section is entered.
LEMMA EnterMove ==
  ASSUME CondInv,
         NEW writing, NEW reading, NEW either, Holding(writing, reading, either),
         NEW t \in Caller, NEW k \in {"read", "write"}, NEW from, NEW to,
         Move(t, from, to), Acquire(t, k),
         from \notin writing \cup reading \cup either, from # "asleep",
         to # "asleep", to \in either \/ to \in (IF k = "read" THEN reading ELSE writing),
         to \notin (IF k = "read" THEN writing ELSE reading)
  PROVE  CondInv' /\ Holding(writing, reading, either)'
<1>1. held[t] = Nothing /\ wait[t].stage = "out"
  BY DEF Holding, Stands, Move
<1>2. /\ held' = [held EXCEPT ![t] = Cond!Single(k)] /\ wait' = wait
      /\ CondInv'
  BY <1>1, AcquireEffect
<1>3. held'[t] = Cond!Single(k) /\ wait'[t].stage = "out" /\ pc'[t] = to
  BY <1>1, <1>2 DEF CondInv, Holding, Move
<1>4. Stands(t, writing, reading, either)'
  BY <1>3 DEF Stands, OneHold, ReadHold, WriteHold
<1> QED
  BY <1>2, <1>4, OthersStand DEF Move, CondInv

\* A section is left.
LEMMA LeaveMove ==
  ASSUME CondInv,
         NEW writing, NEW reading, NEW either, Holding(writing, reading, either),
         NEW t \in Caller, NEW from, NEW to, Move(t, from, to), Release(t),
         from \in writing \cup reading \cup either, from # "asleep",
         to \notin writing \cup reading \cup either, to # "asleep"
  PROVE  CondInv' /\ Holding(writing, reading, either)'
<1>1. held[t] \in OneHold /\ wait[t].stage = "out"
  BY DEF Holding, Stands, Move, OneHold
<1>2. held' = [held EXCEPT ![t] = Nothing] /\ wait' = wait /\ CondInv'
  BY <1>1, ReleaseEffect
<1>3. held'[t] = Nothing /\ wait'[t].stage = "out" /\ pc'[t] = to
  BY <1>1, <1>2 DEF CondInv, Holding, Move
<1>4. Stands(t, writing, reading, either)'
  BY <1>3 DEF Stands
<1> QED
  BY <1>2, <1>4, OthersStand DEF Move, CondInv

\* The section of a writer becomes one of a reader.
LEMMA DowngradeMove ==
  ASSUME CondInv,
         NEW writing, NEW reading, NEW either, Holding(writing, reading, either),
         NEW t \in Caller, NEW from, NEW to, Move(t, from, to), Downgrade(t),
         from \in writing, from # "asleep", to \in reading \ writing, to # "asleep"
  PROVE  CondInv' /\ Holding(writing, reading, either)'
<1>1. held[t] = WriteHold /\ wait[t].stage = "out"
  BY DEF Holding, Stands, Move
<1>2. held' = [held EXCEPT ![t] = ReadHold] /\ wait' = wait /\ CondInv'
  BY <1>1, DowngradeEffect
<1>3. held'[t] = ReadHold /\ wait'[t].stage = "out" /\ pc'[t] = to
  BY <1>1, <1>2 DEF CondInv, Holding, Move
<1>4. Stands(t, writing, reading, either)'
  BY <1>3 DEF Stands, OneHold
<1> QED
  BY <1>2, <1>4, OthersStand DEF Move, CondInv

\* A statement, or a notify, in a section or outside of every one.
LEMMA StayMove ==
  ASSUME NEW writing, NEW reading, NEW either, Holding(writing, reading, either),
         NEW t \in Caller, NEW from, NEW to, Move(t, from, to),
         held' = held, wait' = wait, from # "asleep", to # "asleep",
         to \in writing => from \in writing,
         to \in reading => from \in reading,
         (to \in writing \cup reading \cup either)
           <=> (from \in writing \cup reading \cup either)
  PROVE  Holding(writing, reading, either)'
<1>1. pc[t] = from /\ pc'[t] = to /\ pc' = [pc EXCEPT ![t] = to]
  BY DEF Holding, Move
<1>2. Stands(t, writing, reading, either)'
  BY <1>1 DEF Holding, Stands, OneHold
<1> QED
  BY <1>1, <1>2, OthersStand

\* wait() is called, in the loop of wait_for.
LEMMA WaitMove ==
  ASSUME CondInv,
         NEW writing, NEW reading, NEW either, Holding(writing, reading, either),
         NEW t \in Caller, NEW k \in {"read", "write"}, NEW limited \in BOOLEAN,
         NEW look, WaitAt(t, k, limited, look, "asleep")
  PROVE  CondInv' /\ Holding(writing, reading, either)'
<1>1. /\ pc' = [pc EXCEPT ![t] = "asleep"]
      /\ held' = [held EXCEPT ![t] = Nothing]
      /\ wait' = [wait EXCEPT ![t] = [stage |-> "apart", kind |-> k, limited |-> limited]]
      /\ CondInv'
  BY WaitEffect DEF WaitAt, Move
<1>2. pc'[t] = "asleep" /\ held'[t] = Nothing /\ wait'[t].stage = "apart"
  BY <1>1 DEF CondInv, Holding
<1>3. Stands(t, writing, reading, either)'
  BY <1>2 DEF Stands, SleeperHolds
<1>4. \A u \in Caller \ {t} : held'[u] = held[u] /\ wait'[u] = wait[u]
  BY <1>1 DEF CondInv
<1> QED
  BY <1>1, <1>3, <1>4, OthersStand

\* The wait ends, the lock not being had back yet.
LEMMA StopsWaitingMove ==
  ASSUME CondInv,
         NEW writing, NEW reading, NEW either, Holding(writing, reading, either),
         NEW t \in Caller, StopsWaiting(t, "asleep")
  PROVE  CondInv' /\ Holding(writing, reading, either)'
<1>1. held' = held /\ wait' = wait /\ pc' = pc /\ CondInv'
  BY GiveUpEffect DEF StopsWaiting
<1> QED
  BY <1>1 DEF Holding, Stands, SleeperHolds

\* The lock is had back.
LEMMA ComesBackMove ==
  ASSUME CondInv,
         NEW writing, NEW reading, NEW either, Holding(writing, reading, either),
         NEW t \in Caller, ComesBack(t, "asleep")
  PROVE  CondInv' /\ Holding(writing, reading, either)'
<1>1. pc[t] = "asleep" /\ pc' = pc /\ Cond!Regain(t)
  BY DEF ComesBack
<1>2. held[t] = Nothing
  BY <1>1 DEF Holding, Stands, SleeperHolds, Cond!Regain
<1>3. /\ held' = [held EXCEPT ![t] = Cond!Single(wait[t].kind)]
      /\ wait' = [wait EXCEPT ![t].stage = "back"]
      /\ CondInv'
  BY <1>1, <1>2, RegainEffect
<1>4. /\ held'[t] = Cond!Single(wait[t].kind)
      /\ wait'[t].stage = "back" /\ wait'[t].kind = wait[t].kind
  BY <1>3 DEF CondInv, Waiting
<1>5. Stands(t, writing, reading, either)'
  BY <1>1, <1>4 DEF Stands, SleeperHolds
<1>6. pc' = [pc EXCEPT ![t] = pc[t]]
  BY <1>1 DEF Holding
<1> QED
  BY <1>3, <1>5, <1>6, OthersStand DEF CondInv

\* The caller is back at a point of the section that it waited in.
LEMMA LooksAgainMove ==
  ASSUME CondInv,
         NEW writing, NEW reading, NEW either, Holding(writing, reading, either),
         NEW t \in Caller, NEW look, look # "asleep",
         LooksAgain(t, look, "asleep"),
         LET k == wait[t].kind
         IN  /\ look \in either \/ look \in (IF k = "read" THEN reading ELSE writing)
             /\ look \notin (IF k = "read" THEN writing ELSE reading)
  PROVE  CondInv' /\ Holding(writing, reading, either)'
<1>1. /\ pc[t] = "asleep" /\ pc' = [pc EXCEPT ![t] = look]
      /\ held' = held /\ wait' = [wait EXCEPT ![t] = Cond!Out]
      /\ wait[t].stage = "back"
      /\ CondInv'
  BY ReturnEffect DEF LooksAgain, Move
<1>2. held[t] = Cond!Single(wait[t].kind) /\ wait[t].kind \in {"read", "write"}
  BY <1>1 DEF Holding, Stands, SleeperHolds, CondInv, Waiting
<1>3. pc'[t] = look /\ held'[t] = held[t] /\ wait'[t].stage = "out"
  BY <1>1 DEF CondInv, Holding, Cond!Out
<1>4. Stands(t, writing, reading, either)'
  BY <1>2, <1>3 DEF Stands, OneHold, ReadHold, WriteHold
<1> QED
  BY <1>1, <1>4, OthersStand DEF CondInv

\* A step that is no part of a wait.
LEMMA SleepersStay ==
  ASSUME NEW k, SleepsIn(k), pc = [u \in Caller |-> pc[u]],
         NEW t \in Caller, NEW from, NEW to, Move(t, from, to), to # "asleep", wait' = wait
  PROVE  SleepsIn(k)'
BY DEF SleepsIn, Move

\* wait() is called.
LEMMA SleepersJoined ==
  ASSUME CondInv, NEW writing, NEW reading, NEW either, Holding(writing, reading, either),
         NEW k \in {"read", "write"}, SleepsIn(k), NEW t \in Caller,
         NEW limited \in BOOLEAN, NEW look, WaitAt(t, k, limited, look, "asleep")
  PROVE  SleepsIn(k)'
<1>1. /\ wait' = [wait EXCEPT ![t] = [stage |-> "apart", kind |-> k, limited |-> limited]]
      /\ pc' = [pc EXCEPT ![t] = "asleep"]
  BY WaitEffect DEF WaitAt, Move
<1> QED
  BY <1>1 DEF SleepsIn, CondInv, Holding

\* wait() goes on, or returns.
LEMMA SleepersWoken ==
  ASSUME CondInv, NEW writing, NEW reading, NEW either, Holding(writing, reading, either),
         NEW k, SleepsIn(k), NEW t \in Caller, NEW look, look # "asleep",
         ComesBack(t, "asleep") \/ LooksAgain(t, look, "asleep")
  PROVE  SleepsIn(k)'
<1>1. CASE ComesBack(t, "asleep")
  <2>1. held[t] = Nothing /\ pc' = pc /\ Cond!Regain(t)
    BY <1>1 DEF ComesBack, Holding, Stands, SleeperHolds, Cond!Regain
  <2>2. wait' = [wait EXCEPT ![t].stage = "back"]
    BY <2>1, RegainEffect
  <2> QED
    BY <2>1, <2>2 DEF SleepsIn, CondInv, Waiting
<1>2. CASE LooksAgain(t, look, "asleep")
  <2>1. pc' = [pc EXCEPT ![t] = look] /\ wait' = [wait EXCEPT ![t] = Cond!Out]
    BY <1>2, ReturnEffect DEF LooksAgain, Move
  <2> QED
    BY <2>1 DEF SleepsIn, CondInv, Holding
<1> QED
  BY <1>1, <1>2

-----------------------------------------------------------------------------
(* The transaction ledger.                                                 *)

LEMMA LedgerPoints ==
  ASSUME CondInv, LedgerInv, NEW t \in Caller, LedgerStep(t)
  PROVE  CondInv' /\ Holding({"book", "booked"}, {"audit"}, {"leave"})'
<1> USE DEF LedgerInv
<1>1. CASE StartPayment(t)
  BY <1>1, EnterMove DEF StartPayment
<1>2. CASE Book(t)
  BY <1>2, StayMove, NoConditionEffect DEF Book
<1>3. CASE Refuse(t)
  BY <1>3, StayMove, NoConditionEffect DEF Refuse
<1>4. CASE KeepReading(t)
  BY <1>4, DowngradeMove DEF KeepReading
<1>5. CASE Audit(t)
  BY <1>5, StayMove, NoConditionEffect DEF Audit
<1>6. CASE EndPayment(t)
  BY <1>6, LeaveMove DEF EndPayment
<1> QED
  BY <1>1, <1>2, <1>3, <1>4, <1>5, <1>6 DEF LedgerStep

\* Who is at a point of a write section is alone, and nobody writes beside a reader.
LEMMA SectionAlone ==
  ASSUME CondInv,
         NEW writing, NEW reading, NEW either, Holding(writing, reading, either),
         NEW t \in Caller, pc[t] \in writing, pc[t] # "asleep",
         NEW u \in Caller, u # t, pc[u] # "asleep"
  PROVE  pc[u] \notin writing \cup reading \cup either
<1>1. held[t] = WriteHold
  BY DEF Holding, Stands
<1>2. held[u] = Nothing
  BY <1>1, HoldValues
  DEF CondInv, OneHold, Nothing, Cond!Lock!MutualExclusion, Cond!Lock!Holds
<1> QED
  BY <1>2, HoldValues DEF Holding, Stands, OneHold, Nothing

\* Who enters a write section finds nobody in a section.
LEMMA WriterEntersAlone ==
  ASSUME CondInv,
         NEW writing, NEW reading, NEW either, Holding(writing, reading, either),
         NEW t \in Caller, Acquire(t, "write"),
         NEW u \in Caller, u # t, pc[u] # "asleep"
  PROVE  pc[u] \notin writing \cup reading \cup either
<1>1. held[u] = Nothing
  BY HoldValues
  DEF Acquire, Cond!Lock!AcquireWrite, Cond!Lock!Holds, CondInv, OneHold, Nothing
<1> QED
  BY <1>1, HoldValues DEF Holding, Stands, OneHold, Nothing

LEMMA LedgerStepInv ==
  ASSUME CondInv, LedgerInv, NEW t \in Caller, LedgerStep(t)
  PROVE  CondInv' /\ LedgerInv'
<1>1. CondInv' /\ Holding({"book", "booked"}, {"audit"}, {"leave"})'
  BY LedgerPoints
<1>2. /\ pc = [u \in Caller |-> pc[u]]
      /\ data = [balance |-> data.balance, log |-> data.log, amount |-> data.amount,
                 made |-> data.made, audited |-> data.audited]
      /\ data.log \in Seq(Caller)
      /\ data.made = [u \in Caller |-> data.made[u]]
      /\ data.audited = [u \in Caller |-> data.audited[u]]
      /\ \A u \in Caller :
           /\ pc[u] \in {"booked", "audit"} =>
                /\ data.made[u] = data.balance
                /\ data.log # << >> /\ data.log[Len(data.log)] = u
           /\ pc[u] \in {"pay", "book", "booked", "audit"} => data.audited[u] = None
           /\ data.audited[u] \in {None, data.made[u]}
  BY DEF LedgerInv, Holding
<1>3. CASE StartPayment(t)
  BY <1>1, <1>2, <1>3 DEF LedgerInv, StartPayment, Move
<1>4. CASE Book(t)
  <2>1. \A u \in Caller : pc'[u] \in {"booked", "audit"} => u = t
    BY <1>2, <1>4, SectionAlone DEF LedgerInv, Book, Move
  <2> DEFINE after == data.balance + data.amount[t]
  <2>2. /\ data' = [data EXCEPT !.balance = after, !.log = Append(data.log, t),
                               !.made = [data.made EXCEPT ![t] = after]]
        /\ pc[t] = "book" /\ pc' = [pc EXCEPT ![t] = "booked"]
    BY <1>2, <1>4 DEF Book, Move
  <2> HIDE DEF after
  <2>3. /\ data' = [balance |-> data'.balance, log |-> data'.log, amount |-> data'.amount,
                    made |-> data'.made, audited |-> data'.audited]
        /\ data'.balance = after
        /\ data'.log = Append(data.log, t)
        /\ data'.made = [data.made EXCEPT ![t] = after]
        /\ data'.audited = data.audited
    BY <1>2, <2>2
  <2>4. /\ data'.log \in Seq(Caller) /\ data'.log # << >>
        /\ data'.log[Len(data'.log)] = t
    BY <1>2, <2>3, AppendProperties
  <2>5. ASSUME NEW u \in Caller
        PROVE  /\ pc'[u] \in {"booked", "audit"} =>
                    data'.made[u] = data'.balance /\ data'.log[Len(data'.log)] = u
               /\ pc'[u] \in {"pay", "book", "booked", "audit"} => data'.audited[u] = None
               /\ data'.audited[u] \in {None, data'.made[u]}
    BY <1>2, <2>1, <2>2, <2>3, <2>4
  <2>6. /\ data'.made = [u \in Caller |-> data'.made[u]]
        /\ data'.audited = [u \in Caller |-> data'.audited[u]]
    BY <1>2, <2>3
  <2> QED
    BY <1>1, <2>3, <2>4, <2>5, <2>6 DEF LedgerInv
<1>5. CASE Refuse(t)
  BY <1>1, <1>2, <1>5 DEF LedgerInv, Refuse, Move
<1>6. CASE KeepReading(t)
  BY <1>1, <1>2, <1>6 DEF LedgerInv, KeepReading, Move
<1>7. CASE Audit(t)
  <2>1. /\ data' = [data EXCEPT !.audited = [data.audited EXCEPT ![t] = data.balance]]
        /\ pc[t] = "audit" /\ pc' = [pc EXCEPT ![t] = "leave"]
    BY <1>2, <1>7 DEF Audit, Move
  <2>2. /\ data' = [balance |-> data'.balance, log |-> data'.log, amount |-> data'.amount,
                    made |-> data'.made, audited |-> data'.audited]
        /\ data'.balance = data.balance /\ data'.log = data.log
        /\ data'.made = data.made
        /\ data'.audited = [data.audited EXCEPT ![t] = data.balance]
    BY <1>2, <2>1
  <2>3. data'.audited = [u \in Caller |-> data'.audited[u]]
    BY <1>2, <2>2
  <2>4. ASSUME NEW u \in Caller
        PROVE  /\ pc'[u] \in {"booked", "audit"} =>
                    /\ data'.made[u] = data'.balance
                    /\ data'.log # << >> /\ data'.log[Len(data'.log)] = u
               /\ pc'[u] \in {"pay", "book", "booked", "audit"} => data'.audited[u] = None
               /\ data'.audited[u] \in {None, data'.made[u]}
    BY <1>2, <2>1, <2>2
  <2> QED
    BY <1>1, <1>2, <2>2, <2>3, <2>4 DEF LedgerInv
<1>8. CASE EndPayment(t)
  BY <1>1, <1>2, <1>8 DEF LedgerInv, EndPayment, Move
<1> QED
  BY <1>1, <1>3, <1>4, <1>5, <1>6, <1>7, <1>8 DEF LedgerStep

-----------------------------------------------------------------------------
(* The authentication token.                                               *)

LEMMA TokenPoints ==
  ASSUME CondInv, TokenInv, NEW t \in Caller, TokenStep(t)
  PROVE  CondInv' /\ Holding({"fetch"}, {"stale"}, {"leave"})'
<1> USE DEF TokenInv
<1>1. CASE Invalidate(t)
  BY <1>1, EnterMove DEF Invalidate
<1>2. CASE LookUp(t)
  BY <1>2, EnterMove DEF LookUp
<1>3. CASE LeaveStale(t)
  BY <1>3, LeaveMove DEF LeaveStale
<1>4. CASE LookAgain(t)
  BY <1>4, EnterMove DEF LookAgain
<1>5. CASE Fetch(t)
  BY <1>5, StayMove, NoConditionEffect DEF Fetch
<1>6. CASE LeaveToken(t)
  BY <1>6, LeaveMove DEF LeaveToken
<1> QED
  BY <1>1, <1>2, <1>3, <1>4, <1>5, <1>6 DEF TokenStep

LEMMA TokenStepInv ==
  ASSUME CondInv, TokenInv, NEW t \in Caller, TokenStep(t)
  PROVE  CondInv' /\ TokenInv'
<1>1. CondInv' /\ Holding({"fetch"}, {"stale"}, {"leave"})'
  BY TokenPoints
<1>2. /\ pc = [u \in Caller |-> pc[u]]
      /\ data \in [expired : BOOLEAN, fetches : Nat, invalidations : Nat]
      /\ \A u \in Caller : pc[u] = "fetch" => data.expired
      /\ data.fetches + (IF data.expired THEN 1 ELSE 0) <= data.invalidations
  BY DEF TokenInv, Holding
<1>3. CASE Invalidate(t)
  <2> DEFINE yes == TRUE
             more == data.invalidations + 1
  <2>1. /\ data' = [data EXCEPT !.expired = yes, !.invalidations = more]
        /\ pc' = [pc EXCEPT ![t] = "leave"]
        /\ yes \in BOOLEAN /\ yes /\ more \in Nat
    BY <1>2, <1>3 DEF Invalidate, Move
  <2> HIDE DEF yes, more
  <2>2. /\ data' \in [expired : BOOLEAN, fetches : Nat, invalidations : Nat]
        /\ data'.expired = yes /\ data'.fetches = data.fetches
        /\ data'.invalidations = more
    BY <1>2, <2>1
  <2>3. data.fetches + 1 <= data.invalidations + 1
    BY <1>2
  <2>4. data'.fetches + (IF data'.expired THEN 1 ELSE 0) <= data'.invalidations
    BY <2>1, <2>2, <2>3 DEF more
  <2> QED
    BY <1>1, <2>1, <2>2, <2>4 DEF TokenInv
<1>4. CASE LookUp(t)
  BY <1>1, <1>2, <1>4 DEF TokenInv, LookUp, Move
<1>5. CASE LeaveStale(t)
  BY <1>1, <1>2, <1>5 DEF TokenInv, LeaveStale, Move
<1>6. CASE LookAgain(t)
  BY <1>1, <1>2, <1>6 DEF TokenInv, LookAgain, Move
<1>7. CASE Fetch(t)
  <2> DEFINE no == FALSE
             more == data.fetches + 1
  <2>1. /\ data' = [data EXCEPT !.expired = no, !.fetches = more]
        /\ pc[t] = "fetch" /\ pc' = [pc EXCEPT ![t] = "leave"]
        /\ no \in BOOLEAN /\ ~no /\ more \in Nat
    BY <1>2, <1>7 DEF Fetch, Move
  <2> HIDE DEF no, more
  <2>2. \A u \in Caller : pc'[u] # "fetch"
    BY <1>2, <2>1, SectionAlone DEF TokenInv
  <2>3. /\ data' \in [expired : BOOLEAN, fetches : Nat, invalidations : Nat]
        /\ data'.expired = no /\ data'.fetches = more
        /\ data'.invalidations = data.invalidations
    BY <1>2, <2>1
  <2>4. data.fetches + 1 <= data.invalidations
    BY <1>2, <2>1
  <2>5. data'.fetches + (IF data'.expired THEN 1 ELSE 0) <= data'.invalidations
    BY <1>2, <2>1, <2>3, <2>4 DEF more
  <2> QED
    BY <1>1, <2>2, <2>3, <2>5 DEF TokenInv
<1>8. CASE LeaveToken(t)
  BY <1>1, <1>2, <1>8 DEF TokenInv, LeaveToken, Move
<1> QED
  BY <1>3, <1>4, <1>5, <1>6, <1>7, <1>8 DEF TokenStep

-----------------------------------------------------------------------------
(* The global configuration cache.                                         *)

LEMMA ConfigPoints ==
  ASSUME CondInv, ConfigInv, NEW t \in Caller, ConfigStep(t) \/ ConfigCancel(t)
  PROVE  CondInv' /\ Holding({"claim", "claimed", "publish", "unclaim"}, {"look"}, {"leave"})'
<1> USE DEF ConfigInv
<1>1. CASE EnterRead(t)
  BY <1>1, EnterMove DEF EnterRead
<1>2. CASE SleepReading(t)
  BY <1>2, WaitMove DEF SleepReading
<1>3. CASE ReadConfig(t)
  BY <1>3, StayMove, NoConditionEffect DEF ReadConfig
<1>4. CASE EnterRefresh(t)
  BY <1>4, EnterMove DEF EnterRefresh
<1>5. CASE SleepClaiming(t)
  BY <1>5, WaitMove DEF SleepClaiming
<1>6. CASE Claim(t)
  BY <1>6, StayMove, NoConditionEffect DEF Claim
<1>7. CASE StartLoad(t)
  BY <1>7, LeaveMove DEF StartLoad
<1>8. CASE WakeUp(t)
  <2>1. CASE StopsWaiting(t, "asleep")
    BY <2>1, StopsWaitingMove
  <2>2. CASE ComesBack(t, "asleep")
    BY <2>2, ComesBackMove
  <2>3. ASSUME LET look == IF wait[t].kind = "read" THEN "look" ELSE "claim"
               IN  LooksAgain(t, IF t \in data.cancelled THEN "leave" ELSE look, "asleep")
        PROVE  /\ CondInv'
               /\ Holding({"claim", "claimed", "publish", "unclaim"}, {"look"}, {"leave"})'
    BY <2>3, LooksAgainMove
  <2> QED
    BY <1>8, <2>1, <2>2, <2>3 DEF WakeUp
<1>9. CASE EnterPublish(t)
  BY <1>9, EnterMove DEF EnterPublish
<1>10. CASE Publish(t)
  BY <1>10, StayMove, NotifyAllEffect DEF Publish
<1>11. CASE EnterRecover(t)
  BY <1>11, EnterMove DEF EnterRecover
<1>12. CASE Unclaim(t)
  BY <1>12, StayMove, NotifyAllEffect, NoConditionEffect DEF Unclaim
<1>13. CASE LeaveConfig(t)
  BY <1>13, LeaveMove DEF LeaveConfig
<1>14. CASE CancelEntry(t)
  BY <1>14, StayMove, NoConditionEffect DEF CancelEntry
<1>15. CASE CancelWait(t)
  BY <1>15, NoConditionEffect DEF CancelWait, Holding, Stands, SleeperHolds
<1>16. CASE CancelLoad(t)
  BY <1>16, StayMove, NoConditionEffect DEF CancelLoad
<1> QED
  BY <1>1, <1>2, <1>3, <1>4, <1>5, <1>6, <1>7, <1>8, <1>9, <1>10, <1>11, <1>12, <1>13,
     <1>14, <1>15, <1>16
  DEF ConfigStep, ConfigCancel, Reading, Claiming, Publishing

\* The flag stands for an owner: what is left to prove of it when t moves.
FlagKept ==
  /\ data \in [refreshing : BOOLEAN, version : Nat, cancelled : SUBSET Caller]
  /\ data.refreshing <=> \E t \in Caller : Owns(t)
  /\ \A t, u \in Caller : Owns(t) /\ Owns(u) => t = u

\* t goes on as an owner, or as none, and leaves the flag alone.
LEMMA OwnersStay ==
  ASSUME FlagKept, NEW t \in Caller, NEW to, pc = [u \in Caller |-> pc[u]],
         pc' = [pc EXCEPT ![t] = to],
         Owns(t) <=> to \in {"claimed", "load", "publish", "recover", "unclaim"},
         \/ data' = data
         \/ data' = [data EXCEPT !.cancelled = @ \cup {t}]
  PROVE  FlagKept'
<1>1. /\ data' \in [refreshing : BOOLEAN, version : Nat, cancelled : SUBSET Caller]
      /\ data'.refreshing = data.refreshing
  BY DEF FlagKept
<1>2. \A u \in Caller : Owns(u)' <=> Owns(u)
  BY DEF Owns
<1> HIDE DEF Owns
<1> QED
  BY <1>1, <1>2 DEF FlagKept

\* The refresher that clears the flag was its owner.
LEMMA OwnerLeaves ==
  ASSUME FlagKept, NEW t \in Caller, NEW to, pc = [u \in Caller |-> pc[u]],
         pc' = [pc EXCEPT ![t] = to], Owns(t),
         to \notin {"claimed", "load", "publish", "recover", "unclaim"},
         data' \in [refreshing : BOOLEAN, version : Nat, cancelled : SUBSET Caller],
         ~data'.refreshing
  PROVE  FlagKept'
<1>1. \A u \in Caller : ~Owns(u)'
  BY DEF FlagKept, Owns
<1> QED
  BY <1>1 DEF FlagKept

LEMMA ConfigStepInv ==
  ASSUME CondInv, ConfigInv, NEW t \in Caller, ConfigStep(t) \/ ConfigCancel(t)
  PROVE  CondInv' /\ ConfigInv'
<1>1. /\ CondInv'
      /\ Holding({"claim", "claimed", "publish", "unclaim"}, {"look"}, {"leave"})'
  BY ConfigPoints
<1>2. pc = [u \in Caller |-> pc[u]] /\ FlagKept
  BY DEF ConfigInv, Holding, FlagKept
<1> SUFFICES FlagKept'
  BY <1>1 DEF ConfigInv, FlagKept
<1>3. CASE EnterRead(t)
  BY <1>2, <1>3, OwnersStay DEF EnterRead, Move, Owns
<1>4. CASE SleepReading(t)
  BY <1>2, <1>4, OwnersStay DEF SleepReading, WaitAt, Move, Owns
<1>5. CASE ReadConfig(t)
  BY <1>2, <1>5, OwnersStay DEF ReadConfig, Move, Owns
<1>6. CASE EnterRefresh(t)
  BY <1>2, <1>6, OwnersStay DEF EnterRefresh, Move, Owns
<1>7. CASE SleepClaiming(t)
  BY <1>2, <1>7, OwnersStay DEF SleepClaiming, WaitAt, Move, Owns
<1>8. CASE Claim(t)
  <2> DEFINE yes == TRUE
  <2>1. /\ ~data.refreshing /\ pc' = [pc EXCEPT ![t] = "claimed"]
        /\ data' = [data EXCEPT !.refreshing = yes]
        /\ yes \in BOOLEAN /\ yes
    BY <1>8 DEF Claim, Move
  <2> HIDE DEF yes
  <2>2. /\ data' \in [refreshing : BOOLEAN, version : Nat, cancelled : SUBSET Caller]
        /\ data'.refreshing = yes
    BY <1>2, <2>1 DEF FlagKept
  <2>3. \A u \in Caller : Owns(u)' <=> u = t
    BY <1>2, <2>1 DEF FlagKept, Owns
  <2> HIDE DEF Owns
  <2> QED
    BY <2>1, <2>2, <2>3 DEF FlagKept
<1>9. CASE StartLoad(t)
  BY <1>2, <1>9, OwnersStay DEF StartLoad, Move, Owns
<1>10. CASE WakeUp(t)
  <2>1. /\ data' = data /\ pc[t] = "asleep"
        /\ \/ pc' = pc
           \/ \E look \in {"look", "claim", "leave"} : pc' = [pc EXCEPT ![t] = look]
    BY <1>10 DEF WakeUp, StopsWaiting, ComesBack, LooksAgain, Move
  <2>2. CASE pc' = pc
    BY <1>2, <2>1, <2>2 DEF FlagKept, Owns
  <2>3. ASSUME NEW look \in {"look", "claim", "leave"}, pc' = [pc EXCEPT ![t] = look]
        PROVE  FlagKept'
    BY <1>2, <2>1, <2>3, OwnersStay DEF Owns
  <2> QED
    BY <2>1, <2>2, <2>3
<1>11. CASE EnterPublish(t)
  BY <1>2, <1>11, OwnersStay DEF EnterPublish, Move, Owns
<1>12. CASE Publish(t)
  <2> DEFINE no == FALSE
             next == data.version + 1
  <2>1. /\ pc[t] = "publish" /\ pc' = [pc EXCEPT ![t] = "leave"]
        /\ data' = [data EXCEPT !.version = next, !.refreshing = no]
        /\ no \in BOOLEAN /\ ~no /\ next \in Nat
    BY <1>2, <1>12 DEF Publish, Move, FlagKept
  <2> HIDE DEF no, next
  <2>2. /\ data' \in [refreshing : BOOLEAN, version : Nat, cancelled : SUBSET Caller]
        /\ data'.refreshing = no
    BY <1>2, <2>1 DEF FlagKept
  <2> QED
    BY <1>2, <2>1, <2>2, OwnerLeaves DEF Owns
<1>13. CASE EnterRecover(t)
  BY <1>2, <1>13, OwnersStay DEF EnterRecover, Move, Owns
<1>14. CASE Unclaim(t)
  <2> DEFINE no == FALSE
  <2>1. /\ pc[t] = "unclaim" /\ pc' = [pc EXCEPT ![t] = "leave"]
        /\ data' = [data EXCEPT !.refreshing = no]
        /\ no \in BOOLEAN /\ ~no
    BY <1>14 DEF Unclaim, Move
  <2> HIDE DEF no
  <2>2. /\ data' \in [refreshing : BOOLEAN, version : Nat, cancelled : SUBSET Caller]
        /\ data'.refreshing = no
    BY <1>2, <2>1 DEF FlagKept
  <2> QED
    BY <1>2, <2>1, <2>2, OwnerLeaves DEF Owns
<1>15. CASE LeaveConfig(t)
  BY <1>2, <1>15, OwnersStay DEF LeaveConfig, Move, Owns
<1>16. CASE CancelEntry(t)
  BY <1>2, <1>16, OwnersStay DEF CancelEntry, Move, Owns
<1>17. CASE CancelWait(t)
  <2>1. pc' = [pc EXCEPT ![t] = pc[t]] /\ data' = [data EXCEPT !.cancelled = @ \cup {t}]
    BY <1>2, <1>17 DEF CancelWait
  <2> QED
    BY <1>2, <2>1, OwnersStay DEF Owns
<1>18. CASE CancelLoad(t)
  BY <1>2, <1>18, OwnersStay DEF CancelLoad, Move, Owns
<1> QED
  BY <1>3, <1>4, <1>5, <1>6, <1>7, <1>8, <1>9, <1>10, <1>11, <1>12, <1>13, <1>14, <1>15,
     <1>16, <1>17, <1>18
  DEF ConfigStep, ConfigCancel, Reading, Claiming, Publishing

-----------------------------------------------------------------------------
(* The synchronisation of the ledger.                                      *)

LEMMA SyncPoints ==
  ASSUME CondInv, SyncInv, NEW t \in Caller, SyncStep(t)
  PROVE  /\ CondInv'
         /\ Holding({"committed", "announcing"}, {"upload", "uploaded", "look"}, {"leave"})'
         /\ SleepsIn("read")'
<1>1. /\ Holding({"committed", "announcing"}, {"upload", "uploaded", "look"}, {"leave"})
      /\ SleepsIn("read") /\ pc = [u \in Caller |-> pc[u]]
  BY DEF SyncInv, Holding
<1>2. CASE Commit(t)
  BY <1>1, <1>2, EnterMove, SleepersStay DEF Commit, Acquire
<1>3. CASE StartUpload(t)
  BY <1>1, <1>3, DowngradeMove, SleepersStay DEF StartUpload, Downgrade
<1>4. CASE Upload(t)
  BY <1>1, <1>4, StayMove, SleepersStay, NoConditionEffect DEF Upload
<1>5. CASE LeaveUpload(t)
  BY <1>1, <1>5, LeaveMove, SleepersStay DEF LeaveUpload, Release
<1>6. CASE Announce(t)
  BY <1>1, <1>6, EnterMove, SleepersStay DEF Announce, Acquire
<1>7. CASE Complete(t)
  BY <1>1, <1>7, StayMove, SleepersStay, NotifyAllEffect DEF Complete
<1>8. CASE EnterAwait(t)
  BY <1>1, <1>8, EnterMove, SleepersStay DEF EnterAwait, Acquire
<1>9. CASE SleepUnsynced(t)
  BY <1>1, <1>9, WaitMove, SleepersJoined DEF SleepUnsynced
<1>10. CASE WakeForSync(t)
  <2>1. CASE ComesBack(t, "asleep")
    BY <1>1, <2>1, ComesBackMove, SleepersWoken
  <2>2. CASE LooksAgain(t, "look", "asleep")
    <3>1. wait[t].kind = "read"
      BY <1>1, <2>2 DEF LooksAgain, Move, SleepsIn
    <3> QED
      BY <1>1, <2>2, <3>1, LooksAgainMove, SleepersWoken
  <2> QED
    BY <1>10, <2>1, <2>2 DEF WakeForSync
<1>11. CASE Confirm(t)
  BY <1>1, <1>11, StayMove, SleepersStay, NoConditionEffect DEF Confirm
<1>12. CASE LeaveSync(t)
  BY <1>1, <1>12, LeaveMove, SleepersStay DEF LeaveSync, Release
<1> QED
  BY <1>2, <1>3, <1>4, <1>5, <1>6, <1>7, <1>8, <1>9, <1>10, <1>11, <1>12
  DEF SyncStep, Committing, Awaiting

\* What a commit has still to upload, and what the flag says about the others.
CommitsKept ==
  /\ data \in [completed : BOOLEAN, committed : SUBSET Caller, uploaded : SUBSET Caller]
  /\ \A t \in data.committed : t \in data.uploaded \/ pc[t] \in {"committed", "upload"}
  /\ data.completed => data.committed \subseteq data.uploaded

\* t has nothing to upload, before or after its step.
LEMMA CommitsStay ==
  ASSUME CommitsKept, pc = [u \in Caller |-> pc[u]], data' = data,
         NEW t \in Caller, NEW to, pc' = [pc EXCEPT ![t] = to],
         pc[t] \notin {"committed", "upload"} \/ to \in {"committed", "upload"}
  PROVE  CommitsKept'
BY DEF CommitsKept

LEMMA SyncStepInv ==
  ASSUME CondInv, SyncInv, NEW t \in Caller, SyncStep(t)
  PROVE  CondInv' /\ SyncInv'
<1>1. /\ CondInv'
      /\ Holding({"committed", "announcing"}, {"upload", "uploaded", "look"}, {"leave"})'
      /\ SleepsIn("read")'
  BY SyncPoints
<1>2. pc = [u \in Caller |-> pc[u]] /\ CommitsKept
  BY DEF SyncInv, Holding, CommitsKept
<1> SUFFICES CommitsKept'
  BY <1>1 DEF SyncInv, CommitsKept
<1>3. CASE Commit(t)
  <2> DEFINE no == FALSE
             more == data.committed \cup {t}
  <2>1. /\ pc' = [pc EXCEPT ![t] = "committed"]
        /\ data' = [data EXCEPT !.committed = more, !.completed = no]
        /\ no \in BOOLEAN /\ ~no /\ more \in SUBSET Caller
    BY <1>2, <1>3 DEF Commit, Move, CommitsKept
  <2> HIDE DEF no, more
  <2>2. /\ data' \in [completed : BOOLEAN, committed : SUBSET Caller, uploaded : SUBSET Caller]
        /\ data'.completed = no /\ data'.committed = more /\ data'.uploaded = data.uploaded
    BY <1>2, <2>1 DEF CommitsKept
  <2>3. \A u \in more : u \in data.uploaded \/ pc'[u] \in {"committed", "upload"}
    BY <1>2, <2>1 DEF CommitsKept, more
  <2> QED
    BY <2>1, <2>2, <2>3 DEF CommitsKept
<1>4. CASE StartUpload(t)
  BY <1>2, <1>4, CommitsStay DEF StartUpload, Move
<1>5. CASE Upload(t)
  <2> DEFINE more == data.uploaded \cup {t}
  <2>1. /\ pc' = [pc EXCEPT ![t] = "uploaded"]
        /\ data' = [data EXCEPT !.uploaded = more]
        /\ more \in SUBSET Caller
    BY <1>2, <1>5 DEF Upload, Move, CommitsKept
  <2> HIDE DEF more
  <2>2. /\ data' \in [completed : BOOLEAN, committed : SUBSET Caller, uploaded : SUBSET Caller]
        /\ data'.completed = data.completed
        /\ data'.committed = data.committed /\ data'.uploaded = more
    BY <1>2, <2>1 DEF CommitsKept
  <2>3. \A u \in data.committed : u \in more \/ pc'[u] \in {"committed", "upload"}
    BY <1>2, <2>1 DEF CommitsKept, more
  <2>4. data.completed => data.committed \subseteq more
    BY <1>2 DEF CommitsKept, more
  <2> QED
    BY <2>2, <2>3, <2>4 DEF CommitsKept
<1>6. CASE LeaveUpload(t)
  BY <1>2, <1>6, CommitsStay DEF LeaveUpload, Move
<1>7. CASE Announce(t)
  BY <1>2, <1>7, CommitsStay DEF Announce, Move
<1>8. CASE Complete(t)
  <2> DEFINE yes == TRUE
  <2>1. /\ pc[t] = "announcing" /\ pc' = [pc EXCEPT ![t] = "leave"]
        /\ data' = [data EXCEPT !.completed = yes]
        /\ yes \in BOOLEAN
    BY <1>8 DEF Complete, Move
  <2> HIDE DEF yes
  <2>2. /\ data' \in [completed : BOOLEAN, committed : SUBSET Caller, uploaded : SUBSET Caller]
        /\ data'.committed = data.committed /\ data'.uploaded = data.uploaded
    BY <1>2, <2>1 DEF CommitsKept
  <2>3. \A u \in Caller : pc[u] \notin {"committed", "upload"}
    BY <2>1, SectionAlone DEF SyncInv
  <2>4. data.committed \subseteq data.uploaded
    BY <1>2, <2>3 DEF CommitsKept
  <2> QED
    BY <2>2, <2>4 DEF CommitsKept
<1>9. CASE EnterAwait(t)
  BY <1>2, <1>9, CommitsStay DEF EnterAwait, Move
<1>10. CASE SleepUnsynced(t)
  BY <1>2, <1>10, CommitsStay DEF SleepUnsynced, WaitAt, Move
<1>11. CASE WakeForSync(t)
  <2>1. CASE ComesBack(t, "asleep")
    BY <1>2, <1>11, <2>1 DEF WakeForSync, ComesBack, CommitsKept
  <2>2. CASE LooksAgain(t, "look", "asleep")
    BY <1>2, <1>11, <2>2, CommitsStay DEF WakeForSync, LooksAgain, Move
  <2> QED
    BY <1>11, <2>1, <2>2 DEF WakeForSync
<1>12. CASE Confirm(t)
  BY <1>2, <1>12, CommitsStay DEF Confirm, Move
<1>13. CASE LeaveSync(t)
  BY <1>2, <1>13, CommitsStay DEF LeaveSync, Move
<1> QED
  BY <1>3, <1>4, <1>5, <1>6, <1>7, <1>8, <1>9, <1>10, <1>11, <1>12, <1>13
  DEF SyncStep, Committing, Awaiting

-----------------------------------------------------------------------------
(* The boot barrier.                                                       *)

LEMMA BootPoints ==
  ASSUME CondInv, BootInv, NEW t \in Caller, BootStep(t)
  PROVE  /\ CondInv'
         /\ Holding({"marked", "leave"}, {"look", "answered"}, {})'
         /\ SleepsIn("read")'
<1>1. /\ Holding({"marked", "leave"}, {"look", "answered"}, {})
      /\ SleepsIn("read") /\ pc = [u \in Caller |-> pc[u]]
  BY DEF BootInv, Holding
<1>2. CASE MarkReady(t)
  BY <1>1, <1>2, EnterMove, SleepersStay DEF MarkReady, Acquire
<1>3. CASE TellServers(t)
  BY <1>1, <1>3, StayMove, SleepersStay, NotifyAllEffect DEF TellServers
<1>4. CASE LeaveMark(t)
  BY <1>1, <1>4, LeaveMove, SleepersStay DEF LeaveMark, Release
<1>5. CASE EnterBoot(t)
  BY <1>1, <1>5, EnterMove, SleepersStay DEF EnterBoot, Acquire
<1>6. CASE AnswerWaitFor(t)
  BY <1>1, <1>6, StayMove, SleepersStay, NoConditionEffect DEF AnswerWaitFor
<1>7. CASE SleepUnready(t)
  BY <1>1, <1>7, WaitMove, SleepersJoined DEF SleepUnready
<1>8. CASE WakeForBoot(t)
  <2>1. CASE ComesBack(t, "asleep")
    BY <1>1, <2>1, ComesBackMove, SleepersWoken
  <2>2. CASE LooksAgain(t, "look", "asleep")
    <3>1. wait[t].kind = "read"
      BY <1>1, <2>2 DEF LooksAgain, Move, SleepsIn
    <3> QED
      BY <1>1, <2>2, <3>1, LooksAgainMove, SleepersWoken
  <2> QED
    BY <1>8, <2>1, <2>2 DEF WakeForBoot
<1>9. CASE LeaveBoot(t)
  BY <1>1, <1>9, LeaveMove, SleepersStay DEF LeaveBoot, Release
<1> QED
  BY <1>2, <1>3, <1>4, <1>5, <1>6, <1>7, <1>8, <1>9 DEF BootStep

\* What a caller has answered is what it would answer still.
AnswersKept ==
  /\ data = [ready |-> data.ready, late |-> data.late, success |-> data.success]
  /\ data.ready \in BOOLEAN
  /\ data.late \subseteq Caller
  /\ data.success = [t \in Caller |-> data.success[t]]
  /\ \A t \in Caller : pc[t] = "answered" => (data.success[t] <=> data.ready)

\* t gives no answer.
LEMMA AnswersStay ==
  ASSUME AnswersKept, pc = [u \in Caller |-> pc[u]], data' = data,
         NEW t \in Caller, NEW to, pc' = [pc EXCEPT ![t] = to], to # "answered"
  PROVE  AnswersKept'
BY DEF AnswersKept

LEMMA BootStepInv ==
  ASSUME CondInv, BootInv, NEW t \in Caller, BootStep(t)
  PROVE  CondInv' /\ BootInv'
<1>1. /\ CondInv'
      /\ Holding({"marked", "leave"}, {"look", "answered"}, {})'
      /\ SleepsIn("read")'
  BY BootPoints
<1>2. pc = [u \in Caller |-> pc[u]] /\ AnswersKept
  BY DEF BootInv, Holding, AnswersKept
<1> SUFFICES AnswersKept'
  BY <1>1 DEF BootInv, AnswersKept
<1>3. CASE MarkReady(t)
  <2> DEFINE yes == TRUE
  <2>1. /\ pc' = [pc EXCEPT ![t] = "marked"]
        /\ data' = [data EXCEPT !.ready = yes]
        /\ yes \in BOOLEAN
    BY <1>3 DEF MarkReady, Move
  <2> HIDE DEF yes
  <2>2. \A u \in Caller : pc'[u] # "answered"
    BY <1>2, <1>3, <2>1, WriterEntersAlone DEF MarkReady, BootInv
  <2>3. /\ data' = [ready |-> data'.ready, late |-> data'.late, success |-> data'.success]
        /\ data'.ready = yes /\ data'.late = data.late /\ data'.success = data.success
    BY <1>2, <2>1 DEF AnswersKept
  <2> QED
    BY <1>2, <2>1, <2>2, <2>3 DEF AnswersKept
<1>4. CASE TellServers(t)
  BY <1>2, <1>4, AnswersStay DEF TellServers, Move
<1>5. CASE LeaveMark(t)
  BY <1>2, <1>5, AnswersStay DEF LeaveMark, Move
<1>6. CASE EnterBoot(t)
  BY <1>2, <1>6, AnswersStay DEF EnterBoot, Move
<1>7. CASE AnswerWaitFor(t)
  <2> DEFINE answers == [data.success EXCEPT ![t] = data.ready]
  <2>1. /\ pc' = [pc EXCEPT ![t] = "answered"]
        /\ data' = [data EXCEPT !.success = answers]
    BY <1>7 DEF AnswerWaitFor, Move
  <2>2. /\ answers = [u \in Caller |-> answers[u]]
        /\ answers[t] = data.ready
        /\ \A u \in Caller \ {t} : answers[u] = data.success[u]
    BY <1>2 DEF AnswersKept
  <2> HIDE DEF answers
  <2>3. /\ data' = [ready |-> data'.ready, late |-> data'.late, success |-> data'.success]
        /\ data'.ready = data.ready /\ data'.late = data.late /\ data'.success = answers
    BY <1>2, <2>1 DEF AnswersKept
  <2>4. ASSUME NEW u \in Caller, pc'[u] = "answered"
        PROVE  data'.success[u] <=> data'.ready
    BY <1>2, <2>1, <2>2, <2>3, <2>4 DEF AnswersKept
  <2> QED
    BY <1>2, <2>2, <2>3, <2>4 DEF AnswersKept
<1>8. CASE SleepUnready(t)
  BY <1>2, <1>8, AnswersStay DEF SleepUnready, WaitAt, Move
<1>9. CASE WakeForBoot(t)
  <2>1. CASE ComesBack(t, "asleep") /\ UNCHANGED data
    BY <1>2, <2>1 DEF ComesBack, AnswersKept
  <2>2. ASSUME LooksAgain(t, "look", "asleep"),
               NEW late \in SUBSET Caller, data' = [data EXCEPT !.late = @ \cup late]
        PROVE  AnswersKept'
    <3>1. /\ data' = [ready |-> data'.ready, late |-> data'.late, success |-> data'.success]
          /\ data'.ready = data.ready /\ data'.late = data.late \cup late
          /\ data'.success = data.success
      BY <1>2, <2>2 DEF AnswersKept
    <3> QED
      BY <1>2, <2>2, <3>1 DEF LooksAgain, Move, AnswersKept
  <2>3. {{t}} \subseteq SUBSET Caller /\ {{}, {t}} \subseteq SUBSET Caller
    OBVIOUS
  <2> QED
    BY <1>9, <2>1, <2>2, <2>3 DEF WakeForBoot
<1>10. CASE LeaveBoot(t)
  BY <1>2, <1>10, AnswersStay DEF LeaveBoot, Move
<1> QED
  BY <1>3, <1>4, <1>5, <1>6, <1>7, <1>8, <1>9, <1>10 DEF BootStep

-----------------------------------------------------------------------------
(* The image processing queue.                                             *)

LEMMA QueuePoints ==
  ASSUME CondInv, QueueInv, NEW t \in Caller, QueueStep(t)
  PROVE  /\ CondInv'
         /\ Holding({"extend", "leave", "look", "taken"}, {}, {})'
         /\ SleepsIn("write")'
<1>1. /\ Holding({"extend", "leave", "look", "taken"}, {}, {})
      /\ SleepsIn("write") /\ pc = [u \in Caller |-> pc[u]]
  BY DEF QueueInv, Holding
<1>2. CASE EnterAdd(t)
  BY <1>1, <1>2, EnterMove, SleepersStay DEF EnterAdd, Acquire
<1>3. CASE AddJobs(t)
  BY <1>1, <1>3, StayMove, SleepersStay, NotifyEffect, JobsAssumption DEF AddJobs
<1>4. CASE LeaveAdd(t)
  BY <1>1, <1>4, LeaveMove, SleepersStay DEF LeaveAdd, Release
<1>5. CASE EnterConsume(t)
  BY <1>1, <1>5, EnterMove, SleepersStay DEF EnterConsume, Acquire
<1>6. CASE SleepEmpty(t)
  BY <1>1, <1>6, WaitMove, SleepersJoined DEF SleepEmpty
<1>7. CASE TakeJob(t)
  BY <1>1, <1>7, StayMove, SleepersStay, NoConditionEffect DEF TakeJob
<1>8. CASE LeaveConsume(t)
  BY <1>1, <1>8, LeaveMove, SleepersStay DEF LeaveConsume, Release
<1>9. CASE WakeForJob(t)
  <2>1. CASE ComesBack(t, "asleep")
    BY <1>1, <2>1, ComesBackMove, SleepersWoken
  <2>2. CASE LooksAgain(t, "look", "asleep")
    <3>1. wait[t].kind = "write"
      BY <1>1, <2>2 DEF LooksAgain, Move, SleepsIn
    <3> QED
      BY <1>1, <2>2, <3>1, LooksAgainMove, SleepersWoken
  <2> QED
    BY <1>9, <2>1, <2>2 DEF WakeForJob
<1> QED
  BY <1>2, <1>3, <1>4, <1>5, <1>6, <1>7, <1>8, <1>9 DEF QueueStep

\* The jobs are counted against those who will take one.
JobsKept ==
  /\ data = [jobs |-> data.jobs, todo |-> data.todo]
  /\ data.jobs \in Nat
  /\ Lined
  /\ line # << >> => data.jobs <= Cardinality(Fetchers)

LEMMA FetchersFinite == IsFiniteSet(Fetchers) /\ Cardinality(Fetchers) \in Nat
BY ProgramAssumption, FS_Subset, FS_CardinalityType DEF Fetchers

LEMMA FetchersFiniteNext == IsFiniteSet(Fetchers') /\ Cardinality(Fetchers') \in Nat
<1>1. Fetchers' \subseteq Caller
  BY DEF Fetchers
<1> QED
  BY <1>1, ProgramAssumption, FS_Subset, FS_CardinalityType

\* t moves between two points where it takes no job, or goes to take one.
LEMMA JobsStay ==
  ASSUME JobsKept, pc = [u \in Caller |-> pc[u]], line \in Seq(Caller),
         data' = data, line' = line, told' = told, wait' = wait,
         NEW t \in Caller, NEW to, pc' = [pc EXCEPT ![t] = to],
         pc[t] # "asleep", to # "asleep",
         pc[t] \in {"consume", "look"} => to \in {"consume", "look"}
  PROVE  JobsKept'
<1>1. \A i \in 1 .. Len(line) : line[i] \in Caller
  OBVIOUS
<1>2. Lined'
  BY <1>1 DEF JobsKept, Lined
<1>3. Fetchers \subseteq Fetchers'
  BY DEF Fetchers
<1>4. Cardinality(Fetchers) <= Cardinality(Fetchers')
  BY <1>3, FetchersFiniteNext, FS_Subset
<1>5. data.jobs <= Cardinality(Fetchers) => data.jobs <= Cardinality(Fetchers')
  BY <1>4, FetchersFinite, FetchersFiniteNext DEF JobsKept
<1> QED
  BY <1>2, <1>5 DEF JobsKept

\* notify(n) tells the first n of the line, or all of them.
LEMMA NotifyPops ==
  ASSUME CondInv, NEW t \in Caller, NEW n \in Nat, NotifyUpTo(t, n)
  PROVE  \E m \in 0 .. Len(line) :
           /\ m = n \/ m = Len(line)
           /\ told' = told \cup {line[i] : i \in 1 .. m}
           /\ line' = SubSeq(line, m + 1, Len(line))
<1> DEFINE m == IF n < Len(line) THEN n ELSE Len(line)
<1>1. line \in Seq(Caller) /\ Len(line) \in Nat
  BY DEF CondInv
<1>2. m \in 0 .. Len(line) /\ (m = n \/ m = Len(line))
  BY <1>1
<1>3. CASE m = 0
  <2>1. line' = line /\ told' = told
    BY <1>3 DEF NotifyUpTo, condVars
  <2>2. SubSeq(line, 1, Len(line)) = line
    BY <1>1, SubSeqFull
  <2>3. {line[i] : i \in 1 .. 0} = {} /\ 0 + 1 = 1
    OBVIOUS
  <2>4. 0 \in 0 .. Len(line) /\ (0 = n \/ 0 = Len(line))
    BY <1>2, <1>3
  <2> QED
    BY <2>1, <2>2, <2>3, <2>4
<1>4. CASE m # 0
  <2>1. /\ told' = told \cup ({line[i] : i \in 1 .. m} \ {None})
        /\ line' = SubSeq(line, m + 1, Len(line))
    BY <1>4 DEF NotifyUpTo, Cond!Notify
  <2> HIDE DEF m
  <2>2. \A i \in 1 .. m : line[i] # None
    BY <1>1, <1>2, ProgramAssumption
  <2>3. {line[i] : i \in 1 .. m} \ {None} = {line[i] : i \in 1 .. m}
    BY <2>2
  <2> QED
    BY <1>2, <2>1, <2>3
<1> QED
  BY <1>3, <1>4

\* As many callers stand at the first m places of the line as there are places.
LEMMA FirstCounted ==
  ASSUME line \in Seq(Caller), NEW m \in 0 .. Len(line),
         \A i, j \in 1 .. Len(line) : line[i] = line[j] => i = j
  PROVE  LET first == {line[i] : i \in 1 .. m}
         IN  IsFiniteSet(first) /\ Cardinality(first) = m
<1> DEFINE first == {line[i] : i \in 1 .. m}
           at == [i \in 1 .. m |-> line[i]]
<1>1. Len(line) \in Nat /\ m \in Nat /\ 1 .. m \subseteq 1 .. Len(line)
  OBVIOUS
<1>2. at \in Surjection(1 .. m, first)
  BY DEF Surjection
<1>3. at \in Injection(1 .. m, first)
  <2>1. at \in [1 .. m -> first] /\ \A i, j \in 1 .. m : at[i] = at[j] => i = j
    BY <1>1
  <2> HIDE DEF at, first
  <2> QED
    BY <2>1 DEF Injection, IsInjective
<1>4. IsFiniteSet(1 .. m) /\ Cardinality(1 .. m) = m
  BY <1>1, FS_Interval
<1> HIDE DEF first, at
<1>5. IsFiniteSet(first) /\ Cardinality(first) = m
  BY <1>2, <1>3, <1>4, FS_Surjection
<1> QED
  BY <1>5 DEF first

\* A producer adds jobs, and tells as many consumers as it adds jobs, or all.
LEMMA JobsAdded ==
  ASSUME CondInv, JobsKept, pc = [u \in Caller |-> pc[u]], NEW t \in Caller, AddJobs(t)
  PROVE  JobsKept'
<1>1. /\ pc[t] = "extend" /\ pc' = [pc EXCEPT ![t] = "leave"]
      /\ data' = [data EXCEPT !.jobs = @ + JobsPerCall]
      /\ NotifyUpTo(t, JobsPerCall)
      /\ wait' = wait
  BY NotifyEffect, JobsAssumption DEF AddJobs, Move
<1>2. PICK m \in 0 .. Len(line) :
        /\ m = JobsPerCall \/ m = Len(line)
        /\ told' = told \cup {line[i] : i \in 1 .. m}
        /\ line' = SubSeq(line, m + 1, Len(line))
  BY <1>1, NotifyPops, JobsAssumption
<1> DEFINE first == {line[i] : i \in 1 .. m}
<1>3. /\ line \in Seq(Caller) /\ Len(line) \in Nat /\ m \in Nat
      /\ \A i \in 1 .. Len(line) : line[i] \in Caller
      /\ Lined
  BY DEF CondInv, JobsKept
<1>4. /\ line' \in Seq(Caller) /\ Len(line') = Len(line) - m
      /\ \A i \in 1 .. Len(line') : i + m \in 1 .. Len(line) /\ line'[i] = line[i + m]
  <2>1. /\ m + 1 \in Int /\ Len(line) \in Int
        /\ \A i \in m + 1 .. Len(line) : line[i] \in Caller
    BY <1>3
  <2>2. /\ line' \in Seq(Caller)
        /\ Len(line') = IF m + 1 <= Len(line) THEN Len(line) - (m + 1) + 1 ELSE 0
        /\ \A i \in 1 .. Len(line) - (m + 1) + 1 : line'[i] = line[(m + 1) + i - 1]
    BY <1>2, <2>1, SubSeqProperties
  <2>3. Len(line') = Len(line) - m
    BY <1>3, <2>2
  <2>4. ASSUME NEW i \in 1 .. Len(line')
        PROVE  i + m \in 1 .. Len(line) /\ line'[i] = line[i + m]
    <3>1. i \in 1 .. Len(line) - (m + 1) + 1 /\ (m + 1) + i - 1 = i + m
      BY <1>3, <2>3
    <3>2. i + m \in 1 .. Len(line)
      BY <1>3, <2>3
    <3> QED
      BY <2>2, <3>1, <3>2
  <2> QED
    BY <2>2, <2>3, <2>4
<1>5. /\ first \subseteq Caller
      /\ \A u \in first : pc[u] = "asleep" /\ u \notin told /\ u # t
  BY <1>1, <1>3 DEF Lined
<1>6. Lined'
  <2>1. ASSUME NEW i \in 1 .. Len(line'), NEW j \in 1 .. Len(line'), line'[i] = line'[j]
        PROVE  i = j
    <3>1. /\ i + m \in 1 .. Len(line) /\ j + m \in 1 .. Len(line)
          /\ line[i + m] = line[j + m]
      BY <1>4, <2>1
    <3>2. i + m = j + m
      BY <1>3, <3>1 DEF Lined
    <3> QED
      BY <1>3, <3>2
  <2>2. ASSUME NEW i \in 1 .. Len(line')
        PROVE  pc'[line'[i]] = "asleep" /\ line'[i] \notin told'
    <3>1. /\ pc[line[i + m]] = "asleep" /\ line[i + m] \notin told
          /\ line[i + m] \in Caller /\ line[i + m] # t
      BY <1>1, <1>3, <1>4 DEF Lined
    <3>2. line[i + m] \notin first
      <4>1. ASSUME NEW j \in 1 .. m, line[j] = line[i + m] PROVE FALSE
        <5>1. j \in 1 .. Len(line) /\ j # i + m
          BY <1>3
        <5> QED
          BY <1>3, <1>4, <4>1, <5>1 DEF Lined
      <4> QED
        BY <4>1
    <3> QED
      BY <1>1, <1>2, <1>4, <3>1, <3>2
  <2>3. ASSUME NEW u \in Caller
        PROVE  /\ u \in told' => pc'[u] = "asleep"
               /\ pc'[u] = "asleep" =>
                    ~wait'[u].limited /\ (wait'[u].stage = "back" => u \in told')
    BY <1>1, <1>2, <1>3, <1>5 DEF Lined
  <2> QED
    BY <2>1, <2>2, <2>3 DEF Lined
<1>7. Cardinality(Fetchers) + m <= Cardinality(Fetchers')
  <2>1. IsFiniteSet(first) /\ Cardinality(first) = m
    BY <1>3, FirstCounted DEF Lined
  <2>2. Fetchers \cap first = {}
    BY <1>5 DEF Fetchers
  <2>3. (Fetchers \cup first) \subseteq Fetchers'
    BY <1>1, <1>2, <1>3, <1>5 DEF Fetchers, Lined
  <2> HIDE DEF first
  <2>4. /\ IsFiniteSet(Fetchers \cup first)
        /\ Cardinality(Fetchers \cup first)
             = Cardinality(Fetchers) + m - Cardinality(Fetchers \cap first)
    BY <2>1, FetchersFinite, FS_Union
  <2>5. Cardinality(Fetchers \cup first) = Cardinality(Fetchers) + m
    <3>1. Cardinality(Fetchers \cap first) = 0
      BY <2>2, FS_EmptySet
    <3> QED
      BY <1>3, <2>4, <3>1, FetchersFinite
  <2>6. Cardinality(Fetchers \cup first) <= Cardinality(Fetchers')
    BY <2>3, FetchersFiniteNext, FS_Subset
  <2> QED
    BY <2>5, <2>6
<1>8. /\ data' = [jobs |-> data'.jobs, todo |-> data'.todo]
      /\ data'.jobs = data.jobs + JobsPerCall /\ data'.jobs \in Nat
  BY <1>1, JobsAssumption DEF JobsKept
<1>9. ASSUME line' # << >> PROVE data'.jobs <= Cardinality(Fetchers')
  <2>1. Len(line') # 0
    BY <1>4, <1>9, EmptySeq
  <2>2. m = JobsPerCall /\ Len(line) # 0
    BY <1>2, <1>3, <1>4, <2>1
  <2>3. data.jobs <= Cardinality(Fetchers)
    BY <2>2 DEF JobsKept
  <2> QED
    BY <1>3, <1>7, <1>8, <2>2, <2>3, FetchersFinite, FetchersFiniteNext DEF JobsKept
<1> QED
  BY <1>6, <1>8, <1>9 DEF JobsKept

\* A consumer that finds no job joins the line.
LEMMA JobsAwaited ==
  ASSUME CondInv, JobsKept, pc = [u \in Caller |-> pc[u]], NEW t \in Caller, SleepEmpty(t)
  PROVE  JobsKept'
<1>1. /\ data.jobs = 0 /\ data' = data /\ pc[t] = "look"
      /\ pc' = [pc EXCEPT ![t] = "asleep"]
      /\ line' = Append(line, t) /\ told' = told
      /\ wait' = [wait EXCEPT ![t] = [stage |-> "apart", kind |-> "write", limited |-> FALSE]]
  BY WaitEffect DEF SleepEmpty, WaitAt, Move
<1>2. /\ line \in Seq(Caller) /\ Len(line) \in Nat /\ Lined
      /\ \A i \in 1 .. Len(line) : line[i] \in Caller
  BY DEF CondInv, JobsKept
<1>3. /\ Len(line') = Len(line) + 1
      /\ \A i \in 1 .. Len(line) : line'[i] = line[i]
      /\ line'[Len(line) + 1] = t
  BY <1>1, <1>2, AppendProperties
<1>4. t \notin told /\ \A i \in 1 .. Len(line) : line[i] # t
  BY <1>1, <1>2 DEF Lined
<1>5. ~wait'[t].limited /\ wait'[t].stage = "apart"
  BY <1>1 DEF CondInv
<1>6. Lined'
  <2>1. ASSUME NEW i \in 1 .. Len(line'), NEW j \in 1 .. Len(line'), line'[i] = line'[j]
        PROVE  i = j
    <3>1. \A n \in 1 .. Len(line') : n \in 1 .. Len(line) \/ n = Len(line) + 1
      BY <1>2, <1>3
    <3> QED
      BY <1>2, <1>3, <1>4, <2>1, <3>1 DEF Lined
  <2>2. ASSUME NEW i \in 1 .. Len(line')
        PROVE  pc'[line'[i]] = "asleep" /\ line'[i] \notin told'
    <3>1. CASE i \in 1 .. Len(line)
      BY <1>1, <1>2, <1>3, <3>1 DEF Lined
    <3>2. CASE i = Len(line) + 1
      BY <1>1, <1>3, <1>4, <3>2
    <3> QED
      BY <1>2, <1>3, <3>1, <3>2
  <2>3. ASSUME NEW u \in Caller
        PROVE  /\ u \in told' => pc'[u] = "asleep"
               /\ pc'[u] = "asleep" =>
                    ~wait'[u].limited /\ (wait'[u].stage = "back" => u \in told')
    <3>1. CASE u = t
      BY <1>1, <1>4, <1>5, <3>1
    <3>2. CASE u # t
      BY <1>1, <1>2, <3>2 DEF Lined, CondInv
    <3> QED
      BY <3>1, <3>2
  <2> QED
    BY <2>1, <2>2, <2>3 DEF Lined
<1> QED
  BY <1>1, <1>6, FetchersFiniteNext DEF JobsKept

\* A consumer takes a job, and is no fetcher any more.
LEMMA JobsTaken ==
  ASSUME CondInv, JobsKept, pc = [u \in Caller |-> pc[u]], NEW t \in Caller, TakeJob(t)
  PROVE  JobsKept'
<1> DEFINE fewer == data.jobs - 1
           left == [data.todo EXCEPT ![t] = @ - 1]
<1>1. /\ data.jobs > 0 /\ pc[t] = "look" /\ pc' = [pc EXCEPT ![t] = "taken"]
      /\ data' = [data EXCEPT !.jobs = fewer, !.todo = left]
      /\ line' = line /\ told' = told /\ wait' = wait
  BY DEF TakeJob, Move, NoCondition, condVars
<1>2. /\ data' = [jobs |-> data'.jobs, todo |-> data'.todo]
      /\ data'.jobs = data.jobs - 1 /\ data'.jobs \in Nat
  <2>1. fewer \in Nat
    BY <1>1 DEF JobsKept
  <2> HIDE DEF left
  <2>2. data' = [jobs |-> fewer, todo |-> left]
    BY <1>1 DEF JobsKept
  <2> QED
    BY <2>1, <2>2
<1>3. /\ line \in Seq(Caller) /\ Lined
      /\ \A i \in 1 .. Len(line) : line[i] \in Caller
  BY DEF CondInv, JobsKept
<1>4. Lined'
  BY <1>1, <1>3 DEF Lined
<1>5. t \in Fetchers /\ Fetchers' = Fetchers \ {t}
  BY <1>1, <1>3 DEF Fetchers, Lined
<1>6. Cardinality(Fetchers') = Cardinality(Fetchers) - 1
  BY <1>5, FetchersFinite, FS_RemoveElement
<1> QED
  BY <1>1, <1>2, <1>4, <1>6, FetchersFinite DEF JobsKept

\* A consumer that was told comes back, and looks for its job.
LEMMA JobsSought ==
  ASSUME CondInv, Holding({"extend", "leave", "look", "taken"}, {}, {}), JobsKept,
         NEW t \in Caller, WakeForJob(t)
  PROVE  JobsKept'
<1>1. /\ pc = [u \in Caller |-> pc[u]] /\ Lined /\ line \in Seq(Caller)
      /\ \A i \in 1 .. Len(line) : line[i] \in Caller
  BY DEF Holding, JobsKept, CondInv
<1>2. CASE ComesBack(t, "asleep")
  <2>1. pc[t] = "asleep" /\ pc' = pc /\ data' = data /\ Cond!Regain(t)
    BY <1>2 DEF ComesBack, WakeForJob, LooksAgain, Move
  <2>2. held[t] = Nothing
    BY <2>1 DEF Holding, Stands, SleeperHolds, Cond!Regain
  <2>3. line' = line /\ told' = told /\ wait' = [wait EXCEPT ![t].stage = "back"]
    BY <2>1, <2>2, RegainEffect
  <2>4. t \in told
    BY <2>1, <1>1 DEF Cond!Regain, Lined
  <2>5. Lined'
    BY <1>1, <2>1, <2>3, <2>4 DEF Lined, CondInv, Waiting
  <2>6. Fetchers' = Fetchers
    BY <2>1, <2>3 DEF Fetchers
  <2> QED
    BY <2>1, <2>3, <2>5, <2>6 DEF JobsKept
<1>3. CASE LooksAgain(t, "look", "asleep")
  <2>1. /\ pc[t] = "asleep" /\ pc' = [pc EXCEPT ![t] = "look"] /\ data' = data
        /\ line' = Cond!LineWithout(t) /\ told' = told \ {t}
        /\ wait' = [wait EXCEPT ![t] = Cond!Out]
        /\ wait[t].stage = "back"
    BY <1>3, ReturnEffect DEF LooksAgain, WakeForJob, Move
  <2>2. t \in told /\ \A i \in 1 .. Len(line) : line[i] # t
    BY <1>1, <2>1 DEF Lined
  <2>3. line' = line
    BY <2>1, <2>2 DEF Cond!LineWithout, Cond!InLine
  <2>4. Lined'
    BY <1>1, <2>1, <2>2, <2>3 DEF Lined, CondInv
  <2>5. Fetchers' = Fetchers
    BY <1>1, <2>1, <2>2 DEF Fetchers
  <2> QED
    BY <2>1, <2>3, <2>4, <2>5 DEF JobsKept
<1> QED
  BY <1>2, <1>3 DEF WakeForJob

LEMMA QueueStepInv ==
  ASSUME CondInv, QueueInv, NEW t \in Caller, QueueStep(t)
  PROVE  CondInv' /\ QueueInv'
<1>1. /\ CondInv'
      /\ Holding({"extend", "leave", "look", "taken"}, {}, {})'
      /\ SleepsIn("write")'
  BY QueuePoints
<1>2. /\ pc = [u \in Caller |-> pc[u]] /\ JobsKept /\ line \in Seq(Caller)
      /\ Holding({"extend", "leave", "look", "taken"}, {}, {})
  BY DEF QueueInv, Holding, JobsKept, CondInv
<1> SUFFICES JobsKept'
  BY <1>1 DEF QueueInv, JobsKept
<1>3. CASE EnterAdd(t)
  BY <1>2, <1>3, JobsStay DEF EnterAdd, Move, Acquire
<1>4. CASE AddJobs(t)
  BY <1>2, <1>4, JobsAdded
<1>5. CASE LeaveAdd(t)
  BY <1>2, <1>5, JobsStay DEF LeaveAdd, Move, Release
<1>6. CASE EnterConsume(t)
  BY <1>2, <1>6, JobsStay DEF EnterConsume, Move, Acquire
<1>7. CASE SleepEmpty(t)
  BY <1>2, <1>7, JobsAwaited
<1>8. CASE TakeJob(t)
  BY <1>2, <1>8, JobsTaken
<1>9. CASE LeaveConsume(t)
  BY <1>2, <1>9, JobsStay DEF LeaveConsume, Move, Release
<1>10. CASE WakeForJob(t)
  BY <1>2, <1>10, JobsSought
<1> QED
  BY <1>3, <1>4, <1>5, <1>6, <1>7, <1>8, <1>9, <1>10 DEF QueueStep

-----------------------------------------------------------------------------
(* All programs together.                                                  *)

LEMMA ProgramInitInv == ProgramInit => ProgramInv
<1> SUFFICES ASSUME ProgramInit PROVE ProgramInv
  OBVIOUS
<1>1. /\ held = [t \in Caller |-> Nothing] /\ line = << >> /\ told = {}
      /\ wait = [t \in Caller |-> Cond!Out]
  BY DEF ProgramInit, Cond!Init, Cond!Lock!Init, Nothing
<1>2. CondInv
  BY <1>1
  DEF CondInv, Cond!Lock!MutualExclusion, Nothing, Waiting, Cond!Out
<1>3. \A t \in Caller : held[t] = Nothing /\ wait[t].stage = "out"
  BY <1>1 DEF Cond!Out
<1>4. CASE LedgerInit
  <2>1. PICK amount \in [Caller -> Amounts] :
          data = [balance |-> InitialBalance, log |-> << >>, amount |-> amount,
                  made |-> [t \in Caller |-> None], audited |-> [t \in Caller |-> None]]
    BY <1>4 DEF LedgerInit
  <2>2. LedgerInv
    BY <1>3, <1>4, <2>1 DEF LedgerInit, LedgerInv, Holding, Stands
  <2> QED
    BY <1>2, <1>4, <2>2 DEF ProgramInv, LedgerInit
<1>5. CASE TokenInit
  <2>1. TokenInv
    BY <1>3, <1>5 DEF TokenInit, TokenInv, Holding, Stands
  <2> QED
    BY <1>2, <1>5, <2>1 DEF ProgramInv, TokenInit
<1>6. CASE ConfigInit
  <2>1. ConfigInv
    BY <1>3, <1>6 DEF ConfigInit, ConfigInv, Holding, Stands, Owns
  <2> QED
    BY <1>2, <1>6, <2>1 DEF ProgramInv, ConfigInit
<1>7. CASE QueueInit
  <2>1. /\ pc \in [Caller -> {"add", "consume"}]
        /\ data = [jobs |-> 0, todo |-> data.todo]
    BY <1>7 DEF QueueInit
  <2>2. QueueInv
    BY <1>1, <1>3, <2>1 DEF QueueInv, Holding, Stands, SleepsIn, Lined
  <2> QED
    BY <1>2, <1>7, <2>2 DEF ProgramInv, QueueInit
<1>8. CASE SyncInit
  <2>1. SyncInv
    BY <1>3, <1>8 DEF SyncInit, SyncInv, Holding, Stands, SleepsIn
  <2> QED
    BY <1>2, <1>8, <2>1 DEF ProgramInv, SyncInit
<1>9. CASE BootInit
  <2>1. BootInv
    BY <1>3, <1>9 DEF BootInit, BootInv, Holding, Stands, SleepsIn
  <2> QED
    BY <1>2, <1>9, <2>1 DEF ProgramInv, BootInit
<1> QED
  BY <1>4, <1>5, <1>6, <1>7, <1>8, <1>9 DEF ProgramInit

LEMMA StutterInv == ProgramInv /\ UNCHANGED programVars => ProgramInv'
BY DEF ProgramInv, programVars, condVars, CondInv, Cond!Lock!MutualExclusion,
       Cond!Lock!Holds, Holding, Stands, SleeperHolds, SleepsIn, Lined, Fetchers, Owns,
       LedgerInv, TokenInv, ConfigInv, QueueInv, SyncInv, BootInv

LEMMA ProgramNextInv == ProgramInv /\ [ProgramNext]_programVars => ProgramInv'
<1> SUFFICES ASSUME ProgramInv, [ProgramNext]_programVars PROVE ProgramInv'
  OBVIOUS
<1>1. ASSUME NEW t \in Caller, ProgramStep(t) PROVE ProgramInv'
  <2>1. program' = program
    BY <1>1 DEF ProgramStep
  <2>2. CASE program = "ledger" /\ LedgerStep(t)
    BY <2>1, <2>2, LedgerStepInv DEF ProgramInv
  <2>3. CASE program = "token" /\ TokenStep(t)
    BY <2>1, <2>3, TokenStepInv DEF ProgramInv
  <2>4. CASE program = "config" /\ ConfigStep(t)
    BY <2>1, <2>4, ConfigStepInv DEF ProgramInv
  <2>5. CASE program = "queue" /\ QueueStep(t)
    BY <2>1, <2>5, QueueStepInv DEF ProgramInv
  <2>6. CASE program = "sync" /\ SyncStep(t)
    BY <2>1, <2>6, SyncStepInv DEF ProgramInv
  <2>7. CASE program = "boot" /\ BootStep(t)
    BY <2>1, <2>7, BootStepInv DEF ProgramInv
  <2> QED
    BY <1>1, <2>2, <2>3, <2>4, <2>5, <2>6, <2>7 DEF ProgramStep
<1>2. ASSUME NEW t \in Caller, Cancellation(t) PROVE ProgramInv'
  BY <1>2, ConfigStepInv DEF Cancellation, ProgramInv
<1>3. CASE UNCHANGED programVars
  BY <1>3, StutterInv
<1> QED
  BY <1>1, <1>2, <1>3 DEF ProgramNext, AllEnded

LEMMA ProgramInvariant == ProgramSpec => []ProgramInv
BY ProgramInitInv, ProgramNextInv, PTL DEF ProgramSpec

\* process_payment: the audit of a payment reports the balance that this payment has
\* made, for any number of payments and amounts; the downgrade lets no other writer in.
THEOREM AuditAlwaysSeesOwn == ProgramSpec => []AuditSeesOwnPayment
<1>1. ProgramInv => AuditSeesOwnPayment
  BY DEF ProgramInv, LedgerInv, AuditSeesOwnPayment
<1> QED
  BY <1>1, ProgramInvariant, PTL

\* get_valid_token: however many callers see the token expired, it is fetched at most
\* once for each time it was invalidated.
THEOREM TokenAlwaysFetchedOnce == ProgramSpec => []TokenFetchedOnce
<1>1. ProgramInv => TokenFetchedOnce
  BY DEF ProgramInv, TokenInv, TokenFetchedOnce
<1> QED
  BY <1>1, ProgramInvariant, PTL

\* force_refresh_from_db: the flag is set exactly while one refresher owns it, through
\* the load outside of the lock and through every cancellation.
THEOREM RefreshFlagAlwaysOwned == ProgramSpec => []RefreshFlagOwned
<1>1. ProgramInv => RefreshFlagOwned
  <2> DEFINE owners == {t \in Caller : Owns(t)}
  <2>1. SUFFICES ASSUME ConfigInv
                 PROVE  (data.refreshing <=> owners # {}) /\ Cardinality(owners) <= 1
    BY DEF ProgramInv, RefreshFlagOwned, Owns
  <2>2. data.refreshing <=> owners # {}
    BY <2>1 DEF ConfigInv
  <2>3. CASE owners = {}
    BY <2>2, <2>3, FS_EmptySet
  <2>4. CASE owners # {}
    <3>1. PICK t \in Caller : owners = {t}
      BY <2>1, <2>4 DEF ConfigInv
    <3> HIDE DEF owners
    <3>2. Cardinality({t}) = 1
      BY FS_Singleton
    <3> QED
      BY <2>2, <3>1, <3>2
  <2> QED
    BY <2>3, <2>4
<1> QED
  BY <1>1, ProgramInvariant, PTL

\* add_jobs and consume_job: while a consumer sleeps un-notified, the jobs in the queue
\* are no more than the consumers on their way to take one.
THEOREM JobsAlwaysFetched == ProgramSpec => []JobsAreFetched
<1>1. ProgramInv => JobsAreFetched
  BY DEF ProgramInv, QueueInv, JobsAreFetched, Fetchers
<1> QED
  BY <1>1, ProgramInvariant, PTL

\* commit_and_sync: the ledger never says that it is synchronised while a commit has
\* not been uploaded, whoever announces it.
THEOREM SyncAlwaysUploaded == ProgramSpec => []SyncMeansUploaded
<1>1. ProgramInv => SyncMeansUploaded
  BY DEF ProgramInv, SyncInv, SyncMeansUploaded
<1> QED
  BY <1>1, ProgramInvariant, PTL

\* start_api_server: what wait_for returns is what the predicate says when it returns,
\* for every race of the timeout with the notification.
THEOREM AnswerAlwaysCurrent == ProgramSpec => []AnswerIsCurrent
<1>1. ProgramInv => AnswerIsCurrent
  BY DEF ProgramInv, BootInv, AnswerIsCurrent
<1> QED
  BY <1>1, ProgramInvariant, PTL

\* In all six programs a caller in a write section is alone, also after a downgrade of
\* another one and after a wait that gives the section up and comes back.
THEOREM ProgramExclusion == ProgramSpec => []Cond!Lock!MutualExclusion
<1>1. ProgramInv => Cond!Lock!MutualExclusion
  BY DEF ProgramInv, CondInv
<1> QED
  BY <1>1, ProgramInvariant, PTL

-----------------------------------------------------------------------------
(* The programs ask nothing of the condition that it does not promise.     *)

CondStep == Cond!Next \/ UNCHANGED condVars

LEMMA AcquireIsLockStep ==
  ASSUME NEW t \in Caller, wait[t].stage = "out",
         NEW k \in {"read", "write"}, Acquire(t, k)
  PROVE  CondStep
<1>1. Cond!LockStep(t)
  BY DEF Acquire, Cond!LockStep
<1> QED
  BY <1>1 DEF CondStep, Cond!Next

LEMMA ReleaseIsLockStep ==
  ASSUME NEW t \in Caller, wait[t].stage = "out", Release(t) \/ Downgrade(t)
  PROVE  CondStep
<1>1. Cond!LockStep(t)
  BY DEF Release, Downgrade, Cond!LockStep
<1> QED
  BY <1>1 DEF CondStep, Cond!Next

LEMMA NotifyIsStep ==
  ASSUME CondInv, NEW t \in Caller, NEW n \in Nat, NotifyUpTo(t, n)
  PROVE  CondStep
<1> DEFINE m == IF n < Len(line) THEN n ELSE Len(line)
<1>1. Len(line) \in Nat /\ m \in 0 .. Len(line)
  BY DEF CondInv
<1>2. CASE m = 0
  BY <1>2 DEF NotifyUpTo, CondStep
<1>3. CASE m # 0
  <2>1. m \in 1 .. Len(line) /\ Cond!Notify(t, m)
    BY <1>1, <1>3 DEF NotifyUpTo
  <2> HIDE DEF m
  <2> QED
    BY <2>1 DEF CondStep, Cond!Next
<1> QED
  BY <1>2, <1>3

LEMMA NotifyAllIsStep ==
  ASSUME CondInv, NEW t \in Caller, NotifyAll(t)
  PROVE  CondStep
<1>1. Len(line) \in Nat
  BY DEF CondInv
<1> QED
  BY <1>1, NotifyIsStep DEF NotifyAll

LEMMA WaitIsStep ==
  ASSUME NEW t \in Caller, NEW k \in {"read", "write"}, NEW limited \in BOOLEAN, NEW look,
         WaitAt(t, k, limited, look, "asleep")
  PROVE  CondStep
<1>1. Cond!Wait(t, k, limited) /\ k \in Cond!Kind
  BY DEF WaitAt, Cond!Kind
<1> QED
  BY <1>1 DEF CondStep, Cond!Next

LEMMA WakeIsStep ==
  ASSUME NEW t \in Caller, NEW look,
         \/ StopsWaiting(t, "asleep")
         \/ ComesBack(t, "asleep")
         \/ LooksAgain(t, look, "asleep")
  PROVE  CondStep
BY DEF StopsWaiting, ComesBack, LooksAgain, CondStep, Cond!Next

\* Who is not asleep is outside of wait.
LEMMA AwakeOutside ==
  ASSUME NEW writing, NEW reading, NEW either, Holding(writing, reading, either),
         NEW t \in Caller, pc[t] # "asleep"
  PROVE  wait[t].stage = "out"
BY DEF Holding, Stands

LEMMA StepUsesCondition ==
  ASSUME ProgramInv, NEW t \in Caller, ProgramStep(t) \/ Cancellation(t)
  PROVE  CondStep
<1>1. CondInv
  BY DEF ProgramInv
<1>2. pc[t] # "asleep" => wait[t].stage = "out"
  BY AwakeOutside
  DEF ProgramInv, LedgerInv, TokenInv, ConfigInv, QueueInv, SyncInv, BootInv
<1>3. NoCondition => CondStep
  BY DEF NoCondition, CondStep
<1>4. CASE LedgerStep(t)
  BY <1>2, <1>3, <1>4, AcquireIsLockStep, ReleaseIsLockStep
  DEF LedgerStep, StartPayment, Book, Refuse, KeepReading, Audit, EndPayment, Move
<1>5. CASE TokenStep(t)
  BY <1>2, <1>3, <1>5, AcquireIsLockStep, ReleaseIsLockStep
  DEF TokenStep, Invalidate, LookUp, LeaveStale, LookAgain, Fetch, LeaveToken, Move
<1>6. CASE ConfigStep(t)
  <2>1. CASE Reading(t)
    BY <1>2, <1>3, <2>1, AcquireIsLockStep, WaitIsStep
    DEF Reading, EnterRead, SleepReading, ReadConfig, Move
  <2>2. CASE Claiming(t)
    BY <1>2, <1>3, <2>2, AcquireIsLockStep, ReleaseIsLockStep, WaitIsStep
    DEF Claiming, EnterRefresh, SleepClaiming, Claim, StartLoad, Move
  <2>3. CASE WakeUp(t)
    BY <2>3, WakeIsStep DEF WakeUp
  <2>4. CASE Publishing(t)
    BY <1>1, <1>2, <1>3, <2>4, AcquireIsLockStep, NotifyAllIsStep
    DEF Publishing, EnterPublish, Publish, EnterRecover, Unclaim, Move
  <2>5. CASE LeaveConfig(t)
    BY <1>2, <2>5, ReleaseIsLockStep DEF LeaveConfig, Move
  <2> QED
    BY <1>6, <2>1, <2>2, <2>3, <2>4, <2>5 DEF ConfigStep
<1>7. CASE QueueStep(t)
  <2>1. CASE EnterAdd(t) \/ EnterConsume(t)
    BY <1>2, <2>1, AcquireIsLockStep DEF EnterAdd, EnterConsume, Move
  <2>2. CASE AddJobs(t)
    BY <1>1, <2>2, NotifyIsStep, JobsAssumption DEF AddJobs
  <2>3. CASE LeaveAdd(t) \/ LeaveConsume(t)
    BY <1>2, <2>3, ReleaseIsLockStep DEF LeaveAdd, LeaveConsume, Move
  <2>4. CASE SleepEmpty(t)
    BY <2>4, WaitIsStep DEF SleepEmpty
  <2>5. CASE TakeJob(t)
    BY <1>3, <2>5 DEF TakeJob
  <2>6. CASE WakeForJob(t)
    BY <2>6, WakeIsStep DEF WakeForJob
  <2> QED
    BY <1>7, <2>1, <2>2, <2>3, <2>4, <2>5, <2>6 DEF QueueStep
<1>8. CASE SyncStep(t)
  <2>1. CASE Committing(t)
    BY <1>1, <1>2, <1>3, <2>1, AcquireIsLockStep, ReleaseIsLockStep, NotifyAllIsStep
    DEF Committing, Commit, StartUpload, Upload, LeaveUpload, Announce, Complete, Move
  <2>2. CASE Awaiting(t)
    BY <1>2, <1>3, <2>2, AcquireIsLockStep, WaitIsStep, WakeIsStep
    DEF Awaiting, EnterAwait, SleepUnsynced, WakeForSync, Confirm, Move
  <2>3. CASE LeaveSync(t)
    BY <1>2, <2>3, ReleaseIsLockStep DEF LeaveSync, Move
  <2> QED
    BY <1>8, <2>1, <2>2, <2>3 DEF SyncStep
<1>9. CASE BootStep(t)
  <2>1. CASE MarkReady(t) \/ TellServers(t) \/ LeaveMark(t)
    BY <1>1, <1>2, <2>1, AcquireIsLockStep, ReleaseIsLockStep, NotifyAllIsStep
    DEF MarkReady, TellServers, LeaveMark, Move
  <2>2. CASE EnterBoot(t) \/ AnswerWaitFor(t) \/ LeaveBoot(t)
    BY <1>2, <1>3, <2>2, AcquireIsLockStep, ReleaseIsLockStep
    DEF EnterBoot, AnswerWaitFor, LeaveBoot, Move
  <2>3. CASE SleepUnready(t)
    BY <2>3, WaitIsStep DEF SleepUnready
  <2>4. CASE WakeForBoot(t)
    BY <2>4, WakeIsStep DEF WakeForBoot
  <2> QED
    BY <1>9, <2>1, <2>2, <2>3, <2>4 DEF BootStep
<1>10. CASE ConfigCancel(t)
  BY <1>3, <1>10 DEF ConfigCancel, CancelEntry, CancelWait, CancelLoad
<1> QED
  BY <1>4, <1>5, <1>6, <1>7, <1>8, <1>9, <1>10 DEF ProgramStep, Cancellation

\* All that the six programs do to their condition is what ReadWriteCondition lets its
\* callers do: they release what they hold, and wait holding the lock once.  So what
\* is proved of the programs holds over each condition that implements it.
THEOREM ProgramsUseCondition == ProgramSpec => Cond!Spec
<1>1. ProgramInit => Cond!Init
  BY DEF ProgramInit
<1>2. ProgramInv /\ [ProgramNext]_programVars => [Cond!Next]_(Cond!vars)
  BY StepUsesCondition
  DEF ProgramNext, AllEnded, CondStep, programVars, condVars, Cond!vars
<1> QED
  BY <1>1, <1>2, ProgramInvariant, PTL DEF ProgramSpec, Cond!Spec

=============================================================================

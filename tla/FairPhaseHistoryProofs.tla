----------------------- MODULE FairPhaseHistoryProofs -----------------------
(***************************************************************************)
(* A reader that comes late to a phase of the strict fair classes lets the *)
(* writers already queued go first, for every set of threads and every     *)
(* bound, unless one of them gives up meanwhile.  It cannot get in while   *)
(* one of them waits without a slot, and as long as no writer gets in, the *)
(* slots change only by being used: a new set of them comes from a writer  *)
(* that releases, downgrades or gives up.                                  *)
(***************************************************************************)
EXTENDS FairPhaseHistory, ThreadRWLockProofs

\* Who waits to write is one of the writers.
WritersAsk == \A t \in Caller : call[t] = "write" => t \in Writers

\* A late reader waits, no writer has got in, and it has no slot before a writer
\* has given up.
LateReadersKept ==
  \A t \in Caller : ahead[t] # {} =>
    /\ lock.policy = "fair"
    /\ lock.writer = None
    /\ call[t] = "read"
    /\ t \in lock.reserved => t \in upset

HistoryInv == WritersAsk /\ LateReadersKept

\* From s to u no caller gets a slot.
NoNewSlot(u, s) ==
  /\ u \in LockRecord
  /\ u.policy = s.policy
  /\ u.reserved \subseteq s.reserved

-----------------------------------------------------------------------------
(* The core operations that give nobody a slot.                            *)

LEMMA NoNewSlotTransitive ==
  ASSUME NEW a, NEW b, NEW c, NoNewSlot(a, b), NoNewSlot(b, c)
  PROVE  NoNewSlot(a, c)
BY DEF NoNewSlot

\* Waking takes and gives no slot, nor does moving in and out of a wait.
LEMMA WaitNoSlot ==
  ASSUME NEW s \in LockRecord, NEW k \in Kind, NEW t \in Caller
  PROVE  /\ \A n : NoNewSlot(Notify(s, k, n), s)
         /\ NoNewSlot(Join(s, k, t), s)
         /\ NoNewSlot(Leave(s, k, t), s)
         /\ NoNewSlot(Append1(s, k, t), s)
         /\ NoNewSlot(Discard(s, k, t), s)
<1>1. \A n : NoNewSlot(Notify(s, k, n), s)
  <2> SUFFICES ASSUME NEW n PROVE NoNewSlot(Notify(s, k, n), s)
    OBVIOUS
  <2>1. Notify(s, k, n) \in LockRecord /\ SameHolds(Notify(s, k, n), s)
    BY NotifyFrame
  <2>2. Notify(s, k, n).reserved = s.reserved
    BY DEF Notify, LockRecord
  <2> QED
    BY <2>1, <2>2 DEF NoNewSlot, SameHolds
<1>2. /\ Join(s, k, t).reserved = s.reserved
      /\ Leave(s, k, t).reserved = s.reserved
      /\ Append1(s, k, t).reserved = s.reserved
      /\ Discard(s, k, t).reserved = s.reserved
  BY DEF Join, Leave, Append1, Discard, LockRecord
<1> QED
  BY <1>1, <1>2, WaitFrame DEF NoNewSlot, SameHolds

\* The phase goes on with the slots it has, or ends and drops them; a slot that
\* is used leaves.
LEMMA PhaseNoSlot ==
  ASSUME NEW s \in LockRecord, NEW t \in Caller
  PROVE  /\ NoNewSlot(FairWake(s), s)
         /\ NoNewSlot(FairFinishOrContinue(s), s)
         /\ NoNewSlot(ConsumeSlot(s, t), s)
         /\ t \notin ConsumeSlot(s, t).reserved
<1>1. "read" \in Kind /\ "write" \in Kind
  BY DEF Kind
<1>2. NoNewSlot(s, s)
  BY DEF NoNewSlot
<1>3. NoNewSlot(FairWake(s), s)
  BY <1>1, <1>2, WaitNoSlot DEF FairWake
<1>4. NoNewSlot(FairFinishOrContinue(s), s)
  <2> DEFINE over == [s EXCEPT !.turn = FALSE, !.pending = 0, !.reserved = {}]
             woken == Notify(over, "write", 1)
  <2>1. NoNewSlot(over, s)
    BY DEF NoNewSlot, LockRecord
  <2>2. over \in LockRecord
    BY <2>1 DEF NoNewSlot
  <2>3. FairFinishOrContinue(s) \in {FairWake(s), woken, over}
    BY DEF FairFinishOrContinue
  <2> HIDE DEF over
  <2>4. NoNewSlot(woken, over)
    BY <1>1, <2>2, WaitNoSlot
  <2> HIDE DEF woken
  <2>5. NoNewSlot(woken, s)
    BY <2>1, <2>4, NoNewSlotTransitive
  <2> QED
    BY <1>3, <2>1, <2>3, <2>5
<1>5. NoNewSlot(ConsumeSlot(s, t), s) /\ t \notin ConsumeSlot(s, t).reserved
  <2>1. ConsumeSlot(s, t) \in LockRecord /\ SameHolds(ConsumeSlot(s, t), s)
    BY FairFrame
  <2>2. ConsumeSlot(s, t).reserved = s.reserved \ {t}
    BY DEF ConsumeSlot, LockRecord
  <2> QED
    BY <2>1, <2>2 DEF NoNewSlot, SameHolds
<1> QED
  BY <1>3, <1>4, <1>5

\* A reader that gets in, one that leaves and one that gives up give nobody a slot.
LEMMA ReadersNoSlot ==
  ASSUME NEW s \in LockRecord, NEW t \in Caller, s.policy = "fair"
  PROVE  /\ NoNewSlot(AcquireReadCore(s, t), s)
         /\ s.active > 0 /\ s.owners[t] > 0 => NoNewSlot(ReleaseReadCore(s, t), s)
         /\ NoNewSlot(OnReaderAbort(s, t), s)
<1> DEFINE out == ConsumeSlot(s, t)
           in == AddReader(out, t)
           left == DropReader(s, t)
<1>1. NoNewSlot(out, s)
  BY PhaseNoSlot
<1>2. out \in LockRecord
  BY <1>1 DEF NoNewSlot
<1>3. NoNewSlot(in, out)
  <2> HIDE DEF out
  <2>1. in \in LockRecord
    BY <1>2, ReaderType
  <2> QED
    BY <1>2, <2>1 DEF NoNewSlot, AddReader, LockRecord
<1>4. NoNewSlot(in, s)
  <2> HIDE DEF in, out
  <2> QED
    BY <1>1, <1>3, NoNewSlotTransitive
<1>5. ASSUME s.active > 0, s.owners[t] > 0 PROVE NoNewSlot(left, s)
  BY <1>5, ReaderType DEF NoNewSlot, DropReader, LockRecord
<1>6. AcquireReadCore(s, t) \in {FairWake(in), in}
  BY DEF AcquireReadCore, FairAcquireRead
<1>7. ReleaseReadCore(s, t) \in {FairFinishOrContinue(left), left}
  BY DEF ReleaseReadCore, FairReleaseRead
<1>8. OnReaderAbort(s, t) \in {FairWake(out), FairFinishOrContinue(out), out}
  BY DEF OnReaderAbort, FairOnReaderAbort
<1> HIDE DEF in, left, out
<1>9. \A b : NoNewSlot(b, s) =>
               NoNewSlot(FairWake(b), s) /\ NoNewSlot(FairFinishOrContinue(b), s)
  <2> SUFFICES ASSUME NEW b, NoNewSlot(b, s)
               PROVE  NoNewSlot(FairWake(b), s) /\ NoNewSlot(FairFinishOrContinue(b), s)
    OBVIOUS
  <2>1. b \in LockRecord
    BY DEF NoNewSlot
  <2>2. NoNewSlot(FairWake(b), b) /\ NoNewSlot(FairFinishOrContinue(b), b)
    BY <2>1, PhaseNoSlot
  <2> QED
    BY <2>2, NoNewSlotTransitive
<1> QED
  BY <1>1, <1>4, <1>5, <1>6, <1>7, <1>8, <1>9

-----------------------------------------------------------------------------
(* The steps of the lock, for a policy that is fair.                       *)

\* The lock that a woken thread finds.
LEMMA RetakenNoSlot ==
  ASSUME IInv, NEW t \in Caller, call[t] \in Kind
  PROVE  NoNewSlot(Retaken(t), lock) /\ SameHolds(Retaken(t), lock)
         /\ Retaken(t).waiting = lock.waiting
<1>1. Retaken(t) \in LockRecord /\ SameHolds(Retaken(t), lock)
  BY RetakenFrame DEF IInv
<1>2. lock \in LockRecord
  BY DEF IInv, ClientInv, ClientTypeOK
<1>3. Retaken(t).reserved = lock.reserved /\ Retaken(t).waiting = lock.waiting
  BY <1>2 DEF Retaken, Discard, LockRecord
<1> QED
  BY <1>1, <1>3 DEF NoNewSlot, SameHolds

\* A step under which no writer holds the lock, before or after, gives a slot to
\* nobody, unless a writer gives up.
LEMMA StepNoSlot ==
  ASSUME IInv, WritersAsk, Next, lock.policy = "fair",
         lock.writer = None, lock'.writer = None, ~WriterGivesUp
  PROVE  NoNewSlot(lock', lock)
<1>1. lock \in LockRecord
  BY DEF IInv, ClientInv, ClientTypeOK
<1>2. ASSUME NEW s \in LockRecord, NEW t \in Caller, NEW k \in Kind, NoNewSlot(s, lock),
             lock' \in {AcquireCore(s, k, t), Leave(AcquireCore(s, k, t), k, t)}
      PROVE  NoNewSlot(lock', lock)
  <2> DEFINE in == AcquireCore(s, k, t)
  <2>1. k = "read"
    <3> SUFFICES ASSUME k = "write" PROVE FALSE
      BY DEF Kind
    <3>1. in \in LockRecord /\ in.writer = t
      BY <1>2, WriteCoreEffect DEF AcquireCore, AcquireWriteCore, LockRecord
    <3> HIDE DEF in
    <3>2. Leave(in, k, t).writer = in.writer
      BY <3>1 DEF Leave, LockRecord
    <3>3. lock' \in {in, Leave(in, k, t)}
      BY <1>2 DEF in
    <3> QED
      BY <3>1, <3>2, <3>3, CallerAssumption
  <2>2. in = AcquireReadCore(s, t)
    BY <2>1 DEF AcquireCore
  <2>3. s.policy = "fair"
    BY <1>2 DEF NoNewSlot
  <2>4. NoNewSlot(in, s)
    BY <2>2, <2>3, ReadersNoSlot
  <2>5. lock' \in {in, Leave(in, k, t)}
    BY <1>2
  <2> HIDE DEF in
  <2>6. in \in LockRecord
    BY <2>4 DEF NoNewSlot
  <2>7. NoNewSlot(Leave(in, k, t), in)
    BY <2>6, WaitNoSlot
  <2> QED
    BY <1>2, <2>4, <2>5, <2>7, NoNewSlotTransitive
<1>3. ASSUME NEW s \in LockRecord, NEW t \in Caller, NoNewSlot(s, lock),
             lock' = OnAbort(Leave(s, "read", t), "read", t)
      PROVE  NoNewSlot(lock', lock)
  <2> DEFINE out == Leave(s, "read", t)
  <2>1. NoNewSlot(out, s)
    BY WaitNoSlot DEF Kind
  <2>2. lock' = OnReaderAbort(out, t)
    BY <1>3 DEF OnAbort
  <2> HIDE DEF out
  <2>3. NoNewSlot(out, lock)
    BY <1>3, <2>1, NoNewSlotTransitive
  <2>4. out \in LockRecord /\ out.policy = "fair"
    BY <2>3 DEF NoNewSlot
  <2>5. NoNewSlot(lock', out)
    BY <2>2, <2>4, ReadersNoSlot
  <2> QED
    BY <2>3, <2>5, NoNewSlotTransitive
<1>4. NoNewSlot(lock, lock)
  BY <1>1 DEF NoNewSlot
<1>5. ASSUME NEW t \in Caller, NEW k \in Kind, Acquiring(t, k)
      PROVE  NoNewSlot(lock', lock)
  <2> DEFINE s == Join(lock, k, t)
  <2>1. NoNewSlot(s, lock)
    BY <1>1, WaitNoSlot
  <2>2. s \in LockRecord
    BY <2>1 DEF NoNewSlot
  <2>3. CASE TryAcquire(t, k)
    BY <1>1, <1>2, <1>4, <2>3 DEF TryAcquire
  <2>4. CASE \E d \in {"none", "ahead"} : Park(t, k, d)
    <3>1. lock' = Append1(s, k, t)
      BY <2>4 DEF Park
    <3> HIDE DEF s
    <3>2. NoNewSlot(lock', s)
      BY <2>2, <3>1, WaitNoSlot
    <3> QED
      BY <2>1, <3>2, NoNewSlotTransitive
  <2>5. CASE GiveUpAtOnce(t, k)
    <3>1. k = "read"
      BY <2>5 DEF WriterGivesUp, GiveUpAtOnce, MayAsk, Kind
    <3>2. lock' = OnAbort(Leave(s, "read", t), "read", t)
      BY <2>5, <3>1 DEF GiveUpAtOnce
    <3> HIDE DEF s
    <3> QED
      BY <1>3, <2>1, <2>2, <3>2
  <2> QED
    BY <1>5, <2>3, <2>4, <2>5 DEF Acquiring
<1>6. ASSUME NEW t \in Caller, Resume(t) \/ Interrupt(t)
      PROVE  NoNewSlot(lock', lock)
  <2> DEFINE k == call[t]
             s == Retaken(t)
  <2>1. k \in Kind
    BY <1>6 DEF Resume, ResumeAcquire, ResumePark, ResumeAbort, Awake, Interrupt
  <2>2. NoNewSlot(s, lock)
    BY <2>1, RetakenNoSlot
  <2>3. s \in LockRecord
    BY <2>2 DEF NoNewSlot
  <2>4. CASE ResumeAcquire(t)
    <3>1. lock' = Leave(AcquireCore(s, k, t), k, t)
      BY <2>4 DEF ResumeAcquire
    <3> HIDE DEF s, k
    <3> QED
      BY <1>2, <2>1, <2>2, <2>3, <3>1
  <2>5. CASE ResumePark(t)
    <3>1. lock' = Append1(s, k, t)
      BY <2>5 DEF ResumePark
    <3> HIDE DEF s, k
    <3>2. NoNewSlot(lock', s)
      BY <2>1, <2>3, <3>1, WaitNoSlot
    <3> QED
      BY <2>2, <3>2, NoNewSlotTransitive
  <2>6. CASE Abort(t)
    <3>1. call'[t] = "none"
      BY <2>6 DEF Abort, IInv, ClientInv, ClientTypeOK
    <3>2. k = "read"
      BY <2>1, <3>1 DEF WriterGivesUp, WritersAsk, Kind
    <3>3. lock' = OnAbort(Leave(s, "read", t), "read", t)
      BY <2>6, <3>2 DEF Abort
    <3> HIDE DEF s, k
    <3> QED
      BY <1>3, <2>2, <2>3, <3>3
  <2> QED
    BY <1>6, <2>4, <2>5, <2>6 DEF Resume, ResumeAbort, Interrupt
<1>7. ASSUME NEW t \in Caller, ReadRelease(t) \/ WriteRelease(t) \/ Downgrade(t)
      PROVE  NoNewSlot(lock', lock)
  <2>1. lock.owners[t] = held[t].r /\ held[t].r \in Nat /\ held[t].w = 0
    BY CallerAssumption DEF IInv, ClientInv, ClientTypeOK, HoldsAgree
  <2>2. CASE ReadRelease(t) \/ EndDowngraded(t)
    <3>1. lock' = ReleaseReadCore(lock, t) /\ lock.owners[t] > 0
      BY <2>1, <2>2 DEF ReadRelease, EndRead, ReleaseRead, EndDowngraded, RoutedToRead
    <3>2. lock.active > 0
      BY <1>1, <3>1, NoReaders DEF IInv, ClientInv, HoldsAgree, LockRecord
    <3> QED
      BY <1>1, <3>1, <3>2, ReadersNoSlot
  <2>3. ~EndWrite(t)
    BY CallerAssumption DEF EndWrite, MayReleaseWrite
  <2>4. ~Downgrade(t)
    BY CallerAssumption DEF Downgrade, WriteToRead, MayDowngrade
  <2>5. CASE EndRefused(t)
    BY <1>4, <2>5 DEF EndRefused
  <2> QED
    BY <1>7, <2>2, <2>3, <2>4, <2>5 DEF WriteRelease
<1>8. ASSUME NEW t \in Caller, Expire(t) \/ ClearMarker(t)
      PROVE  NoNewSlot(lock', lock)
  BY <1>4, <1>8 DEF Expire, clientVars, ClearMarker
<1> QED
  BY <1>5, <1>6, <1>7, <1>8 DEF Next

\* No step changes the class of the lock.
LEMMA StepKeepsClass ==
  ASSUME IInv, Next
  PROVE  lock'.policy = lock.policy
<1> DEFINE Same(u) == u \in LockRecord /\ u.policy = lock.policy
<1>1. lock \in LockRecord /\ Same(lock)
  BY DEF IInv, ClientInv, ClientTypeOK
<1>2. ASSUME NEW s, Same(s), NEW t \in Caller, NEW k \in Kind
      PROVE  /\ Same(Join(s, k, t)) /\ Same(Append1(s, k, t))
             /\ Same(Leave(s, k, t)) /\ Same(OnAbort(Leave(s, k, t), k, t))
  BY <1>2, WaitFrame, AbortEffect DEF SameHolds
<1>3. ASSUME NEW s, Same(s), NEW t \in Caller, NEW k \in Kind
      PROVE  Same(AcquireCore(s, k, t))
  <2>1. Same(AcquireReadCore(s, t))
    BY <1>3, AcquireReadEffect DEF SameHolds, AddReader, LockRecord
  <2>2. Same(AcquireWriteCore(s, t))
    BY <1>3, WriteCoreEffect DEF AcquireWriteCore, LockRecord
  <2> QED
    BY <2>1, <2>2 DEF AcquireCore
<1>4. ASSUME NEW t \in Caller, call[t] \in Kind PROVE Same(Retaken(t))
  BY <1>4, RetakenNoSlot DEF NoNewSlot
<1>5. ASSUME NEW t \in Caller, lock.owners[t] > 0 PROVE Same(ReleaseReadCore(lock, t))
  <2>1. lock.active > 0
    BY <1>1, <1>5, NoReaders DEF IInv, ClientInv, HoldsAgree, LockRecord
  <2> QED
    BY <1>1, <1>5, <2>1, ReleaseReadEffect DEF SameHolds, DropReader, LockRecord
<1>6. ASSUME NEW t \in Caller PROVE Same(ReleaseWriteCore(lock))
  BY <1>1, <1>6, WriteCoreEffect DEF SameHolds, LockRecord
<1>7. ASSUME NEW t \in Caller PROVE Same(DowngradeCore(lock, t))
  BY <1>1, <1>7, DowngradeEffect
  DEF SameHolds, WriterToReader, AddReader, LockRecord
<1> HIDE DEF Same
<1>8. ASSUME NEW t \in Caller, NEW k \in Kind, Acquiring(t, k) PROVE Same(lock')
  BY <1>1, <1>2, <1>3, <1>8 DEF Acquiring, TryAcquire, Park, GiveUpAtOnce
<1>9. ASSUME NEW t \in Caller, Resume(t) \/ Interrupt(t) PROVE Same(lock')
  <2>1. call[t] \in Kind
    BY <1>9 DEF Resume, ResumeAcquire, ResumePark, ResumeAbort, Awake, Interrupt
  <2> QED
    BY <1>2, <1>3, <1>4, <1>9, <2>1
    DEF Resume, ResumeAcquire, ResumePark, ResumeAbort, Abort, Interrupt
<1>10. ASSUME NEW t \in Caller, Expire(t) \/ ClearMarker(t) PROVE Same(lock')
  BY <1>1, <1>10 DEF Expire, clientVars, ClearMarker
<1>11. ASSUME NEW t \in Caller, ReadRelease(t) \/ WriteRelease(t) \/ Downgrade(t)
       PROVE  Same(lock')
  <2>1. lock.owners[t] = held[t].r
    BY DEF IInv, ClientInv, HoldsAgree
  <2> QED
    BY <1>1, <1>5, <1>6, <1>7, <1>11, <2>1
    DEF ReadRelease, EndRead, ReleaseRead, WriteRelease, EndDowngraded, RoutedToRead,
        EndWrite, EndRefused, Downgrade, WriteToRead
<1>12. Same(lock')
  BY <1>8, <1>9, <1>10, <1>11 DEF Next
<1> QED
  BY <1>12 DEF Same

-----------------------------------------------------------------------------
(* Who comes to wait, and who gets in.                                     *)

\* A thread comes to wait by parking alone, without a slot.
LEMMA ComesToWait ==
  ASSUME IInv, WaitInv, Next, NEW t \in Caller, NEW k \in Kind,
         call[t] # k, call'[t] = k
  PROVE  /\ call' = [call EXCEPT ![t] = k] /\ MayAsk(t, k)
         /\ lock'.reserved = lock.reserved
<1>1. call \in [Caller -> Kind \cup {"none", "marker"}] /\ lock \in LockRecord
  BY DEF IInv, ClientInv, ClientTypeOK
<1>2. k # "none" /\ k # "marker"
  BY DEF Kind
<1>3. PICK u \in Caller, j \in Kind, d \in {"none", "ahead"} : Park(u, j, d)
  BY <1>1, <1>2 DEF Next, Acquiring, TryAcquire, GiveUpAtOnce, Granted, Expire, clientVars,
    Resume, ResumeAcquire, ResumePark, ResumeAbort, Abort, Interrupt, ClearMarker,
    ReadRelease, EndRead, ReleaseRead, WriteRelease, EndDowngraded, EndWrite, EndRefused,
    Downgrade, WriteToRead
<1>4. u = t /\ j = k
  BY <1>1, <1>3 DEF Park
<1>5. lock' = Append1(Join(lock, k, t), k, t)
  BY <1>3, <1>4 DEF Park
<1>6. Join(lock, k, t).reserved = lock.reserved
  BY <1>1 DEF Join, LockRecord
<1>7. lock'.reserved = lock.reserved
  <2> DEFINE s == Join(lock, k, t)
  <2>1. s \in LockRecord
    BY <1>1, WaitFrame
  <2> HIDE DEF s
  <2>2. Append1(s, k, t).reserved = s.reserved
    BY <2>1 DEF Append1, LockRecord
  <2> QED
    BY <1>5, <1>6, <2>2 DEF s
<1> QED
  BY <1>3, <1>4, <1>7 DEF Park

\* A thread that holds nothing comes to read on the fast path, or out of its wait.
LEMMA ComesToRead ==
  ASSUME IInv, Next, NEW t \in Caller,
         held[t].r = 0, held[t].w = 0, held'[t].r = 1
  PROVE  \/ TryAcquire(t, "read")
         \/ ResumeAcquire(t) /\ call[t] = "read"
<1>1. /\ held \in [Caller -> [r : Nat, w : Nat]] /\ lock \in LockRecord
      /\ call \in [Caller -> Kind \cup {"none", "marker"}]
  BY DEF IInv, ClientInv, ClientTypeOK
<1>2. ASSUME NEW u \in Caller, NEW k \in Kind, Gains(u, k) PROVE u = t /\ k = "read"
  BY <1>1, <1>2 DEF Gains, Kind
<1>3. ASSUME NEW u \in Caller, NEW k \in Kind, Loses(u, k), k = "read" => held[u].r > 0
      PROVE  FALSE
  BY <1>1, <1>3 DEF Loses, Kind
<1>4. ASSUME NEW u \in Caller, NEW k \in Kind, Acquiring(u, k)
      PROVE  TryAcquire(t, "read")
  BY <1>2, <1>4 DEF Acquiring, TryAcquire, Park, GiveUpAtOnce, Granted
<1>5. ASSUME NEW u \in Caller, Resume(u) \/ Interrupt(u)
      PROVE  ResumeAcquire(t) /\ call[t] = "read"
  <2>1. ResumeAcquire(u)
    BY <1>5 DEF Resume, ResumePark, ResumeAbort, Abort, Interrupt
  <2>2. call[u] \in Kind /\ Gains(u, call[u])
    BY <2>1 DEF ResumeAcquire, Awake, Granted
  <2> QED
    BY <1>2, <2>1, <2>2
<1>6. ASSUME NEW u \in Caller PROVE ~ReadRelease(u) /\ ~WriteRelease(u) /\ ~Downgrade(u)
  <2>1. lock.owners[u] = held[u].r
    BY DEF IInv, ClientInv, HoldsAgree
  <2>2. ~ReadRelease(u)
    BY <1>3 DEF ReadRelease, EndRead, ReleaseRead, Kind
  <2>3. ~EndDowngraded(u)
    BY <1>3, <2>1 DEF EndDowngraded, RoutedToRead, Kind
  <2>4. ~EndWrite(u)
    BY <1>3 DEF EndWrite, Kind
  <2>5. ~EndRefused(u)
    BY DEF EndRefused
  <2>6. ~Downgrade(u)
    BY <1>1 DEF Downgrade, WriteToRead
  <2> QED
    BY <2>2, <2>3, <2>4, <2>5, <2>6 DEF WriteRelease
<1>7. ASSUME NEW u \in Caller PROVE ~Expire(u) /\ ~ClearMarker(u)
  BY DEF Expire, clientVars, ClearMarker
<1> QED
  BY <1>4, <1>5, <1>6, <1>7 DEF Next

\* While a writer waits, a reader that holds nothing needs a slot.
LEMMA ReaderNeedsSlot ==
  ASSUME NEW s, NEW t \in Caller, s.policy = "fair", s.waiting["write"] # {},
         s.owners[t] = 0, s.writer # t, CanRead(s, t)
  PROVE  t \in s.reserved
BY DEF CanRead, FairCanRead, FairCanReadReentrant, IsReserved, IsNestedReader

-----------------------------------------------------------------------------
(* The history.                                                            *)

LEMMA HistoryStep ==
  ASSUME IInv, WaitInv, HistoryInv, HistoryNext
  PROVE  HistoryInv'
<1> USE DEF HistoryInv, HistoryNext
<1>1. WritersAsk'
  <2> SUFFICES ASSUME NEW t \in Caller, call'[t] = "write" PROVE t \in Writers
    BY DEF WritersAsk
  <2>1. call[t] # "write" => MayAsk(t, "write")
    BY ComesToWait DEF Kind
  <2> QED
    BY <2>1 DEF WritersAsk, MayAsk
<1>2. LateReadersKept'
  <2> SUFFICES ASSUME NEW t \in Caller, ahead'[t] # {}
               PROVE  /\ lock'.policy = "fair" /\ lock'.writer = None
                      /\ call'[t] = "read"
                      /\ t \in lock'.reserved => t \in upset'
    BY DEF LateReadersKept
  <2>1. AheadNext(t) # {}
    OBVIOUS
  <2>2. lock.policy = "fair" /\ ~WriterGetsIn /\ call'[t] = "read"
    BY <2>1 DEF AheadNext
  <2>3. lock.writer = None
    BY <2>1, <2>2 DEF AheadNext, LateReadersKept, PhaseOpen
  <2>4. lock'.writer = None
    BY <2>2, <2>3 DEF WriterGetsIn
  <2>5. lock'.policy = "fair"
    BY <2>2, StepKeepsClass
  <2>6. CASE call[t] # "read"
    <3>1. t \notin lock.reserved
      BY <2>6, WaitInvAgrees DEF PhaseAgrees, QueuesAgree, Kind
    <3>2. lock'.reserved = lock.reserved
      BY <2>2, <2>6, ComesToWait DEF Kind
    <3> QED
      BY <2>2, <2>4, <2>5, <3>1, <3>2
  <2>7. CASE call[t] = "read"
    <3>1. ahead[t] # {}
      BY <2>1, <2>2, <2>7 DEF AheadNext
    <3>2. t \in upset \/ WriterGivesUp => t \in upset'
      BY <2>7 DEF UpsetNext
    <3>3. ~WriterGivesUp => lock'.reserved \subseteq lock.reserved
      BY <2>2, <2>3, <2>4, StepNoSlot DEF NoNewSlot
    <3>4. t \in lock.reserved => t \in upset
      BY <3>1 DEF LateReadersKept
    <3> QED
      BY <2>2, <2>4, <2>5, <3>2, <3>3, <3>4
  <2> QED
    BY <2>6, <2>7
<1> QED
  BY <1>1, <1>2

\* A late reader that gets in past a waiting writer has a slot, and one that has
\* a slot has seen a writer give up.
LEMMA LateReaderExcused ==
  ASSUME IInv, WaitInv, WaitInv', HistoryInv, HistoryNext,
         NEW t \in Caller, GetsInLate(t)
  PROVE  t \in upset
<1> USE DEF HistoryNext
<1>1. lock.policy = "fair" /\ held[t].r = 0 /\ held[t].w = 0 /\ held'[t].r = 1
  BY DEF GetsInLate
<1>2. /\ lock.owners[t] = 0 /\ lock.writer # t /\ lock \in LockRecord
      /\ call \in [Caller -> Kind \cup {"none", "marker"}]
  <2>1. /\ lock \in LockRecord /\ call \in [Caller -> Kind \cup {"none", "marker"}]
        /\ lock.owners[t] = held[t].r /\ HoldsConsistent(lock)
        /\ held[t].w = IF lock.writer = t THEN WriteDepth(lock) ELSE 0
    BY DEF IInv, ClientInv, ClientTypeOK, HoldsAgree
  <2>2. lock.depth \in Nat
    BY <2>1 DEF LockRecord
  <2> QED
    BY <1>1, <2>1, <2>2, CallerAssumption DEF HoldsConsistent, WriteDepth
<1>3. CASE TryAcquire(t, "read")
  <2>1. call[t] = "none" /\ CanRead(lock, t)
    BY <1>3 DEF TryAcquire, MayAsk, Idle, CanAcquire
  <2>2. lock.waiting["write"] # {}
    BY <2>1 DEF GetsInLate
  <2>3. t \in lock.reserved
    BY <1>1, <1>2, <2>1, <2>2, ReaderNeedsSlot
  <2>4. t \notin lock.reserved
    BY <2>1, WaitInvAgrees DEF PhaseAgrees, QueuesAgree, Kind
  <2> QED
    BY <2>3, <2>4
<1>4. CASE ResumeAcquire(t) /\ call[t] = "read"
  <2> DEFINE s == Retaken(t)
  <2>1. CanRead(s, t)
    BY <1>4 DEF ResumeAcquire, CanAcquire
  <2>2. NoNewSlot(s, lock) /\ SameHolds(s, lock) /\ s.waiting = lock.waiting
    BY <1>4, RetakenNoSlot DEF Kind
  <2>3. ahead[t] # {} /\ lock'.waiting["write"] # {}
    BY <1>4 DEF GetsInLate
  <2>4. lock.waiting["write"] # {}
    <3>1. call' = [call EXCEPT ![t] = "none"]
      BY <1>4 DEF ResumeAcquire, Granted
    <3>2. /\ lock.waiting["write"] = {u \in Caller : call[u] = "write"}
          /\ lock'.waiting["write"] = {u \in Caller : call'[u] = "write"}
      BY DEF WaitInv, WaitersCounted, Kind
    <3> QED
      BY <1>2, <2>3, <3>1, <3>2
  <2> HIDE DEF s
  <2>5. t \in s.reserved
    BY <1>1, <1>2, <2>1, <2>2, <2>4, ReaderNeedsSlot DEF SameHolds
  <2>6. t \in lock.reserved
    BY <2>2, <2>5 DEF NoNewSlot
  <2> QED
    BY <2>3, <2>6 DEF HistoryInv, LateReadersKept
<1> QED
  BY <1>1, <1>3, <1>4, ComesToRead

-----------------------------------------------------------------------------
(* The theorems.                                                           *)

\* The history restricts nothing: what the lock keeps, it keeps under it.
THEOREM HistoryInvariance ==
  ASSUME Disciplined PROVE HistorySpec => [](IInv /\ WaitInv /\ HistoryInv)
<1>1. HistoryInit => IInv /\ WaitInv
  BY ClientInitInv, WaitersInit DEF HistoryInit, Init, IInv, Deadline, WaitInv
<1>2. HistoryInit => HistoryInv
  BY DEF HistoryInit, Init, ClientInit, HistoryInv, WritersAsk, LateReadersKept
<1>3. IInv /\ WaitInv /\ HistoryInv /\ [HistoryNext]_historyVars
        => IInv' /\ WaitInv' /\ HistoryInv'
  <2> SUFFICES ASSUME IInv, WaitInv, HistoryInv, [HistoryNext]_historyVars
               PROVE  IInv' /\ WaitInv' /\ HistoryInv'
    OBVIOUS
  <2>1. [Next]_vars
    BY DEF HistoryNext, historyVars
  <2>2. IInv' /\ WaitInv'
    BY <2>1, NextStep, WaitStep
  <2>3. CASE HistoryNext
    BY <2>2, <2>3, HistoryStep
  <2>4. CASE UNCHANGED historyVars
    BY <2>2, <2>4 DEF historyVars, vars, clientVars, HistoryInv, WritersAsk, LateReadersKept
  <2> QED
    BY <2>2, <2>3, <2>4
<1> QED
  BY <1>1, <1>2, <1>3, PTL DEF HistorySpec

\* A reader that comes late to a fair phase does not get in before the writers it
\* found queued, unless one of them got in, or some writer gave up meanwhile.
THEOREM LateReadersExcused ==
  ASSUME Disciplined PROVE HistorySpec => LateReadersWaitForWriters
<1> DEFINE Excused == \A t \in Caller : GetsInLate(t) => t \in upset
<1>1. /\ IInv /\ WaitInv /\ HistoryInv /\ (IInv /\ WaitInv /\ HistoryInv)'
      /\ [HistoryNext]_historyVars
      => [Excused]_historyVars
  BY LateReaderExcused
<1> QED
  BY <1>1, HistoryInvariance, PTL DEF HistorySpec, LateReadersWaitForWriters

-----------------------------------------------------------------------------
(* Writers that never give up.                                             *)

\* No thread that writes has a timeout, and no signal handler raises in one.
WritersStay == Writers \cap (TimedCallers \cup Interruptible) = {}

\* Only the timed threads have a deadline, and no late reader is excused.
StayInv ==
  /\ \A t \in Caller : deadline[t] # "none" => t \in TimedCallers
  /\ upset = {}

LEMMA DeadlineStep ==
  ASSUME IInv, StayInv, Next, NEW t \in Caller, deadline'[t] # "none"
  PROVE  t \in TimedCallers
<1>1. deadline \in [Caller -> Deadline]
  BY DEF IInv
<1>2. ASSUME NEW u \in Caller, Expire(u) PROVE t \in TimedCallers
  BY <1>1, <1>2 DEF Expire, StayInv
<1>3. ASSUME NEW u \in Caller, NEW k \in Kind, NEW d \in {"none", "ahead"}, Park(u, k, d)
      PROVE  t \in TimedCallers
  BY <1>1, <1>3 DEF Park, StayInv
<1>4. ASSUME NEW u \in Caller,
             deadline' \in {deadline, [deadline EXCEPT ![u] = "none"]}
      PROVE  t \in TimedCallers
  BY <1>1, <1>4 DEF StayInv
<1> QED
  BY <1>2, <1>3, <1>4
  DEF Next, Acquiring, TryAcquire, GiveUpAtOnce, Granted, Resume, ResumeAcquire,
      ResumePark, ResumeAbort, Interrupt, Abort, ClearMarker, ReadRelease, WriteRelease,
      Downgrade

LEMMA NoWriterGivesUp ==
  ASSUME WritersStay, IInv, StayInv, Next
  PROVE  ~WriterGivesUp
<1>1. call \in [Caller -> Kind \cup {"none", "marker"}]
  BY DEF IInv, ClientInv, ClientTypeOK
<1>2. SUFFICES ASSUME NEW w \in Writers, w \in Caller,
                      \/ GiveUpAtOnce(w, "write")
                      \/ call[w] = "write" /\ call'[w] = "none"
               PROVE  FALSE
  BY ClientAssumption DEF WriterGivesUp
<1>3. w \notin TimedCallers /\ w \notin Interruptible
  BY DEF WritersStay
<1>4. ~GiveUpAtOnce(w, "write")
  BY <1>3 DEF GiveUpAtOnce
<1>5. call[w] = "write" /\ call'[w] = "none"
  BY <1>2, <1>4
<1>6. deadline[w] = "none"
  BY <1>2, <1>3 DEF StayInv
<1>7. ~ResumeAbort(w) /\ ~Interrupt(w)
  BY <1>3, <1>6 DEF ResumeAbort, Interrupt
<1>8. ~ResumeAcquire(w)
  BY <1>1, <1>5 DEF ResumeAcquire, Granted
<1>9. ASSUME NEW u \in Caller, u # w, NEW v, call' = [call EXCEPT ![u] = v] PROVE FALSE
  BY <1>1, <1>5, <1>9
<1>10. call' # call
  BY <1>5
<1>11. ASSUME NEW u \in Caller, NEW k \in Kind PROVE ~Acquiring(u, k)
  <2>1. u # w => ~Acquiring(u, k)
    BY <1>9, <1>10 DEF Acquiring, TryAcquire, Park, GiveUpAtOnce, Granted
  <2>2. ~Acquiring(w, k)
    BY <1>5, <1>10 DEF Acquiring, TryAcquire, Park, GiveUpAtOnce, MayAsk, Idle
  <2> QED
    BY <2>1, <2>2
<1>12. ASSUME NEW u \in Caller PROVE ~Resume(u) /\ ~Interrupt(u) /\ ~ClearMarker(u)
  <2>1. u # w => ~Resume(u) /\ ~Interrupt(u) /\ ~ClearMarker(u)
    BY <1>9, <1>10 DEF Resume, ResumeAcquire, ResumePark, ResumeAbort, Granted, Abort,
                       Interrupt, ClearMarker
  <2>2. ~Resume(w) /\ ~Interrupt(w) /\ ~ClearMarker(w)
    BY <1>5, <1>7, <1>8, <1>10 DEF Resume, ResumePark, ClearMarker
  <2> QED
    BY <2>1, <2>2
<1>13. ASSUME NEW u \in Caller
       PROVE  ~Expire(u) /\ ~ReadRelease(u) /\ ~WriteRelease(u) /\ ~Downgrade(u)
  BY <1>10 DEF Expire, clientVars, ReadRelease, EndRead, ReleaseRead, WriteRelease,
               EndDowngraded, EndWrite, EndRefused, Downgrade, WriteToRead
<1> QED
  BY <1>11, <1>12, <1>13 DEF Next

\* What the library's README says of late readers is so for writers that do not
\* give up, though readers may: the run that finds it violated needs a writer with
\* a timeout.
THEOREM LateReadersAlwaysWait ==
  ASSUME Disciplined, WritersStay PROVE HistorySpec => LateReadersWait
<1> DEFINE Inv == IInv /\ WaitInv /\ HistoryInv
           Waits == \A t \in Caller : ~GetsInLate(t)
<1>1. HistoryInit => StayInv
  BY DEF HistoryInit, Init, StayInv
<1>2. Inv /\ StayInv /\ [HistoryNext]_historyVars => StayInv'
  <2> SUFFICES ASSUME Inv, StayInv, [HistoryNext]_historyVars PROVE StayInv'
    OBVIOUS
  <2>1. CASE HistoryNext
    <3>1. ~WriterGivesUp
      BY <2>1, NoWriterGivesUp DEF HistoryNext
    <3>2. upset' = {}
      BY <2>1, <3>1 DEF HistoryNext, UpsetNext, StayInv
    <3>3. \A t \in Caller : deadline'[t] # "none" => t \in TimedCallers
      BY <2>1, DeadlineStep DEF HistoryNext
    <3> QED
      BY <3>2, <3>3 DEF StayInv
  <2>2. CASE UNCHANGED historyVars
    BY <2>2 DEF historyVars, vars, StayInv
  <2> QED
    BY <2>1, <2>2
<1>3. Inv /\ Inv' /\ StayInv /\ [HistoryNext]_historyVars => [Waits]_historyVars
  BY LateReaderExcused DEF StayInv
<1> HIDE DEF Inv
<1>4. HistorySpec => []Inv
  BY HistoryInvariance DEF Inv
<1> QED
  BY <1>1, <1>2, <1>3, <1>4, PTL DEF HistorySpec, LateReadersWait

=============================================================================

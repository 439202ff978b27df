----------------------------- MODULE RWLockCore -----------------------------
(***************************************************************************)
(* The methods that a proxy calls on its RWLock object, dispatched on the  *)
(* class of the object: a policy, and whether the writer is reentrant.     *)
(* The first group is the virtual dispatch of Python itself, the second    *)
(* the write core, which all policies share.                               *)
(***************************************************************************)
EXTENDS WritePolicy, ReadPolicy, FairPolicy

CanRead(s, t) ==
  IF s.reentrant
  THEN CASE s.policy = "write" -> WPrefCanReadReentrant(s, t)
         [] s.policy = "read"  -> RPrefCanReadReentrant(s, t)
         [] s.policy = "phase" -> PhaseCanReadReentrant(s, t)
         [] OTHER              -> FairCanReadReentrant(s, t)
  ELSE CASE s.policy = "write" -> WPrefCanRead(s, t)
         [] s.policy = "read"  -> RPrefCanRead(s)
         [] s.policy = "phase" -> PhaseCanRead(s, t)
         [] OTHER              -> FairCanRead(s, t)

CanWrite(s, t) ==
  IF s.reentrant
  THEN CASE s.policy = "write" -> WPrefCanWriteReentrant(s, t)
         [] s.policy = "read"  -> RPrefCanWriteReentrant(s, t)
         [] s.policy = "phase" -> PhaseCanWriteReentrant(s, t)
         [] OTHER              -> FairCanWriteReentrant(s, t)
  ELSE CASE s.policy = "write" -> WPrefCanWrite(s)
         [] s.policy = "read"  -> RPrefCanWrite(s)
         [] s.policy = "phase" -> PhaseCanWrite(s)
         [] OTHER              -> FairCanWrite(s)

AcquireReadCore(s, t) ==
  CASE s.policy = "write" -> WPrefAcquireRead(s, t)
    [] s.policy = "read"  -> RPrefAcquireRead(s, t)
    [] s.policy = "phase" -> PhaseAcquireRead(s, t)
    [] OTHER              -> FairAcquireRead(s, t)

ReleaseReadCore(s, t) ==
  CASE s.policy = "write" -> WPrefReleaseRead(s, t)
    [] s.policy = "read"  -> RPrefReleaseRead(s, t)
    [] s.policy = "phase" -> PhaseReleaseRead(s, t)
    [] OTHER              -> FairReleaseRead(s, t)

OnReaderAbort(s, t) ==
  CASE s.policy = "write" -> WPrefOnReaderAbort(s, t)
    [] s.policy = "read"  -> RPrefOnReaderAbort(s, t)
    [] s.policy = "phase" -> PhaseOnReaderAbort(s, t)
    [] OTHER              -> FairOnReaderAbort(s, t)

OnWriterAbort(s) ==
  CASE s.policy = "write" -> WPrefOnWriterAbort(s)
    [] s.policy = "read"  -> RPrefOnWriterAbort(s)
    [] s.policy = "phase" -> PhaseOnWriterAbort(s)
    [] OTHER              -> FairOnWriterAbort(s)

DowngradeCore(s, t) ==
  CASE s.policy = "write" -> WPrefDowngrade(s, t)
    [] s.policy = "read"  -> RPrefDowngrade(s, t)
    [] s.policy = "phase" -> PhaseDowngrade(s, t)
    [] OTHER              -> FairDowngrade(s, t)

-----------------------------------------------------------------------------
(* The write core.                                                         *)

AcquireWriteCore(s, t) ==
  [s EXCEPT !.writer = t, !.depth = IF s.reentrant THEN @ + 1 ELSE @]

\* Mutant: any thread may release, whatever the class.
AnyoneMayRelease(s, t) == s.writer # None

\* Only the reentrant classes look at who releases; the others ask whether
\* anyone at all holds the write lock.  When this fails, release raises.
MayReleaseWrite(s, t) ==
  IF s.reentrant THEN s.writer = t ELSE s.writer # None

ReleaseWriteCore(s) ==
  IF s.reentrant /\ s.depth > 1
  THEN [s EXCEPT !.depth = @ - 1]
  ELSE OnWriterAbort([s EXCEPT !.writer = None, !.depth = 0])

\* Mutant: a nested write hold may be downgraded.
NestedDowngrade(s, t) == s.writer = t

\* When this fails, downgrade raises and changes nothing.
MayDowngrade(s, t) == s.writer = t /\ s.depth <= 1

\* _check_write_acquire_allowed raises: a reader asks for the write lock.
UpgradeRefused(s, t) == IsNestedReader(s, t) /\ s.writer # t

-----------------------------------------------------------------------------
(* The callables a proxy is built with: lock.read gets the first of each   *)
(* pair, lock.write the second.                                            *)

CanAcquire(s, k, t) == IF k = "read" THEN CanRead(s, t) ELSE CanWrite(s, t)

AcquireCore(s, k, t) ==
  IF k = "read" THEN AcquireReadCore(s, t) ELSE AcquireWriteCore(s, t)

OnAbort(s, k, t) == IF k = "read" THEN OnReaderAbort(s, t) ELSE OnWriterAbort(s)

Refused(s, k, t) == k = "write" /\ UpgradeRefused(s, t)

=============================================================================

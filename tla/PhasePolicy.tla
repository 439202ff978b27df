---------------------------- MODULE PhasePolicy ----------------------------
(***************************************************************************)
(* The reader-phase-fair policy: readers and writers take turns, and a     *)
(* reader that arrives while the readers' turn lasts joins it.             *)
(***************************************************************************)
EXTENDS LockState

PhaseWake(s) ==
  IF ~WriterActive(s) /\ s.waiting["read"] # {} THEN NotifyAll(s, "read") ELSE s

PhaseStart(s) == PhaseWake([s EXCEPT !.turn = TRUE])

\* Mutant: the readers' turn is never taken back.
TurnNeverEnds(s) ==
  IF s.turn /\ s.waiting["read"] # {} THEN PhaseWake(s) ELSE Notify(s, "write", 1)

PhaseFinishOrContinue(s) ==
  IF s.turn /\ s.waiting["read"] # {}
  THEN PhaseWake(s)
  ELSE LET over == [s EXCEPT !.turn = FALSE]
       IN  IF over.waiting["write"] # {} THEN Notify(over, "write", 1) ELSE over

PhaseCanRead(s, t) ==
  /\ s.writer = None
  /\ s.turn \/ s.waiting["write"] = {} \/ IsNestedReader(s, t)

PhaseCanReadReentrant(s, t) ==
  IF s.writer # None THEN s.writer = t ELSE PhaseCanRead(s, t)

\* Mutant: a writer does not wait for the end of the readers' turn.
WriterIgnoringTurn(s) == s.writer = None /\ s.active = 0

PhaseCanWrite(s) ==
  /\ s.writer = None
  /\ s.active = 0
  /\ ~(s.turn /\ s.waiting["read"] # {})

PhaseCanWriteReentrant(s, t) ==
  IF s.writer # None THEN s.writer = t ELSE PhaseCanWrite(s)

PhaseAcquireRead(s, t) ==
  LET in == AddReader(s, t)
  IN  IF in.turn /\ in.waiting["read"] # {} THEN PhaseWake(in) ELSE in

PhaseReleaseRead(s, t) ==
  LET left == DropReader(s, t)
  IN  IF left.active = 0 THEN PhaseFinishOrContinue(left) ELSE left

PhaseOnReaderAbort(s, t) ==
  IF s.turn /\ s.active = 0 THEN PhaseFinishOrContinue(s) ELSE s

PhaseOnWriterAbort(s) ==
  IF s.waiting["read"] # {} /\ HasWaiters(s, "read")
  THEN PhaseStart(s)
  ELSE Notify(s, "write", 1)

PhaseDowngrade(s, t) == PhaseStart(WriterToReader(s, t))

=============================================================================

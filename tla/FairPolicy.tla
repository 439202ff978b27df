----------------------------- MODULE FairPolicy -----------------------------
(***************************************************************************)
(* The strict fair policy.  It inherits the reader-phase-fair methods and  *)
(* overrides the phase: only the readers that wait when it starts belong   *)
(* to it.  The code gives each wait a ticket number and compares it with   *)
(* _reader_phase_cutoff; the record keeps the set of the waits whose       *)
(* ticket is not above the cutoff (reserved).  A ticket lives as long as   *)
(* its wait, so a caller is in the set at most once.                       *)
(***************************************************************************)
EXTENDS PhasePolicy

Least(m, n) == IF m < n THEN m ELSE n

FairWake(s) ==
  IF WriterActive(s)
  THEN s
  ELSE Notify(s, "read", Least(Cardinality(s.waiting["read"]), s.pending))

FairStart(s) ==
  LET start == [s EXCEPT !.turn     = s.waiting["read"] # {},
                         !.pending  = Cardinality(s.waiting["read"]),
                         !.reserved = s.waiting["read"]]
  IN  IF start.turn THEN FairWake(start) ELSE start

FairFinishOrContinue(s) ==
  IF s.turn /\ s.pending > 0
  THEN FairWake(s)
  ELSE LET over == [s EXCEPT !.turn = FALSE, !.pending = 0, !.reserved = {}]
       IN  IF over.waiting["write"] # {} THEN Notify(over, "write", 1) ELSE over

\* Only a waiting reader has a ticket, and reserved holds waiting readers only.
IsReserved(s, t) == s.turn /\ t \in s.reserved /\ s.pending > 0

\* The wait of t is over, so its ticket leaves the set in any case.
ConsumeSlot(s, t) ==
  [s EXCEPT !.pending  = IF IsReserved(s, t) THEN @ - 1 ELSE @,
            !.reserved = @ \ {t}]

\* Mutants: the phase is open to every reader, as in the policy it refines; and
\* a reader looks at no waiting writer.
PhaseOpenToAll(s, t) ==
  s.writer = None /\ (s.turn \/ s.waiting["write"] = {} \/ IsNestedReader(s, t))
ReaderPassingWaitingWriters(s, t) == s.writer = None

FairCanRead(s, t) ==
  /\ s.writer = None
  /\ s.waiting["write"] = {} \/ IsReserved(s, t) \/ IsNestedReader(s, t)

FairCanReadReentrant(s, t) ==
  IF s.writer # None THEN s.writer = t ELSE FairCanRead(s, t)

FairCanWrite(s) ==
  /\ s.writer = None
  /\ s.active = 0
  /\ ~(s.turn /\ s.pending > 0)

FairCanWriteReentrant(s, t) ==
  IF s.writer # None THEN s.writer = t ELSE FairCanWrite(s)

FairAcquireRead(s, t) ==
  LET in == AddReader(ConsumeSlot(s, t), t)
  IN  IF in.turn /\ in.pending > 0 THEN FairWake(in) ELSE in

FairReleaseRead(s, t) ==
  LET left == DropReader(s, t)
  IN  IF left.active = 0 THEN FairFinishOrContinue(left) ELSE left

\* Mutant: a reader that gives up takes its slot with it.
AbortKeepingSlot(s, t) ==
  IF s.turn /\ s.active = 0
  THEN FairFinishOrContinue([s EXCEPT !.reserved = @ \ {t}])
  ELSE [s EXCEPT !.reserved = @ \ {t}]

FairOnReaderAbort(s, t) ==
  LET out == ConsumeSlot(s, t)
  IN  IF out.turn /\ out.pending > 0
      THEN FairWake(out)
      ELSE IF out.turn /\ out.active = 0 THEN FairFinishOrContinue(out) ELSE out

FairOnWriterAbort(s) ==
  IF s.waiting["read"] # {} /\ HasWaiters(s, "read")
  THEN FairStart(s)
  ELSE Notify(s, "write", 1)

FairDowngrade(s, t) == FairStart(WriterToReader(s, t))

=============================================================================

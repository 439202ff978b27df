----------------------------- MODULE ReadPolicy -----------------------------
(***************************************************************************)
(* The read-preferring policy: a reader stands back for an active writer   *)
(* only, and a writer for every reader that holds or waits.                *)
(***************************************************************************)
EXTENDS LockState

RPrefCanRead(s) == s.writer = None

RPrefCanReadReentrant(s, t) == s.writer # None => s.writer = t

\* Mutant: a writer looks at no waiting reader.
WriterPassingWaitingReaders(s) == s.writer = None /\ s.active = 0

RPrefCanWrite(s) == s.writer = None /\ s.active = 0 /\ s.waiting["read"] = {}

RPrefCanWriteReentrant(s, t) ==
  IF s.writer # None
  THEN s.writer = t
  ELSE s.active = 0 /\ s.waiting["read"] = {}

RPrefAcquireRead(s, t) == AddReader(s, t)

RPrefReleaseRead(s, t) ==
  LET left == DropReader(s, t)
  IN  IF left.active = 0 THEN Notify(left, "write", 1) ELSE left

\* Mutant: a reader that gives up keeps the wakeup to itself.
SilentReaderAbort(s, t) == s

RPrefOnReaderAbort(s, t) ==
  IF s.waiting["read"] = {} /\ s.active = 0 THEN Notify(s, "write", 1) ELSE s

RPrefOnWriterAbort(s) ==
  IF s.waiting["read"] # {} /\ HasWaiters(s, "read")
  THEN NotifyAll(s, "read")
  ELSE Notify(s, "write", 1)

RPrefDowngrade(s, t) == NotifyAll(WriterToReader(s, t), "read")

=============================================================================

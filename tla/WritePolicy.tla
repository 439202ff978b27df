---------------------------- MODULE WritePolicy ----------------------------
(***************************************************************************)
(* The write-preferring policy: a new reader stands back as soon as a      *)
(* writer waits.                                                           *)
(***************************************************************************)
EXTENDS LockState

\* Mutant: a reader looks at no waiting writer.
ReaderPassingWriters(s, t) == s.writer = None

WPrefCanRead(s, t) ==
  /\ s.writer = None
  /\ s.waiting["write"] = {} \/ IsNestedReader(s, t)

WPrefCanReadReentrant(s, t) ==
  IF s.writer # None THEN s.writer = t ELSE WPrefCanRead(s, t)

\* Mutant: a writer looks at no reader.
WriterIgnoringReaders(s) == s.writer = None

WPrefCanWrite(s) == s.writer = None /\ s.active = 0

WPrefCanWriteReentrant(s, t) ==
  IF s.writer # None THEN s.writer = t ELSE s.active = 0

WPrefAcquireRead(s, t) == AddReader(s, t)

WPrefReleaseRead(s, t) ==
  LET left == DropReader(s, t)
  IN  IF left.active = 0 THEN Notify(left, "write", 1) ELSE left

WPrefOnReaderAbort(s, t) == s

\* Mutant: a writer that gives up wakes readers only.
WriterAbortForgettingWriters(s) == NotifyAll(s, "read")

WPrefOnWriterAbort(s) ==
  IF s.waiting["write"] # {} /\ HasWaiters(s, "write")
  THEN Notify(s, "write", 1)
  ELSE NotifyAll(s, "read")

WPrefDowngrade(s, t) ==
  LET shared == WriterToReader(s, t)
  IN  IF shared.waiting["write"] = {} THEN NotifyAll(shared, "read") ELSE shared

=============================================================================

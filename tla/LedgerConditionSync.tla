------------------------ MODULE LedgerConditionSync ------------------------
(***************************************************************************)
(* commit_and_sync and wait_for_sync: a commit is written under the write  *)
(* lock, uploaded under the downgraded one, and announced under the write  *)
(* lock again, while other writers may have come in between.               *)
(***************************************************************************)
EXTENDS ConditionPrograms

\* Each caller commits or waits for the synchronisation.
SyncInit ==
  /\ program = "sync"
  /\ pc \in [Caller -> {"commit", "await"}]
  /\ data = [completed |-> TRUE, committed |-> {}, uploaded |-> {}]

Commit(t) ==
  /\ Move(t, "commit", "committed")
  /\ Acquire(t, "write")
  /\ data' = [data EXCEPT !.committed = @ \cup {t}, !.completed = FALSE]

\* Mutant: the upload is left to run in the background.
UploadInBackground(t) == Move(t, "committed", "announce") /\ Release(t) /\ UNCHANGED data

StartUpload(t) == Move(t, "committed", "upload") /\ Downgrade(t) /\ UNCHANGED data

Upload(t) ==
  /\ Move(t, "upload", "uploaded")
  /\ data' = [data EXCEPT !.uploaded = @ \cup {t}]
  /\ NoCondition

LeaveUpload(t) == Move(t, "uploaded", "announce") /\ Release(t) /\ UNCHANGED data

Announce(t) == Move(t, "announce", "announcing") /\ Acquire(t, "write") /\ UNCHANGED data

Complete(t) ==
  /\ Move(t, "announcing", "leave")
  /\ data' = [data EXCEPT !.completed = TRUE]
  /\ NotifyAll(t)

EnterAwait(t) == Move(t, "await", "look") /\ Acquire(t, "read") /\ UNCHANGED data

SleepUnsynced(t) ==
  ~data.completed /\ WaitAt(t, "read", FALSE, "look", "asleep") /\ UNCHANGED data

WakeForSync(t) ==
  (ComesBack(t, "asleep") \/ LooksAgain(t, "look", "asleep")) /\ UNCHANGED data

Confirm(t) == data.completed /\ Move(t, "look", "leave") /\ NoCondition /\ UNCHANGED data

LeaveSync(t) == Move(t, "leave", "end") /\ Release(t) /\ UNCHANGED data

Committing(t) ==
  \/ Commit(t)
  \/ StartUpload(t)
  \/ Upload(t)
  \/ LeaveUpload(t)
  \/ Announce(t)
  \/ Complete(t)

Awaiting(t) == EnterAwait(t) \/ SleepUnsynced(t) \/ WakeForSync(t) \/ Confirm(t)

SyncStep(t) == Committing(t) \/ Awaiting(t) \/ LeaveSync(t)

\* "Waits until the ledger is fully synced to the cloud": whenever the ledger says
\* that its synchronisation is completed, every commit has been uploaded, although a
\* writer announces for all of them in a section of its own, after its upload.
SyncMeansUploaded ==
  program = "sync" /\ data.completed => data.committed \subseteq data.uploaded

=============================================================================

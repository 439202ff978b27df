--------------------------- MODULE ClientPrograms ---------------------------
(***************************************************************************)
(* The example programs, one of them in each behaviour: its callers run    *)
(* their calls to the end beside each other.                               *)
(***************************************************************************)
EXTENDS TransactionLedger, AuthTokenManager, GlobalConfigCache,
        ImageProcessingQueue, LedgerConditionSync, ServiceBootBarrier

ProgramInit ==
  /\ Cond!Init
  /\ \/ LedgerInit
     \/ TokenInit
     \/ ConfigInit
     \/ QueueInit
     \/ SyncInit
     \/ BootInit

ProgramStep(t) ==
  /\ \/ program = "ledger" /\ LedgerStep(t)
     \/ program = "token" /\ TokenStep(t)
     \/ program = "config" /\ ConfigStep(t)
     \/ program = "queue" /\ QueueStep(t)
     \/ program = "sync" /\ SyncStep(t)
     \/ program = "boot" /\ BootStep(t)
  /\ UNCHANGED program

Cancellation(t) == program = "config" /\ ConfigCancel(t) /\ UNCHANGED program

AllEnded == Ended /\ UNCHANGED programVars

ProgramNext ==
  \/ \E t \in Caller : ProgramStep(t) \/ Cancellation(t)
  \/ AllEnded

\* A caller that can take its next step does so at last.  It may have to take turns
\* for the lock, but every caller's calls come to an end, so no stronger fairness is
\* needed.  Nobody is obliged to be cancelled.
ProgramSpec ==
  /\ ProgramInit
  /\ [][ProgramNext]_programVars
  /\ \A t \in Caller : WF_programVars(ProgramStep(t))

-----------------------------------------------------------------------------

\* Every call of every program returns: nobody sleeps through the notification that
\* was meant for it, whoever else it wakes, and no two callers wait for each other.
ProgramsEnd == <>Ended

=============================================================================

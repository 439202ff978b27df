-------------------------- MODULE FairPhaseHistory --------------------------
(***************************************************************************)
(* ThreadRWLock with a history variable for the order of arrival, to state *)
(* what the strict fair classes say of late readers.  The history is only  *)
(* written: it restricts no step of the lock.                              *)
(***************************************************************************)
EXTENDS ThreadRWLock

VARIABLES
  ahead,  \* ahead[t]: the writers queued when the waiting reader t came late to
          \* an open phase, as long as no writer has got in
  upset   \* those of these readers that have seen a writer give up meanwhile

historyVars == <<vars, ahead, upset>>

HistoryInit == Init /\ ahead = [t \in Caller |-> {}] /\ upset = {}

\* _readers_turn may be set under a writer, by another one that gives up; the
\* writer's own release starts the phase then.
PhaseOpen == lock.turn /\ lock.writer = None

WriterGetsIn == lock.writer = None /\ lock'.writer # None

WriterGivesUp ==
  \E w \in Writers :
    GiveUpAtOnce(w, "write") \/ (call[w] = "write" /\ call'[w] = "none")

AheadNext(t) ==
  IF lock.policy # "fair" \/ WriterGetsIn \/ call'[t] # "read"
  THEN {}
  ELSE IF call[t] = "read"
       THEN ahead[t] \cap lock'.waiting["write"]
       ELSE IF PhaseOpen THEN lock.waiting["write"] ELSE {}

UpsetNext ==
  {t \in Caller : call[t] = "read" /\ ahead'[t] # {} /\ (t \in upset \/ WriterGivesUp)}

HistoryNext ==
  /\ Next
  /\ ahead' = [t \in Caller |-> AheadNext(t)]
  /\ upset' = UpsetNext

HistorySpec == HistoryInit /\ [][HistoryNext]_historyVars

-----------------------------------------------------------------------------

GetsInLate(t) ==
  /\ lock.policy = "fair"
  /\ held[t].r = 0 /\ held[t].w = 0 /\ held'[t].r = 1
  /\ IF call[t] = "read"
     THEN ahead[t] \cap lock'.waiting["write"] # {}
     ELSE PhaseOpen /\ lock.waiting["write"] # {}

\* "Freezes each reader phase at phase start so late readers cannot cut in front
\* of an already-queued writer" (README, RWLockFair): a reader that comes while
\* a phase is open, and finds writers queued, does not get in while one of them
\* still waits, unless some writer got in meanwhile.
LateReadersWait == [][\A t \in Caller : ~GetsInLate(t)]_historyVars

\* The same, as far as the code keeps it: _on_writer_abort may open a new phase
\* for the readers that wait, so a writer that gives up excuses them.
LateReadersWaitForWriters ==
  [][\A t \in Caller : GetsInLate(t) => t \in upset]_historyVars

=============================================================================

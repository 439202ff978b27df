------------------------- MODULE ServiceBootBarrier -------------------------
(***************************************************************************)
(* mark_database_ready and start_api_server: a server waits for the        *)
(* database with wait_for and a timeout, which runs over several waits.    *)
(***************************************************************************)
EXTENDS ConditionPrograms

\* Each caller marks the database ready, or boots.
BootInit ==
  /\ program = "boot"
  /\ pc \in [Caller -> {"mark", "boot"}]
  /\ data = [ready |-> FALSE, late |-> {}, success |-> [t \in Caller |-> None]]

MarkReady(t) ==
  /\ Move(t, "mark", "marked")
  /\ Acquire(t, "write")
  /\ data' = [data EXCEPT !.ready = TRUE]

TellServers(t) == Move(t, "marked", "leave") /\ NotifyAll(t) /\ UNCHANGED data

EnterBoot(t) == Move(t, "boot", "look") /\ Acquire(t, "read") /\ UNCHANGED data

\* The loop of wait_for, on the database's flag: the last value of the predicate is
\* the answer, when it is true or the end of the timeout has come.
AnswerWaitFor(t) ==
  /\ data.ready \/ t \in data.late
  /\ Move(t, "look", "answered")
  /\ data' = [data EXCEPT !.success[t] = data.ready]
  /\ NoCondition

SleepUnready(t) ==
  /\ ~data.ready
  /\ t \notin data.late
  /\ WaitAt(t, "read", TRUE, "look", "asleep")
  /\ UNCHANGED data

\* Mutant: a wait that timed out is the answer, and the predicate is not looked at.
TimedOutIsNo(t) ==
  \/ ComesBack(t, "asleep") /\ UNCHANGED data
  \/ /\ t \in told
     /\ LooksAgain(t, "look", "asleep")
     /\ UNCHANGED data
  \/ /\ LooksAgain(t, "answered", "asleep")
     /\ data' = [data EXCEPT !.success[t] = FALSE]

\* Back from wait, by a notification or the timeout, which may be over either way:
\* a notification still reaches a thread that was too late for it.
WakeForBoot(t) ==
  \/ ComesBack(t, "asleep") /\ UNCHANGED data
  \/ /\ LooksAgain(t, "look", "asleep")
     /\ \E late \in IF t \in told THEN {{}, {t}} ELSE {{t}} :
          data' = [data EXCEPT !.late = @ \cup late]

LeaveBoot(t) == Move(t, "answered", "end") /\ Release(t) /\ UNCHANGED data

LeaveMark(t) == Move(t, "leave", "end") /\ Release(t) /\ UNCHANGED data

BootStep(t) ==
  \/ MarkReady(t)
  \/ TellServers(t)
  \/ LeaveMark(t)
  \/ EnterBoot(t)
  \/ AnswerWaitFor(t)
  \/ SleepUnready(t)
  \/ WakeForBoot(t)
  \/ LeaveBoot(t)

\* wait_for returns "the last return value of the predicate": what it says is still
\* true when it returns, in the read section, though the timeout may pass just when
\* the database gets ready.
AnswerIsCurrent ==
  program = "boot" =>
    \A t \in Caller : pc[t] = "answered" => (data.success[t] <=> data.ready)

=============================================================================

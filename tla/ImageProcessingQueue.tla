------------------------ MODULE ImageProcessingQueue ------------------------
(***************************************************************************)
(* add_jobs and consume_job: a producer extends the queue and notifies as  *)
(* many consumers as there are new jobs; a consumer waits for a job, takes *)
(* it, and processes it outside of the lock.                               *)
(***************************************************************************)
EXTENDS ConditionPrograms

CONSTANTS JobsPerCall,  \* how many jobs a producer adds
          Rounds        \* bound on the jobs that a consumer takes

ASSUME JobsAssumption == JobsPerCall \in Nat

Consumers == {t \in Caller : pc[t] = "consume"}

Producers == {t \in Caller : pc[t] = "add"}

\* Producers, consumers that take some jobs each, and jobs for all of them.
QueueInit ==
  /\ program = "queue"
  /\ pc \in [Caller -> {"add", "consume"}]
  /\ \E todo \in [Caller -> 1 .. Rounds] :
       /\ data = [jobs |-> 0, todo |-> todo]
       /\ \A t \in Producers : todo[t] = 1
       /\ JobsPerCall * Cardinality(Producers)
            >= Cardinality(UNION {{t} \X (1 .. todo[t]) : t \in Consumers})

EnterAdd(t) == Move(t, "add", "extend") /\ Acquire(t, "write") /\ UNCHANGED data

\* Mutant: one consumer is notified, however many jobs there are.
AddNotifyingOne(t) ==
  /\ Move(t, "extend", "leave")
  /\ data' = [data EXCEPT !.jobs = @ + JobsPerCall]
  /\ NotifyUpTo(t, 1)

AddJobs(t) ==
  /\ Move(t, "extend", "leave")
  /\ data' = [data EXCEPT !.jobs = @ + JobsPerCall]
  /\ NotifyUpTo(t, JobsPerCall)

LeaveAdd(t) == Move(t, "leave", "end") /\ Release(t) /\ UNCHANGED data

EnterConsume(t) == Move(t, "consume", "look") /\ Acquire(t, "write") /\ UNCHANGED data

SleepEmpty(t) ==
  data.jobs = 0 /\ WaitAt(t, "write", FALSE, "look", "asleep") /\ UNCHANGED data

TakeJob(t) ==
  /\ data.jobs > 0
  /\ Move(t, "look", "taken")
  /\ data' = [data EXCEPT !.jobs = @ - 1, !.todo[t] = @ - 1]
  /\ NoCondition

\* The job is processed outside of the lock, and the consumer asks for the next one.
LeaveConsume(t) ==
  /\ Move(t, "taken", IF data.todo[t] = 0 THEN "end" ELSE "consume")
  /\ Release(t)
  /\ UNCHANGED data

WakeForJob(t) ==
  (ComesBack(t, "asleep") \/ LooksAgain(t, "look", "asleep")) /\ UNCHANGED data

QueueStep(t) ==
  \/ EnterAdd(t)
  \/ AddJobs(t)
  \/ LeaveAdd(t)
  \/ EnterConsume(t)
  \/ SleepEmpty(t)
  \/ TakeJob(t)
  \/ LeaveConsume(t)
  \/ WakeForJob(t)

\* "We only wake up exactly the number of consumer threads as we have jobs": while a
\* consumer sleeps un-notified, the jobs in the queue are no more than the callers on
\* their way to take one, though others may have come first and taken a job.
JobsAreFetched ==
  program = "queue" /\ line # << >> =>
    data.jobs <= Cardinality({t \in Caller : t \in told \/ pc[t] \in {"consume", "look"}})

=============================================================================

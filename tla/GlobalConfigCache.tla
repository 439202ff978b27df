------------------------- MODULE GlobalConfigCache -------------------------
(***************************************************************************)
(* get_config and force_refresh_from_db: a refresher claims a flag under   *)
(* the write lock, loads outside of it, and publishes under it again.      *)
(* Whoever finds the flag set waits on the condition.  A task may be       *)
(* cancelled once, at any of its awaits.                                   *)
(***************************************************************************)
EXTENDS ConditionPrograms

\* Each caller reads the configuration or refreshes it.
ConfigInit ==
  /\ program = "config"
  /\ pc \in [Caller -> {"read", "refresh"}]
  /\ data = [refreshing |-> FALSE, version |-> 0, cancelled |-> {}]

EnterRead(t) == Move(t, "read", "look") /\ Acquire(t, "read") /\ UNCHANGED data

SleepReading(t) ==
  data.refreshing /\ WaitAt(t, "read", TRUE, "look", "asleep") /\ UNCHANGED data

ReadConfig(t) ==
  /\ ~data.refreshing
  /\ Move(t, "look", "leave")
  /\ NoCondition
  /\ UNCHANGED data

EnterRefresh(t) == Move(t, "refresh", "claim") /\ Acquire(t, "write") /\ UNCHANGED data

SleepClaiming(t) ==
  data.refreshing /\ WaitAt(t, "write", TRUE, "claim", "asleep") /\ UNCHANGED data

\* Mutant: a refresher that was notified claims the flag without looking.
ClaimUnchecked(t) ==
  /\ Move(t, "claim", "claimed")
  /\ data' = [data EXCEPT !.refreshing = TRUE]
  /\ NoCondition

Claim(t) ==
  /\ ~data.refreshing
  /\ Move(t, "claim", "claimed")
  /\ data' = [data EXCEPT !.refreshing = TRUE]
  /\ NoCondition

StartLoad(t) == Move(t, "claimed", "load") /\ Release(t) /\ UNCHANGED data

\* Notified or not, a task that is cancelled in its wait will raise.
CancelWait(t) ==
  /\ t \notin data.cancelled
  /\ pc[t] = "asleep"
  /\ wait[t].stage = "apart"
  /\ data' = [data EXCEPT !.cancelled = @ \cup {t}]
  /\ NoCondition
  /\ UNCHANGED pc

\* The wait ends with the lock held: the caller looks at the flag again, or leaves
\* its section with the CancelledError.
WakeUp(t) ==
  /\ \/ t \in data.cancelled /\ StopsWaiting(t, "asleep")
     \/ t \in told \cup data.cancelled /\ ComesBack(t, "asleep")
     \/ LET look == IF wait[t].kind = "read" THEN "look" ELSE "claim"
        IN  LooksAgain(t, IF t \in data.cancelled THEN "leave" ELSE look, "asleep")
  /\ UNCHANGED data

\* Loaded: the write lock is had again.
EnterPublish(t) == Move(t, "load", "publish") /\ Acquire(t, "write") /\ UNCHANGED data

\* Mutant: the readers that wait are not told.
PublishSilently(t) ==
  /\ Move(t, "publish", "leave")
  /\ data' = [data EXCEPT !.version = @ + 1, !.refreshing = FALSE]
  /\ NoCondition

Publish(t) ==
  /\ Move(t, "publish", "leave")
  /\ data' = [data EXCEPT !.version = @ + 1, !.refreshing = FALSE]
  /\ NotifyAll(t)

\* Cancelled while it loads or waits for the write lock: the except clause.
CancelLoad(t) ==
  /\ t \notin data.cancelled
  /\ Move(t, "load", "recover")
  /\ data' = [data EXCEPT !.cancelled = @ \cup {t}]
  /\ NoCondition

EnterRecover(t) == Move(t, "recover", "unclaim") /\ Acquire(t, "write") /\ UNCHANGED data

\* Cancelled while it waits for the lock at the start of its call.
CancelEntry(t) ==
  /\ t \notin data.cancelled
  /\ Move(t, "read", "end") \/ Move(t, "refresh", "end")
  /\ data' = [data EXCEPT !.cancelled = @ \cup {t}]
  /\ NoCondition

Unclaim(t) ==
  /\ Move(t, "unclaim", "leave")
  /\ data' = [data EXCEPT !.refreshing = FALSE]
  /\ IF data.refreshing THEN NotifyAll(t) ELSE NoCondition

LeaveConfig(t) == Move(t, "leave", "end") /\ Release(t) /\ UNCHANGED data

Reading(t) == EnterRead(t) \/ SleepReading(t) \/ ReadConfig(t)

Claiming(t) == EnterRefresh(t) \/ SleepClaiming(t) \/ Claim(t) \/ StartLoad(t)

Publishing(t) == EnterPublish(t) \/ Publish(t) \/ EnterRecover(t) \/ Unclaim(t)

ConfigStep(t) ==
  Reading(t) \/ Claiming(t) \/ WakeUp(t) \/ Publishing(t) \/ LeaveConfig(t)

ConfigCancel(t) == CancelEntry(t) \/ CancelWait(t) \/ CancelLoad(t)

\* Outside of the lock a load runs between two write sections: the flag keeps every
\* other caller out, which takes that it is set exactly as long as one refresher has
\* claimed it, however that one's load ends.
RefreshFlagOwned ==
  program = "config" =>
    LET owners == {t \in Caller : pc[t] \in {"claimed", "load", "publish", "recover", "unclaim"}}
    IN  /\ data.refreshing <=> owners # {}
        /\ Cardinality(owners) <= 1

=============================================================================

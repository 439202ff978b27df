-------------------------- MODULE AuthTokenManager --------------------------
(***************************************************************************)
(* get_valid_token and invalidate_token: a token is read under the read    *)
(* lock; a caller that finds it expired gives that lock up, takes the      *)
(* write lock, looks again, and fetches a new token if it still has to.    *)
(***************************************************************************)
EXTENDS ConditionPrograms

\* Each caller invalidates the token or asks for it.  The counters are not in the
\* code.
TokenInit ==
  /\ program = "token"
  /\ pc \in [Caller -> {"invalidate", "get"}]
  /\ data = [expired |-> FALSE, fetches |-> 0, invalidations |-> 0]

Invalidate(t) ==
  /\ Move(t, "invalidate", "leave")
  /\ Acquire(t, "write")
  /\ data' = [data EXCEPT !.expired = TRUE, !.invalidations = @ + 1]

\* The fast path, and what it found when it leaves the read section.
LookUp(t) ==
  /\ Move(t, "get", IF data.expired THEN "stale" ELSE "leave")
  /\ Acquire(t, "read")
  /\ UNCHANGED data

LeaveStale(t) == Move(t, "stale", "refresh") /\ Release(t) /\ UNCHANGED data

\* Mutant: the slow path does not look again.
FetchUnchecked(t) ==
  /\ Move(t, "refresh", "fetch")
  /\ Acquire(t, "write")
  /\ UNCHANGED data

\* The slow path looks again: another task may have refreshed the token.
LookAgain(t) ==
  /\ Move(t, "refresh", IF data.expired THEN "fetch" ELSE "leave")
  /\ Acquire(t, "write")
  /\ UNCHANGED data

\* The answer of the remote API arrives, the write lock being held all along.
Fetch(t) ==
  /\ Move(t, "fetch", "leave")
  /\ data' = [data EXCEPT !.expired = FALSE, !.fetches = @ + 1]
  /\ NoCondition

LeaveToken(t) ==
  /\ Move(t, "leave", "end")
  /\ Release(t)
  /\ UNCHANGED data

TokenStep(t) ==
  \/ Invalidate(t)
  \/ LookUp(t)
  \/ LeaveStale(t)
  \/ LookAgain(t)
  \/ Fetch(t)
  \/ LeaveToken(t)

\* "Only ONE will make the API call!": the token is fetched at most once for each
\* time it was invalidated, however many callers have seen it expired.
TokenFetchedOnce ==
  program = "token" =>
    data.fetches + (IF data.expired THEN 1 ELSE 0) <= data.invalidations

=============================================================================

------------------------ MODULE ConditionOverAdapter ------------------------
(***************************************************************************)
(* RWCondition(Lock()), and AsyncRWCondition(AsyncLock()): a condition of  *)
(* this package over an adapter.  The adapter does not know its owner, so  *)
(* that the condition takes a lock that is held for one that is owned, by  *)
(* its read side as well as by its write side.                             *)
(***************************************************************************)
EXTENDS StandardAdapters

VARIABLE refused   \* callers whose wait has raised RuntimeError

overVars == <<vars, refused>>

\* _is_read_locked() and _is_write_locked() for a caller that holds the lock: no
\* other one changes the answer between the two.
IsOwnedRead == owner[Routed("read")] # None

IsOwnedWrite == owner[Routed("write")] # None

OwnedDepth == (IF IsOwnedRead THEN 1 ELSE 0) + (IF IsOwnedWrite THEN 1 ELSE 0)

CallWait(t, k) ==
  /\ Idle(t)
  /\ t \in Waiters
  /\ holds[t] = 1
  /\ IF OwnedDepth # 1
     THEN refused' = refused \cup {t} /\ UNCHANGED vars
     ELSE Wait(t, k) /\ UNCHANGED refused

OverInit == Init /\ refused = {}

OverNext ==
  \E t \in Caller :
    \/ \E k \in Route : Locking(t, k) /\ UNCHANGED refused
    \/ \E k \in {"read", "write"} : CallWait(t, k)

OverSpec == OverInit /\ [][OverNext]_overVars

\* wait() raises "RuntimeError: If the lock is not owned or has nested acquisitions":
\* a caller that has acquired the lock once may wait.
OneAcquisitionMayWait == refused = {}

=============================================================================

------------------------ MODULE ReadWriteCondition ------------------------
(***************************************************************************)
(* What a condition variable over a read-write lock promises its callers:  *)
(* wait() gives up the lock and joins the waiters in one step; notify()    *)
(* releases the first waiters in line; and a waiter that is released, or   *)
(* whose wait has a limit, comes back holding what it gave up.  A wait of  *)
(* a fallible caller may also fail: it comes back holding nothing, and if  *)
(* it was not notified its place in line is left to nobody.  The thread    *)
(* and the asyncio conditions refine this specification.                   *)
(***************************************************************************)
EXTENDS Naturals, Sequences, FiniteSets

CONSTANTS Caller,
          Fallible,   \* callers whose wait may fail
          Nobody      \* who stands in the place of a wait that failed

VARIABLES held,   \* the holds of each caller, as in ReadersWriterLock
          line,   \* the callers that wait, in the order they came
          told,   \* callers that were notified and have not returned yet
          wait    \* where t is in its call of wait, and how it called it

vars == <<held, line, told, wait>>

Lock == INSTANCE ReadersWriterLock

Kind == {"read", "write"}

Single(k) == IF k = "read" THEN [r |-> 1, w |-> 0] ELSE [r |-> 0, w |-> 1]

Out == [stage |-> "out", kind |-> "read", limited |-> FALSE]

InLine(t) == \E i \in 1 .. Len(line) : line[i] = t

\* The line when t has left its place, if it has one.
LineWithout(t) ==
  IF InLine(t)
  THEN LET i == CHOOSE i \in 1 .. Len(line) : line[i] = t
       IN  SubSeq(line, 1, i - 1) \o SubSeq(line, i + 1, Len(line))
  ELSE line

Init == Lock!Init /\ line = << >> /\ told = {} /\ wait = [t \in Caller |-> Out]

\* Outside of wait, a caller uses the lock as it is.
LockStep(t) ==
  /\ wait[t].stage = "out"
  /\ \/ Lock!AcquireRead(t)
     \/ Lock!AcquireWrite(t)
     \/ Lock!ReleaseRead(t)
     \/ Lock!ReleaseWrite(t)
     \/ Lock!Downgrade(t)
  /\ UNCHANGED <<line, told, wait>>

\* t holds the lock exactly once, and gives that hold up.
Wait(t, k, limited) ==
  /\ wait[t].stage = "out"
  /\ held[t] = Single(k)
  /\ held' = [held EXCEPT ![t] = [r |-> 0, w |-> 0]]
  /\ line' = Append(line, t)
  /\ wait' = [wait EXCEPT ![t] = [stage |-> "apart", kind |-> k, limited |-> limited]]
  /\ UNCHANGED told

Notify(t, n) ==
  /\ wait[t].stage = "out"
  /\ Lock!Holds(t)
  /\ n <= Len(line)
  /\ told' = told \cup ({line[i] : i \in 1 .. n} \ {Nobody})
  /\ line' = SubSeq(line, n + 1, Len(line))
  /\ UNCHANGED <<held, wait>>

\* A wait with a timeout, or of a caller that may be cancelled, ends by itself.
GiveUp(t) ==
  /\ wait[t].limited
  /\ InLine(t)
  /\ line' = LineWithout(t)
  /\ UNCHANGED <<held, told, wait>>

\* Nobody comes back but by a notify or the limit of its wait, and with the lock.
Regain(t) ==
  /\ wait[t].stage = "apart"
  /\ t \in told \/ wait[t].limited
  /\ IF wait[t].kind = "read" THEN Lock!AcquireRead(t) ELSE Lock!AcquireWrite(t)
  /\ wait' = [wait EXCEPT ![t].stage = "back"]
  /\ UNCHANGED <<line, told>>

Leave(t) ==
  /\ told' = told \ {t}
  /\ wait' = [wait EXCEPT ![t] = Out]

Return(t) ==
  /\ wait[t].stage = "back"
  /\ line' = LineWithout(t)
  /\ Leave(t)
  /\ UNCHANGED held

\* The exception of a caller that has not got the lock back: its place in line,
\* if a notify has not reached it, takes a later notification and tells nobody.
Fail(t) ==
  /\ t \in Fallible
  /\ wait[t].stage = "apart"
  /\ line' = [i \in 1 .. Len(line) |-> IF line[i] = t THEN Nobody ELSE line[i]]
  /\ Leave(t)
  /\ UNCHANGED held

RegainAndReturn(t) ==
  /\ wait[t].stage = "apart"
  /\ t \in told \/ wait[t].limited
  /\ ~InLine(t)
  /\ IF wait[t].kind = "read" THEN Lock!AcquireRead(t) ELSE Lock!AcquireWrite(t)
  /\ Leave(t)
  /\ UNCHANGED line

Next ==
  \E t \in Caller :
    \/ LockStep(t)
    \/ \E k \in Kind, limited \in BOOLEAN : Wait(t, k, limited)
    \/ \E n \in 1 .. Len(line) : Notify(t, n)
    \/ GiveUp(t)
    \/ Regain(t)
    \/ Return(t)
    \/ RegainAndReturn(t)
    \/ Fail(t)

Spec == Init /\ [][Next]_vars

=============================================================================

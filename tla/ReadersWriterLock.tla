------------------------- MODULE ReadersWriterLock -------------------------
(***************************************************************************)
(* What a read-write lock promises its callers, whatever its policy: how   *)
(* many read and write holds each caller has, and when one more may be     *)
(* granted.  There is no queue, no phase and no wakeup here; the thread    *)
(* and the asyncio implementations refine this specification.              *)
(***************************************************************************)
EXTENDS Naturals

CONSTANT Caller     \* threads, or asyncio tasks

VARIABLE held       \* held[t].r, held[t].w: read and write holds of t

Hold == [r : Nat, w : Nat]

TypeOK == held \in [Caller -> Hold]

Init == held = [t \in Caller |-> [r |-> 0, w |-> 0]]

Holds(t) == held[t].r + held[t].w > 0

\* Nobody but t writes: t may read, beside other readers or under its own write.
AcquireRead(t) ==
  /\ \A u \in Caller \ {t} : held[u].w = 0
  /\ held' = [held EXCEPT ![t].r = @ + 1]

\* Nobody but t holds anything: t may write, or nest a write in its own.
AcquireWrite(t) ==
  /\ \A u \in Caller \ {t} : ~Holds(u)
  /\ held' = [held EXCEPT ![t].w = @ + 1]

ReleaseRead(t) ==
  /\ held[t].r > 0
  /\ held' = [held EXCEPT ![t].r = @ - 1]

ReleaseWrite(t) ==
  /\ held[t].w > 0
  /\ held' = [held EXCEPT ![t].w = @ - 1]

\* The outermost write hold becomes a read hold in one step.
Downgrade(t) ==
  /\ held[t].w = 1
  /\ held' = [held EXCEPT ![t] = [r |-> @.r + 1, w |-> 0]]

Next ==
  \E t \in Caller :
    \/ AcquireRead(t)
    \/ AcquireWrite(t)
    \/ ReleaseRead(t)
    \/ ReleaseWrite(t)
    \/ Downgrade(t)

Spec == Init /\ [][Next]_held

\* A caller that writes is alone: nobody else reads or writes.
MutualExclusion ==
  \A t \in Caller : held[t].w > 0 => \A u \in Caller \ {t} : ~Holds(u)

=============================================================================

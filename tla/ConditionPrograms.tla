------------------------- MODULE ConditionPrograms -------------------------
(***************************************************************************)
(* Client programs of a lock or a condition, over what these promise       *)
(* (ReadWriteCondition, which the thread and the asyncio condition both    *)
(* refine) and nothing more.  Every caller runs one call of the program    *)
(* from its first point to "end".  A step is what a caller does between    *)
(* two points where others may run: a section is entered, its statements   *)
(* up to the next wait or downgrade are run, it is left.                   *)
(***************************************************************************)
EXTENDS Naturals, Sequences, FiniteSets

CONSTANTS Caller,  \* threads, or asyncio tasks
          None     \* Python's None

ASSUME ProgramAssumption == IsFiniteSet(Caller) /\ None \notin Caller

VARIABLES held, line, told, wait,  \* the condition, see ReadWriteCondition
          program,                 \* which program the callers run
          pc,                      \* the point of the program each caller is at
          data                     \* the program's own attributes and locals

Cond == INSTANCE ReadWriteCondition WITH Fallible <- {}, Nobody <- None

condVars == <<held, line, told, wait>>

programVars == <<condVars, program, pc, data>>

Move(t, from, to) == pc[t] = from /\ pc' = [pc EXCEPT ![t] = to]

Ended == \A t \in Caller : pc[t] = "end"

-----------------------------------------------------------------------------
(* What a caller does with the lock and the condition.                     *)

\* with cond.read, with cond.write
Acquire(t, k) ==
  /\ IF k = "read" THEN Cond!Lock!AcquireRead(t) ELSE Cond!Lock!AcquireWrite(t)
  /\ UNCHANGED <<line, told, wait>>

\* The end of a with block: the release goes to the side that is held.
Release(t) ==
  /\ IF held[t].w > 0 THEN Cond!Lock!ReleaseWrite(t) ELSE Cond!Lock!ReleaseRead(t)
  /\ UNCHANGED <<line, told, wait>>

Downgrade(t) == Cond!Lock!Downgrade(t) /\ UNCHANGED <<line, told, wait>>

\* notify(n): at most n, and nothing at all when nobody waits.
NotifyUpTo(t, n) ==
  LET m == IF n < Len(line) THEN n ELSE Len(line)
  IN  IF m = 0 THEN UNCHANGED condVars ELSE Cond!Notify(t, m)

NotifyAll(t) == NotifyUpTo(t, Len(line))

\* A statement that runs inside a section, or outside of every one.
NoCondition == UNCHANGED condVars

\* The wait of wait_for, which loops: a caller that comes back looks again.
WaitAt(t, k, limited, look, asleep) ==
  /\ Move(t, look, asleep)
  /\ Cond!Wait(t, k, limited)

\* A task that is cancelled leaves the line before it has the lock back.
StopsWaiting(t, asleep) == pc[t] = asleep /\ Cond!GiveUp(t) /\ UNCHANGED pc

ComesBack(t, asleep) == pc[t] = asleep /\ Cond!Regain(t) /\ UNCHANGED pc

LooksAgain(t, look, asleep) == Move(t, asleep, look) /\ Cond!Return(t)

=============================================================================

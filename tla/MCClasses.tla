----------------------------- MODULE MCClasses -----------------------------
(***************************************************************************)
(* For the TLC instances: sets of lock classes, policy and reentrance; who *)
(* releases what it does not hold; and how deep the callers nest.          *)
(***************************************************************************)
EXTENDS LockState

AllClasses == Policy \X BOOLEAN

PlainClasses == Policy \X {FALSE}

ReentrantClasses == Policy \X {TRUE}

FairClasses == {"fair"} \X BOOLEAN

NoForeignReleases == {}

ForeignInReentrant == Caller \X {TRUE}

ForeignInPlain == Caller \X {FALSE}

Nested(callers) == [t \in Caller |-> IF t \in callers THEN 2 ELSE 1]

NoNesting == Nested({})

AllNest == Nested(Caller)

=============================================================================

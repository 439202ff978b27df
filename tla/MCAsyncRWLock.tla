------------------------- MODULE MCAsyncRWLock -------------------------
(* Small instances of AsyncRWLock for TLC, with the class sets of MCClasses. *)
EXTENDS AsyncRWLock, MCClasses

=============================================================================

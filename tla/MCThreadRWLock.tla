------------------------- MODULE MCThreadRWLock -------------------------
(* Small instances of ThreadRWLock for TLC, with the class sets of MCClasses. *)
EXTENDS ThreadRWLock, MCClasses

=============================================================================

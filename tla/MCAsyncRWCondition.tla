------------------------ MODULE MCAsyncRWCondition ------------------------
(* Small instances of AsyncRWCondition for TLC, with the class sets of MCClasses. *)
EXTENDS AsyncRWCondition, MCClasses

=============================================================================

------------------------ MODULE MCThreadRWCondition ------------------------
(* Small instances of ThreadRWCondition for TLC, with the class sets of MCClasses. *)
EXTENDS ThreadRWCondition, MCClasses

=============================================================================

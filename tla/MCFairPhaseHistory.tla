----------------------- MODULE MCFairPhaseHistory -----------------------
(* Small instances of FairPhaseHistory for TLC, with the class sets of MCClasses. *)
EXTENDS FairPhaseHistory, MCClasses

=============================================================================

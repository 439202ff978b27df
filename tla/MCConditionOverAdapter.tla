---------------------- MODULE MCConditionOverAdapter ----------------------
(* A small instance of ConditionOverAdapter for TLC. *)
EXTENDS ConditionOverAdapter

=============================================================================

------------------------ MODULE MCStandardAdapters ------------------------
(* A small instance of StandardAdapters for TLC. *)
EXTENDS StandardAdapters

=============================================================================

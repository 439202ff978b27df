------------------------- MODULE MCClientPrograms -------------------------
(* A small instance of ClientPrograms for TLC. *)
EXTENDS ClientPrograms

SmallAmounts == {2, -2}

=============================================================================

------------------------------ MODULE MCStdin -------------------------------
(* Stdin with a ring of two characters, which fills up and wraps around,   *)
(* and readers that may want more than it holds.                           *)
EXTENDS Stdin
=============================================================================

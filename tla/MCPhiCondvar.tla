---------------------------- MODULE MCPhiCondvar ----------------------------
(* PhiCondvar at a table of N.                                             *)
EXTENDS PhiCondvar
=============================================================================

----------------------------- MODULE MCPhiSema ------------------------------
(* PhiSema at a table of N.                                                *)
EXTENDS PhiSema
=============================================================================

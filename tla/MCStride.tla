------------------------------ MODULE MCStride ------------------------------
(* Strides modulo 6 and two weights: BIG_STRIDE \div 0 and \div 1 make a    *)
(* pass of 2 and \div 2 one of 1.                                           *)
EXTENDS Stride

(* stride_pick_next comes to everybody who waits in the heap.  Nothing in  *)
(* Stride tells the processes apart: what holds of one holds of each.      *)
Served == ServedInTurn(CHOOSE p \in Process : TRUE)
=============================================================================

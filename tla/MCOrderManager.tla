--------------------------- MODULE MCOrderManager ---------------------------
(* Small instances of OrderManager for TLC.                                *)
EXTENDS OrderManager, TLC

(* The origin_ids are interchangeable: nothing orders or names them.       *)
Symmetry == Permutations(Orders)
=============================================================================

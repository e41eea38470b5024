---------------------------- MODULE MCAssignment ----------------------------
(***************************************************************************)
(* Assignment with three predecessors and two successors, so that one has  *)
(* to give way, and a price below, at and above the price of staying       *)
(* unmatched.                                                              *)
(***************************************************************************)
EXTENDS Assignment
=============================================================================

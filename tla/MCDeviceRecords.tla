-------------------------- MODULE MCDeviceRecords --------------------------
(***************************************************************************)
(* DeviceRecords with two scanners, two random addresses and a public one. *)
(***************************************************************************)
EXTENDS DeviceRecords, TLC

CONSTANTS s1, s2, x, y, a

\* x is seen twice in one batch or in two, a by two scanners in either order.
MCObservations ==
  {[id |-> 1, scanner |-> s1, address |-> x, delay |-> 0],
   [id |-> 2, scanner |-> s1, address |-> x, delay |-> 1],
   [id |-> 3, scanner |-> s1, address |-> y, delay |-> 0],
   [id |-> 4, scanner |-> s2, address |-> a, delay |-> 0],
   [id |-> 5, scanner |-> s1, address |-> a, delay |-> 1]}

MCSymmetry == Permutations(Requests)
=============================================================================

-------------------------------- MODULE Sums --------------------------------
(***************************************************************************)
(* The sum of the first terms of a function of 1, 2, ..., by a recursive   *)
(* function, so that it can be proved about.                               *)
(***************************************************************************)
EXTENDS Integers

\* f[1] + ... + f[n]
Sum(f, n) ==
  LET upTo[k \in 0 .. n] == IF k = 0 THEN 0 ELSE upTo[k - 1] + f[k]
  IN  upTo[n]
=============================================================================

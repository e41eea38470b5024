----------------------- MODULE MCObservationDelivery -----------------------
(***************************************************************************)
(* Instances of ObservationDelivery for TLC: two request threads, frames   *)
(* of at most two observations.                                            *)
(***************************************************************************)
EXTENDS ObservationDelivery, TLC

CONSTANTS w1, w2

OneWorker == {w1}
TwoWorkers == {w1, w2}

\* Observation 2 is too large for any frame: a batch that holds it is halved
\* until it is alone, and then it is dropped.
SecondTooLarge(first, last) == 2 \notin first .. last

\* No document overflows.
AllFit(first, last) == first <= last
=============================================================================

--------------------------- MODULE BoundedDelivery ---------------------------
(***************************************************************************)
(* What the observation path promises, whatever carries it: a scanner that *)
(* holds a bounded number of observations, delivers them oldest first,     *)
(* each at most once, and loses one only when it is too large to send or   *)
(* when the scanner resets.  An observation is its position: the n-th one  *)
(* that the scanner accepted since the model began.                        *)
(***************************************************************************)
EXTENDS Integers, FiniteSets

CONSTANT Capacity       \* observations the scanner can hold at once

VARIABLES
  accepted,   \* number of observations accepted so far
  held,       \* accepted, not yet delivered, still in the scanner
  delivered,  \* settled at the server: stored, or refused with a record
  gone        \* given up by the scanner before any delivery

vars == <<accepted, held, delivered, gone>>

Init ==
  /\ accepted = 0
  /\ held = {}
  /\ delivered = {}
  /\ gone = {}

\* The scanner takes one more observation while it has room for it.
Accept ==
  /\ Cardinality(held) < Capacity
  /\ accepted' = accepted + 1
  /\ held' = held \union {accepted + 1}
  /\ UNCHANGED <<delivered, gone>>

\* The oldest held observations reach the server together.
Deliver ==
  /\ \E p \in held :
       LET oldest == {q \in held : q <= p}
       IN /\ held' = held \ oldest
          /\ delivered' = delivered \union oldest
  /\ UNCHANGED <<accepted, gone>>

\* A copy that had already left the scanner settles after the scanner reset.
DeliverLate ==
  /\ \E late \in (SUBSET gone) \ {{}} :
       /\ gone' = gone \ late
       /\ delivered' = delivered \union late
  /\ UNCHANGED <<accepted, held>>

\* The scanner gives up its oldest observation (too large to send).
Discard ==
  /\ \E p \in held :
       /\ \A q \in held : p <= q
       /\ held' = held \ {p}
       /\ gone' = gone \union {p}
  /\ UNCHANGED <<accepted, delivered>>

\* A reset of the scanner loses all that it held.
Reset ==
  /\ held' = {}
  /\ gone' = gone \union held
  /\ UNCHANGED <<accepted, delivered>>

Next == Accept \/ Deliver \/ DeliverLate \/ Discard \/ Reset

Spec == Init /\ [][Next]_vars
=============================================================================

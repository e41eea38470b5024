--------------------------- MODULE MCTrackingFocus ---------------------------
(***************************************************************************)
(* TrackingFocus with two addresses.  The refresh of a rotating address    *)
(* puts the new address first, so the index of the old one changes.        *)
(***************************************************************************)
EXTENDS TrackingFocus

CONSTANTS old, new

MCTargetLists == {<<old>>, <<new, old>>}
=============================================================================

------------------------- MODULE MCTrackingSessions -------------------------
(***************************************************************************)
(* TrackingSessions with two request threads and the maintenance loop.     *)
(* With a lease of two ticks and a Horizon of three a session may be       *)
(* renewed once, and every lease is over before time stops; three requests *)
(* are enough for a start, a stop and a batch that overlaps them.          *)
(***************************************************************************)
EXTENDS TrackingSessions
=============================================================================

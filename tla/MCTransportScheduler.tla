------------------------- MODULE MCTransportScheduler -------------------------
(***************************************************************************)
(* TransportScheduler in ticks of two seconds, with the intervals of       *)
(* config.example.h: heartbeat 30 s, focus configuration 2 s, response     *)
(* timeout 12 s; the two intervals of 5 s and the focus upload interval of *)
(* half a second are rounded to 4 s and 2 s.  A request may outlast both   *)
(* hard deadlines of the configuration, and two of them are shorter than   *)
(* the heartbeat interval, as in the code.                                 *)
(***************************************************************************)
EXTENDS TransportScheduler

Uploads == {2}
FocusUploads == {1}
=============================================================================

-------------------------- MODULE MCRealtimeBroker --------------------------
(***************************************************************************)
(* RealtimeBroker with one dashboard stream and one stream of a tracking   *)
(* session.  Queues of two, against 100 and 50, and three events: enough   *)
(* to fill a queue, to overflow it and to have the sentinel compete for    *)
(* room.                                                                   *)
(***************************************************************************)
EXTENDS RealtimeBroker, TLC

CONSTANTS dashboard, finder, session, other

MCStreams == {dashboard, finder}
MCTopics == {session, other}
MCTopicOf == dashboard :> Live @@ finder :> session
=============================================================================

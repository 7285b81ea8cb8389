---------------------------- MODULE MCOnlineTracker ----------------------------
(* Two connections of one station and three beats: enough for a timer to go off  *)
(* while other beats are being handled, on both sides of a reconnection.  The    *)
(* leaked timer needs one connection only, with two beats together and one later. *)
EXTENDS OnlineTracker
===============================================================================

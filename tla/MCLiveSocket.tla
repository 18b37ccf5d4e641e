---------------------------- MODULE MCLiveSocket ----------------------------
(* One fixed topic and one address, two pages' handlers, three sockets.     *)
EXTENDS LiveSocket
=============================================================================

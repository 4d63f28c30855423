------------------------------- MODULE MCPeers -------------------------------
(* Three validators; the one we follow is the second of the list.           *)
EXTENDS Peers

CONSTANTS p1, p2, us

MCFounding == <<p1, us, p2>>
=============================================================================

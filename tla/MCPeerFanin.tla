---------------------------- MODULE MCPeerFanin ----------------------------
(* Instances of PeerFanin for TLC: the constants come from the cfg files. *)
EXTENDS PeerFanin
=============================================================================

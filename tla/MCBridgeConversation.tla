------------------------ MODULE MCBridgeConversation ------------------------
(* TLC instances of BridgeConversation. *)
EXTENDS BridgeConversation, TLC

Symmetry == Permutations(Streams)
=============================================================================

------------------------------ MODULE MCPubSub ------------------------------
(* The instance of PubSub for TLC, which names its constants in the cfg. *)
EXTENDS PubSub
=============================================================================

-------------------------- MODULE MCEndpointCache --------------------------
(* The instance of EndpointCache for TLC, which names its constants in the cfg. *)
EXTENDS EndpointCache
=============================================================================

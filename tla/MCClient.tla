------------------------------ MODULE MCClient ------------------------------
(* A connection to a host known by name, and one to an address, which      *)
(* shares the list of active connections with the resolver.                *)
EXTENDS Client
=============================================================================

------------------------- MODULE MCSessionLifecycle -------------------------
(***************************************************************************)
(* SessionLifecycle on a small instance: three spawns against a cap of     *)
(* two, so that eviction happens; two sockets, so that a session has more  *)
(* than one viewer; one identity besides the operator tier.                *)
(***************************************************************************)
EXTENDS SessionLifecycle
=============================================================================

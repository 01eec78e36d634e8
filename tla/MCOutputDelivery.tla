-------------------------- MODULE MCOutputDelivery --------------------------
(***************************************************************************)
(* OutputDelivery on a small instance: a batch is full at two chunks, the  *)
(* ring keeps two, and the pending hold overflows at the third chunk or at *)
(* the third frame boundary.                                               *)
(***************************************************************************)
EXTENDS OutputDelivery
=============================================================================

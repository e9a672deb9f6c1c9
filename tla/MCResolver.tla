---------------------------- MODULE MCResolver ----------------------------
(***************************************************************************)
(* Resolver with three servers, one of them asked over TCP only, and ints  *)
(* so small that the third exchange overflows its index.                   *)
(***************************************************************************)
EXTENDS Resolver
=============================================================================

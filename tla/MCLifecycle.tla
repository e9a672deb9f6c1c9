---------------------------- MODULE MCLifecycle ----------------------------
(***************************************************************************)
(* Lifecycle with a UDP and a TCP socket, as one bare address binds, and   *)
(* with a third for the room in the error channel.                         *)
(***************************************************************************)
EXTENDS Lifecycle
=============================================================================

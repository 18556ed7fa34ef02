---------------------------- MODULE MCMediaLifecycle ----------------------------
(***************************************************************************)
(* One file, two messages that may share it, one node, a few failures.     *)
(***************************************************************************)
EXTENDS MediaLifecycle
=============================================================================

------------------------------- MODULE MCHtif -------------------------------
(* Instances of Htif for TLC. *)
EXTENDS Htif
=============================================================================

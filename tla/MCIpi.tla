------------------------------- MODULE MCIpi -------------------------------
(* Instances of Ipi for TLC. *)
EXTENDS Ipi

TwoHarts == {0, 1}
=============================================================================

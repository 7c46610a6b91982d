------------------------------- MODULE MCBoot -------------------------------
(* Instances of Boot for TLC. *)
EXTENDS Boot

TwoHarts == {0, 1}
ThreeHarts == {0, 1, 2}
FirstDisabled == {0}
=============================================================================

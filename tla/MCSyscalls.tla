---------------------------- MODULE MCSyscalls -----------------------------
(* Instances of Syscalls for TLC. *)
EXTENDS Syscalls
=============================================================================

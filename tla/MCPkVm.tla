------------------------------ MODULE MCPkVm -------------------------------
(* Instances of PkVm for TLC. *)
EXTENDS PkVm, TLC

CONSTANTS v1, v2, v3, v4

Low == {1}
High == {NPages - 1}

Whole == {Perm}
AllRights == {{}, {"R", "W"}}
Anonymous == {NULL}
OneFile == {0}

\* With and without the -p flag.
AnyPaging == {TRUE, FALSE}

Regions == {v1, v2, v3, v4}
RegionSymmetry == Permutations(Regions)
ThreeRegions == {v1, v2, v3}
ThreeSymmetry == Permutations(ThreeRegions)
=============================================================================

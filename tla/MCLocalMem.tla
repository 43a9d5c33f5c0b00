----------------------------- MODULE MCLocalMem -----------------------------
(* Small instances of LocalMem for TLC: two adjacent regions of two        *)
(* granules; the largest request does not fit a region.                    *)
EXTENDS LocalMem, TLC

MCBases == {0, 2}
MCSizes == 1 .. 3
Symmetry == Permutations(Procs)
=============================================================================

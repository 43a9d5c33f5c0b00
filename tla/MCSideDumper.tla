---------------------------- MODULE MCSideDumper ----------------------------
(* Small instances of SideDumper for TLC.                                  *)
EXTENDS SideDumper, TLC

(* Device 2 lies outside a table of two entries (0 and 1).                 *)
MCDevNums == {1, 2}

(* The submitting processes are alike.                                     *)
Symmetry == Permutations(Procs)
=============================================================================

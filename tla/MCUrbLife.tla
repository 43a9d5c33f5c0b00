----------------------------- MODULE MCUrbLife -----------------------------
(* Small instances of UrbLife for TLC: urbs u1 and u2, endpoints e1 and e2.*)
EXTENDS UrbLife, TLC

CONSTANTS p1, p2, u1, u2, e1, e2

(* Both urbs at one endpoint, or one at each.                              *)
Together == (u1 :> e1) @@ (u2 :> e1)
Apart    == (u1 :> e1) @@ (u2 :> e2)

(* A long urb has two TDs (a control transfer without data).               *)
OneLong  == (u1 :> 2) @@ (u2 :> 1)
Short    == (u1 :> 1) @@ (u2 :> 1)

Symmetry == Permutations({p1, p2})
=============================================================================

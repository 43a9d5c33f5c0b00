----------------------------- MODULE MCTdQueue -----------------------------
(* Instance of TdQueue for TLC: a TD has two bytes; a bulk urb of three    *)
(* bytes has two TDs, a control urb has two or three.                      *)
EXTENDS TdQueue

CONSTANTS u1, u2

MCAddresses == 1 .. 6
MCLengths == [BULK |-> (u1 :> 3) @@ (u2 :> 1),
              CONTROL |-> (u1 :> 1) @@ (u2 :> 0),
              INTERRUPT |-> (u1 :> 1) @@ (u2 :> 1)]
=============================================================================

----------------------------- MODULE MCEdLists ------------------------------
(* Small instance of EdLists for TLC: chains of three control EDs and a    *)
(* bulk ED, some of them of one device; a tree of three interrupt EDs and  *)
(* an isochronous one.                                                     *)
EXTENDS EdLists, TLC

CONSTANTS c1, c2, c3, b1, i1, i2, i3, s1

ChainEds == {c1, c2, c3, b1}
TreeEds == {i1, i2, i3, s1}
MCEds == ChainEds \cup TreeEds
MCType == [e \in MCEds |->
              CASE e \in {c1, c2, c3} -> "CTRL"
                [] e = b1             -> "BULK"
                [] e \in {i1, i2, i3} -> "INT"
                [] e = s1             -> "ISO"]
MCDevices == { <<c1, b1>>, <<c2>>, <<c3>> } \cup { <<e>> : e \in TreeEds }

(* Lists of EDs do not depend on those of other types: the chains are used *)
(* at one time, the tree at another.                                       *)
MCTogether == {ChainEds, TreeEds}

(* EDs of a type that are a device's only ones are alike.                  *)
Symmetry == Permutations({c2, c3}) \cup Permutations({i1, i2, i3})

(* The arithmetic at the code's width: reversing is its own inverse and    *)
(* maps an interval to the number of heads that share it; at Bits, periods *)
(* are rounded down to a power of two, up to the number of heads.          *)
ASSUME Arithmetic ==
    /\ \A w \in 0 .. 31 : ep_rev(5, w) \in 0 .. 31 /\ ep_rev(5, ep_rev(5, w)) = w
    /\ \A k \in 0 .. 5 : ep_rev(6, 2 ^ k) = 2 ^ (5 - k)
    /\ \A p \in 1 .. 255 :
           LET n == ep_2_n_interval(p)
           IN  n <= p /\ n <= Branches /\ (n = Branches \/ p < 2 * n)
=============================================================================

---------------------------- MODULE TdQueueProofs ---------------------------
(* The queue of an endpoint, the done lists and the lengths returned, for  *)
(* any number of urbs, addresses and bytes.                                *)
EXTENDS TdQueue, FiniteSetTheorems, SequenceTheorems, WellFoundedInduction, TLAPS

(* The data of a control urb fit into the one TD that td_submit_urb fills  *)
(* for them; for longer ones sohci_submit_urb allocates more (line 499).   *)
ShortControl == \A u \in Urbs : Lengths["CONTROL"][u] <= Chunk

-----------------------------------------------------------------------------
(* The chains that links make.                                             *)

(* A set of numbers that has 0 and with each number the next has all.      *)
LEMMA NatSet ==
  ASSUME NEW S, 0 \in S, \A n \in Nat : n \in S => n + 1 \in S
  PROVE  Nat \subseteq S
  <1> DEFINE T == Nat \ S
  <1> SUFFICES ASSUME T # {} PROVE FALSE
    OBVIOUS
  <1>1. PICK x \in T : \A y \in T : <<y, x>> \notin OpToRel(<, Nat)
    BY NatLessThanWellFounded, WFMin
  <1>2. \A y \in T : ~ (y < x)
    BY <1>1 DEF OpToRel
  <1>3. x # 0 /\ x - 1 \in Nat
    OBVIOUS
  <1>4. x - 1 \in S
    BY <1>2, <1>3
  <1>5. QED BY <1>3, <1>4

(* The end of a sequence from a place on is what is there and the rest.    *)
LEMMA Prepended ==
  ASSUME NEW A, NEW n \in Nat, NEW s \in [1 .. n -> A], NEW k \in 1 .. n
  PROVE  <<s[k]>> \o [i \in 1 .. n - k |-> s[k + i]] = [i \in 1 .. n + 1 - k |-> s[k + i - 1]]
  <1> DEFINE r == [i \in 1 .. n - k |-> s[k + i]]
             t == [i \in 1 .. n + 1 - k |-> s[k + i - 1]]
             c == <<s[k]>> \o r
  <1>1. <<s[k]>> \in Seq(A) /\ Len(<<s[k]>>) = 1 /\ <<s[k]>>[1] = s[k]
    OBVIOUS
  <1>2. r \in Seq(A) /\ Len(r) = n - k /\ \A i \in 1 .. n - k : r[i] = s[k + i]
    OBVIOUS
  <1>3. t \in Seq(A) /\ Len(t) = n + 1 - k /\ \A i \in 1 .. n + 1 - k : t[i] = s[k + i - 1]
    OBVIOUS
  <1>4. /\ c \in Seq(A) /\ Len(c) = n + 1 - k
        /\ \A i \in 1 .. n + 1 - k : c[i] = IF i <= 1 THEN <<s[k]>>[i] ELSE r[i - 1]
    <2> HIDE DEF r
    <2> DEFINE p == <<s[k]>>
    <2> HIDE DEF p
    <2>1. p \in Seq(A) /\ r \in Seq(A) /\ Len(p) = 1 /\ Len(r) = n - k
      BY <1>1, <1>2 DEF p
    <2>2. /\ p \o r \in Seq(A) /\ Len(p \o r) = Len(p) + Len(r)
          /\ \A i \in 1 .. Len(p) + Len(r) :
                (p \o r)[i] = IF i <= Len(p) THEN p[i] ELSE r[i - Len(p)]
      BY <2>1, ConcatProperties
    <2>3. 1 + (n - k) = n + 1 - k
      OBVIOUS
    <2>4. QED BY <2>1, <2>2, <2>3 DEF p
  <1> HIDE DEF r, t, c
  <1>5. ASSUME NEW i \in 1 .. n + 1 - k PROVE c[i] = t[i]
    <2>1. CASE i = 1
      BY <2>1, <1>1, <1>3, <1>4
    <2>2. CASE i > 1
      <3>1. c[i] = r[i - 1] /\ i - 1 \in 1 .. n - k
        BY <2>2, <1>4
      <3>2. r[i - 1] = s[k + (i - 1)]
        BY <1>2, <3>1
      <3>3. k + (i - 1) = k + i - 1
        OBVIOUS
      <3>4. QED BY <1>3, <3>1, <3>2, <3>3
    <2>3. QED BY <2>1, <2>2
  <1>6. c = t
    BY <1>3, <1>4, <1>5, SeqEqual
  <1>7. QED BY <1>6 DEF c, r, t

(* The equation of the recursive function in Chain, up to a length.        *)
Walk(f, m, b, link) ==
  f = [n \in 0 .. m |->
        [x \in Addresses \cup {0} |->
            IF n = 0 \/ x \in {b, 0} THEN <<>>
            ELSE <<x>> \o f[n - 1][link[x]]]]

(* It has a solution, for every length.                                    *)
LEMMA WalkExists ==
  ASSUME NEW b, NEW link, NEW m \in Nat
  PROVE  \E f : Walk(f, m, b, link)
  <1> DEFINE S == { k \in Nat : \E f : Walk(f, k, b, link) }
  <1>1. 0 \in S
    <2> DEFINE f == [n \in 0 .. 0 |-> [x \in Addresses \cup {0} |-> <<>>]]
    <2>1. Walk(f, 0, b, link)
      BY DEF Walk
    <2>2. QED BY <2>1
  <1>2. ASSUME NEW k \in Nat, k \in S PROVE k + 1 \in S
    <2>1. PICK f : Walk(f, k, b, link)
      BY <1>2
    <2> DEFINE Row(h, n) == [x \in Addresses \cup {0} |->
                               IF n = 0 \/ x \in {b, 0} THEN <<>>
                               ELSE <<x>> \o h[n - 1][link[x]]]
               g == [n \in 0 .. k + 1 |-> Row(f, n)]
    <2>2. ASSUME NEW n \in 0 .. k PROVE f[n] = Row(f, n)
      BY <2>1, Zenon DEF Walk
    <2>3. ASSUME NEW n \in 0 .. k + 1 PROVE Row(f, n) = Row(g, n)
      <3>1. CASE n = 0
        BY <3>1, Zenon
      <3>2. CASE n # 0
        <4>1. n - 1 \in 0 .. k /\ n - 1 \in 0 .. k + 1
          BY <3>2
        <4>2. g[n - 1] = f[n - 1]
          BY <2>2, <4>1, Zenon
        <4>3. QED BY <4>2, Zenon
      <3>3. QED BY <3>1, <3>2
    <2>4. g = [n \in 0 .. k + 1 |-> Row(g, n)]
      BY <2>3, Zenon
    <2>5. Walk(g, k + 1, b, link)
      BY <2>4, Zenon DEF Walk
    <2>6. QED BY <2>5
  <1>3. Nat \subseteq S
    BY <1>1, <1>2, NatSet
  <1>4. QED BY <1>3

(* The links lead from a through the n addresses of s, all different, to   *)
(* b or nowhere.                                                           *)
Leads(a, b, link, n, s) ==
  /\ n \in Nat /\ s \in [1 .. n -> Addresses] /\ b \in Addresses \cup {0}
  /\ \A i \in 1 .. n : s[i] # b
  /\ \A i, j \in 1 .. n : s[i] = s[j] => i = j
  /\ \A i \in 1 .. n - 1 : link[s[i]] = s[i + 1]
  /\ n > 0 => a = s[1] /\ (link[s[n]] = b \/ link[s[n]] = 0)
  /\ n = 0 => a = b \/ a = 0

(* So the chain from a to b is s.                                          *)
LEMMA ChainIs ==
  ASSUME NEW a, NEW b, NEW link, NEW n, NEW s, Leads(a, b, link, n, s)
  PROVE  Chain(a, b, link) = s
  <1>9. /\ n \in Nat /\ s \in [1 .. n -> Addresses] /\ b \in Addresses \cup {0}
        /\ \A i \in 1 .. n : s[i] # b
        /\ \A i, j \in 1 .. n : s[i] = s[j] => i = j
        /\ \A i \in 1 .. n - 1 : link[s[i]] = s[i + 1]
        /\ n > 0 => a = s[1] /\ (link[s[n]] = b \/ link[s[n]] = 0)
        /\ n = 0 => a = b \/ a = 0
    BY DEF Leads
  <1> USE <1>9
  <1> DEFINE e == IF n > 0 THEN link[s[n]] ELSE a
  <1>6. /\ e = b \/ e = 0
        /\ a = IF n > 0 THEN s[1] ELSE e
        /\ \A i \in 1 .. n : s[i] # b /\ s[i] # 0
    BY TdAssumption
  <1>7. \A i \in 1 .. n : link[s[i]] = IF i < n THEN s[i + 1] ELSE e
    OBVIOUS
  <1>8. e \in Addresses \cup {0}
    BY <1>6
  <1> HIDE DEF e
  <1>1. IsFiniteSet(Addresses) /\ Cardinality(Addresses) \in Nat
    BY TdAssumption, FS_CardinalityType
  <1>2. n <= Cardinality(Addresses)
    <2>1. s \in Injection(1 .. n, Addresses)
      BY DEF Injection, IsInjective
    <2>2. Cardinality(1 .. n) = n
      BY FS_Interval
    <2>3. QED BY <1>1, <2>1, <2>2, FS_Injection
  <1> DEFINE m == Cardinality(Addresses)
             f == CHOOSE g : Walk(g, m, b, link)
  <1>3. Walk(f, m, b, link)
    BY <1>1, WalkExists
  <1>4. Chain(a, b, link) = f[m][a]
    BY DEF Chain, Walk
  <1>5. m \in Nat /\ n \in 0 .. m
    BY <1>1, <1>2
  <1> HIDE DEF f, m
  <1> DEFINE X == Addresses \cup {0}
             At(k) == IF k <= n THEN s[k] ELSE e
             Rest(k) == [i \in 1 .. n + 1 - k |-> s[k + i - 1]]
             S == { d \in Nat : d <= m => \A k \in 1 .. n + 1 :
                                   n + 1 - k <= d => f[d][At(k)] = Rest(k) }
  <1>10. \A k \in 1 .. n + 1 : At(k) \in X
    BY <1>8
  <1> DEFINE Row(d) == [x \in X |-> IF d = 0 \/ x \in {b, 0} THEN <<>>
                                    ELSE <<x>> \o f[d - 1][link[x]]]
  <1>11. \A d \in 0 .. m : f[d] = Row(d)
    BY <1>3, Zenon DEF Walk
  <1>21. \A d : \A x \in X : d = 0 \/ x \in {b, 0} => Row(d)[x] = <<>>
    BY Zenon
  <1>22. ASSUME NEW d, d # 0, NEW x \in X, x \notin {b, 0}
        PROVE  Row(d)[x] = <<x>> \o f[d - 1][link[x]]
    BY <1>22, Zenon
  <1> HIDE DEF Row
  <1>12. Rest(n + 1) = <<>>
    OBVIOUS
  <1>13. 0 \in S
    <2> SUFFICES ASSUME NEW k \in 1 .. n + 1, n + 1 - k <= 0 PROVE f[0][At(k)] = Rest(k)
      OBVIOUS
    <2>1. k = n + 1
      OBVIOUS
    <2> HIDE DEF At, Rest
    <2>2. f[0][At(k)] = <<>>
      <3>1. 0 \in 0 .. m /\ At(k) \in X
        BY <1>5, <1>10
      <3> HIDE DEF X
      <3>2. Row(0)[At(k)] = <<>>
        BY <1>21, <3>1
      <3>3. f[0] = Row(0)
        BY <1>11, <3>1
      <3>4. QED BY <3>2, <3>3
    <2>3. QED BY <1>12, <2>1, <2>2
  <1>14. ASSUME NEW d \in Nat, d \in S PROVE d + 1 \in S
    <2> SUFFICES ASSUME d + 1 <= m, NEW k \in 1 .. n + 1, n + 1 - k <= d + 1
                 PROVE  f[d + 1][At(k)] = Rest(k)
      <3> HIDE DEF At, Rest
      <3> QED OBVIOUS
    <2>1. CASE k = n + 1
      <3>1. At(k) \in {b, 0}
        BY <2>1, <1>6
      <3> HIDE DEF At, Rest
      <3>2. f[d + 1][At(k)] = <<>>
        BY <1>10, <1>11, <1>21, <3>1
      <3>3. QED BY <1>12, <2>1, <3>2
    <2>2. CASE k <= n
      <3>1. At(k) = s[k] /\ s[k] \in Addresses \ {b, 0} /\ link[s[k]] = At(k + 1)
        BY <2>2, <1>6, <1>7
      <3>2. f[d][At(k + 1)] = Rest(k + 1)
        <4>1. k + 1 \in 1 .. n + 1 /\ n + 1 - (k + 1) <= d /\ d <= m
          <5> HIDE DEF At, Rest
          <5>1. QED BY <1>5, <2>2
        <4> HIDE DEF At, Rest
        <4>2. QED BY <1>14, <4>1
      <3>3. f[d + 1][At(k)] = <<s[k]>> \o Rest(k + 1)
        <4> HIDE DEF At, Rest
        <4>1. f[d + 1] = Row(d + 1)
          BY <1>11
        <4>2. Row(d + 1)[At(k)] = <<At(k)>> \o f[(d + 1) - 1][link[At(k)]]
          <5>1. d + 1 # 0 /\ At(k) \in X /\ At(k) \notin {b, 0}
            BY <1>10, <3>1
          <5>2. QED BY <1>22, <5>1, Zenon
        <4>3. (d + 1) - 1 = d
          OBVIOUS
        <4>4. f[(d + 1) - 1][link[At(k)]] = Rest(k + 1)
          BY <3>1, <3>2, <4>3, Zenon
        <4>5. QED BY <3>1, <4>1, <4>2, <4>4, Zenon
      <3>4. <<s[k]>> \o Rest(k + 1) = Rest(k)
        <4>1. Rest(k + 1) = [i \in 1 .. n - k |-> s[k + i]]
          BY <2>2
        <4>2. <<s[k]>> \o [i \in 1 .. n - k |-> s[k + i]] = Rest(k)
          BY <2>2, Prepended
        <4>3. QED BY <4>1, <4>2
      <3>5. QED BY <3>3, <3>4
    <2>3. QED BY <2>1, <2>2
  <1>15. Nat \subseteq S
    BY <1>13, <1>14, NatSet
  <1>16. f[m][At(1)] = Rest(1)
    <2> HIDE DEF At, Rest
    <2>1. m \in S
      BY <1>5, <1>15
    <2>2. 1 \in 1 .. n + 1 /\ n + 1 - 1 <= m
      BY <1>5
    <2>3. QED BY <2>1, <2>2
  <1>17. Rest(1) = s
    OBVIOUS
  <1>18. f[m][a] = s
    <2>1. At(1) = a
      BY <1>6
    <2> HIDE DEF At, Rest
    <2>2. QED BY <1>16, <1>17, <2>1
  <1>20. QED BY <1>18, <1>4
-----------------------------------------------------------------------------
(* The inductive invariant.  All TDs that are filled and not yet returned  *)
(* stand in one line w of n, in the order in which they were filled:       *)
(* 1 .. x are in td_list, x+1 .. y in the done list of the hcca and        *)
(* y+1 .. z in that of the controller, both the last first, and z+1 .. n   *)
(* in the queue.                                                           *)

(* What each variable can be.                                              *)
TypeOK ==
  /\ type \in DOMAIN Lengths /\ len = Lengths[type]
  /\ td \in [Addresses -> [urb : Urbs \cup {NoUrb}, index : Nat, R : BOOLEAN,
                           CBP : Int, BE : Int, NextTD : Addresses \cup {0},
                           next_dl : Addresses \cup {0},
                           CC : {"none", "NOERROR", "STALL", "UNDERRUN"}]]
  /\ hwTailP \in Addresses /\ halted \in BOOLEAN
  /\ priv \in [Urbs -> Seq(Addresses)] /\ td_cnt \in [Urbs -> Nat]
  /\ urb_del \in [Urbs -> BOOLEAN]
  /\ cnt \in Nat /\ filling \in Urbs \cup {NoUrb}
  /\ actual_length \in [Urbs -> Int] /\ moved \in [Urbs -> Int]

(* The tables of the urbs, and what td_submit_urb has come to.             *)
Tables ==
  /\ \A u \in Urbs : Len(priv[u]) = 0 \/ Len(priv[u]) = Size(u)
  /\ \A u \in Urbs : \A i \in DOMAIN priv[u] : priv[u][i] # hwTailP
  /\ \A u, v \in Urbs : \A i \in DOMAIN priv[u], j \in DOMAIN priv[v] :
           priv[u][i] = priv[v][j] => u = v /\ i = j
  /\ allocated = {hwTailP} \cup UNION { Range(priv[u]) : u \in Urbs }
  /\ filling # NoUrb => priv[filling] # <<>> /\ cnt <= Len(priv[filling])
  /\ filling = NoUrb => cnt = 0

(* The TDs of an urb that are filled, returned ones too.                   *)
Filled(u) == IF u = filling THEN cnt ELSE Len(priv[u])

(* The four parts of the line, any of which may be empty.                  *)
InLine(w, n, x, y, z) ==
  /\ n \in Nat /\ x \in Nat /\ y \in Nat /\ z \in Nat
  /\ x <= y /\ y <= z /\ z <= n
  /\ w \in [1 .. n -> Addresses]

(* The pointers lead through each part as its owner left it: next_dl in    *)
(* td_list, hwNextTD backwards in the two done lists, forwards in the      *)
(* queue.                                                                  *)
Linked(w, n, x, y, z) ==
  /\ td_list = IF x > 0 THEN w[1] ELSE 0
  /\ done_head = IF y > x THEN w[y] ELSE 0
  /\ hc_done = IF z > y THEN w[z] ELSE 0
  /\ hwHeadP = IF z < n THEN w[z + 1] ELSE hwTailP
  /\ \A i \in 1 .. x : td[w[i]].next_dl = IF i < x THEN w[i + 1] ELSE 0
  /\ \A i \in x + 1 .. z :
        td[w[i]].NextTD = IF i = x + 1 \/ i = y + 1 THEN 0 ELSE w[i - 1]
  /\ \A i \in z + 1 .. n : td[w[i]].NextTD = IF i < n THEN w[i + 1] ELSE hwTailP

(* A TD is the one in the table of its urb at its index.                   *)
Placed(w, n) ==
  \A i \in 1 .. n :
     /\ td[w[i]].urb \in Urbs
     /\ td[w[i]].index + 1 \in 1 .. Filled(td[w[i]].urb)
     /\ priv[td[w[i]].urb][td[w[i]].index + 1] = w[i]

(* The TDs of an urb are in order, wherever they are.                      *)
Ordered(w, n) ==
  \A i, j \in 1 .. n :
     i < j /\ td[w[i]].urb = td[w[j]].urb => td[w[i]].index < td[w[j]].index

(* The queue has no gaps; neither has what a failed TD and it make         *)
(* together: the last one retired, until the interrupt handler has seen it.*)
Begins(z) == IF halted THEN z ELSE z + 1
Served(w, n, z) ==
  /\ \A i \in 1 .. n - 1 : Begins(z) <= i => Successor(td[w[i]], td[w[i + 1]])
  /\ Begins(z) <= n => /\ td[w[n]].index = Filled(td[w[n]].urb) - 1
                       /\ filling # NoUrb /\ cnt > 0 => td[w[n]].urb = filling

(* The endpoint is halted only as long as the failed TD, the last one      *)
(* retired, has not been seen by the interrupt handler.                    *)
Halts(w, x, z) ==
  /\ halted => x < z
  /\ \A i \in x + 1 .. z : td[w[i]].CC = "NOERROR" <=> ~ (halted /\ i = z)

(* td_cnt counts the others of those that are filled.                      *)
Of(w, n, u) == { a \in { w[i] : i \in 1 .. n } : td[a].urb = u }
Counted(w, n) == \A u \in Urbs : Cardinality(Of(w, n, u)) + td_cnt[u] = Filled(u)

(* All that holds of the line.                                             *)
Line(w, n, x, y, z) ==
  /\ InLine(w, n, x, y, z) /\ Linked(w, n, x, y, z)
  /\ Placed(w, n) /\ Ordered(w, n) /\ Counted(w, n)
  /\ Served(w, n, z) /\ Halts(w, x, z)

(* There is such a line.                                                   *)
QueueInv ==
  TypeOK /\ Tables /\ \E w, n, x, y, z : Line(w, n, x, y, z)

-----------------------------------------------------------------------------
(* What is put into the TDs.                                               *)

(* A transfer of some bytes takes at least one TD, and one that fits takes *)
(* one (sohci_submit_urb, lines 487-509).                                  *)
LEMMA PiecesPositive ==
  ASSUME NEW n \in Nat, n > 0
  PROVE  Pieces(n) \in Nat /\ Pieces(n) > 0 /\ (n <= Chunk => Pieces(n) = 1)
  <1>1. Chunk \in Nat /\ Chunk > 0
    BY TdAssumption
  <1>2. (n - 1) \div Chunk \in Nat
    BY <1>1
  <1>3. n <= Chunk => (n - 1) \div Chunk = 0
    BY <1>1
  <1>4. QED BY <1>2, <1>3 DEF Pieces

(* The lengths are numbers, and those of control urbs fit.                 *)
LEMMA LenOf ==
  ASSUME TypeOK, NEW u \in Urbs
  PROVE  len[u] \in Nat /\ (type = "CONTROL" /\ ShortControl => len[u] <= Chunk)
         /\ type \in {"BULK", "CONTROL", "INTERRUPT"}
  <1>1. type \in {"BULK", "CONTROL", "INTERRUPT"} /\ len = Lengths[type]
    BY TdAssumption DEF TypeOK
  <1>2. len \in [Urbs -> Nat]
    BY <1>1, TdAssumption
  <1>3. ASSUME type = "CONTROL", ShortControl PROVE len[u] <= Chunk
    BY <1>1, <1>3 DEF ShortControl
  <1>4. QED BY <1>1, <1>2, <1>3

(* An urb has as many TDs as are filled for it.                            *)
LEMMA ContentsLen ==
  ASSUME TypeOK, ShortControl, NEW u \in Urbs
  PROVE  /\ Size(u) \in Nat /\ Size(u) > 0 /\ Len(Contents(u)) = Size(u)
         /\ DOMAIN Contents(u) = 1 .. Size(u)
  <1>1. len[u] \in Nat /\ type \in {"BULK", "CONTROL", "INTERRUPT"}
    BY LenOf
  <1>2. CASE type = "BULK"
    <2>1. Size(u) \in Nat /\ Size(u) > 0 /\ Size(u) = BulkTds(u)
      BY <1>1, <1>2, PiecesPositive DEF Size, BulkTds
    <2>2. QED BY <1>2, <2>1 DEF Contents
  <1>3. CASE type = "CONTROL"
    <2>1. len[u] <= Chunk
      BY <1>3, LenOf
    <2>2. Pieces(len[u]) = IF len[u] > 0 THEN 1 ELSE 0
      BY <1>1, <2>1, PiecesPositive DEF Pieces
    <2>3. Size(u) = IF len[u] > 0 THEN 3 ELSE 2
      BY <1>1, <1>3, <2>2 DEF Size
    <2>4. QED BY <1>1, <1>3, <2>3 DEF Contents
  <1>4. CASE type = "INTERRUPT"
    BY <1>4 DEF Size, Contents
  <1>5. QED BY <1>1, <1>2, <1>3, <1>4

(* What td_submit_urb puts into a TD has the right type.                   *)
LEMMA ContentsType ==
  ASSUME TypeOK, ShortControl, NEW u \in Urbs, NEW i \in 1 .. Size(u)
  PROVE  /\ Contents(u)[i].CBP \in Int /\ Contents(u)[i].BE \in Int
         /\ Contents(u)[i].R \in BOOLEAN
  <1>1. /\ len[u] \in Nat /\ type \in {"BULK", "CONTROL", "INTERRUPT"}
        /\ Chunk \in Nat /\ In \in BOOLEAN
    BY LenOf, TdAssumption
  <1>2. ASSUME NEW f \in Int, NEW n \in Int, NEW s \in BOOLEAN
        PROVE  Bytes(f, n, s).CBP \in Int /\ Bytes(f, n, s).BE \in Int /\ Bytes(f, n, s).R \in BOOLEAN
    BY DEF Bytes, NoBytes, Base
  <1>3. NoBytes.CBP \in Int /\ NoBytes.BE \in Int /\ NoBytes.R \in BOOLEAN
    BY DEF NoBytes
  <1>4. i \in DOMAIN Contents(u) /\ i \in Nat /\ DOMAIN Contents(u) = 1 .. Size(u)
    BY ContentsLen
  <1>5. CASE type = "BULK"
    <2>1. (i - 1) * Chunk \in Int
      BY <1>1, <1>4
    <2> DEFINE m == (i - 1) * Chunk
    <2>2. Contents(u)[i] = Bytes(m, Chunk, FALSE) \/ Contents(u)[i] = Bytes(m, len[u] - m, In)
      BY <1>4, <1>5 DEF Contents
    <2> HIDE DEF m
    <2>3. m \in Int
      BY <2>1 DEF m
    <2>4. Chunk \in Int /\ len[u] - m \in Int /\ FALSE \in BOOLEAN
      BY <1>1, <2>3
    <2>5. QED BY <1>1, <1>2, <2>2, <2>3, <2>4, Zenon
  <1>6. CASE type = "CONTROL"
    <2>1. Contents(u)[i] = NoBytes \/ Contents(u)[i] = Bytes(0, len[u], TRUE)
      BY <1>4, <1>6 DEF Contents
    <2>2. 0 \in Int /\ len[u] \in Int /\ TRUE \in BOOLEAN
      BY <1>1
    <2>3. QED BY <1>2, <1>3, <2>1, <2>2, Zenon
  <1>7. CASE type = "INTERRUPT"
    <2>1. Contents(u)[i] = Bytes(0, len[u], In)
      BY <1>4, <1>7 DEF Contents
    <2>2. QED BY <1>1, <1>2, <2>1
  <1>8. QED BY <1>1, <1>5, <1>6, <1>7

(* What the parts of the line say together.                                *)

(* No more TDs of an urb are filled than it has.                           *)
LEMMA FilledFits ==
  ASSUME TypeOK, Tables, NEW u \in Urbs
  PROVE  Filled(u) \in Nat /\ Filled(u) <= Len(priv[u]) /\ Len(priv[u]) \in Nat
         /\ DOMAIN priv[u] = 1 .. Len(priv[u])
  <1>1. priv[u] \in Seq(Addresses)
    BY DEF TypeOK
  <1>2. Len(priv[u]) \in Nat /\ DOMAIN priv[u] = 1 .. Len(priv[u])
    BY <1>1
  <1>3. cnt \in Nat /\ (u = filling => cnt <= Len(priv[u]))
    BY TdAssumption DEF TypeOK, Tables
  <1>4. QED BY <1>2, <1>3 DEF Filled

(* A TD of the line is in the table of an urb, and is neither NULL nor the *)
(* dummy.                                                                  *)
LEMMA LineTds ==
  ASSUME TypeOK, Tables, NEW w, NEW n, NEW x, NEW y, NEW z,
         InLine(w, n, x, y, z), Placed(w, n), NEW i \in 1 .. n
  PROVE  /\ w[i] \in Addresses /\ td[w[i]].urb \in Urbs /\ td[w[i]].index \in Nat
         /\ td[w[i]].index < Filled(td[w[i]].urb)
         /\ td[w[i]].index + 1 \in DOMAIN priv[td[w[i]].urb]
         /\ priv[td[w[i]].urb][td[w[i]].index + 1] = w[i]
         /\ w[i] # hwTailP /\ w[i] # 0
  <1>1. w[i] \in Addresses /\ n \in Nat
    BY DEF InLine
  <1>2. td[w[i]].index \in Nat
    BY <1>1 DEF TypeOK
  <1> DEFINE u == td[w[i]].urb
             k == td[w[i]].index
  <1>3. u \in Urbs /\ k + 1 \in 1 .. Filled(u) /\ priv[u][k + 1] = w[i]
    BY DEF Placed
  <1> HIDE DEF u, k
  <1>4. Filled(u) \in Nat /\ Filled(u) <= Len(priv[u]) /\ DOMAIN priv[u] = 1 .. Len(priv[u])
        /\ Len(priv[u]) \in Nat
    BY <1>3, FilledFits
  <1>5. k \in Nat
    BY <1>2 DEF k
  <1>6. k < Filled(u) /\ k + 1 \in DOMAIN priv[u]
    BY <1>3, <1>4, <1>5
  <1>7. w[i] # hwTailP
    BY <1>3, <1>6 DEF Tables
  <1>8. w[i] # 0
    BY <1>1, TdAssumption
  <1>9. QED BY <1>1, <1>3, <1>5, <1>6, <1>7, <1>8 DEF u, k

(* No TD stands in the line twice.                                         *)
LEMMA LineInjective ==
  ASSUME TypeOK, NEW w, NEW n, NEW x, NEW y, NEW z,
         InLine(w, n, x, y, z), Ordered(w, n),
         NEW i \in 1 .. n, NEW j \in 1 .. n, w[i] = w[j]
  PROVE  i = j
  <1>1. w[i] \in Addresses /\ n \in Nat
    BY DEF InLine
  <1>2. td[w[i]].index \in Nat
    BY <1>1 DEF TypeOK
  <1>3. ~ (i < j) /\ ~ (j < i)
    BY <1>2 DEF Ordered
  <1>4. QED BY <1>1, <1>3

(* The chains are the parts of the line.                                   *)
LEMMA ChainsAre ==
  ASSUME TypeOK, Tables, NEW w, NEW n, NEW x, NEW y, NEW z,
         InLine(w, n, x, y, z), Linked(w, n, x, y, z), Placed(w, n), Ordered(w, n)
  PROVE  /\ Queue = [i \in 1 .. n - z |-> w[z + i]]
         /\ HcDone = [i \in 1 .. z - y |-> w[z + 1 - i]]
         /\ HccaDone = [i \in 1 .. y - x |-> w[y + 1 - i]]
         /\ TdList = [i \in 1 .. x |-> w[i]]
  <1>1. /\ n \in Nat /\ x \in Nat /\ y \in Nat /\ z \in Nat
        /\ x <= y /\ y <= z /\ z <= n
        /\ w \in [1 .. n -> Addresses]
    BY DEF InLine
  <1>2. \A i \in 1 .. n : w[i] \in Addresses /\ w[i] # hwTailP /\ w[i] # 0
    BY LineTds
  <1>3. \A i, j \in 1 .. n : w[i] = w[j] => i = j
    BY LineInjective
  <1>4. hwTailP \in Addresses /\ 0 \notin Addresses
    BY TdAssumption DEF TypeOK
  <1>5. /\ \A i \in 1 .. n : NextTD[w[i]] = td[w[i]].NextTD
        /\ \A i \in 1 .. n : next_dl[w[i]] = td[w[i]].next_dl
    BY <1>2 DEF NextTD, next_dl
  <1>6. Queue = [i \in 1 .. n - z |-> w[z + i]]
    <2> DEFINE s == [i \in 1 .. n - z |-> w[z + i]]
    <2>1. n - z \in Nat /\ s \in [1 .. n - z -> Addresses]
        /\ \A i \in 1 .. n - z : s[i] # hwTailP /\ s[i] # 0
      BY <1>1, <1>2
    <2>2. \A i, j \in 1 .. n - z : s[i] = s[j] => i = j
      <3>1. \A i \in 1 .. n - z : s[i] = w[z + i] /\ z + i \in 1 .. n
        BY <1>1
      <3> HIDE DEF s
      <3>2. SUFFICES ASSUME NEW i \in 1 .. n - z, NEW j \in 1 .. n - z, s[i] = s[j]
                     PROVE  i = j
        OBVIOUS
      <3>3. z + i = z + j
        BY <1>3, <3>1, <3>2
      <3>4. QED BY <1>1, <3>3
    <2>3. \A i \in 1 .. n - z : NextTD[s[i]] = IF i < n - z THEN s[i + 1] ELSE hwTailP
      <3>1. ASSUME NEW i \in 1 .. n - z
            PROVE  NextTD[s[i]] = IF i < n - z THEN s[i + 1] ELSE hwTailP
        <4>1. z + i \in z + 1 .. n /\ z + i \in 1 .. n /\ s[i] = w[z + i]
          BY <1>1
        <4>2. NextTD[w[z + i]] = IF z + i < n THEN w[z + i + 1] ELSE hwTailP
          BY <1>5, <4>1 DEF Linked
        <4>3. i < n - z => s[i + 1] = w[z + i + 1]
          BY <1>1
        <4>4. z + i < n <=> i < n - z
          BY <1>1
        <4> HIDE DEF s
        <4>5. QED BY <4>1, <4>2, <4>3, <4>4
      <3>2. QED BY <3>1
    <2>4. hwHeadP = IF n - z > 0 THEN s[1] ELSE hwTailP
      BY <1>1 DEF Linked
    <2> HIDE DEF s
    <2> DEFINE m == n - z
    <2>7. m \in Nat /\ m = n - z
      BY <2>1
    <2> HIDE DEF m
    <2>8. /\ \A i \in 1 .. m - 1 : NextTD[s[i]] = s[i + 1]
          /\ m > 0 => hwHeadP = s[1] /\ (NextTD[s[m]] = hwTailP \/ NextTD[s[m]] = 0)
          /\ m = 0 => hwHeadP = hwTailP \/ hwHeadP = 0
      BY <2>3, <2>4, <2>7
    <2>9. /\ s \in [1 .. m -> Addresses]
          /\ \A i \in 1 .. m : s[i] # hwTailP
          /\ \A i, j \in 1 .. m : s[i] = s[j] => i = j
          /\ hwTailP \in Addresses \cup {0}
      BY <1>4, <2>1, <2>2, <2>7, TdAssumption
    <2>5. Leads(hwHeadP, hwTailP, NextTD, m, s)
      BY <2>7, <2>8, <2>9 DEF Leads
    <2>6. Chain(hwHeadP, hwTailP, NextTD) = s
      BY <2>5, ChainIs
    <2>10. QED BY <2>6 DEF Queue, s
  <1>7. HcDone = [i \in 1 .. z - y |-> w[z + 1 - i]]
    <2> DEFINE s == [i \in 1 .. z - y |-> w[z + 1 - i]]
    <2>1. z - y \in Nat /\ s \in [1 .. z - y -> Addresses]
      BY <1>1, <1>2
    <2>2. \A i, j \in 1 .. z - y : s[i] = s[j] => i = j
      <3>1. \A i \in 1 .. z - y : s[i] = w[z + 1 - i] /\ z + 1 - i \in 1 .. n
        BY <1>1
      <3> HIDE DEF s
      <3>2. SUFFICES ASSUME NEW i \in 1 .. z - y, NEW j \in 1 .. z - y, s[i] = s[j]
                     PROVE  i = j
        OBVIOUS
      <3>3. z + 1 - i = z + 1 - j
        BY <1>3, <3>1, <3>2
      <3>4. QED BY <1>1, <3>3
    <2>3. \A i \in 1 .. z - y : NextTD[s[i]] = IF i < z - y THEN s[i + 1] ELSE 0
      <3>1. ASSUME NEW i \in 1 .. z - y
            PROVE  NextTD[s[i]] = IF i < z - y THEN s[i + 1] ELSE 0
        <4>1. PICK k \in x + 1 .. z : k = z + 1 - i /\ k \in 1 .. n
          BY <1>1
        <4>2. NextTD[w[k]] = IF k = x + 1 \/ k = y + 1 THEN 0 ELSE w[k - 1]
          BY <1>5, <4>1 DEF Linked
        <4>3. s[i] = w[k] /\ (i < z - y => s[i + 1] = w[k - 1])
          BY <1>1, <4>1
        <4>4. k = x + 1 \/ k = y + 1 <=> ~ (i < z - y)
          BY <1>1, <4>1
        <4> HIDE DEF s
        <4>5. QED BY <4>2, <4>3, <4>4
      <3>2. QED BY <3>1
    <2>4. hc_done = IF z - y > 0 THEN s[1] ELSE 0
      BY <1>1 DEF Linked
    <2> HIDE DEF s
    <2> DEFINE m == z - y
    <2>7. m \in Nat /\ m = z - y
      BY <2>1
    <2> HIDE DEF m
    <2>8. /\ \A i \in 1 .. m - 1 : NextTD[s[i]] = s[i + 1]
          /\ m > 0 => hc_done = s[1] /\ (NextTD[s[m]] = 0 \/ NextTD[s[m]] = 0)
          /\ m = 0 => hc_done = 0 \/ hc_done = 0
      BY <2>3, <2>4, <2>7
    <2>9. /\ s \in [1 .. m -> Addresses]
          /\ \A i \in 1 .. m : s[i] # 0
          /\ \A i, j \in 1 .. m : s[i] = s[j] => i = j
          /\ 0 \in Addresses \cup {0}
      BY <1>4, <2>1, <2>2, <2>7, TdAssumption
    <2>5. Leads(hc_done, 0, NextTD, m, s)
      BY <2>7, <2>8, <2>9 DEF Leads
    <2>6. Chain(hc_done, 0, NextTD) = s
      BY <2>5, ChainIs
    <2>10. QED BY <2>6 DEF HcDone, s
  <1>8. HccaDone = [i \in 1 .. y - x |-> w[y + 1 - i]]
    <2> DEFINE s == [i \in 1 .. y - x |-> w[y + 1 - i]]
    <2>1. y - x \in Nat /\ s \in [1 .. y - x -> Addresses]
      BY <1>1, <1>2
    <2>2. \A i, j \in 1 .. y - x : s[i] = s[j] => i = j
      <3>1. \A i \in 1 .. y - x : s[i] = w[y + 1 - i] /\ y + 1 - i \in 1 .. n
        BY <1>1
      <3> HIDE DEF s
      <3>2. SUFFICES ASSUME NEW i \in 1 .. y - x, NEW j \in 1 .. y - x, s[i] = s[j]
                     PROVE  i = j
        OBVIOUS
      <3>3. y + 1 - i = y + 1 - j
        BY <1>3, <3>1, <3>2
      <3>4. QED BY <1>1, <3>3
    <2>3. \A i \in 1 .. y - x : NextTD[s[i]] = IF i < y - x THEN s[i + 1] ELSE 0
      <3>1. ASSUME NEW i \in 1 .. y - x
            PROVE  NextTD[s[i]] = IF i < y - x THEN s[i + 1] ELSE 0
        <4>1. PICK k \in x + 1 .. z : k = y + 1 - i /\ k \in 1 .. n
          BY <1>1
        <4>2. NextTD[w[k]] = IF k = x + 1 \/ k = y + 1 THEN 0 ELSE w[k - 1]
          BY <1>5, <4>1 DEF Linked
        <4>3. s[i] = w[k] /\ (i < y - x => s[i + 1] = w[k - 1])
          BY <1>1, <4>1
        <4>4. k = x + 1 \/ k = y + 1 <=> ~ (i < y - x)
          BY <1>1, <4>1
        <4> HIDE DEF s
        <4>5. QED BY <4>2, <4>3, <4>4
      <3>2. QED BY <3>1
    <2>4. done_head = IF y - x > 0 THEN s[1] ELSE 0
      BY <1>1 DEF Linked
    <2> HIDE DEF s
    <2> DEFINE m == y - x
    <2>7. m \in Nat /\ m = y - x
      BY <2>1
    <2> HIDE DEF m
    <2>8. /\ \A i \in 1 .. m - 1 : NextTD[s[i]] = s[i + 1]
          /\ m > 0 => done_head = s[1] /\ (NextTD[s[m]] = 0 \/ NextTD[s[m]] = 0)
          /\ m = 0 => done_head = 0 \/ done_head = 0
      BY <2>3, <2>4, <2>7
    <2>9. /\ s \in [1 .. m -> Addresses]
          /\ \A i \in 1 .. m : s[i] # 0
          /\ \A i, j \in 1 .. m : s[i] = s[j] => i = j
          /\ 0 \in Addresses \cup {0}
      BY <1>4, <2>1, <2>2, <2>7, TdAssumption
    <2>5. Leads(done_head, 0, NextTD, m, s)
      BY <2>7, <2>8, <2>9 DEF Leads
    <2>6. Chain(done_head, 0, NextTD) = s
      BY <2>5, ChainIs
    <2>10. QED BY <2>6 DEF HccaDone, s
  <1>9. TdList = [i \in 1 .. x |-> w[i]]
    <2> DEFINE s == [i \in 1 .. x |-> w[i]]
    <2>1. x \in Nat /\ s \in [1 .. x -> Addresses]
      BY <1>1, <1>2
    <2>2. \A i, j \in 1 .. x : s[i] = s[j] => i = j
      BY <1>1, <1>3
    <2>3. \A i \in 1 .. x : next_dl[s[i]] = IF i < x THEN s[i + 1] ELSE 0
      BY <1>1, <1>5 DEF Linked
    <2>4. td_list = IF x > 0 THEN s[1] ELSE 0
      BY <1>1 DEF Linked
    <2> HIDE DEF s
    <2> DEFINE m == x
    <2>7. m \in Nat /\ m = x
      BY <2>1
    <2> HIDE DEF m
    <2>8. /\ \A i \in 1 .. m - 1 : next_dl[s[i]] = s[i + 1]
          /\ m > 0 => td_list = s[1] /\ (next_dl[s[m]] = 0 \/ next_dl[s[m]] = 0)
          /\ m = 0 => td_list = 0 \/ td_list = 0
      BY <2>3, <2>4, <2>7
    <2>9. /\ s \in [1 .. m -> Addresses]
          /\ \A i \in 1 .. m : s[i] # 0
          /\ \A i, j \in 1 .. m : s[i] = s[j] => i = j
          /\ 0 \in Addresses \cup {0}
      BY <1>4, <2>1, <2>2, <2>7, TdAssumption
    <2>5. Leads(td_list, 0, next_dl, m, s)
      BY <2>7, <2>8, <2>9 DEF Leads
    <2>6. Chain(td_list, 0, next_dl) = s
      BY <2>5, ChainIs
    <2>10. QED BY <2>6 DEF TdList, s
  <1>10. QED BY <1>6, <1>7, <1>8, <1>9

-----------------------------------------------------------------------------
(* What the invariant says of the chains.                                  *)

(* The queue is the end of the line, so its TDs are in order and it has no *)
(* gap.                                                                    *)
LEMMA InOrderHolds ==
  ASSUME ShortControl, QueueInv
  PROVE  QueueInOrder
  <1> PICK w, n, x, y, z : Line(w, n, x, y, z)
    BY DEF QueueInv
  <1>1. /\ TypeOK /\ Tables
        /\ InLine(w, n, x, y, z) /\ Linked(w, n, x, y, z)
        /\ Placed(w, n) /\ Ordered(w, n) /\ Served(w, n, z)
    BY DEF QueueInv, Line
  <1>2. Queue = [i \in 1 .. n - z |-> w[z + i]]
    BY <1>1, ChainsAre
  <1>3. /\ n \in Nat /\ z \in Nat /\ z <= n
        /\ w \in [1 .. n -> Addresses]
    BY <1>1 DEF InLine
  <1>4. Len(Queue) = n - z /\ n - z \in Nat
    BY <1>2, <1>3
  <1>5. \A i \in 1 .. n - z : Queue[i] = w[z + i]
    BY <1>2
  <1>6. {hwHeadP, hwTailP} \subseteq Addresses
    BY <1>1, <1>3 DEF TypeOK, Linked
  <1>7. Begins(z) <= z + 1 /\ Begins(z) \in Nat
    BY <1>1, <1>3 DEF Begins, TypeOK
  <1>8. ASSUME NEW i \in 1 .. Len(Queue) - 1
        PROVE  Successor(td[Queue[i]], td[Queue[i + 1]])
    <2>1. /\ Queue[i] = w[z + i] /\ Queue[i + 1] = w[z + i + 1]
          /\ z + i \in 1 .. n - 1 /\ Begins(z) <= z + i
      BY <1>3, <1>4, <1>5, <1>7
    <2>2. QED BY <1>1, <2>1 DEF Served
  <1>9. ASSUME Queue # <<>>
        PROVE  /\ td[Last(Queue)].NextTD = hwTailP
               /\ td[Last(Queue)].index =
                    IF td[Last(Queue)].urb = filling THEN cnt - 1
                    ELSE Len(Contents(td[Last(Queue)].urb)) - 1
    <2>1. z < n
      BY <1>2, <1>3, <1>9
    <2>2. Last(Queue) = w[n] /\ n \in z + 1 .. n /\ n \in 1 .. n
      <3>1. Last(Queue) = Queue[n - z] /\ n - z \in 1 .. n - z /\ z + (n - z) = n
        BY <1>3, <1>4, <2>1 DEF Last
      <3>2. QED BY <1>3, <1>5, <2>1, <3>1
    <2> DEFINE t == td[w[n]]
    <2>3. t.NextTD = hwTailP
      BY <1>1, <2>2 DEF Linked
    <2>4. t.index = Filled(t.urb) - 1
      BY <1>1, <1>7, <2>1, <1>3 DEF Served
    <2>5. t.urb \in Urbs /\ t.index \in Nat
      BY <1>1, <2>2, LineTds
    <2> HIDE DEF t
    <2>6. t.urb # filling => Filled(t.urb) = Len(Contents(t.urb))
      <3>1. Len(Contents(t.urb)) = Size(t.urb)
        BY <1>1, <2>5, ContentsLen
      <3>2. Filled(t.urb) \in Nat /\ (t.urb # filling => Filled(t.urb) = Len(priv[t.urb]))
        BY <1>1, <2>5, FilledFits DEF Filled
      <3>3. Len(priv[t.urb]) = 0 \/ Len(priv[t.urb]) = Size(t.urb)
        BY <1>1, <2>5 DEF Tables
      <3>4. QED BY <2>4, <2>5, <3>1, <3>2, <3>3
    <2>7. t.urb = filling => Filled(t.urb) = cnt
      BY DEF Filled
    <2>8. Last(Queue) = w[n]
      BY <2>2
    <2>9. QED BY <2>3, <2>4, <2>6, <2>7, <2>8 DEF t
  <1>10. QED BY <1>6, <1>8, <1>9 DEF QueueInOrder

(* The TDs of an urb can be counted.                                       *)
LEMMA OfFinite ==
  ASSUME NEW w, NEW n, NEW x, NEW y, NEW z, InLine(w, n, x, y, z), NEW u
  PROVE  IsFiniteSet(Of(w, n, u)) /\ Cardinality(Of(w, n, u)) \in Nat
         /\ Of(w, n, u) \subseteq Addresses
  <1>1. Of(w, n, u) \subseteq Addresses
    BY DEF Of, InLine
  <1>2. QED BY <1>1, TdAssumption, FS_Subset, FS_CardinalityType

(* Every list is a part of the line, whose TDs are in the tables of the    *)
(* urbs, so it leads to no TD that is free.                                *)
LEMMA OwnedHolds ==
  ASSUME QueueInv
  PROVE  TdsOwned
  <1> PICK w, n, x, y, z : Line(w, n, x, y, z)
    BY DEF QueueInv
  <1>1. /\ TypeOK /\ Tables
        /\ InLine(w, n, x, y, z) /\ Linked(w, n, x, y, z)
        /\ Placed(w, n) /\ Ordered(w, n) /\ Counted(w, n)
    BY DEF QueueInv, Line
  <1>2. ASSUME NEW u \in Urbs
        PROVE  hwTailP \notin Range(priv[u]) /\ td_cnt[u] <= Len(priv[u])
    <2>1. hwTailP \notin Range(priv[u])
      BY <1>1 DEF Tables, Range
    <2>2. Filled(u) \in Nat /\ Filled(u) <= Len(priv[u]) /\ Len(priv[u]) \in Nat
      BY <1>1, FilledFits
    <2>3. Cardinality(Of(w, n, u)) \in Nat
      BY <1>1, OfFinite
    <2>4. td_cnt[u] \in Nat /\ Cardinality(Of(w, n, u)) + td_cnt[u] = Filled(u)
      BY <1>1 DEF TypeOK, Counted
    <2>5. QED BY <2>1, <2>2, <2>3, <2>4
  <1>3. ASSUME NEW i \in 1 .. n PROVE w[i] \in allocated
    <2>1. /\ td[w[i]].urb \in Urbs
          /\ td[w[i]].index + 1 \in DOMAIN priv[td[w[i]].urb]
          /\ priv[td[w[i]].urb][td[w[i]].index + 1] = w[i]
      BY <1>1, LineTds
    <2>2. w[i] \in Range(priv[td[w[i]].urb])
      BY <2>1, Zenon DEF Range
    <2>3. QED BY <1>1, <2>1, <2>2 DEF Tables
  <1>4. /\ Queue = [i \in 1 .. n - z |-> w[z + i]]
        /\ HcDone = [i \in 1 .. z - y |-> w[z + 1 - i]]
        /\ HccaDone = [i \in 1 .. y - x |-> w[y + 1 - i]]
        /\ TdList = [i \in 1 .. x |-> w[i]]
    BY <1>1, ChainsAre
  <1>5. /\ n \in Nat /\ x \in Nat /\ y \in Nat /\ z \in Nat
        /\ x <= y /\ y <= z /\ z <= n /\ w \in [1 .. n -> Addresses]
    BY <1>1 DEF InLine
  <1>6. /\ Queue \in Seq(allocated) /\ HcDone \in Seq(allocated)
        /\ HccaDone \in Seq(allocated) /\ TdList \in Seq(allocated)
    <2>1. n - z \in Nat /\ \A i \in 1 .. n - z : w[z + i] \in allocated
      BY <1>3, <1>5
    <2>2. z - y \in Nat /\ \A i \in 1 .. z - y : w[z + 1 - i] \in allocated
      BY <1>3, <1>5
    <2>3. y - x \in Nat /\ \A i \in 1 .. y - x : w[y + 1 - i] \in allocated
      BY <1>3, <1>5
    <2>4. \A i \in 1 .. x : w[i] \in allocated
      BY <1>3, <1>5
    <2>5. QED BY <1>4, <1>5, <2>1, <2>2, <2>3, <2>4
  <1>7. Queue \o HcDone \o HccaDone \o TdList \in Seq(allocated)
    BY <1>6, ConcatProperties
  <1>8. Range(Queue \o HcDone \o HccaDone \o TdList) \subseteq allocated
    BY <1>7 DEF Range
  <1>9. QED BY <1>1, <1>2, <1>8 DEF TdsOwned, Tables

-----------------------------------------------------------------------------
(* TDs of one urb, b .. e of the line, are taken out of it.                *)

(* Where a TD stood before.                                                *)
Old(b, e, i) == IF i < b THEN i ELSE i + (e - b + 1)

(* The line without them.                                                  *)
Cut(w, n, b, e) == [i \in 1 .. n - (e - b + 1) |-> w[Old(b, e, i)]]

(* The places are in the line, and c is what remains, of length m.         *)
Block(w, n, b, e, m, c) ==
  n \in Nat /\ b \in 1 .. n /\ e \in b .. n /\ m = n - (e - b + 1) /\ c = Cut(w, n, b, e)

(* Exactly the other TDs remain, in the same order.                        *)
LEMMA CutIs ==
  ASSUME NEW w, NEW n, NEW x, NEW y, NEW z, InLine(w, n, x, y, z),
         NEW b, NEW e, NEW m, NEW c, Block(w, n, b, e, m, c)
  PROVE  /\ m \in Nat /\ c \in [1 .. m -> Addresses]
         /\ \A i \in 1 .. m : /\ c[i] = w[Old(b, e, i)]
                              /\ Old(b, e, i) \in 1 .. n /\ Old(b, e, i) \notin b .. e
         /\ \A j \in 1 .. n : j \notin b .. e => \E i \in 1 .. m : j = Old(b, e, i)
         /\ \A i, j \in 1 .. m : i < j => Old(b, e, i) < Old(b, e, j)
  <1>0. /\ n \in Nat /\ w \in [1 .. n -> Addresses] /\ b \in 1 .. n /\ e \in b .. n
        /\ m = n - (e - b + 1) /\ c = Cut(w, n, b, e)
    BY DEF InLine, Block
  <1> USE <1>0
  <1>1. m \in Nat
    OBVIOUS
  <1>2. \A i \in 1 .. m : Old(b, e, i) \in 1 .. n /\ Old(b, e, i) \notin b .. e
    BY DEF Old
  <1>3. \A i \in 1 .. m : c[i] = w[Old(b, e, i)]
    BY DEF Cut
  <1>4. c \in [1 .. m -> Addresses]
    BY <1>2 DEF Cut
  <1>5. ASSUME NEW j \in 1 .. n, j \notin b .. e
        PROVE  \E i \in 1 .. m : j = Old(b, e, i)
    <2>1. CASE j < b
      <3>1. j \in 1 .. m /\ j = Old(b, e, j)
        BY <2>1 DEF Old
      <3>2. QED BY <3>1
    <2>2. CASE j > e
      <3>1. j - (e - b + 1) \in 1 .. m /\ j = Old(b, e, j - (e - b + 1))
        BY <2>2 DEF Old
      <3>2. QED BY <3>1
    <2>3. QED BY <1>5, <2>1, <2>2
  <1>6. \A i, j \in 1 .. m : i < j => Old(b, e, i) < Old(b, e, j)
    BY DEF Old
  <1>7. QED BY <1>1, <1>2, <1>3, <1>4, <1>5, <1>6

(* So many TDs of the urb are less.                                        *)
IsOf(w, b, e, v) == \A i \in b .. e : td[w[i]].urb = v

(* The TDs taken out.                                                      *)
Part(w, b, e) == { w[i] : i \in b .. e }

(* They are counted once each among the TDs of their urb.                  *)
LEMMA CutCount ==
  ASSUME TypeOK, NEW w, NEW n, NEW x, NEW y, NEW z,
         InLine(w, n, x, y, z), Ordered(w, n),
         NEW b, NEW e, NEW m, NEW c, Block(w, n, b, e, m, c), NEW v, IsOf(w, b, e, v)
  PROVE  /\ Part(w, b, e) \subseteq Of(w, n, v)
         /\ Cardinality(Part(w, b, e)) = e - b + 1
         /\ Cardinality(Of(w, n, v) \ Part(w, b, e)) = Cardinality(Of(w, n, v)) - (e - b + 1)
  <1>0. /\ b \in 1 .. n /\ e \in b .. n /\ \A i \in b .. e : td[w[i]].urb = v
    BY DEF Block, IsOf
  <1> USE <1>0
  <1> DEFINE P == { w[i] : i \in b .. e }
             f == [i \in b .. e |-> w[i]]
  <1>1. n \in Nat /\ w \in [1 .. n -> Addresses]
    BY DEF InLine
  <1>2. P \subseteq Of(w, n, v)
    <2>1. \A i \in b .. e : i \in 1 .. n
      BY <1>1
    <2>2. QED BY <2>1 DEF Of
  <1>3. f \in Bijection(b .. e, P)
    <2>1. \A i, j \in b .. e : w[i] = w[j] => i = j
      <3>1. \A i \in b .. e : i \in 1 .. n
        BY <1>1
      <3>2. QED BY <3>1, LineInjective
    <2>2. QED BY <2>1 DEF Bijection, Injection, Surjection, IsInjective
  <1>4. IsFiniteSet(b .. e) /\ Cardinality(b .. e) = e - b + 1
    BY FS_Interval
  <1>5. IsFiniteSet(P) /\ Cardinality(P) = e - b + 1
    BY <1>3, <1>4, FS_Bijection DEF ExistsBijection
  <1>6. IsFiniteSet(Of(w, n, v)) /\ Cardinality(Of(w, n, v)) \in Nat
    BY OfFinite
  <1> HIDE DEF P
  <1>7. Of(w, n, v) \cap P = P
    BY <1>2
  <1>8. Cardinality(Of(w, n, v) \ P) = Cardinality(Of(w, n, v)) - Cardinality(Of(w, n, v) \cap P)
    BY <1>6, FS_Difference
  <1>9. QED BY <1>2, <1>5, <1>7, <1>8 DEF P, Part

-----------------------------------------------------------------------------
(* Every action keeps the invariant.                                       *)

(* The sizes and the contents of TDs depend on the endpoint alone.         *)
LEMMA SetupKept ==
  ASSUME UNCHANGED setup
  PROVE  \A u : Contents(u)' = Contents(u) /\ Size(u)' = Size(u)
  <1>1. type' = type /\ len' = len
    BY DEF setup
  <1>2. ASSUME NEW u PROVE Contents(u)' = Contents(u)
    BY <1>1 DEF Contents, BulkTds, Pieces, Bytes
  <1>3. ASSUME NEW u PROVE Size(u)' = Size(u)
    BY <1>1 DEF Size, Pieces
  <1>4. QED BY <1>2, <1>3

(* No TD goes to another place, and no count changes.                      *)
LEMMA LineKept ==
  ASSUME TypeOK, Tables, NEW w, NEW n, NEW x, NEW y, NEW z, InLine(w, n, x, y, z),
         Placed(w, n), Ordered(w, n), Counted(w, n),
         \A i \in 1 .. n : /\ td'[w[i]].urb = td[w[i]].urb
                           /\ td'[w[i]].index = td[w[i]].index,
         td_cnt' = td_cnt, \A u \in Urbs : Filled(u)' = Filled(u),
         \A u \in Urbs : Filled(u) > 0 => priv'[u] = priv[u]
  PROVE  Placed(w, n)' /\ Ordered(w, n)' /\ Counted(w, n)'
  <1>1. ASSUME NEW i \in 1 .. n
        PROVE  /\ td'[w[i]].urb \in Urbs
               /\ td'[w[i]].index + 1 \in 1 .. (Filled(td[w[i]].urb))'
               /\ priv'[td'[w[i]].urb][td'[w[i]].index + 1] = w[i]
    <2>1. PICK u \in Urbs, k \in Nat :
             /\ u = td[w[i]].urb /\ k = td[w[i]].index /\ k < Filled(u)
             /\ k + 1 \in 1 .. Filled(u) /\ priv[u][k + 1] = w[i]
      BY LineTds DEF Placed
    <2>2. td'[w[i]].urb = u /\ td'[w[i]].index = k
      BY <2>1
    <2>3. Filled(u) \in Nat
      BY <2>1, FilledFits
    <2>4. Filled(u) > 0
      BY <2>1, <2>3
    <2>6. (Filled(td[w[i]].urb))' = Filled(u)'
      BY <2>2 DEF Filled
    <2>5. QED BY <2>1, <2>2, <2>4, <2>6
  <1>2. Placed(w, n)'
    BY <1>1 DEF Placed
  <1>3. Ordered(w, n)'
    BY DEF Ordered
  <1>4. \A u \in Urbs : Of(w, n, u)' = Of(w, n, u)
    BY DEF Of
  <1>5. Counted(w, n)'
    BY <1>4 DEF Counted
  <1>6. QED BY <1>2, <1>3, <1>5

(* WriteBack: the controller's done list becomes the one in the hcca.      *)
LEMMA WriteBackStep ==
  ASSUME TypeOK, Tables, NEW w, NEW n, NEW x, NEW y, NEW z, Line(w, n, x, y, z),
         WriteBack
  PROVE  TypeOK' /\ Tables' /\ Line(w, n, x, z, z)'
  <1>1. /\ InLine(w, n, x, y, z) /\ Linked(w, n, x, y, z) /\ Placed(w, n)
        /\ Ordered(w, n) /\ Counted(w, n) /\ Served(w, n, z) /\ Halts(w, x, z)
    BY DEF Line
  <1>2. /\ n \in Nat /\ x \in Nat /\ y \in Nat /\ z \in Nat
        /\ x <= y /\ y <= z /\ z <= n /\ w \in [1 .. n -> Addresses]
    BY <1>1 DEF InLine
  <1>3. /\ UNCHANGED <<type, len, td, allocated, hwHeadP, hwTailP, halted, td_list, priv,
                       td_cnt, urb_del, cnt, filling, actual_length, moved>>
        /\ hc_done # 0 /\ done_head = 0 /\ done_head' = hc_done /\ hc_done' = 0
    BY DEF WriteBack, setup, memory, ed, urbs, submission, results
  <1>11. \A u : Contents(u)' = Contents(u) /\ Size(u)' = Size(u)
    BY SetupKept DEF WriteBack
  <1>4. TypeOK' /\ Tables'
    <2>1. TypeOK'
      BY <1>3 DEF TypeOK
    <2>2. Tables'
      BY <1>3, <1>11 DEF Tables
    <2>3. QED BY <2>1, <2>2
  <1>5. y = x /\ z > y
    <2>1. y > x => w[y] # 0
      BY <1>1, <1>2, LineTds
    <2>2. QED BY <1>1, <1>2, <1>3, <2>1 DEF Linked
  <1>6. InLine(w, n, x, z, z)
    BY <1>2, <1>5 DEF InLine
  <1>7. Linked(w, n, x, z, z)'
    <2>1. done_head' = w[z]
      BY <1>1, <1>3, <1>5 DEF Linked
    <2>2. \A i \in x + 1 .. z :
            td'[w[i]].NextTD = IF i = x + 1 \/ i = z + 1 THEN 0 ELSE w[i - 1]
      <3>1. ASSUME NEW i \in x + 1 .. z
            PROVE  td'[w[i]].NextTD = IF i = x + 1 \/ i = z + 1 THEN 0 ELSE w[i - 1]
        <4>1. td[w[i]].NextTD = IF i = x + 1 \/ i = y + 1 THEN 0 ELSE w[i - 1]
          BY <1>1 DEF Linked
        <4>2. i # z + 1 /\ (i = x + 1 <=> i = y + 1)
          BY <1>2, <1>5
        <4>3. QED BY <1>3, <4>1, <4>2
      <3>2. QED BY <3>1
    <2>3. QED BY <1>1, <1>2, <1>3, <1>5, <2>1, <2>2 DEF Linked
  <1>8. Placed(w, n)' /\ Ordered(w, n)' /\ Counted(w, n)'
    <2>1. \A u \in Urbs : Filled(u)' = Filled(u)
      BY <1>3 DEF Filled
    <2>2. QED BY <1>1, <1>3, <2>1, LineKept
  <1>9. Served(w, n, z)' /\ Halts(w, x, z)'
    BY <1>1, <1>3, <1>11 DEF Served, Halts, Begins, Filled, Successor
  <1>10. QED BY <1>4, <1>6, <1>7, <1>8, <1>9 DEF Line, InLine

(* td_submit_urb_end: all TDs of the urb are filled.                       *)
LEMMA EndStep ==
  ASSUME ShortControl, TypeOK, Tables, NEW w, NEW n, NEW x, NEW y, NEW z,
         Line(w, n, x, y, z), td_submit_urb_end
  PROVE  TypeOK' /\ Tables' /\ Line(w, n, x, y, z)'
  <1>1. /\ InLine(w, n, x, y, z) /\ Linked(w, n, x, y, z) /\ Placed(w, n)
        /\ Ordered(w, n) /\ Counted(w, n) /\ Served(w, n, z) /\ Halts(w, x, z)
    BY DEF Line
  <1>2. /\ UNCHANGED <<type, len, td, allocated, hwHeadP, hwTailP, halted, hc_done,
                       done_head, td_list, priv, td_cnt, urb_del, actual_length, moved>>
        /\ filling # NoUrb /\ cnt = Len(Contents(filling))
        /\ filling' = NoUrb /\ cnt' = 0
    BY DEF td_submit_urb_end, setup, memory, ed, lists, urbs, results
  <1>3. \A u : Contents(u)' = Contents(u) /\ Size(u)' = Size(u)
    BY SetupKept DEF td_submit_urb_end
  <1>4. TypeOK'
    BY <1>2 DEF TypeOK
  <1>5. Tables'
    BY <1>2, <1>3 DEF Tables
  <1>6. \A u \in Urbs : Filled(u)' = Filled(u)
    <2>1. filling \in Urbs
      BY <1>2 DEF TypeOK
    <2>2. cnt = Size(filling) /\ Size(filling) = Len(priv[filling])
      <3>1. Len(Contents(filling)) = Size(filling)
        BY <2>1, ContentsLen
      <3>2. Len(priv[filling]) # 0
        BY <1>2, <2>1 DEF Tables, TypeOK
      <3>3. QED BY <1>2, <2>1, <3>1, <3>2 DEF Tables
    <2>3. QED BY <1>2, <2>1, <2>2, TdAssumption DEF Filled
  <1>7. Placed(w, n)' /\ Ordered(w, n)' /\ Counted(w, n)'
    BY <1>1, <1>2, <1>6, LineKept
  <1>8. InLine(w, n, x, y, z)' /\ Linked(w, n, x, y, z)' /\ Halts(w, x, z)'
    BY <1>1, <1>2 DEF InLine, Linked, Halts
  <1>9. Served(w, n, z)'
    <2>1. \A i \in 1 .. n - 1 : Begins(z)' <= i => Successor(td[w[i]], td[w[i + 1]])'
      BY <1>1, <1>2, <1>3 DEF Served, Begins, Successor
    <2>2. Begins(z)' = Begins(z)
      BY <1>2 DEF Begins
    <2>3. Begins(z) <= n => td'[w[n]].index = (Filled(td[w[n]].urb) - 1)'
      <3> SUFFICES ASSUME Begins(z) <= n PROVE td'[w[n]].index = (Filled(td[w[n]].urb) - 1)'
        OBVIOUS
      <3>1. n \in 1 .. n
        BY <1>1 DEF InLine, Begins, Halts
      <3>2. PICK u \in Urbs : u = td[w[n]].urb /\ td[w[n]].index = Filled(u) - 1
        BY <1>1, <3>1 DEF Placed, Served
      <3>3. QED BY <1>2, <1>6, <3>2 DEF Filled
    <2>4. QED BY <1>2, <2>1, <2>2, <2>3 DEF Served
  <1>10. QED BY <1>4, <1>5, <1>7, <1>8, <1>9 DEF Line

(* There is room for the TDs of an urb: they are taken.                    *)
LEMMA NewIs ==
  ASSUME TypeOK, NEW k \in Nat, Cardinality(Addresses \ allocated) >= k
  PROVE  /\ New(k) \in [1 .. k -> Addresses \ allocated]
         /\ \A i, j \in 1 .. k : New(k)[i] = New(k)[j] => i = j
  <1> DEFINE F == Addresses \ allocated
  <1>1. IsFiniteSet(F) /\ Cardinality(F) \in Nat
    BY TdAssumption, FS_Subset, FS_CardinalityType
  <1>2. PICK f : f \in Bijection(1 .. Cardinality(F), F)
    BY <1>1, FS_CardinalityType DEF ExistsBijection
  <1>3. /\ f \in [1 .. Cardinality(F) -> F]
        /\ \A i, j \in 1 .. Cardinality(F) : f[i] = f[j] => i = j
    BY <1>2 DEF Bijection, Injection, IsInjective
  <1> DEFINE s == [i \in 1 .. k |-> f[i]]
  <1>4. \A i \in 1 .. k : i \in 1 .. Cardinality(F)
    BY <1>1
  <1>5. s \in [1 .. k -> F] /\ IsInjective(s)
    BY <1>3, <1>4 DEF IsInjective
  <1>6. New(k) \in [1 .. k -> F] /\ IsInjective(New(k))
    <2> HIDE DEF s, F
    <2>1. \E r \in [1 .. k -> F] : IsInjective(r)
      BY <1>5
    <2>2. New(k) = CHOOSE r \in [1 .. k -> F] : IsInjective(r)
      BY DEF New, F
    <2>3. QED BY <2>1, <2>2
  <1> HIDE DEF F
  <1>7. \A i, j \in 1 .. k : New(k)[i] = New(k)[j] => i = j
    BY <1>6 DEF IsInjective
  <1>8. QED BY <1>6, <1>7 DEF F

(* Submit: a table of new TDs, none of which is in the line.               *)
LEMMA SubmitStep ==
  ASSUME ShortControl, TypeOK, Tables, NEW w, NEW n, NEW x, NEW y, NEW z,
         Line(w, n, x, y, z), NEW u \in Urbs, Submit(u)
  PROVE  TypeOK' /\ Tables' /\ Line(w, n, x, y, z)'
  <1>1. /\ InLine(w, n, x, y, z) /\ Linked(w, n, x, y, z) /\ Placed(w, n)
        /\ Ordered(w, n) /\ Counted(w, n) /\ Served(w, n, z) /\ Halts(w, x, z)
    BY DEF Line
  <1> DEFINE new == New(Size(u))
  <1>2. /\ UNCHANGED <<type, len, td, hwHeadP, hwTailP, halted, hc_done,
                       done_head, td_list, td_cnt, urb_del, actual_length, moved>>
        /\ filling = NoUrb /\ priv[u] = <<>>
        /\ Cardinality(Addresses \ allocated) >= Size(u)
        /\ priv' = [priv EXCEPT ![u] = new] /\ allocated' = allocated \cup Range(new)
        /\ filling' = u /\ cnt' = 0
    BY DEF Submit, setup, ed, lists, results
  <1>3. \A v : Contents(v)' = Contents(v) /\ Size(v)' = Size(v)
    BY SetupKept DEF Submit
  <1>4. Size(u) \in Nat /\ Size(u) > 0
    BY ContentsLen
  <1>5. /\ new \in [1 .. Size(u) -> Addresses \ allocated]
        /\ \A i, j \in 1 .. Size(u) : new[i] = new[j] => i = j
    BY <1>2, <1>4, NewIs
  <1> HIDE DEF new
  <1>6. /\ new \in Seq(Addresses) /\ Len(new) = Size(u) /\ DOMAIN new = 1 .. Size(u)
        /\ \A i \in DOMAIN new : new[i] \notin allocated
        /\ Range(new) = { new[i] : i \in DOMAIN new }
    BY <1>4, <1>5 DEF Range
  <1>7. /\ priv' \in [Urbs -> Seq(Addresses)] /\ priv'[u] = new
        /\ \A v \in Urbs : v # u => priv'[v] = priv[v]
    BY <1>2, <1>6 DEF TypeOK
  <1>8. TypeOK'
    BY <1>2, <1>7 DEF TypeOK
  <1>9. Tables'
    <2>1. \A v \in Urbs : Len(priv'[v]) = 0 \/ Len(priv'[v]) = Size(v)
      BY <1>6, <1>7 DEF Tables
    <2>2. \A v \in Urbs : \A i \in DOMAIN priv[v] : priv[v][i] \in allocated
      BY DEF Tables, Range
    <2>3. hwTailP \in allocated
      BY DEF Tables
    <2>4. \A v \in Urbs : \A i \in DOMAIN priv'[v] : priv'[v][i] # hwTailP
      BY <1>6, <1>7, <2>3 DEF Tables
    <2>5. ASSUME NEW v \in Urbs, NEW v1 \in Urbs, NEW i \in DOMAIN priv'[v],
                 NEW j \in DOMAIN priv'[v1], priv'[v][i] = priv'[v1][j]
          PROVE  v = v1 /\ i = j
      <3>1. CASE v = u /\ v1 = u
        BY <1>5, <1>6, <1>7, <2>5, <3>1
      <3>2. CASE v # u /\ v1 = u
        BY <1>6, <1>7, <2>2, <2>5, <3>2
      <3>3. CASE v = u /\ v1 # u
        BY <1>6, <1>7, <2>2, <2>5, <3>3
      <3>4. CASE v # u /\ v1 # u
        BY <1>7, <2>5, <3>4 DEF Tables
      <3>5. QED BY <3>1, <3>2, <3>3, <3>4
    <2>6. allocated' = {hwTailP} \cup UNION { Range(priv'[v]) : v \in Urbs }
      <3>1. Range(priv[u]) = {}
        BY <1>2 DEF Range
      <3>2. \A v \in Urbs : Range(priv'[v]) = IF v = u THEN Range(new) ELSE Range(priv[v])
        BY <1>7
      <3>3. allocated = {hwTailP} \cup UNION { Range(priv[v]) : v \in Urbs }
        BY DEF Tables
      <3>4. QED BY <1>2, <3>1, <3>2, <3>3
    <2>7. priv'[u] # <<>>
      BY <1>4, <1>6, <1>7
    <2>8. Len(priv'[u]) \in Nat
      BY <1>7
    <2>9. filling' # NoUrb
      BY <1>2, TdAssumption
    <2>10. QED BY <1>2, <1>3, <2>1, <2>4, <2>5, <2>6, <2>7, <2>8, <2>9 DEF Tables
  <1>10. \A v \in Urbs : Filled(v)' = Filled(v) /\ (Filled(v) > 0 => priv'[v] = priv[v])
    <2>1. Filled(u) = 0 /\ Filled(u)' = 0
      BY <1>2, TdAssumption DEF Filled
    <2>2. \A v \in Urbs : v # u => Filled(v)' = Filled(v)
      BY <1>2, <1>7, TdAssumption DEF Filled
    <2>3. QED BY <1>7, <2>1, <2>2
  <1>11. Placed(w, n)' /\ Ordered(w, n)' /\ Counted(w, n)'
    BY <1>1, <1>2, <1>10, LineKept
  <1>12. InLine(w, n, x, y, z)' /\ Linked(w, n, x, y, z)' /\ Halts(w, x, z)'
    BY <1>1, <1>2 DEF InLine, Linked, Halts
  <1>13. Served(w, n, z)'
    <2>1. \A i \in 1 .. n - 1 : Begins(z)' <= i => Successor(td[w[i]], td[w[i + 1]])'
      BY <1>1, <1>2, <1>3 DEF Served, Begins, Successor
    <2>2. Begins(z)' = Begins(z)
      BY <1>2 DEF Begins
    <2>3. Begins(z) <= n => td'[w[n]].index = (Filled(td[w[n]].urb) - 1)'
      <3> SUFFICES ASSUME Begins(z) <= n PROVE td'[w[n]].index = (Filled(td[w[n]].urb) - 1)'
        OBVIOUS
      <3>1. n \in 1 .. n
        BY <1>1 DEF InLine, Begins, Halts
      <3>2. PICK v \in Urbs : v = td[w[n]].urb /\ td[w[n]].index = Filled(v) - 1
        BY <1>1, <3>1 DEF Placed, Served
      <3>3. (Filled(td[w[n]].urb))' = Filled(v)'
        BY <1>2, <3>2 DEF Filled
      <3>4. QED BY <1>2, <1>10, <3>2, <3>3
    <2>4. QED BY <1>2, <2>1, <2>2, <2>3 DEF Served
  <1>14. QED BY <1>8, <1>9, <1>11, <1>12, <1>13 DEF Line

(* td_fill adds a TD to the end of the line.                               *)
Added(w, n, a) == [i \in 1 .. n + 1 |-> IF i <= n THEN w[i] ELSE a]

(* td_fill: the dummy joins the line at its end, and the TD it takes its   *)
(* place from in the table becomes the dummy.                              *)
LEMMA FillStep ==
  ASSUME ShortControl, TypeOK, Tables, NEW w, NEW n, NEW x, NEW y, NEW z,
         Line(w, n, x, y, z), td_fill, NEW a, a = hwTailP
  PROVE  TypeOK' /\ Tables' /\ Line(Added(w, n, a), n + 1, x, y, z)'
  <1>1. /\ InLine(w, n, x, y, z) /\ Linked(w, n, x, y, z) /\ Placed(w, n)
        /\ Ordered(w, n) /\ Counted(w, n) /\ Served(w, n, z) /\ Halts(w, x, z)
    BY DEF Line
  <1>2. PICK u : u = filling
    OBVIOUS
  <1>3. PICK k : k = cnt
    OBVIOUS
  <1>4. PICK d : d = priv[u][k + 1]
    OBVIOUS
  <1>5. PICK c : c = Contents(u)[k + 1]
    OBVIOUS
  <1>6. /\ UNCHANGED <<type, len, allocated, hwHeadP, halted, hc_done, done_head, td_list,
                       td_cnt, urb_del, filling, actual_length, moved>>
        /\ u # NoUrb /\ k < Len(Contents(u)) /\ cnt' = k + 1 /\ filling' = u
        /\ hwTailP' = d /\ priv' = [priv EXCEPT ![u][k + 1] = a]
        /\ td' = [td EXCEPT
            ![a] = [urb |-> u, index |-> k, R |-> c.R, CBP |-> c.CBP,
                    BE |-> c.BE, NextTD |-> d, next_dl |-> 0, CC |-> "none"],
            ![d].NextTD = 0]
    BY <1>2, <1>3, <1>4, <1>5 DEF td_fill, setup, lists, results, Rotated
  <1>7. \A v : Contents(v)' = Contents(v) /\ Size(v)' = Size(v)
    BY SetupKept DEF td_fill
  <1>8. u \in Urbs /\ k \in Nat /\ a \in Addresses
    BY <1>2, <1>3, <1>6 DEF TypeOK
  <1>9. /\ priv[u] \in Seq(Addresses) /\ Len(priv[u]) = Size(u) /\ Size(u) \in Nat
        /\ Len(Contents(u)) = Size(u) /\ k + 1 \in 1 .. Size(u)
        /\ DOMAIN priv[u] = 1 .. Size(u)
    <2>1. Size(u) \in Nat /\ Len(Contents(u)) = Size(u)
      BY <1>8, ContentsLen
    <2>2. priv[u] \in Seq(Addresses) /\ priv[u] # <<>>
      BY <1>2, <1>6, <1>8 DEF TypeOK, Tables
    <2>3. Len(priv[u]) = Size(u)
      BY <1>8, <2>2 DEF Tables
    <2>4. QED BY <1>6, <1>8, <2>1, <2>2, <2>3
  <1>10. d \in Addresses /\ d # a
    BY <1>4, <1>8, <1>9 DEF Tables
  <1>11. /\ n \in Nat /\ x \in Nat /\ y \in Nat /\ z \in Nat
         /\ x <= y /\ y <= z /\ z <= n /\ w \in [1 .. n -> Addresses]
    BY <1>1 DEF InLine
  <1>12. \A v \in Urbs : Filled(v) = IF v = u THEN k ELSE Len(priv[v])
    BY <1>2, <1>3 DEF Filled
  <1>13. /\ priv' \in [Urbs -> Seq(Addresses)]
         /\ \A v \in Urbs : v # u => priv'[v] = priv[v]
         /\ Len(priv'[u]) = Size(u) /\ DOMAIN priv'[u] = 1 .. Size(u)
         /\ \A i \in 1 .. Size(u) : priv'[u][i] = IF i = k + 1 THEN a ELSE priv[u][i]
    <2>1. priv'[u] = [priv[u] EXCEPT ![k + 1] = a] /\ \A v \in Urbs : v # u => priv'[v] = priv[v]
      BY <1>6, <1>8 DEF TypeOK
    <2>2. priv'[u] \in Seq(Addresses) /\ Len(priv'[u]) = Size(u)
      BY <1>8, <1>9, <2>1
    <2>3. priv' \in [Urbs -> Seq(Addresses)]
      <3>1. priv' = [priv EXCEPT ![u] = [priv[u] EXCEPT ![k + 1] = a]]
        BY <1>6
      <3>2. QED BY <2>1, <2>2, <3>1 DEF TypeOK
    <2>4. QED BY <1>9, <2>1, <2>2, <2>3
  <1>14. \A v \in Urbs : Filled(v)' = IF v = u THEN k + 1 ELSE Filled(v)
    BY <1>6, <1>12, <1>13 DEF Filled
  <1>15. ASSUME NEW i \in 1 .. n
         PROVE  /\ w[i] \in Addresses /\ w[i] # a /\ w[i] # d
                /\ td[w[i]].urb \in Urbs /\ td[w[i]].index \in Nat
                /\ td[w[i]].index + 1 \in 1 .. Filled(td[w[i]].urb)
                /\ td[w[i]].index + 1 \in DOMAIN priv[td[w[i]].urb]
                /\ priv[td[w[i]].urb][td[w[i]].index + 1] = w[i]
                /\ (td[w[i]].urb = u => td[w[i]].index < k)
    <2>1. PICK v \in Urbs, l \in Nat : v = td[w[i]].urb /\ l = td[w[i]].index
      BY <1>1, LineTds
    <2>2. /\ w[i] \in Addresses /\ w[i] # hwTailP /\ l < Filled(v)
          /\ l + 1 \in DOMAIN priv[v] /\ priv[v][l + 1] = w[i] /\ l + 1 \in 1 .. Filled(v)
      BY <1>1, <2>1, LineTds DEF Placed
    <2>3. w[i] # d
      <3> SUFFICES ASSUME w[i] = d PROVE FALSE
        OBVIOUS
      <3>1. priv[v][l + 1] = priv[u][k + 1] /\ k + 1 \in DOMAIN priv[u]
        BY <1>4, <1>9, <2>2
      <3>2. v = u /\ l + 1 = k + 1
        BY <1>8, <2>1, <2>2, <3>1 DEF Tables
      <3>3. QED BY <1>8, <1>12, <2>1, <2>2, <3>2
    <2>4. QED BY <1>8, <1>12, <2>1, <2>2, <2>3
  <1>16. /\ \A e \in Addresses : e # a /\ e # d => td'[e] = td[e]
         /\ td'[a].urb = u /\ td'[a].index = k /\ td'[a].NextTD = d
    BY <1>6, <1>8, <1>10 DEF TypeOK
  <1>17. TypeOK'
    <2>1. c.R \in BOOLEAN /\ c.CBP \in Int /\ c.BE \in Int
      BY <1>5, <1>8, <1>9, ContentsType
    <2> DEFINE T == [urb : Urbs \cup {NoUrb}, index : Nat, R : BOOLEAN,
                     CBP : Int, BE : Int, NextTD : Addresses \cup {0},
                     next_dl : Addresses \cup {0},
                     CC : {"none", "NOERROR", "STALL", "UNDERRUN"}]
               t == [urb |-> u, index |-> k, R |-> c.R, CBP |-> c.CBP,
                     BE |-> c.BE, NextTD |-> d, next_dl |-> 0, CC |-> "none"]
    <2>2. t \in T
      BY <1>8, <1>10, <2>1
    <2>3. td \in [Addresses -> T]
      BY DEF TypeOK
    <2>4. [td[d] EXCEPT !.NextTD = 0] \in T
      BY <1>10, <2>3
    <2>5. td' = [td EXCEPT ![a] = t, ![d] = [td[d] EXCEPT !.NextTD = 0]]
      BY <1>6, <1>8, <1>10, <2>3
    <2> HIDE DEF T, t
    <2>6. td' \in [Addresses -> T]
      BY <1>8, <1>10, <2>2, <2>3, <2>4, <2>5
    <2>7. /\ type' \in DOMAIN Lengths /\ len' = Lengths[type']
          /\ hwTailP' \in Addresses /\ halted' \in BOOLEAN
          /\ td_cnt' \in [Urbs -> Nat] /\ urb_del' \in [Urbs -> BOOLEAN]
          /\ cnt' \in Nat /\ filling' \in Urbs \cup {NoUrb}
          /\ actual_length' \in [Urbs -> Int] /\ moved' \in [Urbs -> Int]
      BY <1>6, <1>8, <1>10 DEF TypeOK
    <2>8. QED BY <1>13, <2>6, <2>7 DEF TypeOK, T
  <1>18. Tables'
    <2>1. \A v \in Urbs : Len(priv'[v]) = 0 \/ Len(priv'[v]) = Size(v)
      BY <1>13 DEF Tables
    <2>2. \A v \in Urbs : \A i \in DOMAIN priv'[v] : priv'[v][i] # d
      <3> SUFFICES ASSUME NEW v \in Urbs, NEW i \in DOMAIN priv'[v] PROVE priv'[v][i] # d
        OBVIOUS
      <3>1. CASE v = u
        <4>1. i \in 1 .. Size(u)
          BY <1>13, <3>1
        <4>2. CASE i = k + 1
          BY <1>10, <1>13, <3>1, <4>1, <4>2
        <4>3. CASE i # k + 1
          <5>1. priv[u][i] # priv[u][k + 1]
            BY <1>8, <1>9, <4>1, <4>3 DEF Tables
          <5>2. QED BY <1>4, <1>13, <3>1, <4>1, <4>3, <5>1
        <4>4. QED BY <4>2, <4>3
      <3>2. CASE v # u
        BY <1>4, <1>8, <1>9, <1>13, <3>2 DEF Tables
      <3>3. QED BY <3>1, <3>2
    <2>3. ASSUME NEW v \in Urbs, NEW v1 \in Urbs, NEW i \in DOMAIN priv'[v],
                 NEW j \in DOMAIN priv'[v1], priv'[v][i] = priv'[v1][j]
          PROVE  v = v1 /\ i = j
      <3>1. /\ i \in DOMAIN priv[v] /\ j \in DOMAIN priv[v1]
            /\ priv'[v][i] = IF v = u /\ i = k + 1 THEN a ELSE priv[v][i]
            /\ priv'[v1][j] = IF v1 = u /\ j = k + 1 THEN a ELSE priv[v1][j]
        BY <1>9, <1>13
      <3>2. priv[v][i] # a /\ priv[v1][j] # a
        BY <3>1 DEF Tables
      <3>3. CASE (v = u /\ i = k + 1) \/ (v1 = u /\ j = k + 1)
        BY <2>3, <3>1, <3>2, <3>3
      <3>4. CASE ~ (v = u /\ i = k + 1) /\ ~ (v1 = u /\ j = k + 1)
        <4>1. priv[v][i] = priv[v1][j]
          BY <2>3, <3>1, <3>4
        <4>2. QED BY <3>1, <4>1 DEF Tables
      <3>5. QED BY <3>3, <3>4
    <2>4. allocated' = {d} \cup UNION { Range(priv'[v]) : v \in Urbs }
      <3>1. allocated = {a} \cup UNION { Range(priv[v]) : v \in Urbs }
        BY DEF Tables
      <3>2. Range(priv[u]) = (Range(priv[u]) \ {d}) \cup {d}
        BY <1>4, <1>9 DEF Range
      <3>3. {d} \cup Range(priv'[u]) = {a} \cup Range(priv[u])
        <4>1. Range(priv'[u]) = { priv'[u][i] : i \in 1 .. Size(u) }
              /\ Range(priv[u]) = { priv[u][i] : i \in 1 .. Size(u) }
          BY <1>9, <1>13 DEF Range
        <4>2. Range(priv'[u]) \subseteq {a} \cup Range(priv[u])
          BY <1>13, <4>1
        <4>3. a \in Range(priv'[u]) /\ d \in Range(priv[u])
          BY <1>4, <1>9, <1>13, <4>1
        <4>4. Range(priv[u]) \subseteq {d} \cup Range(priv'[u])
          <5> SUFFICES ASSUME NEW i \in 1 .. Size(u) PROVE priv[u][i] \in {d} \cup Range(priv'[u])
            BY <4>1
          <5>1. CASE i = k + 1
            BY <1>4, <5>1
          <5>2. CASE i # k + 1
            BY <1>13, <4>1, <5>2
          <5>3. QED BY <5>1, <5>2
        <4>5. QED BY <4>2, <4>3, <4>4
      <3>4. \A v \in Urbs : v # u => Range(priv'[v]) = Range(priv[v])
        BY <1>13
      <3>5. {d} \cup UNION { Range(priv'[v]) : v \in Urbs }
              = {a} \cup UNION { Range(priv[v]) : v \in Urbs }
        <4> DEFINE R(v) == Range(priv[v])
                   Q(v) == Range(priv'[v])
        <4>1. {d} \cup Q(u) = {a} \cup R(u) /\ \A v \in Urbs : v # u => Q(v) = R(v)
          BY <3>3, <3>4
        <4> HIDE DEF Q, R
        <4>2. {d} \cup UNION { Q(v) : v \in Urbs } = {a} \cup UNION { R(v) : v \in Urbs }
          <5>1. \A e : e \in {d} \cup UNION { Q(v) : v \in Urbs } <=> e = d \/ \E v \in Urbs : e \in Q(v)
            OBVIOUS
          <5>2. \A e : e \in {a} \cup UNION { R(v) : v \in Urbs } <=> e = a \/ \E v \in Urbs : e \in R(v)
            OBVIOUS
          <5>3. \A e : (e = d \/ e \in Q(u)) <=> (e = a \/ e \in R(u))
            BY <4>1
          <5>4. \A e : (e = d \/ \E v \in Urbs : e \in Q(v)) <=> (e = a \/ \E v \in Urbs : e \in R(v))
            BY <1>8, <4>1, <5>3
          <5>5. QED BY <5>1, <5>2, <5>4
        <4>3. QED BY <4>2 DEF Q, R
      <3>6. QED BY <1>6, <3>1, <3>5
    <2>5. priv'[u] # <<>> /\ k + 1 <= Len(priv'[u])
      BY <1>8, <1>9, <1>13
    <2>6. QED BY <1>6, <1>7, <2>1, <2>2, <2>3, <2>4, <2>5 DEF Tables
  <1> DEFINE m == n + 1
             W == Added(w, n, a)
  <1>19. /\ m \in Nat /\ m = n + 1 /\ W \in [1 .. m -> Addresses] /\ W[m] = a
         /\ \A i \in 1 .. n : W[i] = w[i] /\ i \in 1 .. m
         /\ \A i \in 1 .. m : i \in 1 .. n \/ i = m
    BY <1>8, <1>11 DEF Added
  <1>20. PICK mm, v : mm = m /\ v = W
    OBVIOUS
  <1> HIDE DEF m, W
  <1>21. /\ mm \in Nat /\ mm = n + 1 /\ v \in [1 .. mm -> Addresses] /\ v[mm] = a
         /\ \A i \in 1 .. n : v[i] = w[i] /\ i \in 1 .. mm /\ td'[v[i]] = td[w[i]]
         /\ \A i \in 1 .. mm : i \in 1 .. n \/ i = mm
    BY <1>15, <1>16, <1>19, <1>20
  <1>22. InLine(v, mm, x, y, z)'
    BY <1>11, <1>21 DEF InLine
  <1>23. Linked(v, mm, x, y, z)'
    <2>1. /\ td_list' = IF x > 0 THEN v[1] ELSE 0
          /\ done_head' = IF y > x THEN v[y] ELSE 0
          /\ hc_done' = IF z > y THEN v[z] ELSE 0
      BY <1>1, <1>6, <1>11, <1>21 DEF Linked
    <2>2. hwHeadP' = IF z < mm THEN v[z + 1] ELSE hwTailP'
      <3>1. CASE z < n
        BY <1>1, <1>6, <1>11, <1>21, <3>1 DEF Linked
      <3>2. CASE z = n
        BY <1>1, <1>6, <1>11, <1>21, <3>2 DEF Linked
      <3>3. QED BY <1>11, <3>1, <3>2
    <2>3. \A i \in 1 .. x : td'[v[i]].next_dl = IF i < x THEN v[i + 1] ELSE 0
      BY <1>1, <1>11, <1>21 DEF Linked
    <2>4. \A i \in x + 1 .. z :
            td'[v[i]].NextTD = IF i = x + 1 \/ i = y + 1 THEN 0 ELSE v[i - 1]
      <3> SUFFICES ASSUME NEW i \in x + 1 .. z
                   PROVE  td'[v[i]].NextTD = IF i = x + 1 \/ i = y + 1 THEN 0 ELSE v[i - 1]
        OBVIOUS
      <3>1. i \in 1 .. n /\ (i # x + 1 => i - 1 \in 1 .. n)
        BY <1>11
      <3>2. td[w[i]].NextTD = IF i = x + 1 \/ i = y + 1 THEN 0 ELSE w[i - 1]
        BY <1>1 DEF Linked
      <3>3. QED BY <1>21, <3>1, <3>2
    <2>5. ASSUME NEW i \in z + 1 .. mm
          PROVE  td'[v[i]].NextTD = IF i < mm THEN v[i + 1] ELSE hwTailP'
      <3>1. CASE i < mm
        <4>1. i \in 1 .. n /\ i \in z + 1 .. n
          BY <1>11, <1>21, <3>1
        <4>2. td[w[i]].NextTD = IF i < n THEN w[i + 1] ELSE a
          BY <1>1, <4>1 DEF Linked
        <4>3. v[i + 1] = IF i < n THEN w[i + 1] ELSE a
          BY <1>11, <1>21, <4>1
        <4>4. QED BY <1>21, <3>1, <4>1, <4>2, <4>3
      <3>2. CASE i = mm
        BY <1>6, <1>16, <1>21, <3>2
      <3>3. QED BY <1>11, <1>21, <3>1, <3>2
    <2>6. QED BY <2>1, <2>2, <2>3, <2>4, <2>5 DEF Linked
  <1>24. Placed(v, mm)'
    <2> SUFFICES ASSUME NEW i \in 1 .. mm
                 PROVE  /\ td'[v[i]].urb \in Urbs
                        /\ td'[v[i]].index + 1 \in 1 .. (Filled(td[v[i]].urb))'
                        /\ priv'[td'[v[i]].urb][td'[v[i]].index + 1] = v[i]
      BY DEF Placed
    <2>1. CASE i \in 1 .. n
      <3>1. PICK f \in Urbs, l \in Nat :
               /\ f = td[w[i]].urb /\ l = td[w[i]].index
               /\ l + 1 \in 1 .. Filled(f) /\ l + 1 \in DOMAIN priv[f]
               /\ priv[f][l + 1] = w[i] /\ (f = u => l < k)
        BY <1>15, <2>1
      <3>2. td'[v[i]].urb = f /\ td'[v[i]].index = l /\ v[i] = w[i]
        BY <1>21, <2>1, <3>1
      <3>3. (Filled(td[v[i]].urb))' = Filled(f)'
        BY <3>2 DEF Filled
      <3>4. Filled(f) \in Nat
        BY <3>1, FilledFits
      <3>5. l + 1 \in 1 .. Filled(f)'
        BY <1>8, <1>14, <3>1, <3>4
      <3>6. priv'[f][l + 1] = w[i]
        <4>1. CASE f = u
          <5>1. l + 1 \in 1 .. Size(u) /\ l + 1 # k + 1
            BY <1>8, <1>9, <3>1, <4>1
          <5>2. QED BY <1>13, <3>1, <4>1, <5>1
        <4>2. CASE f # u
          BY <1>13, <3>1, <4>2
        <4>3. QED BY <4>1, <4>2
      <3>7. QED BY <3>1, <3>2, <3>3, <3>5, <3>6
    <2>2. CASE i = mm
      <3>1. td'[v[i]].urb = u /\ td'[v[i]].index = k /\ v[i] = a
        BY <1>16, <1>21, <2>2
      <3>2. (Filled(td[v[i]].urb))' = Filled(u)'
        BY <3>1 DEF Filled
      <3>3. QED BY <1>8, <1>9, <1>13, <1>14, <3>1, <3>2
    <2>3. QED BY <1>21, <2>1, <2>2
  <1>25. Ordered(v, mm)'
    <2> SUFFICES ASSUME NEW i \in 1 .. mm, NEW j \in 1 .. mm, i < j,
                        td'[v[i]].urb = td'[v[j]].urb
                 PROVE  td'[v[i]].index < td'[v[j]].index
      BY DEF Ordered
    <2>1. i \in 1 .. n
      BY <1>21
    <2>2. CASE j \in 1 .. n
      BY <1>1, <1>21, <2>1, <2>2 DEF Ordered
    <2>3. CASE j = mm
      BY <1>15, <1>16, <1>21, <2>1, <2>3
    <2>4. QED BY <1>21, <2>2, <2>3
  <1>26. Counted(v, mm)'
    <2> SUFFICES ASSUME NEW f \in Urbs
                 PROVE  Cardinality(Of(v, mm, f)') + td_cnt'[f] = Filled(f)'
      BY DEF Counted
    <2>1. Cardinality(Of(w, n, f)) + td_cnt[f] = Filled(f) /\ td_cnt[f] \in Nat
      BY <1>1 DEF Counted, TypeOK
    <2>2. IsFiniteSet(Of(w, n, f)) /\ Cardinality(Of(w, n, f)) \in Nat
      BY <1>1, OfFinite
    <2>3. { v[i] : i \in 1 .. mm } = { w[i] : i \in 1 .. n } \cup {a}
      <3>1. mm \in 1 .. mm
        BY <1>11, <1>21
      <3>2. QED BY <1>21, <3>1
    <2>4. \A e \in { w[i] : i \in 1 .. n } : e # a /\ td'[e] = td[e]
      BY <1>15, <1>16
    <2>5. CASE f = u
      <3>1. Of(v, mm, f)' = Of(w, n, f) \cup {a} /\ a \notin Of(w, n, f)
        BY <1>16, <2>3, <2>4, <2>5 DEF Of
      <3>2. Cardinality(Of(v, mm, f)') = Cardinality(Of(w, n, f)) + 1
        BY <2>2, <3>1, FS_AddElement
      <3>3. QED BY <1>6, <1>8, <1>12, <1>14, <2>1, <2>2, <2>5, <3>2
    <2>6. CASE f # u
      <3>1. Of(v, mm, f)' = Of(w, n, f)
        BY <1>16, <2>3, <2>4, <2>6 DEF Of
      <3>2. QED BY <1>6, <1>14, <2>1, <2>6, <3>1
    <2>7. QED BY <2>5, <2>6
  <1>27. Served(v, mm, z)'
    <2>1. Begins(z)' = Begins(z) /\ Begins(z) \in Nat
      BY <1>6, <1>11 DEF Begins
    <2>2. ASSUME NEW i \in 1 .. mm - 1, Begins(z) <= i
          PROVE  Successor(td[v[i]], td[v[i + 1]])'
      <3>0. i \in 1 .. n
        BY <1>11, <1>21
      <3>1. CASE i < n
        <4>1. i \in 1 .. n - 1 /\ i + 1 \in 1 .. n
          BY <1>11, <3>0, <3>1
        <4>2. Successor(td[w[i]], td[w[i + 1]])
          BY <1>1, <2>2, <4>1 DEF Served
        <4>3. td'[v[i]] = td[w[i]] /\ td'[v[i + 1]] = td[w[i + 1]]
          BY <1>21, <4>1
        <4>4. QED BY <1>7, <4>2, <4>3 DEF Successor
      <3>2. CASE i = n
        <4>1. PICK f \in Urbs, l \in Nat :
                 /\ f = td[w[n]].urb /\ l = td[w[n]].index
                 /\ l + 1 \in 1 .. Filled(f) /\ (f = u => l < k)
          BY <1>15, <3>0, <3>2
        <4>2. l = Filled(f) - 1 /\ (k > 0 => f = u)
          BY <1>1, <1>2, <1>3, <1>6, <2>2, <3>2, <4>1 DEF Served
        <4>3. td'[v[i]].urb = f /\ td'[v[i]].index = l
          BY <1>21, <3>0, <3>2, <4>1
        <4>4. v[i + 1] = a
          BY <1>21, <3>2
        <4>5. CASE f = u
          <5>1. k = l + 1
            BY <1>8, <1>12, <4>1, <4>2, <4>5
          <5>2. QED BY <1>16, <4>3, <4>4, <4>5, <5>1 DEF Successor
        <4>6. CASE f # u
          <5>1. k = 0
            BY <1>8, <4>2, <4>6
          <5>2. Filled(f) \in Nat /\ Filled(f) > 0 /\ Filled(f) = Len(priv[f])
            BY <1>12, <4>1, <4>6, FilledFits
          <5>3. Len(priv[f]) = Size(f) /\ Len(Contents(f)) = Size(f)
            BY <4>1, <5>2, ContentsLen DEF Tables
          <5>4. l = Len(Contents(f)) - 1
            BY <4>2, <5>2, <5>3
          <5>5. QED BY <1>7, <1>16, <4>3, <4>4, <4>6, <5>1, <5>4 DEF Successor
        <4>7. QED BY <4>5, <4>6
      <3>3. QED BY <1>11, <3>0, <3>1, <3>2
    <2>3. td'[v[mm]].index = (Filled(td[v[mm]].urb) - 1)'
          /\ td'[v[mm]].urb = filling'
      <3>1. td'[v[mm]].urb = u /\ td'[v[mm]].index = k
        BY <1>16, <1>21
      <3>2. (Filled(td[v[mm]].urb))' = k + 1
        BY <1>6, <3>1 DEF Filled
      <3>3. QED BY <1>6, <1>8, <3>1, <3>2
    <2>4. QED BY <2>1, <2>2, <2>3 DEF Served
  <1>28. Halts(v, x, z)'
    <2>1. \A i \in x + 1 .. z : td'[v[i]] = td[w[i]]
      BY <1>11, <1>21
    <2>2. QED BY <1>1, <1>6, <2>1 DEF Halts
  <1>29. Line(v, mm, x, y, z)'
    BY <1>22, <1>23, <1>24, <1>25, <1>26, <1>27, <1>28 DEF Line
  <1>30. QED BY <1>17, <1>18, <1>20, <1>29 DEF m, W

(* Retire: the first TD of the queue becomes the last in the controller's  *)
(* done list.                                                              *)
LEMMA RetireStep ==
  ASSUME TypeOK, Tables, NEW w, NEW n, NEW x, NEW y, NEW z, Line(w, n, x, y, z),
         NEW l, NEW s \in BOOLEAN, Retire(l, s)
  PROVE  TypeOK' /\ Tables' /\ Line(w, n, x, y, z + 1)'
  <1>1. /\ InLine(w, n, x, y, z) /\ Linked(w, n, x, y, z) /\ Placed(w, n)
        /\ Ordered(w, n) /\ Counted(w, n) /\ Served(w, n, z) /\ Halts(w, x, z)
    BY DEF Line
  <1>2. /\ n \in Nat /\ x \in Nat /\ y \in Nat /\ z \in Nat
        /\ x <= y /\ y <= z /\ z <= n /\ w \in [1 .. n -> Addresses]
    BY <1>1 DEF InLine
  <1>3. PICK a, cc, size :
           /\ a = hwHeadP
           /\ size = IF td[a].BE = 0 THEN 0 ELSE td[a].BE - td[a].CBP + 1
           /\ cc = IF s THEN "STALL" ELSE IF l < size /\ ~ td[a].R THEN "UNDERRUN" ELSE "NOERROR"
    OBVIOUS
  <1>4. /\ UNCHANGED <<type, len, allocated, hwTailP, done_head, td_list, priv, td_cnt,
                       urb_del, cnt, filling, actual_length>>
        /\ a # hwTailP /\ ~ halted /\ l \in 0 .. size
        /\ td' = [td EXCEPT ![a].CBP = IF l = size THEN 0 ELSE @ + l,
                            ![a].CC = cc, ![a].NextTD = hc_done]
        /\ hc_done' = a /\ hwHeadP' = td[a].NextTD /\ halted' = (cc # "NOERROR")
        /\ moved' = [moved EXCEPT ![td[a].urb] = @ + l]
    BY <1>3 DEF Retire, setup, urbs, submission
  <1>5. \A u : Contents(u)' = Contents(u) /\ Size(u)' = Size(u)
    BY SetupKept DEF Retire
  <1>6. z < n /\ a = w[z + 1] /\ z + 1 \in 1 .. n /\ a \in Addresses
    <2>1. hwHeadP = IF z < n THEN w[z + 1] ELSE hwTailP
      BY <1>1 DEF Linked
    <2>2. z < n /\ a = w[z + 1]
      BY <1>3, <1>4, <2>1
    <2>3. QED BY <1>2, <2>2
  <1>7. /\ td[a].BE \in Int /\ td[a].CBP \in Int /\ td[a].R \in BOOLEAN
        /\ td[a].urb \in Urbs /\ td[a].NextTD \in Addresses \cup {0}
    BY <1>1, <1>6, LineTds DEF TypeOK
  <1>8. size \in Int /\ l \in Int /\ cc \in {"NOERROR", "STALL", "UNDERRUN"}
    BY <1>3, <1>4, <1>7
  <1>9. hc_done \in Addresses \cup {0}
    BY <1>1, <1>2 DEF Linked
  <1>10. /\ \A e \in Addresses : e # a => td'[e] = td[e]
         /\ td'[a].urb = td[a].urb /\ td'[a].index = td[a].index
         /\ td'[a].next_dl = td[a].next_dl
         /\ td'[a].CC = cc /\ td'[a].NextTD = hc_done
    BY <1>4, <1>6 DEF TypeOK
  <1>11. TypeOK'
    <2>1. PICK b : b = IF l = size THEN 0 ELSE td[a].CBP + l
      OBVIOUS
    <2> DEFINE T == [urb : Urbs \cup {NoUrb}, index : Nat, R : BOOLEAN,
                     CBP : Int, BE : Int, NextTD : Addresses \cup {0},
                     next_dl : Addresses \cup {0},
                     CC : {"none", "NOERROR", "STALL", "UNDERRUN"}]
               t == [td[a] EXCEPT !.CBP = b, !.CC = cc, !.NextTD = hc_done]
    <2>2. b \in Int
      BY <1>7, <1>8, <2>1
    <2>3. td \in [Addresses -> T] /\ t \in T
      <3>1. td \in [Addresses -> T]
        BY DEF TypeOK
      <3>2. td[a] \in T
        BY <1>6, <3>1
      <3>3. t \in T
        BY <1>8, <1>9, <2>2, <3>2
      <3>4. QED BY <3>1, <3>3
    <2>4. td' = [td EXCEPT ![a] = t]
      BY <1>4, <1>6, <2>1 DEF TypeOK
    <2> HIDE DEF T, t
    <2>5. td' \in [Addresses -> T]
      BY <1>6, <2>3, <2>4
    <2>6. moved' \in [Urbs -> Int]
      <3>1. l \in Int
        BY <1>4, <1>7, <1>8
      <3>2. moved[td[a].urb] \in Int /\ td[a].urb \in Urbs
        BY <1>7 DEF TypeOK
      <3>3. moved[td[a].urb] + l \in Int
        BY <3>1, <3>2
      <3>4. QED BY <1>4, <3>3 DEF TypeOK
    <2>7. /\ type' \in DOMAIN Lengths /\ len' = Lengths[type']
          /\ hwTailP' \in Addresses /\ halted' \in BOOLEAN
          /\ priv' \in [Urbs -> Seq(Addresses)]
          /\ td_cnt' \in [Urbs -> Nat] /\ urb_del' \in [Urbs -> BOOLEAN]
          /\ cnt' \in Nat /\ filling' \in Urbs \cup {NoUrb}
          /\ actual_length' \in [Urbs -> Int]
      BY <1>4 DEF TypeOK
    <2>8. QED BY <2>5, <2>6, <2>7 DEF TypeOK, T
  <1>12. Tables'
    BY <1>4, <1>5 DEF Tables
  <1>13. \A i \in 1 .. n : i # z + 1 => w[i] # a /\ td'[w[i]] = td[w[i]]
    <2> SUFFICES ASSUME NEW i \in 1 .. n, i # z + 1 PROVE w[i] # a /\ td'[w[i]] = td[w[i]]
      OBVIOUS
    <2>1. w[i] # w[z + 1]
      BY <1>1, <1>6, LineInjective
    <2>2. QED BY <1>2, <1>6, <1>10, <2>1
  <1>14. Placed(w, n)' /\ Ordered(w, n)' /\ Counted(w, n)'
    <2>1. \A i \in 1 .. n : td'[w[i]].urb = td[w[i]].urb /\ td'[w[i]].index = td[w[i]].index
      BY <1>6, <1>10, <1>13
    <2>2. \A u \in Urbs : Filled(u)' = Filled(u)
      BY <1>4 DEF Filled
    <2>3. QED BY <1>1, <1>4, <2>1, <2>2, LineKept
  <1>15. PICK z1 : z1 = z + 1
    OBVIOUS
  <1>16. InLine(w, n, x, y, z1)'
    BY <1>2, <1>6, <1>15 DEF InLine
  <1>17. Linked(w, n, x, y, z1)'
    <2>1. /\ td_list' = IF x > 0 THEN w[1] ELSE 0
          /\ done_head' = IF y > x THEN w[y] ELSE 0
          /\ hc_done' = IF z1 > y THEN w[z1] ELSE 0
      BY <1>1, <1>2, <1>4, <1>6, <1>15 DEF Linked
    <2>2. hwHeadP' = IF z1 < n THEN w[z1 + 1] ELSE hwTailP'
      <3>1. z1 \in z + 1 .. n
        BY <1>2, <1>6, <1>15
      <3>2. td[w[z1]].NextTD = IF z1 < n THEN w[z1 + 1] ELSE hwTailP
        BY <1>1, <3>1 DEF Linked
      <3>3. QED BY <1>4, <1>6, <1>15, <3>2
    <2>3. \A i \in 1 .. x : td'[w[i]].next_dl = IF i < x THEN w[i + 1] ELSE 0
      BY <1>1, <1>2, <1>13 DEF Linked
    <2>4. ASSUME NEW i \in x + 1 .. z1
          PROVE  td'[w[i]].NextTD = IF i = x + 1 \/ i = y + 1 THEN 0 ELSE w[i - 1]
      <3>1. CASE i = z1
        BY <1>1, <1>2, <1>6, <1>10, <1>15, <3>1 DEF Linked
      <3>2. CASE i # z1
        <4>1. i \in x + 1 .. z /\ i \in 1 .. n /\ i # z + 1
          BY <1>2, <1>15, <3>2
        <4>2. QED BY <1>1, <1>13, <4>1 DEF Linked
      <3>3. QED BY <3>1, <3>2
    <2>5. ASSUME NEW i \in z1 + 1 .. n
          PROVE  td'[w[i]].NextTD = IF i < n THEN w[i + 1] ELSE hwTailP'
      <3>1. i \in z + 1 .. n /\ i \in 1 .. n /\ i # z + 1
        BY <1>2, <1>15
      <3>2. QED BY <1>1, <1>4, <1>13, <3>1 DEF Linked
    <2>6. QED BY <2>1, <2>2, <2>3, <2>4, <2>5 DEF Linked
  <1>18. Halts(w, x, z1)'
    <2>1. ASSUME NEW i \in x + 1 .. z1
          PROVE  td'[w[i]].CC = "NOERROR" <=> ~ (halted' /\ i = z1)
      <3>1. CASE i = z1
        BY <1>4, <1>6, <1>10, <1>15, <3>1
      <3>2. CASE i # z1
        <4>1. i \in x + 1 .. z /\ i \in 1 .. n /\ i # z + 1
          BY <1>2, <1>15, <3>2
        <4>2. QED BY <1>1, <1>4, <1>13, <3>2, <4>1 DEF Halts
      <3>3. QED BY <3>1, <3>2
    <2>2. x < z1
      BY <1>2, <1>15
    <2>3. QED BY <2>1, <2>2 DEF Halts
  <1>19. Served(w, n, z1)'
    <2>1. \A u \in Urbs : Filled(u)' = Filled(u)
      BY <1>4 DEF Filled
    <2>2. \A i \in 1 .. n : td'[w[i]].urb = td[w[i]].urb /\ td'[w[i]].index = td[w[i]].index
      BY <1>6, <1>10, <1>13
    <2>3. Begins(z) = z + 1 /\ z + 1 <= Begins(z1)' /\ Begins(z1)' \in Nat
      BY <1>2, <1>4, <1>15 DEF Begins
    <2>4. ASSUME NEW i \in 1 .. n - 1, Begins(z1)' <= i
          PROVE  Successor(td[w[i]], td[w[i + 1]])'
      <3>1. i \in 1 .. n /\ i + 1 \in 1 .. n /\ Begins(z) <= i
        BY <1>2, <2>3, <2>4
      <3>2. Successor(td[w[i]], td[w[i + 1]])
        BY <1>1, <3>1 DEF Served
      <3>3. QED BY <1>5, <2>2, <3>1, <3>2 DEF Successor
    <2>5. /\ td'[w[n]].index = (Filled(td[w[n]].urb) - 1)'
          /\ filling' # NoUrb /\ cnt' > 0 => td'[w[n]].urb = filling'
      <3>1. n \in 1 .. n /\ Begins(z) <= n
        BY <1>2, <1>6, <2>3
      <3>2. PICK u \in Urbs : u = td[w[n]].urb /\ td[w[n]].index = Filled(u) - 1
        BY <1>1, <3>1 DEF Placed, Served
      <3>3. (Filled(td[w[n]].urb))' = Filled(u)'
        BY <2>2, <3>1, <3>2 DEF Filled
      <3>4. filling # NoUrb /\ cnt > 0 => td[w[n]].urb = filling
        BY <1>1, <3>1 DEF Served
      <3>5. QED BY <1>4, <2>1, <2>2, <3>1, <3>2, <3>3, <3>4
    <2>6. QED BY <2>4, <2>5 DEF Served
  <1>20. Line(w, n, x, y, z1)'
    BY <1>14, <1>16, <1>17, <1>18, <1>19 DEF Line
  <1>21. QED BY <1>11, <1>12, <1>15, <1>20

(* What it takes to take the TDs b .. e of urb v out of the line: the      *)
(* others stay what they are, and either td_cnt counts those of v now, or  *)
(* it had counted all the others of v, and v begins anew.                  *)
Cuts(w, n, b, e, v) ==
  /\ v \in Urbs /\ IsOf(w, b, e, v)
  /\ \A i \in 1 .. n : i \notin b .. e => /\ td'[w[i]].urb = td[w[i]].urb
                                         /\ td'[w[i]].index = td[w[i]].index
  /\ \A u \in Urbs : u # v => /\ (Filled(u))' = Filled(u)
                              /\ priv'[u] = priv[u] /\ td_cnt'[u] = td_cnt[u]
  /\ \/ /\ (Filled(v))' = Filled(v) /\ priv'[v] = priv[v]
        /\ td_cnt'[v] = td_cnt[v] + (e - b + 1)
     \/ /\ td_cnt[v] + (e - b + 1) = Filled(v)
        /\ td_cnt'[v] = 0 /\ (Filled(v))' = 0

(* When they leave the line and are counted in td_cnt, or the urb is given *)
(* back, the places, the order and the counts of the others are right.     *)
LEMMA CutKept ==
  ASSUME TypeOK, Tables, NEW w, NEW n, NEW x, NEW y, NEW z, InLine(w, n, x, y, z),
         Placed(w, n), Ordered(w, n), Counted(w, n),
         NEW b, NEW e, NEW m, NEW c, Block(w, n, b, e, m, c),
         NEW v, Cuts(w, n, b, e, v)
  PROVE  Placed(c, m)' /\ Ordered(c, m)' /\ Counted(c, m)'
  <1>1. /\ b \in 1 .. n /\ e \in b .. n /\ v \in Urbs
        /\ \A i \in b .. e : td[w[i]].urb = v
        /\ \A i \in 1 .. n : i \notin b .. e => /\ td'[w[i]].urb = td[w[i]].urb
                                               /\ td'[w[i]].index = td[w[i]].index
        /\ \A u \in Urbs : u # v => /\ (Filled(u))' = Filled(u)
                                    /\ priv'[u] = priv[u] /\ td_cnt'[u] = td_cnt[u]
    BY DEF Cuts, Block, IsOf
  <1>2. n \in Nat /\ w \in [1 .. n -> Addresses]
    BY DEF InLine
  <1>3. /\ m \in Nat /\ c \in [1 .. m -> Addresses]
        /\ \A i \in 1 .. m : /\ c[i] = w[Old(b, e, i)]
                             /\ Old(b, e, i) \in 1 .. n /\ Old(b, e, i) \notin b .. e
        /\ \A j \in 1 .. n : j \notin b .. e => \E i \in 1 .. m : j = Old(b, e, i)
        /\ \A i, j \in 1 .. m : i < j => Old(b, e, i) < Old(b, e, j)
    BY CutIs
  <1> DEFINE P == { w[i] : i \in b .. e }
  <1>4. /\ P \subseteq Of(w, n, v) /\ Cardinality(P) = e - b + 1
        /\ Cardinality(Of(w, n, v) \ P) = Cardinality(Of(w, n, v)) - (e - b + 1)
    <2>1. IsOf(w, b, e, v)
      BY DEF Cuts
    <2>2. /\ Part(w, b, e) \subseteq Of(w, n, v)
          /\ Cardinality(Part(w, b, e)) = e - b + 1
          /\ Cardinality(Of(w, n, v) \ Part(w, b, e)) = Cardinality(Of(w, n, v)) - (e - b + 1)
      BY <2>1, CutCount
    <2>3. P = Part(w, b, e)
      BY DEF Part
    <2> HIDE DEF P
    <2>4. QED BY <2>2, <2>3
  <1>5. \A j \in 1 .. n : j \notin b .. e => w[j] \notin P
    <2> SUFFICES ASSUME NEW j \in 1 .. n, j \notin b .. e, NEW i \in b .. e, w[j] = w[i]
                 PROVE  FALSE
      OBVIOUS
    <2>1. i \in 1 .. n
      BY <1>1, <1>2
    <2>2. i = j
      BY <2>1, LineInjective
    <2>3. QED BY <2>2
  <1>6. \A j \in 1 .. n : w[j] \in P \/ j \notin b .. e
    OBVIOUS
  <1> DEFINE Kept == /\ (Filled(v))' = Filled(v) /\ priv'[v] = priv[v]
                     /\ td_cnt'[v] = td_cnt[v] + (e - b + 1)
             Anew == /\ td_cnt[v] + (e - b + 1) = Filled(v)
                     /\ td_cnt'[v] = 0 /\ (Filled(v))' = 0
  <1>7. Kept \/ Anew
    BY DEF Cuts
  <1>8. Cardinality(Of(w, n, v)) + td_cnt[v] = Filled(v) /\ td_cnt[v] \in Nat
        /\ IsFiniteSet(Of(w, n, v)) /\ Cardinality(Of(w, n, v)) \in Nat
    BY <1>1, OfFinite DEF Counted, TypeOK
  <1>9. Anew => Of(w, n, v) \ P = {}
    <2> HAVE Anew
    <2>1. Cardinality(Of(w, n, v) \ P) = 0
      BY <1>1, <1>2, <1>4, <1>8
    <2>2. IsFiniteSet(Of(w, n, v) \ P)
      BY <1>8, FS_Difference
    <2> HIDE DEF P
    <2>3. QED BY <2>1, <2>2, FS_EmptySet
  <1> HIDE DEF P
  <1>10. \A i \in 1 .. m : td'[c[i]].urb = td[c[i]].urb /\ td'[c[i]].index = td[c[i]].index
    <2> SUFFICES ASSUME NEW i \in 1 .. m
                 PROVE  td'[c[i]].urb = td[c[i]].urb /\ td'[c[i]].index = td[c[i]].index
      OBVIOUS
    <2>1. PICK j \in 1 .. n : j \notin b .. e /\ c[i] = w[j]
      BY <1>3
    <2>2. td'[w[j]].urb = td[w[j]].urb /\ td'[w[j]].index = td[w[j]].index
      BY <1>1, <2>1
    <2>3. QED BY <2>1, <2>2
  <1>11. ASSUME Anew, NEW i \in 1 .. m PROVE td[c[i]].urb # v
    <2>1. PICK j \in 1 .. n : j \notin b .. e /\ c[i] = w[j]
      BY <1>3
    <2>2. w[j] \notin P
      BY <1>5, <2>1
    <2>3. td[w[j]].urb = v => w[j] \in Of(w, n, v)
      BY DEF Of
    <2>4. QED BY <1>9, <1>11, <2>1, <2>2, <2>3
  <1>12. Placed(c, m)'
    <2> SUFFICES ASSUME NEW i \in 1 .. m
                 PROVE  /\ td'[c[i]].urb \in Urbs
                        /\ td'[c[i]].index + 1 \in 1 .. (Filled(td[c[i]].urb))'
                        /\ priv'[td'[c[i]].urb][td'[c[i]].index + 1] = c[i]
      BY DEF Placed
    <2>1. PICK j \in 1 .. n : c[i] = w[j]
      BY <1>3
    <2>2. PICK f \in Urbs, l \in Nat :
             /\ f = td[c[i]].urb /\ l = td[c[i]].index
             /\ l + 1 \in 1 .. Filled(f) /\ priv[f][l + 1] = c[i]
      BY <2>1, LineTds DEF Placed
    <2>3. (Filled(f))' = Filled(f) /\ priv'[f] = priv[f]
      <3>1. CASE f # v
        BY <1>1, <3>1
      <3>2. CASE f = v
        <4>1. ~ Anew
          BY <1>11, <2>2, <3>2
        <4>2. Kept
          BY <1>7, <4>1
        <4>3. QED BY <3>2, <4>2
      <3>3. QED BY <3>1, <3>2
    <2>4. td'[c[i]].urb = f /\ td'[c[i]].index = l
      BY <1>10, <2>2
    <2>5. (Filled(td[c[i]].urb))' = (Filled(f))'
      BY <2>4 DEF Filled
    <2>6. QED BY <2>2, <2>3, <2>4, <2>5
  <1>13. Ordered(c, m)'
    <2> SUFFICES ASSUME NEW i \in 1 .. m, NEW j \in 1 .. m, i < j,
                        td'[c[i]].urb = td'[c[j]].urb
                 PROVE  td'[c[i]].index < td'[c[j]].index
      BY DEF Ordered
    <2>1. PICK i1 \in 1 .. n, j1 \in 1 .. n : i1 < j1 /\ c[i] = w[i1] /\ c[j] = w[j1]
      BY <1>3
    <2>2. td[c[i]].urb = td[c[j]].urb
      BY <1>10
    <2>3. td[c[i]].index < td[c[j]].index
      BY <2>1, <2>2 DEF Ordered
    <2>4. QED BY <1>10, <2>3
  <1>14. Counted(c, m)'
    <2> SUFFICES ASSUME NEW f \in Urbs
                 PROVE  Cardinality(Of(c, m, f)') + td_cnt'[f] = (Filled(f))'
      BY DEF Counted
    <2> DEFINE C == { c[i] : i \in 1 .. m }
               D == { w[i] : i \in 1 .. n }
    <2>1. \A a : a \in C <=> a \in D /\ a \notin P
      <3>1. ASSUME NEW a \in C PROVE a \in D /\ a \notin P
        <4>1. PICK i \in 1 .. m : a = c[i]
          OBVIOUS
        <4>2. PICK j \in 1 .. n : j \notin b .. e /\ c[i] = w[j]
          BY <1>3
        <4>3. QED BY <1>5, <4>1, <4>2
      <3>2. ASSUME NEW a \in D, a \notin P PROVE a \in C
        <4>1. PICK j \in 1 .. n : a = w[j]
          OBVIOUS
        <4>2. j \notin b .. e
          BY <3>2, <4>1 DEF P
        <4>3. PICK i \in 1 .. m : j = Old(b, e, i)
          BY <1>3, <4>2
        <4>4. a = c[i]
          BY <1>3, <4>1, <4>3
        <4>5. QED BY <4>4
      <3>3. QED BY <3>1, <3>2
    <2>2. \A a \in C : td'[a].urb = td[a].urb
      BY <1>10
    <2>3. Of(c, m, f)' = { a \in C : td'[a].urb = f }
      BY DEF Of
    <2>4. Of(w, n, f) = { a \in D : td[a].urb = f }
      BY DEF Of
    <2> HIDE DEF C, D
    <2>5. Of(c, m, f)' = Of(w, n, f) \ P
      BY <2>1, <2>2, <2>3, <2>4
    <2>6. CASE f = v
      <3>1. CASE Kept
        <4>1. b \in Nat /\ e \in Nat /\ td_cnt'[v] = td_cnt[v] + (e - b + 1)
          BY <1>1, <1>2, <3>1
        <4>2. Cardinality(Of(c, m, v)') = Cardinality(Of(w, n, v)) - (e - b + 1)
          BY <1>4, <2>5, <2>6
        <4>3. QED BY <1>8, <2>6, <3>1, <4>1, <4>2
      <3>2. CASE Anew
        <4>1. Of(c, m, f)' = {}
          BY <1>9, <2>5, <2>6, <3>2
        <4>2. QED BY <2>6, <3>2, <4>1, FS_EmptySet
      <3>3. QED BY <1>7, <3>1, <3>2
    <2>7. CASE f # v
      <3>1. Of(w, n, f) \ P = Of(w, n, f)
        BY <1>4, <2>7 DEF Of
      <3>2. Cardinality(Of(w, n, f)) + td_cnt[f] = Filled(f)
        BY DEF Counted
      <3>3. QED BY <1>1, <2>5, <2>7, <3>1, <3>2
    <2>8. QED BY <2>6, <2>7
  <1>15. QED BY <1>12, <1>13, <1>14

(* While nothing is submitted all TDs of an urb that is out are filled.    *)
LEMMA AllFilled ==
  ASSUME ShortControl, TypeOK, Tables, filling = NoUrb, NEW u \in Urbs
  PROVE  /\ Filled(u) = Len(priv[u]) /\ Len(priv[u]) \in Nat
         /\ Filled(u) > 0 => Len(Contents(u)) = Len(priv[u])
  <1>1. Filled(u) = Len(priv[u]) /\ Len(priv[u]) \in Nat
    BY FilledFits, TdAssumption DEF Filled
  <1>2. Len(Contents(u)) = Size(u)
    BY ContentsLen
  <1>3. QED BY <1>1, <1>2 DEF Tables

(* A sum is below a bound if what is added is below what is left of it.    *)
LEMMA SumBelow ==
  ASSUME NEW k \in Nat, NEW j \in Nat, NEW p \in Nat, j + 1 <= p - k - 1
  PROVE  k + j < p - 1
  OBVIOUS

(* A halted endpoint has the rest of the failed urb first in its queue.    *)
LEMMA RestFollows ==
  ASSUME ShortControl, TypeOK, Tables, NEW w, NEW n, NEW x, NEW y, NEW z,
         Line(w, n, x, y, z), halted, filling = NoUrb,
         NEW u, u = td[w[z]].urb, NEW k, k = td[w[z]].index,
         NEW r, r = Len(priv[u]) - k - 1
  PROVE  /\ r \in Nat /\ z + r <= n /\ u \in Urbs /\ k \in Nat
         /\ \A j \in 0 .. r : /\ z + j \in 1 .. n
                              /\ td[w[z + j]].urb = u /\ td[w[z + j]].index = k + j
  <1>1. /\ InLine(w, n, x, y, z) /\ Placed(w, n) /\ Served(w, n, z) /\ Halts(w, x, z)
    BY DEF Line
  <1>2. /\ n \in Nat /\ x \in Nat /\ z \in Nat /\ x < z /\ z <= n
        /\ w \in [1 .. n -> Addresses]
    BY <1>1 DEF InLine, Halts
  <1>3. u \in Urbs /\ k \in Nat /\ k < Filled(u)
    <2>1. z \in 1 .. n
      BY <1>2
    <2>2. QED BY <1>1, <2>1, LineTds
  <1>4. /\ Filled(u) = Len(priv[u]) /\ Len(priv[u]) \in Nat
        /\ Len(Contents(u)) = Len(priv[u])
    <2>1. Filled(u) = Len(priv[u]) /\ Len(priv[u]) \in Nat
      BY <1>3, AllFilled
    <2>2. Filled(u) > 0
      BY <1>3, <2>1
    <2>3. QED BY <1>3, <2>1, <2>2, AllFilled
  <1>5. r \in Nat
    BY <1>3, <1>4
  <1>6. Begins(z) = z
    BY DEF Begins
  <1> DEFINE S == { j \in Nat : j <= r => /\ z + j \in 1 .. n /\ td[w[z + j]].urb = u
                                          /\ td[w[z + j]].index = k + j }
  <1>7. 0 \in S
    BY <1>2, <1>3
  <1>8. ASSUME NEW j \in Nat, j \in S PROVE j + 1 \in S
    <2> SUFFICES ASSUME j + 1 <= r
                 PROVE  /\ z + (j + 1) \in 1 .. n /\ td[w[z + (j + 1)]].urb = u
                        /\ td[w[z + (j + 1)]].index = k + (j + 1)
      OBVIOUS
    <2>0. /\ z + j \in 1 .. n /\ td[w[z + j]].urb = u /\ td[w[z + j]].index = k + j
          /\ j \in Nat /\ j + 1 <= r
      BY <1>5, <1>8
    <2> HIDE DEF S
    <2>1. PICK i \in 1 .. n : i = z + j
      BY <2>0
    <2>2. td[w[i]].urb = u /\ td[w[i]].index = k + j /\ k + j < Len(priv[u]) - 1
      <3>1. td[w[i]].urb = u /\ td[w[i]].index = k + j
        BY <2>0, <2>1
      <3>2. PICK p : p = Len(priv[u])
        OBVIOUS
      <3>3. p \in Nat /\ r = p - k - 1 /\ k \in Nat /\ j \in Nat /\ j + 1 <= r
        BY <1>3, <1>4, <2>0, <3>2
      <3>4. k + j < p - 1
        <4>1. k \in Nat /\ j \in Nat /\ p \in Nat /\ j + 1 <= p - k - 1
          BY <3>3
        <4>2. QED BY <4>1, SumBelow
      <3>5. QED BY <3>1, <3>2, <3>4
    <2>3. i # n
      <3> SUFFICES ASSUME i = n PROVE FALSE
        OBVIOUS
      <3>1. Begins(z) <= n
        BY <1>2, <1>6
      <3>2. td[w[n]].index = Filled(u) - 1
        BY <1>1, <2>2, <3>1 DEF Served
      <3>3. QED BY <1>3, <1>4, <2>0, <2>2, <3>2
    <2>4. i \in 1 .. n - 1 /\ Begins(z) <= i
      BY <1>2, <1>6, <2>0, <2>1, <2>3
    <2>5. Successor(td[w[i]], td[w[i + 1]])
      BY <1>1, <2>4 DEF Served
    <2>6. td[w[i + 1]].urb = u /\ td[w[i + 1]].index = k + j + 1
      <3>1. td[w[i]].index # Len(Contents(u)) - 1
        BY <1>3, <1>4, <2>0, <2>2
      <3>2. td[w[i + 1]].urb = u /\ td[w[i + 1]].index = td[w[i]].index + 1
        BY <2>2, <2>5, <3>1 DEF Successor
      <3>3. QED BY <2>2, <3>2
    <2>7. i + 1 = z + (j + 1) /\ i + 1 \in 1 .. n /\ k + j + 1 = k + (j + 1)
      <3>1. j \in Nat /\ k \in Nat /\ n \in Nat /\ z \in Nat /\ i \in Nat /\ i <= n - 1 /\ i = z + j
        BY <1>2, <1>3, <2>0, <2>1, <2>4
      <3>2. i + 1 = z + (j + 1)
        BY <3>1
      <3>3. i + 1 \in 1 .. n
        BY <3>1
      <3>4. k + j + 1 = k + (j + 1)
        <4>1. \A p, q \in Nat : p + q + 1 = p + (q + 1)
          OBVIOUS
        <4>2. QED BY <3>1, <4>1, Zenon
      <3>5. QED BY <3>2, <3>3, <3>4
    <2>8. QED BY <2>6, <2>7
  <1>9. Nat \subseteq S
    BY <1>7, <1>8, NatSet
  <1>10. \A j \in 0 .. r : /\ z + j \in 1 .. n
                           /\ td[w[z + j]].urb = u /\ td[w[z + j]].index = k + j
    <2> SUFFICES ASSUME NEW j \in 0 .. r
                 PROVE  /\ z + j \in 1 .. n
                        /\ td[w[z + j]].urb = u /\ td[w[z + j]].index = k + j
      OBVIOUS
    <2>1. j \in Nat /\ j <= r
      BY <1>5
    <2>2. QED BY <1>9, <2>1
  <1>11. z + r <= n
    BY <1>5, <1>10
  <1>12. QED BY <1>3, <1>5, <1>10, <1>11

(* dl_reverse_done_list turns the done list of the hcca round.             *)
LEMMA ReversedIs ==
  ASSUME TypeOK, Tables, NEW w, NEW n, NEW x, NEW y, NEW z, Line(w, n, x, y, z),
         x = 0, y > 0, NEW t, t = Reversed(HccaDone)
  PROVE  /\ \A i \in 1 .. y : t[w[i]] = [td[w[i]] EXCEPT !.next_dl = IF i < y THEN w[i + 1] ELSE 0]
         /\ \A i \in y + 1 .. n : t[w[i]] = td[w[i]]
         /\ \A e \in Addresses : \E l \in Addresses \cup {0} :
               t[e] = td[e] \/ t[e] = [td[e] EXCEPT !.next_dl = l]
         /\ DOMAIN t = Addresses /\ t = [e \in Addresses |-> t[e]]
         /\ Range(HccaDone) = { w[i] : i \in 1 .. y } /\ Last(HccaDone) = w[1]
  <1>1. /\ InLine(w, n, x, y, z) /\ Linked(w, n, x, y, z) /\ Placed(w, n) /\ Ordered(w, n)
    BY DEF Line
  <1>2. /\ n \in Nat /\ y \in Nat /\ z \in Nat /\ y <= z /\ z <= n
        /\ w \in [1 .. n -> Addresses]
    BY <1>1 DEF InLine
  <1> DEFINE s == HccaDone
  <1>3. s = [i \in 1 .. y - x |-> w[y + 1 - i]]
    BY <1>1, ChainsAre
  <1> HIDE DEF s
  <1>4. /\ DOMAIN s = 1 .. y /\ Len(s) = y
        /\ \A i \in 1 .. y : s[i] = w[y + 1 - i]
    BY <1>2, <1>3
  <1>5. Last(s) = w[1]
    BY <1>2, <1>4 DEF Last
  <1>6. Range(s) = { w[i] : i \in 1 .. y }
    <2>1. \A i \in 1 .. y : s[i] = w[y + 1 - i] /\ y + 1 - i \in 1 .. y
      BY <1>2, <1>4
    <2>2. \A i \in 1 .. y : w[i] = s[y + 1 - i] /\ y + 1 - i \in 1 .. y
      BY <1>2, <1>4
    <2>3. Range(s) = { s[i] : i \in 1 .. y }
      BY <1>4 DEF Range
    <2>4. QED BY <2>1, <2>2, <2>3
  <1>7. \A i, j \in 1 .. n : w[i] = w[j] => i = j
    BY <1>1, LineInjective
  <1>8. ASSUME NEW i \in 1 .. y
        PROVE  Reversed(s)[w[i]] = [td[w[i]] EXCEPT !.next_dl = IF i < y THEN w[i + 1] ELSE 0]
    <2>1. i \in 1 .. n /\ w[i] \in Addresses /\ w[i] \in Range(s)
      BY <1>2, <1>6
    <2>2. Place(s, w[i]) = y + 1 - i
      <3>1. \A j \in 1 .. y : s[j] = w[i] <=> j = y + 1 - i
        <4> SUFFICES ASSUME NEW j \in 1 .. y PROVE s[j] = w[i] <=> j = y + 1 - i
          OBVIOUS
        <4>1. y + 1 - j \in 1 .. n /\ s[j] = w[y + 1 - j]
          BY <1>2, <1>4
        <4>2. s[j] = w[i] <=> y + 1 - j = i
          BY <1>7, <2>1, <4>1
        <4>3. QED BY <1>2, <4>2
      <3>2. y + 1 - i \in 1 .. y
        BY <1>2
      <3>3. QED BY <1>4, <3>1, <3>2 DEF Place
    <2>3. w[i] = s[1] <=> i = y
      BY <1>2, <1>4, <1>7, <2>1
    <2>4. i < y => s[y + 1 - i - 1] = w[i + 1]
      BY <1>2, <1>4
    <2>5. (IF w[i] = s[1] THEN 0 ELSE s[Place(s, w[i]) - 1]) = IF i < y THEN w[i + 1] ELSE 0
      BY <1>2, <2>2, <2>3, <2>4
    <2>6. Reversed(s)[w[i]] = [td[w[i]] EXCEPT !.next_dl =
                                IF w[i] = s[1] THEN 0 ELSE s[Place(s, w[i]) - 1]]
      BY <2>1, Zenon DEF Reversed
    <2>7. QED BY <2>5, <2>6
  <1>9. ASSUME NEW i \in y + 1 .. n PROVE Reversed(s)[w[i]] = td[w[i]]
    <2>1. i \in 1 .. n /\ w[i] \in Addresses
      BY <1>2
    <2>2. w[i] \notin Range(s)
      BY <1>2, <1>6, <1>7, <2>1
    <2>3. QED BY <2>1, <2>2 DEF Reversed
  <1>10. ASSUME NEW e \in Addresses
         PROVE  \E l \in Addresses \cup {0} :
                   Reversed(s)[e] = td[e] \/ Reversed(s)[e] = [td[e] EXCEPT !.next_dl = l]
    <2>1. CASE e \notin Range(s)
      BY <2>1 DEF Reversed
    <2>2. CASE e \in Range(s)
      <3>1. PICK i \in 1 .. y : e = w[i]
        BY <1>6, <2>2
      <3>2. (IF i < y THEN w[i + 1] ELSE 0) \in Addresses \cup {0}
        BY <1>2
      <3>3. QED BY <1>8, <3>1, <3>2
    <2>3. QED BY <2>1, <2>2
  <1>11. DOMAIN Reversed(s) = Addresses /\ Reversed(s) = [e \in Addresses |-> Reversed(s)[e]]
    BY DEF Reversed
  <1>12. QED BY <1>5, <1>6, <1>8, <1>9, <1>10, <1>11 DEF s

(* dl_reverse_done_list and the line: it stays what it is, or the TDs      *)
(* behind the failed one leave it, if there are any of its urb.            *)
Reverses(w, n, y, z, v, m) ==
  \/ v = w /\ m = n /\ halted' = halted
  \/ /\ halted /\ ~ halted' /\ y = z
     /\ \E rest \in Nat :
          /\ rest = Len(priv[td[w[z]].urb]) - td[w[z]].index - 1
          /\ \/ rest = 0 /\ v = w /\ m = n
             \/ rest > 0 /\ m = n - rest /\ v = Cut(w, n, z + 1, z + rest)

(* dl_reverse_done_list: the hcca's done list becomes td_list; after an    *)
(* error the rest of the failed urb leaves the queue.                      *)
LEMMA ReverseStep ==
  ASSUME ShortControl, TypeOK, Tables, NEW w, NEW n, NEW x, NEW y, NEW z,
         Line(w, n, x, y, z), dl_reverse_done_list
  PROVE  TypeOK' /\ Tables' /\ \E v, m : Line(v, m, y, y, z)' /\ Reverses(w, n, y, z, v, m)
  <1>1. /\ InLine(w, n, x, y, z) /\ Linked(w, n, x, y, z) /\ Placed(w, n)
        /\ Ordered(w, n) /\ Counted(w, n) /\ Served(w, n, z) /\ Halts(w, x, z)
    BY DEF Line
  <1>2. /\ n \in Nat /\ x \in Nat /\ y \in Nat /\ z \in Nat
        /\ x <= y /\ y <= z /\ z <= n /\ w \in [1 .. n -> Addresses]
    BY <1>1 DEF InLine
  <1>3. PICK s, failed : s = HccaDone /\ failed = { a \in Range(s) : td[a].CC # "NOERROR" }
    OBVIOUS
  <1>4. PICK a, u, rest :
           /\ a = CHOOSE e \in failed : TRUE
           /\ u = td[a].urb /\ rest = Len(priv[u]) - td[a].index - 1
    OBVIOUS
  <1>5. /\ UNCHANGED <<type, len, allocated, hwTailP, hc_done, priv, urb_del,
                       cnt, filling, actual_length, moved>>
        /\ filling = NoUrb /\ td_list = 0 /\ done_head # 0
        /\ td_list' = Last(s) /\ done_head' = 0 /\ td' = Reversed(s)
        /\ failed = {} \/ ~ halted => UNCHANGED <<hwHeadP, halted, td_cnt>>
        /\ ~ (failed = {} \/ ~ halted) =>
              /\ halted' = FALSE
              /\ hwHeadP' = IF rest > 0 THEN td[Last(priv[u])].NextTD ELSE hwHeadP
              /\ td_cnt' = [td_cnt EXCEPT ![u] = @ + IF rest > 0 THEN rest ELSE 0]
    BY <1>3, <1>4 DEF dl_reverse_done_list, setup, submission, results, Cleared, AfterUrb
  <1>6. \A e : Contents(e)' = Contents(e) /\ Size(e)' = Size(e)
    BY SetupKept DEF dl_reverse_done_list
  <1>7. x = 0 /\ y > 0
    <2>1. x > 0 => w[1] # 0
      BY <1>1, <1>2, LineTds
    <2>2. QED BY <1>1, <1>2, <1>5, <2>1 DEF Linked
  <1>8. /\ \A i \in 1 .. y :
              td'[w[i]] = [td[w[i]] EXCEPT !.next_dl = IF i < y THEN w[i + 1] ELSE 0]
        /\ \A i \in y + 1 .. n : td'[w[i]] = td[w[i]]
        /\ \A e \in Addresses : \E l \in Addresses \cup {0} :
               td'[e] = td[e] \/ td'[e] = [td[e] EXCEPT !.next_dl = l]
        /\ DOMAIN td' = Addresses /\ td' = [e \in Addresses |-> td'[e]]
        /\ Range(s) = { w[i] : i \in 1 .. y } /\ Last(s) = w[1]
    <2>1. PICK t : t = Reversed(HccaDone) /\ t = td'
      BY <1>3, <1>5
    <2>2. /\ \A i \in 1 .. y : t[w[i]] = [td[w[i]] EXCEPT !.next_dl = IF i < y THEN w[i + 1] ELSE 0]
          /\ \A i \in y + 1 .. n : t[w[i]] = td[w[i]]
          /\ \A e \in Addresses : \E l \in Addresses \cup {0} :
                t[e] = td[e] \/ t[e] = [td[e] EXCEPT !.next_dl = l]
          /\ DOMAIN t = Addresses /\ t = [e \in Addresses |-> t[e]]
          /\ Range(HccaDone) = { w[i] : i \in 1 .. y } /\ Last(HccaDone) = w[1]
      BY <1>7, <2>1, ReversedIs
    <2>3. /\ \A i \in 1 .. y :
                td'[w[i]] = [td[w[i]] EXCEPT !.next_dl = IF i < y THEN w[i + 1] ELSE 0]
          /\ \A i \in y + 1 .. n : td'[w[i]] = td[w[i]]
      BY <2>1, <2>2
    <2>4. \A e \in Addresses : \E l \in Addresses \cup {0} :
              td'[e] = td[e] \/ td'[e] = [td[e] EXCEPT !.next_dl = l]
      <3> SUFFICES ASSUME NEW e \in Addresses
                   PROVE  \E l \in Addresses \cup {0} :
                              td'[e] = td[e] \/ td'[e] = [td[e] EXCEPT !.next_dl = l]
        OBVIOUS
      <3>1. t[e] = td'[e]
        BY <2>1
      <3>2. \E l \in Addresses \cup {0} : t[e] = td[e] \/ t[e] = [td[e] EXCEPT !.next_dl = l]
        BY <2>2, Zenon
      <3>3. QED BY <3>1, <3>2, Zenon
    <2>5. DOMAIN td' = Addresses /\ td' = [e \in Addresses |-> td'[e]]
      BY <2>1, <2>2, Zenon
    <2>6. Range(s) = { w[i] : i \in 1 .. y } /\ Last(s) = w[1]
      BY <1>3, <2>2, Zenon
    <2>7. QED BY <2>3, <2>4, <2>5, <2>6, Zenon
  <1>9. \A i \in 1 .. n : /\ td'[w[i]].urb = td[w[i]].urb /\ td'[w[i]].index = td[w[i]].index
                          /\ td'[w[i]].NextTD = td[w[i]].NextTD /\ td'[w[i]].CC = td[w[i]].CC
    <2> SUFFICES ASSUME NEW i \in 1 .. n
                 PROVE  /\ td'[w[i]].urb = td[w[i]].urb /\ td'[w[i]].index = td[w[i]].index
                        /\ td'[w[i]].NextTD = td[w[i]].NextTD /\ td'[w[i]].CC = td[w[i]].CC
      OBVIOUS
    <2>1. td[w[i]] \in [urb : Urbs \cup {NoUrb}, index : Nat, R : BOOLEAN,
                        CBP : Int, BE : Int, NextTD : Addresses \cup {0},
                        next_dl : Addresses \cup {0},
                        CC : {"none", "NOERROR", "STALL", "UNDERRUN"}]
      BY <1>2 DEF TypeOK
    <2>2. CASE i \in 1 .. y
      <3>1. PICK l : td'[w[i]] = [td[w[i]] EXCEPT !.next_dl = l]
        <4>1. PICK l : l = IF i < y THEN w[i + 1] ELSE 0
          OBVIOUS
        <4>2. td'[w[i]] = [td[w[i]] EXCEPT !.next_dl = l]
          BY <1>8, <2>2, <4>1, Zenon
        <4>3. QED BY <4>2, Zenon
      <3>2. QED BY <2>1, <3>1
    <2>3. CASE i \in y + 1 .. n
      BY <1>8, <2>3
    <2>4. QED BY <1>2, <2>2, <2>3
  <1>10. \A i \in 1 .. y : td'[w[i]].next_dl = IF i < y THEN w[i + 1] ELSE 0
    <2> SUFFICES ASSUME NEW i \in 1 .. y
                 PROVE  td'[w[i]].next_dl = IF i < y THEN w[i + 1] ELSE 0
      OBVIOUS
    <2>1. td[w[i]] \in [urb : Urbs \cup {NoUrb}, index : Nat, R : BOOLEAN,
                        CBP : Int, BE : Int, NextTD : Addresses \cup {0},
                        next_dl : Addresses \cup {0},
                        CC : {"none", "NOERROR", "STALL", "UNDERRUN"}]
      BY <1>2 DEF TypeOK
    <2>2. PICK l : l = IF i < y THEN w[i + 1] ELSE 0
      OBVIOUS
    <2>3. td'[w[i]] = [td[w[i]] EXCEPT !.next_dl = l]
      BY <1>8, <2>2
    <2>4. QED BY <2>1, <2>2, <2>3
  <1>11. failed = IF halted /\ y = z THEN {w[z]} ELSE {}
    <2>1. \A i \in 1 .. y : td[w[i]].CC = "NOERROR" <=> ~ (halted /\ i = z)
      BY <1>1, <1>2, <1>7 DEF Halts
    <2>2. failed = { w[i] : i \in { j \in 1 .. y : halted /\ j = z } }
      BY <1>3, <1>8, <2>1
    <2>3. { j \in 1 .. y : halted /\ j = z } = IF halted /\ y = z THEN {z} ELSE {}
      BY <1>2, <1>7
    <2>4. QED BY <2>2, <2>3
  <1>12. halted /\ y = z =>
            /\ a = w[z] /\ rest \in Nat /\ z + rest <= n /\ u \in Urbs
            /\ \A j \in 0 .. rest : /\ z + j \in 1 .. n /\ td[w[z + j]].urb = u
                                    /\ td[w[z + j]].index = td[a].index + j
            /\ td[a].index \in Nat
    <2> HAVE halted /\ y = z
    <2>1. a = w[z]
      BY <1>4, <1>11
    <2>2. PICK k : k = td[w[z]].index
      OBVIOUS
    <2>3. u = td[w[z]].urb
      BY <1>4, <2>1
    <2>6. rest = Len(priv[u]) - k - 1
      BY <1>4, <2>1, <2>2
    <2>4. /\ rest \in Nat /\ z + rest <= n /\ u \in Urbs /\ k \in Nat
          /\ \A j \in 0 .. rest : /\ z + j \in 1 .. n
                                  /\ td[w[z + j]].urb = u /\ td[w[z + j]].index = k + j
      <3>1. halted /\ filling = NoUrb
        BY <1>5
      <3>2. halted
        BY <3>1
      <3>3. filling = NoUrb
        BY <3>1
      <3>4. QED BY <2>2, <2>3, <2>6, <3>2, <3>3, RestFollows, SMTT(30)
    <2>5. QED BY <2>1, <2>2, <2>4
  <1>13. TypeOK'
    <2>1. td' \in [Addresses -> [urb : Urbs \cup {NoUrb}, index : Nat, R : BOOLEAN,
                           CBP : Int, BE : Int, NextTD : Addresses \cup {0},
                           next_dl : Addresses \cup {0},
                           CC : {"none", "NOERROR", "STALL", "UNDERRUN"}]]
      <3> DEFINE T == [urb : Urbs \cup {NoUrb}, index : Nat, R : BOOLEAN,
                           CBP : Int, BE : Int, NextTD : Addresses \cup {0},
                           next_dl : Addresses \cup {0},
                           CC : {"none", "NOERROR", "STALL", "UNDERRUN"}]
      <3>1. td \in [Addresses -> T]
        BY DEF TypeOK
      <3>2. \A t \in T : \A l \in Addresses \cup {0} : [t EXCEPT !.next_dl = l] \in T
        OBVIOUS
      <3> HIDE DEF T
      <3>3. \A e \in Addresses : td'[e] \in T
        BY <1>8, <3>1, <3>2
      <3>4. td' \in [Addresses -> T]
        BY <1>8, <3>3
      <3>5. QED BY <3>4 DEF T
    <2>2. td_cnt' \in [Urbs -> Nat] /\ halted' \in BOOLEAN
      <3>1. td_cnt \in [Urbs -> Nat] /\ halted \in BOOLEAN
        BY DEF TypeOK
      <3>2. CASE failed = {} \/ ~ halted
        BY <1>5, <3>1, <3>2
      <3>3. CASE ~ (failed = {} \/ ~ halted)
        <4>1. u \in Urbs /\ rest \in Nat
          BY <1>11, <1>12, <3>3
        <4>2. PICK q \in Nat : q = IF rest > 0 THEN rest ELSE 0
          BY <4>1
        <4>3. td_cnt' = [td_cnt EXCEPT ![u] = @ + q] /\ halted' = FALSE
          BY <1>5, <3>3, <4>2
        <4>4. td_cnt[u] + q \in Nat
          BY <3>1, <4>1
        <4>5. td_cnt' = [td_cnt EXCEPT ![u] = td_cnt[u] + q]
          BY <4>3
        <4>6. td_cnt' \in [Urbs -> Nat]
          BY <3>1, <4>4, <4>5
        <4>7. QED BY <4>3, <4>6
      <3>4. QED BY <3>2, <3>3
    <2>3. QED BY <1>5, <2>1, <2>2 DEF TypeOK
  <1>14. Tables'
    BY <1>5, <1>6 DEF Tables
  <1>15. \A e \in Urbs : (Filled(e))' = Filled(e)
    BY <1>5 DEF Filled
  <1>16. cnt = 0 /\ filling = NoUrb /\ filling' = NoUrb
    BY <1>5 DEF Tables
  <1>17. CASE /\ UNCHANGED <<hwHeadP, td_cnt>>
              /\ \/ halted' = halted /\ (halted => y < z)
                 \/ halted' = FALSE /\ y = z /\ halted /\ rest = 0
    <2>1. InLine(w, n, y, y, z)
      BY <1>2 DEF InLine
    <2>2. Linked(w, n, y, y, z)'
      <3>1. \A i \in y + 1 .. z :
              td'[w[i]].NextTD = IF i = y + 1 \/ i = y + 1 THEN 0 ELSE w[i - 1]
        <4> SUFFICES ASSUME NEW i \in y + 1 .. z
                     PROVE  td'[w[i]].NextTD = IF i = y + 1 THEN 0 ELSE w[i - 1]
          OBVIOUS
        <4>1. i \in x + 1 .. z /\ i \in 1 .. n /\ i # x + 1
          BY <1>2, <1>7
        <4>2. td[w[i]].NextTD = IF i = x + 1 \/ i = y + 1 THEN 0 ELSE w[i - 1]
          BY <1>1, <4>1 DEF Linked
        <4>3. QED BY <1>9, <4>1, <4>2
      <3>2. \A i \in z + 1 .. n : td'[w[i]].NextTD = IF i < n THEN w[i + 1] ELSE hwTailP'
        <4> SUFFICES ASSUME NEW i \in z + 1 .. n
                     PROVE  td'[w[i]].NextTD = IF i < n THEN w[i + 1] ELSE hwTailP
          BY <1>5
        <4>1. i \in 1 .. n
          BY <1>2
        <4>2. td[w[i]].NextTD = IF i < n THEN w[i + 1] ELSE hwTailP
          BY <1>1 DEF Linked
        <4>3. QED BY <1>9, <4>1, <4>2
      <3>3. /\ td_list' = IF y > 0 THEN w[1] ELSE 0
            /\ done_head' = IF y > y THEN w[y] ELSE 0
            /\ hc_done' = IF z > y THEN w[z] ELSE 0
            /\ hwHeadP' = IF z < n THEN w[z + 1] ELSE hwTailP'
        BY <1>1, <1>2, <1>5, <1>7, <1>8, <1>17 DEF Linked
      <3>4. QED BY <1>10, <3>1, <3>2, <3>3 DEF Linked
    <2>3. Placed(w, n)' /\ Ordered(w, n)' /\ Counted(w, n)'
      BY <1>1, <1>5, <1>9, <1>15, <1>17, LineKept
    <2>4. Halts(w, y, z)'
      <3>1. \A i \in y + 1 .. z : td'[w[i]].CC = "NOERROR" <=> ~ (halted' /\ i = z)
        <4> SUFFICES ASSUME NEW i \in y + 1 .. z
                     PROVE  td'[w[i]].CC = "NOERROR" <=> ~ (halted' /\ i = z)
          OBVIOUS
        <4>1. i \in x + 1 .. z /\ i \in 1 .. n /\ y # z
          BY <1>2, <1>7
        <4>2. td[w[i]].CC = "NOERROR" <=> ~ (halted /\ i = z)
          BY <1>1, <4>1 DEF Halts
        <4>3. QED BY <1>9, <1>17, <4>1, <4>2
      <3>2. QED BY <1>17, <3>1 DEF Halts
    <2>5. Served(w, n, z)'
      <3>1. Begins(z) <= Begins(z)' /\ Begins(z)' \in Nat /\ Begins(z) \in Nat
        BY <1>2, <1>17 DEF Begins
      <3>2. ASSUME NEW i \in 1 .. n - 1, Begins(z)' <= i
            PROVE  Successor(td[w[i]], td[w[i + 1]])'
        <4>1. i \in 1 .. n /\ i + 1 \in 1 .. n /\ Begins(z) <= i
          BY <1>2, <3>1, <3>2
        <4>2. Successor(td[w[i]], td[w[i + 1]])
          BY <1>1, <4>1 DEF Served
        <4>3. QED BY <1>6, <1>9, <4>1, <4>2 DEF Successor
      <3>3. ASSUME Begins(z)' <= n
            PROVE  td'[w[n]].index = (Filled(td[w[n]].urb) - 1)'
        <4>1. n \in 1 .. n /\ Begins(z) <= n
          BY <1>2, <1>7, <3>1, <3>3
        <4>2. PICK e \in Urbs : e = td[w[n]].urb /\ td[w[n]].index = Filled(e) - 1
          BY <1>1, <4>1 DEF Placed, Served
        <4>3. (Filled(td[w[n]].urb))' = (Filled(e))'
          BY <1>9, <4>1, <4>2 DEF Filled
        <4>4. QED BY <1>9, <1>15, <4>1, <4>2, <4>3
      <3>4. QED BY <1>16, <3>2, <3>3 DEF Served
    <2>6. Line(w, n, y, y, z)'
      BY <2>1, <2>2, <2>3, <2>4, <2>5 DEF Line, InLine
    <2>7. Reverses(w, n, y, z, w, n)
      <3>1. CASE halted' = halted
        BY <3>1 DEF Reverses
      <3>2. CASE halted' = FALSE /\ y = z /\ halted /\ rest = 0
        <4>1. rest = Len(priv[td[w[z]].urb]) - td[w[z]].index - 1
          BY <1>4, <1>12, <3>2
        <4>2. QED BY <3>2, <4>1 DEF Reverses
      <3>3. QED BY <1>17, <3>1, <3>2
    <2>8. QED BY <1>13, <1>14, <2>6, <2>7
  <1>18. CASE /\ halted /\ y = z /\ rest > 0 /\ halted' = FALSE
              /\ hwHeadP' = td[Last(priv[u])].NextTD
              /\ td_cnt' = [td_cnt EXCEPT ![u] = @ + rest]
    <2>1. PICK b, e, m, c : /\ b = z + 1 /\ e = z + rest /\ m = n - (e - b + 1)
                            /\ c = Cut(w, n, b, e)
      OBVIOUS
    <2>2. rest \in Nat /\ e <= n /\ m = n - rest /\ e - b + 1 = rest
          /\ b \in 1 .. n /\ e \in b .. n
      BY <1>2, <1>12, <1>18, <2>1
    <2>3. Block(w, n, b, e, m, c)
      BY <1>2, <2>1, <2>2 DEF Block
    <2>4. /\ m \in Nat /\ c \in [1 .. m -> Addresses]
          /\ \A i \in 1 .. m : c[i] = w[Old(b, e, i)] /\ Old(b, e, i) \in 1 .. n
      BY <1>1, <2>3, CutIs
    <2>5. \A i \in 1 .. m : Old(b, e, i) = IF i <= y THEN i ELSE i + rest
      BY <1>2, <1>18, <2>1, <2>2 DEF Old
    <2>6. y <= m
      BY <1>2, <1>18, <2>1, <2>2
    <2>7. Cuts(w, n, b, e, u)
      <3>1. IsOf(w, b, e, u)
        <4> SUFFICES ASSUME NEW i \in b .. e PROVE td[w[i]].urb = u
          BY DEF IsOf
        <4>1. i - z \in 0 .. rest /\ z + (i - z) = i
          BY <1>2, <2>1, <2>2
        <4>2. QED BY <1>12, <1>18, <4>1
      <3>2. \A f \in Urbs : f # u => td_cnt'[f] = td_cnt[f]
        BY <1>18 DEF TypeOK
      <3>3. td_cnt'[u] = td_cnt[u] + (e - b + 1) /\ u \in Urbs
        BY <1>12, <1>18, <2>2 DEF TypeOK
      <3>4. QED BY <1>5, <1>9, <1>15, <3>1, <3>2, <3>3 DEF Cuts
    <2>8. Placed(c, m)' /\ Ordered(c, m)' /\ Counted(c, m)'
      BY <1>1, <2>3, <2>7, CutKept
    <2>9. \A i \in 1 .. m : /\ td'[c[i]].urb = td[c[i]].urb /\ td'[c[i]].index = td[c[i]].index
                            /\ td'[c[i]].NextTD = td[c[i]].NextTD
      BY <1>9, <2>4
    <2>10. \A i \in 1 .. y : c[i] = w[i]
      BY <2>4, <2>5, <2>6, <1>2
    <2>11. \A i \in y + 1 .. m : c[i] = w[i + rest] /\ i + rest \in z + rest + 1 .. n
      BY <1>2, <1>18, <2>2, <2>4, <2>5
    <2>12. InLine(c, m, y, y, y)
      BY <1>2, <2>4, <2>6 DEF InLine
    <2>13. \A i \in z + 1 .. n : td[w[i]].NextTD = IF i < n THEN w[i + 1] ELSE hwTailP
      BY <1>1 DEF Linked
    <2>14. Linked(c, m, y, y, y)'
      <3>1. Last(priv[u]) = w[e]
        <4>1. /\ td[w[e]].urb = u /\ td[w[e]].index = td[a].index + rest /\ e \in 1 .. n
              /\ td[a].index \in Nat /\ u \in Urbs
          <5>1. rest \in 0 .. rest /\ e = z + rest
            BY <2>1, <2>2
          <5>2. QED BY <1>12, <1>18, <5>1
        <4>2. priv[u][td[w[e]].index + 1] = w[e]
          BY <1>1, <4>1 DEF Placed
        <4>3. Len(priv[u]) \in Nat
          BY <4>1 DEF TypeOK
        <4>4. td[w[e]].index + 1 = Len(priv[u])
          <5>1. PICK p, q, l : p = Len(priv[u]) /\ q = td[a].index /\ l = td[w[e]].index
            OBVIOUS
          <5>2. p \in Nat /\ q \in Nat /\ l = q + rest /\ rest = p - q - 1
            BY <1>4, <4>1, <4>3, <5>1, Zenon
          <5>3. l + 1 = p
            BY <5>2
          <5>4. QED BY <5>1, <5>3, Zenon
        <4>5. QED BY <4>2, <4>4 DEF Last
      <3>2. hwHeadP' = IF y < m THEN c[y + 1] ELSE hwTailP'
        <4>1. e \in z + 1 .. n
          BY <1>2, <2>1, <2>2
        <4>2. hwHeadP' = IF e < n THEN w[e + 1] ELSE hwTailP
          BY <1>18, <2>13, <3>1, <4>1
        <4>3. e < n <=> y < m
          BY <1>2, <1>18, <2>1, <2>2
        <4>4. y < m => c[y + 1] = w[e + 1]
          <5> HAVE y < m
          <5>1. y + 1 \in y + 1 .. m /\ y + 1 + rest = e + 1
            BY <1>2, <1>18, <2>1, <2>2, <2>4
          <5>2. QED BY <2>11, <5>1
        <4>5. QED BY <1>5, <4>2, <4>3, <4>4
      <3>3. \A i \in 1 .. y : td'[c[i]].next_dl = IF i < y THEN c[i + 1] ELSE 0
        BY <1>2, <1>10, <2>10
      <3>4. ASSUME NEW i \in y + 1 .. m
            PROVE  td'[c[i]].NextTD = IF i < m THEN c[i + 1] ELSE hwTailP'
        <4>1. /\ i \in 1 .. m /\ c[i] = w[i + rest] /\ i + rest \in z + 1 .. n
              /\ (i < m <=> i + rest < n)
          BY <1>2, <1>18, <2>2, <2>4, <2>11
        <4>2. td[c[i]].NextTD = IF i + rest < n THEN w[i + rest + 1] ELSE hwTailP
          BY <2>13, <4>1
        <4>3. i < m => c[i + 1] = w[i + rest + 1]
          <5> HAVE i < m
          <5>1. i + 1 \in y + 1 .. m /\ i + 1 + rest = i + rest + 1
            BY <1>2, <2>2, <2>4
          <5>2. QED BY <2>11, <5>1
        <4>4. QED BY <1>5, <2>9, <4>1, <4>2, <4>3
      <3>5. /\ td_list' = IF y > 0 THEN c[1] ELSE 0
            /\ done_head' = 0
            /\ hc_done' = 0
        <4>1. hc_done = 0
          BY <1>1, <1>2, <1>18 DEF Linked
        <4>2. 1 \in 1 .. y /\ td_list' = w[1]
          BY <1>2, <1>5, <1>7, <1>8
        <4>3. QED BY <1>5, <1>7, <2>10, <4>1, <4>2
      <3>6. \A i \in y + 1 .. y : FALSE
        BY <1>2
      <3>7. ~ (y > y)
        BY <1>2
      <3>8. /\ done_head' = IF y > y THEN c[y] ELSE 0
            /\ hc_done' = IF y > y THEN c[y] ELSE 0
        BY <3>5, <3>7, Zenon
      <3>9. \A i \in y + 1 .. y :
              td'[c[i]].NextTD = IF i = y + 1 \/ i = y + 1 THEN 0 ELSE c[i - 1]
        BY <3>6
      <3>10. \A i \in y + 1 .. m : td'[c[i]].NextTD = IF i < m THEN c[i + 1] ELSE hwTailP'
        BY <3>4
      <3>11. td_list' = IF y > 0 THEN c[1] ELSE 0
        BY <3>5
      <3>12. QED BY <3>2, <3>3, <3>8, <3>9, <3>10, <3>11, Zenon DEF Linked
    <2>15. Halts(c, y, y)'
      BY <1>2, <1>18 DEF Halts
    <2>16. Served(c, m, y)'
      <3>1. Begins(y)' = y + 1 /\ Begins(z) = z
        BY <1>18 DEF Begins
      <3>2. ASSUME NEW i \in 1 .. m - 1, y + 1 <= i
            PROVE  Successor(td[c[i]], td[c[i + 1]])'
        <4>1. /\ i \in 1 .. m /\ i + 1 \in 1 .. m /\ c[i] = w[i + rest]
              /\ i + rest \in 1 .. n - 1 /\ Begins(z) <= i + rest
          BY <1>2, <1>18, <2>2, <2>4, <2>11, <3>1, <3>2
        <4>2. c[i + 1] = w[i + rest + 1]
          <5>1. i + 1 \in y + 1 .. m /\ i + 1 + rest = i + rest + 1
            BY <1>2, <2>2, <2>4, <3>2
          <5>2. QED BY <2>11, <5>1
        <4>3. Successor(td[c[i]], td[c[i + 1]])
          BY <1>1, <4>1, <4>2 DEF Served
        <4>4. QED BY <1>6, <2>9, <4>1, <4>3 DEF Successor
      <3>3. ASSUME y + 1 <= m
            PROVE  td'[c[m]].index = (Filled(td[c[m]].urb) - 1)'
        <4>1. m \in 1 .. m /\ c[m] = w[n] /\ n \in 1 .. n /\ Begins(z) <= n
          <5>1. m \in y + 1 .. m /\ m \in 1 .. m /\ m + rest = n /\ n \in 1 .. n /\ Begins(z) <= n
            BY <1>2, <1>18, <2>2, <2>4, <3>1, <3>3
          <5>2. QED BY <2>11, <5>1
        <4>2. PICK f \in Urbs : f = td[c[m]].urb /\ td[c[m]].index = Filled(f) - 1
          BY <1>1, <4>1 DEF Placed, Served
        <4>3. (Filled(td[c[m]].urb))' = (Filled(f))'
          BY <2>9, <4>1, <4>2 DEF Filled
        <4>4. QED BY <1>15, <2>9, <4>1, <4>2, <4>3
      <3>4. QED BY <1>16, <3>1, <3>2, <3>3 DEF Served
    <2>17. Line(c, m, y, y, y)'
      BY <2>8, <2>12, <2>14, <2>15, <2>16 DEF Line, InLine
    <2>18. Line(c, m, y, y, z)'
      BY <1>18, <2>17
    <2>19. Reverses(w, n, y, z, c, m)
      <3>1. rest = Len(priv[td[w[z]].urb]) - td[w[z]].index - 1
        BY <1>4, <1>12, <1>18
      <3>2. m = n - rest /\ c = Cut(w, n, z + 1, z + rest) /\ rest \in Nat /\ rest > 0
        BY <1>18, <2>1, <2>2
      <3>3. QED BY <1>18, <3>1, <3>2 DEF Reverses
    <2>20. QED BY <1>13, <1>14, <2>18, <2>19
  <1>19. QED
    <2>1. CASE failed = {} \/ ~ halted
      <3>1. halted => y < z
        BY <1>2, <1>11, <2>1
      <3>2. QED BY <1>5, <1>17, <2>1, <3>1
    <2>2. CASE ~ (failed = {} \/ ~ halted)
      <3>1. halted /\ y = z
        BY <1>11, <2>2
      <3>2. CASE rest > 0
        BY <1>5, <1>18, <2>2, <3>1, <3>2
      <3>3. CASE ~ (rest > 0)
        <4>1. td_cnt' = td_cnt
          BY <1>5, <1>12, <2>2, <3>1, <3>3 DEF TypeOK
        <4>2. rest = 0
          BY <1>12, <3>1, <3>3
        <4>3. hwHeadP' = hwHeadP /\ halted' = FALSE
          BY <1>5, <2>2, <3>3
        <4>4. QED BY <1>17, <3>1, <4>1, <4>2, <4>3
      <3>4. QED BY <3>2, <3>3
    <2>3. QED BY <2>1, <2>2

(* urb_rm_priv gives back the TDs of an urb, and no other's.               *)
LEMMA FreedTables ==
  ASSUME TypeOK, Tables, NEW u \in Urbs, RmPriv(u), UNCHANGED setup,
         hwTailP' = hwTailP, filling' = NoUrb, cnt' = 0
  PROVE  /\ Tables' /\ priv' \in [Urbs -> Seq(Addresses)] /\ priv'[u] = <<>>
         /\ \A v \in Urbs : v # u => priv'[v] = priv[v]
  <1>1. /\ allocated' = allocated \ Range(priv[u])
        /\ priv' = [priv EXCEPT ![u] = <<>>]
    BY DEF RmPriv
  <1>2. /\ priv' \in [Urbs -> Seq(Addresses)] /\ priv'[u] = <<>>
        /\ \A v \in Urbs : v # u => priv'[v] = priv[v]
    BY <1>1 DEF TypeOK
  <1>3. \A v : Size(v)' = Size(v)
    BY SetupKept
  <1>4. \A v \in Urbs : Len(priv'[v]) = 0 \/ Len(priv'[v]) = Size(v)
    BY <1>2 DEF Tables
  <1>5. Len(priv'[u]) = 0 /\ DOMAIN priv'[u] = {}
    BY <1>2
  <1>6. \A v \in Urbs : \A i \in DOMAIN priv'[v] : priv'[v][i] # hwTailP
    BY <1>2, <1>5 DEF Tables
  <1>7. \A v, v1 \in Urbs : \A i \in DOMAIN priv'[v], j \in DOMAIN priv'[v1] :
           priv'[v][i] = priv'[v1][j] => v = v1 /\ i = j
    <2> SUFFICES ASSUME NEW v \in Urbs, NEW v1 \in Urbs, NEW i \in DOMAIN priv'[v],
                        NEW j \in DOMAIN priv'[v1], priv'[v][i] = priv'[v1][j]
                 PROVE  v = v1 /\ i = j
      OBVIOUS
    <2>1. v # u /\ v1 # u
      BY <1>5
    <2>2. priv'[v] = priv[v] /\ priv'[v1] = priv[v1]
      BY <1>2, <2>1
    <2>3. i \in DOMAIN priv[v] /\ j \in DOMAIN priv[v1] /\ priv[v][i] = priv[v1][j]
      BY <2>2, Zenon
    <2>4. \A f, g \in Urbs : \A k \in DOMAIN priv[f], l \in DOMAIN priv[g] :
              priv[f][k] = priv[g][l] => f = g /\ k = l
      BY DEF Tables
    <2>5. QED BY <2>3, <2>4, Zenon
  <1>8. allocated' = {hwTailP} \cup UNION { Range(priv'[v]) : v \in Urbs }
    <2>1. allocated = {hwTailP} \cup UNION { Range(priv[v]) : v \in Urbs }
      BY DEF Tables
    <2>2. hwTailP \notin Range(priv[u])
      BY DEF Tables, Range
    <2>3. \A v \in Urbs : v # u => Range(priv[v]) \cap Range(priv[u]) = {}
      BY DEF Tables, Range
    <2>4. \A v \in Urbs : Range(priv'[v]) = IF v = u THEN {} ELSE Range(priv[v])
      BY <1>2, <1>5 DEF Range
    <2>5. \A e : e \in allocated <=> e = hwTailP \/ \E v \in Urbs : e \in Range(priv[v])
      BY <2>1
    <2>6. \A e : e \in allocated' <=> e = hwTailP \/ \E v \in Urbs : e \in Range(priv'[v])
      BY <1>1, <2>2, <2>3, <2>4, <2>5
    <2>7. QED BY <2>6
  <1>9. QED BY <1>2, <1>3, <1>4, <1>6, <1>7, <1>8 DEF Tables

(* dl_transfer_length returns a number.                                    *)
LEMMA TransferType ==
  ASSUME TypeOK, NEW u \in Urbs, NEW a \in Addresses
  PROVE  dl_transfer_length(u, td[a]) \in Int
  <1>1. td[a].BE \in Int /\ td[a].CBP \in Int /\ actual_length[u] \in Int
    BY DEF TypeOK
  <1>2. QED BY <1>1 DEF dl_transfer_length, Base

(* DoneTd: the first TD of td_list leaves the line; with the last one of   *)
(* an urb its table goes, or it is filled again.                           *)
LEMMA DoneStep ==
  ASSUME ShortControl, TypeOK, Tables, NEW w, NEW n, NEW x, NEW y, NEW z,
         Line(w, n, x, y, z), DoneTd, NEW c, c = Cut(w, n, 1, 1)
  PROVE  TypeOK' /\ Tables' /\ Line(c, n - 1, x - 1, y - 1, z - 1)'
  <1>1. /\ InLine(w, n, x, y, z) /\ Linked(w, n, x, y, z) /\ Placed(w, n)
        /\ Ordered(w, n) /\ Counted(w, n) /\ Served(w, n, z) /\ Halts(w, x, z)
    BY DEF Line
  <1>2. /\ n \in Nat /\ x \in Nat /\ y \in Nat /\ z \in Nat
        /\ x <= y /\ y <= z /\ z <= n /\ w \in [1 .. n -> Addresses]
    BY <1>1 DEF InLine
  <1>3. PICK a, u, length, last, requeue :
           /\ a = td_list /\ u = td[a].urb /\ length = dl_transfer_length(u, td[a])
           /\ last = (td_cnt[u] + 1 = Len(priv[u]))
           /\ requeue = (last /\ type = "INTERRUPT" /\ ~ urb_del[u])
    OBVIOUS
  <1>4. /\ UNCHANGED <<type, len, hwHeadP, hwTailP, halted, hc_done, done_head>>
        /\ filling = NoUrb /\ td_list # 0
        /\ td_list' = td[a].next_dl /\ td' = [td EXCEPT ![a] = NoTd]
        /\ urb_del' = [urb_del EXCEPT ![u] = @ /\ ~ last]
        /\ requeue => /\ filling' = u /\ cnt' = 0
                      /\ td_cnt' = [td_cnt EXCEPT ![u] = 0]
                      /\ actual_length' = [actual_length EXCEPT ![u] = 0]
                      /\ moved' = [moved EXCEPT ![u] = 0]
                      /\ UNCHANGED <<allocated, priv>>
        /\ ~ requeue =>
              /\ td_cnt' = [td_cnt EXCEPT ![u] = IF last THEN 0 ELSE @ + 1]
              /\ actual_length' = [actual_length EXCEPT ![u] = IF last THEN 0 ELSE length]
              /\ moved' = [moved EXCEPT ![u] = IF last THEN 0 ELSE @]
              /\ last => RmPriv(u)
              /\ ~ last => UNCHANGED <<allocated, priv>>
              /\ UNCHANGED <<cnt, filling>>
    BY <1>3 DEF DoneTd, setup, ed, Forget, submission
  <1>5. \A e : Contents(e)' = Contents(e) /\ Size(e)' = Size(e)
    BY SetupKept DEF DoneTd
  <1>6. x > 0 /\ a = w[1] /\ 1 \in 1 .. n
    <2>1. td_list = IF x > 0 THEN w[1] ELSE 0
      BY <1>1 DEF Linked
    <2>2. x > 0 /\ a = w[1]
      BY <1>3, <1>4, <2>1
    <2>3. QED BY <1>2, <2>2
  <1>7. u \in Urbs /\ a \in Addresses /\ a # 0
    BY <1>1, <1>3, <1>6, LineTds
  <1>8. cnt = 0 /\ (requeue \in BOOLEAN /\ last \in BOOLEAN) /\ (requeue => last)
    BY <1>3, <1>4 DEF Tables
  <1>9. /\ length \in Int /\ NoTd.urb = NoUrb
        /\ NoTd \in [urb : Urbs \cup {NoUrb}, index : Nat, R : BOOLEAN,
                     CBP : Int, BE : Int, NextTD : Addresses \cup {0},
                     next_dl : Addresses \cup {0},
                     CC : {"none", "NOERROR", "STALL", "UNDERRUN"}]
    BY <1>3, <1>7, TransferType DEF NoTd
  <1>10. /\ Filled(u) = Len(priv[u]) /\ Len(priv[u]) \in Nat /\ Filled(u) > 0
    <2>1. Filled(u) = Len(priv[u]) /\ Len(priv[u]) \in Nat
      BY <1>4, <1>7, AllFilled
    <2>2. td[a].index \in Nat /\ td[a].index < Filled(u)
      BY <1>1, <1>3, <1>6, LineTds
    <2>3. QED BY <2>1, <2>2
  <1>11. /\ Tables' /\ priv' \in [Urbs -> Seq(Addresses)]
         /\ \A v \in Urbs : v # u => priv'[v] = priv[v]
         /\ ~ requeue => filling' = NoUrb /\ cnt' = 0
         /\ last /\ ~ requeue => priv'[u] = <<>>
         /\ ~ last \/ requeue => priv' = priv
    <2>1. CASE last /\ ~ requeue
      <3>1. RmPriv(u) /\ UNCHANGED setup /\ hwTailP' = hwTailP /\ filling' = NoUrb /\ cnt' = 0
        BY <1>4, <1>8, <2>1 DEF setup
      <3>2. QED BY <1>7, <2>1, <3>1, FreedTables
    <2>2. CASE requeue
      <3>1. priv[u] # <<>> /\ u # NoUrb
        BY <1>7, <1>10, TdAssumption
      <3>2. /\ priv' = priv /\ allocated' = allocated /\ hwTailP' = hwTailP
            /\ filling' = u /\ cnt' = 0
        BY <1>4, <2>2
      <3>3. Tables'
        BY <1>5, <1>10, <3>1, <3>2 DEF Tables
      <3>4. QED BY <1>8, <2>2, <3>2, <3>3 DEF TypeOK
    <2>3. CASE ~ last
      <3>1. /\ priv' = priv /\ allocated' = allocated /\ hwTailP' = hwTailP
            /\ filling' = filling /\ cnt' = cnt /\ ~ requeue
        BY <1>4, <1>8, <2>3
      <3>2. Tables'
        BY <1>5, <3>1 DEF Tables
      <3>3. QED BY <1>4, <1>8, <2>3, <3>1, <3>2 DEF TypeOK
    <2>4. QED BY <1>8, <2>1, <2>2, <2>3
  <1>12. /\ td_cnt' \in [Urbs -> Nat] /\ td_cnt'[u] = IF last THEN 0 ELSE td_cnt[u] + 1
         /\ \A v \in Urbs : v # u => td_cnt'[v] = td_cnt[v]
    <2>1. td_cnt \in [Urbs -> Nat]
      BY DEF TypeOK
    <2>2. td_cnt' = [td_cnt EXCEPT ![u] = IF last THEN 0 ELSE td_cnt[u] + 1]
      BY <1>4, <1>8
    <2>3. QED BY <1>7, <2>1, <2>2
  <1>13. TypeOK'
    <2>1. actual_length' \in [Urbs -> Int] /\ moved' \in [Urbs -> Int]
      <3>1. PICK l \in Int, q \in Int :
               /\ actual_length' = [actual_length EXCEPT ![u] = l]
               /\ moved' = [moved EXCEPT ![u] = q]
        <4>1. moved[u] \in Int
          BY <1>7 DEF TypeOK
        <4>2. CASE requeue
          BY <1>4, <4>2
        <4>3. CASE ~ requeue
          <5>1. /\ actual_length' = [actual_length EXCEPT ![u] = IF last THEN 0 ELSE length]
                /\ moved' = [moved EXCEPT ![u] = IF last THEN 0 ELSE moved[u]]
            BY <1>4, <4>3
          <5>2. (IF last THEN 0 ELSE length) \in Int /\ (IF last THEN 0 ELSE moved[u]) \in Int
            BY <1>9, <4>1
          <5>3. QED BY <5>1, <5>2
        <4>4. QED BY <4>2, <4>3
      <3>2. QED BY <3>1 DEF TypeOK
    <2>2. urb_del' \in [Urbs -> BOOLEAN] /\ cnt' \in Nat /\ filling' \in Urbs \cup {NoUrb}
      BY <1>4, <1>7, <1>8, <1>11 DEF TypeOK
    <2>3. td' \in [Addresses -> [urb : Urbs \cup {NoUrb}, index : Nat, R : BOOLEAN,
                     CBP : Int, BE : Int, NextTD : Addresses \cup {0},
                     next_dl : Addresses \cup {0},
                     CC : {"none", "NOERROR", "STALL", "UNDERRUN"}]]
      BY <1>4, <1>9 DEF TypeOK
    <2>4. QED BY <1>4, <1>11, <1>12, <2>1, <2>2, <2>3 DEF TypeOK
  <1>14. PICK m, x1, y1, z1 : m = n - 1 /\ x1 = x - 1 /\ y1 = y - 1 /\ z1 = z - 1
    OBVIOUS
  <1>15. Block(w, n, 1, 1, m, c)
    BY <1>2, <1>6, <1>14 DEF Block
  <1>16. /\ m \in Nat /\ c \in [1 .. m -> Addresses]
         /\ \A i \in 1 .. m : c[i] = w[i + 1] /\ i + 1 \in 2 .. n
    <2>1. /\ m \in Nat /\ c \in [1 .. m -> Addresses]
          /\ \A i \in 1 .. m : c[i] = w[Old(1, 1, i)]
      BY <1>1, <1>15, CutIs
    <2>2. \A i \in 1 .. m : Old(1, 1, i) = i + 1
      BY <1>2, <1>14 DEF Old
    <2>3. \A i \in 1 .. m : i + 1 \in 2 .. n
      BY <1>2, <1>14, <2>1
    <2>4. QED BY <2>1, <2>2, <2>3
  <1>17. \A i \in 2 .. n : td'[w[i]] = td[w[i]]
    <2> SUFFICES ASSUME NEW i \in 2 .. n PROVE td'[w[i]] = td[w[i]]
      OBVIOUS
    <2>1. i \in 1 .. n /\ w[i] \in Addresses /\ i # 1
      BY <1>2
    <2>2. w[i] # a
      BY <1>1, <1>6, <2>1, LineInjective
    <2>3. QED BY <1>4, <1>7, <2>1, <2>2 DEF TypeOK
  <1>18. \A i \in 1 .. m : td'[c[i]] = td[w[i + 1]]
    BY <1>16, <1>17
  <1>19. /\ \A v \in Urbs : v # u => (Filled(v))' = Filled(v)
         /\ ~ last => (Filled(u))' = Filled(u) /\ priv'[u] = priv[u]
         /\ last => (Filled(u))' = 0
    <2>1. \A v \in Urbs : v # u => (Filled(v))' = Filled(v)
      BY <1>4, <1>8, <1>11, TdAssumption DEF Filled
    <2>2. ~ last => (Filled(u))' = Filled(u) /\ priv'[u] = priv[u]
      BY <1>4, <1>8, <1>11 DEF Filled
    <2>3. last => (Filled(u))' = 0
      BY <1>4, <1>7, <1>11, TdAssumption DEF Filled
    <2>4. QED BY <2>1, <2>2, <2>3
  <1>20. Cuts(w, n, 1, 1, u)
    <2>1. IsOf(w, 1, 1, u)
      BY <1>3, <1>6 DEF IsOf
    <2>2. \A i \in 1 .. n : i \notin 1 .. 1 => /\ td'[w[i]].urb = td[w[i]].urb
                                               /\ td'[w[i]].index = td[w[i]].index
      BY <1>2, <1>17
    <2>3. 1 - 1 + 1 = 1 /\ td_cnt[u] \in Nat
      BY <1>7 DEF TypeOK
    <2>4. \/ /\ (Filled(u))' = Filled(u) /\ priv'[u] = priv[u]
             /\ td_cnt'[u] = td_cnt[u] + (1 - 1 + 1)
          \/ /\ td_cnt[u] + (1 - 1 + 1) = Filled(u)
             /\ td_cnt'[u] = 0 /\ (Filled(u))' = 0
      BY <1>3, <1>8, <1>10, <1>12, <1>19, <2>3
    <2>5. QED BY <1>7, <1>11, <1>12, <1>19, <2>1, <2>2, <2>4 DEF Cuts
  <1>21. Placed(c, m)' /\ Ordered(c, m)' /\ Counted(c, m)'
    BY <1>1, <1>15, <1>20, CutKept
  <1>22. /\ x1 \in Nat /\ y1 \in Nat /\ z1 \in Nat /\ m \in Nat
         /\ x1 <= y1 /\ y1 <= z1 /\ z1 <= m
         /\ x = x1 + 1 /\ y = y1 + 1 /\ z = z1 + 1 /\ n = m + 1
    BY <1>2, <1>6, <1>14
  <1>23. InLine(c, m, x1, y1, z1)
    BY <1>16, <1>22 DEF InLine
  <1>24. Linked(c, m, x1, y1, z1)'
    <2>1. td_list' = IF x1 > 0 THEN c[1] ELSE 0
      <3>1. td_list' = IF 1 < x THEN w[2] ELSE 0
        BY <1>1, <1>2, <1>4, <1>6 DEF Linked
      <3>2. x1 > 0 => c[1] = w[2]
        <4> HAVE x1 > 0
        <4>1. 1 \in 1 .. m /\ 1 + 1 = 2
          BY <1>22
        <4>2. QED BY <1>16, <4>1
      <3>3. QED BY <1>22, <3>1, <3>2
    <2>2. done_head' = IF y1 > x1 THEN c[y1] ELSE 0
      <3>1. y1 > x1 => c[y1] = w[y]
        <4> HAVE y1 > x1
        <4>1. y1 \in 1 .. m
          BY <1>22
        <4>2. QED BY <1>16, <1>22, <4>1
      <3>2. QED BY <1>1, <1>4, <1>22, <3>1 DEF Linked
    <2>3. hc_done' = IF z1 > y1 THEN c[z1] ELSE 0
      <3>1. z1 > y1 => c[z1] = w[z]
        <4> HAVE z1 > y1
        <4>1. z1 \in 1 .. m
          BY <1>22
        <4>2. QED BY <1>16, <1>22, <4>1
      <3>2. QED BY <1>1, <1>4, <1>22, <3>1 DEF Linked
    <2>4. hwHeadP' = IF z1 < m THEN c[z1 + 1] ELSE hwTailP'
      <3>1. z1 < m => c[z1 + 1] = w[z + 1]
        <4> HAVE z1 < m
        <4>1. z1 + 1 \in 1 .. m
          BY <1>22
        <4>2. QED BY <1>16, <1>22, <4>1
      <3>2. QED BY <1>1, <1>4, <1>22, <3>1 DEF Linked
    <2>5. ASSUME NEW i \in 1 .. x1
          PROVE  td'[c[i]].next_dl = IF i < x1 THEN c[i + 1] ELSE 0
      <3>1. i \in 1 .. m /\ i + 1 \in 1 .. x
        BY <1>22
      <3>2. td[w[i + 1]].next_dl = IF i + 1 < x THEN w[i + 1 + 1] ELSE 0
        BY <1>1, <3>1 DEF Linked
      <3>3. i < x1 => i + 1 \in 1 .. m
        BY <1>22
      <3>4. i + 1 < x <=> i < x1
        BY <1>22
      <3>5. QED BY <1>16, <1>18, <3>1, <3>2, <3>3, <3>4
    <2>6. ASSUME NEW i \in x1 + 1 .. z1
          PROVE  td'[c[i]].NextTD = IF i = x1 + 1 \/ i = y1 + 1 THEN 0 ELSE c[i - 1]
      <3>1. i \in 1 .. m /\ i + 1 \in x + 1 .. z
        BY <1>22
      <3>2. td[w[i + 1]].NextTD = IF i + 1 = x + 1 \/ i + 1 = y + 1 THEN 0 ELSE w[i + 1 - 1]
        BY <1>1, <3>1 DEF Linked
      <3>3. i # x1 + 1 => i - 1 \in 1 .. m /\ i - 1 + 1 = i /\ i + 1 - 1 = i
        BY <1>22
      <3>4. (i + 1 = x + 1 <=> i = x1 + 1) /\ (i + 1 = y + 1 <=> i = y1 + 1)
        BY <1>22
      <3>5. QED BY <1>16, <1>18, <3>1, <3>2, <3>3, <3>4
    <2>7. ASSUME NEW i \in z1 + 1 .. m
          PROVE  td'[c[i]].NextTD = IF i < m THEN c[i + 1] ELSE hwTailP'
      <3>1. i \in 1 .. m /\ i + 1 \in z + 1 .. n
        BY <1>22
      <3>2. td[w[i + 1]].NextTD = IF i + 1 < n THEN w[i + 1 + 1] ELSE hwTailP
        BY <1>1, <3>1 DEF Linked
      <3>3. i < m => i + 1 \in 1 .. m
        BY <1>22
      <3>4. i + 1 < n <=> i < m
        BY <1>22
      <3>5. QED BY <1>4, <1>16, <1>18, <3>1, <3>2, <3>3, <3>4
    <2>8. QED BY <2>1, <2>2, <2>3, <2>4, <2>5, <2>6, <2>7 DEF Linked
  <1>25. Halts(c, x1, z1)'
    <2>1. halted' => x1 < z1
      BY <1>1, <1>4, <1>22 DEF Halts
    <2>2. ASSUME NEW i \in x1 + 1 .. z1
          PROVE  td'[c[i]].CC = "NOERROR" <=> ~ (halted' /\ i = z1)
      <3>1. i \in 1 .. m /\ i + 1 \in x + 1 .. z /\ (i + 1 = z <=> i = z1)
        BY <1>22
      <3>2. QED BY <1>1, <1>4, <1>18, <3>1 DEF Halts
    <2>3. QED BY <2>1, <2>2 DEF Halts
  <1>26. Served(c, m, z1)'
    <2>1. Begins(z) = Begins(z1)' + 1 /\ Begins(z1)' \in Nat /\ Begins(z1)' > 0
      BY <1>1, <1>2, <1>4, <1>22 DEF Begins, Halts
    <2>2. ASSUME NEW i \in 1 .. m - 1, Begins(z1)' <= i
          PROVE  Successor(td[c[i]], td[c[i + 1]])'
      <3>1. i \in 1 .. m /\ i + 1 \in 1 .. m /\ i + 1 \in 1 .. n - 1 /\ Begins(z) <= i + 1
        BY <1>22, <2>1, <2>2
      <3>2. Successor(td[w[i + 1]], td[w[i + 1 + 1]])
        BY <1>1, <3>1 DEF Served
      <3>3. td'[c[i]] = td[w[i + 1]] /\ td'[c[i + 1]] = td[w[i + 1 + 1]]
        BY <1>18, <3>1
      <3>4. QED BY <1>5, <3>2, <3>3 DEF Successor
    <2>3. ASSUME Begins(z1)' <= m
          PROVE  /\ td'[c[m]].index = (Filled(td[c[m]].urb) - 1)'
                 /\ ~ (cnt' > 0)
      <3>1. m \in 1 .. m /\ Begins(z) <= n /\ n \in 1 .. n
        BY <1>22, <2>1, <2>3
      <3>2. PICK f \in Urbs : f = td[w[n]].urb /\ td[w[n]].index = Filled(f) - 1
        BY <1>1, <3>1 DEF Placed, Served
      <3>3. td'[c[m]] = td[w[n]]
        BY <1>18, <1>22, <3>1
      <3>4. (Filled(td[c[m]].urb))' = (Filled(f))'
        BY <3>2, <3>3 DEF Filled
      <3>5. td'[c[m]].index + 1 \in 1 .. (Filled(f))'
        BY <1>21, <3>1, <3>4 DEF Placed
      <3>6. (Filled(f))' = Filled(f)
        BY <1>19, <3>2, <3>5
      <3>7. cnt' = 0
        BY <1>4, <1>8, <1>11
      <3>8. QED BY <3>2, <3>3, <3>4, <3>6, <3>7
    <2>4. QED BY <2>2, <2>3 DEF Served
  <1>27. Line(c, m, x1, y1, z1)'
    BY <1>21, <1>23, <1>24, <1>25, <1>26 DEF Line, InLine
  <1>28. QED BY <1>11, <1>13, <1>14, <1>27

(* Some places have a first and a last.                                    *)
LEMMA LeastAndGreatest ==
  ASSUME NEW n \in Nat, NEW K \in SUBSET (1 .. n), K # {}
  PROVE  \E b, e \in K : \A i \in K : b <= i /\ i <= e
  <1>1. \E b \in K : \A i \in K : b <= i
    <2>1. K \subseteq Nat
      OBVIOUS
    <2>2. PICK b \in K : \A i \in K : <<i, b>> \notin OpToRel(<, Nat)
      BY <2>1, NatLessThanWellFounded, WFMin
    <2>3. \A i \in K : ~ (i < b)
      BY <2>1, <2>2 DEF OpToRel
    <2>4. QED BY <2>1, <2>3
  <1>2. \E e \in K : \A i \in K : i <= e
    <2> DEFINE M == { n - i : i \in K }
    <2>1. M \subseteq Nat /\ M # {}
      <3>1. \A i \in K : n - i \in Nat
        OBVIOUS
      <3>2. QED BY <3>1
    <2>2. PICK d \in M : \A i \in M : <<i, d>> \notin OpToRel(<, Nat)
      BY <2>1, NatLessThanWellFounded, WFMin
    <2>3. \A i \in M : ~ (i < d)
      BY <2>1, <2>2 DEF OpToRel
    <2>4. PICK e \in K : d = n - e
      OBVIOUS
    <2>5. \A i \in K : i \in 1 .. n /\ n - i \in M
      OBVIOUS
    <2> HIDE DEF M
    <2>6. \A i \in K : i <= e
      BY <2>3, <2>4, <2>5
    <2>7. QED BY <2>6
  <1>3. QED BY <1>1, <1>2

(* The TDs of an urb in the queue are b .. e, side by side; if there are   *)
(* none that is an empty interval beyond the end of the line.              *)
Hole(w, n, z, u, b, e) ==
  /\ \/ b \in z + 1 .. n /\ e \in b .. n
     \/ b = n + 2 /\ e = n + 1
  /\ \A i \in z + 1 .. n : td[w[i]].urb = u <=> i \in b .. e

(* The TDs of one urb stand together in the queue.                         *)
LEMMA HoleExists ==
  ASSUME ShortControl, TypeOK, Tables, NEW w, NEW n, NEW x, NEW y, NEW z,
         Line(w, n, x, y, z), filling = NoUrb, NEW u
  PROVE  \E b, e \in Nat : Hole(w, n, z, u, b, e)
  <1>1. /\ InLine(w, n, x, y, z) /\ Placed(w, n) /\ Ordered(w, n) /\ Served(w, n, z)
    BY DEF Line
  <1>2. /\ n \in Nat /\ z \in Nat /\ z <= n /\ w \in [1 .. n -> Addresses]
    BY <1>1 DEF InLine
  <1> DEFINE K == { i \in z + 1 .. n : td[w[i]].urb = u }
  <1>3. CASE K = {}
    <2>1. \A i \in z + 1 .. n : td[w[i]].urb # u /\ i \notin n + 2 .. n + 1
      BY <1>2, <1>3
    <2>2. n + 2 \in Nat /\ n + 1 \in Nat
      BY <1>2
    <2>3. Hole(w, n, z, u, n + 2, n + 1)
      BY <2>1 DEF Hole
    <2>4. QED BY <2>2, <2>3
  <1>4. CASE K # {}
    <2>1. K \in SUBSET (1 .. n)
      BY <1>2
    <2>2. PICK b \in K, e \in K : \A i \in K : b <= i /\ i <= e
      BY <1>2, <1>4, <2>1, LeastAndGreatest
    <2>3. /\ b \in z + 1 .. n /\ e \in b .. n /\ b \in Nat /\ e \in Nat
          /\ td[w[b]].urb = u /\ td[w[e]].urb = u
          /\ \A i \in z + 1 .. n : td[w[i]].urb = u => i \in b .. e
      BY <1>2, <2>2
    <2> HIDE DEF K
    <2> DEFINE S == { j \in Nat : b + j <= e => td[w[b + j]].urb = u }
    <2>4. 0 \in S
      BY <2>3
    <2>5. ASSUME NEW j \in Nat, j \in S PROVE j + 1 \in S
      <3> SUFFICES ASSUME b + (j + 1) <= e, td[w[b + (j + 1)]].urb # u PROVE FALSE
        OBVIOUS
      <3>1. td[w[b + j]].urb = u
        BY <2>3, <2>5
      <3> HIDE DEF S
      <3>2. PICK i : i = b + j
        OBVIOUS
      <3>3. /\ i \in 1 .. n - 1 /\ i \in 1 .. n /\ e \in 1 .. n /\ i < e /\ Begins(z) <= i
            /\ i + 1 = b + (j + 1)
        BY <1>2, <2>3, <3>2 DEF Begins
      <3>4. Successor(td[w[i]], td[w[i + 1]])
        BY <1>1, <3>3 DEF Served
      <3>5. td[w[i]].index = Len(Contents(u)) - 1
        BY <3>1, <3>2, <3>3, <3>4 DEF Successor
      <3>6. td[w[i]].index < td[w[e]].index
        BY <1>1, <2>3, <3>1, <3>2, <3>3 DEF Ordered
      <3>7. /\ u \in Urbs /\ td[w[i]].index \in Nat
            /\ td[w[e]].index \in Nat /\ td[w[e]].index < Filled(u)
        BY <1>1, <2>3, <3>1, <3>2, <3>3, LineTds
      <3>8. Filled(u) \in Nat /\ Filled(u) = Len(priv[u])
        BY <3>7, AllFilled
      <3>9. Filled(u) > 0
        BY <3>7, <3>8
      <3>10. Len(Contents(u)) = Filled(u)
        BY <3>7, <3>8, <3>9, AllFilled
      <3>11. QED BY <3>5, <3>6, <3>7, <3>8, <3>10
    <2>6. Nat \subseteq S
      BY <2>4, <2>5, NatSet
    <2>7. ASSUME NEW i \in b .. e PROVE td[w[i]].urb = u
      <3>1. i - b \in Nat /\ b + (i - b) = i /\ i <= e
        BY <2>3
      <3>2. i - b \in S
        BY <2>6, <3>1
      <3>3. QED BY <3>1, <3>2
    <2>8. Hole(w, n, z, u, b, e)
      <3>1. \A i \in z + 1 .. n : td[w[i]].urb = u <=> i \in b .. e
        BY <2>3, <2>7
      <3>2. b \in z + 1 .. n /\ e \in b .. n
        BY <2>3
      <3>3. QED BY <3>1, <3>2, Zenon DEF Hole
    <2>9. QED BY <2>3, <2>8
  <1>5. QED BY <1>3, <1>4

(* Where the link of a TD leads when b .. e are skipped.                   *)
Skip(w, n, b, e, i) ==
  IF i + 1 = b THEN IF e < n THEN w[e + 1] ELSE hwTailP
  ELSE IF i < n THEN w[i + 1] ELSE hwTailP

(* Min finds the least number.                                             *)
LEMMA LeastIs ==
  ASSUME NEW S \in SUBSET Nat, NEW k \in S, \A j \in S : k <= j
  PROVE  Min(S) = k
  <1>1. k \in S /\ \A j \in S : k <= j
    OBVIOUS
  <1>2. Min(S) \in S /\ \A j \in S : Min(S) <= j
    BY <1>1, Zenon DEF Min
  <1>3. Min(S) <= k /\ k <= Min(S) /\ Min(S) \in Nat /\ k \in Nat
    BY <1>2
  <1>4. QED BY <1>3

(* PastUrb finds the next TD that stays.                                   *)
LEMMA PastIs ==
  ASSUME TypeOK, Tables, NEW w, NEW n, NEW x, NEW y, NEW z, Line(w, n, x, y, z), NEW u,
         NEW b \in Nat, NEW e \in Nat, Hole(w, n, z, u, b, e), NEW i \in z .. n, i \notin b .. e
  PROVE  PastUrb(Queue, u, i - z) = Skip(w, n, b, e, i)
  <1>1. /\ InLine(w, n, x, y, z) /\ Linked(w, n, x, y, z) /\ Placed(w, n) /\ Ordered(w, n)
    BY DEF Line
  <1>2. /\ n \in Nat /\ z \in Nat /\ z <= n /\ w \in [1 .. n -> Addresses]
    BY <1>1 DEF InLine
  <1>3. PICK s : s = Queue
    OBVIOUS
  <1>4. s = [j \in 1 .. n - z |-> w[z + j]]
    BY <1>1, <1>3, ChainsAre
  <1>5. Len(s) = n - z /\ \A j \in 1 .. n - z : s[j] = w[z + j]
    BY <1>2, <1>4
  <1> DEFINE L == { j \in i - z + 1 .. Len(s) : td[s[j]].urb # u }
  <1>6. \A j : j \in L <=> j \in i - z + 1 .. n - z /\ z + j \notin b .. e
    <2>1. \A j \in i - z + 1 .. n - z : /\ s[j] = w[z + j] /\ z + j \in z + 1 .. n
      BY <1>2, <1>5
    <2>2. \A j \in i - z + 1 .. n - z : td[s[j]].urb = u <=> z + j \in b .. e
      BY <2>1 DEF Hole
    <2>3. QED BY <1>5, <2>2
  <1>7. PastUrb(s, u, i - z) = IF L = {} THEN hwTailP ELSE s[Min(L)]
    BY DEF PastUrb
  <1> HIDE DEF L
  <1>8. L \subseteq Nat
    BY <1>2, <1>6
  <1>9. \/ b \in z + 1 .. n /\ e \in b .. n
        \/ b = n + 2 /\ e = n + 1
    BY DEF Hole
  <1>10. CASE i + 1 = b
    <2>1. b \in z + 1 .. n /\ e \in b .. n
      BY <1>2, <1>9, <1>10
    <2>2. CASE e < n
      <3>1. PICK k : k = e + 1 - z
        OBVIOUS
      <3>2. /\ k \in 1 .. n - z /\ z + k = e + 1 /\ k \in i - z + 1 .. n - z
            /\ z + k \notin b .. e
        BY <1>2, <1>10, <2>1, <2>2, <3>1
      <3>3. k \in L /\ \A j \in L : k <= j
        <4>1. \A j \in i - z + 1 .. n - z : j < k => z + j \in b .. e
          BY <1>2, <1>10, <2>1, <2>2, <3>1
        <4>2. k \in L
          BY <1>6, <3>2
        <4>3. ASSUME NEW j \in L PROVE k <= j
          <5>1. j \in i - z + 1 .. n - z /\ z + j \notin b .. e
            BY <1>6
          <5>2. ~ (j < k)
            BY <4>1, <5>1
          <5>3. j \in Int /\ k \in Int
            BY <1>2, <3>2, <5>1
          <5>4. QED BY <5>2, <5>3
        <4>4. QED BY <4>2, <4>3
      <3>4. Min(L) = k
        BY <1>8, <3>3, LeastIs
      <3>5. s[k] = w[e + 1]
        BY <1>5, <3>2
      <3>6. QED BY <1>3, <1>7, <1>10, <2>2, <3>3, <3>4, <3>5 DEF Skip
    <2>3. CASE e = n
      <3>1. \A j \in i - z + 1 .. n - z : z + j \in b .. e
        BY <1>2, <1>10, <2>1, <2>3
      <3>2. L = {}
        BY <1>6, <3>1
      <3>3. ~ (e < n)
        BY <1>2, <2>3
      <3>4. QED BY <1>3, <1>7, <1>10, <3>2, <3>3 DEF Skip
    <2>4. QED BY <1>2, <2>1, <2>2, <2>3
  <1>11. CASE i + 1 # b
    <2>1. CASE i < n
      <3>1. PICK k : k = i - z + 1
        OBVIOUS
      <3>2. /\ k \in 1 .. n - z /\ z + k = i + 1 /\ k \in i - z + 1 .. n - z
            /\ z + k \notin b .. e
        BY <1>2, <1>9, <1>11, <2>1, <3>1
      <3>3. k \in L /\ \A j \in L : k <= j
        BY <1>2, <1>6, <3>1, <3>2
      <3>4. Min(L) = k
        BY <1>8, <3>3, LeastIs
      <3>5. s[k] = w[i + 1]
        BY <1>5, <3>2
      <3>6. QED BY <1>3, <1>7, <1>11, <2>1, <3>3, <3>4, <3>5 DEF Skip
    <2>2. CASE i = n
      <3>1. L = {} /\ ~ (i < n)
        BY <1>2, <1>6, <2>2
      <3>2. QED BY <1>3, <1>7, <1>11, <3>1 DEF Skip
    <2>3. QED BY <1>2, <2>1, <2>2
  <1>12. QED BY <1>10, <1>11

(* dl_del_list, its step seen from the line.                               *)
LEMMA RelinkedIs ==
  ASSUME TypeOK, Tables, NEW w, NEW n, NEW x, NEW y, NEW z, Line(w, n, x, y, z), NEW u,
         NEW b \in Nat, NEW e \in Nat, Hole(w, n, z, u, b, e),
         NEW t, t = Relinked(Queue, u)
  PROVE  /\ \A i \in 1 .. z : t[w[i]] = td[w[i]]
         /\ \A i \in z + 1 .. n : i \notin b .. e =>
               t[w[i]] = [td[w[i]] EXCEPT !.NextTD = Skip(w, n, b, e, i)]
         /\ t \in [Addresses -> [urb : Urbs \cup {NoUrb}, index : Nat, R : BOOLEAN,
                           CBP : Int, BE : Int, NextTD : Addresses \cup {0},
                           next_dl : Addresses \cup {0},
                           CC : {"none", "NOERROR", "STALL", "UNDERRUN"}]]
  <1>1. /\ InLine(w, n, x, y, z) /\ Linked(w, n, x, y, z) /\ Placed(w, n) /\ Ordered(w, n)
    BY DEF Line
  <1>2. /\ n \in Nat /\ z \in Nat /\ z <= n /\ w \in [1 .. n -> Addresses]
    BY <1>1 DEF InLine
  <1>3. PICK s : s = Queue
    OBVIOUS
  <1>4. s = [j \in 1 .. n - z |-> w[z + j]]
    BY <1>1, <1>3, ChainsAre
  <1>5. DOMAIN s = 1 .. n - z /\ \A j \in 1 .. n - z : s[j] = w[z + j]
    BY <1>2, <1>4
  <1>6. \A i, j \in 1 .. n : w[i] = w[j] => i = j
    BY <1>1, LineInjective
  <1>7. \A a : a \in Range(s) <=> \E i \in z + 1 .. n : a = w[i]
    <2>1. \A a : a \in Range(s) <=> \E j \in 1 .. n - z : a = w[z + j]
      BY <1>5 DEF Range
    <2>2. \A j \in 1 .. n - z : z + j \in z + 1 .. n
      BY <1>2
    <2>3. \A i \in z + 1 .. n : i - z \in 1 .. n - z /\ z + (i - z) = i
      BY <1>2
    <2>4. QED BY <2>1, <2>2, <2>3
  <1>8. ASSUME NEW i \in 1 .. z PROVE t[w[i]] = td[w[i]]
    <2>1. i \in 1 .. n /\ w[i] \in Addresses
      BY <1>2
    <2>2. w[i] \notin Range(s)
      <3>1. \A j \in z + 1 .. n : j \in 1 .. n /\ j # i
        BY <1>2
      <3>2. QED BY <1>6, <1>7, <2>1, <3>1
    <2>3. QED BY <1>3, <2>1, <2>2 DEF Relinked
  <1>9. ASSUME NEW i \in z + 1 .. n
        PROVE  /\ w[i] \in Addresses
               /\ i \notin b .. e =>
                    t[w[i]] = [td[w[i]] EXCEPT !.NextTD = Skip(w, n, b, e, i)]
               /\ i \in b .. e => t[w[i]] = NoTd
    <2>1. i \in 1 .. n /\ w[i] \in Addresses /\ w[i] \in Range(s)
      BY <1>2, <1>7
    <2>2. td[w[i]].urb = u <=> i \in b .. e
      BY DEF Hole
    <2>3. Place(s, w[i]) = i - z
      <3>1. \A j \in 1 .. n - z : s[j] = w[i] <=> j = i - z
        <4> SUFFICES ASSUME NEW j \in 1 .. n - z PROVE s[j] = w[i] <=> j = i - z
          OBVIOUS
        <4>1. z + j \in 1 .. n /\ s[j] = w[z + j]
          BY <1>2, <1>5
        <4>2. s[j] = w[i] <=> z + j = i
          BY <1>6, <2>1, <4>1
        <4>3. QED BY <1>2, <4>2
      <3>2. i - z \in 1 .. n - z
        BY <1>2
      <3>3. QED BY <1>5, <3>1, <3>2 DEF Place
    <2>4. CASE i \notin b .. e
      <3>1. i \in z .. n
        BY <1>2
      <3>2. PastUrb(s, u, i - z) = Skip(w, n, b, e, i)
        BY <1>3, <2>4, <3>1, PastIs
      <3>3. t[w[i]] = [td[w[i]] EXCEPT !.NextTD = PastUrb(s, u, Place(s, w[i]))]
        BY <1>3, <2>1, <2>2, <2>4, Zenon DEF Relinked
      <3>4. QED BY <2>1, <2>3, <2>4, <3>2, <3>3
    <2>5. CASE i \in b .. e
      BY <1>3, <2>1, <2>2, <2>5 DEF Relinked
    <2>6. QED BY <2>1, <2>4, <2>5
  <1>10. \A i \in z + 1 .. n : i \notin b .. e => Skip(w, n, b, e, i) \in Addresses \cup {0}
    <2> SUFFICES ASSUME NEW i \in z + 1 .. n, i \notin b .. e
                 PROVE  Skip(w, n, b, e, i) \in Addresses \cup {0}
      OBVIOUS
    <2>1. hwTailP \in Addresses
      BY DEF TypeOK
    <2>2. i < n => w[i + 1] \in Addresses
      BY <1>2
    <2>3. e < n => w[e + 1] \in Addresses
      BY <1>2
    <2>4. QED BY <2>1, <2>2, <2>3 DEF Skip
  <1> DEFINE T == [urb : Urbs \cup {NoUrb}, index : Nat, R : BOOLEAN,
                   CBP : Int, BE : Int, NextTD : Addresses \cup {0},
                   next_dl : Addresses \cup {0},
                   CC : {"none", "NOERROR", "STALL", "UNDERRUN"}]
  <1>11. td \in [Addresses -> T] /\ NoTd \in T
    BY DEF TypeOK, NoTd
  <1>12. \A r \in T : \A l \in Addresses \cup {0} : [r EXCEPT !.NextTD = l] \in T
    OBVIOUS
  <1> HIDE DEF T
  <1>13. ASSUME NEW a \in Addresses PROVE t[a] \in T
    <2>1. CASE a \notin Range(s)
      <3>1. t[a] = td[a]
        BY <1>3, <2>1 DEF Relinked
      <3>2. QED BY <1>11, <3>1
    <2>2. CASE a \in Range(s)
      <3>1. PICK i \in z + 1 .. n : a = w[i]
        BY <1>7, <2>2
      <3>2. CASE i \in b .. e
        BY <1>9, <1>11, <3>1, <3>2
      <3>3. CASE i \notin b .. e
        <4>1. t[a] = [td[a] EXCEPT !.NextTD = Skip(w, n, b, e, i)]
          BY <1>9, <3>1, <3>3
        <4>2. Skip(w, n, b, e, i) \in Addresses \cup {0} /\ td[a] \in T
          BY <1>10, <1>11, <3>3
        <4>3. QED BY <1>12, <4>1, <4>2
      <3>4. QED BY <3>2, <3>3
    <2>3. QED BY <2>1, <2>2
  <1>14. t \in [Addresses -> T]
    <2>1. t = [a \in Addresses |-> t[a]]
      BY DEF Relinked
    <2>2. QED BY <1>13, <2>1
  <1>15. QED BY <1>8, <1>9, <1>14 DEF T

(* dl_del_list and the line: the TDs of the urb in the queue leave it; the *)
(* failed TD is not one of the urb.                                        *)
Deletes(w, n, z, u, v, m) ==
  /\ halted => z \in 1 .. n /\ td[w[z]].urb # u
  /\ \E b, e \in Nat :
        /\ Hole(w, n, z, u, b, e)
        /\ \/ b = n + 2 /\ v = w /\ m = n
           \/ b \in z + 1 .. n /\ Block(w, n, b, e, m, v)

(* dl_del_list: the TDs of the urb leave the queue.                        *)
LEMMA DelStep ==
  ASSUME ShortControl, TypeOK, Tables, NEW w, NEW n, NEW x, NEW y, NEW z,
         Line(w, n, x, y, z), NEW u \in Urbs, dl_del_list(u)
  PROVE  TypeOK' /\ Tables' /\ \E v, m : Line(v, m, x, y, z)' /\ Deletes(w, n, z, u, v, m)
  <1>1. /\ InLine(w, n, x, y, z) /\ Linked(w, n, x, y, z) /\ Placed(w, n)
        /\ Ordered(w, n) /\ Counted(w, n) /\ Served(w, n, z) /\ Halts(w, x, z)
    BY DEF Line
  <1>2. /\ n \in Nat /\ x \in Nat /\ y \in Nat /\ z \in Nat
        /\ x <= y /\ y <= z /\ z <= n /\ w \in [1 .. n -> Addresses]
    BY <1>1 DEF InLine
  <1>3. PICK s, gone, counted, done :
           /\ s = Queue /\ gone = { a \in Range(s) : td[a].urb = u }
           /\ counted = td_cnt[u] + Cardinality(gone)
           /\ done = (gone # {} /\ counted = Len(priv[u]))
    OBVIOUS
  <1>4. /\ UNCHANGED <<type, len, hwTailP, halted, hc_done, done_head, td_list, cnt, filling>>
        /\ filling = NoUrb /\ td_list = 0
        /\ \A a \in Range(HcDone \o HccaDone) : td[a].urb = u => td[a].CC = "NOERROR"
        /\ td' = Relinked(s, u) /\ hwHeadP' = PastUrb(s, u, 0)
        /\ done => /\ RmPriv(u)
                   /\ td_cnt' = [td_cnt EXCEPT ![u] = 0]
                   /\ actual_length' = [actual_length EXCEPT ![u] = 0]
                   /\ moved' = [moved EXCEPT ![u] = 0]
        /\ ~ done => /\ td_cnt' = [td_cnt EXCEPT ![u] = counted]
                     /\ UNCHANGED <<allocated, priv, actual_length, moved>>
        /\ urb_del' = [urb_del EXCEPT ![u] = ~ done]
    BY <1>3 DEF dl_del_list, setup, lists, submission
  <1>5. \A f : Contents(f)' = Contents(f) /\ Size(f)' = Size(f)
    BY SetupKept DEF dl_del_list
  <1>6. PICK b \in Nat, e \in Nat : Hole(w, n, z, u, b, e)
    BY <1>4, HoleExists
  <1>7. /\ \/ b \in z + 1 .. n /\ e \in b .. n
           \/ b = n + 2 /\ e = n + 1
        /\ \A i \in z + 1 .. n : td[w[i]].urb = u <=> i \in b .. e
    BY <1>6 DEF Hole
  <1>8. x = 0
    <2>1. x > 0 => w[1] # 0
      BY <1>1, <1>2, LineTds
    <2>2. QED BY <1>1, <1>2, <1>4, <2>1 DEF Linked
  <1>9. /\ \A i \in 1 .. z : td'[w[i]] = td[w[i]]
        /\ \A i \in z + 1 .. n : i \notin b .. e =>
               td'[w[i]] = [td[w[i]] EXCEPT !.NextTD = Skip(w, n, b, e, i)]
        /\ td' \in [Addresses -> [urb : Urbs \cup {NoUrb}, index : Nat, R : BOOLEAN,
                           CBP : Int, BE : Int, NextTD : Addresses \cup {0},
                           next_dl : Addresses \cup {0},
                           CC : {"none", "NOERROR", "STALL", "UNDERRUN"}]]
    <2>1. td' = Relinked(Queue, u)
      BY <1>3, <1>4
    <2>2. QED BY <1>6, <2>1, RelinkedIs
  <1>10. ASSUME NEW i \in 1 .. n, i \notin b .. e
         PROVE  /\ td'[w[i]].urb = td[w[i]].urb /\ td'[w[i]].index = td[w[i]].index
                /\ i > z => td'[w[i]].NextTD = Skip(w, n, b, e, i)
    <2>1. td[w[i]] \in [urb : Urbs \cup {NoUrb}, index : Nat, R : BOOLEAN,
                        CBP : Int, BE : Int, NextTD : Addresses \cup {0},
                        next_dl : Addresses \cup {0},
                        CC : {"none", "NOERROR", "STALL", "UNDERRUN"}]
      BY <1>2 DEF TypeOK
    <2>2. CASE i <= z
      BY <1>2, <1>9, <2>2
    <2>3. CASE i > z
      <3>1. i \in z + 1 .. n
        BY <1>2, <2>3
      <3>2. PICK l : td'[w[i]] = [td[w[i]] EXCEPT !.NextTD = l] /\ l = Skip(w, n, b, e, i)
        BY <1>9, <1>10, <3>1
      <3>3. QED BY <2>1, <3>2
    <2>4. QED BY <1>2, <2>2, <2>3
  <1>11. hwHeadP' = Skip(w, n, b, e, z)
    <2>1. z \in z .. n /\ z \notin b .. e /\ z - z = 0
      BY <1>2, <1>7
    <2>2. PastUrb(Queue, u, z - z) = Skip(w, n, b, e, z)
      BY <1>6, <2>1, PastIs
    <2>3. QED BY <1>3, <1>4, <2>1, <2>2
  <1>12. halted => z \in 1 .. n /\ td[w[z]].urb # u
    <2> HAVE halted
    <2>1. x < z /\ z \in x + 1 .. z /\ z \in 1 .. n
      BY <1>1, <1>2 DEF Halts
    <2>2. td[w[z]].CC # "NOERROR"
      BY <1>1, <2>1 DEF Halts
    <2>3. w[z] \in Range(HcDone \o HccaDone)
      <3>1. PICK p, q : p = HcDone /\ q = HccaDone
        OBVIOUS
      <3>2. p = [i \in 1 .. z - y |-> w[z + 1 - i]] /\ q = [i \in 1 .. y - x |-> w[y + 1 - i]]
        BY <1>1, <3>1, ChainsAre
      <3>3. p \in Seq(Addresses) /\ Len(p) = z - y
        <4>1. \A i \in 1 .. z - y : w[z + 1 - i] \in Addresses
          BY <1>2
        <4>2. QED BY <1>2, <3>2, <4>1
      <3>4. q \in Seq(Addresses) /\ Len(q) = y - x
        <4>1. \A i \in 1 .. y - x : w[y + 1 - i] \in Addresses
          BY <1>2
        <4>2. QED BY <1>2, <3>2, <4>1
      <3>5. /\ Len(p \o q) = Len(p) + Len(q) /\ p \o q \in Seq(Addresses)
            /\ \A i \in 1 .. Len(p) + Len(q) :
                  (p \o q)[i] = IF i <= Len(p) THEN p[i] ELSE q[i - Len(p)]
        BY <3>3, <3>4, ConcatProperties
      <3>6. 1 \in 1 .. Len(p) + Len(q)
        BY <1>2, <2>1, <3>3, <3>4
      <3>7. (p \o q)[1] = w[z]
        <4>1. CASE y < z
          <5>1. p[1] = w[z + 1 - 1] /\ 1 <= Len(p) /\ z + 1 - 1 = z
            BY <1>2, <3>2, <3>3, <4>1
          <5>2. QED BY <3>5, <3>6, <5>1
        <4>2. CASE y = z
          <5>1. q[1] = w[y + 1 - 1] /\ Len(p) = 0 /\ y + 1 - 1 = z /\ 1 - Len(p) = 1 /\ ~ (1 <= Len(p))
            BY <1>2, <2>1, <3>2, <3>3, <4>2
          <5>2. (p \o q)[1] = q[1 - Len(p)]
            BY <3>5, <3>6, <5>1
          <5>3. (p \o q)[1] = q[1]
            BY <5>1, <5>2
          <5>4. w[y + 1 - 1] = w[z]
            BY <5>1
          <5>5. q[1] = w[y + 1 - 1]
            BY <5>1
          <5>6. QED BY <5>3, <5>4, <5>5, Zenon
        <4>3. y < z \/ y = z
          BY <1>2
        <4>4. QED BY <4>1, <4>2, <4>3, Zenon
      <3>8. 1 \in DOMAIN (p \o q)
        BY <3>5, <3>6
      <3>9. QED BY <3>1, <3>7, <3>8 DEF Range
    <2>4. QED BY <1>4, <2>1, <2>2, <2>3
  <1>13. Filled(u) = Len(priv[u]) /\ Len(priv[u]) \in Nat /\ cnt = 0
         /\ td_cnt[u] \in Nat /\ u # NoUrb
    BY <1>4, FilledFits, TdAssumption DEF Filled, Tables, TypeOK
  <1>14. /\ Tables' /\ priv' \in [Urbs -> Seq(Addresses)]
         /\ done => priv'[u] = <<>>
         /\ ~ done => priv'[u] = priv[u]
         /\ \A v \in Urbs : v # u => priv'[v] = priv[v]
    <2>1. CASE done
      <3>1. RmPriv(u) /\ UNCHANGED setup /\ hwTailP' = hwTailP /\ filling' = NoUrb /\ cnt' = 0
        BY <1>4, <1>13, <2>1 DEF setup
      <3>2. QED BY <2>1, <3>1, FreedTables
    <2>2. CASE ~ done
      <3>1. Tables'
        BY <1>4, <1>5, <2>2 DEF Tables
      <3>2. QED BY <1>4, <2>2, <3>1 DEF TypeOK
    <2>3. QED BY <2>1, <2>2
  <1>15. /\ \A v \in Urbs : v # u => (Filled(v))' = Filled(v)
         /\ ~ done => (Filled(u))' = Filled(u)
         /\ done => (Filled(u))' = 0
    BY <1>4, <1>13, <1>14, TdAssumption DEF Filled
  <1>16. \A a : a \in gone <=> \E i \in z + 1 .. n : a = w[i] /\ i \in b .. e
    <2>1. s = [j \in 1 .. n - z |-> w[z + j]]
      BY <1>1, <1>3, ChainsAre
    <2>2. \A a : a \in Range(s) <=> \E j \in 1 .. n - z : a = w[z + j]
      BY <2>1 DEF Range
    <2>3. \A j \in 1 .. n - z : z + j \in z + 1 .. n
      BY <1>2
    <2>4. \A i \in z + 1 .. n : i - z \in 1 .. n - z /\ z + (i - z) = i
      BY <1>2
    <2>5. \A a : a \in Range(s) <=> \E i \in z + 1 .. n : a = w[i]
      BY <2>2, <2>3, <2>4
    <2>6. QED BY <1>3, <1>7, <2>5
  <1>17. counted \in Nat /\ td_cnt' \in [Urbs -> Nat]
         /\ td_cnt'[u] = (IF done THEN 0 ELSE counted)
         /\ \A v \in Urbs : v # u => td_cnt'[v] = td_cnt[v]
    <2>1. gone \subseteq Addresses
      BY <1>2, <1>16
    <2>2. Cardinality(gone) \in Nat
      BY <2>1, TdAssumption, FS_Subset, FS_CardinalityType
    <2>3. counted \in Nat
      BY <1>3, <1>13, <2>2
    <2>4. td_cnt \in [Urbs -> Nat]
      BY DEF TypeOK
    <2>5. td_cnt' = [td_cnt EXCEPT ![u] = IF done THEN 0 ELSE counted]
      BY <1>4
    <2>6. QED BY <2>3, <2>4, <2>5
  <1>18. TypeOK'
    <2>1. actual_length' \in [Urbs -> Int] /\ moved' \in [Urbs -> Int]
      BY <1>4 DEF TypeOK
    <2>2. urb_del' \in [Urbs -> BOOLEAN]
      BY <1>3, <1>4 DEF TypeOK
    <2>3. /\ type' \in DOMAIN Lengths /\ len' = Lengths[type']
          /\ hwTailP' \in Addresses /\ halted' \in BOOLEAN
          /\ cnt' \in Nat /\ filling' \in Urbs \cup {NoUrb}
      BY <1>4 DEF TypeOK
    <2>4. QED BY <1>9, <1>14, <1>17, <2>1, <2>2, <2>3 DEF TypeOK
  <1>19. CASE b = n + 2 /\ e = n + 1
    <2>1. \A i \in z .. n : i \notin b .. e
          /\ Skip(w, n, b, e, i) = IF i < n THEN w[i + 1] ELSE hwTailP
      BY <1>2, <1>19 DEF Skip
    <2>2. \A i \in 1 .. n : i \notin b .. e
      BY <1>2, <1>19
    <2>3. gone = {}
      BY <1>2, <1>16, <1>19
    <2>4. ~ done /\ counted = td_cnt[u]
      <3>1. Cardinality(gone) = 0
        BY <2>3, FS_EmptySet
      <3>2. counted = td_cnt[u]
        BY <1>3, <1>13, <3>1
      <3>3. ~ done
        BY <1>3, <2>3
      <3>4. QED BY <3>2, <3>3
    <2>5. td_cnt' = td_cnt
      BY <1>4, <2>4 DEF TypeOK
    <2>6. Placed(w, n)' /\ Ordered(w, n)' /\ Counted(w, n)'
      <3>1. \A i \in 1 .. n : td'[w[i]].urb = td[w[i]].urb /\ td'[w[i]].index = td[w[i]].index
        BY <1>10, <2>2
      <3>2. \A v \in Urbs : (Filled(v))' = Filled(v) /\ priv'[v] = priv[v]
        BY <1>14, <1>15, <2>4
      <3>3. QED BY <1>1, <2>5, <3>1, <3>2, LineKept
    <2>7. Linked(w, n, x, y, z)'
      <3>1. \A i \in z + 1 .. n : td'[w[i]].NextTD = IF i < n THEN w[i + 1] ELSE hwTailP
        <4> SUFFICES ASSUME NEW i \in z + 1 .. n
                     PROVE  td'[w[i]].NextTD = IF i < n THEN w[i + 1] ELSE hwTailP
          OBVIOUS
        <4>1. i \in 1 .. n /\ i \in z .. n /\ i > z
          BY <1>2
        <4>2. QED BY <1>10, <2>1, <4>1
      <3>2. hwHeadP' = IF z < n THEN w[z + 1] ELSE hwTailP
        BY <1>2, <1>11, <2>1
      <3>3. \A i \in 1 .. x : td'[w[i]].next_dl = IF i < x THEN w[i + 1] ELSE 0
        BY <1>8
      <3>4. \A i \in x + 1 .. z :
              td'[w[i]].NextTD = IF i = x + 1 \/ i = y + 1 THEN 0 ELSE w[i - 1]
        <4>1. \A i \in x + 1 .. z : i \in 1 .. z
          BY <1>2
        <4>2. QED BY <1>1, <1>9, <4>1 DEF Linked
      <3>5. QED BY <1>1, <1>4, <3>1, <3>2, <3>3, <3>4 DEF Linked
    <2>8. Halts(w, x, z)'
      <3>1. \A i \in x + 1 .. z : i \in 1 .. z
        BY <1>2
      <3>2. QED BY <1>1, <1>4, <1>9, <3>1 DEF Halts
    <2>9. Served(w, n, z)'
      <3>1. Begins(z)' = Begins(z)
        BY <1>4 DEF Begins
      <3>2. ASSUME NEW i \in 1 .. n - 1, Begins(z) <= i
            PROVE  Successor(td[w[i]], td[w[i + 1]])'
        <4>1. i \in 1 .. n /\ i + 1 \in 1 .. n
          BY <1>2
        <4>2. Successor(td[w[i]], td[w[i + 1]])
          BY <1>1, <3>2 DEF Served
        <4>3. QED BY <1>5, <1>10, <2>2, <4>1, <4>2 DEF Successor
      <3>3. ASSUME Begins(z) <= n
            PROVE  td'[w[n]].index = (Filled(td[w[n]].urb) - 1)'
        <4>1. n \in 1 .. n
          BY <1>2, <1>12, <3>3 DEF Begins
        <4>2. PICK f \in Urbs : f = td[w[n]].urb /\ td[w[n]].index = Filled(f) - 1
          BY <1>1, <3>3, <4>1 DEF Placed, Served
        <4>3. (Filled(td[w[n]].urb))' = (Filled(f))'
          BY <1>10, <2>2, <4>1, <4>2 DEF Filled
        <4>4. QED BY <1>10, <1>15, <2>2, <2>4, <4>1, <4>2, <4>3
      <3>4. cnt' = 0
        BY <1>4, <1>13
      <3>5. QED BY <3>1, <3>2, <3>3, <3>4 DEF Served
    <2>10. Line(w, n, x, y, z)'
      BY <1>1, <2>6, <2>7, <2>8, <2>9 DEF Line, InLine
    <2>11. Deletes(w, n, z, u, w, n)
      BY <1>6, <1>12, <1>19 DEF Deletes
    <2>12. QED BY <1>14, <1>18, <2>10, <2>11
  <1>20. CASE b \in z + 1 .. n /\ e \in b .. n
    <2>1. PICK m, c, l : m = n - (e - b + 1) /\ c = Cut(w, n, b, e) /\ l = e - b + 1
      OBVIOUS
    <2>2. /\ l \in Nat /\ l > 0 /\ m = n - l /\ z <= m /\ m \in Nat
          /\ b \in 1 .. n /\ z < b /\ b <= e /\ e <= n /\ e - b + 1 = l /\ e = b - 1 + l
          /\ b - 1 \in Nat
      BY <1>2, <1>20, <2>1
    <2>3. Block(w, n, b, e, m, c)
      BY <1>2, <1>20, <2>1, <2>2 DEF Block
    <2>4. /\ c \in [1 .. m -> Addresses]
          /\ \A i \in 1 .. m : /\ c[i] = w[Old(b, e, i)]
                               /\ Old(b, e, i) \in 1 .. n /\ Old(b, e, i) \notin b .. e
      BY <1>1, <2>3, CutIs
    <2>5. \A i \in 1 .. m : Old(b, e, i) = IF i < b THEN i ELSE i + l
      BY <2>2 DEF Old
    <2>6. /\ \A i \in 1 .. m : i < b => c[i] = w[i] /\ i \in 1 .. n /\ i \notin b .. e
          /\ \A i \in 1 .. m : ~ (i < b) => c[i] = w[i + l] /\ i + l \in 1 .. n /\ i + l \notin b .. e
      BY <2>4, <2>5
    <2>7. \A i \in 1 .. z : i \in 1 .. m /\ i < b
      BY <1>2, <2>2
    <2>8. \A i \in 1 .. z : c[i] = w[i] /\ td'[c[i]] = td[w[i]]
      BY <1>9, <2>6, <2>7
    <2>9. Part(w, b, e) = gone
      <3>1. \A i \in b .. e : i \in z + 1 .. n
        BY <1>2, <2>2
      <3>2. QED BY <1>16, <3>1 DEF Part
    <2>10. IsOf(w, b, e, u)
      <3>1. \A i \in b .. e : i \in z + 1 .. n
        BY <1>2, <2>2
      <3>2. QED BY <1>7, <3>1 DEF IsOf
    <2>11. Cardinality(gone) = l /\ gone # {}
      <3>1. Cardinality(gone) = l
        <4>1. Cardinality(Part(w, b, e)) = e - b + 1
          <5>1. InLine(w, n, x, y, z)
            BY <1>1
          <5>2. Ordered(w, n)
            BY <1>1
          <5>3. /\ Part(w, b, e) \subseteq Of(w, n, u)
                /\ Cardinality(Part(w, b, e)) = e - b + 1
                /\ Cardinality(Of(w, n, u) \ Part(w, b, e)) = Cardinality(Of(w, n, u)) - (e - b + 1)
            BY <2>3, <2>10, <5>1, <5>2, CutCount
          <5>4. QED BY <5>3, Zenon
        <4>2. QED BY <2>2, <2>9, <4>1
      <3>2. Cardinality({}) = 0
        BY FS_EmptySet
      <3>3. l # 0
        BY <2>2
      <3>4. QED BY <3>1, <3>2, <3>3, Zenon
    <2>12. Cuts(w, n, b, e, u)
      <3>1. counted = td_cnt[u] + (e - b + 1) /\ (done <=> counted = Len(priv[u]))
        BY <1>3, <2>2, <2>11
      <3>2. CASE done
        BY <1>10, <1>13, <1>14, <1>15, <1>17, <2>10, <3>1, <3>2 DEF Cuts
      <3>3. CASE ~ done
        BY <1>10, <1>13, <1>14, <1>15, <1>17, <2>10, <3>1, <3>3 DEF Cuts
      <3>4. QED BY <3>2, <3>3
    <2>13. Placed(c, m)' /\ Ordered(c, m)' /\ Counted(c, m)'
      BY <1>1, <2>3, <2>12, CutKept
    <2>14. InLine(c, m, x, y, z)
      BY <1>2, <2>2, <2>4 DEF InLine
    <2>15. \A i \in 1 .. m : td'[c[i]].urb = td[c[i]].urb /\ td'[c[i]].index = td[c[i]].index
      BY <1>10, <2>4
    <2>16. Linked(c, m, x, y, z)'
      <3>1. ASSUME NEW i \in z + 1 .. m
            PROVE  td'[c[i]].NextTD = IF i < m THEN c[i + 1] ELSE hwTailP
        <4>0. i \in 1 .. m /\ (i < m => i + 1 \in 1 .. m)
          BY <1>2, <2>2
        <4>1. CASE i < b
          <5>1. i \in 1 .. n /\ i \notin b .. e /\ i > z /\ c[i] = w[i]
            BY <1>2, <2>2, <2>6, <4>0, <4>1
          <5>2. td'[c[i]].NextTD = Skip(w, n, b, e, i)
            BY <1>10, <5>1
          <5>3. CASE i + 1 = b
            <6>1. i < m <=> e < n
              BY <1>2, <2>2, <5>3
            <6>2. i < m => c[i + 1] = w[e + 1]
              <7> HAVE i < m
              <7>1. i + 1 \in 1 .. m /\ ~ (i + 1 < b) /\ i + 1 + l = e + 1
                BY <1>2, <2>2, <4>0, <5>3
              <7>2. QED BY <2>6, <7>1
            <6>3. QED BY <5>2, <5>3, <6>1, <6>2 DEF Skip
          <5>4. CASE i + 1 # b
            <6>1. i < m /\ i < n /\ i + 1 < b
              BY <1>2, <2>2, <4>0, <4>1, <5>4
            <6>2. c[i + 1] = w[i + 1]
              BY <2>6, <4>0, <6>1
            <6>3. QED BY <5>2, <5>4, <6>1, <6>2 DEF Skip
          <5>5. QED BY <5>3, <5>4
        <4>2. CASE ~ (i < b)
          <5>1. i + l \in 1 .. n /\ i + l \notin b .. e /\ i + l > z /\ c[i] = w[i + l]
            BY <1>2, <2>2, <2>6, <4>0, <4>2
          <5>2. td'[c[i]].NextTD = Skip(w, n, b, e, i + l)
            BY <1>10, <5>1
          <5>3. i + l + 1 # b /\ (i + l < n <=> i < m)
            BY <1>2, <2>2, <4>0, <4>2
          <5>4. i < m => c[i + 1] = w[i + l + 1]
            <6> HAVE i < m
            <6>1. i + 1 \in 1 .. m /\ ~ (i + 1 < b) /\ i + 1 + l = i + l + 1
              BY <1>2, <2>2, <4>0, <4>2
            <6>2. QED BY <2>6, <6>1
          <5>5. QED BY <5>2, <5>3, <5>4 DEF Skip
        <4>3. QED BY <4>1, <4>2
      <3>2. hwHeadP' = IF z < m THEN c[z + 1] ELSE hwTailP
        <4>1. CASE z + 1 = b
          <5>1. z < m <=> e < n
            BY <1>2, <2>2, <4>1
          <5>2. z < m => c[z + 1] = w[e + 1]
            <6> HAVE z < m
            <6>1. z + 1 \in 1 .. m /\ ~ (z + 1 < b) /\ z + 1 + l = e + 1
              BY <1>2, <2>2, <4>1
            <6>2. QED BY <2>6, <6>1
          <5>3. QED BY <1>11, <4>1, <5>1, <5>2 DEF Skip
        <4>2. CASE z + 1 # b
          <5>1. z < m /\ z < n /\ z + 1 < b /\ z + 1 \in 1 .. m
            BY <1>2, <2>2, <4>2
          <5>2. QED BY <1>11, <2>6, <4>2, <5>1 DEF Skip
        <4>3. QED BY <4>1, <4>2
      <3>3. /\ td_list' = IF x > 0 THEN c[1] ELSE 0
            /\ done_head' = IF y > x THEN c[y] ELSE 0
            /\ hc_done' = IF z > y THEN c[z] ELSE 0
        <4>1. y > x => y \in 1 .. z
          BY <1>2
        <4>2. z > y => z \in 1 .. z
          BY <1>2
        <4>3. QED BY <1>1, <1>4, <1>8, <2>8, <4>1, <4>2 DEF Linked
      <3>4. \A i \in 1 .. x : td'[c[i]].next_dl = IF i < x THEN c[i + 1] ELSE 0
        BY <1>8
      <3>5. ASSUME NEW i \in x + 1 .. z
            PROVE  td'[c[i]].NextTD = IF i = x + 1 \/ i = y + 1 THEN 0 ELSE c[i - 1]
        <4>1. i \in 1 .. z /\ (i # x + 1 => i - 1 \in 1 .. z)
          BY <1>2
        <4>2. QED BY <1>1, <2>8, <4>1 DEF Linked
      <3>6. QED BY <1>4, <3>1, <3>2, <3>3, <3>4, <3>5 DEF Linked
    <2>17. Halts(c, x, z)'
      <3>1. \A i \in x + 1 .. z : i \in 1 .. z
        BY <1>2
      <3>2. QED BY <1>1, <1>4, <2>8, <3>1 DEF Halts
    <2>18. Begins(z)' = Begins(z) /\ Begins(z) \in Nat /\ Begins(z) > 0 /\ Begins(z) <= z + 1
      BY <1>2, <1>4, <1>12 DEF Begins
    (* The TD before those that go is the last of its urb.                 *)
    <2>19. ASSUME NEW j \in 1 .. n, j = b - 1, Begins(z) <= j
           PROVE  /\ td[w[j]].urb # u /\ td[w[j]].urb \in Urbs
                  /\ td[w[j]].index = Len(Contents(td[w[j]].urb)) - 1
      <3>1. td[w[j]].urb # u
        <4>1. CASE j = z
          BY <1>2, <1>12, <2>18, <2>19, <4>1 DEF Begins
        <4>2. CASE j # z
          <5>1. j \in z + 1 .. n /\ j \notin b .. e
            BY <1>2, <2>2, <2>19, <4>2
          <5>2. QED BY <1>7, <5>1
        <4>3. QED BY <4>1, <4>2
      <3>2. j \in 1 .. n - 1 /\ j + 1 = b
        BY <1>2, <2>2, <2>19
      <3>3. Successor(td[w[j]], td[w[j + 1]])
        BY <1>1, <2>19, <3>2 DEF Served
      <3>4. td[w[b]].urb = u
        BY <1>7, <1>20, <2>2
      <3>5. QED BY <1>1, <3>1, <3>2, <3>3, <3>4, LineTds DEF Successor
    <2>20. Served(c, m, z)'
      <3>1. ASSUME NEW i \in 1 .. m - 1, Begins(z) <= i
            PROVE  Successor(td[c[i]], td[c[i + 1]])
        <4>0. i \in 1 .. m /\ i + 1 \in 1 .. m
          BY <2>2
        <4>1. CASE i + 1 < b
          <5>1. i < b /\ c[i] = w[i] /\ c[i + 1] = w[i + 1] /\ i \in 1 .. n - 1
            BY <1>2, <2>2, <2>6, <4>0, <4>1
          <5>2. QED BY <1>1, <3>1, <5>1 DEF Served
        <4>2. CASE i + 1 = b
          <5>1. i < b /\ c[i] = w[i] /\ i \in 1 .. n /\ i = b - 1
            BY <1>2, <2>2, <2>6, <4>0, <4>2
          <5>2. c[i + 1] = w[e + 1] /\ e + 1 \in 1 .. n /\ e \in 1 .. n - 1 /\ Begins(z) <= e
                /\ e + 1 \notin b .. e /\ e + 1 \in z + 1 .. n /\ e \in z + 1 .. n /\ e \in b .. e
                /\ i < e + 1
            <6>1. i + 1 + l = e + 1 /\ ~ (i + 1 < b)
              BY <1>2, <2>2, <4>0, <4>2
            <6>2. c[i + 1] = w[e + 1] /\ e + 1 \in 1 .. n /\ e + 1 \notin b .. e
              BY <2>6, <4>0, <6>1
            <6>3. /\ e \in 1 .. n - 1 /\ Begins(z) <= e
                  /\ e + 1 \in z + 1 .. n /\ e \in z + 1 .. n /\ e \in b .. e /\ i < e + 1
              BY <1>2, <2>2, <2>18, <5>1, <6>2
            <6>4. QED BY <6>2, <6>3
          <5>3. Successor(td[w[e]], td[w[e + 1]])
            BY <1>1, <5>2 DEF Served
          <5>4. td[w[e]].urb = u /\ td[w[e + 1]].urb # u
            BY <1>7, <5>2
          <5>5. td[w[e + 1]].index = 0
            BY <5>3, <5>4 DEF Successor
          <5>6. /\ td[w[i]].urb # u /\ td[w[i]].urb \in Urbs
                /\ td[w[i]].index = Len(Contents(td[w[i]].urb)) - 1
            BY <2>19, <3>1, <5>1
          <5>7. td[w[i]].urb # td[w[e + 1]].urb
            <6> SUFFICES ASSUME td[w[i]].urb = td[w[e + 1]].urb PROVE FALSE
              OBVIOUS
            <6>1. td[w[i]].index < td[w[e + 1]].index
              BY <1>1, <5>1, <5>2 DEF Ordered
            <6>2. td[w[i]].index \in Nat
              BY <1>1, <5>1, LineTds
            <6>3. QED BY <5>5, <6>1, <6>2
          <5>8. QED BY <5>1, <5>2, <5>5, <5>6, <5>7 DEF Successor
        <4>3. CASE i + 1 > b
          <5>1. ~ (i < b) /\ ~ (i + 1 < b) /\ i + 1 + l = i + l + 1
            BY <1>2, <2>2, <4>0, <4>3
          <5>2. /\ c[i] = w[i + l] /\ c[i + 1] = w[i + l + 1] /\ i + l \in 1 .. n
                /\ i + l + 1 \in 1 .. n
            BY <2>6, <4>0, <5>1
          <5>3. i + l \in 1 .. n - 1 /\ Begins(z) <= i + l
            BY <1>2, <2>2, <2>18, <3>1, <4>0, <5>2
          <5>4. QED BY <1>1, <5>2, <5>3 DEF Served
        <4>4. QED BY <2>2, <4>0, <4>1, <4>2, <4>3
      <3>2. ASSUME NEW i \in 1 .. m - 1, Begins(z) <= i
            PROVE  Successor(td[c[i]], td[c[i + 1]])'
        <4>1. i \in 1 .. m /\ i + 1 \in 1 .. m
          BY <2>2
        <4>2. QED BY <1>5, <2>15, <3>1, <3>2, <4>1 DEF Successor
      <3>3. ASSUME Begins(z) <= m
            PROVE  td'[c[m]].index = (Filled(td[c[m]].urb) - 1)'
        <4>1. m \in 1 .. m
          BY <2>2, <2>18, <3>3
        <4>2. PICK f \in Urbs : /\ f = td[c[m]].urb /\ f # u
                                /\ td[c[m]].index = Filled(f) - 1
          <5>1. CASE e < n
            <6>1. ~ (m < b) /\ m + l = n
              BY <1>2, <2>2, <5>1
            <6>2. c[m] = w[n] /\ n \in 1 .. n /\ n \notin b .. e
              BY <2>6, <4>1, <6>1
            <6>3. n \in z + 1 .. n /\ Begins(z) <= n
              BY <1>2, <1>20, <2>18
            <6>4. td[w[n]].urb # u /\ td[w[n]].urb \in Urbs
              BY <1>1, <1>7, <6>2, <6>3, LineTds
            <6>5. td[w[n]].index = Filled(td[w[n]].urb) - 1
              BY <1>1, <6>3 DEF Served
            <6>6. QED BY <6>2, <6>4, <6>5
          <5>2. CASE e = n
            <6>1. m < b /\ m = b - 1
              BY <1>2, <2>2, <5>2
            <6>2. c[m] = w[m] /\ m \in 1 .. n
              BY <2>6, <4>1, <6>1
            <6>3. PICK f \in Urbs, k \in Nat :
                     /\ f = td[w[m]].urb /\ f # u
                     /\ k = td[w[m]].index /\ k = Len(Contents(f)) - 1
              <7>1. td[w[m]].index \in Nat
                BY <1>1, <6>2, LineTds
              <7>2. QED BY <2>19, <3>3, <6>1, <6>2, <7>1
            <6>4. k \in Nat /\ k < Filled(f)
              BY <1>1, <6>2, <6>3, LineTds
            <6>5. Filled(f) = Len(priv[f]) /\ Len(priv[f]) \in Nat
              BY <1>4, AllFilled
            <6>6. Filled(f) > 0
              BY <6>4, <6>5
            <6>7. Len(Contents(f)) = Filled(f)
              BY <1>4, <6>5, <6>6, AllFilled
            <6>8. QED BY <6>2, <6>3, <6>7
          <5>3. QED BY <1>2, <2>2, <5>1, <5>2
        <4>3. td'[c[m]].urb = f /\ td'[c[m]].index = td[c[m]].index
          BY <2>15, <4>1, <4>2
        <4>4. (Filled(td[c[m]].urb))' = (Filled(f))'
          BY <4>3 DEF Filled
        <4>5. QED BY <1>15, <4>2, <4>3, <4>4
      <3>4. cnt' = 0
        BY <1>4, <1>13
      <3>5. QED BY <2>18, <3>2, <3>3, <3>4 DEF Served
    <2>21. Line(c, m, x, y, z)'
      BY <2>13, <2>14, <2>16, <2>17, <2>20 DEF Line, InLine
    <2>22. Deletes(w, n, z, u, c, m)
      BY <1>6, <1>12, <1>20, <2>3 DEF Deletes
    <2>23. QED BY <1>14, <1>18, <2>21, <2>22
  <1>21. QED BY <1>7, <1>19, <1>20

-----------------------------------------------------------------------------
(* Every behaviour.                                                        *)

(* The queue of an endpoint that was just made is empty and all its TDs,   *)
(* the dummy, are allocated (ep_add_ed).                                   *)
LEMMA InitInv == Init => QueueInv
  <1> SUFFICES ASSUME Init PROVE QueueInv
    OBVIOUS
  <1>1. /\ type \in DOMAIN Lengths /\ len = Lengths[type]
        /\ td = [a \in Addresses |-> NoTd]
        /\ hwTailP = Min(Addresses) /\ hwHeadP = hwTailP /\ halted = FALSE
        /\ allocated = {hwTailP}
        /\ hc_done = 0 /\ done_head = 0 /\ td_list = 0
        /\ priv = [u \in Urbs |-> <<>>] /\ td_cnt = [u \in Urbs |-> 0]
        /\ urb_del = [u \in Urbs |-> FALSE]
        /\ cnt = 0 /\ filling = NoUrb
        /\ actual_length = [u \in Urbs |-> 0] /\ moved = [u \in Urbs |-> 0]
    BY DEF Init
  <1>2. hwTailP \in Addresses
    <2>1. Addresses \in SUBSET Nat /\ Addresses # {}
      BY TdAssumption
    <2>2. PICK a \in Addresses : \A b \in Addresses : <<b, a>> \notin OpToRel(<, Nat)
      BY <2>1, NatLessThanWellFounded, WFMin
    <2>3. \A b \in Addresses : a <= b
      <3> SUFFICES ASSUME NEW b \in Addresses PROVE a <= b
        OBVIOUS
      <3>1. a \in Nat /\ b \in Nat
        BY <2>1
      <3>2. ~ (b < a)
        BY <2>2, <3>1 DEF OpToRel
      <3>3. QED BY <3>1, <3>2
    <2>4. Min(Addresses) = a
      BY <2>1, <2>3, LeastIs
    <2>5. QED BY <1>1, <2>4
  <1>3. /\ NoTd.urb = NoUrb /\ NoTd.index = 0 /\ NoTd.R = FALSE /\ NoTd.CBP = 0 /\ NoTd.BE = 0
        /\ NoTd.NextTD = 0 /\ NoTd.next_dl = 0 /\ NoTd.CC = "none"
        /\ NoTd \in [urb : Urbs \cup {NoUrb}, index : Nat, R : BOOLEAN,
                           CBP : Int, BE : Int, NextTD : Addresses \cup {0},
                           next_dl : Addresses \cup {0},
                           CC : {"none", "NOERROR", "STALL", "UNDERRUN"}]
    BY DEF NoTd
  <1>4. TypeOK
    <2>1. td \in [Addresses -> [urb : Urbs \cup {NoUrb}, index : Nat, R : BOOLEAN,
                           CBP : Int, BE : Int, NextTD : Addresses \cup {0},
                           next_dl : Addresses \cup {0},
                           CC : {"none", "NOERROR", "STALL", "UNDERRUN"}]]
      BY <1>1, <1>3
    <2>2. priv \in [Urbs -> Seq(Addresses)]
      BY <1>1
    <2>3. /\ type \in DOMAIN Lengths /\ len = Lengths[type]
          /\ hwTailP \in Addresses /\ halted \in BOOLEAN
          /\ cnt \in Nat /\ filling \in Urbs \cup {NoUrb}
      BY <1>1, <1>2
    <2>4. td_cnt \in [Urbs -> Nat] /\ urb_del \in [Urbs -> BOOLEAN]
      BY <1>1
    <2>5. actual_length \in [Urbs -> Int] /\ moved \in [Urbs -> Int]
      BY <1>1
    <2>6. QED BY <2>1, <2>2, <2>3, <2>4, <2>5 DEF TypeOK
  <1>5. \A u \in Urbs : priv[u] = <<>> /\ Len(priv[u]) = 0 /\ DOMAIN priv[u] = {} /\ Range(priv[u]) = {}
    BY <1>1 DEF Range
  <1>6. Tables
    <2>1. UNION { Range(priv[u]) : u \in Urbs } = {}
      BY <1>5
    <2>2. QED BY <1>1, <1>5, <2>1 DEF Tables
  <1> DEFINE w == [i \in 1 .. 0 |-> 1]
  <1>7. 1 .. 0 = {}
    OBVIOUS
  <1>8. InLine(w, 0, 0, 0, 0)
    BY <1>7 DEF InLine
  <1>9. Linked(w, 0, 0, 0, 0)
    BY <1>1, <1>7 DEF Linked
  <1>10. Placed(w, 0) /\ Ordered(w, 0) /\ Served(w, 0, 0) /\ Halts(w, 0, 0)
    BY <1>1, <1>7 DEF Placed, Ordered, Served, Halts, Begins
  <1>11. Counted(w, 0)
    <2> SUFFICES ASSUME NEW u \in Urbs PROVE Cardinality(Of(w, 0, u)) + td_cnt[u] = Filled(u)
      BY DEF Counted
    <2>1. Of(w, 0, u) = {}
      BY <1>7 DEF Of
    <2>2. Cardinality({}) = 0
      BY FS_EmptySet
    <2>3. Filled(u) = 0 /\ td_cnt[u] = 0
      BY <1>1, <1>5 DEF Filled
    <2>4. Cardinality(Of(w, 0, u)) = 0
      BY <2>1, <2>2, Zenon
    <2> HIDE DEF w
    <2>5. QED BY <2>3, <2>4
  <1>12. Line(w, 0, 0, 0, 0)
    BY <1>8, <1>9, <1>10, <1>11 DEF Line
  <1>13. QED BY <1>4, <1>6, <1>12 DEF QueueInv

(* A step of something else.                                               *)
LEMMA StutterStep ==
  ASSUME TypeOK, Tables, NEW w, NEW n, NEW x, NEW y, NEW z, Line(w, n, x, y, z), UNCHANGED vars
  PROVE  TypeOK' /\ Tables' /\ Line(w, n, x, y, z)'
  <1>1. UNCHANGED <<type, len, td, allocated, hwHeadP, hwTailP, halted, hc_done, done_head,
                    td_list, priv, td_cnt, urb_del, cnt, filling, actual_length, moved>>
    BY DEF vars, setup, memory, ed, lists, urbs, submission, results
  <1>2. \A u : Contents(u)' = Contents(u) /\ Size(u)' = Size(u)
    BY SetupKept DEF vars
  <1>3. TypeOK'
    BY <1>1 DEF TypeOK
  <1>4. Tables'
    BY <1>1, <1>2 DEF Tables
  <1>5. \A u : Filled(u)' = Filled(u)
    BY <1>1 DEF Filled
  <1>6. Linked(w, n, x, y, z)' /\ Halts(w, x, z)'
    BY <1>1 DEF Line, Linked, Halts
  <1>7. Placed(w, n)' /\ Ordered(w, n)' /\ Counted(w, n)'
    BY <1>1, <1>5 DEF Line, Placed, Ordered, Counted, Of
  <1>8. Served(w, n, z)'
    BY <1>1, <1>2, <1>5 DEF Line, Served, Begins, Successor
  <1>9. Line(w, n, x, y, z)'
    BY <1>6, <1>7, <1>8 DEF Line, InLine
  <1>10. QED BY <1>3, <1>4, <1>9

(* A line that is there after a step is what QueueInv asks for.            *)
LEMMA LineSuffices ==
  ASSUME TypeOK', Tables', NEW w, NEW n, NEW x, NEW y, NEW z, Line(w, n, x, y, z)'
  PROVE  QueueInv'
  BY DEF QueueInv

(* Each step of the controller and of the driver keeps the invariant.      *)
LEMMA NextInv == ShortControl /\ QueueInv /\ [Next]_vars => QueueInv'
  <1> SUFFICES ASSUME ShortControl, QueueInv, [Next]_vars PROVE QueueInv'
    OBVIOUS
  <1>1. TypeOK /\ Tables
    BY DEF QueueInv
  <1>2. PICK w, n, x, y, z : Line(w, n, x, y, z)
    BY DEF QueueInv
  <1>3. ASSUME NEW l \in 0 .. Max(Range(len)), NEW s \in BOOLEAN, Retire(l, s) PROVE QueueInv'
    <2>1. TypeOK' /\ Tables' /\ Line(w, n, x, y, z + 1)'
      BY <1>1, <1>2, <1>3, RetireStep
    <2>2. QED BY <2>1, LineSuffices
  <1>4. CASE WriteBack
    <2>1. TypeOK' /\ Tables' /\ Line(w, n, x, z, z)'
      BY <1>1, <1>2, <1>4, WriteBackStep
    <2>2. QED BY <2>1, LineSuffices
  <1>5. ASSUME NEW u \in Urbs, Submit(u) PROVE QueueInv'
    <2>1. TypeOK' /\ Tables' /\ Line(w, n, x, y, z)'
      BY <1>1, <1>2, <1>5, SubmitStep
    <2>2. QED BY <2>1, LineSuffices
  <1>6. ASSUME NEW u \in Urbs, dl_del_list(u) PROVE QueueInv'
    <2>1. TypeOK' /\ Tables' /\ \E v, m : Line(v, m, x, y, z)' /\ Deletes(w, n, z, u, v, m)
      BY <1>1, <1>2, <1>6, DelStep
    <2>2. PICK v, m : Line(v, m, x, y, z)'
      BY <2>1
    <2>3. QED BY <2>1, <2>2, LineSuffices
  <1>7. CASE td_fill
    <2>1. PICK a : a = hwTailP
      OBVIOUS
    <2>2. TypeOK' /\ Tables' /\ Line(Added(w, n, a), n + 1, x, y, z)'
      BY <1>1, <1>2, <1>7, <2>1, FillStep
    <2>3. PICK v, m : v = Added(w, n, a) /\ m = n + 1
      OBVIOUS
    <2>4. Line(v, m, x, y, z)'
      BY <2>2, <2>3
    <2>5. QED BY <2>2, <2>4, LineSuffices
  <1>8. CASE td_submit_urb_end
    <2>1. TypeOK' /\ Tables' /\ Line(w, n, x, y, z)'
      BY <1>1, <1>2, <1>8, EndStep
    <2>2. QED BY <2>1, LineSuffices
  <1>9. CASE dl_reverse_done_list
    <2>1. TypeOK' /\ Tables' /\ \E v, m : Line(v, m, y, y, z)' /\ Reverses(w, n, y, z, v, m)
      BY <1>1, <1>2, <1>9, ReverseStep
    <2>2. PICK v, m : Line(v, m, y, y, z)'
      BY <2>1
    <2>3. QED BY <2>1, <2>2, LineSuffices
  <1>10. CASE DoneTd
    <2>1. PICK c : c = Cut(w, n, 1, 1)
      OBVIOUS
    <2>2. TypeOK' /\ Tables' /\ Line(c, n - 1, x - 1, y - 1, z - 1)'
      BY <1>1, <1>2, <1>10, <2>1, DoneStep
    <2>3. QED BY <2>2, LineSuffices
  <1>11. CASE UNCHANGED vars
    <2>1. TypeOK' /\ Tables' /\ Line(w, n, x, y, z)'
      BY <1>1, <1>2, <1>11, StutterStep
    <2>2. QED BY <2>1, LineSuffices
  <1>12. QED BY <1>3, <1>4, <1>5, <1>6, <1>7, <1>8, <1>9, <1>10, <1>11 DEF Next, Controller, Driver

-----------------------------------------------------------------------------
(* The bytes.  D are the TDs that were retired, Q those in the queue, and  *)
(* f is the urb whose TD failed, if the endpoint is halted.                *)

(* Where the bytes of a retired TD end.                                    *)
Pos(t) == IF t.CBP = 0 THEN t.BE - Base + 1 ELSE t.CBP - Base

(* Where those of a TD begin.                                              *)
Begin(i) == IF type = "BULK" THEN i * Chunk ELSE 0

(* What the TD was filled with.                                            *)
Entry(a) == Contents(td[a].urb)[td[a].index + 1]

(* All before the i-th TD was transferred, if that has bytes to come.      *)
AtStart(u, i) ==
  i < Len(Contents(u)) /\ (type = "CONTROL" => i < 2) => moved[u] = Begin(i)

(* The controller changes a TD only when it retires it, and never its end. *)
Fresh(D, Q) ==
  /\ \A a \in D \cup Q : td[a].BE = Entry(a).BE
  /\ \A a \in Q : td[a].CBP = Entry(a).CBP /\ td[a].R = Entry(a).R

(* The last retired TD with bytes says how many there were.                *)
LastData(D) ==
  \A a \in D :
     td[a].BE # 0
     /\ (\A b \in D : td[b].urb = td[a].urb /\ td[b].index > td[a].index => td[b].BE = 0)
     => Pos(td[a]) = moved[td[a].urb]

(* If there is none any more, the driver knows it already.                 *)
NoData(D) ==
  \A u \in Urbs : (\A a \in D : td[a].urb = u => td[a].BE = 0)
                  => actual_length[u] = moved[u]

(* The first TD of an urb in the queue begins where the last one ended;    *)
(* so does the one that is filled next, if there is none.                  *)
NextData(Q, f) ==
  \A a \in Q :
     (\A b \in Q : td[b].urb = td[a].urb => td[a].index <= td[b].index) /\ td[a].urb # f
     => AtStart(td[a].urb, td[a].index)
FillData(Q, f) ==
  filling # NoUrb /\ filling # f /\ (\A b \in Q : td[b].urb # filling)
  => AtStart(filling, cnt)

Idle == \A u \in Urbs : priv[u] = <<>> => moved[u] = 0

Data(D, Q, f) ==
  Fresh(D, Q) /\ LastData(D) /\ NoData(D) /\ NextData(Q, f) /\ FillData(Q, f) /\ Idle

(* The step leaves alone what the TD transfers.                            *)
Same(a) ==
  /\ td'[a].urb = td[a].urb /\ td'[a].index = td[a].index /\ td'[a].R = td[a].R
  /\ td'[a].CBP = td[a].CBP /\ td'[a].BE = td[a].BE

(* The TDs of an urb, g, are taken out of the queue; it keeps its count of *)
(* bytes, or has no retired ones any more and begins again.                *)
Thins(D, Q, f, g, D1, Q1, f1) ==
  /\ Q1 = { a \in Q : td[a].urb # g }
  /\ \A a \in D1 \cup Q1 : Same(a)
  /\ f1 = f \/ f = g
  /\ \A u \in Urbs : u # g => moved'[u] = moved[u] /\ actual_length'[u] = actual_length[u]
  /\ \/ /\ D1 = D
        /\ g \in Urbs => moved'[g] = moved[g] /\ actual_length'[g] = actual_length[g]
     \/ /\ D1 = { a \in D : td[a].urb # g }
        /\ g \in Urbs => moved'[g] = 0 /\ actual_length'[g] = 0

LEMMA ThinnedData ==
  ASSUME NEW D, NEW Q, NEW f, NEW g, NEW D1, NEW Q1, NEW f1,
         Data(D, Q, f), UNCHANGED setup, \A a \in D \cup Q : td[a].urb \in Urbs,
         Thins(D, Q, f, g, D1, Q1, f1), FillData(Q1, f1)', Idle'
  PROVE  Data(D1, Q1, f1)'
  <1>1. /\ Q1 = { a \in Q : td[a].urb # g }
        /\ \A a \in D1 \cup Q1 : Same(a)
        /\ f1 = f \/ f = g
        /\ \A u \in Urbs : u # g => moved'[u] = moved[u] /\ actual_length'[u] = actual_length[u]
    BY DEF Thins
  <1>2. D1 \subseteq D /\ Q1 \subseteq Q
    BY <1>1 DEF Thins
  <1>3. \A u : Contents(u)' = Contents(u)
    BY SetupKept
  <1>4. type' = type
    BY DEF setup
  <1>5. Fresh(D1, Q1)'
    <2>1. Fresh(D, Q)
      BY DEF Data
    <2>2. \A a \in D1 \cup Q1 : Entry(a)' = Entry(a)
      BY <1>1, <1>3 DEF Same, Entry
    <2>3. QED BY <1>1, <1>2, <2>1, <2>2 DEF Fresh, Same
  <1>6. \A a \in D1 : Pos(td[a])' = Pos(td[a])
    BY <1>1 DEF Same, Pos
  <1>7. LastData(D1)'
    <2> SUFFICES ASSUME NEW a \in D1, td'[a].BE # 0,
                        \A b \in D1 : td'[b].urb = td'[a].urb /\ td'[b].index > td'[a].index
                                      => td'[b].BE = 0
                 PROVE  Pos(td[a])' = moved'[td'[a].urb]
      BY DEF LastData
    <2>1. Same(a) /\ td[a].BE # 0 /\ a \in D /\ td[a].urb \in Urbs
      BY <1>1, <1>2 DEF Same
    <2>2. \A b \in D1 : td[b].urb = td[a].urb /\ td[b].index > td[a].index => td[b].BE = 0
      BY <1>1, <2>1 DEF Same
    <2>3. CASE D1 = D
      <3>1. Pos(td[a]) = moved[td[a].urb]
        BY <2>1, <2>2, <2>3 DEF Data, LastData
      <3>2. CASE D1 = D /\ (g \in Urbs => moved'[g] = moved[g] /\ actual_length'[g] = actual_length[g])
        BY <1>1, <1>6, <2>1, <3>1, <3>2 DEF Same
      <3>3. CASE /\ D1 = { b \in D : td[b].urb # g }
        <4>1. td[a].urb # g
          BY <3>3
        <4>2. QED BY <1>1, <1>6, <2>1, <3>1, <4>1 DEF Same
      <3>4. QED BY <3>2, <3>3 DEF Thins
    <2>4. CASE D1 = { b \in D : td[b].urb # g }
      <3>1. td[a].urb # g
        BY <2>4
      <3>2. \A b \in D : td[b].urb = td[a].urb => b \in D1
        BY <2>4, <3>1
      <3>3. Pos(td[a]) = moved[td[a].urb]
        BY <2>1, <2>2, <3>2 DEF Data, LastData
      <3>4. QED BY <1>1, <1>6, <2>1, <3>1, <3>3 DEF Same
    <2>5. QED BY <2>3, <2>4 DEF Thins
  <1>8. NoData(D1)'
    <2> SUFFICES ASSUME NEW u \in Urbs, \A a \in D1 : td'[a].urb = u => td'[a].BE = 0
                 PROVE  actual_length'[u] = moved'[u]
      BY DEF NoData
    <2>1. \A a \in D1 : td[a].urb = u => td[a].BE = 0
      BY <1>1 DEF Same
    <2>2. CASE u = g /\ moved'[g] = 0 /\ actual_length'[g] = 0
      BY <2>2
    <2>3. CASE D1 = D /\ (g \in Urbs => moved'[g] = moved[g] /\ actual_length'[g] = actual_length[g])
      <3>1. actual_length[u] = moved[u]
        BY <2>1, <2>3 DEF Data, NoData
      <3>2. QED BY <1>1, <2>3, <3>1
    <2>4. CASE D1 = { a \in D : td[a].urb # g } /\ u # g
      <3>1. \A a \in D : td[a].urb = u => td[a].BE = 0
        BY <2>1, <2>4
      <3>2. actual_length[u] = moved[u]
        BY <3>1 DEF Data, NoData
      <3>3. QED BY <1>1, <2>4, <3>2
    <2>5. QED BY <2>2, <2>3, <2>4 DEF Thins
  <1>9. \A u \in Urbs : \A i : u # g => (AtStart(u, i)' <=> AtStart(u, i))
    BY <1>1, <1>3, <1>4 DEF AtStart, Begin
  <1>10. NextData(Q1, f1)'
    <2> SUFFICES ASSUME NEW a \in Q1, td'[a].urb # f1,
                        \A b \in Q1 : td'[b].urb = td'[a].urb => td'[a].index <= td'[b].index
                 PROVE  AtStart(td[a].urb, td[a].index)'
      BY DEF NextData
    <2>1. Same(a) /\ a \in Q /\ td[a].urb # g /\ td[a].urb \in Urbs
      BY <1>1
    <2>2. td[a].urb # f
      BY <1>1, <2>1 DEF Same
    <2>3. \A b \in Q : td[b].urb = td[a].urb => td[a].index <= td[b].index
      <3> SUFFICES ASSUME NEW b \in Q, td[b].urb = td[a].urb PROVE td[a].index <= td[b].index
        OBVIOUS
      <3>1. b \in Q1
        BY <1>1, <2>1
      <3>2. QED BY <1>1, <2>1, <3>1 DEF Same
    <2>4. AtStart(td[a].urb, td[a].index)
      BY <2>1, <2>2, <2>3 DEF Data, NextData
    <2>5. PICK u, i : u \in Urbs /\ u = td[a].urb /\ i = td[a].index
      BY <2>1
    <2>6. AtStart(u, i)'
      BY <1>9, <2>1, <2>4, <2>5
    <2>7. QED BY <2>1, <2>5, <2>6 DEF Same, AtStart, Begin
  <1>11. QED BY <1>5, <1>7, <1>8, <1>10 DEF Data

(* dl_done_list takes the first of the retired TDs of an urb, not the last *)
(* of the urb: its end is what the driver knows from now on.               *)
Taken(D, a, D1) ==
  /\ a \in D /\ td[a].urb \in Urbs /\ D1 = D \ {a}
  /\ \A b \in D : td[b].urb = td[a].urb => ~ (td[a].index > td[b].index)
  /\ \A b \in D1 : td[b].urb = td[a].urb => td[b].index > td[a].index
  /\ actual_length'[td[a].urb] = IF td[a].BE = 0 THEN actual_length[td[a].urb] ELSE Pos(td[a])
  /\ \A u \in Urbs : u # td[a].urb => actual_length'[u] = actual_length[u]

LEMMA TakenData ==
  ASSUME NEW D, NEW Q, NEW f, NEW a, NEW D1, Data(D, Q, f), UNCHANGED setup,
         moved' = moved, filling' = filling, cnt' = cnt, \A b \in D1 \cup Q : Same(b),
         Taken(D, a, D1), Idle'
  PROVE  Data(D1, Q, f)'
  <1>1. /\ a \in D /\ td[a].urb \in Urbs /\ D1 = D \ {a}
        /\ \A b \in D : td[b].urb = td[a].urb => ~ (td[a].index > td[b].index)
        /\ \A b \in D1 : td[b].urb = td[a].urb => td[b].index > td[a].index
        /\ actual_length'[td[a].urb] = IF td[a].BE = 0 THEN actual_length[td[a].urb] ELSE Pos(td[a])
        /\ \A u \in Urbs : u # td[a].urb => actual_length'[u] = actual_length[u]
    BY DEF Taken
  <1>2. \A u : Contents(u)' = Contents(u)
    BY SetupKept
  <1>3. type' = type
    BY DEF setup
  <1>4. Fresh(D1, Q)'
    <2>1. \A b \in D1 \cup Q : Entry(b)' = Entry(b)
      BY <1>2 DEF Same, Entry
    <2>2. QED BY <1>1, <2>1 DEF Data, Fresh, Same
  <1>5. LastData(D1)'
    <2> SUFFICES ASSUME NEW b \in D1, td'[b].BE # 0,
                        \A c \in D1 : td'[c].urb = td'[b].urb /\ td'[c].index > td'[b].index
                                      => td'[c].BE = 0
                 PROVE  Pos(td[b])' = moved'[td'[b].urb]
      BY DEF LastData
    <2>1. Same(b) /\ td[b].BE # 0 /\ b \in D
      BY <1>1 DEF Same
    <2>2. \A c \in D : td[c].urb = td[b].urb /\ td[c].index > td[b].index => td[c].BE = 0
      <3> SUFFICES ASSUME NEW c \in D, td[c].urb = td[b].urb, td[c].index > td[b].index
                   PROVE  td[c].BE = 0
        OBVIOUS
      <3>1. c # a
        BY <1>1
      <3>2. c \in D1 /\ Same(c)
        BY <1>1, <3>1
      <3>3. QED BY <2>1, <3>2 DEF Same
    <2>3. Pos(td[b]) = moved[td[b].urb]
      BY <2>1, <2>2 DEF Data, LastData
    <2>4. QED BY <2>1, <2>3 DEF Same, Pos
  <1>6. NoData(D1)'
    <2> SUFFICES ASSUME NEW u \in Urbs, \A b \in D1 : td'[b].urb = u => td'[b].BE = 0
                 PROVE  actual_length'[u] = moved[u]
      BY DEF NoData
    <2>1. \A b \in D1 : td[b].urb = u => td[b].BE = 0
      BY DEF Same
    <2>2. CASE u # td[a].urb \/ td[a].BE = 0
      <3>1. \A b \in D : td[b].urb = u => td[b].BE = 0
        BY <1>1, <2>1, <2>2
      <3>2. actual_length[u] = moved[u]
        BY <3>1 DEF Data, NoData
      <3>3. QED BY <1>1, <2>2, <3>2
    <2>3. CASE u = td[a].urb /\ td[a].BE # 0
      <3>1. \A b \in D : td[b].urb = td[a].urb /\ td[b].index > td[a].index => td[b].BE = 0
        <4> SUFFICES ASSUME NEW b \in D, td[b].urb = td[a].urb, td[b].index > td[a].index
                     PROVE  td[b].BE = 0
          OBVIOUS
        <4>1. CASE b = a
          BY <1>1, <4>1
        <4>2. CASE b # a
          BY <1>1, <2>1, <2>3, <4>2
        <4>3. QED BY <4>1, <4>2
      <3>2. Pos(td[a]) = moved[td[a].urb]
        BY <1>1, <2>3, <3>1 DEF Data, LastData
      <3>3. QED BY <1>1, <2>3, <3>2
    <2>4. QED BY <2>2, <2>3
  <1>7. \A u, i : AtStart(u, i)' <=> AtStart(u, i)
    BY <1>2, <1>3 DEF AtStart, Begin
  <1>8. NextData(Q, f)'
    <2> SUFFICES ASSUME NEW b \in Q, td'[b].urb # f,
                        \A c \in Q : td'[c].urb = td'[b].urb => td'[b].index <= td'[c].index
                 PROVE  AtStart(td[b].urb, td[b].index)'
      BY DEF NextData
    <2>1. td[b].urb # f /\ \A c \in Q : td[c].urb = td[b].urb => td[b].index <= td[c].index
      BY DEF Same
    <2>2. PICK u, i : u = td[b].urb /\ i = td[b].index
      OBVIOUS
    <2>3. AtStart(u, i)
      BY <2>1, <2>2 DEF Data, NextData
    <2>4. AtStart(u, i)'
      BY <1>7, <2>3
    <2>5. u = td'[b].urb /\ i = td'[b].index
      BY <2>2 DEF Same
    <2>6. QED BY <2>4, <2>5 DEF AtStart, Begin
  <1>9. FillData(Q, f)'
    <2> SUFFICES ASSUME filling # NoUrb, filling # f, \A b \in Q : td'[b].urb # filling
                 PROVE  AtStart(filling, cnt)'
      BY DEF FillData
    <2>1. \A b \in Q : td[b].urb # filling
      BY DEF Same
    <2>2. AtStart(filling, cnt)
      BY <2>1 DEF Data, FillData
    <2>3. PICK u, i : u = filling /\ i = cnt
      OBVIOUS
    <2>4. AtStart(u, i)'
      BY <1>7, <2>2, <2>3
    <2>5. QED BY <2>3, <2>4 DEF AtStart, Begin
  <1>10. QED BY <1>4, <1>5, <1>6, <1>8, <1>9 DEF Data

(* What td_submit_urb put into the TD with index i.                        *)
LEMMA EntryIs ==
  ASSUME TypeOK, ShortControl, NEW u \in Urbs, NEW i \in Nat, i < Size(u),
         NEW e, e = Contents(u)[i + 1]
  PROVE  /\ e.CBP \in Int /\ e.BE \in Int /\ e.R \in BOOLEAN /\ Begin(i) \in Nat
         /\ e.BE # 0 => /\ e.CBP = Base + Begin(i)
                        /\ type = "CONTROL" => i = 1 /\ Size(u) = 3
         /\ i + 1 < Size(u) /\ type = "BULK" =>
               ~ e.R /\ e.BE # 0 /\ e.BE - e.CBP + 1 = Chunk /\ Begin(i + 1) = Begin(i) + Chunk
         /\ i + 1 < 2 /\ type = "CONTROL" => e.BE = 0 /\ Begin(i + 1) = Begin(i)
         /\ type = "INTERRUPT" => Size(u) = 1
  <1>1. /\ Size(u) \in Nat /\ Size(u) > 0 /\ Len(Contents(u)) = Size(u)
        /\ DOMAIN Contents(u) = 1 .. Size(u)
    BY ContentsLen
  <1>2. i + 1 \in 1 .. Size(u)
    BY <1>1
  <1>3. e.CBP \in Int /\ e.BE \in Int /\ e.R \in BOOLEAN
    BY <1>2, ContentsType
  <1>4. /\ len[u] \in Nat /\ type \in {"BULK", "CONTROL", "INTERRUPT"}
        /\ type = "CONTROL" => len[u] <= Chunk
        /\ Chunk \in Nat \ {0} /\ In \in BOOLEAN
    BY LenOf, TdAssumption
  <1>5. ASSUME NEW f \in Int, NEW n \in Int, NEW s \in BOOLEAN, e = Bytes(f, n, s)
        PROVE  /\ e.BE # 0 => e.CBP = Base + f
               /\ e.R = s
               /\ n # 0 => e.BE = Base + f + n - 1 /\ e.CBP = Base + f
    BY <1>5 DEF Bytes, NoBytes, Base
  <1>6. Base = 1
    BY DEF Base
  <1>7. CASE type = "BULK"
    <2>1. PICK m \in Nat : m = i * Chunk
      BY <1>4
    <2>2. Begin(i) = m /\ Begin(i + 1) = m + Chunk
      <3>1. (i + 1) * Chunk = i * Chunk + Chunk
        BY <1>4
      <3>2. QED BY <1>7, <2>1, <3>1 DEF Begin
    <2>3. Size(u) = BulkTds(u)
      BY <1>7 DEF Size, BulkTds
    <2>4. (i + 1 - 1) * Chunk = m
      <3>1. i + 1 - 1 = i
        OBVIOUS
      <3>2. QED BY <2>1, <3>1, Zenon
    <2>5. e = IF i + 1 < BulkTds(u) THEN Bytes(m, Chunk, FALSE) ELSE Bytes(m, len[u] - m, In)
      <3>1. PICK j \in 1 .. Size(u) : j = i + 1
        BY <1>2
      <3>2. Contents(u)[j] = IF j < BulkTds(u) THEN Bytes((j - 1) * Chunk, Chunk, FALSE)
                             ELSE Bytes((j - 1) * Chunk, len[u] - (j - 1) * Chunk, In)
        BY <1>7, <2>3 DEF Contents
      <3>3. (j - 1) * Chunk = m
        BY <2>4, <3>1
      <3>4. QED BY <3>1, <3>2, <3>3
    <2>6. Chunk \in Int /\ len[u] - m \in Int /\ m \in Int /\ FALSE \in BOOLEAN /\ Chunk # 0
      BY <1>4
    <2>7. e.BE # 0 => e.CBP = Base + m
      <3>1. CASE i + 1 < BulkTds(u)
        <4>1. e = Bytes(m, Chunk, FALSE)
          BY <2>5, <3>1
        <4>2. QED BY <1>5, <2>6, <4>1
      <3>2. CASE ~ (i + 1 < BulkTds(u))
        <4>1. e = Bytes(m, len[u] - m, In)
          BY <2>5, <3>2
        <4>2. QED BY <1>4, <1>5, <2>6, <4>1
      <3>3. QED BY <3>1, <3>2
    <2>8. i + 1 < Size(u) => ~ e.R /\ e.BE = Base + m + Chunk - 1 /\ e.CBP = Base + m
      <3> HAVE i + 1 < Size(u)
      <3>1. e = Bytes(m, Chunk, FALSE)
        BY <2>3, <2>5
      <3>2. QED BY <1>5, <2>6, <3>1
    <2>9. i + 1 < Size(u) => ~ e.R /\ e.BE # 0 /\ e.BE - e.CBP + 1 = Chunk
      BY <1>6, <2>6, <2>8, <1>4
    <2>10. QED BY <1>3, <1>7, <2>1, <2>2, <2>7, <2>9
  <1>8. CASE type = "CONTROL"
    <2>1. Begin(i) = 0 /\ Begin(i + 1) = 0
      BY <1>8 DEF Begin
    <2>2. Size(u) = IF len[u] > 0 THEN 3 ELSE 2
      BY <1>1, <1>4, <1>8 DEF Contents
    <2>3. e = IF i + 1 \in {1, Size(u)} THEN NoBytes ELSE Bytes(0, len[u], TRUE)
      BY <1>2, <1>8, <2>2 DEF Contents
    <2>4. NoBytes.BE = 0
      BY DEF NoBytes
    <2>5. e.BE # 0 => e.CBP = Base + 0 /\ i = 1 /\ Size(u) = 3
      <3> HAVE e.BE # 0
      <3>1. e = Bytes(0, len[u], TRUE) /\ i + 1 # 1 /\ i + 1 # Size(u)
        BY <2>3, <2>4
      <3>2. 0 \in Int /\ len[u] \in Int /\ TRUE \in BOOLEAN
        BY <1>4
      <3>3. e.CBP = Base + 0
        BY <1>5, <3>1, <3>2
      <3>4. Size(u) = 2 \/ Size(u) = 3
        BY <2>2
      <3>5. i = 1 /\ Size(u) = 3
        BY <3>1, <3>4
      <3>6. QED BY <3>3, <3>5
    <2>6. i + 1 < 2 => e.BE = 0
      <3>1. i + 1 < 2 => i + 1 = 1
        OBVIOUS
      <3>2. QED BY <2>3, <2>4, <3>1
    <2>7. QED BY <1>3, <1>8, <2>1, <2>5, <2>6
  <1>9. CASE type = "INTERRUPT"
    <2>1. Begin(i) = 0
      BY <1>9 DEF Begin
    <2>2. Size(u) = 1
      BY <1>9 DEF Size
    <2>3. e = Bytes(0, len[u], In)
      BY <1>2, <1>9, <2>2 DEF Contents
    <2>4. e.BE # 0 => e.CBP = Base + 0
      <3>1. 0 \in Int /\ len[u] \in Int
        BY <1>4
      <3>2. QED BY <1>4, <1>5, <2>3, <3>1
    <2>5. QED BY <1>3, <1>9, <2>1, <2>2, <2>4
  <1>10. QED BY <1>4, <1>7, <1>8, <1>9

(* So dl_transfer_length finds where the bytes of a TD end, if it has any. *)
LEMMA TransferIs ==
  ASSUME TypeOK, Tables, ShortControl, NEW u \in Urbs, NEW a \in Addresses, td[a].urb = u,
         td[a].index < Len(priv[u]), td[a].BE = Entry(a).BE
  PROVE  dl_transfer_length(u, td[a]) = IF td[a].BE = 0 THEN actual_length[u] ELSE Pos(td[a])
  <1>1. PICK i \in Nat, p \in Nat : i = td[a].index /\ p = Len(priv[u]) /\ i < p
    BY DEF TypeOK
  <1>2. p = Size(u)
    BY <1>1, ContentsLen DEF Tables
  <1>3. PICK e : e = Contents(u)[i + 1]
    OBVIOUS
  <1>4. e.BE # 0 => (type = "CONTROL" => i = 1 /\ Size(u) = 3)
    BY <1>1, <1>2, <1>3, EntryIs
  <1>5. td[a].BE = e.BE
    BY <1>1, <1>3 DEF Entry
  <1>6. td[a].BE = 0 => dl_transfer_length(u, td[a]) = actual_length[u]
    BY DEF dl_transfer_length
  <1>7. td[a].BE # 0 => dl_transfer_length(u, td[a]) = Pos(td[a])
    <2> HAVE td[a].BE # 0
    <2>1. ~ (type = "CONTROL" /\ td[a].index \in {0, Len(priv[u]) - 1})
      BY <1>1, <1>2, <1>4, <1>5
    <2>2. QED BY <2>1 DEF dl_transfer_length, Pos
  <1>8. QED BY <1>6, <1>7

(* The first TD of the queue: what is retired of its urb came before it,   *)
(* what waits comes after it, and no index is left out.                    *)
First(D, Q, a) ==
  /\ a \in Q /\ D \subseteq Addresses /\ Q \subseteq Addresses /\ a \notin D
  /\ \A b \in D \cup Q : td[b].urb \in Urbs
  /\ td[a].index < Filled(td[a].urb)
  /\ \A b \in D : td[b].urb = td[a].urb => td[b].index < td[a].index
  /\ \A b \in Q \ {a} : td[b].urb = td[a].urb => td[a].index < td[b].index
  /\ \A b \in Q \ {a} :
        /\ td[b].urb = td[a].urb
        /\ \A c \in Q \ {a} : td[c].urb = td[a].urb => td[b].index <= td[c].index
        => td[b].index = td[a].index + 1
  /\ filling = td[a].urb /\ (\A b \in Q \ {a} : td[b].urb # td[a].urb)
        => cnt = td[a].index + 1

(* What the controller does to it.                                         *)
Serves(a, l, stops) ==
  /\ l \in Nat /\ (td[a].BE = 0 => l = 0)
  /\ td'[a].urb = td[a].urb /\ td'[a].index = td[a].index /\ td'[a].BE = td[a].BE
  /\ AtStart(td[a].urb, td[a].index) /\ td[a].BE # 0
        => /\ moved[td[a].urb] = Begin(td[a].index)
           /\ Pos(td'[a]) = moved[td[a].urb] + l
  /\ AtStart(td[a].urb, td[a].index) /\ ~ stops => AtStart(td[a].urb, td[a].index + 1)'
  /\ moved'[td[a].urb] = moved[td[a].urb] + l
  /\ \A u \in Urbs : u # td[a].urb => moved'[u] = moved[u]
  /\ \A b \in Addresses : b # a => td'[b] = td[b]

(* Retire does that, as far as the bytes go.                               *)
LEMMA ServesIs ==
  ASSUME ShortControl, TypeOK, Tables, NEW a \in Addresses, a = hwHeadP, td[a].urb \in Urbs,
         td[a].index < Filled(td[a].urb), Fresh({}, {a}),
         NEW l, NEW s \in BOOLEAN, Retire(l, s)
  PROVE  Serves(a, l, halted')
  <1>1. PICK u, i, e, cc, size :
           /\ u \in Urbs /\ i \in Nat
           /\ u = td[a].urb /\ i = td[a].index /\ e = Contents(u)[i + 1]
           /\ size = IF td[a].BE = 0 THEN 0 ELSE td[a].BE - td[a].CBP + 1
           /\ cc = IF s THEN "STALL" ELSE IF l < size /\ ~ td[a].R THEN "UNDERRUN" ELSE "NOERROR"
    <2>1. td[a].index \in Nat
      BY DEF TypeOK
    <2>2. QED BY <2>1
  <1>2. /\ UNCHANGED <<type, len>>
        /\ l \in 0 .. size
        /\ td' = [td EXCEPT ![a].CBP = IF l = size THEN 0 ELSE @ + l,
                            ![a].CC = cc, ![a].NextTD = hc_done]
        /\ halted' = (cc # "NOERROR")
        /\ moved' = [moved EXCEPT ![u] = @ + l]
    BY <1>1 DEF Retire, setup
  <1>3. \A v : Contents(v)' = Contents(v)
    BY SetupKept DEF Retire
  <1>4. Filled(u) \in Nat /\ Filled(u) <= Len(priv[u]) /\ Len(priv[u]) \in Nat
    BY <1>1, FilledFits
  <1>5. i < Size(u) /\ Size(u) \in Nat /\ Len(Contents(u)) = Size(u)
    <2>1. Size(u) \in Nat /\ Len(Contents(u)) = Size(u)
      BY <1>1, ContentsLen
    <2>2. Len(priv[u]) = 0 \/ Len(priv[u]) = Size(u)
      BY <1>1 DEF Tables
    <2>3. i < Filled(u)
      BY <1>1
    <2>4. QED BY <1>1, <1>4, <2>1, <2>2, <2>3
  <1>6. /\ e.CBP \in Int /\ e.BE \in Int /\ e.R \in BOOLEAN /\ Begin(i) \in Nat
        /\ e.BE # 0 => /\ e.CBP = Base + Begin(i)
                       /\ type = "CONTROL" => i = 1 /\ Size(u) = 3
        /\ i + 1 < Size(u) /\ type = "BULK" =>
              ~ e.R /\ e.BE # 0 /\ e.BE - e.CBP + 1 = Chunk /\ Begin(i + 1) = Begin(i) + Chunk
        /\ i + 1 < 2 /\ type = "CONTROL" => e.BE = 0 /\ Begin(i + 1) = Begin(i)
        /\ type = "INTERRUPT" => Size(u) = 1
    BY <1>1, <1>5, EntryIs
  <1>7. td[a].BE = e.BE /\ td[a].CBP = e.CBP /\ td[a].R = e.R
    BY <1>1 DEF Fresh, Entry
  <1>8. PICK first, end : first = e.CBP /\ end = e.BE
    OBVIOUS
  <1>9. /\ first \in Int /\ end \in Int /\ size = IF end = 0 THEN 0 ELSE end - first + 1
        /\ l \in Nat /\ l <= size /\ size \in Int
    <2>1. first \in Int /\ end \in Int
      BY <1>6, <1>8
    <2>2. size = IF end = 0 THEN 0 ELSE end - first + 1
      BY <1>1, <1>7, <1>8
    <2>3. QED BY <1>2, <2>1, <2>2
  <1>10. /\ \A b \in Addresses : b # a => td'[b] = td[b]
         /\ td'[a].urb = td[a].urb /\ td'[a].index = td[a].index /\ td'[a].BE = end
         /\ td'[a].CBP = IF l = size THEN 0 ELSE first + l
    <2>1. /\ \A b \in Addresses : b # a => td'[b] = td[b]
          /\ td'[a].urb = td[a].urb /\ td'[a].index = td[a].index /\ td'[a].BE = td[a].BE
      BY <1>2 DEF TypeOK
    <2>2. td'[a].CBP = IF l = size THEN 0 ELSE td[a].CBP + l
      BY <1>2 DEF TypeOK
    <2>3. QED BY <1>7, <1>8, <2>1, <2>2
  <1>11. moved[u] \in Int /\ moved'[u] = moved[u] + l
         /\ \A v \in Urbs : v # u => moved'[v] = moved[v]
    BY <1>1, <1>2 DEF TypeOK
  <1>12. type \in {"BULK", "CONTROL", "INTERRUPT"}
    BY LenOf
  <1>13. AtStart(u, i) /\ end # 0 => moved[u] = Begin(i)
    <2> HAVE AtStart(u, i) /\ end # 0
    <2>1. type = "CONTROL" => i < 2
      BY <1>6, <1>8
    <2>2. QED BY <1>5, <2>1 DEF AtStart
  <1>14. end # 0 => Pos(td'[a]) = Begin(i) + l
    <2> HAVE end # 0
    <2>1. PICK g \in Nat : g = Begin(i)
      BY <1>6
    <2>2. first = 1 + g /\ size = end - first + 1
      BY <1>6, <1>8, <1>9, <2>1 DEF Base
    <2>3. Pos(td'[a]) = IF td'[a].CBP = 0 THEN end - 1 + 1 ELSE td'[a].CBP - 1
      BY <1>10 DEF Pos, Base
    <2>4. CASE l = size
      <3>1. Pos(td'[a]) = end - 1 + 1
        BY <1>10, <2>3, <2>4
      <3>2. QED BY <1>9, <2>1, <2>2, <2>4, <3>1
    <2>5. CASE l # size
      <3>1. td'[a].CBP = first + l
        BY <1>10, <2>5
      <3>2. QED BY <1>9, <2>1, <2>2, <2>3, <3>1
    <2>6. QED BY <2>4, <2>5
  <1>15. AtStart(u, i) /\ ~ halted' => AtStart(u, i + 1)'
    <2> SUFFICES ASSUME AtStart(u, i), ~ halted', i + 1 < Len(Contents(u)), type = "CONTROL" => i + 1 < 2
                 PROVE  moved'[u] = Begin(i + 1)
      BY <1>2, <1>3 DEF AtStart, Begin
    <2>1. moved[u] = Begin(i)
      <3>1. i < Len(Contents(u)) /\ (type = "CONTROL" => i < 2)
        BY <1>1, <1>5
      <3>2. QED BY <3>1 DEF AtStart
    <2>2. ~ s /\ (l < size => td[a].R)
      BY <1>1, <1>2
    <2>3. CASE type = "BULK"
      <3>1. ~ e.R /\ end # 0 /\ end - first + 1 = Chunk /\ Begin(i + 1) = Begin(i) + Chunk
        BY <1>5, <1>6, <1>8, <2>3
      <3>2. ~ (l < size) /\ size = Chunk
        BY <1>7, <1>9, <2>2, <3>1
      <3>3. l = Chunk
        BY <1>9, <3>2
      <3>4. QED BY <1>11, <2>1, <3>1, <3>3
    <2>4. CASE type = "CONTROL"
      <3>1. end = 0 /\ Begin(i + 1) = Begin(i)
        BY <1>6, <1>8, <2>4
      <3>2. l = 0
        BY <1>9, <3>1
      <3>3. QED BY <1>11, <2>1, <3>1, <3>2
    <2>5. CASE type = "INTERRUPT"
      BY <1>1, <1>5, <1>6, <2>5
    <2>6. QED BY <1>12, <2>3, <2>4, <2>5
  <1>16. end = 0 => l = 0
    BY <1>9
  <1>17. td[a].BE = end /\ td'[a].BE = td[a].BE
    BY <1>7, <1>8, <1>10
  <1>18. AtStart(u, i) /\ end # 0 => Pos(td'[a]) = moved[u] + l
    BY <1>13, <1>14
  <1>19. /\ l \in Nat /\ (td[a].BE = 0 => l = 0)
         /\ td'[a].urb = td[a].urb /\ td'[a].index = td[a].index /\ td'[a].BE = td[a].BE
         /\ AtStart(u, i) /\ td[a].BE # 0 => moved[u] = Begin(i) /\ Pos(td'[a]) = moved[u] + l
         /\ AtStart(u, i) /\ ~ halted' => AtStart(u, i + 1)'
         /\ moved'[u] = moved[u] + l
         /\ \A v \in Urbs : v # u => moved'[v] = moved[v]
         /\ \A b \in Addresses : b # a => td'[b] = td[b]
    BY <1>9, <1>10, <1>11, <1>13, <1>15, <1>16, <1>17, <1>18
  <1>20. QED BY <1>1, <1>19 DEF Serves, AtStart, Begin

(* The TD that was served joins the retired ones; if it failed, where its  *)
(* urb goes on does not matter any more.                                   *)
LEMMA RetiredData ==
  ASSUME ShortControl, TypeOK, Tables, NEW D, NEW Q, NEW a \in Addresses, NEW l,
         Data(D, Q, NoUrb), First(D, Q, a), Serves(a, l, halted'), UNCHANGED setup,
         priv' = priv, actual_length' = actual_length, filling' = filling, cnt' = cnt,
         NEW D1, D1 = D \cup {a}, NEW Q1, Q1 = Q \ {a},
         NEW f1, f1 = IF halted' THEN td[a].urb ELSE NoUrb
  PROVE  Data(D1, Q1, f1)'
  <1>1. PICK u, i : u = td[a].urb /\ i = td[a].index
    OBVIOUS
  <1>2. /\ a \in Q /\ D \subseteq Addresses /\ Q \subseteq Addresses /\ a \notin D
        /\ \A b \in D \cup Q : td[b].urb \in Urbs
        /\ i < Filled(u)
        /\ \A b \in D : td[b].urb = u => td[b].index < i
        /\ \A b \in Q \ {a} : td[b].urb = u => i < td[b].index
        /\ \A b \in Q \ {a} : /\ td[b].urb = u
                              /\ \A c \in Q \ {a} : td[c].urb = u => td[b].index <= td[c].index
                              => td[b].index = i + 1
        /\ filling = u /\ (\A b \in Q \ {a} : td[b].urb # u) => cnt = i + 1
    BY <1>1 DEF First
  <1>3. /\ l \in Nat /\ (td[a].BE = 0 => l = 0)
        /\ td'[a].urb = u /\ td'[a].index = i /\ td'[a].BE = td[a].BE
        /\ AtStart(u, i) /\ td[a].BE # 0 => moved[u] = Begin(i) /\ Pos(td'[a]) = moved[u] + l
        /\ moved'[u] = moved[u] + l
        /\ \A v \in Urbs : v # u => moved'[v] = moved[v]
        /\ \A b \in Addresses : b # a => td'[b] = td[b]
    BY <1>1 DEF Serves
  <1>4. AtStart(u, i) /\ ~ halted' => AtStart(u, i + 1)'
    BY <1>1, <1>3 DEF Serves, AtStart, Begin
  <1>5. u \in Urbs /\ u # NoUrb /\ i \in Nat /\ moved[u] \in Int
    <2>1. u \in Urbs
      BY <1>1, <1>2
    <2>2. QED BY <1>1, <2>1, TdAssumption DEF TypeOK
  <1>6. /\ \A b \in D : b \in Addresses /\ b # a /\ td'[b] = td[b]
        /\ \A b \in Q1 : b \in Addresses /\ b # a /\ td'[b] = td[b] /\ b \in Q
    BY <1>2, <1>3
  <1>7. \A v : Contents(v)' = Contents(v)
    BY SetupKept
  <1>8. AtStart(u, i)
    <2>1. \A b \in Q : td[b].urb = td[a].urb => td[a].index <= td[b].index
      <3> SUFFICES ASSUME NEW b \in Q, td[b].urb = u PROVE i <= td[b].index
        BY <1>1
      <3>1. CASE b = a
        BY <1>1, <1>5, <3>1
      <3>2. CASE b # a
        <4>1. i < td[b].index /\ td[b].index \in Nat
          BY <1>2, <3>2 DEF TypeOK
        <4>2. QED BY <1>5, <4>1
      <3>3. QED BY <3>1, <3>2
    <2>2. a \in Q /\ td[a].urb # NoUrb
      BY <1>1, <1>2, <1>5
    <2>3. AtStart(td[a].urb, td[a].index)
      BY <2>1, <2>2 DEF Data, NextData
    <2>4. QED BY <1>1, <2>3
  <1>9. ASSUME NEW v \in Urbs, v # u, NEW j PROVE AtStart(v, j)' <=> AtStart(v, j)
    <2>1. type' = type /\ Contents(v)' = Contents(v) /\ moved'[v] = moved[v]
      BY <1>3, <1>7, <1>9 DEF setup
    <2>2. QED BY <2>1 DEF AtStart, Begin
  <1>10. Fresh(D1, Q1)'
    <2>1. ASSUME NEW b \in D1 PROVE td'[b].BE = (Entry(b).BE)'
      <3>1. td[b].BE = Entry(b).BE
        BY <1>2, <2>1 DEF Data, Fresh
      <3>2. td'[b].BE = td[b].BE /\ td'[b].urb = td[b].urb /\ td'[b].index = td[b].index
        BY <1>1, <1>3, <1>6, <2>1
      <3>3. QED BY <1>7, <3>1, <3>2 DEF Entry
    <2>2. ASSUME NEW b \in Q1
          PROVE  td'[b].BE = (Entry(b).BE)' /\ td'[b].CBP = (Entry(b).CBP)' /\ td'[b].R = (Entry(b).R)'
      <3>1. td[b].BE = Entry(b).BE /\ td[b].CBP = Entry(b).CBP /\ td[b].R = Entry(b).R
        BY <1>6, <2>2 DEF Data, Fresh
      <3>2. td'[b] = td[b]
        BY <1>6, <2>2
      <3>3. QED BY <1>7, <3>1, <3>2 DEF Entry
    <2>3. QED BY <2>1, <2>2 DEF Fresh
  <1>11. LastData(D1)'
    <2> SUFFICES ASSUME NEW b \in D1, td'[b].BE # 0,
                        \A c \in D1 : td'[c].urb = td'[b].urb /\ td'[c].index > td'[b].index
                                      => td'[c].BE = 0
                 PROVE  Pos(td'[b]) = moved'[td'[b].urb]
      BY DEF LastData, Pos
    <2>1. CASE b = a
      BY <1>3, <1>8, <2>1
    <2>2. CASE b # a
      <3>1. b \in D /\ td'[b] = td[b]
        BY <1>6, <2>2
      <3>2. \A c \in D : td[c].urb = td[b].urb /\ td[c].index > td[b].index => td[c].BE = 0
        BY <1>6, <3>1
      <3>3. Pos(td[b]) = moved[td[b].urb]
        BY <3>1, <3>2 DEF Data, LastData
      <3>4. CASE td[b].urb = u
        <4>1. td[b].index < i /\ td[b].index \in Nat
          BY <1>2, <1>6, <3>1, <3>4 DEF TypeOK
        <4>2. td'[a].urb = td'[b].urb /\ td'[a].index > td'[b].index /\ a \in D1
          BY <1>3, <1>5, <3>1, <3>4, <4>1
        <4>3. td'[a].BE = 0
          BY <4>2
        <4>4. l = 0
          BY <1>3, <4>3
        <4>5. QED BY <1>3, <1>5, <3>1, <3>3, <3>4, <4>4
      <3>5. CASE td[b].urb # u
        <4>1. td[b].urb \in Urbs
          BY <1>2, <3>1
        <4>2. QED BY <1>3, <3>1, <3>3, <3>5, <4>1
      <3>6. QED BY <3>4, <3>5
    <2>3. QED BY <2>1, <2>2
  <1>12. NoData(D1)'
    <2> SUFFICES ASSUME NEW v \in Urbs, \A b \in D1 : td'[b].urb = v => td'[b].BE = 0
                 PROVE  actual_length[v] = moved'[v]
      BY DEF NoData
    <2>1. \A b \in D : td[b].urb = v => td[b].BE = 0
      BY <1>6
    <2>2. actual_length[v] = moved[v]
      BY <2>1 DEF Data, NoData
    <2>3. CASE v = u
      <3>1. td[a].BE = 0
        BY <1>3, <2>3
      <3>2. QED BY <1>3, <1>5, <2>2, <2>3, <3>1
    <2>4. CASE v # u
      BY <1>3, <2>2, <2>4
    <2>5. QED BY <2>3, <2>4
  <1>13. NextData(Q1, f1)'
    <2> SUFFICES ASSUME NEW b \in Q1, td'[b].urb # f1,
                        \A c \in Q1 : td'[c].urb = td'[b].urb => td'[b].index <= td'[c].index
                 PROVE  AtStart(td[b].urb, td[b].index)'
      BY DEF NextData
    <2>1. PICK v, j : v = td[b].urb /\ j = td[b].index /\ v \in Urbs
      BY <1>2, <1>6
    <2>2. td'[b].urb = v /\ td'[b].index = j
      BY <1>6, <2>1
    <2>3. \A c \in Q1 : td[c].urb = v => j <= td[c].index
      BY <1>6, <2>2
    <2>4. CASE v = u
      <3>1. ~ halted'
        BY <1>1, <2>2, <2>4
      <3>2. j = i + 1
        BY <1>2, <2>1, <2>3, <2>4
      <3>3. AtStart(u, i + 1)'
        BY <1>4, <1>8, <3>1
      <3>4. QED BY <2>2, <2>4, <3>2, <3>3 DEF AtStart, Begin
    <2>5. CASE v # u
      <3>1. \A c \in Q : td[c].urb = td[b].urb => td[b].index <= td[c].index
        BY <1>1, <2>1, <2>3, <2>5
      <3>2. AtStart(v, j)
        BY <1>6, <2>1, <3>1, TdAssumption DEF Data, NextData
      <3>3. AtStart(v, j)'
        BY <1>9, <2>1, <2>5, <3>2
      <3>4. QED BY <2>2, <3>3 DEF AtStart, Begin
    <2>6. QED BY <2>4, <2>5
  <1>14. FillData(Q1, f1)'
    <2> SUFFICES ASSUME filling # NoUrb, filling # f1, \A b \in Q1 : td'[b].urb # filling
                 PROVE  AtStart(filling, cnt)'
      BY DEF FillData
    <2>1. \A b \in Q1 : td[b].urb # filling
      BY <1>6
    <2>2. PICK v, k : v = filling /\ k = cnt /\ v \in Urbs
      BY DEF TypeOK
    <2>3. CASE v = u
      <3>1. ~ halted' /\ k = i + 1
        BY <1>1, <1>2, <2>1, <2>2, <2>3
      <3>2. AtStart(u, i + 1)'
        BY <1>4, <1>8, <3>1
      <3>3. QED BY <2>2, <2>3, <3>1, <3>2 DEF AtStart, Begin
    <2>4. CASE v # u
      <3>1. \A b \in Q : td[b].urb # filling
        BY <1>1, <2>1, <2>2, <2>4
      <3>2. AtStart(v, k)
        BY <2>2, <3>1 DEF Data, FillData
      <3>3. AtStart(v, k)'
        BY <1>9, <2>2, <2>4, <3>2
      <3>4. QED BY <2>2, <3>3 DEF AtStart, Begin
    <2>5. QED BY <2>3, <2>4
  <1>15. Idle'
    <2> SUFFICES ASSUME NEW v \in Urbs, priv[v] = <<>> PROVE moved'[v] = 0
      BY DEF Idle
    <2>1. v # u
      <3>1. Filled(u) \in Nat /\ Filled(u) <= Len(priv[u])
        BY <1>5, FilledFits
      <3>2. Len(priv[u]) > 0
        BY <1>2, <1>5, <3>1, FilledFits
      <3>3. QED BY <3>2
    <2>2. moved[v] = 0
      BY DEF Data, Idle
    <2>3. QED BY <1>3, <2>1, <2>2
  <1>16. QED BY <1>10, <1>11, <1>12, <1>13, <1>14, <1>15 DEF Data

(* What the line says of each of its TDs.                                  *)
Known(S) ==
  \A b \in S : /\ b \in Addresses /\ b # hwTailP
               /\ td[b].urb \in Urbs /\ td[b].index \in Nat
               /\ td[b].index < Filled(td[b].urb)
               /\ td[b].index + 1 \in DOMAIN priv[td[b].urb]
               /\ priv[td[b].urb][td[b].index + 1] = b

(* The TD that td_submit_urb has filled is the last of its urb.            *)
LEMMA FilledData ==
  ASSUME ShortControl, TypeOK, Tables, NEW D, NEW Q, NEW f, Data(D, Q, f), Known(D \cup Q),
         td_fill, NEW a, a = hwTailP, NEW Q1, Q1 = Q \cup {a}
  PROVE  Data(D, Q1, f)' /\ \A b \in D \cup Q : td'[b] = td[b]
  <1>1. PICK u, k, d, c : /\ u = filling /\ k = cnt /\ d = priv[u][k + 1]
                          /\ c = Contents(u)[k + 1]
    OBVIOUS
  <1>2. /\ UNCHANGED <<type, len, filling, actual_length, moved>>
        /\ u # NoUrb /\ k < Len(Contents(u))
        /\ td' = [td EXCEPT
             ![a] = [urb |-> u, index |-> k, R |-> c.R, CBP |-> c.CBP, BE |-> c.BE,
                     NextTD |-> d, next_dl |-> 0, CC |-> "none"],
             ![d].NextTD = 0]
        /\ priv' = [priv EXCEPT ![u][k + 1] = a]
        /\ cnt' = k + 1
    BY <1>1 DEF td_fill, setup, results, Rotated
  <1>3. u \in Urbs /\ k \in Nat /\ a \in Addresses
    BY <1>1, <1>2 DEF TypeOK
  <1>4. /\ Len(Contents(u)) = Size(u) /\ Size(u) \in Nat /\ priv[u] # <<>> /\ k <= Len(priv[u])
        /\ priv[u] \in Seq(Addresses)
    BY <1>1, <1>2, <1>3, ContentsLen DEF Tables, TypeOK
  <1>5. Len(priv[u]) = Size(u) /\ k + 1 \in DOMAIN priv[u] /\ d \in Addresses /\ d # a
    <2>1. Len(priv[u]) = Size(u)
      BY <1>3, <1>4 DEF Tables
    <2>2. k + 1 \in DOMAIN priv[u]
      BY <1>2, <1>3, <1>4, <2>1
    <2>3. d # a
      BY <1>1, <1>3, <2>2 DEF Tables
    <2>4. QED BY <1>1, <1>4, <2>1, <2>2, <2>3
  <1>6. Filled(u) = k
    BY <1>1 DEF Filled
  <1>7. ASSUME NEW b \in D \cup Q PROVE b \in Addresses /\ b # a /\ td'[b] = td[b]
    <2>1. /\ b \in Addresses /\ b # a /\ td[b].urb \in Urbs /\ td[b].index \in Nat
          /\ td[b].index < Filled(td[b].urb)
          /\ td[b].index + 1 \in DOMAIN priv[td[b].urb]
          /\ priv[td[b].urb][td[b].index + 1] = b
      BY DEF Known
    <2>2. b # d
      <3> SUFFICES ASSUME b = d PROVE FALSE
        OBVIOUS
      <3>1. td[b].urb = u /\ td[b].index + 1 = k + 1
        BY <1>1, <1>3, <1>5, <2>1 DEF Tables
      <3>2. QED BY <1>3, <1>6, <2>1, <3>1
    <2>3. QED BY <1>2, <2>1, <2>2 DEF TypeOK
  <1>8. /\ td'[a].urb = u /\ td'[a].index = k /\ td'[a].R = c.R
        /\ td'[a].CBP = c.CBP /\ td'[a].BE = c.BE
    BY <1>2, <1>3, <1>5 DEF TypeOK
  <1>9. \A v : Contents(v)' = Contents(v)
    BY SetupKept DEF td_fill
  <1>10. \A v, i : AtStart(v, i)' <=> AtStart(v, i)
    BY <1>2, <1>9 DEF AtStart, Begin
  <1>11. ASSUME NEW b \in Q, td[b].urb = u PROVE td[b].index < k
    BY <1>6, <1>11 DEF Known
  <1>12. Fresh(D, Q1)'
    <2>1. ASSUME NEW b \in D PROVE td'[b].BE = (Entry(b).BE)'
      BY <1>7, <1>9 DEF Data, Fresh, Entry
    <2>2. ASSUME NEW b \in Q
          PROVE  td'[b].BE = (Entry(b).BE)' /\ td'[b].CBP = (Entry(b).CBP)' /\ td'[b].R = (Entry(b).R)'
      BY <1>7, <1>9 DEF Data, Fresh, Entry
    <2>3. td'[a].BE = (Entry(a).BE)' /\ td'[a].CBP = (Entry(a).CBP)' /\ td'[a].R = (Entry(a).R)'
      BY <1>1, <1>8, <1>9 DEF Entry
    <2>4. QED BY <2>1, <2>2, <2>3 DEF Fresh
  <1>13. LastData(D)'
    <2>1. \A b \in D : td'[b] = td[b]
      BY <1>7
    <2>2. LastData(D)
      BY DEF Data
    <2> SUFFICES ASSUME NEW b \in D, td'[b].BE # 0,
                        \A e \in D : td'[e].urb = td'[b].urb /\ td'[e].index > td'[b].index
                                      => td'[e].BE = 0
                 PROVE  Pos(td'[b]) = moved[td'[b].urb]
      BY <1>2 DEF LastData, Pos
    <2>3. Pos(td[b]) = moved[td[b].urb]
      BY <2>1, <2>2 DEF LastData
    <2>4. QED BY <2>1, <2>3
  <1>14. NoData(D)'
    BY <1>2, <1>7 DEF Data, NoData
  <1>15. NextData(Q1, f)'
    <2> SUFFICES ASSUME NEW b \in Q1, td'[b].urb # f,
                        \A e \in Q1 : td'[e].urb = td'[b].urb => td'[b].index <= td'[e].index
                 PROVE  AtStart(td[b].urb, td[b].index)'
      BY DEF NextData
    <2>1. CASE b = a
      <3>1. \A e \in Q : td[e].urb # u
        <4> SUFFICES ASSUME NEW e \in Q, td[e].urb = u PROVE FALSE
          OBVIOUS
        <4>1. td[e].index < k /\ td[e].index \in Nat
          BY <1>11 DEF Known
        <4>2. k <= td[e].index
          BY <1>7, <1>8, <2>1
        <4>3. QED BY <1>3, <4>1, <4>2
      <3>2. AtStart(u, k)
        BY <1>1, <1>2, <1>8, <2>1, <3>1 DEF Data, FillData
      <3>3. AtStart(u, k)'
        BY <1>10, <3>2
      <3>4. QED BY <1>8, <2>1, <3>3 DEF AtStart, Begin
    <2>2. CASE b \in Q
      <3>1. PICK v, j : v = td[b].urb /\ j = td[b].index
        OBVIOUS
      <3>2. td'[b] = td[b] /\ \A e \in Q : td'[e] = td[e]
        BY <1>7, <2>2
      <3>3. AtStart(td[b].urb, td[b].index)
        BY <2>2, <3>2 DEF Data, NextData
      <3>4. AtStart(v, j)'
        BY <1>10, <3>1, <3>3
      <3>5. QED BY <3>1, <3>2, <3>4 DEF AtStart, Begin
    <2>3. QED BY <2>1, <2>2
  <1>16. FillData(Q1, f)'
    BY <1>1, <1>2, <1>8 DEF FillData
  <1>17. Idle'
    <2> SUFFICES ASSUME NEW v \in Urbs, priv'[v] = <<>> PROVE moved[v] = 0
      BY <1>2 DEF Idle
    <2>1. v # u
      BY <1>2, <1>3, <1>5 DEF TypeOK
    <2>2. priv'[v] = priv[v]
      BY <1>2, <2>1 DEF TypeOK
    <2>3. QED BY <2>2 DEF Data, Idle
  <1>18. QED BY <1>7, <1>12, <1>13, <1>14, <1>15, <1>16, <1>17 DEF Data

(* The retired TDs, those in the queue, and the urb of the one that failed.*)
Back(w, z) == { w[i] : i \in 1 .. z }
Waits(w, n, z) == { w[i] : i \in z + 1 .. n }
Failing(w, z) == IF halted THEN td[w[z]].urb ELSE NoUrb

(* What is known of the two parts of the line.                             *)
Members(w, n, z) ==
  /\ Known(Back(w, z) \cup Waits(w, n, z))
  /\ \A b \in Back(w, z) : \E i \in 1 .. z : i \in 1 .. n /\ b = w[i]
  /\ \A b \in Waits(w, n, z) : \E i \in z + 1 .. n : i \in 1 .. n /\ b = w[i]

(* A TD in one of them stands at a place of the line.                      *)
LEMMA LineKnown ==
  ASSUME TypeOK, Tables, NEW w, NEW n, NEW x, NEW y, NEW z, Line(w, n, x, y, z)
  PROVE  Members(w, n, z)
  <1>1. InLine(w, n, x, y, z) /\ Placed(w, n)
    BY DEF Line
  <1>2. n \in Nat /\ z \in Nat /\ z <= n
    BY <1>1 DEF InLine
  <1>3. \A b \in Back(w, z) : \E i \in 1 .. z : i \in 1 .. n /\ b = w[i]
    BY <1>2 DEF Back
  <1>4. \A b \in Waits(w, n, z) : \E i \in z + 1 .. n : i \in 1 .. n /\ b = w[i]
    BY <1>2 DEF Waits
  <1>5. Known(Back(w, z) \cup Waits(w, n, z))
    <2> SUFFICES ASSUME NEW b \in Back(w, z) \cup Waits(w, n, z)
                 PROVE  /\ b \in Addresses /\ b # hwTailP
                        /\ td[b].urb \in Urbs /\ td[b].index \in Nat
                        /\ td[b].index < Filled(td[b].urb)
                        /\ td[b].index + 1 \in DOMAIN priv[td[b].urb]
                        /\ priv[td[b].urb][td[b].index + 1] = b
      BY DEF Known
    <2>1. PICK i \in 1 .. n : b = w[i]
      BY <1>3, <1>4
    <2>2. /\ w[i] \in Addresses /\ td[w[i]].urb \in Urbs /\ td[w[i]].index \in Nat
          /\ td[w[i]].index < Filled(td[w[i]].urb)
          /\ td[w[i]].index + 1 \in DOMAIN priv[td[w[i]].urb]
          /\ priv[td[w[i]].urb][td[w[i]].index + 1] = w[i]
          /\ w[i] # hwTailP /\ w[i] # 0
      BY <1>1, LineTds
    <2>3. QED BY <2>1, <2>2
  <1>6. QED BY <1>3, <1>4, <1>5 DEF Members

(* The first TD of the queue is the one the controller serves.             *)
LEMMA FirstIs ==
  ASSUME ShortControl, TypeOK, Tables, NEW w, NEW n, NEW x, NEW y, NEW z,
         Line(w, n, x, y, z), ~ halted, z < n, NEW a, a = w[z + 1]
  PROVE  First(Back(w, z), Waits(w, n, z), a)
  <1>1. InLine(w, n, x, y, z) /\ Placed(w, n) /\ Ordered(w, n) /\ Served(w, n, z)
    BY DEF Line
  <1>2. n \in Nat /\ z \in Nat /\ z < n /\ z + 1 \in 1 .. n /\ z + 1 \in z + 1 .. n
    BY <1>1 DEF InLine
  <1>3. /\ Known(Back(w, z) \cup Waits(w, n, z))
        /\ \A b \in Back(w, z) : \E i \in 1 .. z : i \in 1 .. n /\ b = w[i]
        /\ \A b \in Waits(w, n, z) : \E i \in z + 1 .. n : i \in 1 .. n /\ b = w[i]
    BY LineKnown DEF Members
  <1>4. PICK D, Q : D = Back(w, z) /\ Q = Waits(w, n, z)
    OBVIOUS
  <1>5. a \in Q
    BY <1>2, <1>4 DEF Waits
  <1>6. \A b \in D \cup Q : /\ b \in Addresses /\ td[b].urb \in Urbs /\ td[b].index \in Nat
                            /\ td[b].index < Filled(td[b].urb)
    BY <1>3, <1>4 DEF Known
  <1>7. ASSUME NEW b \in D PROVE b # a /\ (td[b].urb = td[a].urb => td[b].index < td[a].index)
    <2>1. PICK i \in 1 .. z : i \in 1 .. n /\ b = w[i]
      BY <1>3, <1>4
    <2>2. i < z + 1
      BY <1>2, <2>1
    <2>3. i # z + 1
      BY <1>2, <2>2
    <2>4. w[i] # w[z + 1]
      BY <1>1, <1>2, <2>1, <2>3, LineInjective
    <2>5. td[w[i]].urb = td[w[z + 1]].urb => td[w[i]].index < td[w[z + 1]].index
      BY <1>1, <1>2, <2>1, <2>2 DEF Ordered
    <2>6. QED BY <2>1, <2>4, <2>5
  <1>8. ASSUME NEW b \in Q \ {a}
        PROVE  \E i \in z + 2 .. n : i \in 1 .. n /\ b = w[i] /\ z + 1 < i
    <2>1. PICK i \in z + 1 .. n : i \in 1 .. n /\ b = w[i]
      BY <1>3, <1>4
    <2>2. i # z + 1
      BY <1>8, <2>1
    <2>3. i \in z + 2 .. n /\ z + 1 < i
      BY <1>2, <2>1, <2>2
    <2>4. QED BY <2>1, <2>3
  <1>9. ASSUME NEW b \in Q \ {a}, td[b].urb = td[a].urb PROVE td[a].index < td[b].index
    <2>1. PICK i \in z + 2 .. n : i \in 1 .. n /\ b = w[i] /\ z + 1 < i
      BY <1>8
    <2>2. QED BY <1>1, <1>2, <1>9, <2>1 DEF Ordered
  <1>10. ASSUME NEW b \in Q \ {a}, td[b].urb = td[a].urb,
                \A c \in Q \ {a} : td[c].urb = td[a].urb => td[b].index <= td[c].index
         PROVE  td[b].index = td[a].index + 1
    <2>1. PICK i \in z + 2 .. n : i \in 1 .. n /\ b = w[i] /\ z + 1 < i
      BY <1>8
    <2>2. z + 1 \in 1 .. n - 1 /\ z + 2 \in 1 .. n /\ z + 1 + 1 = z + 2 /\ z + 2 \in z + 1 .. n
      BY <1>2, <2>1
    <2>3. PICK p : p = w[z + 2]
      OBVIOUS
    <2>4. Successor(td[a], td[p])
      <3>1. Begins(z) <= z + 1
        BY <1>2 DEF Begins
      <3>2. QED BY <1>1, <2>2, <2>3, <3>1 DEF Served
    <2>5. td[a].index < td[b].index
      BY <1>9, <1>10
    <2>6. td[b].index \in Nat /\ td[a].index \in Nat /\ td[a].urb \in Urbs
          /\ td[b].index < Filled(td[a].urb)
      BY <1>5, <1>6, <1>10
    <2>7. Filled(td[a].urb) <= Len(Contents(td[a].urb)) /\ Len(Contents(td[a].urb)) \in Nat
      <3>1. PICK u \in Urbs : u = td[a].urb
        BY <2>6
      <3>2. Filled(u) \in Nat /\ Filled(u) <= Len(priv[u])
        BY FilledFits
      <3>3. Len(Contents(u)) = Size(u) /\ Size(u) \in Nat
        BY ContentsLen
      <3>4. Len(priv[u]) = 0 \/ Len(priv[u]) = Size(u)
        BY DEF Tables
      <3>5. QED BY <3>1, <3>2, <3>3, <3>4
    <2>8. td[p].urb = td[a].urb /\ td[p].index = td[a].index + 1
      <3>1. Filled(td[a].urb) \in Nat
        BY <2>6, FilledFits
      <3>2. td[a].index # Len(Contents(td[a].urb)) - 1
        BY <2>5, <2>6, <2>7, <3>1
      <3>3. QED BY <2>4, <3>2 DEF Successor
    <2>9. p \in Q \ {a}
      <3>1. p \in Q
        BY <1>4, <2>2, <2>3 DEF Waits
      <3>2. p # a
        BY <1>1, <1>2, <2>2, <2>3, LineInjective
      <3>3. QED BY <3>1, <3>2
    <2>10. td[b].index <= td[a].index + 1
      BY <1>10, <2>8, <2>9
    <2>11. QED BY <2>5, <2>6, <2>10
  <1>11. ASSUME filling = td[a].urb, \A b \in Q \ {a} : td[b].urb # td[a].urb
         PROVE  cnt = td[a].index + 1
    <2>1. Begins(z) <= n /\ n \in z + 1 .. n
      BY <1>2 DEF Begins
    <2>2. td[w[n]].index = Filled(td[w[n]].urb) - 1 /\ (filling # NoUrb /\ cnt > 0 => td[w[n]].urb = filling)
      BY <1>1, <2>1 DEF Served
    <2>3. td[a].urb \in Urbs /\ td[a].index \in Nat /\ td[a].index < Filled(td[a].urb)
      BY <1>5, <1>6
    <2>4. Filled(td[a].urb) = cnt /\ cnt \in Nat /\ filling # NoUrb
      BY <1>11, <2>3, TdAssumption DEF Filled, TypeOK
    <2>5. td[w[n]].urb = filling
      BY <2>2, <2>3, <2>4
    <2>6. w[n] \in Q
      BY <1>4, <2>1 DEF Waits
    <2>7. w[n] = a
      BY <1>11, <2>5, <2>6
    <2>8. QED BY <2>2, <2>3, <2>4, <2>7
  <1>12. First(D, Q, a)
    BY <1>5, <1>6, <1>7, <1>9, <1>10, <1>11 DEF First
  <1>13. QED BY <1>4, <1>12

(* Steps that touch no TD and no count of bytes.                           *)
LEMMA KeptData ==
  ASSUME NEW D, NEW Q, NEW f, Data(D, Q, f), UNCHANGED <<type, len, td, actual_length, moved>>,
         FillData(Q, f)', Idle'
  PROVE  Data(D, Q, f)'
  <1>1. \A v : Contents(v)' = Contents(v)
    BY SetupKept DEF setup
  <1>2. Fresh(D, Q)'
    BY <1>1 DEF Data, Fresh, Entry
  <1>3. LastData(D)' /\ NoData(D)'
    BY DEF Data, LastData, NoData, Pos
  <1>4. \A v, i : AtStart(v, i)' <=> AtStart(v, i)
    BY <1>1 DEF AtStart, Begin
  <1>5. NextData(Q, f)'
    <2> SUFFICES ASSUME NEW a \in Q, td[a].urb # f,
                        \A b \in Q : td[b].urb = td[a].urb => td[a].index <= td[b].index
                 PROVE  AtStart(td[a].urb, td[a].index)'
      BY DEF NextData
    <2>1. PICK v, i : v = td[a].urb /\ i = td[a].index
      OBVIOUS
    <2>2. AtStart(v, i)
      BY <2>1 DEF Data, NextData
    <2>3. AtStart(v, i)'
      BY <1>4, <2>2
    <2>4. QED BY <2>1, <2>3 DEF AtStart, Begin
  <1>6. QED BY <1>2, <1>3, <1>5 DEF Data

(* An urb that is out has a table.                                         *)
LEMMA KeptFill ==
  ASSUME NEW D, NEW Q, NEW f, Data(D, Q, f), UNCHANGED <<type, len, td, moved, priv>>,
         filling' = NoUrb \/ (filling' = filling /\ cnt' = cnt)
  PROVE  FillData(Q, f)' /\ Idle'
  <1>1. \A v : Contents(v)' = Contents(v)
    BY SetupKept DEF setup
  <1>2. \A v, i : AtStart(v, i)' <=> AtStart(v, i)
    BY <1>1 DEF AtStart, Begin
  <1>3. CASE filling' = NoUrb
    BY <1>3 DEF FillData, Data, Idle
  <1>4. CASE filling' = filling /\ cnt' = cnt
    <2>1. PICK v, i : v = filling /\ i = cnt
      OBVIOUS
    <2>2. AtStart(v, i)' <=> AtStart(v, i)
      BY <1>2
    <2>3. (AtStart(filling, cnt))' <=> AtStart(filling, cnt)
      BY <1>4, <2>1, <2>2 DEF AtStart, Begin
    <2>4. QED BY <1>4, <2>3 DEF FillData, Data, Idle
  <1>5. QED BY <1>3, <1>4

(* WriteBack, the end of td_submit_urb, or no step at all.                 *)
LEMMA StillData ==
  ASSUME NEW w, NEW n, NEW z, Data(Back(w, z), Waits(w, n, z), Failing(w, z)),
         UNCHANGED <<type, len, td, actual_length, moved, priv, halted>>,
         filling' = NoUrb \/ (filling' = filling /\ cnt' = cnt)
  PROVE  Data(Back(w, z), Waits(w, n, z), Failing(w, z))'
  <1>1. PICK D, Q, f : D = Back(w, z) /\ Q = Waits(w, n, z) /\ f = Failing(w, z)
    OBVIOUS
  <1>2. Data(D, Q, f)
    BY <1>1
  <1>3. FillData(Q, f)' /\ Idle'
    BY <1>2, KeptFill
  <1>4. Data(D, Q, f)'
    BY <1>2, <1>3, KeptData
  <1>5. f = Failing(w, z)'
    BY <1>1 DEF Failing
  <1>6. QED BY <1>1, <1>4, <1>5 DEF Back, Waits

(* Submit: the first TD of an urb begins with its first byte.              *)
LEMMA SubmitData ==
  ASSUME NEW w, NEW n, NEW z, TypeOK, Data(Back(w, z), Waits(w, n, z), Failing(w, z)),
         NEW u \in Urbs, Submit(u), priv'[u] # <<>>
  PROVE  Data(Back(w, z), Waits(w, n, z), Failing(w, z))'
  <1>1. PICK D, Q, f : D = Back(w, z) /\ Q = Waits(w, n, z) /\ f = Failing(w, z)
    OBVIOUS
  <1>2. Data(D, Q, f)
    BY <1>1
  <1>3. /\ UNCHANGED <<type, len, td, actual_length, moved, halted>>
        /\ priv[u] = <<>> /\ filling' = u /\ cnt' = 0
        /\ priv' = [priv EXCEPT ![u] = New(Size(u))]
    BY DEF Submit, setup, ed, results
  <1>4. moved[u] = 0
    BY <1>2, <1>3 DEF Data, Idle
  <1>5. Begin(0)' = 0
    BY TdAssumption DEF Begin
  <1>6. FillData(Q, f)'
    BY <1>3, <1>4, <1>5 DEF FillData, AtStart
  <1>7. Idle'
    <2> SUFFICES ASSUME NEW v \in Urbs, priv'[v] = <<>> PROVE moved[v] = 0
      BY <1>3 DEF Idle
    <2>1. v # u
      OBVIOUS
    <2>2. priv'[v] = priv[v]
      BY <1>3, <2>1 DEF TypeOK
    <2>3. QED BY <1>2, <2>2 DEF Data, Idle
  <1>8. Data(D, Q, f)'
    BY <1>2, <1>3, <1>6, <1>7, KeptData
  <1>9. f = Failing(w, z)'
    BY <1>1, <1>3 DEF Failing
  <1>10. QED BY <1>1, <1>8, <1>9 DEF Back, Waits

(* td_fill: the last TD of the line is in the queue.                       *)
LEMMA FillStepData ==
  ASSUME ShortControl, TypeOK, Tables, NEW w, NEW n, NEW x, NEW y, NEW z,
         Line(w, n, x, y, z), Data(Back(w, z), Waits(w, n, z), Failing(w, z)), td_fill,
         NEW a, a = hwTailP, NEW v, v = Added(w, n, a), NEW m, m = n + 1
  PROVE  Data(Back(v, z), Waits(v, m, z), Failing(v, z))'
  <1>1. PICK D, Q, f, Q1 : /\ D = Back(w, z) /\ Q = Waits(w, n, z) /\ f = Failing(w, z)
                           /\ Q1 = Q \cup {a}
    OBVIOUS
  <1>2. InLine(w, n, x, y, z) /\ Halts(w, x, z)
    BY DEF Line
  <1>3. n \in Nat /\ x \in Nat /\ z \in Nat /\ z <= n
    BY <1>2 DEF InLine
  <1>4. Known(D \cup Q)
    BY <1>1, LineKnown DEF Members
  <1>5. Data(D, Q1, f)' /\ \A b \in D \cup Q : td'[b] = td[b]
    BY <1>1, <1>4, FilledData
  <1>6. (\A i \in 1 .. n : v[i] = w[i]) /\ v[m] = a
    BY <1>3 DEF Added
  <1>7. Back(v, z) = D
    <2>1. \A i \in 1 .. z : i \in 1 .. n
      BY <1>3
    <2>2. \A i \in 1 .. z : v[i] = w[i]
      BY <1>6, <2>1
    <2>3. QED BY <1>1, <2>2 DEF Back
  <1>8. Waits(v, m, z) = Q1
    <2>1. \A i \in z + 1 .. n : i \in 1 .. n /\ i \in z + 1 .. m
      BY <1>3
    <2>2. \A i \in z + 1 .. m : i = m \/ i \in z + 1 .. n
      BY <1>3
    <2>3. m \in z + 1 .. m
      BY <1>3
    <2>4. QED BY <1>1, <1>6, <2>1, <2>2, <2>3 DEF Waits
  <1>9. Failing(v, z)' = f
    <2>1. halted' = halted
      BY DEF td_fill
    <2>2. CASE halted
      <3>1. z \in 1 .. z /\ z \in 1 .. n
        BY <1>2, <1>3, <2>2 DEF Halts
      <3>2. w[z] \in D /\ v[z] = w[z]
        BY <1>1, <1>6, <3>1 DEF Back
      <3>3. td'[w[z]].urb = td[w[z]].urb
        BY <1>5, <3>2
      <3>4. QED BY <1>1, <2>1, <2>2, <3>2, <3>3 DEF Failing
    <2>3. CASE ~ halted
      BY <1>1, <2>1, <2>3 DEF Failing
    <2>4. QED BY <2>2, <2>3
  <1>10. QED BY <1>5, <1>7, <1>8, <1>9 DEF Back, Waits

(* Retire: the first TD of the queue joins the retired ones.               *)
LEMMA RetireStepData ==
  ASSUME ShortControl, TypeOK, Tables, NEW w, NEW n, NEW x, NEW y, NEW z,
         Line(w, n, x, y, z), Data(Back(w, z), Waits(w, n, z), Failing(w, z)),
         NEW l, NEW s \in BOOLEAN, Retire(l, s), NEW z1, z1 = z + 1
  PROVE  Data(Back(w, z1), Waits(w, n, z1), Failing(w, z1))'
  <1>1. InLine(w, n, x, y, z) /\ Linked(w, n, x, y, z) /\ Ordered(w, n)
    BY DEF Line
  <1>2. n \in Nat /\ z \in Nat /\ z <= n /\ w \in [1 .. n -> Addresses]
    BY <1>1 DEF InLine
  <1>3. PICK a, u, D, Q, f1 :
           /\ a = hwHeadP /\ u = td[a].urb /\ D = Back(w, z) /\ Q = Waits(w, n, z)
           /\ f1 = IF halted' THEN u ELSE NoUrb
    OBVIOUS
  <1>4. /\ UNCHANGED <<priv, actual_length, filling, cnt>> /\ UNCHANGED setup
        /\ ~ halted /\ a # hwTailP
    BY <1>3 DEF Retire, urbs, submission
  <1>5. z < n /\ a = w[z + 1] /\ z1 \in 1 .. n /\ z1 \in z + 1 .. n
    <2>1. hwHeadP = IF z < n THEN w[z + 1] ELSE hwTailP
      BY <1>1 DEF Linked
    <2>2. z < n /\ a = w[z + 1]
      BY <1>3, <1>4, <2>1
    <2>3. QED BY <1>2, <2>2
  <1>6. First(D, Q, a)
    BY <1>3, <1>4, <1>5, FirstIs
  <1>7. Data(D, Q, NoUrb)
    BY <1>3, <1>4 DEF Failing
  <1>8. /\ a \in Addresses /\ a \in Q /\ u \in Urbs /\ td[a].index < Filled(u)
    BY <1>3, <1>6 DEF First
  <1>9. Fresh({}, {a})
    BY <1>7, <1>8 DEF Data, Fresh
  <1>10. Serves(a, l, halted')
    BY <1>3, <1>8, <1>9, ServesIs
  <1>11. Data(D \cup {a}, Q \ {a}, f1)'
    <2>1. PICK D1, Q1 : D1 = D \cup {a} /\ Q1 = Q \ {a}
      OBVIOUS
    <2>2. Data(D1, Q1, f1)'
      BY <1>3, <1>4, <1>6, <1>7, <1>8, <1>10, <2>1, RetiredData
    <2>3. QED BY <2>1, <2>2
  <1>12. Back(w, z1) = D \cup {a}
    <2>1. \A i \in 1 .. z1 : i \in 1 .. z \/ i = z1
      BY <1>2
    <2>2. (\A i \in 1 .. z : i \in 1 .. z1) /\ z1 \in 1 .. z1
      BY <1>2
    <2>3. QED BY <1>3, <1>5, <2>1, <2>2 DEF Back
  <1>13. Waits(w, n, z1) = Q \ {a}
    <2>1. \A i \in z1 + 1 .. n : i \in 1 .. n /\ i \in z + 1 .. n /\ i # z1
      BY <1>2
    <2>2. \A i \in z + 1 .. n : i = z1 \/ i \in z1 + 1 .. n
      BY <1>2
    <2>3. \A i \in z1 + 1 .. n : w[i] # a
      <3> SUFFICES ASSUME NEW i \in z1 + 1 .. n, w[i] = w[z1] PROVE FALSE
        BY <1>5
      <3>1. i \in 1 .. n /\ i # z1 /\ z1 \in 1 .. n
        BY <1>5, <2>1
      <3>2. QED BY <1>1, <3>1, LineInjective
    <2>4. QED BY <1>3, <1>5, <2>1, <2>2, <2>3 DEF Waits
  <1>14. Failing(w, z1)' = f1
    <2>1. td'[a].urb = u
      BY <1>3, <1>10 DEF Serves
    <2>2. QED BY <1>3, <1>5, <2>1 DEF Failing
  <1>15. QED BY <1>11, <1>12, <1>13, <1>14 DEF Back, Waits

(* There is no index between the last of the rest and the end.             *)
LEMMA NoMore ==
  ASSUME NEW k \in Nat, NEW r \in Nat, NEW p \in Nat, NEW q \in Nat,
         r = p - k - 1, k + r < q, q < p
  PROVE  FALSE
  OBVIOUS

(* What remains behind a block of r moves up by r.                         *)
LEMMA OldBehind ==
  ASSUME NEW z \in Nat, NEW r \in Nat, NEW i \in Nat, z + 1 <= i
  PROVE  Old(z + 1, z + r, i) = i + r
  BY DEF Old

(* What of the urb of the failed TD is in the queue is the rest of it.     *)
LEMMA RestIs ==
  ASSUME ShortControl, TypeOK, Tables, NEW w, NEW n, NEW x, NEW y, NEW z,
         Line(w, n, x, y, z), halted, filling = NoUrb,
         NEW u, u = td[w[z]].urb, NEW k, k = td[w[z]].index,
         NEW r, r = Len(priv[u]) - k - 1
  PROVE  \A i \in z + 1 .. n : td[w[i]].urb = u <=> i <= z + r
  <1>1. InLine(w, n, x, y, z) /\ Placed(w, n) /\ Ordered(w, n) /\ Halts(w, x, z)
    BY DEF Line
  <1>2. n \in Nat /\ z \in Nat /\ z <= n
    BY <1>1 DEF InLine
  <1>3. /\ r \in Nat /\ z + r <= n /\ u \in Urbs /\ k \in Nat
        /\ \A j \in 0 .. r : /\ z + j \in 1 .. n
                             /\ td[w[z + j]].urb = u /\ td[w[z + j]].index = k + j
    BY RestFollows, SMTT(30)
  <1>4. Filled(u) = Len(priv[u]) /\ Len(priv[u]) \in Nat
    BY <1>3, AllFilled
  <1> SUFFICES ASSUME NEW i \in z + 1 .. n PROVE td[w[i]].urb = u <=> i <= z + r
    OBVIOUS
  <1>5. ASSUME i <= z + r PROVE td[w[i]].urb = u
    <2>1. i - z \in 0 .. r /\ z + (i - z) = i
      BY <1>2, <1>3, <1>5
    <2>2. QED BY <1>3, <2>1
  <1>6. ASSUME i > z + r, td[w[i]].urb = u PROVE FALSE
    <2>1. PICK j : j = z + r
      OBVIOUS
    <2>2. j \in 1 .. n /\ td[w[j]].urb = u /\ td[w[j]].index = k + r /\ i \in 1 .. n /\ j < i
      <3>1. r \in 0 .. r
        BY <1>3
      <3>2. z + r \in 1 .. n /\ td[w[z + r]].urb = u /\ td[w[z + r]].index = k + r
        BY <1>3, <3>1, Zenon
      <3>3. i \in 1 .. n /\ z + r < i
        BY <1>2, <1>3, <1>6
      <3>4. QED BY <2>1, <3>2, <3>3
    <2>3. k + r < td[w[i]].index
      BY <1>1, <1>6, <2>2 DEF Ordered
    <2>4. td[w[i]].index \in Nat /\ td[w[i]].index < Filled(u)
      BY <1>1, <1>6, <2>2, LineTds
    <2>5. PICK p : p = Len(priv[u])
      OBVIOUS
    <2>6. p \in Nat /\ r = p - k - 1 /\ td[w[i]].index < p
      BY <1>4, <2>4, <2>5
    <2>7. PICK q : q = td[w[i]].index
      OBVIOUS
    <2>8. q \in Nat /\ k \in Nat /\ r \in Nat /\ k + r < q /\ q < p
      BY <1>3, <2>3, <2>4, <2>6, <2>7
    <2>9. QED BY <2>6, <2>8, NoMore
  <1>7. i \in Int /\ z + r \in Int
    BY <1>2, <1>3
  <1>8. QED BY <1>5, <1>6, <1>7

(* dl_reverse_done_list: what leaves the queue has failed and will not be  *)
(* transferred.                                                            *)
LEMMA ReverseData ==
  ASSUME ShortControl, TypeOK, Tables, NEW w, NEW n, NEW x, NEW y, NEW z,
         Line(w, n, x, y, z), Data(Back(w, z), Waits(w, n, z), Failing(w, z)),
         dl_reverse_done_list, NEW v, NEW m, Reverses(w, n, y, z, v, m)
  PROVE  Data(Back(v, z), Waits(v, m, z), Failing(v, z))'
  <1>1. InLine(w, n, x, y, z) /\ Halts(w, x, z)
    BY DEF Line
  <1>2. n \in Nat /\ x \in Nat /\ z \in Nat /\ z <= n /\ w \in [1 .. n -> Addresses]
    BY <1>1 DEF InLine
  <1>3. PICK D, Q, f, Q1, f1 :
           /\ D = Back(w, z) /\ Q = Waits(w, n, z) /\ f = Failing(w, z)
           /\ Q1 = Waits(v, m, z) /\ f1 = Failing(v, z)'
    OBVIOUS
  <1>4. /\ filling = NoUrb /\ filling' = filling /\ actual_length' = actual_length
        /\ moved' = moved /\ priv' = priv /\ UNCHANGED setup
        /\ td' = Reversed(HccaDone)
    BY DEF dl_reverse_done_list, submission, results
  <1>5. \A a \in Addresses : Same(a)
    <2> SUFFICES ASSUME NEW a \in Addresses PROVE Same(a)
      OBVIOUS
    <2>1. \E l : td'[a] = [td[a] EXCEPT !.next_dl = l] \/ td'[a] = td[a]
      BY <1>4 DEF Reversed
    <2>2. td[a] \in [urb : Urbs \cup {NoUrb}, index : Nat, R : BOOLEAN,
                     CBP : Int, BE : Int, NextTD : Addresses \cup {0},
                     next_dl : Addresses \cup {0},
                     CC : {"none", "NOERROR", "STALL", "UNDERRUN"}]
      BY DEF TypeOK
    <2>3. QED BY <2>1, <2>2 DEF Same
  <1>6. /\ Known(D \cup Q)
        /\ \A b \in Q : \E i \in z + 1 .. n : i \in 1 .. n /\ b = w[i]
    BY <1>3, LineKnown DEF Members
  <1>7. \A b \in D \cup Q : b \in Addresses /\ td[b].urb \in Urbs
    BY <1>6 DEF Known
  <1>8. FillData(Q1, f1)' /\ Idle'
    BY <1>4 DEF FillData, Data, Idle
  <1>9. halted => z \in 1 .. n /\ w[z] \in Addresses
    BY <1>1, <1>2 DEF Halts
  <1>10. PICK g : /\ Thins(D, Q, f, g, D, Q1, f1) /\ Back(v, z) = D
    <2>1. CASE v = w /\ m = n /\ halted' = halted
      <3>1. Q1 = Q
        BY <1>3, <2>1
      <3>2. Q = { a \in Q : td[a].urb # NoUrb }
        BY <1>7, TdAssumption
      <3>3. f1 = f
        BY <1>3, <1>5, <1>9, <2>1 DEF Failing, Same
      <3>4. Thins(D, Q, f, NoUrb, D, Q1, f1)
        BY <1>4, <1>5, <1>7, <3>1, <3>2, <3>3 DEF Thins
      <3>5. QED BY <1>3, <2>1, <3>4
    <2>2. CASE /\ halted /\ ~ halted' /\ y = z
               /\ \E rest \in Nat :
                    /\ rest = Len(priv[td[w[z]].urb]) - td[w[z]].index - 1
                    /\ \/ rest = 0 /\ v = w /\ m = n
                       \/ rest > 0 /\ m = n - rest /\ v = Cut(w, n, z + 1, z + rest)
      <3>1. PICK u, k : u = td[w[z]].urb /\ k = td[w[z]].index
        OBVIOUS
      <3>2. PICK rest \in Nat :
              /\ rest = Len(priv[u]) - k - 1
              /\ \/ rest = 0 /\ v = w /\ m = n
                 \/ rest > 0 /\ m = n - rest /\ v = Cut(w, n, z + 1, z + rest)
        BY <2>2, <3>1
      <3>3. \A i \in z + 1 .. n : td[w[i]].urb = u <=> i <= z + rest
        BY <1>4, <2>2, <3>1, <3>2, RestIs
      <3>4. z + rest <= n
        BY <1>4, <2>2, <3>1, <3>2, RestFollows
      <3>5. \A b : b \in { a \in Q : td[a].urb # u } <=> \E i \in z + rest + 1 .. n : b = w[i]
        <4>1. \A i \in z + rest + 1 .. n : i \in z + 1 .. n /\ ~ (i <= z + rest)
          BY <1>2, <3>2
        <4>2. \A i \in z + 1 .. n : ~ (i <= z + rest) => i \in z + rest + 1 .. n
          BY <1>2, <3>2
        <4>3. \A b : b \in Q <=> \E i \in z + 1 .. n : b = w[i]
          BY <1>3 DEF Waits
        <4>4. QED BY <3>3, <4>1, <4>2, <4>3
      <3>6. \A b : b \in Q1 <=> \E i \in z + 1 .. m : b = v[i]
        BY <1>3 DEF Waits
      <3>7. /\ \A i \in 1 .. z : v[i] = w[i]
            /\ \A i \in z + 1 .. m : v[i] = w[i + rest]
            /\ m = n - rest
        <4>1. CASE rest = 0 /\ v = w /\ m = n
          <5>1. \A i \in z + 1 .. m : i + rest = i
            BY <4>1
          <5>2. QED BY <1>2, <4>1, <5>1
        <4>2. CASE rest > 0 /\ m = n - rest /\ v = Cut(w, n, z + 1, z + rest)
          <5>1. \A i \in 1 .. m : v[i] = w[Old(z + 1, z + rest, i)]
            <6>1. PICK b, e : b = z + 1 /\ e = z + rest
              OBVIOUS
            <6>2. m = n - rest /\ v = Cut(w, n, b, e)
              BY <4>2, <6>1
            <6>3. b \in 1 .. n /\ e \in b .. n /\ e - b + 1 = rest
              <7>1. n \in Nat /\ z \in Nat /\ rest \in Nat /\ rest > 0 /\ z + rest <= n
                BY <1>2, <3>4, <4>2
              <7>2. QED BY <6>1, <7>1
            <6>4. Block(w, n, b, e, m, v)
              BY <1>2, <6>2, <6>3 DEF Block
            <6>5. \A i \in 1 .. m : v[i] = w[Old(b, e, i)]
              BY <1>1, <6>4, CutIs
            <6>6. QED BY <6>1, <6>5
          <5>2. z <= m /\ m \in Nat
            BY <1>2, <3>2, <3>4, <4>2
          <5>3. \A i \in 1 .. z : i \in 1 .. m /\ Old(z + 1, z + rest, i) = i
            BY <1>2, <5>2 DEF Old
          <5>4. ASSUME NEW i \in z + 1 .. m
                PROVE  i \in 1 .. m /\ Old(z + 1, z + rest, i) = i + rest
            <6>1. i \in 1 .. m /\ i \in Nat /\ z + 1 <= i
              BY <1>2, <5>2
            <6>2. Old(z + 1, z + rest, i) = i + rest
              BY <1>2, <6>1, OldBehind
            <6>3. QED BY <6>1, <6>2
          <5>5. QED BY <4>2, <5>1, <5>3, <5>4
        <4>3. QED BY <3>2, <4>1, <4>2
      <3>8. Q1 = { a \in Q : td[a].urb # u }
        <4>1. \A i \in z + 1 .. m : i + rest \in z + rest + 1 .. n
          BY <1>2, <3>2, <3>7
        <4>2. \A i \in z + rest + 1 .. n : i - rest \in z + 1 .. m /\ i - rest + rest = i
          BY <1>2, <3>2, <3>7
        <4>3. \A b : b \in Q1 <=> b \in { a \in Q : td[a].urb # u }
          BY <3>5, <3>6, <3>7, <4>1, <4>2
        <4> HIDE DEF Waits
        <4>4. QED BY <4>3
      <3>9. Back(v, z) = D
        BY <1>3, <3>7 DEF Back
      <3>10. f = u
        BY <1>3, <2>2, <3>1 DEF Failing
      <3>11. Thins(D, Q, f, u, D, Q1, f1)
        BY <1>4, <1>5, <1>7, <3>8, <3>10 DEF Thins
      <3>12. QED BY <3>9, <3>11
    <2>3. QED BY <2>1, <2>2 DEF Reverses
  <1>11. Data(D, Q, f)
    BY <1>3
  <1>12. Data(D, Q1, f1)'
    BY <1>4, <1>7, <1>8, <1>10, <1>11, ThinnedData
  <1>13. QED BY <1>3, <1>10, <1>12 DEF Back, Waits

(* What leaves the queue are the TDs of the urb; the others, and all that  *)
(* were retired, keep their places and what they transfer.                 *)
LEMMA LeavesQueue ==
  ASSUME TypeOK, Tables, NEW w, NEW n, NEW x, NEW y, NEW z, Line(w, n, x, y, z), NEW u,
         td' = Relinked(Queue, u), NEW v, NEW m, Deletes(w, n, z, u, v, m)
  PROVE  /\ Back(v, z) = Back(w, z)
         /\ Waits(v, m, z) = { a \in Waits(w, n, z) : td[a].urb # u }
         /\ \A a \in Back(w, z) \cup Waits(v, m, z) : Same(a)
         /\ halted => v[z] = w[z] /\ w[z] \in Back(w, z) /\ td[w[z]].urb # u
  <1>1. InLine(w, n, x, y, z)
    BY DEF Line
  <1>2. n \in Nat /\ z \in Nat /\ z <= n /\ w \in [1 .. n -> Addresses]
    BY <1>1 DEF InLine
  <1>3. PICK b \in Nat, e \in Nat :
           /\ Hole(w, n, z, u, b, e)
           /\ \/ b = n + 2 /\ v = w /\ m = n
              \/ b \in z + 1 .. n /\ Block(w, n, b, e, m, v)
    BY DEF Deletes
  <1>4. /\ \/ b \in z + 1 .. n /\ e \in b .. n
           \/ b = n + 2 /\ e = n + 1
        /\ \A i \in z + 1 .. n : td[w[i]].urb = u <=> i \in b .. e
    BY <1>3 DEF Hole
  <1>5. /\ \A i \in 1 .. z : td'[w[i]] = td[w[i]]
        /\ \A i \in z + 1 .. n : i \notin b .. e =>
               td'[w[i]] = [td[w[i]] EXCEPT !.NextTD = Skip(w, n, b, e, i)]
    BY <1>3, RelinkedIs
  <1>6. /\ \A i \in 1 .. z : v[i] = w[i]
        /\ \A a : a \in Waits(v, m, z) <=> \E i \in z + 1 .. n : i \notin b .. e /\ a = w[i]
    <2>1. CASE b = n + 2 /\ v = w /\ m = n
      <3>1. \A i \in z + 1 .. n : i \notin b .. e
        BY <1>2, <2>1
      <3>2. QED BY <2>1, <3>1 DEF Waits
    <2>2. CASE b \in z + 1 .. n /\ Block(w, n, b, e, m, v)
      <3>1. /\ m \in Nat
            /\ \A i \in 1 .. m : /\ v[i] = w[Old(b, e, i)]
                                 /\ Old(b, e, i) \in 1 .. n /\ Old(b, e, i) \notin b .. e
            /\ \A j \in 1 .. n : j \notin b .. e => \E i \in 1 .. m : j = Old(b, e, i)
        BY <1>1, <2>2, CutIs
      <3>2. e \in b .. n /\ m = n - (e - b + 1)
        BY <2>2 DEF Block
      <3>3. \A i \in 1 .. z : i \in 1 .. m /\ Old(b, e, i) = i
        BY <1>2, <2>2, <3>2 DEF Old
      <3>4. \A i \in 1 .. m : i \in z + 1 .. m <=> Old(b, e, i) \in z + 1 .. n
        BY <1>2, <2>2, <3>1, <3>2 DEF Old
      <3>5. \A i \in z + 1 .. m : i \in 1 .. m
        BY <1>2
      <3>6. \A i \in z + 1 .. n : i \in 1 .. n
        BY <1>2
      <3>7. ASSUME NEW a, a \in Waits(v, m, z)
            PROVE  \E i \in z + 1 .. n : i \notin b .. e /\ a = w[i]
        <4>1. PICK i \in z + 1 .. m : a = v[i]
          BY <3>7 DEF Waits
        <4>2. QED BY <3>1, <3>4, <3>5, <4>1
      <3>8. ASSUME NEW i \in z + 1 .. n, i \notin b .. e PROVE w[i] \in Waits(v, m, z)
        <4>1. PICK j \in 1 .. m : i = Old(b, e, j)
          BY <3>1, <3>6, <3>8
        <4>2. j \in z + 1 .. m /\ v[j] = w[i]
          BY <3>1, <3>4, <4>1
        <4>3. QED BY <4>2 DEF Waits
      <3>9. \A i \in 1 .. z : v[i] = w[i]
        BY <3>1, <3>3
      <3>10. QED BY <3>7, <3>8, <3>9
    <2>3. QED BY <1>3, <2>1, <2>2
  <1>7. Back(v, z) = Back(w, z)
    BY <1>6 DEF Back
  <1>8. Waits(v, m, z) = { a \in Waits(w, n, z) : td[a].urb # u }
    <2>1. \A a : a \in Waits(w, n, z) <=> \E i \in z + 1 .. n : a = w[i]
      BY DEF Waits
    <2>2. \A a : a \in Waits(v, m, z) <=> a \in Waits(w, n, z) /\ td[a].urb # u
      BY <1>4, <1>6, <2>1
    <2> HIDE DEF Waits
    <2>3. QED BY <2>2
  <1>9. ASSUME NEW a \in Back(w, z) \cup Waits(v, m, z) PROVE Same(a)
    <2>1. CASE a \in Back(w, z)
      <3>1. td'[a] = td[a]
        BY <1>5, <2>1 DEF Back
      <3>2. QED BY <3>1 DEF Same
    <2>2. CASE a \in Waits(v, m, z)
      <3>1. PICK i \in z + 1 .. n : i \notin b .. e /\ a = w[i]
        BY <1>6, <2>2
      <3>2. PICK l : td'[a] = [td[a] EXCEPT !.NextTD = l]
        BY <1>5, <3>1
      <3>3. a \in Addresses
        BY <1>2, <3>1
      <3>4. td[a] \in [urb : Urbs \cup {NoUrb}, index : Nat, R : BOOLEAN,
                       CBP : Int, BE : Int, NextTD : Addresses \cup {0},
                       next_dl : Addresses \cup {0},
                       CC : {"none", "NOERROR", "STALL", "UNDERRUN"}]
        BY <3>3 DEF TypeOK
      <3>5. QED BY <3>2, <3>4 DEF Same
    <2>3. QED BY <1>9, <2>1, <2>2
  <1>10. halted => v[z] = w[z] /\ w[z] \in Back(w, z) /\ td[w[z]].urb # u
    <2> HAVE halted
    <2>1. z \in 1 .. n /\ td[w[z]].urb # u
      BY DEF Deletes
    <2>2. z \in 1 .. z
      BY <1>2, <2>1
    <2>3. QED BY <1>6, <2>1, <2>2 DEF Back
  <1>11. QED BY <1>7, <1>8, <1>9, <1>10

(* dl_del_list: the counts begin again if the urb is given back.           *)
LEMMA DelData ==
  ASSUME ShortControl, TypeOK, Tables, NEW w, NEW n, NEW x, NEW y, NEW z,
         Line(w, n, x, y, z), Data(Back(w, z), Waits(w, n, z), Failing(w, z)),
         NEW u \in Urbs, dl_del_list(u), NEW v, NEW m, Deletes(w, n, z, u, v, m),
         Line(v, m, x, y, z)'
  PROVE  Data(Back(v, z), Waits(v, m, z), Failing(v, z))'
  <1>1. InLine(w, n, x, y, z) /\ InLine(v, m, x, y, z) /\ Placed(v, m)'
    BY DEF Line, InLine
  <1>2. PICK D, Q, f, Q1, f1 :
           /\ D = Back(w, z) /\ Q = Waits(w, n, z) /\ f = Failing(w, z)
           /\ Q1 = Waits(v, m, z) /\ f1 = Failing(v, z)'
    OBVIOUS
  <1>3. PICK done :
           /\ UNCHANGED <<halted, cnt, filling>> /\ filling = NoUrb /\ UNCHANGED setup
           /\ td' = Relinked(Queue, u)
           /\ done => /\ RmPriv(u)
                      /\ actual_length' = [actual_length EXCEPT ![u] = 0]
                      /\ moved' = [moved EXCEPT ![u] = 0]
           /\ ~ done => UNCHANGED <<priv, actual_length, moved>>
    BY DEF dl_del_list, submission
  <1>4. /\ Back(v, z) = D /\ Q1 = { a \in Q : td[a].urb # u }
        /\ \A a \in D \cup Q1 : Same(a)
        /\ halted => v[z] = w[z] /\ w[z] \in D /\ td[w[z]].urb # u
    BY <1>2, <1>3, LeavesQueue
  <1>5. f1 = f
    BY <1>2, <1>3, <1>4 DEF Failing, Same
  <1>6. \A a \in D \cup Q : td[a].urb \in Urbs
    BY <1>2, LineKnown DEF Members, Known
  <1>7. /\ \A g \in Urbs : g # u => moved'[g] = moved[g] /\ actual_length'[g] = actual_length[g]
        /\ done => moved'[u] = 0 /\ actual_length'[u] = 0
        /\ ~ done => moved' = moved /\ actual_length' = actual_length
    BY <1>3 DEF TypeOK
  <1>8. done => priv'[u] = <<>> /\ \A g \in Urbs : g # u => priv'[g] = priv[g]
    BY <1>3 DEF RmPriv, TypeOK
  <1>9. done => D = { a \in D : td[a].urb # u }
    <2> HAVE done
    <2>1. Filled(u)' = 0
      BY <1>3, <1>8, TdAssumption DEF Filled
    <2>2. \A i \in 1 .. m : td'[v[i]].urb # u
      BY <1>1, <2>1 DEF Placed, Filled
    <2>3. \A a \in D : \E i \in 1 .. z : i \in 1 .. m /\ a = v[i]
      BY <1>1, <1>4 DEF Back, InLine
    <2>4. \A a \in D : td[a].urb # u
      BY <1>4, <2>2, <2>3 DEF Same
    <2>5. QED BY <2>4
  <1>10. Thins(D, Q, f, u, D, Q1, f1)
    BY <1>4, <1>5, <1>7, <1>9 DEF Thins
  <1>11. FillData(Q1, f1)'
    BY <1>3 DEF FillData
  <1>12. Idle'
    <2> SUFFICES ASSUME NEW g \in Urbs, priv'[g] = <<>> PROVE moved'[g] = 0
      BY DEF Idle
    <2>1. CASE done /\ g = u
      BY <1>7, <2>1
    <2>2. CASE ~ (done /\ g = u)
      <3>1. priv'[g] = priv[g] /\ moved'[g] = moved[g]
        BY <1>3, <1>7, <1>8, <2>2
      <3>2. QED BY <1>2, <3>1 DEF Data, Idle
    <2>3. QED BY <2>1, <2>2
  <1>13. Data(D, Q, f)
    BY <1>2
  <1>14. Data(D, Q1, f1)'
    BY <1>3, <1>6, <1>10, <1>11, <1>12, <1>13, ThinnedData
  <1>15. QED BY <1>2, <1>4, <1>14 DEF Back, Waits

(* The line without its first TD.                                          *)
LEMMA BehindFirst ==
  ASSUME NEW w, NEW n, NEW x, NEW y, NEW z, InLine(w, n, x, y, z), Ordered(w, n), TypeOK,
         x > 0, NEW c, c = Cut(w, n, 1, 1)
  PROVE  /\ Back(c, z - 1) = Back(w, z) \ {w[1]} /\ w[1] \in Back(w, z)
         /\ Waits(c, n - 1, z - 1) = Waits(w, n, z) /\ w[1] \notin Waits(w, n, z)
         /\ x < z => c[z - 1] = w[z] /\ w[z] \in Back(w, z) \ {w[1]}
  <1>1. /\ n \in Nat /\ x \in Nat /\ z \in Nat /\ x <= z /\ z <= n /\ 1 \in 1 .. n /\ 1 \in 1 .. z
        /\ w \in [1 .. n -> Addresses]
    BY DEF InLine
  <1>2. \A i, j \in 1 .. n : w[i] = w[j] => i = j
    BY LineInjective
  <1>3. \A i \in 1 .. n - 1 : c[i] = w[i + 1] /\ i + 1 \in 1 .. n
    BY <1>1 DEF Cut, Old
  <1>4. Back(c, z - 1) = Back(w, z) \ {w[1]}
    <2>1. \A i \in 1 .. z - 1 : /\ i \in 1 .. n - 1 /\ i + 1 \in 1 .. z /\ i + 1 \in 1 .. n
                                /\ i + 1 # 1
      BY <1>1
    <2>2. \A i \in 1 .. z : i # 1 => i - 1 \in 1 .. z - 1 /\ (i - 1) + 1 = i
      BY <1>1
    <2>3. \A b : b \in Back(c, z - 1) => b \in Back(w, z) \ {w[1]}
      <3> SUFFICES ASSUME NEW i \in 1 .. z - 1 PROVE c[i] \in Back(w, z) \ {w[1]}
        BY DEF Back
      <3>1. c[i] = w[i + 1] /\ w[i + 1] # w[1]
        BY <1>1, <1>2, <1>3, <2>1
      <3>2. QED BY <2>1, <3>1 DEF Back
    <2>4. \A b : b \in Back(w, z) \ {w[1]} => b \in Back(c, z - 1)
      <3> SUFFICES ASSUME NEW i \in 1 .. z, w[i] # w[1] PROVE w[i] \in Back(c, z - 1)
        BY DEF Back
      <3>1. PICK j : j = i - 1
        OBVIOUS
      <3>2. j \in 1 .. z - 1 /\ j + 1 = i
        BY <2>2, <3>1
      <3>3. c[j] = w[i]
        BY <1>3, <2>1, <3>2
      <3>4. QED BY <3>2, <3>3 DEF Back
    <2>5. QED BY <2>3, <2>4
  <1>5. Waits(c, n - 1, z - 1) = Waits(w, n, z)
    <2>1. \A i \in z .. n - 1 : i \in 1 .. n - 1 /\ i + 1 \in z + 1 .. n
      BY <1>1
    <2>2. z - 1 + 1 = z
      BY <1>1
    <2>3. ASSUME NEW b, b \in Waits(c, n - 1, z - 1) PROVE b \in Waits(w, n, z)
      <3>1. PICK i \in z .. n - 1 : b = c[i]
        BY <2>2, <2>3 DEF Waits
      <3>2. b = w[i + 1]
        BY <1>3, <2>1, <3>1
      <3>3. QED BY <2>1, <3>2 DEF Waits
    <2>4. ASSUME NEW b, b \in Waits(w, n, z) PROVE b \in Waits(c, n - 1, z - 1)
      <3>1. PICK i \in z + 1 .. n : b = w[i]
        BY <2>4 DEF Waits
      <3>2. PICK j : j = i - 1
        OBVIOUS
      <3>3. j \in z .. n - 1 /\ j + 1 = i
        BY <1>1, <3>1, <3>2
      <3>4. b = c[j]
        BY <1>3, <2>1, <3>1, <3>3
      <3>5. QED BY <2>2, <3>3, <3>4 DEF Waits
    <2> HIDE DEF Waits
    <2>5. QED BY <2>3, <2>4
  <1>6. w[1] \notin Waits(w, n, z)
    <2>1. \A i \in z + 1 .. n : i \in 1 .. n /\ i # 1
      BY <1>1
    <2>2. QED BY <1>1, <1>2, <2>1 DEF Waits
  <1>7. w[1] \in Back(w, z)
    BY <1>1 DEF Back
  <1>8. x < z => c[z - 1] = w[z] /\ w[z] \in Back(w, z) \ {w[1]}
    <2> HAVE x < z
    <2>1. z - 1 \in 1 .. n - 1 /\ z \in 1 .. z /\ z \in 1 .. n /\ z # 1 /\ z - 1 + 1 = z
      BY <1>1
    <2>2. QED BY <1>1, <1>2, <1>3, <2>1 DEF Back
  <1>9. QED BY <1>4, <1>5, <1>6, <1>7, <1>8

(* The last TD of an urb to be counted is the only one that is out.        *)
LEMMA LastOne ==
  ASSUME ShortControl, TypeOK, Tables, NEW w, NEW n, NEW x, NEW y, NEW z, Line(w, n, x, y, z),
         filling = NoUrb, NEW i \in 1 .. n, NEW u, u = td[w[i]].urb, u \in Urbs,
         td_cnt[u] + 1 = Len(priv[u])
  PROVE  \A b \in Back(w, z) \cup Waits(w, n, z) : td[b].urb = u => b = w[i]
  <1>1. InLine(w, n, x, y, z) /\ Counted(w, n)
    BY DEF Line
  <1>2. /\ \A b \in Back(w, z) : \E j \in 1 .. z : j \in 1 .. n /\ b = w[j]
        /\ \A b \in Waits(w, n, z) : \E j \in z + 1 .. n : j \in 1 .. n /\ b = w[j]
    <2>1. Members(w, n, z)
      BY LineKnown
    <2>2. QED BY <2>1 DEF Members
  <1>3. IsFiniteSet(Of(w, n, u)) /\ Cardinality(Of(w, n, u)) \in Nat
    BY <1>1, OfFinite
  <1>4. Cardinality(Of(w, n, u)) = 1
    <2>1. Cardinality(Of(w, n, u)) + td_cnt[u] = Filled(u)
      BY <1>1 DEF Counted
    <2>2. Filled(u) = Len(priv[u]) /\ td_cnt[u] \in Nat
      BY AllFilled DEF TypeOK
    <2>3. QED BY <1>3, <2>1, <2>2
  <1>5. PICK a : Of(w, n, u) = {a}
    BY <1>3, <1>4, FS_Singleton
  <1>6. w[i] \in Of(w, n, u)
    BY DEF Of
  <1>7. \A b \in Back(w, z) \cup Waits(w, n, z) : td[b].urb = u => b \in Of(w, n, u)
    BY <1>2 DEF Of
  <1>8. QED BY <1>5, <1>6, <1>7

(* DoneTd: what the last TD of an urb tells is what was transferred for it.*)
LEMMA DoneData ==
  ASSUME ShortControl, TypeOK, Tables, NEW w, NEW n, NEW x, NEW y, NEW z,
         Line(w, n, x, y, z), Data(Back(w, z), Waits(w, n, z), Failing(w, z)),
         DoneTd, NEW c, c = Cut(w, n, 1, 1), NEW m, m = n - 1, NEW z1, z1 = z - 1
  PROVE  Data(Back(c, z1), Waits(c, m, z1), Failing(c, z1))' /\ LengthExact'
  <1>1. InLine(w, n, x, y, z) /\ Linked(w, n, x, y, z) /\ Placed(w, n) /\ Ordered(w, n)
        /\ Halts(w, x, z)
    BY DEF Line
  <1>2. /\ n \in Nat /\ x \in Nat /\ z \in Nat /\ x <= z /\ z <= n /\ w \in [1 .. n -> Addresses]
    BY <1>1 DEF InLine
  <1>3. PICK a, u, length, last, requeue :
           /\ a = td_list /\ u = td[a].urb /\ length = dl_transfer_length(u, td[a])
           /\ last = (td_cnt[u] + 1 = Len(priv[u]))
           /\ requeue = (last /\ type = "INTERRUPT" /\ ~ urb_del[u])
    OBVIOUS
  <1>4. /\ UNCHANGED setup /\ halted' = halted /\ filling = NoUrb /\ td_list # 0
        /\ td' = [td EXCEPT ![a] = NoTd]
        /\ requeue => /\ filling' = u /\ cnt' = 0
                      /\ actual_length' = [actual_length EXCEPT ![u] = 0]
                      /\ moved' = [moved EXCEPT ![u] = 0] /\ priv' = priv
        /\ ~ requeue =>
              /\ actual_length' = [actual_length EXCEPT ![u] = IF last THEN 0 ELSE length]
              /\ moved' = [moved EXCEPT ![u] = IF last THEN 0 ELSE @]
              /\ last => RmPriv(u)
              /\ ~ last => priv' = priv
              /\ UNCHANGED <<cnt, filling>>
        /\ returned' = IF last /\ ~ urb_del[u]
                       THEN [urb |-> u, actual |-> length, moved |-> moved[u]] ELSE Nothing
    BY <1>3 DEF DoneTd, ed, Forget, submission
  <1>5. x > 0 /\ a = w[1] /\ 1 \in 1 .. n
    <2>1. td_list = IF x > 0 THEN w[1] ELSE 0
      BY <1>1 DEF Linked
    <2>2. x > 0 /\ a = w[1]
      BY <1>3, <1>4, <2>1
    <2>3. QED BY <1>2, <2>2
  <1>6. PICK D, Q, f, D1, f1 :
           /\ D = Back(w, z) /\ Q = Waits(w, n, z) /\ f = Failing(w, z)
           /\ D1 = Back(c, z1) /\ f1 = Failing(c, z1)'
    OBVIOUS
  <1>7. /\ D1 = D \ {a} /\ a \in D /\ Waits(c, m, z1) = Q /\ a \notin Q
        /\ x < z => c[z1] = w[z] /\ w[z] \in D1
    BY <1>1, <1>5, <1>6, BehindFirst
  <1>8. Known(D \cup Q)
    <2>1. Members(w, n, z)
      BY LineKnown
    <2>2. QED BY <1>6, <2>1 DEF Members
  <1>9. /\ \A b \in D \cup Q : b \in Addresses /\ td[b].urb \in Urbs
        /\ u \in Urbs /\ a \in Addresses /\ td[a].index < Len(priv[u]) /\ td[a].index \in Nat
    <2>1. \A b \in D \cup Q : b \in Addresses /\ td[b].urb \in Urbs
      BY <1>8 DEF Known
    <2>2. u \in Urbs /\ a \in Addresses /\ td[a].index < Filled(u) /\ td[a].index \in Nat
      BY <1>3, <1>7, <1>8 DEF Known
    <2>3. Filled(u) = Len(priv[u])
      BY <1>4, <2>2, AllFilled
    <2>4. QED BY <2>1, <2>2, <2>3
  <1>10. \A b \in D1 \cup Q : Same(b)
    <2>1. \A b \in D1 \cup Q : b \in Addresses /\ b # a
      BY <1>7, <1>9
    <2>2. \A b \in D1 \cup Q : td'[b] = td[b]
      BY <1>4, <2>1 DEF TypeOK
    <2>3. QED BY <2>2 DEF Same
  <1>11. f1 = f
    <2>1. halted => x < z
      BY <1>1 DEF Halts
    <2>2. QED BY <1>4, <1>6, <1>7, <1>10, <2>1 DEF Failing, Same
  <1>12. Data(D, Q, f)
    BY <1>6
  <1>13. length = IF td[a].BE = 0 THEN actual_length[u] ELSE Pos(td[a])
    <2>1. td[a].BE = Entry(a).BE
      BY <1>7, <1>12 DEF Data, Fresh
    <2>2. QED BY <1>3, <1>9, <2>1, TransferIs
  <1>14. last => \A b \in D \cup Q : td[b].urb = u => b = a
    <2> HAVE last
    <2>1. PICK i \in 1 .. n : i = 1
      BY <1>5
    <2>2. filling = NoUrb /\ u = td[w[i]].urb /\ u \in Urbs /\ td_cnt[u] + 1 = Len(priv[u])
      BY <1>3, <1>4, <1>5, <1>9, <2>1
    <2>3. \A b \in Back(w, z) \cup Waits(w, n, z) : td[b].urb = u => b = w[i]
      BY <2>2, LastOne
    <2>4. QED BY <1>5, <1>6, <2>1, <2>3
  <1>15. last => length = moved[u]
    <2> HAVE last
    <2>1. CASE td[a].BE = 0
      <3>1. \A b \in D : td[b].urb = u => td[b].BE = 0
        BY <1>14, <2>1
      <3>2. actual_length[u] = moved[u]
        BY <1>9, <1>12, <3>1 DEF Data, NoData
      <3>3. QED BY <1>13, <2>1, <3>2
    <2>2. CASE td[a].BE # 0
      <3>1. \A b \in D : td[b].urb = td[a].urb /\ td[b].index > td[a].index => td[b].BE = 0
        <4> SUFFICES ASSUME NEW b \in D, td[b].urb = u, td[b].index > td[a].index PROVE FALSE
          BY <1>3
        <4>1. b = a
          BY <1>14
        <4>2. QED BY <1>9, <4>1
      <3>2. Pos(td[a]) = moved[td[a].urb]
        BY <1>7, <1>12, <2>2, <3>1 DEF Data, LastData
      <3>3. QED BY <1>3, <1>13, <2>2, <3>2
    <2>3. QED BY <2>1, <2>2
  <1>16. LengthExact'
    <2>1. CASE last /\ ~ urb_del[u]
      BY <1>4, <1>15, <2>1 DEF LengthExact
    <2>2. CASE ~ (last /\ ~ urb_del[u])
      BY <1>4, <2>2 DEF LengthExact, Nothing
    <2>3. QED BY <2>1, <2>2
  <1>17. ASSUME last PROVE Data(D1, Q, f1)'
    <2>1. /\ \A g \in Urbs : g # u => moved'[g] = moved[g] /\ actual_length'[g] = actual_length[g]
          /\ moved'[u] = 0 /\ actual_length'[u] = 0
      BY <1>4, <1>9, <1>17 DEF TypeOK
    <2>2. D1 = { b \in D : td[b].urb # u } /\ Q = { b \in Q : td[b].urb # u }
      BY <1>3, <1>7, <1>14, <1>17
    <2>3. Thins(D, Q, f, u, D1, Q, f1)
      BY <1>10, <1>11, <2>1, <2>2 DEF Thins
    <2>4. FillData(Q, f1)'
      <3>1. CASE requeue
        <4>1. Begin(0)' = 0
          BY TdAssumption DEF Begin
        <4>2. QED BY <1>4, <2>1, <3>1, <4>1 DEF FillData, AtStart
      <3>2. CASE ~ requeue
        BY <1>4, <3>2 DEF FillData
      <3>3. QED BY <3>1, <3>2
    <2>5. Idle'
      <3> SUFFICES ASSUME NEW g \in Urbs, g # u, priv'[g] = <<>> PROVE moved'[g] = 0
        BY <2>1 DEF Idle
      <3>1. priv'[g] = priv[g]
        BY <1>4, <1>17 DEF RmPriv, TypeOK
      <3>2. QED BY <1>12, <2>1, <3>1 DEF Data, Idle
    <2>6. QED BY <1>4, <1>9, <1>12, <2>3, <2>4, <2>5, ThinnedData
  <1>18. ASSUME ~ last PROVE Data(D1, Q, f1)'
    <2>1. ~ requeue
      BY <1>3, <1>18
    <2>2. /\ moved' = moved /\ priv' = priv /\ filling' = filling /\ cnt' = cnt
          /\ actual_length'[u] = length
          /\ \A g \in Urbs : g # u => actual_length'[g] = actual_length[g]
      BY <1>4, <1>9, <1>18, <2>1 DEF TypeOK
    <2>3. \A b \in D : td[b].urb = u /\ b # a => td[b].index > td[a].index
      <3> SUFFICES ASSUME NEW b \in D, td[b].urb = u, b # a PROVE td[b].index > td[a].index
        OBVIOUS
      <3>1. PICK i \in 1 .. z : b = w[i]
        BY <1>6 DEF Back
      <3>2. i \in 1 .. n /\ 1 < i
        BY <1>2, <1>5, <3>1
      <3>3. td[w[1]].index < td[w[i]].index
        BY <1>1, <1>3, <1>5, <3>1, <3>2 DEF Ordered
      <3>4. td[b].index \in Nat
        BY <1>9 DEF TypeOK
      <3>5. QED BY <1>5, <1>9, <3>1, <3>3, <3>4
    <2>4. \A b \in D : td[b].urb = td[a].urb => ~ (td[a].index > td[b].index)
      <3> SUFFICES ASSUME NEW b \in D, td[b].urb = u PROVE ~ (td[a].index > td[b].index)
        BY <1>3
      <3>1. td[b].index \in Nat /\ td[a].index \in Nat
        BY <1>9 DEF TypeOK
      <3>2. CASE b = a
        BY <3>1, <3>2
      <3>3. CASE b # a
        BY <2>3, <3>1, <3>3
      <3>4. QED BY <3>2, <3>3
    <2>5. Taken(D, a, D1)
      BY <1>3, <1>7, <1>9, <1>13, <2>2, <2>3, <2>4 DEF Taken
    <2>6. Idle'
      BY <1>12, <2>2 DEF Data, Idle
    <2>7. Data(D1, Q, f)'
      BY <1>4, <1>10, <1>12, <2>2, <2>5, <2>6, TakenData
    <2>8. QED BY <1>11, <2>7
  <1>19. Data(D1, Q, f1)'
    BY <1>17, <1>18
  <1>20. QED BY <1>6, <1>7, <1>16, <1>19 DEF Back, Waits

(* The line of QueueInv, with the bytes of its TDs.                        *)
LineData(w, n, x, y, z) ==
  Line(w, n, x, y, z) /\ Data(Back(w, z), Waits(w, n, z), Failing(w, z))

LengthInv ==
  TypeOK /\ Tables /\ (\E w, n, x, y, z : LineData(w, n, x, y, z)) /\ LengthExact

(* Nothing has been transferred at first.                                  *)
LEMMA InitLength == Init => LengthInv
  <1> SUFFICES ASSUME Init PROVE LengthInv
    OBVIOUS
  <1>1. TypeOK /\ Tables
    BY InitInv DEF QueueInv
  <1>2. PICK w, n, x, y, z : Line(w, n, x, y, z)
    BY InitInv DEF QueueInv
  <1>3. /\ returned = Nothing /\ filling = NoUrb /\ ~ halted
        /\ td = [a \in Addresses |-> NoTd]
        /\ actual_length = [u \in Urbs |-> 0] /\ moved = [u \in Urbs |-> 0]
    BY DEF Init
  <1>4. \A b \in Back(w, z) \cup Waits(w, n, z) : FALSE
    <2> SUFFICES ASSUME NEW b \in Back(w, z) \cup Waits(w, n, z) PROVE FALSE
      OBVIOUS
    <2>1. Members(w, n, z)
      BY <1>1, <1>2, LineKnown
    <2>2. b \in Addresses /\ td[b].urb \in Urbs
      BY <2>1 DEF Members, Known
    <2>3. td[b].urb = NoUrb
      BY <1>3, <2>2 DEF NoTd
    <2>4. QED BY <2>2, <2>3, TdAssumption
  <1>5. PICK D, Q, f : D = Back(w, z) /\ Q = Waits(w, n, z) /\ f = Failing(w, z)
    OBVIOUS
  <1>6. D = {} /\ Q = {}
    BY <1>4, <1>5
  <1>7. Data(D, Q, f)
    BY <1>3, <1>6 DEF Data, Fresh, LastData, NoData, NextData, FillData, Idle
  <1>8. LengthExact
    BY <1>3 DEF LengthExact, Nothing
  <1>9. QED BY <1>1, <1>2, <1>5, <1>7, <1>8 DEF LengthInv, LineData

(* A step that returns no urb needs a line only.                           *)
LEMMA DataSuffices ==
  ASSUME TypeOK', Tables', LengthExact', NEW w, NEW n, NEW x, NEW y, NEW z,
         Line(w, n, x, y, z)', Data(Back(w, z), Waits(w, n, z), Failing(w, z))'
  PROVE  LengthInv'
  <1>1. LineData(w, n, x, y, z)'
    BY DEF LineData
  <1>2. QED BY <1>1 DEF LengthInv

(* Each step of the controller and of the driver keeps the bytes right.    *)
LEMMA NextLength == ShortControl /\ LengthInv /\ [Next]_vars => LengthInv'
  <1> SUFFICES ASSUME ShortControl, LengthInv, [Next]_vars PROVE LengthInv'
    OBVIOUS
  <1>1. TypeOK /\ Tables /\ LengthExact
    BY DEF LengthInv
  <1>2. PICK w, n, x, y, z : Line(w, n, x, y, z) /\ Data(Back(w, z), Waits(w, n, z), Failing(w, z))
    BY DEF LengthInv, LineData
  <1>3. returned' = Nothing => LengthExact'
    BY DEF LengthExact, Nothing
  <1>4. ASSUME NEW l \in 0 .. Max(Range(len)), NEW s \in BOOLEAN, Retire(l, s) PROVE LengthInv'
    <2>1. PICK k : k = z + 1
      OBVIOUS
    <2>2. TypeOK' /\ Tables' /\ Line(w, n, x, y, k)'
      <3>1. TypeOK' /\ Tables' /\ Line(w, n, x, y, z + 1)'
        BY <1>1, <1>2, <1>4, RetireStep
      <3>2. QED BY <2>1, <3>1
    <2>3. Data(Back(w, k), Waits(w, n, k), Failing(w, k))'
      BY <1>1, <1>2, <1>4, <2>1, RetireStepData
    <2>4. LengthExact'
      BY <1>3, <1>4 DEF Retire
    <2>5. QED BY <2>2, <2>3, <2>4, DataSuffices
  <1>5. CASE WriteBack
    <2>1. TypeOK' /\ Tables' /\ Line(w, n, x, z, z)'
      BY <1>1, <1>2, <1>5, WriteBackStep
    <2>2. Data(Back(w, z), Waits(w, n, z), Failing(w, z))'
      <3>1. /\ UNCHANGED <<type, len, td, actual_length, moved, priv, halted>>
            /\ filling' = filling /\ cnt' = cnt
        BY <1>5 DEF WriteBack, setup, memory, ed, urbs, submission, results
      <3>2. QED BY <1>2, <3>1, StillData
    <2>3. LengthExact'
      BY <1>3, <1>5 DEF WriteBack
    <2>4. QED BY <2>1, <2>2, <2>3, DataSuffices
  <1>6. ASSUME NEW u \in Urbs, Submit(u) PROVE LengthInv'
    <2>1. TypeOK' /\ Tables' /\ Line(w, n, x, y, z)'
      BY <1>1, <1>2, <1>6, SubmitStep
    <2>2. priv'[u] # <<>>
      <3>1. filling' = u /\ u # NoUrb
        BY <1>6, TdAssumption DEF Submit
      <3>2. QED BY <2>1, <3>1 DEF Tables
    <2>3. Data(Back(w, z), Waits(w, n, z), Failing(w, z))'
      BY <1>1, <1>2, <1>6, <2>2, SubmitData
    <2>4. LengthExact'
      BY <1>3, <1>6 DEF Submit
    <2>5. QED BY <2>1, <2>3, <2>4, DataSuffices
  <1>7. ASSUME NEW u \in Urbs, dl_del_list(u) PROVE LengthInv'
    <2>1. TypeOK' /\ Tables' /\ \E v, m : Line(v, m, x, y, z)' /\ Deletes(w, n, z, u, v, m)
      BY <1>1, <1>2, <1>7, DelStep
    <2>2. PICK v, m : Line(v, m, x, y, z)' /\ Deletes(w, n, z, u, v, m)
      BY <2>1
    <2>3. Data(Back(v, z), Waits(v, m, z), Failing(v, z))'
      BY <1>1, <1>2, <1>7, <2>2, DelData
    <2>4. LengthExact'
      BY <1>3, <1>7 DEF dl_del_list
    <2>5. QED BY <2>1, <2>2, <2>3, <2>4, DataSuffices
  <1>8. CASE td_fill
    <2>1. PICK a, v, m : a = hwTailP /\ v = Added(w, n, a) /\ m = n + 1
      OBVIOUS
    <2>2. TypeOK' /\ Tables' /\ Line(v, m, x, y, z)'
      <3>1. TypeOK' /\ Tables' /\ Line(Added(w, n, a), n + 1, x, y, z)'
        BY <1>1, <1>2, <1>8, <2>1, FillStep
      <3>2. QED BY <2>1, <3>1
    <2>3. Data(Back(v, z), Waits(v, m, z), Failing(v, z))'
      BY <1>1, <1>2, <1>8, <2>1, FillStepData
    <2>4. LengthExact'
      BY <1>3, <1>8 DEF td_fill
    <2>5. QED BY <2>2, <2>3, <2>4, DataSuffices
  <1>9. CASE td_submit_urb_end
    <2>1. TypeOK' /\ Tables' /\ Line(w, n, x, y, z)'
      BY <1>1, <1>2, <1>9, EndStep
    <2>2. Data(Back(w, z), Waits(w, n, z), Failing(w, z))'
      <3>1. /\ UNCHANGED <<type, len, td, actual_length, moved, priv, halted>>
            /\ filling' = NoUrb
        BY <1>9 DEF td_submit_urb_end, setup, memory, ed, urbs, results
      <3>2. QED BY <1>2, <3>1, StillData
    <2>3. LengthExact'
      BY <1>3, <1>9 DEF td_submit_urb_end
    <2>4. QED BY <2>1, <2>2, <2>3, DataSuffices
  <1>10. CASE dl_reverse_done_list
    <2>1. TypeOK' /\ Tables' /\ \E v, m : Line(v, m, y, y, z)' /\ Reverses(w, n, y, z, v, m)
      BY <1>1, <1>2, <1>10, ReverseStep
    <2>2. PICK v, m : Line(v, m, y, y, z)' /\ Reverses(w, n, y, z, v, m)
      BY <2>1
    <2>3. Data(Back(v, z), Waits(v, m, z), Failing(v, z))'
      BY <1>1, <1>2, <1>10, <2>2, ReverseData
    <2>4. LengthExact'
      BY <1>3, <1>10 DEF dl_reverse_done_list
    <2>5. QED BY <2>1, <2>2, <2>3, <2>4, DataSuffices
  <1>11. CASE DoneTd
    <2>1. PICK c, m, x1, y1, z1 :
             c = Cut(w, n, 1, 1) /\ m = n - 1 /\ x1 = x - 1 /\ y1 = y - 1 /\ z1 = z - 1
      OBVIOUS
    <2>2. TypeOK' /\ Tables' /\ Line(c, m, x1, y1, z1)'
      <3>1. TypeOK' /\ Tables' /\ Line(c, n - 1, x - 1, y - 1, z - 1)'
        BY <1>1, <1>2, <1>11, <2>1, DoneStep
      <3>2. QED BY <2>1, <3>1
    <2>3. Data(Back(c, z1), Waits(c, m, z1), Failing(c, z1))' /\ LengthExact'
      BY <1>1, <1>2, <1>11, <2>1, DoneData
    <2>4. QED BY <2>2, <2>3, DataSuffices
  <1>12. CASE UNCHANGED vars
    <2>1. /\ UNCHANGED <<type, len, td, actual_length, moved, priv, halted, returned>>
          /\ filling' = filling /\ cnt' = cnt
      BY <1>12 DEF vars, setup, memory, ed, lists, urbs, submission, results
    <2>2. TypeOK' /\ Tables' /\ Line(w, n, x, y, z)'
      BY <1>1, <1>2, <1>12, StutterStep
    <2>3. Data(Back(w, z), Waits(w, n, z), Failing(w, z))'
      BY <1>2, <2>1, StillData
    <2>4. LengthExact'
      BY <1>1, <2>1 DEF LengthExact
    <2>5. QED BY <2>2, <2>3, <2>4, DataSuffices
  <1>13. QED BY <1>4, <1>5, <1>6, <1>7, <1>8, <1>9, <1>10, <1>11, <1>12 DEF Next, Controller, Driver

-----------------------------------------------------------------------------
(* All TDs stand in one line, wherever they are.                           *)
THEOREM QueueInvariance == ShortControl => (Spec => []QueueInv)
  <1>1. Init => QueueInv
    BY InitInv
  <1>2. ShortControl /\ QueueInv /\ [Next]_vars => QueueInv'
    BY NextInv
  <1>3. ASSUME ShortControl PROVE Spec => []QueueInv
    <2>1. QueueInv /\ [Next]_vars => QueueInv'
      BY <1>2, <1>3
    <2>2. QED BY <1>1, <2>1, PTL DEF Spec
  <1>4. QED BY <1>3

(* The queue leads from hwHeadP to hwTailP through the TDs of the urbs     *)
(* that are out, each urb's in order and to its last.                      *)
THEOREM QueueIsInOrder == ShortControl => (Spec => []QueueInOrder)
  <1>1. ASSUME ShortControl PROVE Spec => []QueueInOrder
    <2>1. QueueInv => QueueInOrder
      BY <1>1, InOrderHolds
    <2>2. Spec => []QueueInv
      BY <1>1, QueueInvariance
    <2>3. QED BY <2>1, <2>2, PTL
  <1>2. QED BY <1>1

(* No TD is freed while a list leads to it, and none is forgotten.         *)
THEOREM TdsAreOwned == ShortControl => (Spec => []TdsOwned)
  <1>1. ASSUME ShortControl PROVE Spec => []TdsOwned
    <2>1. QueueInv => TdsOwned
      BY OwnedHolds
    <2>2. Spec => []QueueInv
      BY <1>1, QueueInvariance
    <2>3. QED BY <2>1, <2>2, PTL
  <1>2. QED BY <1>1

(* An urb is returned with the number of bytes that were transferred.      *)
THEOREM LengthIsExact == ShortControl => (Spec => []LengthExact)
  <1>1. Init => LengthInv
    BY InitLength
  <1>2. ShortControl /\ LengthInv /\ [Next]_vars => LengthInv'
    BY NextLength
  <1>3. LengthInv => LengthExact
    BY DEF LengthInv
  <1>4. ASSUME ShortControl PROVE Spec => []LengthExact
    <2>1. LengthInv /\ [Next]_vars => LengthInv'
      BY <1>2, <1>4
    <2>2. QED BY <1>1, <1>3, <2>1, PTL DEF Spec
  <1>5. QED BY <1>4
=============================================================================

--------------------------- MODULE UrbOrderProofs ---------------------------
(***************************************************************************)
(* The driver implements its contract: every step of UrbLife is a step of  *)
(* UrbContract or leaves what the drivers see alone, for any urbs,         *)
(* endpoints, lengths and processes.  So an urb is given to its completion *)
(* handler once, after those submitted before it at its endpoint, and      *)
(* never when it was taken back.                                           *)
(*                                                                         *)
(* The argument is about the TDs of two urbs of one endpoint in the line   *)
(* they are served in: those of one are all before those of the other.     *)
(* With the TD counts of UrbTdProofs the last TD of an urb is the only one *)
(* when it is serviced, and what is at the head of the done list is at the *)
(* head of the line.                                                       *)
(***************************************************************************)
EXTENDS UrbTdProofs

InLine(u) == Has(Line(EdOf[u]), u)
Prior(v, u) == Ahead(Line(EdOf[u]), v, u)

(* The TDs of two urbs of one endpoint are not mixed.                      *)
Unmixed ==
  \A u, v \in Urbs : u # v /\ EdOf[u] = EdOf[v] => ~ (Prior(u, v) /\ Prior(v, u))

(* An ED that is used is in a chain or out of it, until the device is      *)
(* freed; the ED of an urb is used, and of one that is past ep_add_ed.     *)
Begun(u) == \E p \in Procs : At(p, "alloc", u) \/ At(p, "link", u)
EdUsed ==
  freed = 0 =>
    /\ \A e \in Eds : state[e] = {} \/ "OPER" \in state[e] \/ "UNLINK" \in state[e]
    /\ \A u \in Urbs : hcpriv[u] = 1 \/ Begun(u) => state[EdOf[u]] # {}

(* The handler completes one urb at a time.                                *)
OneCompletes == irq \in {"off", "done"} => cur = NoUrb

OrderInv == Alive => Unmixed /\ EdUsed /\ OneCompletes

-----------------------------------------------------------------------------
(* The order of the urbs in a list of TDs.                                 *)

(* An urb has a TD in a list when the list holds some.                     *)
LEMMA HasCount ==
  ASSUME NEW s \in Seq(Td), NEW u
  PROVE Has(s, u) <=> Count(s, u) # 0
  BY CountNat DEF Has

LEMMA EmptyOrder ==
  ASSUME NEW u, NEW v
  PROVE ~ Has(<<>>, u) /\ ~ Ahead(<<>>, v, u)
  BY DEF Has, Ahead

(* Of two lists one after the other the TDs of the first are ahead.        *)
LEMMA ConcatOrder ==
  ASSUME NEW s \in Seq(Td), NEW t \in Seq(Td)
  PROVE /\ s \o t \in Seq(Td)
        /\ \A u : Has(s \o t, u) <=> Has(s, u) \/ Has(t, u)
        /\ \A u, v : Ahead(s \o t, v, u) <=>
              Ahead(s, v, u) \/ Ahead(t, v, u) \/ (Has(s, v) /\ Has(t, u))
  <1> DEFINE st == s \o t
             n == Len(s)
  <1>1. /\ st \in Seq(Td) /\ DOMAIN st = 1 .. n + Len(t)
        /\ DOMAIN s = 1 .. n /\ DOMAIN t = 1 .. Len(t)
        /\ n \in Nat /\ Len(t) \in Nat
    OBVIOUS
  <1>2. \A i \in 1 .. n + Len(t) : st[i] = IF i <= n THEN s[i] ELSE t[i - n]
    BY ConcatProperties
  <1> HIDE DEF st, n
  <1>3. \A i \in 1 .. n : i \in 1 .. n + Len(t) /\ st[i] = s[i]
    BY <1>1, <1>2
  <1>4. \A i \in 1 .. Len(t) : \E k \in 1 .. n + Len(t) :
            k = n + i /\ k > n /\ st[k] = t[i]
    <2> TAKE i \in 1 .. Len(t)
    <2>1. \E k \in 1 .. n + Len(t) : k = n + i /\ k > n /\ k - n = i
      <3>1. i \in Int /\ 1 <= i /\ i <= Len(t)
        BY <1>1
      <3>2. n + i \in 1 .. n + Len(t) /\ n + i > n /\ (n + i) - n = i
        BY <1>1, <3>1
      <3>3. QED BY <3>2
    <2>2. PICK k \in 1 .. n + Len(t) : k = n + i /\ k > n /\ k - n = i
      BY <2>1
    <2>3. ~ (k <= n)
      BY <1>1, <2>2
    <2>4. st[k] = t[k - n]
      BY <1>2, <2>3
    <2>5. QED BY <2>2, <2>4
  <1>5. \A k \in 1 .. n + Len(t) : k > n => k - n \in 1 .. Len(t) /\ st[k] = t[k - n]
    BY <1>1, <1>2
  <1>6. ASSUME NEW u PROVE Has(st, u) <=> Has(s, u) \/ Has(t, u)
    <2>1. Has(st, u) => Has(s, u) \/ Has(t, u)
      <3> SUFFICES ASSUME NEW k \in 1 .. n + Len(t), st[k].urb = u
                   PROVE Has(s, u) \/ Has(t, u)
        BY <1>1 DEF Has
      <3>1. CASE k > n
        BY <1>1, <1>5, <3>1 DEF Has
      <3>2. CASE ~ (k > n)
        <4>1. k \in 1 .. n
          BY <1>1, <3>2
        <4>2. QED BY <1>1, <1>3, <4>1 DEF Has
      <3>3. QED BY <3>1, <3>2
    <2>2. Has(s, u) => Has(st, u)
      BY <1>1, <1>3 DEF Has
    <2>3. Has(t, u) => Has(st, u)
      BY <1>1, <1>4 DEF Has
    <2>4. QED BY <2>1, <2>2, <2>3
  <1>7. ASSUME NEW u, NEW v
        PROVE Ahead(st, v, u) <=>
                Ahead(s, v, u) \/ Ahead(t, v, u) \/ (Has(s, v) /\ Has(t, u))
    <2>1. ASSUME NEW i \in 1 .. n + Len(t), NEW j \in 1 .. n + Len(t),
                 i < j, st[i].urb = v, st[j].urb = u
          PROVE Ahead(s, v, u) \/ Ahead(t, v, u) \/ (Has(s, v) /\ Has(t, u))
      <3>1. CASE j <= n
        <4>1. i \in 1 .. n /\ j \in 1 .. n
          BY <1>1, <2>1, <3>1
        <4>2. s[i].urb = v /\ s[j].urb = u
          BY <1>3, <2>1, <4>1
        <4>3. QED BY <1>1, <2>1, <4>1, <4>2 DEF Ahead
      <3>2. CASE i > n
        <4>1. j > n /\ i - n < j - n
          BY <1>1, <2>1, <3>2
        <4>2. /\ i - n \in 1 .. Len(t) /\ j - n \in 1 .. Len(t)
              /\ t[i - n].urb = v /\ t[j - n].urb = u
          BY <1>5, <2>1, <3>2, <4>1
        <4>3. QED BY <1>1, <4>1, <4>2 DEF Ahead
      <3>3. CASE i <= n /\ j > n
        <4>1. i \in 1 .. n /\ st[i] = s[i]
          BY <1>1, <1>3, <3>3
        <4>2. j - n \in 1 .. Len(t) /\ st[j] = t[j - n]
          BY <1>5, <3>3
        <4>3. Has(s, v) /\ Has(t, u)
          BY <1>1, <2>1, <4>1, <4>2 DEF Has
        <4>4. QED BY <4>3
      <3>4. QED BY <1>1, <3>1, <3>2, <3>3
    <2>2. ASSUME NEW i \in 1 .. n, NEW j \in 1 .. n, i < j, s[i].urb = v, s[j].urb = u
          PROVE Ahead(st, v, u)
      BY <1>1, <1>3, <2>2 DEF Ahead
    <2>3. ASSUME NEW i \in 1 .. Len(t), NEW j \in 1 .. Len(t),
                 i < j, t[i].urb = v, t[j].urb = u
          PROVE Ahead(st, v, u)
      <3>1. PICK k \in 1 .. n + Len(t) : k = n + i /\ st[k] = t[i]
        BY <1>4
      <3>2. PICK m \in 1 .. n + Len(t) : m = n + j /\ st[m] = t[j]
        BY <1>4
      <3>3. k < m
        <4>1. n \in Int /\ i \in Int /\ j \in Int
          BY <1>1
        <4>2. QED BY <2>3, <3>1, <3>2, <4>1
      <3>4. QED BY <1>1, <2>3, <3>1, <3>2, <3>3 DEF Ahead
    <2>4. ASSUME NEW i \in 1 .. n, NEW j \in 1 .. Len(t), s[i].urb = v, t[j].urb = u
          PROVE Ahead(st, v, u)
      <3>1. PICK m \in 1 .. n + Len(t) : m > n /\ st[m] = t[j]
        BY <1>4
      <3>2. i < m /\ i \in 1 .. n + Len(t) /\ st[i] = s[i]
        BY <1>1, <1>3, <3>1
      <3>3. QED BY <1>1, <2>4, <3>1, <3>2 DEF Ahead
    <2>5. QED BY <1>1, <2>1, <2>2, <2>3, <2>4 DEF Ahead, Has
  <1>8. QED BY <1>1, <1>6, <1>7 DEF st

(* A TD put in front of a list.                                            *)
LEMMA FrontOrder ==
  ASSUME NEW x \in Td, NEW s \in Seq(Td)
  PROVE /\ <<x>> \o s \in Seq(Td)
        /\ \A u : Has(<<x>> \o s, u) <=> x.urb = u \/ Has(s, u)
        /\ \A u, v : Ahead(<<x>> \o s, v, u) <=>
              Ahead(s, v, u) \/ (x.urb = v /\ Has(s, u))
  <1>1. <<x>> \in Seq(Td) /\ DOMAIN <<x>> = {1} /\ <<x>>[1] = x
    BY ElementOfSeq
  <1>2. \A u : Has(<<x>>, u) <=> x.urb = u
    BY <1>1 DEF Has
  <1>3. \A u, v : ~ Ahead(<<x>>, v, u)
    BY <1>1 DEF Ahead
  <1>4. QED BY <1>1, <1>2, <1>3, ConcatOrder

(* The first TD of a list, and the others.                                 *)
LEMMA HeadOrder ==
  ASSUME NEW s \in Seq(Td), s # <<>>
  PROVE /\ Head(s) \in Td /\ Tail(s) \in Seq(Td)
        /\ \A u : Has(s, u) <=> Head(s).urb = u \/ Has(Tail(s), u)
        /\ \A u, v : Ahead(s, v, u) <=>
              Ahead(Tail(s), v, u) \/ (Head(s).urb = v /\ Has(Tail(s), u))
  <1> DEFINE x == Head(s)
             tl == Tail(s)
  <1>1. x \in Td /\ tl \in Seq(Td) /\ s = <<x>> \o tl
    OBVIOUS
  <1> HIDE DEF x, tl
  <1>2. /\ \A u : Has(<<x>> \o tl, u) <=> x.urb = u \/ Has(tl, u)
        /\ \A u, v : Ahead(<<x>> \o tl, v, u) <=>
              Ahead(tl, v, u) \/ (x.urb = v /\ Has(tl, u))
    BY <1>1, FrontOrder
  <1>3. QED BY <1>1, <1>2 DEF x, tl

(* A list reversed is ordered the other way.                               *)
LEMMA ReverseOrder ==
  ASSUME NEW s \in Seq(Td)
  PROVE /\ Reverse(s) \in Seq(Td)
        /\ \A u : Has(Reverse(s), u) <=> Has(s, u)
        /\ \A u, v : Ahead(Reverse(s), v, u) <=> Ahead(s, u, v)
  <1> DEFINE n == Len(s)
             r == Reverse(s)
  <1>1. /\ n \in Nat /\ DOMAIN s = 1 .. n /\ r \in Seq(Td) /\ DOMAIN r = 1 .. n
        /\ \A i \in 1 .. n : r[i] = s[n - i + 1]
    <2>1. r \in Seq(Td)
      BY CountReverse
    <2>2. r = [i \in 1 .. n |-> s[n - i + 1]]
      BY DEF Reverse
    <2>3. QED BY <2>1, <2>2
  <1> HIDE DEF n, r
  <1>2. \A i \in 1 .. n : n - i + 1 \in 1 .. n /\ n - (n - i + 1) + 1 = i
    BY <1>1
  <1>3. \A i \in 1 .. n : r[n - i + 1] = s[i]
    BY <1>1, <1>2
  <1>4. \A i, j \in 1 .. n : i < j => n - j + 1 < n - i + 1
    BY <1>1
  <1>5. ASSUME NEW u PROVE Has(r, u) <=> Has(s, u)
    BY <1>1, <1>2, <1>3 DEF Has
  <1>6. ASSUME NEW u, NEW v PROVE Ahead(r, v, u) <=> Ahead(s, u, v)
    <2>1. ASSUME NEW i \in 1 .. n, NEW j \in 1 .. n, i < j, r[i].urb = v, r[j].urb = u
          PROVE Ahead(s, u, v)
      <3>1. /\ n - j + 1 \in 1 .. n /\ n - i + 1 \in 1 .. n
            /\ n - j + 1 < n - i + 1
            /\ s[n - i + 1].urb = v /\ s[n - j + 1].urb = u
        BY <1>1, <1>2, <1>4, <2>1
      <3>2. QED BY <1>1, <3>1 DEF Ahead
    <2>2. ASSUME NEW i \in 1 .. n, NEW j \in 1 .. n, i < j, s[i].urb = u, s[j].urb = v
          PROVE Ahead(r, v, u)
      <3>1. /\ n - j + 1 \in 1 .. n /\ n - i + 1 \in 1 .. n
            /\ n - j + 1 < n - i + 1
            /\ r[n - i + 1].urb = u /\ r[n - j + 1].urb = v
        BY <1>2, <1>3, <1>4, <2>2
      <3>2. QED BY <1>1, <3>1 DEF Ahead
    <2>3. QED BY <1>1, <2>1, <2>2 DEF Ahead
  <1>7. QED BY <1>1, <1>5, <1>6 DEF r

(* The TDs of an urb are all the urb's.                                    *)
LEMMA TdsOrder ==
  ASSUME NEW u \in Urbs
  PROVE /\ Tds(u) \in Seq(Td)
        /\ \A v : Has(Tds(u), v) <=> v = u
        /\ \A v, w : Ahead(Tds(u), v, w) => v = u /\ w = u
  <1>1. Tds(u) \in Seq(Td)
    BY CountTds
  <1>2. \A i \in DOMAIN Tds(u) : Tds(u)[i].urb = u
    BY DEF Tds, NewTd
  <1>3. ASSUME NEW v PROVE Has(Tds(u), v) <=> v = u
    <2>1. Count(Tds(u), v) = IF v = u THEN Length[u] ELSE 0
      BY CountTds
    <2>2. Length[u] # 0
      BY ConfigAssumption
    <2>3. Has(Tds(u), v) <=> Count(Tds(u), v) # 0
      BY <1>1, HasCount
    <2>4. QED BY <2>1, <2>2, <2>3
  <1>4. \A v, w : Ahead(Tds(u), v, w) => v = u /\ w = u
    BY <1>2 DEF Ahead
  <1>5. QED BY <1>1, <1>3, <1>4

(* Rank goes up with the place.                                            *)
LEMMA RankGrows ==
  ASSUME NEW n \in Nat, NEW K \in SUBSET (1 .. n)
  PROVE \A k, m \in K : k < m <=> Rank(K, k) < Rank(K, m)
  <1> DEFINE To(k) == {j \in K : j <= k}
  <1>1. /\ \A k \in K : Rank(K, k) \in Int
        /\ \A k, m \in K : Rank(K, k) = Rank(K, m) => k = m
    <2>1. /\ Cardinality(K) \in Nat
          /\ \A k \in K : Rank(K, k) \in 1 .. Cardinality(K)
          /\ \A k, m \in K : Rank(K, k) = Rank(K, m) => k = m
      BY RankNat
    <2>2. QED BY <2>1
  <1>2. \A k : Rank(K, k) = Cardinality(To(k))
    BY DEF Rank
  <1>3. ASSUME NEW k \in K, NEW m \in K, k <= m PROVE Rank(K, k) <= Rank(K, m)
    <2>1. IsFiniteSet(To(m))
      BY RankNat, FS_Subset
    <2>2. \A j \in K : j \in Int
      OBVIOUS
    <2>3. To(k) \subseteq To(m)
      <3>1. k \in Int /\ m \in Int
        BY <2>2
      <3>2. \A j \in K : j <= k => j <= m
        BY <1>3, <2>2, <3>1
      <3>3. QED BY <3>2
    <2> HIDE DEF To
    <2>4. Cardinality(To(k)) <= Cardinality(To(m))
      BY <2>1, <2>3, FS_Subset
    <2>5. QED BY <1>2, <2>4
  <1>4. \A k \in K : k \in Int
    OBVIOUS
  <1>5. QED BY <1>1, <1>3, <1>4

(* A list without the TDs of the urbs in U keeps the order of the others.  *)
LEMMA WithoutOrder ==
  ASSUME NEW s \in Seq(Td), NEW U
  PROVE /\ Without(s, U) \in Seq(Td)
        /\ \A u : Has(Without(s, U), u) <=> Has(s, u) /\ u \notin U
        /\ \A u, v : Ahead(Without(s, U), v, u) <=>
              Ahead(s, v, u) /\ u \notin U /\ v \notin U
  <1> DEFINE K == {i \in DOMAIN s : s[i].urb \notin U}
             n == Cardinality(K)
             g == [i \in 1 .. n |-> CHOOSE k \in K : Rank(K, k) = i]
             w == [i \in 1 .. n |-> s[g[i]]]
  <1>1. K \in SUBSET (1 .. Len(s)) /\ Len(s) \in Nat /\ DOMAIN s = 1 .. Len(s)
    OBVIOUS
  <1>2. Without(s, U) = w
    BY DEF Without, Picked
  <1>3. \A k \in K : k \in DOMAIN s /\ s[k].urb \notin U
    OBVIOUS
  <1>4. \A k \in DOMAIN s : s[k].urb \notin U => k \in K
    OBVIOUS
  <1> HIDE DEF K
  <1>5. /\ n \in Nat
        /\ \A k \in K : Rank(K, k) \in 1 .. n
        /\ \A k, m \in K : Rank(K, k) = Rank(K, m) => k = m
        /\ \A i \in 1 .. n : \E k \in K : Rank(K, k) = i
        /\ \A k, m \in K : k < m <=> Rank(K, k) < Rank(K, m)
    BY <1>1, RankNat, RankGrows
  <1> HIDE DEF n
  <1>6. \A i \in 1 .. n : g[i] \in K /\ Rank(K, g[i]) = i
    BY <1>5
  <1>7. \A k \in K : g[Rank(K, k)] = k
    BY <1>5, <1>6
  <1>8. DOMAIN w = 1 .. n /\ \A i \in 1 .. n : w[i] = s[g[i]]
    OBVIOUS
  <1> HIDE DEF g, w
  <1>9. ASSUME NEW u PROVE Has(w, u) <=> Has(s, u) /\ u \notin U
    <2>1. Has(w, u) => Has(s, u) /\ u \notin U
      BY <1>3, <1>6, <1>8 DEF Has
    <2>2. ASSUME NEW k \in DOMAIN s, s[k].urb = u, u \notin U PROVE Has(w, u)
      <3>1. k \in K
        BY <1>4, <2>2
      <3>2. Rank(K, k) \in 1 .. n /\ w[Rank(K, k)] = s[k]
        BY <1>5, <1>7, <1>8, <3>1
      <3>3. QED BY <1>8, <2>2, <3>2 DEF Has
    <2>3. QED BY <2>1, <2>2 DEF Has
  <1>10. ASSUME NEW u, NEW v
         PROVE Ahead(w, v, u) <=> Ahead(s, v, u) /\ u \notin U /\ v \notin U
    <2>1. ASSUME NEW i \in 1 .. n, NEW j \in 1 .. n, i < j, w[i].urb = v, w[j].urb = u
          PROVE Ahead(s, v, u) /\ u \notin U /\ v \notin U
      <3>1. g[i] \in K /\ g[j] \in K /\ s[g[i]].urb = v /\ s[g[j]].urb = u
        BY <1>6, <1>8, <2>1
      <3>2. g[i] < g[j]
        BY <1>5, <1>6, <2>1
      <3>3. QED BY <1>3, <3>1, <3>2 DEF Ahead
    <2>2. ASSUME NEW k \in DOMAIN s, NEW m \in DOMAIN s, k < m,
                 s[k].urb = v, s[m].urb = u, u \notin U, v \notin U
          PROVE Ahead(w, v, u)
      <3>1. k \in K /\ m \in K
        BY <1>4, <2>2
      <3>2. /\ Rank(K, k) \in 1 .. n /\ w[Rank(K, k)] = s[k]
            /\ Rank(K, m) \in 1 .. n /\ w[Rank(K, m)] = s[m]
            /\ Rank(K, k) < Rank(K, m)
        BY <1>5, <1>7, <1>8, <2>2, <3>1
      <3>3. QED BY <1>8, <2>2, <3>2 DEF Ahead
    <2>3. QED BY <1>8, <2>1, <2>2 DEF Ahead
  <1>11. QED BY <1>2, <1>9, <1>10, CountWithout

(* The line of an endpoint, piece by piece: the handler's list a, the done *)
(* lists b and c, newest first, and the queue q.                           *)
LineHas(a, b, c, q, u) == Has(a, u) \/ Has(b, u) \/ Has(c, u) \/ Has(q, u)
LineAhead(a, b, c, q, v, u) ==
  \/ Ahead(a, v, u) \/ Ahead(b, u, v) \/ Ahead(c, u, v) \/ Ahead(q, v, u)
  \/ Has(a, v) /\ (Has(b, u) \/ Has(c, u) \/ Has(q, u))
  \/ Has(b, v) /\ (Has(c, u) \/ Has(q, u))
  \/ Has(c, v) /\ Has(q, u)

LEMMA PiecesOrder ==
  ASSUME NEW a \in Seq(Td), NEW dh \in Seq(Td), NEW hd \in Seq(Td), NEW q \in Seq(Td),
         NEW u, NEW v
  PROVE LET L == a \o Reverse(dh) \o Reverse(hd) \o q IN
        /\ Has(L, u) <=> LineHas(a, dh, hd, q, u)
        /\ Ahead(L, v, u) <=> LineAhead(a, dh, hd, q, v, u)
  <1> DEFINE b == Reverse(dh)
             c == Reverse(hd)
  <1>2. /\ b \in Seq(Td) /\ c \in Seq(Td)
        /\ \A x : (Has(b, x) <=> Has(dh, x)) /\ (Has(c, x) <=> Has(hd, x))
        /\ \A x, y : /\ Ahead(b, x, y) <=> Ahead(dh, y, x)
                     /\ Ahead(c, x, y) <=> Ahead(hd, y, x)
    BY ReverseOrder
  <1> HIDE DEF b, c
  <1>4. /\ a \o b \in Seq(Td)
        /\ \A x : Has(a \o b, x) <=> Has(a, x) \/ Has(b, x)
        /\ \A x, y : Ahead(a \o b, y, x) <=>
              Ahead(a, y, x) \/ Ahead(b, y, x) \/ (Has(a, y) /\ Has(b, x))
    BY <1>2, ConcatOrder
  <1>5. /\ (a \o b) \o c \in Seq(Td)
        /\ \A x : Has((a \o b) \o c, x) <=> Has(a \o b, x) \/ Has(c, x)
        /\ \A x, y : Ahead((a \o b) \o c, y, x) <=>
              Ahead(a \o b, y, x) \/ Ahead(c, y, x) \/ (Has(a \o b, y) /\ Has(c, x))
    BY <1>2, <1>4, ConcatOrder
  <1>6. /\ \A x : Has(((a \o b) \o c) \o q, x) <=> Has((a \o b) \o c, x) \/ Has(q, x)
        /\ \A x, y : Ahead(((a \o b) \o c) \o q, y, x) <=>
              \/ Ahead((a \o b) \o c, y, x) \/ Ahead(q, y, x)
              \/ Has((a \o b) \o c, y) /\ Has(q, x)
    BY <1>5, ConcatOrder
  <1>7. Has(((a \o b) \o c) \o q, u) <=> Has(a, u) \/ Has(b, u) \/ Has(c, u) \/ Has(q, u)
    BY <1>4, <1>5, <1>6
  <1>8. Ahead(((a \o b) \o c) \o q, v, u) <=>
              \/ Ahead(a, v, u) \/ Ahead(b, v, u) \/ Ahead(c, v, u) \/ Ahead(q, v, u)
              \/ Has(a, v) /\ (Has(b, u) \/ Has(c, u) \/ Has(q, u))
              \/ Has(b, v) /\ (Has(c, u) \/ Has(q, u))
              \/ Has(c, v) /\ Has(q, u)
    <2>1. Ahead(a \o b, v, u) <=> Ahead(a, v, u) \/ Ahead(b, v, u) \/ (Has(a, v) /\ Has(b, u))
      BY <1>4
    <2>2. Ahead((a \o b) \o c, v, u) <=>
              Ahead(a \o b, v, u) \/ Ahead(c, v, u) \/ (Has(a \o b, v) /\ Has(c, u))
      BY <1>5
    <2>3. Ahead(((a \o b) \o c) \o q, v, u) <=>
              \/ Ahead((a \o b) \o c, v, u) \/ Ahead(q, v, u)
              \/ Has((a \o b) \o c, v) /\ Has(q, u)
      BY <1>6
    <2>4. /\ Has(a \o b, v) <=> Has(a, v) \/ Has(b, v)
          /\ Has((a \o b) \o c, v) <=> Has(a, v) \/ Has(b, v) \/ Has(c, v)
      BY <1>4, <1>5
    <2>5. QED BY <2>1, <2>2, <2>3, <2>4
  <1>9. /\ Has(b, u) <=> Has(dh, u)
        /\ Has(b, v) <=> Has(dh, v)
        /\ Has(c, u) <=> Has(hd, u)
        /\ Has(c, v) <=> Has(hd, v)
        /\ Ahead(b, v, u) <=> Ahead(dh, u, v)
        /\ Ahead(c, v, u) <=> Ahead(hd, u, v)
    BY <1>2
  <1>10. /\ Has(((a \o b) \o c) \o q, u) <=> LineHas(a, dh, hd, q, u)
         /\ Ahead(((a \o b) \o c) \o q, v, u) <=> LineAhead(a, dh, hd, q, v, u)
    BY <1>7, <1>8, <1>9 DEF LineHas, LineAhead
  <1>11. QED BY <1>10 DEF b, c

LEMMA LineOrder ==
  ASSUME TdTypes, NEW u \in Urbs, NEW v
  PROVE /\ queue[EdOf[u]] \in Seq(Td)
        /\ InLine(u) <=> LineHas(td_list, done_head, hc_done, queue[EdOf[u]], u)
        /\ Prior(v, u) <=> LineAhead(td_list, done_head, hc_done, queue[EdOf[u]], v, u)
  <1>1. /\ queue[EdOf[u]] \in Seq(Td) /\ td_list \in Seq(Td)
        /\ done_head \in Seq(Td) /\ hc_done \in Seq(Td)
    BY ConfigAssumption DEF TdTypes
  <1>2. QED BY <1>1, PiecesOrder DEF InLine, Prior, Line

LEMMA LineOrderNext ==
  ASSUME TdTypes', NEW u \in Urbs, NEW v
  PROVE /\ queue'[EdOf[u]] \in Seq(Td)
        /\ InLine(u)' <=> LineHas(td_list', done_head', hc_done', queue'[EdOf[u]], u)
        /\ Prior(v, u)' <=> LineAhead(td_list', done_head', hc_done', queue'[EdOf[u]], v, u)
  <1>1. /\ queue'[EdOf[u]] \in Seq(Td) /\ td_list' \in Seq(Td)
        /\ done_head' \in Seq(Td) /\ hc_done' \in Seq(Td)
    BY ConfigAssumption DEF TdTypes
  <1>2. QED BY <1>1, PiecesOrder DEF InLine, Prior, Line

-----------------------------------------------------------------------------
(* What the steps do to the lines.                                         *)

SameLine ==
  \A u \in Urbs :
    /\ InLine(u)' <=> InLine(u)
    /\ \A v \in Urbs : u # v /\ EdOf[u] = EdOf[v] => (Prior(v, u)' <=> Prior(v, u))

(* Most steps move no TD.                                                  *)
LEMMA LineStays ==
  ASSUME UNCHANGED <<td_list, done_head, hc_done, queue>>
  PROVE SameLine
  BY DEF SameLine, InLine, Prior, Line

(* A TD that is retired goes from the head of its queue to the newest      *)
(* place of the done list: its place in the line stays.                    *)
LEMMA RetireLine ==
  ASSUME TdTypes, AtHome, TdTypes', NEW e \in Eds, HcRetire(e)
  PROVE SameLine
  <1> DEFINE h == Head(queue[e]).urb
             tl == Tail(queue[e])
  <1>1. /\ queue[e] \in Seq(Td) /\ queue[e] # <<>>
        /\ hc_done \in Seq(Td) /\ UNCHANGED <<td_list, done_head>>
        /\ queue' = [queue EXCEPT ![e] = tl]
        /\ \E err \in 0 .. 1 :
              hc_done' = <<NewTd(h, Head(queue[e]).index, err)>> \o hc_done
    BY DEF HcRetire, Serves, TdTypes, irqVars
  <1>2. /\ Head(queue[e]) \in Td /\ tl \in Seq(Td)
        /\ \A u : Has(queue[e], u) <=> h = u \/ Has(tl, u)
        /\ \A u, v : Ahead(queue[e], v, u) <=> Ahead(tl, v, u) \/ (h = v /\ Has(tl, u))
    BY <1>1, HeadOrder
  <1>3. EdOf[h] = e
    <2>1. queue[e][1] = Head(queue[e]) /\ 1 \in DOMAIN queue[e]
      BY <1>1
    <2>2. QED BY <2>1 DEF AtHome
  <1>4. PICK err \in 0 .. 1 :
              hc_done' = <<NewTd(h, Head(queue[e]).index, err)>> \o hc_done
    BY <1>1
  <1>5. NewTd(h, Head(queue[e]).index, err) \in Td /\ NewTd(h, Head(queue[e]).index, err).urb = h
    BY <1>2 DEF NewTd, Td
  <1>6. /\ \A u : Has(hc_done', u) <=> h = u \/ Has(hc_done, u)
        /\ \A u, v : Ahead(hc_done', v, u) <=>
              Ahead(hc_done, v, u) \/ (h = v /\ Has(hc_done, u))
    BY <1>1, <1>4, <1>5, FrontOrder
  <1>7. /\ queue'[e] = tl
        /\ \A x \in Eds : x # e => queue'[x] = queue[x]
    BY <1>1 DEF TdTypes
  <1> HIDE DEF h, tl
  <1>8. ASSUME NEW u \in Urbs
        PROVE InLine(u)' <=> InLine(u)
    <2>1. CASE EdOf[u] = e
      <3>1. /\ InLine(u) <=> LineHas(td_list, done_head, hc_done, queue[e], u)
            /\ InLine(u)' <=> LineHas(td_list, done_head, hc_done', tl, u)
        BY <1>1, <1>7, <2>1, LineOrder, LineOrderNext
      <3>2. /\ Has(queue[e], u) <=> h = u \/ Has(tl, u)
            /\ Has(hc_done', u) <=> h = u \/ Has(hc_done, u)
        BY <1>2, <1>6
      <3>3. QED BY <3>1, <3>2 DEF LineHas
    <2>2. CASE EdOf[u] # e
      <3>1. h # u /\ EdOf[u] \in Eds
        BY <1>3, <2>2, ConfigAssumption
      <3>2. QED BY <1>1, <1>6, <1>7, <2>2, <3>1, LineOrder, LineOrderNext DEF LineHas
    <2>3. QED BY <2>1, <2>2
  <1>9. ASSUME NEW u \in Urbs, NEW v \in Urbs, u # v, EdOf[u] = EdOf[v]
        PROVE Prior(v, u)' <=> Prior(v, u)
    <2> DEFINE q == queue[EdOf[u]]
               r == queue'[EdOf[u]]
    <2>1. /\ Prior(v, u) <=> LineAhead(td_list, done_head, hc_done, q, v, u)
          /\ Prior(v, u)' <=> LineAhead(td_list, done_head, hc_done', r, v, u)
      BY <1>1, LineOrder, LineOrderNext
    <2>2. CASE EdOf[u] = e
      <3>1. /\ Has(q, u) <=> h = u \/ Has(r, u)
            /\ Has(q, v) <=> h = v \/ Has(r, v)
            /\ Ahead(q, v, u) <=> Ahead(r, v, u) \/ (h = v /\ Has(r, u))
        BY <1>2, <1>7, <2>2
      <3>2. /\ Has(hc_done', u) <=> h = u \/ Has(hc_done, u)
            /\ Has(hc_done', v) <=> h = v \/ Has(hc_done, v)
            /\ Ahead(hc_done', u, v) <=> Ahead(hc_done, u, v) \/ (h = u /\ Has(hc_done, v))
        BY <1>6
      <3> HIDE DEF q, r
      <3>3. QED BY <1>9, <2>1, <3>1, <3>2 DEF LineAhead
    <2>3. CASE EdOf[u] # e
      <3>1. h # u /\ h # v /\ q = r
        BY <1>3, <1>7, <1>9, <2>3, ConfigAssumption
      <3>2. /\ Has(hc_done', u) <=> Has(hc_done, u)
            /\ Has(hc_done', v) <=> Has(hc_done, v)
            /\ Ahead(hc_done', u, v) <=> Ahead(hc_done, u, v)
        BY <1>6, <3>1
      <3> HIDE DEF q, r
      <3>3. QED BY <2>1, <3>1, <3>2 DEF LineAhead
    <2>4. QED BY <2>2, <2>3
  <1>10. QED BY <1>8, <1>9 DEF SameLine

(* The done list is handed over when the last one was taken.               *)
LEMMA FrameLine ==
  ASSUME TdTypes, Handed, TdTypes', Frame
  PROVE SameLine
  <1>1. CASE UNCHANGED <<done_head, hc_done>>
    BY <1>1, LineStays DEF Frame, irqVars
  <1>2. CASE wdh = 0 /\ done_head' = hc_done /\ hc_done' = <<>>
    <2>1. done_head = <<>> /\ UNCHANGED <<td_list, queue>>
      BY <1>2 DEF Handed, Frame, irqVars
    <2>2. \A u, v : ~ Has(done_head, u) /\ ~ Has(hc_done', u)
                   /\ ~ Ahead(done_head, v, u) /\ ~ Ahead(hc_done', v, u)
      BY <1>2, <2>1, EmptyOrder
    <2>3. ASSUME NEW u \in Urbs PROVE InLine(u)' <=> InLine(u)
      BY <1>2, <2>1, <2>2, LineOrder, LineOrderNext DEF LineHas
    <2>4. ASSUME NEW u \in Urbs, NEW v \in Urbs PROVE Prior(v, u)' <=> Prior(v, u)
      BY <1>2, <2>1, <2>2, LineOrder, LineOrderNext DEF LineAhead
    <2>5. QED BY <2>3, <2>4 DEF SameLine
  <1>3. QED BY <1>1, <1>2 DEF Frame

(* The first TD of the done list is the first of the line.                 *)
LEMMA DoneLine ==
  ASSUME TdTypes, TdTypes', DoneStep, queue' = queue
  PROVE /\ DoneUrb \in Urbs
        /\ \A u \in Urbs :
              /\ InLine(u) <=> u = DoneUrb \/ InLine(u)'
              /\ \A v \in Urbs : Prior(v, u) <=> Prior(v, u)' \/ (v = DoneUrb /\ InLine(u)')
  <1> DEFINE h == Head(td_list).urb
             tl == Tail(td_list)
  <1>1. /\ td_list \in Seq(Td) /\ td_list # <<>> /\ td_list' = tl
        /\ UNCHANGED <<done_head, hc_done, queue>> /\ h = DoneUrb
    BY DEF TdTypes, DoneStep, hcVars, DoneUrb
  <1>2. /\ Head(td_list) \in Td
        /\ \A u : Has(td_list, u) <=> h = u \/ Has(tl, u)
        /\ \A u, v : Ahead(td_list, v, u) <=> Ahead(tl, v, u) \/ (h = v /\ Has(tl, u))
    BY <1>1, HeadOrder
  <1>3. DoneUrb \in Urbs
    BY <1>1, <1>2 DEF Td
  <1> HIDE DEF h, tl
  <1>4. ASSUME NEW u \in Urbs PROVE InLine(u) <=> u = DoneUrb \/ InLine(u)'
    BY <1>1, <1>2, LineOrder, LineOrderNext DEF LineHas
  <1>5. ASSUME NEW u \in Urbs, NEW v \in Urbs
        PROVE Prior(v, u) <=> Prior(v, u)' \/ (v = DoneUrb /\ InLine(u)')
    <2> DEFINE q == queue[EdOf[u]]
    <2>1. /\ Prior(v, u) <=> LineAhead(td_list, done_head, hc_done, q, v, u)
          /\ Prior(v, u)' <=> LineAhead(tl, done_head, hc_done, q, v, u)
          /\ InLine(u)' <=> LineHas(tl, done_head, hc_done, q, u)
      BY <1>1, LineOrder, LineOrderNext
    <2>2. /\ Has(td_list, v) <=> h = v \/ Has(tl, v)
          /\ Ahead(td_list, v, u) <=> Ahead(tl, v, u) \/ (h = v /\ Has(tl, u))
      BY <1>2
    <2> HIDE DEF q
    <2>3. QED BY <1>1, <2>1, <2>2 DEF LineHas, LineAhead
  <1>6. QED BY <1>3, <1>4, <1>5

(* The TDs of an urb that is queued go to the end of its line.             *)
LEMMA AppendLine ==
  ASSUME TdTypes, TdTypes', NEW n \in Urbs,
         queue' = [queue EXCEPT ![EdOf[n]] = @ \o Tds(n)],
         UNCHANGED <<td_list, done_head, hc_done>>
  PROVE \A u \in Urbs :
          /\ InLine(u)' <=> InLine(u) \/ u = n
          /\ \A v \in Urbs : u # v /\ EdOf[u] = EdOf[v] =>
                (Prior(v, u)' <=> Prior(v, u) \/ (u = n /\ InLine(v)))
  <1> DEFINE e == EdOf[n]
  <1>1. /\ e \in Eds /\ queue[e] \in Seq(Td) /\ queue'[e] = queue[e] \o Tds(n)
        /\ \A x \in Eds : x # e => queue'[x] = queue[x]
    BY ConfigAssumption DEF TdTypes
  <1>2. /\ Tds(n) \in Seq(Td)
        /\ \A v : Has(Tds(n), v) <=> v = n
        /\ \A v, w : Ahead(Tds(n), v, w) => v = n /\ w = n
    BY TdsOrder
  <1>3. /\ \A u : Has(queue'[e], u) <=> Has(queue[e], u) \/ u = n
        /\ \A u, v : u # v =>
             (Ahead(queue'[e], v, u) <=> Ahead(queue[e], v, u) \/ (Has(queue[e], v) /\ u = n))
    <2>1. /\ \A u : Has(queue'[e], u) <=> Has(queue[e], u) \/ Has(Tds(n), u)
          /\ \A u, v : Ahead(queue'[e], v, u) <=>
               \/ Ahead(queue[e], v, u) \/ Ahead(Tds(n), v, u)
               \/ Has(queue[e], v) /\ Has(Tds(n), u)
      <3>1. queue[e] \in Seq(Td) /\ Tds(n) \in Seq(Td)
        BY <1>1, <1>2
      <3>2. /\ \A u : Has(queue[e] \o Tds(n), u) <=> Has(queue[e], u) \/ Has(Tds(n), u)
            /\ \A u, v : Ahead(queue[e] \o Tds(n), v, u) <=>
                 \/ Ahead(queue[e], v, u) \/ Ahead(Tds(n), v, u)
                 \/ Has(queue[e], v) /\ Has(Tds(n), u)
        BY <3>1, ConcatOrder
      <3>3. QED BY <1>1, <3>2
    <2>2. QED BY <1>2, <2>1
  <1>4. ASSUME NEW u \in Urbs PROVE InLine(u)' <=> InLine(u) \/ u = n
    <2>1. CASE EdOf[u] = e
      BY <1>3, <2>1, LineOrder, LineOrderNext DEF LineHas
    <2>2. CASE EdOf[u] # e
      BY <1>1, <2>2, ConfigAssumption, LineOrder, LineOrderNext DEF LineHas
    <2>3. QED BY <2>1, <2>2
  <1>5. ASSUME NEW u \in Urbs, NEW v \in Urbs, u # v, EdOf[u] = EdOf[v]
        PROVE Prior(v, u)' <=> Prior(v, u) \/ (u = n /\ InLine(v))
    <2> DEFINE q == queue[EdOf[u]]
               r == queue'[EdOf[u]]
    <2>1. /\ Prior(v, u) <=> LineAhead(td_list, done_head, hc_done, q, v, u)
          /\ Prior(v, u)' <=> LineAhead(td_list, done_head, hc_done, r, v, u)
          /\ InLine(v) <=> LineHas(td_list, done_head, hc_done, q, v)
      BY <1>5, LineOrder, LineOrderNext
    <2>2. CASE EdOf[u] = e
      <3>1. /\ Has(r, u) <=> Has(q, u) \/ u = n
            /\ Has(r, v) <=> Has(q, v) \/ v = n
            /\ Ahead(r, v, u) <=> Ahead(q, v, u) \/ (Has(q, v) /\ u = n)
        BY <1>3, <1>5, <2>2
      <3> HIDE DEF q, r
      <3>2. QED BY <1>5, <2>1, <3>1 DEF LineHas, LineAhead
    <2>3. CASE EdOf[u] # e
      <3>1. u # n /\ q = r
        BY <1>1, <2>3, ConfigAssumption
      <3> HIDE DEF q, r
      <3>2. QED BY <2>1, <3>1
    <2>4. QED BY <2>2, <2>3
  <1>6. QED BY <1>4, <1>5

(* TDs that are taken out of queues change no order among the others.      *)
LEMMA WithoutLine ==
  ASSUME TdTypes, TdTypes', NEW S, NEW U,
         queue' = [e \in Eds |-> IF e \in S THEN Without(queue[e], U) ELSE queue[e]],
         UNCHANGED <<td_list, done_head, hc_done>>
  PROVE \A u \in Urbs :
          /\ InLine(u)' => InLine(u)
          /\ u \notin U => (InLine(u)' <=> InLine(u))
          /\ \A v \in Urbs : EdOf[u] = EdOf[v] =>
                /\ Prior(v, u)' => Prior(v, u)
                /\ u \notin U /\ v \notin U => (Prior(v, u)' <=> Prior(v, u))
  <1> TAKE u \in Urbs
  <1> DEFINE q == queue[EdOf[u]]
             r == queue'[EdOf[u]]
  <1>1. q \in Seq(Td) /\ (r = q \/ r = Without(q, U))
    BY ConfigAssumption, LineOrder
  <1> HIDE DEF q, r
  <1>2. /\ \A x : Has(r, x) => Has(q, x)
        /\ \A x : x \notin U => (Has(r, x) <=> Has(q, x))
        /\ \A x, y : Ahead(r, y, x) => Ahead(q, y, x)
        /\ \A x, y : x \notin U /\ y \notin U => (Ahead(r, y, x) <=> Ahead(q, y, x))
    BY <1>1, WithoutOrder
  <1>3. /\ InLine(u) <=> LineHas(td_list, done_head, hc_done, q, u)
        /\ InLine(u)' <=> LineHas(td_list, done_head, hc_done, r, u)
    BY LineOrder, LineOrderNext DEF q, r
  <1>4. ASSUME NEW v \in Urbs, EdOf[u] = EdOf[v]
        PROVE /\ Prior(v, u)' => Prior(v, u)
              /\ u \notin U /\ v \notin U => (Prior(v, u)' <=> Prior(v, u))
    <2>1. /\ Prior(v, u) <=> LineAhead(td_list, done_head, hc_done, q, v, u)
          /\ Prior(v, u)' <=> LineAhead(td_list, done_head, hc_done, r, v, u)
      BY LineOrder, LineOrderNext DEF q, r
    <2>2. QED BY <1>2, <2>1 DEF LineAhead
  <1>5. QED BY <1>2, <1>3, <1>4 DEF LineHas

(* Of two urbs in a list one has a TD ahead of one of the other's.         *)
LEMMA EitherAhead ==
  ASSUME NEW s \in Seq(Td), NEW u, NEW v, u # v, Has(s, u), Has(s, v)
  PROVE Ahead(s, u, v) \/ Ahead(s, v, u)
  <1>1. PICK i \in DOMAIN s : s[i].urb = u
    BY DEF Has
  <1>2. PICK j \in DOMAIN s : s[j].urb = v
    BY DEF Has
  <1>3. i < j \/ j < i
    <2>1. i \in Int /\ j \in Int /\ i # j
      BY <1>1, <1>2
    <2>2. QED BY <2>1
  <1>4. QED BY <1>1, <1>2, <1>3 DEF Ahead

LEMMA AheadHas ==
  ASSUME NEW s, NEW u, NEW v, Ahead(s, v, u)
  PROVE Has(s, u) /\ Has(s, v)
  BY DEF Ahead, Has

(* The handler takes the done list over.  An urb that is skipped has the   *)
(* TD with the error in that list, ahead of those that are taken out.      *)
LEMMA EnterLine ==
  ASSUME TdTypes, Handed, Unmixed, TdTypes', IrqEnter
  PROVE SameLine
  <1> DEFINE Bad == {t \in ToSet(done_head) : t.err = 1 /\ halted[EdOf[t.urb]] = 1}
             Cut == {t \in Bad : hcpriv[t.urb] = 1 /\ t.index + 1 < Length[t.urb]}
             Skipped == {t.urb : t \in Cut}
  <1>1. /\ queue' = [e \in Eds |-> Without(queue[e], Skipped)]
        /\ td_list' = Reverse(done_head) /\ done_head' = <<>> /\ hc_done' = hc_done
        /\ td_list = <<>>
    BY DEF IrqEnter, InOrder, Handed
  <1>2. \A u \in Skipped : Has(done_head, u)
    BY DEF Has, ToSet
  <1> HIDE DEF Skipped
  <1>3. /\ \A u, v : /\ ~ Has(td_list, u) /\ ~ Ahead(td_list, v, u)
                     /\ ~ Has(done_head', u) /\ ~ Ahead(done_head', v, u)
        /\ \A u : Has(td_list', u) <=> Has(done_head, u)
        /\ \A u, v : Ahead(td_list', v, u) <=> Ahead(done_head, u, v)
    BY <1>1, EmptyOrder, ReverseOrder DEF TdTypes
  <1>4. ASSUME NEW e \in Eds
        PROVE /\ \A u : Has(queue'[e], u) <=> Has(queue[e], u) /\ u \notin Skipped
              /\ \A u, v : Ahead(queue'[e], v, u) <=>
                    Ahead(queue[e], v, u) /\ u \notin Skipped /\ v \notin Skipped
    <2>1. queue[e] \in Seq(Td) /\ queue'[e] = Without(queue[e], Skipped)
      BY <1>1 DEF TdTypes
    <2>2. QED BY <2>1, WithoutOrder
  <1>5. ASSUME NEW u \in Urbs PROVE InLine(u)' <=> InLine(u)
    <2>1. /\ InLine(u) <=> LineHas(td_list, done_head, hc_done, queue[EdOf[u]], u)
          /\ InLine(u)' <=> LineHas(td_list', done_head', hc_done, queue'[EdOf[u]], u)
      BY <1>1, LineOrder, LineOrderNext
    <2>2. Has(queue'[EdOf[u]], u) <=> Has(queue[EdOf[u]], u) /\ u \notin Skipped
      BY <1>4, ConfigAssumption
    <2>3. QED BY <1>2, <1>3, <2>1, <2>2 DEF LineHas
  <1>6. ASSUME NEW u \in Urbs, NEW v \in Urbs, u # v, EdOf[u] = EdOf[v]
        PROVE Prior(v, u)' <=> Prior(v, u)
    <2> DEFINE q == queue[EdOf[u]]
               r == queue'[EdOf[u]]
    <2>1. /\ Prior(v, u) <=> LineAhead(td_list, done_head, hc_done, q, v, u)
          /\ Prior(u, v) <=> LineAhead(td_list, done_head, hc_done, q, u, v)
          /\ Prior(v, u)' <=> LineAhead(td_list', done_head', hc_done, r, v, u)
      BY <1>1, <1>6, LineOrder, LineOrderNext
    <2>2. /\ Has(r, u) <=> Has(q, u) /\ u \notin Skipped
          /\ Has(r, v) <=> Has(q, v) /\ v \notin Skipped
          /\ Ahead(r, v, u) <=> Ahead(q, v, u) /\ u \notin Skipped /\ v \notin Skipped
      BY <1>4, ConfigAssumption
    <2>3. ~ (Prior(u, v) /\ Prior(v, u))
      BY <1>6 DEF Unmixed
    <2>4. Has(done_head, u) /\ Has(done_head, v) =>
            Ahead(done_head, u, v) \/ Ahead(done_head, v, u)
      BY <1>6, EitherAhead DEF TdTypes
    <2>5. Ahead(q, v, u) => Has(q, u) /\ Has(q, v)
      BY AheadHas
    <2>6. (u \in Skipped => Has(done_head, u)) /\ (v \in Skipped => Has(done_head, v))
      BY <1>2
    <2>7. /\ Prior(v, u) <=> \/ Ahead(done_head, u, v) \/ Ahead(hc_done, u, v) \/ Ahead(q, v, u)
                             \/ Has(done_head, v) /\ (Has(hc_done, u) \/ Has(q, u))
                             \/ Has(hc_done, v) /\ Has(q, u)
          /\ Prior(u, v) <=> \/ Ahead(done_head, v, u) \/ Ahead(hc_done, v, u) \/ Ahead(q, u, v)
                             \/ Has(done_head, u) /\ (Has(hc_done, v) \/ Has(q, v))
                             \/ Has(hc_done, u) /\ Has(q, v)
          /\ Prior(v, u)' <=> \/ Ahead(done_head, u, v) \/ Ahead(hc_done, u, v) \/ Ahead(r, v, u)
                              \/ Has(done_head, v) /\ (Has(hc_done, u) \/ Has(r, u))
                              \/ Has(hc_done, v) /\ Has(r, u)
      <3> HIDE DEF q, r
      <3>1. QED BY <1>3, <2>1 DEF LineAhead
    <2> HIDE DEF q, r
    <2>8. QED BY <2>2, <2>3, <2>4, <2>5, <2>6, <2>7
  <1>7. QED BY <1>5, <1>6 DEF SameLine

(* Who is before another, and who comes after one, is in the line.         *)
LEMMA PriorIn ==
  ASSUME NEW u \in Urbs, NEW v \in Urbs, EdOf[u] = EdOf[v], Prior(v, u)
  PROVE InLine(u) /\ InLine(v)
  BY AheadHas DEF Prior, InLine

(* An urb is in its line when a TD of it is out.                           *)
LEMMA InLineOut ==
  ASSUME TdTypes, NEW u \in Urbs
  PROVE InLine(u) <=> Outstanding(u) # 0
  <1>1. /\ queue[EdOf[u]] \in Seq(Td) /\ hc_done \in Seq(Td)
        /\ done_head \in Seq(Td) /\ td_list \in Seq(Td)
    BY OutNat DEF TdTypes
  <1>2. InLine(u) <=> \/ Count(td_list, u) # 0 \/ Count(done_head, u) # 0
                     \/ Count(hc_done, u) # 0 \/ Count(queue[EdOf[u]], u) # 0
    BY <1>1, HasCount, LineOrder DEF LineHas
  <1>3. /\ Count(queue[EdOf[u]], u) \in Nat /\ Count(hc_done, u) \in Nat
        /\ Count(done_head, u) \in Nat /\ Count(td_list, u) \in Nat
    BY OutNat
  <1>4. QED BY <1>2, <1>3 DEF Outstanding

-----------------------------------------------------------------------------
(* The steps the drivers see.                                              *)

Wait(u) == hcpriv[u] = 1 /\ urb_del[u] = 0 /\ InLine(u)

LEMMA SeenAs ==
  /\ \A u : u \in Waiting <=> u \in Urbs /\ Wait(u)
  /\ \A p : p \in Before <=>
        \E v, u \in Urbs : /\ p = <<v, u>> /\ Wait(v) /\ Wait(u)
                          /\ v # u /\ EdOf[v] = EdOf[u] /\ Prior(v, u)
  BY DEF Waiting, Before, Wait, InLine, Prior

LEMMA SeenAsNext ==
  /\ \A u : u \in Waiting' <=> u \in Urbs /\ Wait(u)'
  /\ \A p : p \in Before' <=>
        \E v, u \in Urbs : /\ p = <<v, u>> /\ Wait(v)' /\ Wait(u)'
                          /\ v # u /\ EdOf[v] = EdOf[u] /\ Prior(v, u)'
  BY DEF Waiting, Before, Wait, InLine, Prior

(* The order of the urbs that wait in both states stays.                   *)
SameOrder ==
  \A u, v \in Urbs :
      u # v /\ EdOf[u] = EdOf[v] /\ Wait(u) /\ Wait(v) /\ Wait(u)' /\ Wait(v)' =>
        (Prior(v, u)' <=> Prior(v, u))

LEMMA SeenStays ==
  ASSUME SameOrder, \A u \in Urbs : Wait(u)' <=> Wait(u)
  PROVE UNCHANGED <<Waiting, Before>>
  <1>1. \A u : u \in Waiting' <=> u \in Waiting
    BY SeenAs, SeenAsNext
  <1>2. \A p : p \in Before' <=> p \in Before
    BY SeenAs, SeenAsNext DEF SameOrder
  <1>3. QED BY <1>1, <1>2 DEF Waiting, Before

(* Urb n waits no longer.                                                  *)
LEMMA SeenLeave ==
  ASSUME SameOrder, NEW n \in Urbs, Wait(n),
         \A u \in Urbs : Wait(u)' <=> Wait(u) /\ u # n
  PROVE Contract!Leave(n)
  <1>1. n \in Waiting
    BY SeenAs
  <1>2. \A u : u \in Waiting' <=> u \in Waiting /\ u # n
    BY SeenAs, SeenAsNext
  <1>3. ASSUME NEW p
        PROVE p \in Before' <=> p \in Before /\ p[1] # n /\ p[2] # n
    <2>1. ASSUME NEW v \in Urbs, NEW u \in Urbs, p = <<v, u>>
          PROVE p[1] = v /\ p[2] = u
      BY <2>1
    <2>2. p \in Before' => p \in Before /\ p[1] # n /\ p[2] # n
      BY <2>1, SeenAs, SeenAsNext DEF SameOrder
    <2>3. p \in Before /\ p[1] # n /\ p[2] # n => p \in Before'
      BY <2>1, SeenAs, SeenAsNext DEF SameOrder
    <2>4. QED BY <2>2, <2>3
  <1>4. Waiting' = Waiting \ {n}
    BY <1>2
  <1>5. Before' = {p \in Before : p[1] # n /\ p[2] # n}
    BY <1>3
  <1>6. QED BY <1>1, <1>4, <1>5 DEF Contract!Leave

(* Urb n waits behind the others of its endpoint.                          *)
LEMMA SeenQueue ==
  ASSUME SameOrder, NEW n \in Urbs, ~ Wait(n),
         \A u \in Urbs : Wait(u)' <=> Wait(u) \/ u = n,
         \A u \in Urbs : u # n /\ EdOf[u] = EdOf[n] /\ Wait(u) =>
            Prior(u, n)' /\ ~ Prior(n, u)'
  PROVE Contract!Queue(n)
  <1>1. n \notin Waiting
    BY SeenAs
  <1>2. \A u : u \in Waiting' <=> u \in Waiting \/ u = n
    BY SeenAs, SeenAsNext
  <1> DEFINE New == {p \in Waiting \X {n} : EdOf[p[1]] = EdOf[n]}
  <1>3. \A p : p \in New <=> \E v \in Urbs : p = <<v, n>> /\ Wait(v) /\ EdOf[v] = EdOf[n]
    BY SeenAs
  <1>4. ASSUME NEW p
        PROVE p \in Before' <=> p \in Before \/ p \in New
    <2> HIDE DEF New
    <2>1. ASSUME NEW v \in Urbs, NEW u \in Urbs, p = <<v, u>>, Wait(v)', Wait(u)',
                 v # u, EdOf[v] = EdOf[u], Prior(v, u)'
          PROVE p \in Before \/ p \in New
      <3>1. CASE u = n
        BY <1>3, <2>1, <3>1
      <3>2. CASE v = n
        BY <2>1, <3>2
      <3>3. CASE u # n /\ v # n
        BY <2>1, <3>3, SeenAs DEF SameOrder
      <3>4. QED BY <3>1, <3>2, <3>3
    <2>2. ASSUME NEW v \in Urbs, NEW u \in Urbs, p = <<v, u>>, Wait(v), Wait(u),
                 v # u, EdOf[v] = EdOf[u], Prior(v, u)
          PROVE p \in Before'
      BY <2>2, SeenAsNext DEF SameOrder
    <2>3. ASSUME NEW v \in Urbs, p = <<v, n>>, Wait(v), EdOf[v] = EdOf[n]
          PROVE p \in Before'
      BY <2>3, SeenAsNext
    <2>4. QED BY <1>3, <2>1, <2>2, <2>3, SeenAs, SeenAsNext
  <1>5. Waiting' = Waiting \cup {n}
    BY <1>2
  <1>6. Before' = Before \cup New
    <2> HIDE DEF New
    <2>1. QED BY <1>4
  <1>7. QED BY <1>1, <1>5, <1>6 DEF Contract!Queue

-----------------------------------------------------------------------------
(* The EDs of urbs are used.                                               *)

Used1(S) == S = {} \/ "OPER" \in S \/ "UNLINK" \in S

(* No ED falls out of use, and an urb that comes finds one that is used.   *)
StateKept ==
  \A e \in Eds :
    Used1(state[e]) => Used1(state'[e]) /\ (state[e] # {} => state'[e] # {})
UrbKept ==
  \A u \in Urbs : hcpriv'[u] = 1 \/ Begun(u)' =>
      hcpriv[u] = 1 \/ Begun(u) \/ state'[EdOf[u]] # {}

LEMMA UsedKeeps ==
  ASSUME EdUsed, freed' = 0 => freed = 0 /\ StateKept /\ UrbKept
  PROVE EdUsed'
  <1> SUFFICES ASSUME freed' = 0
               PROVE /\ \A e \in Eds : Used1(state'[e])
                     /\ \A u \in Urbs : hcpriv'[u] = 1 \/ Begun(u)' => state'[EdOf[u]] # {}
    BY DEF EdUsed, Used1
  <1>1. /\ \A e \in Eds : Used1(state[e])
        /\ \A u \in Urbs : hcpriv[u] = 1 \/ Begun(u) => state[EdOf[u]] # {}
    BY DEF EdUsed, Used1
  <1>2. ASSUME NEW e \in Eds
        PROVE Used1(state'[e]) /\ (state[e] # {} => state'[e] # {})
    <2>1. StateKept
      OBVIOUS
    <2>2. Used1(state[e])
      BY <1>1
    <2>3. QED BY <2>1, <2>2 DEF StateKept
  <1>3. ASSUME NEW u \in Urbs, hcpriv'[u] = 1 \/ Begun(u)'
        PROVE state'[EdOf[u]] # {}
    BY <1>1, <1>2, <1>3, ConfigAssumption DEF UrbKept
  <1>4. QED BY <1>2, <1>3

LEMMA NothingKept ==
  state' = state => StateKept
  BY DEF StateKept

(* What the pieces of the operations do to the EDs.                        *)
LEMMA PieceKept ==
  ASSUME TdTypes, NEW e \in Eds
  PROVE /\ UnlinkIdle(e) => StateKept
        /\ EpAddEd(e) => StateKept /\ state'[e] # {}
        /\ SkipNew(e) => StateKept
        /\ SetUp(e) => StateKept /\ state'[e] # {}
        /\ EpLink(e) => StateKept /\ state'[e] # {}
        /\ state[e] # {} /\ RequestUrbDel(e) => StateKept
  <1> USE DEF StateKept, Used1
  <1>0. ASSUME NEW S, state' = [state EXCEPT ![e] = S], "OPER" \in S \/ "UNLINK" \in S
        PROVE StateKept /\ state'[e] # {}
    <2>1. \A x \in Eds : state'[x] = IF x = e THEN S ELSE state[x]
      BY <1>0 DEF TdTypes
    <2>2. QED BY <1>0, <2>1
  <1>1. UnlinkIdle(e) => StateKept
    <2>1. UnlinkIdle(e) => state' = state \/ state' = [state EXCEPT ![e] = {"UNLINK"}]
      BY DEF UnlinkIdle, EpUnlink
    <2>2. QED BY <1>0, <2>1, NothingKept
  <1>2. ASSUME EpAddEd(e) PROVE StateKept /\ state'[e] # {}
    <2>1. \A x \in Eds : state'[x] = IF x = e /\ state[e] = {} THEN {"UNLINK"} ELSE state[x]
      BY <1>2 DEF EpAddEd, SetUp, Refresh, TdTypes
    <2>2. QED BY <2>1
  <1>6. SkipNew(e) => StateKept
    BY NothingKept DEF SkipNew
  <1>7. SetUp(e) => StateKept /\ state'[e] # {}
    BY <1>0 DEF SetUp
  <1>3. EpLink(e) => StateKept /\ state'[e] # {}
    BY <1>0 DEF EpLink
  <1>4. state[e] # {} /\ RequestUrbDel(e) => StateKept
    BY DEF RequestUrbDel, TdTypes
  <1>5. QED BY <1>1, <1>2, <1>3, <1>4, <1>6, <1>7

(* dl_del_list gives up no ED of a device that is there.                   *)
LEMMA DeleteKept ==
  ASSUME TdTypes, DelWhenFreed, freed = 0, NEW f, DlDelList(f) \/ NothingDeleted
  PROVE StateKept /\ \A u \in Urbs : hcpriv'[u] = 1 => hcpriv[u] = 1
  <1>1. CASE NothingDeleted
    BY <1>1, NothingKept DEF NothingDeleted, edVars, urbVars
  <1>2. CASE DlDelList(f)
    <2>1. \A e \in Eds : "DEL" \notin state[e]
      BY DEF DelWhenFreed
    <2>2. \A e \in Eds : state'[e] = state[e] \/ state'[e] = state[e] \ {"URB_DEL"}
      BY <1>2, <2>1 DEF DlDelList, RequestDone
    <2>3. StateKept
      BY <2>2 DEF StateKept, Used1
    <2>4. \A u \in Urbs : hcpriv'[u] = 0 \/ hcpriv'[u] = hcpriv[u]
      BY <1>2 DEF DlDelList
    <2>5. QED BY <2>3, <2>4
  <1>3. QED BY <1>1, <1>2

(* The handler's steps.                                                    *)
LEMMA HandlerKept ==
  ASSUME TdInv, Alive, EdUsed, Irq, freed' = 0
  PROVE freed = 0 /\ StateKept /\ UrbKept
  <1>0. /\ TdTypes /\ DelWhenFreed /\ Handed
        /\ \A u \in Urbs : hcpriv[u] = 1 /\ freed = 0 => state[EdOf[u]] # {}
    BY DEF TdInv, DeviceOk, EdUsed
  <1>1. UNCHANGED <<freed, pc, target>>
    BY DEF Irq, IrqEnter, DoneTd, DoneDeleted, DoneLast, DoneStep, DoneOrphan, Fails,
       CompleteOnly, CompleteSubmit, CompleteSubmitFails, CompleteDrop, CompleteUnlink,
       SpinBegin, SpinFrame, SpinEnd, AfterComplete, AfterDropped, IrqEnd, procVars
  <1>2. \A u \in Urbs : Begun(u)' <=> Begun(u)
    BY <1>1 DEF Begun, At
  <1>3. ASSUME \A u \in Urbs : hcpriv'[u] = 1 => hcpriv[u] = 1 \/ state'[EdOf[u]] # {}
        PROVE UrbKept
    BY <1>2, <1>3 DEF UrbKept
  <1>4. CASE \/ IrqEnter \/ CompleteOnly \/ SpinBegin \/ SpinEnd \/ AfterDropped
             \/ DoneOrphan
    <2>1. state' = state /\ hcpriv' = hcpriv
      BY <1>4 DEF IrqEnter, CompleteOnly, SpinBegin, SpinEnd, AfterDropped, DoneOrphan,
         Fails, edVars, urbVars
    <2>2. QED BY <1>1, <1>3, <2>1, NothingKept
  <1>5. CASE DoneTd \/ DoneDeleted \/ DoneLast
    <2>1. DoneUrb \in Urbs
      <3>1. td_list \in Seq(Td) /\ td_list # <<>>
        BY <1>0, <1>5 DEF DoneTd, DoneDeleted, DoneLast, DoneStep, TdTypes
      <3>2. Head(td_list) \in Td
        BY <3>1, HeadOrder
      <3>3. QED BY <3>2 DEF DoneUrb, Td
    <2>2. UnlinkIdle(EdOf[DoneUrb]) \/ state' = state
      BY <1>5 DEF DoneTd, DoneDeleted, DoneLast, edVars
    <2>3. hcpriv' = hcpriv \/ hcpriv' = [hcpriv EXCEPT ![DoneUrb] = 0]
      BY <1>5 DEF DoneTd, DoneDeleted, DoneLast, FreeDeleted, RmPriv
    <2>4. \A u \in Urbs : hcpriv'[u] = 1 => hcpriv[u] = 1
      BY <1>0, <2>1, <2>3 DEF TdTypes
    <2>5. QED BY <1>0, <1>1, <1>3, <2>1, <2>2, <2>4, PieceKept, NothingKept, ConfigAssumption
  <1>6. CASE CompleteSubmit
    <2>1. PICK n \in Urbs : hcpriv' = [hcpriv EXCEPT ![n] = 1] /\ LinkAndQueue(n, EdOf[n])
      BY <1>6 DEF CompleteSubmit
    <2>2. StateKept /\ state'[EdOf[n]] # {}
      BY <1>0, <2>1, PieceKept, ConfigAssumption DEF LinkAndQueue
    <2>3. \A u \in Urbs : hcpriv'[u] = 1 => hcpriv[u] = 1 \/ state'[EdOf[u]] # {}
      BY <1>0, <2>1, <2>2 DEF TdTypes
    <2>4. QED BY <1>1, <1>3, <2>2, <2>3
  <1>7. CASE CompleteSubmitFails
    <2>1. PICK n \in Urbs : EpAddEd(EdOf[n]) \/ SkipNew(EdOf[n])
      BY <1>7 DEF CompleteSubmitFails
    <2>2. StateKept /\ hcpriv' = hcpriv
      BY <1>0, <1>7, <2>1, PieceKept, ConfigAssumption DEF CompleteSubmitFails, urbVars
    <2>3. QED BY <1>1, <1>3, <2>2
  <1>8. CASE CompleteDrop
    <2>1. PICK n \in Urbs : DropInactive(n) /\ state' = state
      BY <1>8 DEF CompleteDrop, edVars
    <2>2. \A u \in Urbs : hcpriv'[u] = 1 => hcpriv[u] = 1
      BY <1>0, <2>1 DEF DropInactive, RmPriv, TdTypes
    <2>3. QED BY <1>1, <1>3, <2>1, <2>2, NothingKept
  <1>9. CASE CompleteUnlink
    <2>1. PICK n \in Urbs : hcpriv[n] = 1 /\ RequestUrbDel(EdOf[n]) /\ hcpriv' = hcpriv
      BY <1>9 DEF CompleteUnlink, CanUnlink
    <2>2. state[EdOf[n]] # {}
      BY <1>0, <1>1, <2>1
    <2>3. QED BY <1>0, <1>1, <1>3, <2>1, <2>2, PieceKept, ConfigAssumption
  <1>10. CASE SpinFrame \/ IrqEnd
    <2>1. PICK f \in {1 - frame} : DlDelList(f) \/ NothingDeleted
      BY <1>10 DEF SpinFrame, IrqEnd, DelFrame
    <2>2. QED BY <1>0, <1>1, <1>3, <2>1, DeleteKept
  <1>11. CASE AfterComplete
    <2>1. cur \in Urbs
      BY <1>0, <1>11 DEF Handed, AfterComplete
    <2>2. hcpriv' = hcpriv /\ (state' = state \/ UnlinkIdle(EdOf[cur]))
      BY <1>11 DEF AfterComplete
    <2>3. QED BY <1>0, <1>1, <1>3, <2>1, <2>2, PieceKept, NothingKept, ConfigAssumption
  <1>12. QED BY <1>4, <1>5, <1>6, <1>7, <1>8, <1>9, <1>10, <1>11 DEF Irq

(* The processes' steps.                                                   *)
LEMMA ProcKept ==
  ASSUME TdInv, Alive, EdUsed, NEW p \in Procs, Proc(p), freed' = 0
  PROVE freed = 0 /\ StateKept /\ UrbKept
  <1>0. /\ TdTypes /\ OneOwner
        /\ \A u \in Urbs : hcpriv[u] = 1 /\ freed = 0 => state[EdOf[u]] # {}
    BY DEF TdInv, DeviceOk, EdUsed
  <1>1. freed = 0 /\ ~ FreeDev(p)
    <2>1. ~ FreeDev(p)
      BY DEF FreeDev
    <2>2. ~ FreeDev(p) => freed' = freed
      BY DEF Proc, SubmitBegin, SubmitSetUp, SubmitTwice, SubmitAlloc, SubmitFails,
         SubmitLink, UnlinkBegin, UnlinkStale, Fails, UnlinkMark, UnlinkRequest,
         UnlinkAsync, UnlinkEnd, FreeWait,
         FreeEnd
    <2>3. QED BY <2>1, <2>2
  <1> DEFINE Comes(u) == At(p, "alloc", u)' \/ At(p, "link", u)'
  <1>2. ASSUME \A q \in Procs \ {p} : pc'[q] = pc[q] /\ target'[q] = target[q],
               \A u \in Urbs : hcpriv'[u] = 1 \/ Comes(u) =>
                  hcpriv[u] = 1 \/ Begun(u) \/ state'[EdOf[u]] # {}
        PROVE UrbKept
    <2>1. \A u \in Urbs : Begun(u)' => Begun(u) \/ Comes(u)
      BY <1>2 DEF Begun, At
    <2> HIDE DEF Comes
    <2>2. QED BY <1>2, <2>1 DEF UrbKept
  <1>3. CASE UnlinkStale(p) \/ SubmitTwice(p)
    <2>1. UNCHANGED <<state, hcpriv, pc, target>>
      BY <1>3 DEF UnlinkStale, SubmitTwice, Fails, edVars, urbVars, procVars
    <2>2. UrbKept
      BY <2>1 DEF UrbKept, Begun, At
    <2>3. QED BY <1>1, <2>1, <2>2, NothingKept
  <1>4. CASE ~ UnlinkStale(p) /\ ~ SubmitTwice(p)
    <2>0. \A q \in Procs \ {p} : pc'[q] = pc[q] /\ target'[q] = target[q]
      <3>1. PICK to \in Places, v \in Urbs \cup {NoUrb} : Moves(p, to, v)
        BY <1>0, <1>4, ProcMove DEF MovesOn
      <3>2. QED BY <1>0, <3>1 DEF Moves, TdTypes
    <2>1. CASE SubmitBegin(p)
      <3>1. PICK n \in Urbs : /\ target' = [target EXCEPT ![p] = n]
                              /\ \/ pc' = [pc EXCEPT ![p] = "add"] /\ SkipNew(EdOf[n])
                                 \/ EpAddEd(EdOf[n])
        BY <2>1 DEF SubmitBegin, Goto, Take
      <3>2. StateKept /\ hcpriv' = hcpriv
        BY <1>0, <2>1, <3>1, PieceKept, ConfigAssumption DEF SubmitBegin
      <3>3. \A u \in Urbs : Comes(u) => u = n /\ EpAddEd(EdOf[n])
        BY <1>0, <3>1 DEF At, TdTypes
      <3> HIDE DEF Comes
      <3>4. \A u \in Urbs : Comes(u) => state'[EdOf[u]] # {}
        BY <1>0, <3>1, <3>3, PieceKept, ConfigAssumption
      <3>5. QED BY <1>1, <1>2, <2>0, <3>2, <3>4
    <2>8. CASE SubmitSetUp(p)
      <3>1. /\ SetUp(EdOf[target[p]]) /\ hcpriv' = hcpriv
            /\ target' = target /\ pc[p] = "add"
        BY <2>8 DEF SubmitSetUp, Goto, urbVars
      <3>2. PICK n \in Urbs : n = target[p]
        BY <1>0, <3>1 DEF OneOwner, TdTypes
      <3>3. StateKept /\ state'[EdOf[n]] # {}
        BY <1>0, <3>1, <3>2, PieceKept, ConfigAssumption
      <3>4. \A u \in Urbs : Comes(u) => u = n
        BY <1>0, <3>1, <3>2 DEF At, TdTypes
      <3> HIDE DEF Comes
      <3>5. QED BY <1>1, <1>2, <2>0, <3>1, <3>3, <3>4
    <2>2. CASE SubmitAlloc(p)
      <3>1. /\ hcpriv' = [hcpriv EXCEPT ![target[p]] = 1] /\ state' = state
            /\ target' = target /\ pc[p] = "alloc"
        BY <2>2 DEF SubmitAlloc, Goto, edVars
      <3>2. \A u \in Urbs : u = target[p] => Begun(u)
        BY <3>1 DEF Begun, At
      <3>3. \A u \in Urbs : hcpriv'[u] = 1 \/ Comes(u) => hcpriv[u] = 1 \/ u = target[p]
        BY <1>0, <3>1 DEF At, TdTypes
      <3> HIDE DEF Comes
      <3>4. QED BY <1>1, <1>2, <2>0, <3>1, <3>2, <3>3, NothingKept
    <2>3. ASSUME \A u \in Urbs : ~ Comes(u), StateKept,
                 \A u \in Urbs : hcpriv'[u] = 1 => hcpriv[u] = 1
          PROVE freed = 0 /\ StateKept /\ UrbKept
      BY <1>1, <1>2, <2>0, <2>3
    <2>4. CASE SubmitFails(p) \/ SubmitLink(p)
      <3>1. /\ pc' = [pc EXCEPT ![p] = "idle"] /\ pc[p] \in {"add", "alloc", "link"}
        BY <2>4 DEF SubmitFails, SubmitLink, Goto
      <3>2. \A u \in Urbs : ~ Comes(u)
        BY <1>0, <3>1 DEF At, TdTypes
      <3>3. target[p] \in Urbs
        BY <1>0, <3>1 DEF OneOwner, TdTypes
      <3>4. hcpriv' = hcpriv \/ hcpriv' = [hcpriv EXCEPT ![target[p]] = 0]
        BY <2>4 DEF SubmitFails, SubmitLink, UndoSubmit, RmPriv
      <3>5. state' = state \/ EpLink(EdOf[target[p]])
        BY <2>4 DEF SubmitFails, SubmitLink, LinkAndQueue, edVars
      <3>6. StateKept
        BY <1>0, <3>3, <3>5, PieceKept, NothingKept, ConfigAssumption
      <3>7. \A u \in Urbs : hcpriv'[u] = 1 => hcpriv[u] = 1
        BY <1>0, <3>3, <3>4 DEF TdTypes
      <3> HIDE DEF Comes
      <3>8. QED BY <2>3, <3>2, <3>6, <3>7
    <2>5. CASE UnlinkRequest(p)
      <3>1. /\ RequestUrbDel(EdOf[target[p]]) /\ hcpriv' = hcpriv
            /\ pc[p] = "request" /\ hcpriv[target[p]] # 0
            /\ \E to \in {"async", "idle", "sleep"} : pc' = [pc EXCEPT ![p] = to]
        BY <2>5 DEF UnlinkRequest, Goto, Stale, urbVars
      <3>2. target[p] \in Urbs
        BY <1>0, <3>1 DEF OneOwner, TdTypes
      <3>3. state[EdOf[target[p]]] # {}
        <4>1. hcpriv[target[p]] = 1
          BY <1>0, <3>1, <3>2 DEF TdTypes
        <4>2. QED BY <1>0, <1>1, <3>2, <4>1
      <3>4. \A u \in Urbs : ~ Comes(u)
        BY <1>0, <3>1 DEF At, TdTypes
      <3> HIDE DEF Comes
      <3>5. QED BY <1>0, <2>3, <3>1, <3>2, <3>3, <3>4, PieceKept, ConfigAssumption
    <2>6. CASE UnlinkBegin(p) \/ UnlinkMark(p) \/ UnlinkAsync(p) \/ UnlinkEnd(p)
               \/ FreeWait(p) \/ FreeEnd(p)
      <3>1. /\ UNCHANGED <<state, hcpriv>>
            /\ \E to \in {"mark", "request", "idle", "freewait"} : pc' = [pc EXCEPT ![p] = to]
        BY <2>6 DEF UnlinkBegin, UnlinkMark, UnlinkAsync, UnlinkEnd, FreeWait, FreeEnd,
           Goto, edVars, urbVars
      <3>2. \A u \in Urbs : ~ Comes(u)
        BY <1>0, <3>1 DEF At, TdTypes
      <3> HIDE DEF Comes
      <3>3. QED BY <2>3, <3>1, <3>2, NothingKept
    <2>7. QED BY <1>1, <1>4, <2>1, <2>2, <2>4, <2>5, <2>6, <2>8 DEF Proc
  <1>5. QED BY <1>3, <1>4

LEMMA EdUsedKeeps ==
  ASSUME TdInv, Alive, EdUsed, Next
  PROVE EdUsed'
  <1>1. CASE Irq
    BY <1>1, HandlerKept, UsedKeeps
  <1>2. ASSUME NEW p \in Procs, Proc(p) PROVE EdUsed'
    BY <1>2, ProcKept, UsedKeeps
  <1>3. CASE (\E e \in Eds : HcRetire(e)) \/ Frame \/ SubmitShutdown \/ UnlinkDrop
    <2>1. UNCHANGED <<state, freed, pc, target>>
      BY <1>3 DEF HcRetire, Frame, SubmitShutdown, UnlinkDrop, edVars, procVars
    <2>2. \A u \in Urbs : hcpriv'[u] = 1 => hcpriv[u] = 1
      <3>1. hcpriv' = hcpriv \/ \E n \in Urbs : hcpriv' = [hcpriv EXCEPT ![n] = 0]
        BY <1>3 DEF HcRetire, Frame, SubmitShutdown, UnlinkDrop, DropInactive, RmPriv,
           urbVars
      <3>2. QED BY <3>1 DEF TdInv, TdTypes
    <2>3. UrbKept
      BY <2>1, <2>2 DEF UrbKept, Begun, At
    <2>4. QED BY <2>1, <2>3, NothingKept, UsedKeeps
  <1>4. QED BY <1>1, <1>2, <1>3 DEF Next

-----------------------------------------------------------------------------
(* A step leaves the TDs of the urbs unmixed, and is one of the contract.  *)

Ready(u) == hcpriv[u] = 1 /\ urb_del[u] = 0
Keeps == Unmixed' /\ (Contract!Next \/ UNCHANGED Contract!vars)

LEMMA UnmixedFewer ==
  ASSUME Unmixed,
         \A u, v \in Urbs : u # v /\ EdOf[u] = EdOf[v] => (Prior(v, u)' => Prior(v, u))
  PROVE Unmixed'
  <1> SUFFICES ASSUME NEW u \in Urbs, NEW v \in Urbs, u # v, EdOf[u] = EdOf[v]
               PROVE ~ (Prior(u, v)' /\ Prior(v, u)')
    BY DEF Unmixed
  <1>1. ~ (Prior(u, v) /\ Prior(v, u))
    BY DEF Unmixed
  <1>2. QED BY <1>1

LEMMA SameFewer ==
  ASSUME SameLine
  PROVE /\ \A u, v \in Urbs : u # v /\ EdOf[u] = EdOf[v] => (Prior(v, u)' => Prior(v, u))
        /\ SameOrder
        /\ \A u \in Urbs : InLine(u)' <=> InLine(u)
  BY DEF SameLine, SameOrder

(* The drivers see nothing.                                                *)
LEMMA SeenNothing ==
  ASSUME Unmixed, SameLine, cur' = cur,
         \A u \in Urbs : InLine(u) => (Ready(u)' <=> Ready(u))
  PROVE Keeps
  <1>1. Unmixed'
    BY SameFewer, UnmixedFewer
  <1>2. \A u \in Urbs : Wait(u)' <=> Wait(u)
    BY SameFewer DEF Wait, Ready
  <1>3. UNCHANGED <<Waiting, Before>>
    BY <1>2, SameFewer, SeenStays
  <1>4. QED BY <1>1, <1>3 DEF Keeps, Contract!vars

(* Urb n is taken back, or has no TD out.                                  *)
LEMMA SeenTaken ==
  ASSUME Unmixed, SameLine, cur' = cur, NEW n \in Urbs,
         \A u \in Urbs : Ready(u)' <=> Ready(u) /\ u # n
  PROVE Keeps
  <1>1. Unmixed'
    BY SameFewer, UnmixedFewer
  <1>2. \A u \in Urbs : Wait(u)' <=> Wait(u) /\ u # n
    BY SameFewer DEF Wait, Ready
  <1>3. CASE Wait(n)
    <2>1. Contract!Leave(n)
      BY <1>2, <1>3, SameFewer, SeenLeave
    <2>2. Contract!Unlink(n)
      BY <2>1 DEF Contract!Unlink
    <2>3. QED BY <1>1, <2>2 DEF Keeps, Contract!Next
  <1>4. CASE ~ Wait(n)
    <2>1. \A u \in Urbs : Wait(u)' <=> Wait(u)
      BY <1>2, <1>4
    <2>2. UNCHANGED <<Waiting, Before>>
      BY <2>1, SameFewer, SeenStays
    <2>3. QED BY <1>1, <2>2 DEF Keeps, Contract!vars
  <1>5. QED BY <1>3, <1>4

(* Urb n is queued.                                                        *)
LEMMA SeenQueued ==
  ASSUME TdTypes, TdTypes', Unmixed, NEW n \in Urbs, ~ InLine(n),
         queue' = [queue EXCEPT ![EdOf[n]] = @ \o Tds(n)],
         UNCHANGED <<td_list, done_head, hc_done>>,
         Ready(n)', \A u \in Urbs : u # n => (Ready(u)' <=> Ready(u))
  PROVE Unmixed' /\ Contract!Queue(n)
  <1>1. ASSUME NEW u \in Urbs PROVE InLine(u)' <=> InLine(u) \/ u = n
    BY AppendLine
  <1>2. ASSUME NEW u \in Urbs, NEW v \in Urbs, u # v, EdOf[u] = EdOf[v]
        PROVE Prior(v, u)' <=> Prior(v, u) \/ (u = n /\ InLine(v))
    BY <1>2, AppendLine
  <1>3. ASSUME NEW u \in Urbs, EdOf[u] = EdOf[n]
        PROVE ~ Prior(n, u) /\ ~ Prior(u, n)
    BY <1>3, PriorIn
  <1>4. Unmixed'
    <2> SUFFICES ASSUME NEW u \in Urbs, NEW v \in Urbs, u # v, EdOf[u] = EdOf[v]
                 PROVE ~ (Prior(u, v)' /\ Prior(v, u)')
      BY DEF Unmixed
    <2>1. ~ (Prior(u, v) /\ Prior(v, u))
      BY DEF Unmixed
    <2>2. /\ Prior(v, u)' <=> Prior(v, u) \/ (u = n /\ InLine(v))
          /\ Prior(u, v)' <=> Prior(u, v) \/ (v = n /\ InLine(u))
      BY <1>2
    <2>3. /\ u = n => ~ Prior(u, v)
          /\ v = n => ~ Prior(v, u)
      BY <1>3
    <2>4. QED BY <2>1, <2>2, <2>3
  <1>5. ~ Wait(n)
    BY DEF Wait
  <1>6. \A u \in Urbs : Wait(u)' <=> Wait(u) \/ u = n
    BY <1>1 DEF Wait, Ready
  <1>7. SameOrder
    <2> SUFFICES ASSUME NEW u \in Urbs, NEW v \in Urbs, u # v, EdOf[u] = EdOf[v],
                        Wait(u), Wait(v)
                 PROVE Prior(v, u)' <=> Prior(v, u)
      BY DEF SameOrder
    <2>1. u # n
      BY <1>5
    <2>2. QED BY <1>2, <2>1
  <1>8. ASSUME NEW u \in Urbs, u # n, EdOf[u] = EdOf[n], Wait(u)
        PROVE Prior(u, n)' /\ ~ Prior(n, u)'
    <2>1. InLine(u)
      BY <1>8 DEF Wait
    <2>2. /\ Prior(u, n)' <=> Prior(u, n) \/ (n = n /\ InLine(u))
          /\ Prior(n, u)' <=> Prior(n, u) \/ (u = n /\ InLine(n))
      BY <1>2, <1>8
    <2>3. QED BY <1>3, <1>8, <2>1, <2>2
  <1>9. Contract!Queue(n)
    BY <1>5, <1>6, <1>7, <1>8, SeenQueue
  <1>10. QED BY <1>4, <1>9

(* Two urbs of a line are in some order.                                   *)
LEMMA EitherPriorNext ==
  ASSUME TdTypes', NEW u \in Urbs, NEW v \in Urbs, u # v, EdOf[u] = EdOf[v],
         InLine(u)', InLine(v)'
  PROVE Prior(u, v)' \/ Prior(v, u)'
  <1>1. Line(EdOf[u])' \in Seq(Td)
    <2>1. /\ td_list' \in Seq(Td) /\ done_head' \in Seq(Td) /\ hc_done' \in Seq(Td)
          /\ queue'[EdOf[u]] \in Seq(Td)
      BY ConfigAssumption DEF TdTypes
    <2>2. Reverse(done_head') \in Seq(Td) /\ Reverse(hc_done') \in Seq(Td)
      BY <2>1, ReverseOrder
    <2>3. td_list' \o Reverse(done_head') \o Reverse(hc_done') \o queue'[EdOf[u]] \in Seq(Td)
      BY <2>1, <2>2
    <2>4. QED BY <2>3 DEF Line
  <1>2. Has(Line(EdOf[u])', u) /\ Has(Line(EdOf[u])', v)
    BY DEF InLine
  <1>3. Ahead(Line(EdOf[u])', u, v) \/ Ahead(Line(EdOf[u])', v, u)
    BY <1>1, <1>2, EitherAhead
  <1>4. QED BY <1>3 DEF Prior

(* What the proofs of the steps start from.                                *)
Good == /\ TdTypes /\ TdTypes' /\ Alive /\ DeviceOk /\ \A u \in Urbs : UrbOk(u)
        /\ Unmixed /\ EdUsed /\ OneCompletes

(* The controller moves TDs along their lines.                             *)
LEMMA ControllerOrder ==
  ASSUME Good, Frame \/ \E e \in Eds : HcRetire(e)
  PROVE Keeps
  <1>1. SameLine
    BY RetireLine, FrameLine DEF Good, DeviceOk
  <1>2. UNCHANGED <<hcpriv, urb_del, cur>>
    BY DEF HcRetire, Frame, urbVars, irqVars
  <1>3. QED BY <1>1, <1>2, SeenNothing DEF Ready, Good

LEMMA EnterOrder ==
  ASSUME Good, IrqEnter
  PROVE Keeps
  <1>1. SameLine
    BY EnterLine DEF Good, DeviceOk
  <1>2. UNCHANGED <<hcpriv, urb_del, cur>>
    BY DEF IrqEnter
  <1>3. QED BY <1>1, <1>2, SeenNothing DEF Ready, Good

(* The TD that is serviced is the last of its urb when no other is out.    *)
LEMMA ServedOut ==
  ASSUME Good, DoneStep, queue' = queue, NEW h \in Urbs, h = DoneUrb, hcpriv[h] = 1
  PROVE InLine(h) /\ (LastTd(h, td_cnt[h] + 1) <=> ~ InLine(h)')
  <1>1. TdTypes /\ TdTypes' /\ InLine(h)
    BY DoneLine DEF Good
  <1> DEFINE g == Outstanding(h)'
  <1>2. g = Outstanding(h) - 1
    BY <1>1, DoneOut
  <1>3. Outstanding(h) # 0 /\ UrbOk(h)
    BY <1>1, InLineOut DEF Good
  <1>4. Outstanding(h) + td_cnt[h] = Length[h]
    <2>1. Queued(h)
      BY <1>3, OutMeansQueued
    <2>2. QED BY <1>3, <2>1 DEF UrbOk, Accounted
  <1>5. InLine(h)' <=> g # 0
    <2>1. InLine(h)' <=> LineHas(td_list', done_head', hc_done', queue'[EdOf[h]], h)
      BY <1>1, LineOrderNext
    <2>2. /\ queue'[EdOf[h]] \in Seq(Td) /\ hc_done' \in Seq(Td)
          /\ done_head' \in Seq(Td) /\ td_list' \in Seq(Td)
      BY <1>1, LineOrderNext DEF TdTypes
    <2>3. /\ Has(td_list', h) <=> Count(td_list', h) # 0
          /\ Has(done_head', h) <=> Count(done_head', h) # 0
          /\ Has(hc_done', h) <=> Count(hc_done', h) # 0
          /\ Has(queue'[EdOf[h]], h) <=> Count(queue'[EdOf[h]], h) # 0
      BY <2>2, HasCount
    <2>4. /\ Count(queue'[EdOf[h]], h) \in Nat /\ Count(hc_done', h) \in Nat
          /\ Count(done_head', h) \in Nat /\ Count(td_list', h) \in Nat
      BY <2>2, CountNat
    <2>5. g = Count(queue'[EdOf[h]], h) + Count(hc_done', h)
              + Count(done_head', h) + Count(td_list', h)
      BY DEF Outstanding
    <2>6. InLine(h)' <=> \/ Count(td_list', h) # 0 \/ Count(done_head', h) # 0
                        \/ Count(hc_done', h) # 0 \/ Count(queue'[EdOf[h]], h) # 0
      BY <2>1, <2>3 DEF LineHas
    <2> HIDE DEF g
    <2>7. g # 0 <=> \/ Count(td_list', h) # 0 \/ Count(done_head', h) # 0
                   \/ Count(hc_done', h) # 0 \/ Count(queue'[EdOf[h]], h) # 0
      BY <2>4, <2>5
    <2>8. QED BY <2>6, <2>7
  <1>6. Outstanding(h) \in Nat /\ td_cnt[h] \in Nat /\ Length[h] \in Nat
    BY <1>1, OutNat, ConfigAssumption DEF TdTypes
  <1> HIDE DEF g
  <1>7. Length[h] = td_cnt[h] + 1 <=> g = 0
    BY <1>2, <1>4, <1>6
  <1>8. QED BY <1>1, <1>5, <1>7 DEF LastTd

(* A TD of an urb that has more is served: its next TDs are not behind     *)
(* another urb's, so the order stays.                                      *)
LEMMA DoneTdOrder ==
  ASSUME Good, DoneTd
  PROVE Keeps
  <1>1. /\ DoneStep /\ queue' = queue /\ hcpriv[DoneUrb] = 1
        /\ ~ LastTd(DoneUrb, td_cnt[DoneUrb] + 1)
        /\ UNCHANGED <<hcpriv, urb_del, cur>>
    BY DEF DoneTd, DoneStep, UnlinkIdle
  <1>2. TdTypes /\ TdTypes' /\ Unmixed
    BY DEF Good
  <1>3. DoneUrb \in Urbs
    BY <1>1, <1>2, DoneLine
  <1>4. PICK h \in Urbs : h = DoneUrb
    BY <1>3
  <1>5. \A u \in Urbs :
           /\ InLine(u) <=> u = h \/ InLine(u)'
           /\ \A v \in Urbs : Prior(v, u) <=> Prior(v, u)' \/ (v = h /\ InLine(u)')
    BY <1>1, <1>2, <1>4, DoneLine
  <1>6. InLine(h)'
    BY <1>1, <1>4, ServedOut
  <1>7. ASSUME NEW u \in Urbs, NEW v \in Urbs, u # v, EdOf[u] = EdOf[v]
        PROVE Prior(v, u)' <=> Prior(v, u)
    <2> SUFFICES ASSUME v = h, InLine(u)' PROVE Prior(v, u)'
      BY <1>5
    <2>1. Prior(v, u)
      BY <1>5
    <2>2. ~ Prior(u, v)
      BY <1>2, <1>7, <2>1 DEF Unmixed
    <2>3. ~ Prior(u, v)'
      BY <1>5, <2>2
    <2>4. Prior(v, u)' \/ Prior(u, v)'
      BY <1>2, <1>6, <1>7, EitherPriorNext
    <2>5. QED BY <2>3, <2>4
  <1>8. SameLine
    BY <1>5, <1>6, <1>7 DEF SameLine
  <1>9. QED BY <1>1, <1>2, <1>8, SeenNothing DEF Ready

(* The order when the last TD of an urb is served.                         *)
LEMMA LastOrder ==
  ASSUME Good, DoneStep, queue' = queue, NEW h \in Urbs, h = DoneUrb,
         ~ InLine(h)'
  PROVE /\ Unmixed' /\ SameOrder
        /\ \A u \in Urbs : InLine(u)' <=> InLine(u) /\ u # h
        /\ \A v \in Urbs : v # h /\ EdOf[v] = EdOf[h] => ~ Prior(v, h)
  <1>1. \A u \in Urbs :
           /\ InLine(u) <=> u = h \/ InLine(u)'
           /\ \A v \in Urbs : Prior(v, u) <=> Prior(v, u)' \/ (v = h /\ InLine(u)')
    BY DoneLine DEF Good
  <1>2. Unmixed'
    BY <1>1, UnmixedFewer DEF Good
  <1>3. ASSUME NEW v \in Urbs, v # h, EdOf[v] = EdOf[h], Prior(v, h)
        PROVE FALSE
    <2>1. Prior(v, h)'
      BY <1>1, <1>3
    <2>2. Has(Line(EdOf[h])', h)
      BY <2>1, AheadHas DEF Prior
    <2>3. QED BY <2>2 DEF InLine
  <1>4. ~ Wait(h)'
    BY DEF Wait
  <1>5. \A u, v \in Urbs : v # h => (Prior(v, u)' <=> Prior(v, u))
    BY <1>1
  <1>6. SameOrder
    BY <1>4, <1>5 DEF SameOrder
  <1>7. QED BY <1>1, <1>2, <1>3, <1>6

(* The last TD of an urb that is being taken back: it did not wait.        *)
LEMMA DoneDeletedOrder ==
  ASSUME Good, DoneDeleted
  PROVE Keeps
  <1>1. /\ DoneStep /\ queue' = queue /\ hcpriv[DoneUrb] = 1
        /\ LastTd(DoneUrb, td_cnt[DoneUrb] + 1) /\ ~ Live(DoneUrb)
        /\ hcpriv' = [hcpriv EXCEPT ![DoneUrb] = 0]
        /\ UNCHANGED <<urb_del, cur>>
    BY DEF DoneDeleted, DoneStep, UnlinkIdle, FreeDeleted, RmPriv
  <1>2. TdTypes /\ TdTypes'
    BY DEF Good
  <1>3. DoneUrb \in Urbs
    BY <1>1, <1>2, DoneLine
  <1>4. PICK h \in Urbs : h = DoneUrb
    BY <1>3
  <1>5. ~ InLine(h)'
    BY <1>1, <1>4, ServedOut
  <1>6. /\ Unmixed' /\ SameOrder
        /\ \A u \in Urbs : InLine(u)' <=> InLine(u) /\ u # h
    BY <1>1, <1>4, <1>5, LastOrder
  <1>7. urb_del[h] = 1
    <2> SUFFICES ASSUME urb_del[h] # 1 PROVE FALSE
      OBVIOUS
    <2>1. "DEL" \in state[EdOf[h]] \/ state[EdOf[h]] = {}
      BY <1>1, <1>2, <1>4 DEF Live, TdTypes
    <2>2. freed = 1
      BY <1>1, <1>2, <1>4, <2>1, ConfigAssumption
      DEF Good, DeviceOk, DelWhenFreed, EdUsed, TdTypes
    <2>3. QED BY <1>1, <1>4, <2>2 DEF Good, UrbOk, Quiet
  <1>8. \A u \in Urbs : Wait(u)' <=> Wait(u)
    <2>1. \A u \in Urbs : u # h => hcpriv'[u] = hcpriv[u]
      BY <1>1, <1>4
    <2>2. QED BY <1>1, <1>5, <1>6, <1>7, <2>1 DEF Wait
  <1>9. UNCHANGED <<Waiting, Before>>
    BY <1>6, <1>8, SeenStays
  <1>10. QED BY <1>1, <1>6, <1>9 DEF Keeps, Contract!vars

(* The last TD of a live urb: it waited, and nothing is before it.         *)
LEMMA DoneLastOrder ==
  ASSUME Good, DoneLast
  PROVE Keeps
  <1>1. /\ DoneStep /\ queue' = queue /\ hcpriv[DoneUrb] = 1
        /\ LastTd(DoneUrb, td_cnt[DoneUrb] + 1) /\ Live(DoneUrb)
        /\ hcpriv' = hcpriv \/ hcpriv' = [hcpriv EXCEPT ![DoneUrb] = 0]
        /\ urb_del' = urb_del /\ irq = "done" /\ cur' = DoneUrb
    BY DEF DoneLast, DoneStep, RmPriv, edVars
  <1>2. TdTypes /\ TdTypes'
    BY DEF Good
  <1>3. DoneUrb \in Urbs
    BY <1>1, <1>2, DoneLine
  <1>4. PICK h \in Urbs : h = DoneUrb
    BY <1>3
  <1>5. InLine(h) /\ ~ InLine(h)'
    BY <1>1, <1>4, ServedOut
  <1>6. /\ Unmixed' /\ SameOrder
        /\ \A u \in Urbs : InLine(u)' <=> InLine(u) /\ u # h
        /\ \A v \in Urbs : v # h /\ EdOf[v] = EdOf[h] => ~ Prior(v, h)
    BY <1>1, <1>4, <1>5, LastOrder
  <1>7. Wait(h)
    BY <1>1, <1>4, <1>5 DEF Wait, Live
  <1>8. \A u \in Urbs : Wait(u)' <=> Wait(u) /\ u # h
    <2>1. \A u \in Urbs : u # h => hcpriv'[u] = hcpriv[u]
      BY <1>1, <1>2, <1>4 DEF TdTypes
    <2>2. QED BY <1>1, <1>5, <1>6, <2>1 DEF Wait
  <1>9. Contract!Leave(h)
    BY <1>6, <1>7, <1>8, SeenLeave
  <1>10. \A v \in Waiting : <<v, h>> \notin Before
    <2> SUFFICES ASSUME NEW v, <<v, h>> \in Before PROVE FALSE
      OBVIOUS
    <2>1. PICK v1 \in Urbs, h1 \in Urbs : /\ <<v, h>> = <<v1, h1>> /\ v1 # h1
                                         /\ EdOf[v1] = EdOf[h1] /\ Prior(v1, h1)
      BY SeenAs
    <2>2. v1 = v /\ h1 = h
      BY <2>1
    <2>3. QED BY <1>6, <2>1, <2>2
  <1>11. cur = NoUrb /\ cur' = h
    BY <1>1, <1>4 DEF Good, OneCompletes
  <1>12. Contract!Return(h)
    BY <1>9, <1>10, <1>11 DEF Contract!Return
  <1>13. QED BY <1>6, <1>12 DEF Keeps, Contract!Next

(* The steps that are about no TD and no urb_priv.                         *)
LEMMA PassOrder ==
  ASSUME Good,
         \/ CompleteOnly \/ CompleteSubmitFails \/ SpinBegin \/ SpinEnd \/ AfterDropped
         \/ DoneOrphan \/ SubmitShutdown
         \/ \E p \in Procs :
               \/ SubmitBegin(p) \/ SubmitSetUp(p) \/ SubmitTwice(p)
               \/ UnlinkStale(p) \/ UnlinkBegin(p) \/ UnlinkRequest(p)
               \/ UnlinkAsync(p) \/ UnlinkEnd(p) \/ FreeDev(p) \/ FreeWait(p) \/ FreeEnd(p)
  PROVE Keeps
  <1>1. UNCHANGED <<queue, hcpriv, urb_del, td_list, done_head, hc_done, cur>>
    <2> USE DEF edVars, urbVars, hcVars, irqVars, Fails
    <2>1. CASE \/ CompleteOnly \/ CompleteSubmitFails \/ SpinBegin \/ SpinEnd
               \/ AfterDropped \/ DoneOrphan \/ SubmitShutdown
      BY <2>1 DEF CompleteOnly, CompleteSubmitFails, EpAddEd, SkipNew, SpinBegin, SpinEnd,
         AfterDropped, DoneOrphan, SubmitShutdown
    <2>2. ASSUME NEW p \in Procs,
                 \/ SubmitBegin(p) \/ SubmitSetUp(p) \/ SubmitTwice(p)
                 \/ UnlinkStale(p) \/ UnlinkBegin(p) \/ UnlinkRequest(p)
                 \/ UnlinkAsync(p) \/ UnlinkEnd(p) \/ FreeDev(p) \/ FreeWait(p) \/ FreeEnd(p)
          PROVE UNCHANGED <<queue, hcpriv, urb_del, td_list, done_head, hc_done, cur>>
      BY <2>2 DEF UnlinkStale, SubmitBegin, EpAddEd, SkipNew, SubmitSetUp, SubmitTwice,
         UnlinkBegin, UnlinkRequest, RequestUrbDel, UnlinkAsync, UnlinkEnd, FreeDev,
         FreeWait, FreeEnd
    <2>3. QED BY <2>1, <2>2
  <1>2. SameLine
    BY <1>1, LineStays
  <1>3. QED BY <1>1, <1>2, SeenNothing DEF Ready, Good

(* An urb that loses its private part, or is marked, is taken back.        *)
LEMMA TakenOrder ==
  ASSUME Good, CompleteDrop \/ UnlinkDrop \/ CompleteUnlink \/ \E p \in Procs : UnlinkMark(p)
  PROVE Keeps
  <1>1. UNCHANGED <<queue, td_list, done_head, hc_done, cur>>
    BY DEF CompleteDrop, UnlinkDrop, CompleteUnlink, RequestUrbDel, UnlinkMark, edVars,
       hcVars, irqVars
  <1>2. \E n \in Urbs : \/ hcpriv' = [hcpriv EXCEPT ![n] = 0] /\ urb_del' = urb_del
                        \/ hcpriv' = hcpriv /\ urb_del' = [urb_del EXCEPT ![n] = 1]
    <2>1. CASE CompleteDrop \/ UnlinkDrop
      BY <2>1 DEF CompleteDrop, UnlinkDrop, DropInactive, RmPriv
    <2>2. CASE CompleteUnlink
      BY <2>2 DEF CompleteUnlink
    <2>3. ASSUME NEW p \in Procs, UnlinkMark(p)
          PROVE \E n \in Urbs : hcpriv' = hcpriv /\ urb_del' = [urb_del EXCEPT ![n] = 1]
      <3>1. target[p] \in Urbs
        BY <2>3 DEF Good, DeviceOk, OneOwner, TdTypes, UnlinkMark, Goto
      <3>2. QED BY <2>3, <3>1 DEF UnlinkMark
    <2>4. QED BY <2>1, <2>2, <2>3
  <1>3. PICK n \in Urbs : \/ hcpriv' = [hcpriv EXCEPT ![n] = 0] /\ urb_del' = urb_del
                          \/ hcpriv' = hcpriv /\ urb_del' = [urb_del EXCEPT ![n] = 1]
    BY <1>2
  <1>4. \A u \in Urbs : Ready(u)' <=> Ready(u) /\ u # n
    BY <1>3 DEF Ready, Good, TdTypes
  <1>5. SameLine
    BY <1>1, LineStays
  <1>6. QED BY <1>1, <1>4, <1>5, SeenTaken DEF Good

(* A process that submits has no TD in the lines.                          *)
LEMMA SubmittingOut ==
  ASSUME Good, NEW p \in Procs, pc[p] \in {"add", "alloc", "link"}
  PROVE target[p] \in Urbs /\ ~ InLine(target[p])
  <1>1. TdTypes /\ OneOwner /\ \A u \in Urbs : Accounted(u) /\ Owned(u)
    BY DEF Good, DeviceOk, UrbOk
  <1>2. target[p] \in Urbs
    BY <1>1 DEF OneOwner, TdTypes
  <1>3. PICK u \in Urbs : u = target[p]
    BY <1>2
  <1>4. Submitting(u)
    BY <1>3 DEF Submitting, At
  <1>5. ~ Queued(u)
    BY <1>1, <1>3 DEF Queued, Owned, At
  <1>6. Outstanding(u) = 0
    BY <1>1, <1>4, <1>5 DEF Accounted
  <1>7. QED BY <1>1, <1>3, <1>6, InLineOut

(* ... and nobody sees it get its private part, or lose it again.          *)
LEMMA PrepareOrder ==
  ASSUME Good, NEW p \in Procs,
         \/ SubmitAlloc(p) \/ SubmitFails(p)
         \/ SubmitLink(p) /\ UndoSubmit(target[p]) /\ UNCHANGED edVars
  PROVE Keeps
  <1>1. /\ UNCHANGED <<queue, td_list, done_head, hc_done, cur>>
        /\ pc[p] \in {"add", "alloc", "link"}
    BY DEF SubmitAlloc, SubmitFails, SubmitLink, Goto, edVars, hcVars, irqVars
  <1>2. PICK n \in Urbs : n = target[p] /\ ~ InLine(n)
    BY <1>1, SubmittingOut
  <1>3. \E x, y \in 0 .. 1 : /\ hcpriv' = [hcpriv EXCEPT ![n] = x]
                             /\ urb_del' = urb_del \/ urb_del' = [urb_del EXCEPT ![n] = y]
    BY <1>2 DEF SubmitAlloc, SubmitFails, SubmitLink, UndoSubmit, RmPriv
  <1>4. \A u \in Urbs : u # n => (Ready(u)' <=> Ready(u))
    BY <1>3 DEF Ready, Good, TdTypes
  <1>5. SameLine
    BY <1>1, LineStays
  <1>6. QED BY <1>1, <1>2, <1>4, <1>5, SeenNothing DEF Good

(* Submitting an urb, by a process or by a completion handler.             *)
LEMMA LinkOrder ==
  ASSUME Good, NEW p \in Procs, SubmitLink(p)
  PROVE Keeps
  <1>1. CASE UndoSubmit(target[p]) /\ UNCHANGED edVars
    BY <1>1, PrepareOrder
  <1>2. CASE LinkAndQueue(target[p], EdOf[target[p]]) /\ hcpriv' = hcpriv
    <2>1. pc[p] = "link" /\ UNCHANGED <<td_list, done_head, hc_done, cur, urb_del>>
      BY DEF SubmitLink, Goto, hcVars, irqVars
    <2>2. PICK n \in Urbs : n = target[p] /\ ~ InLine(n)
      BY <2>1, SubmittingOut
    <2>3. At(p, "link", n)
      BY <2>1, <2>2 DEF At
    <2>4. Ready(n)
      BY <2>3 DEF Ready, Good, UrbOk, Owned
    <2>5. queue' = [queue EXCEPT ![EdOf[n]] = @ \o Tds(n)]
      BY <1>2, <2>2 DEF LinkAndQueue
    <2>6. Ready(n)' /\ \A u \in Urbs : u # n => (Ready(u)' <=> Ready(u))
      BY <1>2, <2>1, <2>4 DEF Ready
    <2>7. Unmixed' /\ Contract!Queue(n)
      BY <2>1, <2>2, <2>5, <2>6, SeenQueued DEF Good
    <2>8. Contract!Submit(n)
      BY <2>1, <2>7 DEF Contract!Submit
    <2>9. QED BY <2>7, <2>8 DEF Keeps, Contract!Next
  <1>3. QED BY <1>1, <1>2 DEF SubmitLink

LEMMA CompleteSubmitOrder ==
  ASSUME Good, CompleteSubmit
  PROVE Keeps
  <1>1. UNCHANGED <<td_list, done_head, hc_done, cur>>
    BY DEF CompleteSubmit, hcVars
  <1>2. PICK n \in Urbs : /\ hcpriv[n] = 0 /\ disabled = 0
                          /\ hcpriv' = [hcpriv EXCEPT ![n] = 1]
                          /\ urb_del' = [urb_del EXCEPT ![n] = 0]
                          /\ queue' = [queue EXCEPT ![EdOf[n]] = @ \o Tds(n)]
    BY DEF CompleteSubmit, CanSubmit, LinkAndQueue
  <1>3. ~ InLine(n)
    <2>1. ~ Queued(n) /\ Accounted(n)
      BY <1>2 DEF Queued, Good, UrbOk
    <2>2. Outstanding(n) = 0
      BY <1>2, <2>1 DEF Accounted
    <2>3. QED BY <2>2, InLineOut DEF Good
  <1>4. Ready(n)' /\ \A u \in Urbs : u # n => (Ready(u)' <=> Ready(u))
    BY <1>2 DEF Ready, Good, TdTypes
  <1>5. Unmixed' /\ Contract!Queue(n)
    BY <1>1, <1>2, <1>3, <1>4, SeenQueued DEF Good
  <1>6. Contract!Submit(n)
    BY <1>1, <1>5 DEF Contract!Submit
  <1>7. QED BY <1>5, <1>6 DEF Keeps, Contract!Next

(* The completion handler is done; a periodic urb is queued again.         *)
LEMMA AfterOrder ==
  ASSUME Good, AfterComplete
  PROVE Keeps
  <1>1. /\ UNCHANGED <<td_list, done_head, hc_done, hcpriv, urb_del>>
        /\ cur \in Urbs /\ cur # NoUrb /\ cur' = NoUrb /\ Completing(cur)
    BY ConfigAssumption DEF AfterComplete, Good, DeviceOk, Handed, Completing, hcVars
  <1>2. CASE queue' = queue
    <2>1. SameLine
      BY <1>1, <1>2, LineStays
    <2>2. Unmixed'
      BY <2>1, SameFewer, UnmixedFewer DEF Good
    <2>3. \A u \in Urbs : Wait(u)' <=> Wait(u)
      BY <1>1, <2>1, SameFewer DEF Wait
    <2>4. UNCHANGED <<Waiting, Before>>
      BY <2>1, <2>3, SameFewer, SeenStays
    <2>5. Contract!HandlerEnd
      BY <1>1, <2>4 DEF Contract!HandlerEnd
    <2>6. QED BY <2>2, <2>5 DEF Keeps, Contract!Next
  <1>3. CASE queue' # queue
    <2>1. /\ cur \in Requeued /\ hcpriv[cur] = 1 /\ urb_del[cur] = 0
          /\ queue' = [queue EXCEPT ![EdOf[cur]] = @ \o Tds(cur)]
      BY <1>3 DEF AfterComplete, UnlinkIdle
    <2>2. PICK n \in Urbs : n = cur
      BY <1>1
    <2>3. /\ TdTypes /\ Queued(n) /\ td_cnt[n] = Length[n]
          /\ Outstanding(n) + td_cnt[n] = Length[n]
      BY <1>1, <2>1, <2>2 DEF Good, UrbOk, Accounted
    <2>4. Outstanding(n) \in Nat /\ Length[n] \in Nat
      BY <2>3, OutNat, ConfigAssumption
    <2>5. ~ InLine(n)
      BY <2>3, <2>4, InLineOut
    <2>6. \A u \in Urbs : Ready(u)' <=> Ready(u)
      BY <1>1 DEF Ready
    <2>7. Ready(n)
      BY <2>1, <2>2 DEF Ready
    <2>8. Unmixed' /\ Contract!Queue(n)
      BY <1>1, <2>1, <2>2, <2>5, <2>6, <2>7, SeenQueued DEF Good
    <2>9. Contract!Requeue(n)
      BY <1>1, <2>1, <2>2, <2>8 DEF Contract!Requeue
    <2>10. QED BY <2>8, <2>9 DEF Keeps, Contract!Next
  <1>4. QED BY <1>2, <1>3

(* dl_del_list takes TDs of urbs that do not wait out of the queues.       *)
LEMMA DeleteOrder ==
  ASSUME Good, SpinFrame \/ IrqEnd
  PROVE Keeps
  <1>1. UNCHANGED <<td_list, done_head, hc_done, cur>>
    BY DEF SpinFrame, IrqEnd, hcVars
  <1>2. CASE NothingDeleted
    <2>1. UNCHANGED <<queue, hcpriv, urb_del>>
      BY <1>2 DEF NothingDeleted, edVars, urbVars
    <2>2. QED BY <1>1, <2>1, LineStays, SeenNothing DEF Ready, Good
  <1>3. CASE DlDelList(1 - frame)
    <2> DEFINE S == ed_rm_list[1 - frame]
               Doomed == {u \in Urbs : urb_del[u] = 1 \/ "DEL" \in state[EdOf[u]]}
               Gone(u) == IF EdOf[u] \in S /\ u \in Doomed
                          THEN Count(queue[EdOf[u]], u) ELSE 0
    <2>1. /\ queue' = [e \in Eds |-> IF e \in S THEN Without(queue[e], Doomed)
                                                ELSE queue[e]]
          /\ urb_del' = urb_del
          /\ \A u \in Urbs : u \notin Doomed => hcpriv'[u] = hcpriv[u]
          /\ \A u \in Urbs : hcpriv'[u] \in {0, hcpriv[u]}
      <3>1. /\ queue' = [e \in Eds |-> IF e \in S THEN Without(queue[e], Doomed)
                                                  ELSE queue[e]]
            /\ urb_del' = urb_del
            /\ hcpriv' = [u \in Urbs |->
                            IF Gone(u) > 0 /\ LastTd(u, td_cnt[u] + Gone(u))
                            THEN 0 ELSE hcpriv[u]]
        BY <1>3 DEF DlDelList
      <3>2. \A u \in Urbs : u \notin Doomed => Gone(u) = 0
        OBVIOUS
      <3> HIDE DEF Doomed, Gone
      <3>3. \A u \in Urbs : u \notin Doomed => ~ (Gone(u) > 0)
        BY <3>2
      <3>4. QED BY <3>1, <3>3
    <2>2. ASSUME NEW u \in Urbs, u \in Doomed, hcpriv[u] = 1 PROVE urb_del[u] = 1
      <3>1. CASE "DEL" \in state[EdOf[u]]
        <4>1. freed = 1
          BY <3>1, ConfigAssumption DEF Good, DeviceOk, DelWhenFreed
        <4>2. QED BY <2>2, <4>1 DEF Good, UrbOk, Quiet
      <3>2. QED BY <2>2, <3>1
    <2> HIDE DEF Doomed, S
    <2>3. \A u \in Urbs :
            /\ InLine(u)' => InLine(u)
            /\ u \notin Doomed => (InLine(u)' <=> InLine(u))
            /\ \A v \in Urbs : EdOf[u] = EdOf[v] =>
                  /\ Prior(v, u)' => Prior(v, u)
                  /\ u \notin Doomed /\ v \notin Doomed => (Prior(v, u)' <=> Prior(v, u))
      BY <1>1, <2>1, WithoutLine DEF Good
    <2>4. Unmixed'
      BY <2>3, UnmixedFewer DEF Good
    <2>5. \A u \in Urbs : Wait(u) => u \notin Doomed
      BY <2>2 DEF Wait
    <2>6. \A u \in Urbs : Wait(u)' <=> Wait(u)
      BY <2>1, <2>2, <2>3 DEF Wait
    <2>7. SameOrder
      BY <2>3, <2>5 DEF SameOrder
    <2>8. UNCHANGED <<Waiting, Before>>
      BY <2>6, <2>7, SeenStays
    <2>9. QED BY <1>1, <2>4, <2>8 DEF Keeps, Contract!vars
  <1>4. QED BY <1>2, <1>3 DEF SpinFrame, IrqEnd, DelFrame

(* Each step.                                                              *)
LEMMA StepOrder ==
  ASSUME Good, Next
  PROVE Keeps
  <1>1. CASE Irq
    BY <1>1, EnterOrder, DoneTdOrder, DoneDeletedOrder, DoneLastOrder, PassOrder,
       TakenOrder, CompleteSubmitOrder, AfterOrder, DeleteOrder DEF Irq
  <1>2. ASSUME NEW p \in Procs, Proc(p) PROVE Keeps
    BY <1>2, PassOrder, PrepareOrder, LinkOrder, TakenOrder DEF Proc
  <1>3. CASE (\E e \in Eds : HcRetire(e)) \/ Frame \/ SubmitShutdown \/ UnlinkDrop
    BY <1>3, ControllerOrder, PassOrder, TakenOrder
  <1>4. QED BY <1>1, <1>2, <1>3 DEF Next

LEMMA OneCompletesKeeps ==
  ASSUME OneCompletes, Next
  PROVE OneCompletes'
  <1>1. CASE Irq
    BY <1>1 DEF OneCompletes, Irq, IrqEnter, DoneTd, DoneDeleted, DoneLast, DoneStep,
       DoneOrphan, Fails, CompleteOnly, CompleteSubmit, CompleteSubmitFails, CompleteDrop,
       CompleteUnlink, SpinBegin, SpinFrame, SpinEnd, AfterComplete, AfterDropped, IrqEnd,
       irqVars
  <1>2. CASE ~ Irq
    <2>1. UNCHANGED <<irq, cur>>
      <3>1. ASSUME NEW p \in Procs, Proc(p) PROVE UNCHANGED <<irq, cur>>
        BY <3>1 DEF Proc, SubmitBegin, SubmitSetUp, SubmitTwice, SubmitAlloc, SubmitFails,
           SubmitLink, UnlinkBegin, UnlinkStale, Fails, UnlinkMark, UnlinkRequest,
           UnlinkAsync, UnlinkEnd, FreeDev,
           FreeWait, FreeEnd, irqVars
      <3>2. QED BY <1>2, <3>1 DEF Next, HcRetire, Frame, SubmitShutdown, UnlinkDrop, irqVars
    <2>2. QED BY <2>1 DEF OneCompletes
  <1>3. QED BY <1>1, <1>2

-----------------------------------------------------------------------------
LEMMA OrderInit == Init => OrderInv /\ Contract!Init
  <1> SUFFICES ASSUME Init PROVE OrderInv /\ Contract!Init
    OBVIOUS
  <1>1. /\ state = [e \in Eds |-> {}] /\ hcpriv = [u \in Urbs |-> 0]
        /\ queue = [e \in Eds |-> <<>>] /\ hc_done = <<>> /\ done_head = <<>>
        /\ td_list = <<>> /\ cur = NoUrb /\ pc = [p \in Procs |-> "idle"]
    BY DEF Init
  <1>2. EdUsed /\ OneCompletes
    BY <1>1, ConfigAssumption DEF EdUsed, OneCompletes, Begun, At
  <1>3. Unmixed
    <2>1. ASSUME NEW u \in Urbs PROVE ~ InLine(u)
      <3>1. TdTypes
        BY TdInit DEF TdInv
      <3>2. queue[EdOf[u]] = <<>>
        BY <1>1, ConfigAssumption
      <3>3. QED BY <1>1, <3>1, <3>2, LineOrder, EmptyOrder DEF LineHas
    <2>2. QED BY <2>1, PriorIn DEF Unmixed
  <1>4. Waiting = {} /\ Before = {}
    <2>1. \A u \in Urbs : ~ Wait(u)
      BY <1>1 DEF Wait
    <2>2. (\A u : u \notin Waiting) /\ (\A p : p \notin Before)
      BY <2>1, SeenAs
    <2>3. QED BY <2>2
  <1>5. QED BY <1>1, <1>2, <1>3, <1>4 DEF OrderInv, Contract!Init

LEMMA OrderStep ==
  ASSUME TdInv, OrderInv, [Next]_vars
  PROVE OrderInv' /\ [Contract!Next]_(Contract!vars)
  <1>1. CASE Next
    <2>1. Alive /\ TdTypes'
      BY <1>1, StepAlive, TypesKeep
    <2>2. Good
      BY <2>1 DEF Good, TdInv, OrderInv
    <2>3. Keeps
      BY <1>1, <2>2, StepOrder
    <2>4. EdUsed' /\ OneCompletes'
      BY <1>1, <2>1, <2>2, EdUsedKeeps, OneCompletesKeeps DEF Good
    <2>5. QED BY <2>3, <2>4 DEF Keeps, OrderInv
  <1>2. CASE UNCHANGED vars
    <2>1. UNCHANGED <<state, queue, hcpriv, urb_del, hc_done, done_head, irq, td_list, cur,
                      pc, target, freed, fault>>
      BY <1>2 DEF vars, edVars, urbVars, hcVars, irqVars, procVars
    <2>2. /\ Alive' <=> Alive
          /\ Unmixed' <=> Unmixed
          /\ EdUsed' <=> EdUsed
          /\ OneCompletes' <=> OneCompletes
      BY <2>1 DEF Alive, Unmixed, Prior, Line, EdUsed, Begun, At, OneCompletes
    <2>3. UNCHANGED Contract!vars
      BY <2>1 DEF Contract!vars, Waiting, Before, Line
    <2>4. QED BY <2>2, <2>3 DEF OrderInv
  <1>3. QED BY <1>1, <1>2

(* The TDs of an endpoint stay one urb after the other: td_submit_urb,     *)
(* the controller, the done list and dl_del_list never mix them.           *)
THEOREM OrderInvariance ==
  ASSUME ShortAsync \/ "free" \notin Features
  PROVE Spec => []OrderInv
  <1>1. TdInv /\ OrderInv /\ [Next]_vars => OrderInv'
    BY OrderStep
  <1>2. Init => OrderInv
    BY OrderInit
  <1>3. QED BY <1>1, <1>2, TdInvariance, PTL DEF Spec

(* What dl_done_list, sohci_return_urb and sohci_unlink_urb do with the    *)
(* urbs is what the drivers were promised: a submitted urb is returned     *)
(* once, behind those before it at its endpoint, or taken back.            *)
THEOREM DriverImplementsContract ==
  ASSUME ShortAsync \/ "free" \notin Features
  PROVE Spec => ImplementsContract
  <1>1. TdInv /\ OrderInv /\ [Next]_vars => [Contract!Next]_(Contract!vars)
    BY OrderStep
  <1>2. Init => Contract!Init
    BY OrderInit
  <1>3. QED BY <1>1, <1>2, OrderInvariance, TdInvariance, PTL
            DEF Spec, ImplementsContract, Contract!Spec
=============================================================================

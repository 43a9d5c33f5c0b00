----------------------------- MODULE UrbTdProofs -----------------------------
(* The transfer descriptors and the use count, for any number of           *)
(* processes, endpoints, urbs and TDs: td_cnt accounts for every TD as     *)
(* long as the controller runs, and an urb under way holds a use of the    *)
(* device.                                                                 *)
EXTENDS UrbLifeProofs, FiniteSetTheorems, SequenceTheorems

-----------------------------------------------------------------------------
(* Counting the TDs of an urb in a list.                                   *)

Spots(s, u) == {i \in DOMAIN s : s[i].urb = u}

(* A count is a number, and 0 when no TD is the urb's.                     *)
LEMMA CountNat ==
  ASSUME NEW s \in Seq(Td), NEW u
  PROVE /\ IsFiniteSet(Spots(s, u)) /\ Count(s, u) = Cardinality(Spots(s, u))
        /\ Count(s, u) \in Nat
        /\ Count(s, u) = 0 <=> \A i \in DOMAIN s : s[i].urb # u
  <1>1. DOMAIN s = 1 .. Len(s) /\ Len(s) \in Int
    OBVIOUS
  <1>2. IsFiniteSet(1 .. Len(s))
    BY <1>1, FS_Interval
  <1>3. IsFiniteSet(Spots(s, u))
    BY <1>1, <1>2, FS_Subset DEF Spots
  <1>4. Count(s, u) = Cardinality(Spots(s, u))
    BY DEF Count, Spots
  <1>5. Count(s, u) = 0 <=> Spots(s, u) = {}
    BY <1>3, <1>4, FS_EmptySet
  <1>6. QED BY <1>3, <1>4, <1>5, FS_CardinalityType DEF Spots

(* An empty list holds none.                                               *)
LEMMA CountEmpty ==
  ASSUME NEW u
  PROVE Count(<<>>, u) = 0
  <1>1. Spots(<<>>, u) = {}
    BY DEF Spots
  <1>2. Count(<<>>, u) = Cardinality(Spots(<<>>, u))
    BY DEF Count, Spots
  <1>3. QED BY <1>1, <1>2, FS_EmptySet

(* Lists whose TDs of an urb correspond one to one have as many.           *)
LEMMA CountSame ==
  ASSUME NEW s \in Seq(Td), NEW t \in Seq(Td), NEW u,
         NEW f \in [Spots(s, u) -> Spots(t, u)],
         \A i, j \in Spots(s, u) : f[i] = f[j] => i = j,
         \A k \in Spots(t, u) : \E i \in Spots(s, u) : f[i] = k
  PROVE Count(s, u) = Count(t, u)
  <1>1. f \in Bijection(Spots(s, u), Spots(t, u))
    BY DEF Bijection, Injection, IsInjective, Surjection
  <1>2. ExistsBijection(Spots(s, u), Spots(t, u))
    BY <1>1 DEF ExistsBijection
  <1>3. QED BY <1>2, CountNat, FS_Bijection

(* Appending adds the counts.                                              *)
LEMMA CountConcat ==
  ASSUME NEW s \in Seq(Td), NEW t \in Seq(Td), NEW u
  PROVE s \o t \in Seq(Td) /\ Count(s \o t, u) = Count(s, u) + Count(t, u)
  <1> DEFINE Moved == {i \in DOMAIN (s \o t) : i > Len(s) /\ (s \o t)[i].urb = u}
             f == [i \in Spots(t, u) |-> Len(s) + i]
  <1>1. /\ s \o t \in Seq(Td) /\ Len(s \o t) = Len(s) + Len(t)
        /\ DOMAIN (s \o t) = 1 .. Len(s) + Len(t)
        /\ DOMAIN s = 1 .. Len(s) /\ DOMAIN t = 1 .. Len(t)
        /\ Len(s) \in Nat /\ Len(t) \in Nat
    OBVIOUS
  <1>2. \A i \in 1 .. Len(s) + Len(t) :
          (s \o t)[i] = IF i <= Len(s) THEN s[i] ELSE t[i - Len(s)]
    BY ConcatProperties
  <1>3. Spots(s \o t, u) = Spots(s, u) \cup Moved /\ Spots(s, u) \cap Moved = {}
    BY <1>1, <1>2 DEF Spots
  <1>4. f \in Bijection(Spots(t, u), Moved)
    <2>1. f \in [Spots(t, u) -> Moved]
      <3> SUFFICES ASSUME NEW i \in Spots(t, u) PROVE Len(s) + i \in Moved
        OBVIOUS
      <3>1. i \in 1 .. Len(t) /\ t[i].urb = u
        BY <1>1 DEF Spots
      <3>2. Len(s) + i - Len(s) = i /\ Len(s) + i \in 1 .. Len(s) + Len(t)
            /\ ~ (Len(s) + i <= Len(s))
        BY <1>1, <3>1
      <3>3. \E k \in 1 .. Len(s) + Len(t) : k = Len(s) + i /\ k - Len(s) = i
        <4>1. Len(s) \in Int /\ i \in Int
          BY <1>1, <3>1
        <4>2. QED BY <3>2, <4>1
      <3>4. PICK k \in 1 .. Len(s) + Len(t) : k = Len(s) + i /\ k - Len(s) = i
        BY <3>3
      <3>5. (s \o t)[k] = IF k <= Len(s) THEN s[k] ELSE t[k - Len(s)]
        BY <1>2
      <3>6. (s \o t)[k] = t[i]
        BY <3>2, <3>4, <3>5
      <3>7. QED BY <1>1, <3>1, <3>2, <3>4, <3>6
    <2>2. \A i, j \in Spots(t, u) : f[i] = f[j] => i = j
      <3>1. \A i \in Spots(t, u) : i \in Int /\ f[i] = Len(s) + i
        BY <1>1 DEF Spots
      <3> HIDE DEF f
      <3>2. QED BY <1>1, <3>1
    <2>3. ASSUME NEW k \in Moved PROVE \E i \in Spots(t, u) : f[i] = k
      <3>1. k \in 1 .. Len(s) + Len(t) /\ k > Len(s) /\ (s \o t)[k].urb = u
        BY <1>1
      <3>2. k - Len(s) \in 1 .. Len(t) /\ t[k - Len(s)].urb = u /\ Len(s) + (k - Len(s)) = k
        BY <1>1, <1>2, <3>1
      <3>3. k - Len(s) \in Spots(t, u)
        BY <1>1, <3>2 DEF Spots
      <3>4. QED BY <3>2, <3>3
    <2> HIDE DEF f, Moved
    <2>4. QED BY <2>1, <2>2, <2>3 DEF Bijection, Injection, IsInjective, Surjection
  <1> HIDE DEF f, Moved
  <1>5. IsFiniteSet(Moved) /\ Cardinality(Moved) = Cardinality(Spots(t, u))
    <2>1. ExistsBijection(Spots(t, u), Moved)
      BY <1>4 DEF ExistsBijection
    <2>2. QED BY <2>1, CountNat, FS_Bijection
  <1>6. Cardinality(Spots(s \o t, u)) = Cardinality(Spots(s, u)) + Cardinality(Moved)
    <2>1. Cardinality(Spots(s, u) \cup Moved)
            = Cardinality(Spots(s, u)) + Cardinality(Moved) - Cardinality({})
      BY <1>3, <1>5, CountNat, FS_Union
    <2>2. Cardinality(Moved) \in Nat /\ Cardinality(Spots(s, u)) \in Nat
      BY <1>5, CountNat
    <2>3. QED BY <1>3, <2>1, <2>2, FS_EmptySet
  <1>7. QED BY <1>1, <1>5, <1>6, CountNat

(* A list of one TD.                                                       *)
LEMMA CountOne ==
  ASSUME NEW t \in Td, NEW u
  PROVE <<t>> \in Seq(Td) /\ Count(<<t>>, u) = IF t.urb = u THEN 1 ELSE 0
  <1>1. <<t>> \in Seq(Td) /\ DOMAIN <<t>> = {1} /\ <<t>>[1] = t
    BY ElementOfSeq
  <1>2. Spots(<<t>>, u) = IF t.urb = u THEN {1} ELSE {}
    BY <1>1 DEF Spots
  <1>3. Count(<<t>>, u) = Cardinality(Spots(<<t>>, u))
    BY DEF Count, Spots
  <1>4. Cardinality({1}) = 1 /\ Cardinality({}) = 0
    BY FS_Singleton, FS_EmptySet
  <1>5. QED BY <1>1, <1>2, <1>3, <1>4

(* Taking off the first TD takes one off its urb's count.                  *)
LEMMA CountTail ==
  ASSUME NEW s \in Seq(Td), s # <<>>, NEW u
  PROVE /\ Head(s) \in Td /\ Tail(s) \in Seq(Td)
        /\ Count(s, u) = Count(Tail(s), u) + IF Head(s).urb = u THEN 1 ELSE 0
  <1>1. Head(s) \in Td /\ Tail(s) \in Seq(Td)
    OBVIOUS
  <1>2. s = <<Head(s)>> \o Tail(s)
    OBVIOUS
  <1>3. /\ <<Head(s)>> \in Seq(Td)
        /\ Count(<<Head(s)>>, u) = IF Head(s).urb = u THEN 1 ELSE 0
    BY <1>1, CountOne
  <1>4. Count(<<Head(s)>> \o Tail(s), u) = Count(<<Head(s)>>, u) + Count(Tail(s), u)
    BY <1>1, <1>3, CountConcat
  <1>5. Count(s, u) = Count(<<Head(s)>>, u) + Count(Tail(s), u)
    BY <1>2, <1>4
  <1>6. Count(Tail(s), u) \in Nat
    BY <1>1, CountNat
  <1>7. QED BY <1>1, <1>3, <1>5, <1>6

(* Reversing a list changes no count.                                      *)
LEMMA CountReverse ==
  ASSUME NEW s \in Seq(Td), NEW u
  PROVE Reverse(s) \in Seq(Td) /\ Count(Reverse(s), u) = Count(s, u)
  <1>1. /\ DOMAIN s = 1 .. Len(s) /\ Len(s) \in Nat
        /\ Reverse(s) = [i \in 1 .. Len(s) |-> s[Len(s) - i + 1]]
    BY DEF Reverse
  <1>2. \A i \in 1 .. Len(s) : Len(s) - i + 1 \in 1 .. Len(s)
    BY <1>1
  <1>3. Reverse(s) \in Seq(Td)
    BY <1>1, <1>2
  <1> DEFINE f == [i \in Spots(Reverse(s), u) |-> Len(s) - i + 1]
  <1>4. \A i : i \in Spots(Reverse(s), u) <=> i \in 1 .. Len(s) /\ s[Len(s) - i + 1].urb = u
    BY <1>1 DEF Spots
  <1>5. f \in [Spots(Reverse(s), u) -> Spots(s, u)]
    BY <1>1, <1>2, <1>4 DEF Spots
  <1>6. \A i, j \in Spots(Reverse(s), u) : f[i] = f[j] => i = j
    BY <1>1, <1>4
  <1>7. ASSUME NEW k \in Spots(s, u) PROVE \E i \in Spots(Reverse(s), u) : f[i] = k
    <2>1. k \in 1 .. Len(s) /\ s[k].urb = u
      BY <1>1 DEF Spots
    <2>2. Len(s) - k + 1 \in 1 .. Len(s) /\ Len(s) - (Len(s) - k + 1) + 1 = k
      BY <1>1, <2>1
    <2>3. QED BY <1>4, <2>1, <2>2
  <1> HIDE DEF f
  <1>8. QED BY <1>3, <1>5, <1>6, <1>7, CountSame

(* td_submit_urb's TDs are as many as urb_priv->length.                    *)
LEMMA CountTds ==
  ASSUME NEW u \in Urbs, NEW v
  PROVE Tds(u) \in Seq(Td) /\ Count(Tds(u), v) = IF v = u THEN Length[u] ELSE 0
  <1>1. Length[u] \in Nat
    BY ConfigAssumption
  <1>2. Tds(u) = [i \in 1 .. Length[u] |-> [urb |-> u, index |-> i - 1, err |-> 0]]
    BY DEF Tds, NewTd
  <1>3. \A i \in 1 .. Length[u] : i - 1 \in Nat
    BY <1>1
  <1> DEFINE td(i) == [urb |-> u, index |-> i - 1, err |-> 0]
  <1>4. \A i \in 1 .. Length[u] : td(i) \in Td
    BY <1>3 DEF Td
  <1> HIDE DEF td
  <1>5. [i \in 1 .. Length[u] |-> td(i)] \in Seq(Td)
    BY <1>1, <1>4
  <1>6. Tds(u) \in Seq(Td)
    BY <1>2, <1>5 DEF td
  <1>7. Spots(Tds(u), v) = IF v = u THEN 1 .. Length[u] ELSE {}
    BY <1>2 DEF Spots
  <1>8. Cardinality(1 .. Length[u]) = Length[u]
    BY <1>1, FS_Interval
  <1>9. Count(Tds(u), v) = Cardinality(Spots(Tds(u), v))
    BY DEF Count, Spots
  <1>10. QED BY <1>6, <1>7, <1>8, <1>9, FS_EmptySet

(* What is at the places K of a list is a list of as many TDs.             *)
LEMMA RankNat ==
  ASSUME NEW n \in Nat, NEW K \in SUBSET (1 .. n)
  PROVE /\ IsFiniteSet(K) /\ Cardinality(K) \in Nat
        /\ \A k \in K : Rank(K, k) \in 1 .. Cardinality(K)
        /\ \A k, m \in K : Rank(K, k) = Rank(K, m) => k = m
        /\ \A i \in 1 .. Cardinality(K) : \E k \in K : Rank(K, k) = i
  <1> DEFINE To(k) == {j \in K : j <= k}
  <1>1. IsFiniteSet(K) /\ Cardinality(K) \in Nat
    <2>1. IsFiniteSet(1 .. n)
      BY FS_Interval
    <2>2. IsFiniteSet(K)
      BY <2>1, FS_Subset
    <2>3. QED BY <2>2, FS_CardinalityType
  <1>2. \A k : IsFiniteSet(To(k)) /\ Cardinality(To(k)) \in Nat
               /\ Cardinality(To(k)) <= Cardinality(K)
    BY <1>1, FS_Subset, FS_CardinalityType
  <1>3. \A k : Rank(K, k) = Cardinality(To(k))
    BY DEF Rank
  <1>4. \A k \in K : Rank(K, k) \in 1 .. Cardinality(K)
    <2>1. ASSUME NEW k \in K PROVE Cardinality(To(k)) # 0
      <3>1. k \in Int
        OBVIOUS
      <3>2. k \in To(k)
        BY <3>1
      <3> HIDE DEF To
      <3>3. QED BY <1>2, <3>2, FS_EmptySet
    <2> HIDE DEF To
    <2>2. QED BY <1>1, <1>2, <1>3, <2>1
  <1>5. ASSUME NEW k \in K, NEW m \in K, k < m PROVE Rank(K, k) # Rank(K, m)
    <2>1. \A j \in K : j \in Int
      OBVIOUS
    <2>2. To(k) \subseteq To(m) /\ m \in To(m) /\ m \notin To(k)
      <3>1. k \in Int /\ m \in Int /\ m <= m /\ ~ (m <= k)
        BY <1>5, <2>1
      <3>2. \A j \in K : j <= k => j <= m
        BY <1>5, <2>1, <3>1
      <3>3. QED BY <3>1, <3>2
    <2> HIDE DEF To
    <2>3. Cardinality(To(m)) # Cardinality(To(k))
      BY <1>2, <2>2, FS_Subset
    <2>4. QED BY <1>3, <2>3
  <1>6. \A k, m \in K : Rank(K, k) = Rank(K, m) => k = m
    <2> SUFFICES ASSUME NEW k \in K, NEW m \in K, k # m
                 PROVE Rank(K, k) # Rank(K, m)
      OBVIOUS
    <2>1. k < m \/ m < k
      OBVIOUS
    <2>2. QED BY <1>5, <2>1
  <1> DEFINE r == [k \in K |-> Rank(K, k)]
  <1>7. r \in Injection(K, 1 .. Cardinality(K))
    BY <1>4, <1>6 DEF Injection, IsInjective
  <1>8. \A k \in K : r[k] = Rank(K, k)
    OBVIOUS
  <1> HIDE DEF r
  <1>9. /\ IsFiniteSet(1 .. Cardinality(K))
        /\ Cardinality(1 .. Cardinality(K)) = Cardinality(K)
    BY <1>1, FS_Interval
  <1>10. r \in Surjection(K, 1 .. Cardinality(K))
    BY <1>7, <1>9, FS_Injection
  <1>11. \A i \in 1 .. Cardinality(K) : \E k \in K : Rank(K, k) = i
    BY <1>8, <1>10 DEF Surjection
  <1>12. QED BY <1>1, <1>4, <1>6, <1>11

(* A list without the TDs of the urbs in U has those of all others, and    *)
(* nothing new.                                                            *)
LEMMA CountWithout ==
  ASSUME NEW s \in Seq(Td), NEW U
  PROVE /\ Without(s, U) \in Seq(Td)
        /\ \A u : Count(Without(s, U), u) = IF u \in U THEN 0 ELSE Count(s, u)
        /\ \A i \in DOMAIN Without(s, U) : \E j \in DOMAIN s : Without(s, U)[i] = s[j]
  <1> DEFINE K == {i \in DOMAIN s : s[i].urb \notin U}
             n == Cardinality(K)
             g == [i \in 1 .. n |-> CHOOSE k \in K : Rank(K, k) = i]
             w == [i \in 1 .. n |-> s[g[i]]]
  <1>1. K \in SUBSET (1 .. Len(s)) /\ Len(s) \in Nat
    OBVIOUS
  <1>2. Without(s, U) = w
    BY DEF Without, Picked
  <1>3. \A k \in K : k \in DOMAIN s /\ s[k] \in Td /\ s[k].urb \notin U
    OBVIOUS
  <1>4. \A k \in DOMAIN s : s[k].urb \notin U => k \in K
    OBVIOUS
  <1> HIDE DEF K
  <1>5. /\ n \in Nat
        /\ \A k \in K : Rank(K, k) \in 1 .. n
        /\ \A k, m \in K : Rank(K, k) = Rank(K, m) => k = m
        /\ \A i \in 1 .. n : \E k \in K : Rank(K, k) = i
    BY <1>1, RankNat
  <1> HIDE DEF n
  <1>6. \A i \in 1 .. n : g[i] \in K /\ Rank(K, g[i]) = i
    BY <1>5
  <1>7. \A k \in K : g[Rank(K, k)] = k
    BY <1>5, <1>6
  <1> HIDE DEF g
  <1>8. w \in Seq(Td) /\ DOMAIN w = 1 .. n /\ \A i \in 1 .. n : w[i] = s[g[i]]
    <2>1. \A i \in 1 .. n : s[g[i]] \in Td
      BY <1>3, <1>6
    <2>2. QED BY <1>5, <2>1
  <1> HIDE DEF w
  <1>9. ASSUME NEW u, u \in U PROVE Count(w, u) = 0
    <2>1. \A i \in DOMAIN w : w[i].urb # u
      BY <1>3, <1>6, <1>8, <1>9
    <2>2. QED BY <1>8, <2>1, CountNat
  <1>10. ASSUME NEW u, u \notin U PROVE Count(w, u) = Count(s, u)
    <2> DEFINE f == [i \in Spots(w, u) |-> g[i]]
    <2>1. \A i \in Spots(w, u) : i \in 1 .. n /\ w[i].urb = u
      BY <1>8 DEF Spots
    <2>2. f \in [Spots(w, u) -> Spots(s, u)]
      BY <1>3, <1>6, <1>8, <2>1 DEF Spots
    <2>3. \A i, j \in Spots(w, u) : f[i] = f[j] => i = j
      BY <1>6, <2>1
    <2>4. ASSUME NEW k \in Spots(s, u) PROVE \E i \in Spots(w, u) : f[i] = k
      <3>1. k \in K /\ s[k].urb = u
        BY <1>4, <1>10 DEF Spots
      <3>2. Rank(K, k) \in 1 .. n /\ g[Rank(K, k)] = k
        BY <1>5, <1>7, <3>1
      <3>3. Rank(K, k) \in Spots(w, u)
        BY <1>8, <3>1, <3>2 DEF Spots
      <3>4. QED BY <3>2, <3>3
    <2> HIDE DEF f
    <2>5. QED BY <1>8, <2>2, <2>3, <2>4, CountSame
  <1>11. \A i \in DOMAIN w : \E j \in DOMAIN s : w[i] = s[j]
    BY <1>3, <1>6, <1>8
  <1>12. QED BY <1>2, <1>8, <1>9, <1>10, <1>11

-----------------------------------------------------------------------------
(* The inductive invariant.                                                *)

Statuses == {"none", "pending", "ok", "error", "unlinked", "reset"}

TdTypes ==
  /\ state \in [Eds -> SUBSET Bits] /\ queue \in [Eds -> Seq(Td)]
  /\ hcpriv \in [Urbs -> 0 .. 1] /\ urb_del \in [Urbs -> 0 .. 1]
  /\ td_cnt \in [Urbs -> Nat] /\ use \in [Urbs -> Int]
  /\ status \in [Urbs -> Statuses]
  /\ hc_done \in Seq(Td) /\ done_head \in Seq(Td) /\ td_list \in Seq(Td)
  /\ disabled \in 0 .. 1 /\ wdh \in 0 .. 1 /\ freed \in 0 .. 1
  /\ frame \in Frames /\ ed_rm_list \in [Frames -> SUBSET Eds]
  /\ pc \in [Procs -> Places] /\ target \in [Procs -> Urbs \cup {NoUrb}]

(* A process is at pc with urb u.                                          *)
At(p, place, u) == pc[p] = place /\ target[p] = u
Submitting(u) == \E p \in Procs : \/ At(p, "add", u) \/ At(p, "alloc", u)
                                 \/ At(p, "link", u)
Unlinking(u) == \/ \E p \in Procs : At(p, "request", u) \/ At(p, "sleep", u)
                \/ irq = "spin" /\ spin.urb = u
Completing(u) == irq \in {"complete", "spin", "after"} /\ cur = u

(* An urb has at most one owner, a process or the handler that waits for   *)
(* it; who is about nothing, or frees the device, owns none.               *)
OneOwner ==
  /\ \A p, q \in Procs : target[p] # NoUrb /\ target[p] = target[q] => p = q
  /\ \A p \in Procs : target[p] = NoUrb <=> pc[p] \in {"idle", "freeing", "freewait"}
  /\ irq = "spin" => /\ spin.urb \in Urbs \ AsyncUnlink
                     /\ urb_del[spin.urb] = 1 /\ Unowned(spin.urb)

(* Where its owner is tells how far the urb has come.                      *)
Owned(u) ==
  \A p \in Procs :
    /\ At(p, "add", u) \/ At(p, "alloc", u) => hcpriv[u] = 0
    /\ At(p, "link", u) => hcpriv[u] = 1 /\ td_cnt[u] = 0 /\ urb_del[u] = 0
    /\ At(p, "mark", u) => urb_del[u] = 0
    /\ At(p, "request", u) \/ At(p, "sleep", u) \/ At(p, "async", u) => urb_del[u] = 1
    /\ At(p, "sleep", u) => u \notin AsyncUnlink

(* The lists change hands empty, and who completes has an urb.             *)
Handed ==
  /\ irq = "off" => td_list = <<>> /\ ints = {}
  /\ irq \in {"complete", "spin", "after"} => cur \in Urbs
  /\ wdh = 0 => done_head = <<>>
  /\ "WDH" \in ints => wdh = 1 /\ done_head = <<>>

(* The TDs of a queue are its endpoint's.                                  *)
AtHome == \A e \in Eds : \A i \in DOMAIN queue[e] : EdOf[queue[e][i].urb] = e

(* Those still out and those counted make up the length, hung or not; an   *)
(* urb that is not queued has none out, and one that is done with has none.*)
Accounted(u) ==
  /\ Queued(u) => Outstanding(u) + td_cnt[u] = Length[u]
  /\ ~ Queued(u) /\ (disabled = 0 \/ Submitting(u)) => Outstanding(u) = 0
  /\ disabled = 0 /\ Queued(u) /\ urb_del[u] = 0 /\ status[u] # "pending" =>
        Outstanding(u) = 0
  /\ Completing(u) /\ u \in Requeued =>
        /\ irq = "complete" => hcpriv[u] = 1
        /\ hcpriv[u] = 1 => Queued(u) /\ td_cnt[u] = Length[u]

(* Nothing is under way on a device that is freed.                         *)
Quiet(u) == freed = 1 => ~ Submitting(u) /\ (hcpriv[u] = 1 => urb_del[u] = 1)
DelWhenFreed == \A e \in Eds : "DEL" \in state[e] => freed = 1

(* A use of the device that is still to be given back.                     *)
Holding(u) ==
  \/ Submitting(u)
  \/ hcpriv[u] = 1 /\ urb_del[u] = 0
  \/ u \notin AsyncUnlink /\ urb_del[u] = 1 /\ Unlinking(u)
  \/ u \in AsyncUnlink /\ urb_del[u] = 1 /\ hcpriv[u] = 1
Held(u) == use[u] >= IF Holding(u) THEN 1 ELSE 0

(* dl_del_list gives back the use of an asynchronously unlinked urb for    *)
(* each of its TDs: it is given back once if the urb has but one.          *)
ShortAsync == \A u \in AsyncUnlink : Length[u] = 1

UrbOk(u) == Owned(u) /\ Accounted(u) /\ Quiet(u) /\ (ShortAsync => Held(u))
DeviceOk == OneOwner /\ Handed /\ AtHome /\ DelWhenFreed
TdInv == TdTypes /\ (Alive => DeviceOk /\ \A u \in Urbs : UrbOk(u))

-----------------------------------------------------------------------------
(* What a step leaves of an urb it is not about.                           *)

SameOwner(u) == \A p \in Procs : \A place : At(p, place, u)' <=> At(p, place, u)

(* The TDs that are out are a number, in each place.                       *)
LEMMA OutNat ==
  ASSUME TdTypes, NEW u \in Urbs
  PROVE /\ Outstanding(u) \in Nat
        /\ Count(queue[EdOf[u]], u) \in Nat /\ Count(hc_done, u) \in Nat
        /\ Count(done_head, u) \in Nat /\ Count(td_list, u) \in Nat
        /\ queue[EdOf[u]] \in Seq(Td)
  <1>1. queue[EdOf[u]] \in Seq(Td)
    BY ConfigAssumption DEF TdTypes
  <1>2. /\ Count(queue[EdOf[u]], u) \in Nat /\ Count(hc_done, u) \in Nat
        /\ Count(done_head, u) \in Nat /\ Count(td_list, u) \in Nat
    BY <1>1, CountNat DEF TdTypes
  <1>3. QED BY <1>1, <1>2 DEF Outstanding

(* Lists that stay leave what is out.                                      *)
LEMMA OutSame ==
  ASSUME UNCHANGED <<queue, hc_done, done_head, td_list>>, NEW u
  PROVE Outstanding(u)' = Outstanding(u)
  BY DEF Outstanding

(* Who owns an urb decides whether it is being submitted or taken back.    *)
LEMMA OwnerDecides ==
  ASSUME NEW u, SameOwner(u)
  PROVE /\ Submitting(u)' <=> Submitting(u)
        /\ hcpriv'[u] = hcpriv[u] => (Queued(u)' <=> Queued(u))
        /\ ~ (irq' = "spin" /\ spin'.urb = u) => (Unlinking(u)' => Unlinking(u))
  <1>1. Submitting(u)' <=> Submitting(u)
    BY DEF Submitting, SameOwner
  <1>2. hcpriv'[u] = hcpriv[u] => (Queued(u)' <=> Queued(u))
    BY DEF Queued, SameOwner, At
  <1>3. ~ (irq' = "spin" /\ spin'.urb = u) => (Unlinking(u)' => Unlinking(u))
    BY DEF Unlinking, SameOwner
  <1>4. QED BY <1>1, <1>2, <1>3

(* Processes that stay own what they owned.                                *)
LEMMA ProcsSame ==
  ASSUME UNCHANGED <<pc, target>>, NEW u
  PROVE SameOwner(u)
  BY DEF SameOwner, At

(* The urb stays as it is.                                                 *)
LEMMA UrbStays ==
  ASSUME NEW u \in Urbs, TdTypes, TdTypes', UrbOk(u), SameOwner(u),
         Outstanding(u)' = Outstanding(u),
         hcpriv'[u] = hcpriv[u], td_cnt'[u] = td_cnt[u], urb_del'[u] = urb_del[u],
         use'[u] >= use[u],
         status'[u] \in {status[u], "pending"} \/ urb_del[u] = 1,
         disabled' = 0 => disabled = 0, freed' = 1 => freed = 1,
         irq' = "spin" /\ spin'.urb = u => irq = "spin" /\ spin.urb = u,
         Completing(u)' => Completing(u) /\ (irq' = "complete" => irq = "complete")
  PROVE UrbOk(u)'
  <1>1. /\ Submitting(u)' <=> Submitting(u)
        /\ Queued(u)' <=> Queued(u)
        /\ Unlinking(u)' => Unlinking(u)
    BY OwnerDecides DEF Unlinking
  <1>2. Owned(u)'
    BY DEF UrbOk, Owned, SameOwner
  <1>3. Accounted(u)'
    BY <1>1 DEF UrbOk, Accounted
  <1>4. Quiet(u)'
    BY <1>1 DEF UrbOk, Quiet
  <1>5. Holding(u)' => Holding(u)
    BY <1>1 DEF Holding
  <1>6. ShortAsync => Held(u)'
    BY <1>5 DEF UrbOk, Held, TdTypes
  <1>7. QED BY <1>2, <1>3, <1>4, <1>6 DEF UrbOk

-----------------------------------------------------------------------------
(* Types.                                                                  *)

(* dl_del_list.                                                            *)
LEMMA DeleteTypes ==
  ASSUME TdTypes, NEW f \in Frames, DlDelList(f)
  PROVE /\ state' \in [Eds -> SUBSET Bits] /\ queue' \in [Eds -> Seq(Td)]
        /\ hcpriv' \in [Urbs -> 0 .. 1] /\ td_cnt' \in [Urbs -> Nat]
        /\ use' \in [Urbs -> Int] /\ urb_del' = urb_del
        /\ status' \in [Urbs -> Statuses]
        /\ ed_rm_list' \in [Frames -> SUBSET Eds]
  <1> DEFINE S == ed_rm_list[f]
             Doomed == {u \in Urbs : urb_del[u] = 1 \/ "DEL" \in state[EdOf[u]]}
             Gone(u) == IF EdOf[u] \in S /\ u \in Doomed
                        THEN Count(queue[EdOf[u]], u) ELSE 0
  <1>1. \A u \in Urbs : Gone(u) \in Nat
    BY OutNat
  <1>2. \A e \in Eds : /\ queue[e] \in Seq(Td) /\ Without(queue[e], Doomed) \in Seq(Td)
                       /\ state[e] \in SUBSET Bits
    BY CountWithout DEF TdTypes
  <1>3. /\ queue' = [e \in Eds |-> IF e \in S THEN Without(queue[e], Doomed) ELSE queue[e]]
        /\ td_cnt' = [u \in Urbs |-> td_cnt[u] + Gone(u)]
        /\ hcpriv' = [u \in Urbs |-> IF Gone(u) > 0 /\ LastTd(u, td_cnt[u] + Gone(u))
                                     THEN 0 ELSE hcpriv[u]]
        /\ use' = [u \in Urbs |-> IF u \in AsyncUnlink THEN use[u] - Gone(u) ELSE use[u]]
        /\ status' = [u \in Urbs |-> IF u \in AsyncUnlink /\ Gone(u) > 0
                                     THEN "reset" ELSE status[u]]
        /\ state' = [e \in Eds |-> IF e \in S THEN RequestDone(e) ELSE state[e]]
        /\ ed_rm_list' = [ed_rm_list EXCEPT ![f] = {}]
        /\ urb_del' = urb_del
    BY DEF DlDelList
  <1> HIDE DEF Gone, Doomed, S
  <1>4. queue' \in [Eds -> Seq(Td)]
    BY <1>2, <1>3
  <1>5. td_cnt' \in [Urbs -> Nat] /\ use' \in [Urbs -> Int]
    BY <1>1, <1>3 DEF TdTypes
  <1>6. hcpriv' \in [Urbs -> 0 .. 1]
    BY <1>3 DEF TdTypes
  <1>7. state' \in [Eds -> SUBSET Bits]
    BY <1>2, <1>3 DEF RequestDone
  <1>8. status' \in [Urbs -> Statuses]
    <2>1. "reset" \in Statuses /\ status \in [Urbs -> Statuses]
      BY DEF Statuses, TdTypes
    <2>2. QED BY <1>3, <2>1
  <1>9. ed_rm_list' \in [Frames -> SUBSET Eds]
    BY <1>3 DEF TdTypes
  <1>10. QED BY <1>3, <1>4, <1>5, <1>6, <1>7, <1>8, <1>9

(* The controller's steps.                                                 *)
LEMMA ControllerTypes ==
  ASSUME TdTypes, Frame \/ \E e \in Eds : HcRetire(e)
  PROVE TdTypes'
  <1>1. CASE Frame
    <2>1. hc_done' \in Seq(Td) /\ done_head' \in Seq(Td) /\ wdh' \in 0 .. 1
      <3>1. \/ done_head' = hc_done /\ hc_done' = <<>> /\ wdh' = 1
            \/ UNCHANGED <<done_head, hc_done, wdh>>
        BY <1>1 DEF Frame
      <3>2. <<>> \in Seq(Td)
        BY EmptySeq
      <3>3. hc_done \in Seq(Td) /\ done_head \in Seq(Td) /\ wdh \in 0 .. 1
        BY DEF TdTypes
      <3>4. CASE done_head' = hc_done /\ hc_done' = <<>> /\ wdh' = 1
        BY <3>2, <3>3, <3>4
      <3>5. CASE UNCHANGED <<done_head, hc_done, wdh>>
        BY <3>3, <3>5
      <3>6. QED BY <3>1, <3>4, <3>5
    <2>2. frame' \in Frames
      BY <1>1 DEF Frame, TdTypes, Frames
    <2>3. QED BY <1>1, <2>1, <2>2 DEF Frame, TdTypes, urbVars, procVars, irqVars
  <1>2. ASSUME NEW e \in Eds, HcRetire(e) PROVE TdTypes'
    <2>1. queue[e] \in Seq(Td) /\ queue[e] # <<>>
      BY <1>2 DEF TdTypes, HcRetire, Serves
    <2>2. Tail(queue[e]) \in Seq(Td) /\ Head(queue[e]) \in Td
      BY <2>1, CountTail
    <2>3. PICK err \in 0 .. 1 :
            hc_done' = <<NewTd(Head(queue[e]).urb, Head(queue[e]).index, err)>> \o hc_done
      BY <1>2 DEF HcRetire
    <2>4. NewTd(Head(queue[e]).urb, Head(queue[e]).index, err) \in Td
      BY <2>2 DEF NewTd, Td
    <2>5. hc_done' \in Seq(Td)
      BY <2>3, <2>4, CountOne, CountConcat DEF TdTypes
    <2>6. queue' \in [Eds -> Seq(Td)]
      BY <1>2, <2>2 DEF HcRetire, TdTypes
    <2>7. QED BY <1>2, <2>5, <2>6 DEF HcRetire, TdTypes, urbVars, procVars, irqVars
  <1>3. QED BY <1>1, <1>2

(* What a step may put into the urbs.                                      *)
LEMMA PutTypes ==
  ASSUME TdTypes, NEW u
  PROVE /\ [hcpriv EXCEPT ![u] = 0] \in [Urbs -> 0 .. 1]
        /\ [hcpriv EXCEPT ![u] = 1] \in [Urbs -> 0 .. 1]
        /\ [urb_del EXCEPT ![u] = 0] \in [Urbs -> 0 .. 1]
        /\ [urb_del EXCEPT ![u] = 1] \in [Urbs -> 0 .. 1]
        /\ [td_cnt EXCEPT ![u] = 0] \in [Urbs -> Nat]
        /\ [td_cnt EXCEPT ![u] = @ + 1] \in [Urbs -> Nat]
        /\ [use EXCEPT ![u] = @ + 1] \in [Urbs -> Int]
        /\ [use EXCEPT ![u] = @ - 1] \in [Urbs -> Int]
        /\ \A st \in Statuses : [status EXCEPT ![u] = st] \in [Urbs -> Statuses]
  <1>1. /\ [hcpriv EXCEPT ![u] = 0] \in [Urbs -> 0 .. 1]
        /\ [hcpriv EXCEPT ![u] = 1] \in [Urbs -> 0 .. 1]
        /\ [urb_del EXCEPT ![u] = 0] \in [Urbs -> 0 .. 1]
        /\ [urb_del EXCEPT ![u] = 1] \in [Urbs -> 0 .. 1]
    <2>1. hcpriv \in [Urbs -> 0 .. 1] /\ urb_del \in [Urbs -> 0 .. 1]
      BY DEF TdTypes
    <2>2. 0 \in 0 .. 1 /\ 1 \in 0 .. 1
      OBVIOUS
    <2>3. QED BY <2>1, <2>2
  <1>2. td_cnt \in [Urbs -> Nat] /\ use \in [Urbs -> Int] /\ status \in [Urbs -> Statuses]
    BY DEF TdTypes
  <1>3. /\ [td_cnt EXCEPT ![u] = 0] \in [Urbs -> Nat]
        /\ [td_cnt EXCEPT ![u] = @ + 1] \in [Urbs -> Nat]
    <2>1. \A v \in Urbs : td_cnt[v] + 1 \in Nat
      BY <1>2
    <2>2. QED BY <1>2, <2>1
  <1>4. /\ [use EXCEPT ![u] = @ + 1] \in [Urbs -> Int]
        /\ [use EXCEPT ![u] = @ - 1] \in [Urbs -> Int]
    <2>1. \A v \in Urbs : use[v] + 1 \in Int /\ use[v] - 1 \in Int
      BY <1>2
    <2>2. QED BY <1>2, <2>1
  <1>5. \A st \in Statuses : [status EXCEPT ![u] = st] \in [Urbs -> Statuses]
    BY <1>2
  <1>6. QED BY <1>1, <1>3, <1>4, <1>5

(* Every status an urb may be given is one.                                *)
LEMMA StatusTypes ==
  "none" \in Statuses /\ "pending" \in Statuses /\ "ok" \in Statuses
  /\ "error" \in Statuses /\ "unlinked" \in Statuses /\ "reset" \in Statuses
  BY DEF Statuses

(* An urb that is not active loses its private part.                       *)
LEMMA DropTypes ==
  ASSUME TdTypes, NEW u, DropInactive(u)
  PROVE /\ hcpriv' \in [Urbs -> 0 .. 1] /\ use' \in [Urbs -> Int]
        /\ status' \in [Urbs -> Statuses] /\ UNCHANGED <<td_cnt, urb_del>>
  BY PutTypes, StatusTypes DEF DropInactive, RmPriv, DecUse

(* Types of the EDs' state after the pieces of the operations.             *)
LEMMA PieceTypes ==
  ASSUME TdTypes
  PROVE /\ \A e : UnlinkIdle(e) => state' \in [Eds -> SUBSET Bits] /\ queue' = queue
        /\ \A e : EpAddEd(e) => state' \in [Eds -> SUBSET Bits] /\ queue' = queue
        /\ \A e : SkipNew(e) => state' \in [Eds -> SUBSET Bits] /\ queue' = queue
        /\ \A e : SetUp(e) => state' \in [Eds -> SUBSET Bits]
        /\ \A S \in SUBSET Eds : EpRmEd(S) => ed_rm_list' \in [Frames -> SUBSET Eds]
        /\ \A e \in Eds : RequestUrbDel(e) =>
              /\ state' \in [Eds -> SUBSET Bits] /\ queue' = queue
              /\ ed_rm_list' \in [Frames -> SUBSET Eds]
        /\ \A u \in Urbs : LinkAndQueue(u, EdOf[u]) =>
              /\ state' \in [Eds -> SUBSET Bits] /\ queue' \in [Eds -> Seq(Td)]
              /\ status' = [status EXCEPT ![u] = "pending"]
  <1>1. state \in [Eds -> SUBSET Bits]
    BY DEF TdTypes
  <1>2. {"UNLINK"} \in SUBSET Bits /\ {"OPER"} \in SUBSET Bits
    BY DEF Bits
  <1>3. \A e : UnlinkIdle(e) => state' \in [Eds -> SUBSET Bits] /\ queue' = queue
    BY <1>1, <1>2 DEF UnlinkIdle, EpUnlink
  <1>4. \A e : EpAddEd(e) => state' \in [Eds -> SUBSET Bits] /\ queue' = queue
    BY <1>1, <1>2 DEF EpAddEd, SetUp, Refresh
  <1>9. \A e : SkipNew(e) => state' \in [Eds -> SUBSET Bits] /\ queue' = queue
    BY <1>1 DEF SkipNew
  <1>10. \A e : SetUp(e) => state' \in [Eds -> SUBSET Bits]
    BY <1>1, <1>2 DEF SetUp
  <1>5. \A S \in SUBSET Eds : EpRmEd(S) => ed_rm_list' \in [Frames -> SUBSET Eds]
    <2> SUFFICES ASSUME NEW S \in SUBSET Eds, EpRmEd(S)
                 PROVE ed_rm_list' \in [Frames -> SUBSET Eds]
      OBVIOUS
    <2>1. PICK New \in SUBSET Eds : ed_rm_list' = [ed_rm_list EXCEPT ![frame] = @ \cup New]
      BY DEF EpRmEd, RmFrame
    <2>2. QED BY <2>1 DEF TdTypes
  <1>6. \A e \in Eds : RequestUrbDel(e) =>
              /\ state' \in [Eds -> SUBSET Bits] /\ queue' = queue
              /\ ed_rm_list' \in [Frames -> SUBSET Eds]
    BY <1>1, <1>5 DEF RequestUrbDel, Bits
  <1>7. ASSUME NEW u \in Urbs, LinkAndQueue(u, EdOf[u])
        PROVE /\ state' \in [Eds -> SUBSET Bits] /\ queue' \in [Eds -> Seq(Td)]
              /\ status' = [status EXCEPT ![u] = "pending"]
    <2>1. queue[EdOf[u]] \o Tds(u) \in Seq(Td)
      BY OutNat, CountTds, CountConcat
    <2>2. queue' = [queue EXCEPT ![EdOf[u]] = @ \o Tds(u)]
      BY <1>7 DEF LinkAndQueue
    <2>3. QED BY <1>1, <1>2, <1>7, <2>1, <2>2 DEF LinkAndQueue, EpLink, TdTypes
  <1>8. QED BY <1>3, <1>4, <1>5, <1>6, <1>7, <1>9, <1>10

(* The handler's steps.                                                    *)
LEMMA HandlerTypes ==
  ASSUME TdTypes, Alive => Handed, Irq
  PROVE TdTypes'
  <1> USE DEF hcVars, procVars, urbVars, edVars, irqVars
  <1>1. CASE IrqEnter
    <2>1. \A U : [e \in Eds |-> Without(queue[e], U)] \in [Eds -> Seq(Td)]
      BY CountWithout DEF TdTypes
    <2>2. queue' \in [Eds -> Seq(Td)]
      BY <1>1, <2>1 DEF IrqEnter
    <2>3. td_cnt' \in [Urbs -> Nat]
      <3> DEFINE Bad == {t \in ToSet(done_head) : t.err = 1 /\ halted[EdOf[t.urb]] = 1}
                 Cut == {t \in Bad : hcpriv[t.urb] = 1 /\ t.index + 1 < Length[t.urb]}
                 Skipped == {t.urb : t \in Cut}
      <3>1. td_cnt' = [u \in Urbs |-> IF u \in Skipped
                         THEN td_cnt[u] + RestOf(CHOOSE t \in Cut : t.urb = u)
                         ELSE td_cnt[u]]
        BY <1>1 DEF IrqEnter
      <3>2. \A t \in Cut : t \in Td /\ t.index + 1 < Length[t.urb]
        BY DEF TdTypes, ToSet
      <3>3. \A t \in Cut : RestOf(t) \in Nat
        BY <3>2, ConfigAssumption DEF RestOf, Td
      <3>4. \A u \in Skipped : (CHOOSE t \in Cut : t.urb = u) \in Cut
        OBVIOUS
      <3> HIDE DEF Cut, Skipped
      <3>5. td_cnt \in [Urbs -> Nat]
        BY DEF TdTypes
      <3>6. QED BY <3>1, <3>3, <3>4, <3>5
    <2>4. td_list' \in Seq(Td) /\ done_head' \in Seq(Td)
      BY <1>1, CountReverse, EmptySeq DEF IrqEnter, InOrder, TdTypes
    <2>5. /\ disabled' \in 0 .. 1
          /\ UNCHANGED <<state, hcpriv, urb_del, use, status, hc_done, wdh, freed,
                         frame, ed_rm_list, pc, target>>
      BY <1>1 DEF IrqEnter, TdTypes
    <2>6. QED BY <2>2, <2>3, <2>4, <2>5 DEF TdTypes
  <1>2. CASE DoneTd \/ DoneDeleted \/ DoneLast
    <2>1. DoneStep
      BY <1>2 DEF DoneTd, DoneDeleted, DoneLast
    <2>2. td_list' \in Seq(Td)
      BY <2>1, CountTail DEF DoneStep, TdTypes
    <2>3. state' \in [Eds -> SUBSET Bits] /\ queue' = queue
      BY <1>2, PieceTypes DEF DoneTd, DoneDeleted, DoneLast, TdTypes
    <2>4. td_cnt' \in [Urbs -> Nat]
      <3>1. \E u : td_cnt' = [td_cnt EXCEPT ![u] = @ + 1]
        BY <1>2 DEF DoneTd, DoneDeleted, DoneLast
      <3>2. QED BY <3>1, PutTypes
    <2>5. hcpriv' \in [Urbs -> 0 .. 1] /\ use' \in [Urbs -> Int]
      <3>1. /\ hcpriv' = hcpriv \/ hcpriv' = [hcpriv EXCEPT ![DoneUrb] = 0]
            /\ use' = use \/ use' = [use EXCEPT ![DoneUrb] = @ - 1]
        BY <1>2 DEF DoneTd, DoneDeleted, DoneLast, RmPriv, DecUse, FreeDeleted
      <3>2. hcpriv \in [Urbs -> 0 .. 1] /\ use \in [Urbs -> Int]
        BY DEF TdTypes
      <3>3. QED BY <3>1, <3>2, PutTypes
    <2>6. status' \in [Urbs -> Statuses]
      <3>1. \/ status' = status
            \/ status' = [status EXCEPT ![DoneUrb] = IF Head(td_list).err = 1
                                                     THEN "error" ELSE "ok"]
        BY <1>2 DEF DoneTd, DoneDeleted, DoneLast
      <3>2. (IF Head(td_list).err = 1 THEN "error" ELSE "ok") \in Statuses
        BY StatusTypes
      <3>3. status \in [Urbs -> Statuses]
        BY DEF TdTypes
      <3>4. QED BY <3>1, <3>2, <3>3, PutTypes
    <2>7. QED BY <2>1, <2>2, <2>3, <2>4, <2>5, <2>6 DEF DoneStep, TdTypes
  <1>3. CASE DoneOrphan \/ AfterDropped \/ CompleteOnly
    BY <1>3 DEF DoneOrphan, AfterDropped, CompleteOnly, Fails, TdTypes
  <1>4. CASE CompleteSubmit
    <2>1. PICK u \in Urbs :
            /\ use' = [use EXCEPT ![u] = @ + 1]
            /\ hcpriv' = [hcpriv EXCEPT ![u] = 1]
            /\ td_cnt' = [td_cnt EXCEPT ![u] = 0]
            /\ urb_del' = [urb_del EXCEPT ![u] = 0]
            /\ LinkAndQueue(u, EdOf[u])
      BY <1>4 DEF CompleteSubmit
    <2>2. /\ state' \in [Eds -> SUBSET Bits] /\ queue' \in [Eds -> Seq(Td)]
          /\ status' = [status EXCEPT ![u] = "pending"]
      BY <2>1, PieceTypes
    <2>3. /\ hcpriv' \in [Urbs -> 0 .. 1] /\ urb_del' \in [Urbs -> 0 .. 1]
          /\ td_cnt' \in [Urbs -> Nat] /\ use' \in [Urbs -> Int]
      BY <2>1, PutTypes
    <2>4. status' \in [Urbs -> Statuses]
      BY <2>2, PutTypes, StatusTypes
    <2>5. QED BY <1>4, <2>2, <2>3, <2>4 DEF CompleteSubmit, TdTypes
  <1>5. CASE CompleteSubmitFails
    <2>1. state' \in [Eds -> SUBSET Bits] /\ queue' = queue
      BY <1>5, PieceTypes DEF CompleteSubmitFails
    <2>2. QED BY <1>5, <2>1 DEF CompleteSubmitFails, TdTypes
  <1>6. CASE CompleteDrop
    <2>1. PICK u \in Urbs : DropInactive(u)
      BY <1>6 DEF CompleteDrop
    <2>2. QED BY <1>6, <2>1, DropTypes DEF CompleteDrop, TdTypes
  <1>7. CASE CompleteUnlink
    <2>1. PICK u \in Urbs : urb_del' = [urb_del EXCEPT ![u] = 1] /\ RequestUrbDel(EdOf[u])
      BY <1>7 DEF CompleteUnlink
    <2>2. /\ state' \in [Eds -> SUBSET Bits] /\ queue' = queue
          /\ ed_rm_list' \in [Frames -> SUBSET Eds]
      BY <2>1, PieceTypes, ConfigAssumption
    <2>3. QED BY <1>7, <2>1, <2>2 DEF CompleteUnlink, TdTypes
  <1>8. CASE SpinFrame \/ IrqEnd
    <2>1. 1 - frame \in Frames
      BY DEF TdTypes, Frames
    <2>2. DlDelList(1 - frame) \/ NothingDeleted
      BY <1>8 DEF SpinFrame, IrqEnd, DelFrame
    <2>3. /\ state' \in [Eds -> SUBSET Bits] /\ queue' \in [Eds -> Seq(Td)]
          /\ hcpriv' \in [Urbs -> 0 .. 1] /\ td_cnt' \in [Urbs -> Nat]
          /\ use' \in [Urbs -> Int] /\ urb_del' = urb_del
          /\ status' \in [Urbs -> Statuses]
          /\ ed_rm_list' \in [Frames -> SUBSET Eds]
      BY <2>1, <2>2, DeleteTypes DEF NothingDeleted, TdTypes
    <2>4. wdh' \in 0 .. 1 /\ UNCHANGED <<hc_done, done_head, td_list, disabled, freed,
                                          frame, pc, target>>
      BY <1>8 DEF SpinFrame, IrqEnd, TdTypes
    <2>5. QED BY <2>3, <2>4 DEF TdTypes
  <1>9. CASE SpinEnd
    <2>1. use' \in [Urbs -> Int] /\ status' \in [Urbs -> Statuses]
      BY <1>9, PutTypes, StatusTypes DEF SpinEnd, DecUse
    <2>2. QED BY <1>9, <2>1 DEF SpinEnd, TdTypes
  <1>10. CASE AfterComplete
    <2>1. cur \in Urbs
      BY <1>10 DEF AfterComplete, Handed
    <2>2. /\ queue[EdOf[cur]] \o Tds(cur) \in Seq(Td)
      BY <2>1, OutNat, CountTds, CountConcat
    <2>3. \/ UnlinkIdle(EdOf[cur])
          \/ state' = state /\ queue' = [queue EXCEPT ![EdOf[cur]] = @ \o Tds(cur)]
      BY <1>10 DEF AfterComplete
    <2>4. state' \in [Eds -> SUBSET Bits] /\ queue' \in [Eds -> Seq(Td)]
      BY <2>2, <2>3, PieceTypes DEF TdTypes
    <2>5. td_cnt' \in [Urbs -> Nat]
      <3>1. td_cnt' = td_cnt \/ td_cnt' = [td_cnt EXCEPT ![cur] = 0]
        BY <1>10 DEF AfterComplete, CountAnew
      <3>2. QED BY <3>1, PutTypes DEF TdTypes
    <2>6. status' \in [Urbs -> Statuses]
      BY <1>10, PutTypes, StatusTypes, ZenonT(30) DEF AfterComplete, TdTypes
    <2>7. QED BY <1>10, <2>4, <2>5, <2>6 DEF AfterComplete, TdTypes
  <1>11. CASE SpinBegin
    BY <1>11 DEF SpinBegin, TdTypes
  <1>12. QED
    BY <1>1, <1>2, <1>3, <1>4, <1>5, <1>6, <1>7, <1>8, <1>9, <1>10, <1>11 DEF Irq

(* The steps of the processes.                                             *)
LEMMA ProcTypes ==
  ASSUME TdTypes, Alive => OneOwner, NEW p \in Procs, Proc(p)
  PROVE TdTypes'
  <1> USE DEF hcVars, procVars, urbVars, edVars, irqVars
  <1>0. AimTypes
    BY DEF AimTypes, TdTypes
  <1>1. pc' \in [Procs -> Places] /\ target' \in [Procs -> Urbs \cup {NoUrb}]
    <2>1. \/ SubmitBegin(p) \/ SubmitSetUp(p) \/ SubmitTwice(p)
          \/ SubmitAlloc(p) \/ SubmitFails(p) \/ SubmitLink(p)
          \/ UnlinkBegin(p) \/ UnlinkStale(p) \/ UnlinkMark(p) \/ UnlinkRequest(p)
          \/ UnlinkAsync(p) \/ UnlinkEnd(p) \/ FreeDev(p) \/ FreeWait(p) \/ FreeEnd(p)
      BY DEF Proc
    <2>2. \/ pc' = pc
          \/ \E to \in {"idle", "add", "alloc", "link", "mark", "request", "async",
                        "sleep", "freeing", "freewait"} : pc' = [pc EXCEPT ![p] = to]
      BY <2>1 DEF SubmitBegin, SubmitSetUp, SubmitTwice, SubmitAlloc, SubmitFails,
         SubmitLink, UnlinkBegin,
         UnlinkStale, UnlinkMark, UnlinkRequest, UnlinkAsync, UnlinkEnd, FreeDev,
         FreeWait, FreeEnd, Goto, Fails
    <2>3. target' = target \/ \E u \in Urbs \cup {NoUrb} : target' = [target EXCEPT ![p] = u]
      BY <2>1 DEF SubmitBegin, SubmitSetUp, SubmitTwice, SubmitAlloc, SubmitFails,
         SubmitLink, UnlinkBegin,
         UnlinkStale, UnlinkMark, UnlinkRequest, UnlinkAsync, UnlinkEnd, FreeDev,
         FreeWait, FreeEnd, Goto, Fails, Take, Release
    <2>4. QED BY <2>2, <2>3 DEF TdTypes, Places
  <1>2. CASE SubmitBegin(p)
    <2>0. PICK u \in Urbs : /\ SkipNew(EdOf[u]) \/ EpAddEd(EdOf[u])
                            /\ use' = [use EXCEPT ![u] = @ + 1]
      BY <1>2 DEF SubmitBegin
    <2>1. state' \in [Eds -> SUBSET Bits] /\ queue' = queue
      BY <2>0, PieceTypes
    <2>2. use' \in [Urbs -> Int]
      BY <2>0 DEF TdTypes
    <2>3. QED BY <1>1, <1>2, <2>1, <2>2 DEF SubmitBegin, TdTypes
  <1>3. CASE SubmitAlloc(p)
    <2>1. /\ hcpriv' \in [Urbs -> 0 .. 1] /\ urb_del' \in [Urbs -> 0 .. 1]
          /\ td_cnt' \in [Urbs -> Nat]
      BY <1>3, PutTypes DEF SubmitAlloc
    <2>2. QED BY <1>1, <1>3, <2>1 DEF SubmitAlloc, TdTypes
  <1>4. CASE SubmitFails(p)
    <2>1. hcpriv' \in [Urbs -> 0 .. 1] /\ use' \in [Urbs -> Int]
      BY <1>4, PutTypes DEF SubmitFails, UndoSubmit, DecUse, RmPriv
    <2>2. QED BY <1>1, <1>4, <2>1 DEF SubmitFails, TdTypes
  <1>5. CASE SubmitLink(p)
    <2>1. target[p] \in Urbs
      BY <1>5 DEF SubmitLink, Goto, Runs, OneOwner, TdTypes
    <2>2. \/ UndoSubmit(target[p]) /\ UNCHANGED <<edVars, status>>
          \/ LinkAndQueue(target[p], EdOf[target[p]]) /\ UNCHANGED <<hcpriv, use>>
      BY <1>5 DEF SubmitLink
    <2>3. /\ state' \in [Eds -> SUBSET Bits] /\ queue' \in [Eds -> Seq(Td)]
          /\ hcpriv' \in [Urbs -> 0 .. 1] /\ use' \in [Urbs -> Int]
          /\ status' \in [Urbs -> Statuses]
      <3>1. CASE UndoSubmit(target[p]) /\ UNCHANGED <<edVars, status>>
        <4>1. hcpriv' \in [Urbs -> 0 .. 1] /\ use' \in [Urbs -> Int]
          BY <3>1, PutTypes DEF UndoSubmit, DecUse, RmPriv
        <4>2. QED BY <3>1, <4>1 DEF TdTypes
      <3>2. CASE LinkAndQueue(target[p], EdOf[target[p]]) /\ UNCHANGED <<hcpriv, use>>
        <4>1. /\ state' \in [Eds -> SUBSET Bits] /\ queue' \in [Eds -> Seq(Td)]
              /\ status' = [status EXCEPT ![target[p]] = "pending"]
          BY <2>1, <3>2, PieceTypes
        <4>2. status' \in [Urbs -> Statuses]
          BY <4>1, PutTypes, StatusTypes
        <4>3. QED BY <3>2, <4>1, <4>2 DEF TdTypes
      <3>3. QED BY <2>2, <3>1, <3>2
    <2>4. QED BY <1>1, <1>5, <2>3 DEF SubmitLink, TdTypes
  <1>6. CASE UnlinkBegin(p) \/ UnlinkStale(p) \/ UnlinkMark(p)
    <2>1. urb_del' \in [Urbs -> 0 .. 1]
      <3>1. urb_del' = urb_del \/ \E u : urb_del' = [urb_del EXCEPT ![u] = 1]
        BY <1>6 DEF UnlinkBegin, UnlinkStale, UnlinkMark, Fails
      <3>2. urb_del \in [Urbs -> 0 .. 1]
        BY DEF TdTypes
      <3>3. QED BY <3>1, <3>2, PutTypes
    <2>2. QED BY <1>1, <1>6, <2>1 DEF UnlinkBegin, UnlinkStale, UnlinkMark, Fails, TdTypes
  <1>7. CASE UnlinkRequest(p)
    <2>1. target[p] \in Urbs
      BY <1>7 DEF UnlinkRequest, Goto, Runs, OneOwner, TdTypes
    <2>2. /\ state' \in [Eds -> SUBSET Bits] /\ queue' = queue
          /\ ed_rm_list' \in [Frames -> SUBSET Eds]
      BY <1>7, <2>1, PieceTypes, ConfigAssumption DEF UnlinkRequest
    <2>3. QED BY <1>1, <1>7, <2>2 DEF UnlinkRequest, TdTypes
  <1>8. CASE UnlinkAsync(p) \/ UnlinkEnd(p)
    <2>1. status' \in [Urbs -> Statuses]
      <3>1. \E u : \E st \in {"pending", "unlinked"} : status' = [status EXCEPT ![u] = st]
        BY <1>8 DEF UnlinkAsync, UnlinkEnd
      <3>2. QED BY <3>1, PutTypes, StatusTypes
    <2>2. use' \in [Urbs -> Int]
      <3>1. use' = use \/ \E u : use' = [use EXCEPT ![u] = @ - 1]
        BY <1>8 DEF UnlinkAsync, UnlinkEnd, DecUse
      <3>2. QED BY <3>1, PutTypes DEF TdTypes
    <2>3. QED BY <1>1, <1>8, <2>1, <2>2 DEF UnlinkAsync, UnlinkEnd, TdTypes
  <1>9. CASE FreeDev(p)
    <2>1. ed_rm_list' \in [Frames -> SUBSET Eds]
      BY <1>9, PieceTypes DEF FreeDev, Used
    <2>2. state' \in [Eds -> SUBSET Bits]
      BY <1>9 DEF FreeDev, TdTypes, Bits
    <2>3. QED BY <1>1, <1>9, <2>1, <2>2 DEF FreeDev, TdTypes
  <1>10. CASE FreeWait(p) \/ FreeEnd(p)
    BY <1>1, <1>10 DEF FreeWait, FreeEnd, TdTypes
  <1>11. CASE SubmitSetUp(p) \/ SubmitTwice(p)
    <2>1. state' \in [Eds -> SUBSET Bits]
      <3>1. CASE SubmitSetUp(p)
        BY <3>1, PieceTypes DEF SubmitSetUp
      <3>2. CASE SubmitTwice(p)
        BY <3>2 DEF SubmitTwice, Fails, TdTypes
      <3>3. QED BY <1>11, <3>1, <3>2
    <2>2. QED BY <1>1, <1>11, <2>1 DEF SubmitSetUp, SubmitTwice, Fails, TdTypes
  <1>12. QED
    BY <1>2, <1>3, <1>4, <1>5, <1>6, <1>7, <1>8, <1>9, <1>10, <1>11 DEF Proc

(* All of them.                                                            *)
LEMMA TypesKeep ==
  ASSUME TdInv, Next
  PROVE TdTypes'
  <1>1. TdTypes /\ Alive /\ OneOwner /\ Handed
    BY StepAlive DEF TdInv, DeviceOk
  <1> USE DEF hcVars, procVars, edVars, irqVars
  <1>2. CASE SubmitShutdown
    <2>1. PICK u \in Urbs : use' = [use EXCEPT ![u] = @ + 1]
      BY <1>2 DEF SubmitShutdown
    <2>2. QED BY <1>1, <1>2, <2>1, PutTypes DEF SubmitShutdown, TdTypes
  <1>3. CASE UnlinkDrop
    <2>1. PICK u \in Urbs : DropInactive(u)
      BY <1>3 DEF UnlinkDrop
    <2>2. QED BY <1>1, <1>3, <2>1, DropTypes DEF UnlinkDrop, TdTypes
  <1>4. QED
    BY <1>1, <1>2, <1>3, ControllerTypes, HandlerTypes, ProcTypes DEF Next

-----------------------------------------------------------------------------
(* The owners.                                                             *)

(* Process p goes to place `to' and then holds v.                          *)
Moves(p, to, v) ==
  pc' = [pc EXCEPT ![p] = to] /\ target' = [target EXCEPT ![p] = v]

(* What a move means for the owners of an urb.                             *)
LEMMA MoveOwners ==
  ASSUME TdTypes, OneOwner, NEW p \in Procs, NEW to, NEW v \in Urbs \cup {NoUrb},
         Moves(p, to, v), v = target[p] \/ v = NoUrb \/ Unowned(v)
  PROVE /\ \A u \in Urbs : u # target[p] /\ u # v => SameOwner(u)
        /\ \A u \in Urbs : u = v =>
              \A q \in Procs : \A place : At(q, place, u)' <=> q = p /\ place = to
        /\ \A u \in Urbs : u = target[p] /\ u # v =>
              \A q \in Procs : \A place : ~ At(q, place, u)'
        /\ \A q, o \in Procs : target'[q] # NoUrb /\ target'[q] = target'[o] => q = o
  <1>1. /\ \A q \in Procs : pc'[q] = IF q = p THEN to ELSE pc[q]
        /\ \A q \in Procs : target'[q] = IF q = p THEN v ELSE target[q]
    BY DEF Moves, TdTypes
  <1>2. \A q, o \in Procs : target[q] # NoUrb /\ target[q] = target[o] => q = o
    BY DEF OneOwner
  <1>3. v # NoUrb => \A q \in Procs : target[q] = v => q = p
    BY <1>2 DEF Unowned
  <1>4. NoUrb \notin Urbs
    BY ConfigAssumption
  <1>5. \A u \in Urbs : u # target[p] /\ u # v => SameOwner(u)
    BY <1>1 DEF SameOwner, At
  <1>6. \A u \in Urbs : u = v =>
          \A q \in Procs : \A place : At(q, place, u)' <=> q = p /\ place = to
    BY <1>1, <1>3, <1>4 DEF At
  <1>7. \A u \in Urbs : u = target[p] /\ u # v =>
          \A q \in Procs : \A place : ~ At(q, place, u)'
    BY <1>1, <1>2, <1>4 DEF At
  <1>8. \A q, o \in Procs : target'[q] # NoUrb /\ target'[q] = target'[o] => q = o
    BY <1>1, <1>2, <1>3
  <1>9. QED BY <1>5, <1>6, <1>7, <1>8

(* Holding the urb it has.                                                 *)
LEMMA MoveStay ==
  ASSUME TdTypes, NEW p \in Procs, NEW to, pc' = [pc EXCEPT ![p] = to], target' = target
  PROVE Moves(p, to, target[p]) /\ target[p] \in Urbs \cup {NoUrb}
  BY DEF Moves, TdTypes

MovesOn(p) ==
  \E to \in Places, v \in Urbs \cup {NoUrb} :
     /\ Moves(p, to, v) /\ (v = target[p] \/ v = NoUrb \/ Unowned(v))
     /\ v = NoUrb <=> to \in {"idle", "freeing", "freewait"}

(* The moves of the processes.                                             *)
LEMMA ProcMove ==
  ASSUME TdTypes, OneOwner, NEW p \in Procs, Proc(p), ~ UnlinkStale(p), ~ SubmitTwice(p)
  PROVE /\ irq = "off" /\ irq' = "off" /\ spin' = spin
        /\ MovesOn(p)
  <1>1. irq = "off" /\ irq' = "off" /\ spin' = spin
    BY DEF Proc, SubmitBegin, SubmitSetUp, SubmitAlloc, SubmitFails, SubmitLink,
       UnlinkBegin, UnlinkMark, UnlinkRequest, UnlinkAsync, UnlinkEnd, FreeDev, FreeWait,
       FreeEnd,
       Goto, Runs, irqVars
  <1>2. target[p] = NoUrb <=> pc[p] \in {"idle", "freeing", "freewait"}
    BY DEF OneOwner
  <1>3. NoUrb \notin Urbs
    BY ConfigAssumption
  <1>0. ASSUME NEW to \in Places, NEW v \in Urbs \cup {NoUrb},
               Moves(p, to, v), v = target[p] \/ v = NoUrb \/ Unowned(v),
               v = NoUrb <=> to \in {"idle", "freeing", "freewait"}
        PROVE MovesOn(p)
    BY <1>0 DEF MovesOn
  <1>4. MovesOn(p)
    <2>1. CASE SubmitBegin(p) \/ UnlinkBegin(p)
      <3>1. \E to \in {"add", "alloc", "mark"} : \E u \in Urbs : Moves(p, to, u) /\ Unowned(u)
        BY <2>1 DEF SubmitBegin, UnlinkBegin, Goto, Take, CanSubmit, CanUnlink, Moves
      <3>2. PICK to \in {"add", "alloc", "mark"}, u \in Urbs : Moves(p, to, u) /\ Unowned(u)
        BY <3>1
      <3>3. to \notin {"idle", "freeing", "freewait"} /\ u # NoUrb /\ to \in Places
        BY <1>3 DEF Places
      <3>4. QED BY <1>0, <3>2, <3>3
    <2>2. CASE SubmitFails(p) \/ SubmitLink(p) \/ UnlinkAsync(p) \/ UnlinkEnd(p)
      <3>1. Moves(p, "idle", NoUrb)
        BY <2>2 DEF SubmitFails, SubmitLink, UnlinkAsync, UnlinkEnd, Goto, Take, Release,
           Moves
      <3>2. "idle" \in Places
        BY DEF Places
      <3>3. QED BY <1>0, <3>1, <3>2
    <2>3. CASE \/ SubmitSetUp(p) \/ SubmitAlloc(p) \/ UnlinkMark(p)
               \/ FreeDev(p) \/ FreeWait(p) \/ FreeEnd(p)
      <3>1. PICK from \in {"add", "alloc", "mark", "idle", "freeing", "freewait"},
                 to \in {"alloc", "link", "request", "freeing", "freewait", "idle"} :
              /\ pc[p] = from /\ pc' = [pc EXCEPT ![p] = to] /\ target' = target
              /\ from \in {"idle", "freeing", "freewait"}
                   <=> to \in {"idle", "freeing", "freewait"}
        BY <2>3 DEF SubmitSetUp, SubmitAlloc, UnlinkMark, FreeDev, FreeWait, FreeEnd, Goto
      <3>2. Moves(p, to, target[p]) /\ target[p] \in Urbs \cup {NoUrb}
        BY <3>1, MoveStay
      <3>3. to \in Places
        BY DEF Places
      <3>4. QED BY <1>0, <1>2, <3>1, <3>2, <3>3
    <2>4. CASE UnlinkRequest(p)
      <3>1. target[p] # NoUrb
        BY <1>2, <2>4 DEF UnlinkRequest
      <3>2. CASE Moves(p, "idle", NoUrb)
        <4>1. "idle" \in Places
          BY DEF Places
        <4>2. QED BY <1>0, <3>2, <4>1
      <3>3. CASE \E to \in {"async", "sleep"} : pc' = [pc EXCEPT ![p] = to] /\ target' = target
        <4>1. PICK to \in {"async", "sleep"} : pc' = [pc EXCEPT ![p] = to] /\ target' = target
          BY <3>3
        <4>2. Moves(p, to, target[p]) /\ target[p] \in Urbs \cup {NoUrb}
          BY <4>1, MoveStay
        <4>3. to \notin {"idle", "freeing", "freewait"} /\ to \in Places
          BY DEF Places
        <4>4. QED BY <1>0, <3>1, <4>2, <4>3
      <3>4. \/ Moves(p, "idle", NoUrb)
            \/ \E to \in {"async", "sleep"} : pc' = [pc EXCEPT ![p] = to] /\ target' = target
        BY <2>4 DEF UnlinkRequest, Goto, Take, Release, Moves
      <3>5. QED BY <3>2, <3>3, <3>4
    <2>5. QED BY <2>1, <2>2, <2>3, <2>4 DEF Proc
  <1>5. QED BY <1>1, <1>4

(* Everybody else leaves the processes alone.                              *)
LEMMA OthersStay ==
  ASSUME Irq \/ Frame \/ (\E e \in Eds : HcRetire(e)) \/ SubmitShutdown \/ UnlinkDrop
  PROVE UNCHANGED <<pc, target>>
  BY OthersKeepAim DEF procVars

(* An urb keeps having one owner.                                          *)
LEMMA OneOwnerKeeps ==
  ASSUME TdInv, Next, Alive'
  PROVE OneOwner'
  <1>1. TdTypes /\ OneOwner /\ Handed
    BY StepAlive DEF TdInv, DeviceOk
  <1>2. CASE \E p \in Procs : Proc(p)
    <2>1. PICK p \in Procs : Proc(p)
      BY <1>2
    <2>2. ~ UnlinkStale(p) /\ ~ SubmitTwice(p)
      BY DEF UnlinkStale, SubmitTwice, Fails, Alive
    <2>3. irq' = "off" /\ MovesOn(p)
      BY <1>1, <2>1, <2>2, ProcMove
    <2>4. PICK to \in Places, v \in Urbs \cup {NoUrb} :
                /\ Moves(p, to, v) /\ (v = target[p] \/ v = NoUrb \/ Unowned(v))
                /\ v = NoUrb <=> to \in {"idle", "freeing", "freewait"}
      BY <2>3 DEF MovesOn
    <2>5. \A q, o \in Procs : target'[q] # NoUrb /\ target'[q] = target'[o] => q = o
      BY <1>1, <2>4, MoveOwners
    <2>6. \A q \in Procs : target'[q] = NoUrb <=> pc'[q] \in {"idle", "freeing", "freewait"}
      BY <1>1, <2>4 DEF Moves, OneOwner, TdTypes
    <2>7. QED BY <2>3, <2>5, <2>6 DEF OneOwner
  <1>3. CASE Irq \/ Frame \/ (\E e \in Eds : HcRetire(e)) \/ SubmitShutdown \/ UnlinkDrop
    <2>1. UNCHANGED <<pc, target>>
      BY <1>3, OthersStay
    <2>2. irq' = "spin" => /\ spin'.urb \in Urbs \ AsyncUnlink
                           /\ urb_del'[spin'.urb] = 1 /\ Unowned(spin'.urb)
      <3>1. CASE CompleteUnlink
        <4>1. PICK u \in Urbs :
                /\ CanUnlink(u)
                /\ urb_del' = [urb_del EXCEPT ![u] = 1]
                /\ IF u \in AsyncUnlink
                   THEN irq' = "after" /\ UNCHANGED spin
                   ELSE irq' = "spin" /\ spin' = [NoSpin EXCEPT !.urb = u]
          BY <3>1 DEF CompleteUnlink
        <4>2. [NoSpin EXCEPT !.urb = u].urb = u
          BY DEF NoSpin
        <4>3. QED BY <1>1, <4>1, <4>2 DEF CanUnlink, TdTypes
      <3>2. CASE Frame \/ (\E e \in Eds : HcRetire(e)) \/ SubmitShutdown \/ UnlinkDrop
        <4>1. irq' = irq /\ spin' = spin /\ urb_del' = urb_del
          BY <3>2 DEF Frame, HcRetire, SubmitShutdown, UnlinkDrop, DropInactive, irqVars,
             urbVars
        <4>2. QED BY <1>1, <4>1 DEF OneOwner
      <3>3. CASE SpinFrame
        <4>1. irq' = irq /\ spin'.urb = spin.urb /\ urb_del' = urb_del
          <5>1. spin' = [spin EXCEPT !.prev = frame, !.count = @ + 1]
            BY <3>3 DEF SpinFrame
          <5>2. spin'.urb = spin.urb
            BY <5>1
          <5>3. QED BY <3>3, <5>2 DEF SpinFrame, DlDelList, NothingDeleted, urbVars
        <4>2. QED BY <1>1, <4>1 DEF OneOwner
      <3>8. CASE SpinBegin
        <4>1. irq' = irq /\ spin'.urb = spin.urb /\ urb_del' = urb_del
          <5>1. spin' = [spin EXCEPT !.off = 1, !.prev = frame]
            BY <3>8 DEF SpinBegin
          <5>2. spin'.urb = spin.urb
            BY <5>1
          <5>3. QED BY <3>8, <5>2 DEF SpinBegin, urbVars
        <4>2. QED BY <1>1, <4>1 DEF OneOwner
      <3>4. CASE IrqEnter \/ IrqEnd \/ SpinEnd \/ AfterComplete \/ AfterDropped
        BY <3>4, StepAlive DEF IrqEnter, IrqEnd, SpinEnd, AfterComplete, AfterDropped,
           Fails, Alive
      <3>5. CASE DoneTd \/ DoneDeleted \/ DoneLast \/ DoneOrphan
        BY <3>5 DEF DoneTd, DoneDeleted, DoneLast, DoneOrphan, DoneStep, Fails, Alive
      <3>6. CASE CompleteOnly \/ CompleteSubmit \/ CompleteSubmitFails \/ CompleteDrop
        BY <3>6 DEF CompleteOnly, CompleteSubmit, CompleteSubmitFails, CompleteDrop
      <3>7. QED BY <1>3, <3>1, <3>2, <3>3, <3>4, <3>5, <3>6, <3>8 DEF Irq
    <2>3. QED BY <1>1, <2>1, <2>2 DEF OneOwner, Unowned
  <1>4. QED BY <1>2, <1>3 DEF Next

-----------------------------------------------------------------------------
(* The lists.                                                              *)

(* The lists change hands empty.                                           *)
LEMMA HandedKeeps ==
  ASSUME TdInv, Next, Alive'
  PROVE Handed'
  <1>1. TdTypes /\ OneOwner /\ Handed
    BY StepAlive DEF TdInv, DeviceOk
  <1> USE DEF hcVars, irqVars, edVars, urbVars, procVars
  <1>2. CASE \E p \in Procs : Proc(p)
    <2>1. PICK p \in Procs : Proc(p)
      BY <1>2
    <2>2. UNCHANGED <<irq, td_list, ints, cur, wdh, done_head>>
      BY <2>1 DEF Proc, SubmitBegin, SubmitSetUp, SubmitTwice, SubmitAlloc, SubmitFails,
         SubmitLink, UnlinkBegin, UnlinkStale, UnlinkMark, UnlinkRequest, UnlinkAsync,
         UnlinkEnd, FreeDev,
         FreeWait, FreeEnd, Fails
    <2>3. QED BY <1>1, <2>2 DEF Handed
  <1>3. CASE (\E e \in Eds : HcRetire(e)) \/ SubmitShutdown \/ UnlinkDrop
    <2>1. UNCHANGED <<irq, td_list, ints, cur, wdh, done_head>>
      BY <1>3 DEF HcRetire, SubmitShutdown, UnlinkDrop
    <2>2. QED BY <1>1, <2>1 DEF Handed
  <1>4. CASE Frame
    <2>1. \/ wdh = 0 /\ wdh' = 1
          \/ UNCHANGED <<wdh, done_head>>
      BY <1>4 DEF Frame
    <2>2. QED BY <1>1, <1>4, <2>1 DEF Frame, Handed
  <1>5. CASE IrqEnter
    <2>1. irq' = "done" /\ done_head' = <<>> /\ wdh' = wdh
          /\ ("WDH" \in ints' => wdh = 1)
      BY <1>5 DEF IrqEnter
    <2>2. QED BY <2>1 DEF Handed
  <1>6. CASE DoneTd \/ DoneDeleted \/ DoneLast
    <2>1. DoneStep
      BY <1>6 DEF DoneTd, DoneDeleted, DoneLast
    <2>2. UNCHANGED <<ints, wdh, done_head>>
      BY <2>1 DEF DoneStep
    <2>3. irq' = "done" \/ (irq' = "complete" /\ cur' = DoneUrb)
      <3>1. irq = "done"
        BY <2>1 DEF DoneStep
      <3>2. DoneTd \/ DoneDeleted => irq' = irq
        BY DEF DoneTd, DoneDeleted
      <3>3. DoneLast => irq' = "complete" /\ cur' = DoneUrb
        BY DEF DoneLast
      <3>4. CASE DoneTd \/ DoneDeleted
        BY <3>1, <3>2, <3>4
      <3>5. CASE DoneLast
        BY <3>3, <3>5
      <3>6. QED BY <1>6, <3>4, <3>5
    <2>4. DoneUrb \in Urbs
      <3>1. td_list \in Seq(Td) /\ td_list # <<>>
        BY <1>1, <2>1 DEF TdTypes, DoneStep
      <3>2. Head(td_list) \in Td
        BY <3>1, CountTail
      <3>3. QED BY <3>2 DEF DoneUrb, Td
    <2>5. QED BY <1>1, <2>2, <2>3, <2>4 DEF Handed
  <1>7. CASE CompleteOnly \/ CompleteSubmit \/ CompleteSubmitFails \/ CompleteDrop
             \/ CompleteUnlink
    <2>1. irq = "complete" /\ irq' \in {"after", "spin"}
          /\ UNCHANGED <<ints, cur, wdh, done_head>>
      BY <1>7 DEF CompleteOnly, CompleteSubmit, CompleteSubmitFails, CompleteDrop,
         CompleteUnlink
    <2>2. QED BY <1>1, <2>1 DEF Handed
  <1>8. CASE SpinBegin \/ SpinFrame \/ SpinEnd
    <2>1. irq = "spin" /\ irq' \in {"after", "spin"}
          /\ UNCHANGED <<ints, cur, wdh, done_head>>
      BY <1>8 DEF SpinBegin, SpinFrame, SpinEnd
    <2>2. QED BY <1>1, <2>1 DEF Handed
  <1>9. CASE AfterComplete
    <2>1. irq' = "done" /\ UNCHANGED <<ints, wdh, done_head>>
      BY <1>9 DEF AfterComplete
    <2>2. QED BY <1>1, <2>1 DEF Handed
  <1>10. CASE IrqEnd
    <2>1. irq' = "off" /\ td_list' = <<>> /\ ints' = {} /\ done_head' = done_head
          /\ wdh' = IF "WDH" \in ints THEN 0 ELSE wdh
      BY <1>10 DEF IrqEnd
    <2>2. QED BY <1>1, <2>1 DEF Handed
  <1>11. CASE DoneOrphan \/ AfterDropped
    BY <1>11 DEF DoneOrphan, AfterDropped, Fails, Alive
  <1>12. QED
    BY <1>2, <1>3, <1>4, <1>5, <1>6, <1>7, <1>8, <1>9, <1>10, <1>11 DEF Next, Irq

(* Lists that lose the TDs of some urbs hold nobody else's.                *)
LEMMA HomeWithout ==
  ASSUME TdTypes, AtHome, NEW S, NEW U,
         queue' = [e \in Eds |-> IF e \in S THEN Without(queue[e], U) ELSE queue[e]]
  PROVE AtHome'
  <1> SUFFICES ASSUME NEW e \in Eds, NEW i \in DOMAIN queue'[e]
               PROVE EdOf[queue'[e][i].urb] = e
    BY DEF AtHome
  <1>1. queue[e] \in Seq(Td)
    BY DEF TdTypes
  <1>2. queue'[e] = IF e \in S THEN Without(queue[e], U) ELSE queue[e]
    OBVIOUS
  <1>3. \E j \in DOMAIN queue[e] : queue'[e][i] = queue[e][j]
    BY <1>1, <1>2, CountWithout
  <1>4. QED BY <1>3 DEF AtHome

(* The TDs of an urb are queued at its ED.                                 *)
LEMMA HomeAppend ==
  ASSUME TdTypes, AtHome, NEW u \in Urbs,
         queue' = [queue EXCEPT ![EdOf[u]] = @ \o Tds(u)]
  PROVE AtHome'
  <1> SUFFICES ASSUME NEW e \in Eds, NEW i \in DOMAIN queue'[e]
               PROVE EdOf[queue'[e][i].urb] = e
    BY DEF AtHome
  <1>1. CASE e # EdOf[u]
    BY <1>1 DEF AtHome, TdTypes
  <1>2. CASE e = EdOf[u]
    <2>1. queue[e] \in Seq(Td) /\ Tds(u) \in Seq(Td)
      BY CountTds DEF TdTypes
    <2>2. queue'[e] = queue[e] \o Tds(u)
      BY <1>2 DEF TdTypes
    <2>3. /\ Len(queue[e]) \in Nat /\ Len(Tds(u)) \in Nat
          /\ i \in 1 .. Len(queue[e]) + Len(Tds(u))
          /\ queue'[e][i] = IF i <= Len(queue[e]) THEN queue[e][i]
                                                  ELSE Tds(u)[i - Len(queue[e])]
      BY <2>1, <2>2, ConcatProperties
    <2>4. CASE i <= Len(queue[e])
      <3>1. i \in DOMAIN queue[e]
        BY <2>1, <2>3, <2>4
      <3>2. QED BY <2>3, <2>4, <3>1 DEF AtHome
    <2>5. CASE ~ (i <= Len(queue[e]))
      <3>1. i - Len(queue[e]) \in 1 .. Len(Tds(u))
        BY <2>3, <2>5
      <3>2. DOMAIN Tds(u) = 1 .. Len(Tds(u))
        BY <2>1
      <3>3. \A j \in DOMAIN Tds(u) : Tds(u)[j].urb = u
        BY DEF Tds, NewTd
      <3>4. QED BY <1>2, <2>3, <2>5, <3>1, <3>2, <3>3
    <2>6. QED BY <2>4, <2>5
  <1>3. QED BY <1>1, <1>2

(* A step keeps the TDs of a queue those of its endpoint.                  *)
LEMMA AtHomeKeeps ==
  ASSUME TdInv, Next, Alive'
  PROVE AtHome'
  <1>1. TdTypes /\ OneOwner /\ Handed /\ AtHome
    BY StepAlive DEF TdInv, DeviceOk
  <1>2. CASE queue' = queue
    BY <1>1, <1>2 DEF AtHome
  <1>3. ASSUME NEW e \in Eds, HcRetire(e) PROVE AtHome'
    <2>1. queue[e] \in Seq(Td) /\ queue[e] # <<>> /\ queue' = [queue EXCEPT ![e] = Tail(@)]
      BY <1>1, <1>3 DEF TdTypes, HcRetire, Serves
    <2>2. queue'[e] = Tail(queue[e]) /\ \A x \in Eds : x # e => queue'[x] = queue[x]
      BY <1>1, <2>1 DEF TdTypes
    <2>3. ASSUME NEW i \in DOMAIN queue'[e] PROVE EdOf[queue'[e][i].urb] = e
      <3>1. i + 1 \in DOMAIN queue[e] /\ queue'[e][i] = queue[e][i + 1]
        <4>1. /\ Len(Tail(queue[e])) = Len(queue[e]) - 1
              /\ \A k \in 1 .. Len(Tail(queue[e])) : Tail(queue[e])[k] = queue[e][k + 1]
          BY <2>1, HeadTailProperties
        <4>2. /\ DOMAIN queue[e] = 1 .. Len(queue[e]) /\ Len(queue[e]) \in Nat
              /\ DOMAIN Tail(queue[e]) = 1 .. Len(Tail(queue[e]))
          BY <2>1
        <4>3. i \in 1 .. Len(queue[e]) - 1
          BY <2>2, <2>3, <4>1, <4>2
        <4>4. i + 1 \in 1 .. Len(queue[e])
          BY <4>2, <4>3
        <4>5. QED BY <2>2, <4>1, <4>2, <4>3, <4>4
      <3>2. QED BY <1>1, <3>1 DEF AtHome
    <2>4. QED BY <1>1, <2>2, <2>3 DEF AtHome
  <1>4. CASE IrqEnter
    <2>1. \E U : queue' = [e \in Eds |-> Without(queue[e], U)]
      BY <1>4 DEF IrqEnter
    <2>2. PICK U : queue' = [e \in Eds |-> Without(queue[e], U)]
      BY <2>1
    <2>3. queue' = [e \in Eds |-> IF e \in Eds THEN Without(queue[e], U) ELSE queue[e]]
      BY <2>2
    <2>4. QED BY <1>1, <2>3, HomeWithout
  <1>5. CASE SpinFrame \/ IrqEnd
    <2>1. queue' = queue \/ DlDelList(1 - frame)
      BY <1>5 DEF SpinFrame, IrqEnd, NothingDeleted, DelFrame, edVars
    <2>2. CASE DlDelList(1 - frame)
      <3>1. \E S, U : queue' = [e \in Eds |-> IF e \in S THEN Without(queue[e], U)
                                                         ELSE queue[e]]
        BY <2>2 DEF DlDelList
      <3>2. QED BY <1>1, <3>1, HomeWithout
    <2>3. QED BY <1>2, <2>1, <2>2
  <1>6. CASE CompleteSubmit \/ \E p \in Procs : SubmitLink(p)
    <2>1. queue' = queue \/ \E u \in Urbs : queue' = [queue EXCEPT ![EdOf[u]] = @ \o Tds(u)]
      <3>1. CASE CompleteSubmit
        BY <3>1 DEF CompleteSubmit, LinkAndQueue
      <3>2. ASSUME NEW p \in Procs, SubmitLink(p)
            PROVE \/ queue' = queue
                  \/ \E u \in Urbs : queue' = [queue EXCEPT ![EdOf[u]] = @ \o Tds(u)]
        <4>1. target[p] \in Urbs
          BY <1>1, <3>2 DEF SubmitLink, Goto, OneOwner, TdTypes
        <4>2. QED BY <3>2, <4>1 DEF SubmitLink, LinkAndQueue, edVars
      <3>3. QED BY <1>6, <3>1, <3>2
    <2>2. QED BY <1>1, <1>2, <2>1, HomeAppend
  <1>7. CASE AfterComplete
    <2>1. cur \in Urbs
      BY <1>1, <1>7 DEF AfterComplete, Handed
    <2>2. queue' = queue \/ queue' = [queue EXCEPT ![EdOf[cur]] = @ \o Tds(cur)]
      BY <1>7 DEF AfterComplete, UnlinkIdle
    <2>3. QED BY <1>1, <1>2, <2>1, <2>2, HomeAppend
  <1> USE DEF edVars
  <1>8. CASE Frame \/ SubmitShutdown \/ UnlinkDrop
    <2>1. queue' = queue
      BY <1>8 DEF Frame, SubmitShutdown, UnlinkDrop
    <2>2. QED BY <1>2, <2>1
  <1>9. CASE \/ DoneTd \/ DoneDeleted \/ DoneLast \/ DoneOrphan \/ CompleteOnly
             \/ CompleteSubmitFails \/ CompleteDrop \/ CompleteUnlink \/ SpinBegin
             \/ SpinEnd \/ AfterDropped
    <2>1. queue' = queue
      BY <1>9 DEF DoneTd, DoneDeleted, DoneLast, DoneOrphan, Fails, UnlinkIdle,
         CompleteOnly, CompleteSubmitFails, EpAddEd, SkipNew, CompleteDrop,
         CompleteUnlink, RequestUrbDel, SpinBegin, SpinEnd, AfterDropped
    <2>2. QED BY <1>2, <2>1
  <1>10. ASSUME NEW p \in Procs, Proc(p), ~ SubmitLink(p) PROVE AtHome'
    <2>1. queue' = queue
      BY <1>10 DEF Proc, SubmitBegin, EpAddEd, SkipNew, SubmitSetUp, SubmitTwice,
         SubmitAlloc, SubmitFails, UnlinkBegin, UnlinkStale, Fails, UnlinkMark,
         UnlinkRequest, RequestUrbDel, UnlinkAsync,
         UnlinkEnd, FreeDev, FreeWait, FreeEnd
    <2>2. QED BY <1>2, <2>1
  <1>11. QED
    BY <1>3, <1>4, <1>5, <1>6, <1>7, <1>8, <1>9, <1>10 DEF Next, Irq

(* Only sohci_free_dev asks for the deletion of an ED.                     *)
LEMMA DelKeeps ==
  ASSUME TdInv, Next, Alive'
  PROVE DelWhenFreed' /\ (freed' = 0 => freed = 0)
  <1>1. TdTypes /\ DelWhenFreed
    BY StepAlive DEF TdInv, DeviceOk
  <1> USE DEF edVars
  <1>2. CASE \E p \in Procs : FreeDev(p)
    <2>1. freed' = 1
      BY <1>2 DEF FreeDev
    <2>2. QED BY <2>1 DEF DelWhenFreed
  <1>3. CASE ~ \E p \in Procs : FreeDev(p)
    <2>1. freed' = freed
      BY <1>3 DEF Next, HcRetire, Frame, SubmitShutdown, UnlinkDrop, Irq, IrqEnter,
         DoneTd, DoneDeleted, DoneLast, DoneStep, DoneOrphan, Fails, CompleteOnly,
         CompleteSubmit, CompleteSubmitFails, CompleteDrop, CompleteUnlink, SpinBegin,
         SpinFrame, SpinEnd, AfterComplete, AfterDropped, IrqEnd, Proc, SubmitBegin,
         SubmitSetUp, SubmitTwice, SubmitAlloc, SubmitFails, SubmitLink, UnlinkBegin,
         UnlinkStale, UnlinkMark, UnlinkRequest,
         UnlinkAsync, UnlinkEnd, FreeWait, FreeEnd
    <2>2. \A e \in Eds : "DEL" \in state'[e] => "DEL" \in state[e]
      <3>1. CASE (\E e \in Eds : HcRetire(e)) \/ Frame \/ SubmitShutdown \/ UnlinkDrop
        BY <3>1 DEF HcRetire, Frame, SubmitShutdown, UnlinkDrop
      <3>2. CASE DoneTd \/ DoneDeleted \/ AfterComplete
        <4>1. \E x : UnlinkIdle(x) \/ state' = state
          BY <3>2 DEF DoneTd, DoneDeleted, AfterComplete
        <4>2. state' = state \/ \E x : state' = [state EXCEPT ![x] = {"UNLINK"}]
          BY <4>1 DEF UnlinkIdle, EpUnlink
        <4>3. \A e \in Eds : state'[e] = state[e] \/ state'[e] = {"UNLINK"}
          BY <1>1, <4>2 DEF TdTypes
        <4>4. QED BY <4>3
      <3>3. CASE IrqEnter \/ DoneLast \/ DoneOrphan \/ CompleteOnly \/ CompleteDrop
                 \/ SpinBegin \/ SpinEnd \/ AfterDropped
        BY <3>3 DEF IrqEnter, DoneLast, DoneOrphan, Fails, CompleteOnly, CompleteDrop,
           SpinBegin, SpinEnd, AfterDropped
      <3>4. CASE CompleteSubmit \/ \E p \in Procs : SubmitLink(p)
        <4>1. state' = state \/ \E x : state' = [state EXCEPT ![x] = {"OPER"}]
          BY <3>4 DEF CompleteSubmit, SubmitLink, LinkAndQueue, EpLink
        <4>2. \A e \in Eds : state'[e] = state[e] \/ state'[e] = {"OPER"}
          BY <1>1, <4>1 DEF TdTypes
        <4>3. QED BY <4>2
      <3>5. CASE CompleteSubmitFails \/ \E p \in Procs : SubmitBegin(p) \/ SubmitSetUp(p)
        <4>1. \E x : EpAddEd(x) \/ SkipNew(x) \/ SetUp(x)
          BY <3>5 DEF CompleteSubmitFails, SubmitBegin, SubmitSetUp
        <4>2. state' = state \/ \E x : state' = [state EXCEPT ![x] = {"UNLINK"}]
          BY <4>1 DEF EpAddEd, Refresh, SetUp, SkipNew
        <4>3. \A e \in Eds : state'[e] = state[e] \/ state'[e] = {"UNLINK"}
          BY <1>1, <4>2 DEF TdTypes
        <4>4. QED BY <4>3
      <3>6. CASE CompleteUnlink \/ \E p \in Procs : UnlinkRequest(p)
        <4>1. \E x : state' = [state EXCEPT ![x] = @ \cup {"URB_DEL"}]
          BY <3>6 DEF CompleteUnlink, UnlinkRequest, RequestUrbDel
        <4>2. QED BY <1>1, <4>1 DEF TdTypes
      <3>7. CASE SpinFrame \/ IrqEnd
        <4>1. state' = state
              \/ \E S : state' = [e \in Eds |-> IF e \in S THEN RequestDone(e) ELSE state[e]]
          BY <3>7 DEF SpinFrame, IrqEnd, NothingDeleted, DlDelList
        <4>2. QED BY <1>1, <4>1 DEF RequestDone, TdTypes
      <3>8. ASSUME NEW p \in Procs, Proc(p), ~ SubmitBegin(p), ~ SubmitSetUp(p),
                   ~ SubmitLink(p), ~ UnlinkRequest(p), ~ FreeDev(p)
            PROVE state' = state
        BY <3>8 DEF Proc, SubmitTwice, SubmitAlloc, SubmitFails, UnlinkBegin, UnlinkStale,
           Fails,
           UnlinkMark, UnlinkAsync, UnlinkEnd, FreeWait, FreeEnd
      <3>9. QED
        BY <1>3, <3>1, <3>2, <3>3, <3>4, <3>5, <3>6, <3>7, <3>8 DEF Next, Irq
    <2>3. QED BY <1>1, <2>1, <2>2 DEF DelWhenFreed
  <1>4. QED BY <1>2, <1>3

-----------------------------------------------------------------------------
(* One urb, as its TDs are serviced.                                       *)

(* An urb with a TD out is not being submitted, and queued as long as it   *)
(* has its private part.                                                   *)
LEMMA OutMeansQueued ==
  ASSUME NEW u \in Urbs, UrbOk(u), Outstanding(u) # 0
  PROVE ~ Submitting(u) /\ (hcpriv[u] = 1 => Queued(u))
  <1>1. Queued(u) => ~ Submitting(u)
    BY DEF Queued, Submitting, UrbOk, Owned, At
  <1>2. ~ Submitting(u)
    BY <1>1 DEF UrbOk, Accounted
  <1>3. QED BY <1>2 DEF Queued, Submitting, At

(* Some of its TDs are counted, others remain.                             *)
LEMMA UrbCounted ==
  ASSUME NEW u \in Urbs, NEW g \in Nat, TdTypes, TdTypes', UrbOk(u), SameOwner(u),
         hcpriv[u] = 1, hcpriv'[u] = 1, Outstanding(u) # 0,
         Outstanding(u)' = Outstanding(u) - g, td_cnt'[u] = td_cnt[u] + g,
         urb_del'[u] = urb_del[u], ShortAsync => use'[u] = use[u],
         status'[u] = status[u] \/ urb_del[u] = 1,
         disabled' = 0 => disabled = 0, freed' = 1 => freed = 1,
         irq' = "spin" /\ spin'.urb = u => irq = "spin" /\ spin.urb = u,
         Completing(u)' => Completing(u)
  PROVE UrbOk(u)'
  <1>1. ~ Submitting(u) /\ Queued(u)
    BY OutMeansQueued
  <1>2. /\ Submitting(u)' <=> Submitting(u)
        /\ Queued(u)' <=> Queued(u)
        /\ Unlinking(u)' => Unlinking(u)
    BY OwnerDecides DEF Unlinking
  <1>3. /\ Outstanding(u) \in Nat /\ td_cnt[u] \in Nat /\ Length[u] \in Nat
        /\ Outstanding(u) + td_cnt[u] = Length[u]
    BY <1>1, OutNat, ConfigAssumption DEF UrbOk, Accounted, TdTypes
  <1>4. Owned(u)'
    BY <1>1 DEF UrbOk, Owned, SameOwner, Submitting
  <1>5. Accounted(u)'
    <2>1. Outstanding(u)' + td_cnt'[u] = Length[u]
      BY <1>3
    <2>2. ~ (disabled' = 0 /\ urb_del'[u] = 0 /\ status'[u] # "pending")
      BY <1>1 DEF UrbOk, Accounted
    <2>3. ~ (Completing(u)' /\ u \in Requeued)
      BY <1>1, <1>3 DEF UrbOk, Accounted
    <2>4. QED BY <1>1, <1>2, <2>1, <2>2, <2>3 DEF Accounted
  <1>6. Quiet(u)'
    BY <1>1, <1>2 DEF UrbOk, Quiet
  <1>7. Holding(u)' => Holding(u)
    BY <1>2 DEF Holding
  <1>8. ShortAsync => Held(u)'
    BY <1>7 DEF UrbOk, Held, TdTypes
  <1>9. QED BY <1>4, <1>5, <1>6, <1>8 DEF UrbOk

(* The last ones are counted and its private part goes, with its use of    *)
(* the device if it is not unlinked by one who waits.                      *)
LEMMA UrbDone ==
  ASSUME NEW u \in Urbs, NEW g \in Nat, TdTypes, TdTypes', UrbOk(u), SameOwner(u),
         hcpriv[u] = 1, hcpriv'[u] = 0, Outstanding(u) # 0,
         Outstanding(u)' = Outstanding(u) - g, td_cnt[u] + g = Length[u],
         urb_del'[u] = urb_del[u],
         ShortAsync => \/ use'[u] = use[u]
                       \/ use'[u] = use[u] - 1 /\ (urb_del[u] = 0 \/ u \in AsyncUnlink),
         disabled' = 0 => disabled = 0, freed' = 1 => freed = 1,
         irq' = "spin" /\ spin'.urb = u => irq = "spin" /\ spin.urb = u,
         ~ (Completing(u)' /\ u \in Requeued /\ irq' = "complete")
  PROVE UrbOk(u)'
  <1>1. ~ Submitting(u) /\ Queued(u)
    BY OutMeansQueued
  <1>2. /\ Submitting(u)' <=> Submitting(u)
        /\ ~ Queued(u)'
        /\ Unlinking(u)' => Unlinking(u)
    BY OwnerDecides DEF Unlinking, Queued
  <1>3. /\ Outstanding(u) \in Nat /\ td_cnt[u] \in Nat /\ Length[u] \in Nat
        /\ Outstanding(u) + td_cnt[u] = Length[u]
    BY <1>1, OutNat, ConfigAssumption DEF UrbOk, Accounted, TdTypes
  <1>4. Owned(u)'
    BY <1>1 DEF UrbOk, Owned, SameOwner, Submitting
  <1>5. Accounted(u)'
    <2>1. Outstanding(u)' = 0
      BY <1>3
    <2>2. QED BY <1>2, <2>1 DEF Accounted
  <1>6. Quiet(u)'
    BY <1>1, <1>2 DEF UrbOk, Quiet
  <1>7. ShortAsync => Held(u)'
    <2>1. use[u] \in Int /\ use'[u] \in Int
      BY DEF TdTypes
    <2>2. Holding(u)' => u \notin AsyncUnlink /\ urb_del[u] = 1 /\ Holding(u)
      BY <1>1, <1>2 DEF Holding
    <2>3. urb_del[u] = 0 \/ u \in AsyncUnlink => Holding(u)
      BY DEF Holding, TdTypes
    <2>4. QED BY <2>1, <2>2, <2>3 DEF UrbOk, Held
  <1>8. QED BY <1>4, <1>5, <1>6, <1>7 DEF UrbOk

(* Neither the urb nor the handler or a process is touched.                *)
LEMMA UrbUntouched ==
  ASSUME NEW u \in Urbs, TdTypes, TdTypes', UrbOk(u), Outstanding(u)' = Outstanding(u),
         UNCHANGED <<urbVars, disabled, freed, irq, cur, spin, pc, target>>
  PROVE UrbOk(u)'
  <1>1. SameOwner(u)
    BY ProcsSame
  <1>2. /\ hcpriv'[u] = hcpriv[u] /\ td_cnt'[u] = td_cnt[u] /\ urb_del'[u] = urb_del[u]
        /\ status'[u] = status[u] /\ use'[u] = use[u] /\ use[u] \in Int
        /\ disabled' = disabled /\ freed' = freed /\ irq' = irq /\ spin' = spin
    BY DEF urbVars, TdTypes
  <1>3. use'[u] >= use[u]
    BY <1>2
  <1>4. Completing(u)' <=> Completing(u)
    BY DEF Completing
  <1>5. QED BY <1>1, <1>2, <1>3, <1>4, UrbStays

-----------------------------------------------------------------------------
(* The controller.                                                         *)

(* A retired TD goes from the queue to the controller's done list.         *)
LEMMA RetireUrb ==
  ASSUME TdInv, Alive, TdTypes', NEW u \in Urbs, NEW e \in Eds, HcRetire(e)
  PROVE UrbOk(u)'
  <1>1. TdTypes /\ AtHome /\ UrbOk(u)
    BY DEF TdInv, DeviceOk
  <1>2. queue[e] \in Seq(Td) /\ queue[e] # <<>> /\ queue' = [queue EXCEPT ![e] = Tail(@)]
    BY <1>1 DEF TdTypes, HcRetire, Serves
  <1>3. PICK err \in 0 .. 1 :
          hc_done' = <<NewTd(Head(queue[e]).urb, Head(queue[e]).index, err)>> \o hc_done
    BY DEF HcRetire
  <1> DEFINE t == NewTd(Head(queue[e]).urb, Head(queue[e]).index, err)
             hit == IF Head(queue[e]).urb = u THEN 1 ELSE 0
  <1>4. t \in Td /\ t.urb = Head(queue[e]).urb
    <2>1. Head(queue[e]) \in Td
      BY <1>2, CountTail
    <2>2. QED BY <2>1 DEF NewTd, Td
  <1>5. EdOf[Head(queue[e]).urb] = e
    <2>1. Head(queue[e]) = queue[e][1] /\ 1 \in DOMAIN queue[e]
      BY <1>2
    <2>2. QED BY <1>1, <2>1 DEF AtHome
  <1>6. Count(queue[EdOf[u]], u) = Count(queue'[EdOf[u]], u) + hit
    <2>1. CASE EdOf[u] = e
      <3>1. queue'[EdOf[u]] = Tail(queue[e])
        BY <1>1, <1>2, <2>1 DEF TdTypes
      <3>2. QED BY <1>2, <2>1, <3>1, CountTail
    <2>2. CASE EdOf[u] # e
      <3>1. queue'[EdOf[u]] = queue[EdOf[u]] /\ hit = 0
        BY <1>1, <1>2, <1>5, <2>2, ConfigAssumption DEF TdTypes
      <3>2. QED BY <1>1, <3>1, OutNat
    <2>3. QED BY <2>1, <2>2
  <1>7. Count(hc_done', u) = hit + Count(hc_done, u)
    <2>1. <<t>> \in Seq(Td) /\ Count(<<t>>, u) = hit
      BY <1>4, CountOne
    <2>2. hc_done \in Seq(Td)
      BY <1>1 DEF TdTypes
    <2>3. hc_done' = <<t>> \o hc_done
      BY <1>3
    <2> HIDE DEF t, hit
    <2>4. Count(<<t>> \o hc_done, u) = Count(<<t>>, u) + Count(hc_done, u)
      BY <2>1, <2>2, CountConcat
    <2>5. QED BY <2>1, <2>3, <2>4
  <1>8. Outstanding(u)' = Outstanding(u)
    <2>1. done_head' = done_head /\ td_list' = td_list
      BY DEF HcRetire, irqVars
    <2>2. Count(queue'[EdOf[u]], u) \in Nat
      <3>1. queue'[EdOf[u]] \in Seq(Td)
        BY ConfigAssumption DEF TdTypes
      <3>2. QED BY <3>1, CountNat
    <2> HIDE DEF hit
    <2>3. hit \in Nat
      BY DEF hit
    <2>4. /\ Outstanding(u) = Count(queue[EdOf[u]], u) + Count(hc_done, u)
                                + Count(done_head, u) + Count(td_list, u)
          /\ Outstanding(u)' = Count(queue'[EdOf[u]], u) + Count(hc_done', u)
                                + Count(done_head', u) + Count(td_list', u)
      BY DEF Outstanding
    <2>5. QED BY <1>1, <1>6, <1>7, <2>1, <2>2, <2>3, <2>4, OutNat
  <1>9. UNCHANGED <<urbVars, disabled, freed, irq, cur, spin, pc, target>>
    BY DEF HcRetire, irqVars, procVars
  <1>10. QED
    BY <1>1, <1>8, <1>9, UrbUntouched

(* A frame hands the controller's done list over to an empty one.          *)
LEMMA FrameUrb ==
  ASSUME TdInv, Alive, TdTypes', NEW u \in Urbs, Frame
  PROVE UrbOk(u)'
  <1>1. TdTypes /\ Handed /\ UrbOk(u)
    BY DEF TdInv, DeviceOk
  <1>2. Outstanding(u)' = Outstanding(u)
    <2>1. queue' = queue /\ td_list' = td_list
      BY DEF Frame, irqVars
    <2>2. CASE UNCHANGED <<done_head, hc_done>>
      BY <2>1, <2>2, OutSame
    <2>3. CASE done_head = <<>> /\ done_head' = hc_done /\ hc_done' = <<>>
      <3>1. Count(done_head', u) + Count(hc_done', u)
              = Count(done_head, u) + Count(hc_done, u)
        BY <1>1, <2>3, OutNat, CountEmpty
      <3>2. /\ Count(done_head', u) \in Nat /\ Count(hc_done', u) \in Nat
        BY CountNat DEF TdTypes
      <3>3. /\ Outstanding(u) = Count(queue[EdOf[u]], u) + Count(hc_done, u)
                                + Count(done_head, u) + Count(td_list, u)
            /\ Outstanding(u)' = Count(queue[EdOf[u]], u) + Count(hc_done', u)
                                + Count(done_head', u) + Count(td_list, u)
        BY <2>1 DEF Outstanding
      <3>4. /\ Count(queue[EdOf[u]], u) \in Nat /\ Count(hc_done, u) \in Nat
            /\ Count(done_head, u) \in Nat /\ Count(td_list, u) \in Nat
        BY <1>1, OutNat
      <3>5. QED BY <3>1, <3>2, <3>3, <3>4
    <2>4. \/ UNCHANGED <<done_head, hc_done>>
          \/ done_head = <<>> /\ done_head' = hc_done /\ hc_done' = <<>>
      BY <1>1 DEF Frame, Handed
    <2>5. QED BY <2>2, <2>3, <2>4
  <1>3. UNCHANGED <<urbVars, disabled, freed, irq, cur, spin, pc, target>>
    BY DEF Frame, irqVars, procVars
  <1>4. QED
    BY <1>1, <1>2, <1>3, UrbUntouched

-----------------------------------------------------------------------------
(* The handler.                                                            *)

(* dl_reverse_done_list: the rest of an urb with an error is counted.      *)
LEMMA EnterUrb ==
  ASSUME TdInv, Alive, Alive', TdTypes', NEW u \in Urbs, IrqEnter
  PROVE UrbOk(u)'
  <1>1. TdTypes /\ Handed /\ UrbOk(u)
    BY DEF TdInv, DeviceOk
  <1> DEFINE Bad == {t \in ToSet(done_head) : t.err = 1 /\ halted[EdOf[t.urb]] = 1}
             Cut == {t \in Bad : hcpriv[t.urb] = 1 /\ t.index + 1 < Length[t.urb]}
             Skipped == {t.urb : t \in Cut}
             g == IF u \in Skipped THEN Count(queue[EdOf[u]], u) ELSE 0
  <1>2. /\ queue' = [e \in Eds |-> Without(queue[e], Skipped)]
        /\ td_cnt' = [v \in Urbs |-> IF v \in Skipped
                        THEN td_cnt[v] + RestOf(CHOOSE t \in Cut : t.urb = v)
                        ELSE td_cnt[v]]
        /\ \A t \in Cut : RestOf(t) = Count(queue[EdOf[t.urb]], t.urb)
        /\ td_list' = Reverse(done_head) /\ done_head' = <<>> /\ irq = "off"
    BY DEF IrqEnter, Alive, InOrder
  <1>3. u \in Skipped => (CHOOSE t \in Cut : t.urb = u) \in Cut
                         /\ (CHOOSE t \in Cut : t.urb = u).urb = u
    OBVIOUS
  <1>4. \A t \in Cut : hcpriv[t.urb] = 1 /\ \E i \in DOMAIN done_head : done_head[i] = t
    BY DEF ToSet
  <1> HIDE DEF Cut, Skipped
  <1>5. td_cnt'[u] = td_cnt[u] + g /\ g \in Nat
    BY <1>1, <1>2, <1>3, OutNat, SMTT(30) DEF TdTypes
  <1>6. u \in Skipped => hcpriv[u] = 1 /\ Outstanding(u) # 0
    <2> SUFFICES ASSUME u \in Skipped PROVE hcpriv[u] = 1 /\ Outstanding(u) # 0
      OBVIOUS
    <2>1. hcpriv[u] = 1 /\ \E i \in DOMAIN done_head : done_head[i].urb = u
      BY <1>3, <1>4
    <2>2. Count(done_head, u) # 0
      BY <1>1, <2>1, CountNat DEF TdTypes
    <2>3. QED BY <1>1, <2>1, <2>2, OutNat DEF Outstanding
  <1>7. Outstanding(u)' = Outstanding(u) - g
    <2>1. /\ queue[EdOf[u]] \in Seq(Td) /\ done_head \in Seq(Td)
          /\ queue'[EdOf[u]] = Without(queue[EdOf[u]], Skipped)
      BY <1>1, <1>2, OutNat, ConfigAssumption DEF TdTypes
    <2>2. Count(queue'[EdOf[u]], u) = IF u \in Skipped THEN 0 ELSE Count(queue[EdOf[u]], u)
      BY <2>1, CountWithout
    <2>3. Count(td_list', u) = Count(done_head, u) /\ Count(done_head', u) = 0
          /\ Count(td_list, u) = 0
      <3>1. td_list = <<>>
        BY <1>1, <1>2 DEF Handed
      <3>2. Count(Reverse(done_head), u) = Count(done_head, u)
        BY <2>1, CountReverse
      <3>3. Count(<<>>, u) = 0
        BY CountEmpty
      <3>4. QED BY <1>2, <3>1, <3>2, <3>3
    <2>4. hc_done' = hc_done
      BY DEF IrqEnter
    <2>5. /\ Outstanding(u) = Count(queue[EdOf[u]], u) + Count(hc_done, u)
                              + Count(done_head, u) + Count(td_list, u)
          /\ Outstanding(u)' = Count(queue'[EdOf[u]], u) + Count(hc_done', u)
                              + Count(done_head', u) + Count(td_list', u)
      BY DEF Outstanding
    <2>6. /\ Count(queue[EdOf[u]], u) \in Nat /\ Count(hc_done, u) \in Nat
          /\ Count(done_head, u) \in Nat
      BY <1>1, OutNat
    <2>7. QED BY <2>2, <2>3, <2>4, <2>5, <2>6
  <1>8. /\ UNCHANGED <<hcpriv, urb_del, status, use, freed, pc, target>>
        /\ irq' = "done" /\ (disabled' = 0 => disabled = 0)
    BY DEF IrqEnter, procVars
  <1>9. ~ Completing(u)' /\ ~ (irq' = "spin" /\ spin'.urb = u)
    BY <1>8 DEF Completing
  <1>10. SameOwner(u)
    BY <1>8, ProcsSame
  <1> HIDE DEF g
  <1>11. CASE u \in Skipped
    BY <1>1, <1>5, <1>6, <1>7, <1>8, <1>9, <1>10, <1>11, UrbCounted
  <1>12. CASE u \notin Skipped
    <2>1. g = 0
      BY <1>12 DEF g
    <2>2. Outstanding(u)' = Outstanding(u) /\ td_cnt'[u] = td_cnt[u] /\ use'[u] >= use[u]
      BY <1>1, <1>5, <1>7, <1>8, <2>1, OutNat DEF TdTypes
    <2>3. QED BY <1>1, <1>8, <1>9, <1>10, <2>2, UrbStays
  <1>13. QED BY <1>11, <1>12

(* The next TD of the done list leaves it.                                 *)
LEMMA DoneOut ==
  ASSUME TdTypes, DoneStep, queue' = queue, NEW u \in Urbs
  PROVE /\ DoneUrb \in Urbs
        /\ Outstanding(u)' = Outstanding(u) - IF u = DoneUrb THEN 1 ELSE 0
        /\ u = DoneUrb => Outstanding(u) # 0
  <1>1. td_list \in Seq(Td) /\ td_list # <<>> /\ td_list' = Tail(td_list)
    BY DEF TdTypes, DoneStep
  <1>2. /\ Head(td_list) \in Td /\ Tail(td_list) \in Seq(Td)
        /\ Count(td_list, u) = Count(Tail(td_list), u)
                               + IF Head(td_list).urb = u THEN 1 ELSE 0
    BY <1>1, CountTail
  <1>3. DoneUrb \in Urbs
    BY <1>2 DEF DoneUrb, Td
  <1>4. hc_done' = hc_done /\ done_head' = done_head
    BY DEF DoneStep, hcVars
  <1>5. /\ Outstanding(u) = Count(queue[EdOf[u]], u) + Count(hc_done, u)
                            + Count(done_head, u) + Count(td_list, u)
        /\ Outstanding(u)' = Count(queue[EdOf[u]], u) + Count(hc_done, u)
                            + Count(done_head, u) + Count(Tail(td_list), u)
    BY <1>1, <1>4 DEF Outstanding
  <1>6. /\ Count(queue[EdOf[u]], u) \in Nat /\ Count(hc_done, u) \in Nat
        /\ Count(done_head, u) \in Nat /\ Count(Tail(td_list), u) \in Nat
    BY <1>2, OutNat, CountNat
  <1>7. QED BY <1>2, <1>3, <1>5, <1>6 DEF DoneUrb

(* dl_done_list services a TD; with the last one the urb is returned or    *)
(* its private part goes.                                                  *)
LEMMA ServeUrb ==
  ASSUME TdInv, Alive, TdTypes', NEW u \in Urbs, DoneTd \/ DoneDeleted \/ DoneLast
  PROVE UrbOk(u)'
  <1>1. TdTypes /\ UrbOk(u)
    BY DEF TdInv
  <1>2. /\ DoneStep /\ queue' = queue /\ hcpriv[DoneUrb] = 1
        /\ td_cnt' = [td_cnt EXCEPT ![DoneUrb] = @ + 1]
        /\ UNCHANGED <<urb_del, disabled, freed, spin, pc, target>> /\ irq = "done"
    BY DEF DoneTd, DoneDeleted, DoneLast, DoneStep, UnlinkIdle, edVars, procVars
  <1>3. /\ DoneUrb \in Urbs
        /\ Outstanding(u)' = Outstanding(u) - IF u = DoneUrb THEN 1 ELSE 0
        /\ u = DoneUrb => Outstanding(u) # 0
    BY <1>1, <1>2, DoneOut
  <1>4. SameOwner(u)
    BY <1>2, ProcsSame
  <1>5. /\ td_cnt[u] \in Nat /\ Length[u] \in Nat /\ Outstanding(u) \in Nat /\ use[u] \in Int
        /\ td_cnt'[u] = IF u = DoneUrb THEN td_cnt[u] + 1 ELSE td_cnt[u]
    BY <1>1, <1>2, OutNat, ConfigAssumption DEF TdTypes
  <1>6. irq' \in {"done", "complete"} /\ (irq' = "complete" => DoneLast /\ cur' = DoneUrb)
    BY <1>2 DEF DoneTd, DoneDeleted, DoneLast
  <1>7. CASE u # DoneUrb
    <2>1. ~ Completing(u)' /\ irq' # "spin"
      BY <1>6, <1>7 DEF Completing
    <2>2. hcpriv' = hcpriv \/ hcpriv' = [hcpriv EXCEPT ![DoneUrb] = 0]
      BY DEF DoneTd, DoneDeleted, DoneLast, RmPriv, FreeDeleted
    <2>3. use' = use \/ use' = [use EXCEPT ![DoneUrb] = @ - 1]
      BY DEF DoneTd, DoneDeleted, DoneLast, DecUse
    <2>4. status' = status \/ \E x : status' = [status EXCEPT ![DoneUrb] = x]
      BY DEF DoneTd, DoneDeleted, DoneLast
    <2>5. hcpriv'[u] = hcpriv[u]
      BY <1>1, <1>7, <2>2 DEF TdTypes
    <2>6. use'[u] = use[u]
      BY <1>1, <1>7, <2>3 DEF TdTypes
    <2>7. status'[u] = status[u]
      BY <1>1, <1>7, <2>4 DEF TdTypes
    <2>8. use'[u] >= use[u] /\ Outstanding(u)' = Outstanding(u) /\ td_cnt'[u] = td_cnt[u]
      BY <1>3, <1>5, <1>7, <2>6
    <2>9. QED BY <1>1, <1>2, <1>4, <2>1, <2>5, <2>7, <2>8, UrbStays
  <1>8. CASE u = DoneUrb /\ DoneTd
    <2>1. UNCHANGED <<hcpriv, use, status, irq>>
      BY <1>8 DEF DoneTd
    <2>2. ~ Completing(u)' /\ irq' # "spin" /\ 1 \in Nat
      BY <1>2, <2>1 DEF Completing
    <2>3. QED
      BY <1>1, <1>2, <1>3, <1>4, <1>5, <1>8, <2>1, <2>2, UrbCounted
  <1>9. CASE u = DoneUrb /\ DoneDeleted
    <2>1. /\ UNCHANGED <<use, status, irq>> /\ hcpriv' = [hcpriv EXCEPT ![u] = 0]
          /\ td_cnt[u] + 1 = Length[u]
      BY <1>9 DEF DoneDeleted, FreeDeleted, RmPriv, LastTd
    <2>2. ~ Completing(u)' /\ irq' # "spin" /\ 1 \in Nat
      BY <1>2, <2>1 DEF Completing
    <2>3. hcpriv'[u] = 0
      BY <1>1, <2>1 DEF TdTypes
    <2>4. QED
      BY <1>1, <1>2, <1>3, <1>4, <1>5, <1>9, <2>1, <2>2, <2>3, UrbDone
  <1>10. CASE u = DoneUrb /\ DoneLast /\ u \notin Requeued
    <2>1. /\ use' = [use EXCEPT ![u] = @ - 1] /\ hcpriv' = [hcpriv EXCEPT ![u] = 0]
          /\ td_cnt[u] + 1 = Length[u] /\ urb_del[u] = 0 /\ irq' = "complete"
      BY <1>10 DEF DoneLast, RmPriv, DecUse, LastTd, Live
    <2>2. irq' # "spin" /\ 1 \in Nat
      BY <2>1
    <2>3. hcpriv'[u] = 0 /\ use'[u] = use[u] - 1
      BY <1>1, <2>1 DEF TdTypes
    <2>4. QED
      BY <1>1, <1>2, <1>3, <1>4, <1>5, <1>10, <2>1, <2>2, <2>3, UrbDone
  <1>11. CASE u = DoneUrb /\ DoneLast /\ u \in Requeued
    <2>1. /\ UNCHANGED <<use, hcpriv>> /\ hcpriv[u] = 1
          /\ td_cnt[u] + 1 = Length[u] /\ urb_del[u] = 0 /\ irq' = "complete"
      BY <1>11 DEF DoneLast, LastTd, Live
    <2>2. ~ Submitting(u) /\ Queued(u)
      BY <1>1, <1>3, <1>11, <2>1, OutMeansQueued
    <2>3. ~ Submitting(u)' /\ Queued(u)' /\ (Unlinking(u)' => Unlinking(u))
      BY <1>2, <1>4, <2>1, <2>2, OwnerDecides
    <2>4. Owned(u)'
      BY <1>1, <1>2, <1>4, <2>1, <2>2 DEF UrbOk, Owned, SameOwner, Submitting
    <2>5. Accounted(u)'
      <3>1. Outstanding(u) + td_cnt[u] = Length[u]
        BY <1>1, <2>2 DEF UrbOk, Accounted
      <3>2. Outstanding(u)' = 0 /\ td_cnt'[u] = Length[u]
        BY <1>3, <1>5, <1>11, <2>1, <3>1
      <3>3. Length[u] \in Nat
        BY <1>5
      <3>4. QED BY <2>1, <2>3, <3>2, <3>3 DEF Accounted
    <2>6. Quiet(u)'
      BY <1>1, <1>2, <2>1, <2>3 DEF UrbOk, Quiet
    <2>7. Holding(u)' => Holding(u)
      BY <1>2, <2>1, <2>3 DEF Holding
    <2>8. ShortAsync => Held(u)'
      BY <1>1, <1>5, <2>1, <2>7 DEF UrbOk, Held
    <2>9. QED BY <2>4, <2>5, <2>6, <2>8 DEF UrbOk
  <1>12. QED BY <1>7, <1>8, <1>9, <1>10, <1>11

(* Queueing the TDs of an urb.                                             *)
LEMMA AppendOut ==
  ASSUME TdTypes, NEW v \in Urbs, queue' = [queue EXCEPT ![EdOf[v]] = @ \o Tds(v)],
         UNCHANGED <<hc_done, done_head, td_list>>, NEW u \in Urbs
  PROVE Outstanding(u)' = Outstanding(u) + IF u = v THEN Length[u] ELSE 0
  <1>1. /\ EdOf[u] \in Eds /\ queue[EdOf[u]] \in Seq(Td)
        /\ Tds(v) \in Seq(Td) /\ Count(Tds(v), u) = IF u = v THEN Length[v] ELSE 0
    BY OutNat, CountTds, ConfigAssumption
  <1>2. Count(queue'[EdOf[u]], u)
          = Count(queue[EdOf[u]], u) + IF u = v THEN Length[u] ELSE 0
    <2>1. CASE EdOf[u] = EdOf[v]
      <3>1. queue'[EdOf[u]] = queue[EdOf[u]] \o Tds(v)
        BY <1>1, <2>1 DEF TdTypes
      <3>2. Count(queue[EdOf[u]] \o Tds(v), u)
              = Count(queue[EdOf[u]], u) + Count(Tds(v), u)
        BY <1>1, CountConcat
      <3>3. QED BY <1>1, <3>1, <3>2
    <2>2. CASE EdOf[u] # EdOf[v]
      <3>1. queue'[EdOf[u]] = queue[EdOf[u]] /\ u # v
        BY <1>1, <2>2 DEF TdTypes
      <3>2. QED BY <3>1, OutNat
    <2>3. QED BY <2>1, <2>2
  <1>3. /\ Outstanding(u) = Count(queue[EdOf[u]], u) + Count(hc_done, u)
                            + Count(done_head, u) + Count(td_list, u)
        /\ Outstanding(u)' = Count(queue'[EdOf[u]], u) + Count(hc_done, u)
                            + Count(done_head, u) + Count(td_list, u)
    BY DEF Outstanding
  <1>4. /\ Count(queue[EdOf[u]], u) \in Nat /\ Count(hc_done, u) \in Nat
        /\ Count(done_head, u) \in Nat /\ Count(td_list, u) \in Nat /\ Length[u] \in Nat
    BY OutNat, ConfigAssumption
  <1>5. QED BY <1>2, <1>3, <1>4

(* An urb somebody else's operation is about.                              *)
LEMMA UrbElsewhere ==
  ASSUME NEW u \in Urbs, TdTypes, TdTypes', UrbOk(u), SameOwner(u),
         Outstanding(u)' = Outstanding(u),
         hcpriv'[u] = hcpriv[u], td_cnt'[u] = td_cnt[u], urb_del'[u] = urb_del[u],
         use'[u] = use[u], status'[u] = status[u], disabled' = disabled, freed' = freed,
         irq' # "spin" \/ spin'.urb # u \/ UNCHANGED <<irq, spin>>,
         irq' \notin {"complete", "spin", "after"}
           \/ (cur' = cur /\ irq \in {"complete", "spin", "after"} /\ irq' # "complete")
  PROVE UrbOk(u)'
  <1>1. use'[u] >= use[u]
    BY DEF TdTypes
  <1>2. Completing(u)' => Completing(u) /\ (irq' = "complete" => irq = "complete")
    BY DEF Completing
  <1>3. irq' = "spin" /\ spin'.urb = u => irq = "spin" /\ spin.urb = u
    OBVIOUS
  <1>4. QED BY <1>1, <1>2, <1>3, UrbStays

(* An urb that is not active is taken back at once.                        *)
LEMMA DropUrb ==
  ASSUME TdInv, Alive, TdTypes', NEW u \in Urbs, NEW v \in Urbs,
         CanUnlink(v), ~ Active(v), DropInactive(v),
         UNCHANGED <<edVars, hcVars, td_list, disabled, freed, cur, spin, pc, target>>,
         (irq = "complete" /\ irq' = "after") \/ (irq = "off" /\ irq' = "off")
  PROVE UrbOk(u)'
  <1>1. TdTypes /\ UrbOk(u)
    BY DEF TdInv
  <1>2. SameOwner(u) /\ Outstanding(u)' = Outstanding(u)
    BY ProcsSame, OutSame DEF edVars, hcVars
  <1>3. /\ hcpriv' = [hcpriv EXCEPT ![v] = 0] /\ use' = [use EXCEPT ![v] = @ - 1]
        /\ td_cnt' = td_cnt /\ urb_del' = urb_del
        /\ \E x : status' = [status EXCEPT ![v] = x]
    BY DEF DropInactive, RmPriv, DecUse
  <1>4. CASE u # v
    <2>1. hcpriv'[u] = hcpriv[u] /\ use'[u] = use[u]
      BY <1>1, <1>3, <1>4 DEF TdTypes
    <2>2. status'[u] = status[u]
      BY <1>1, <1>3, <1>4 DEF TdTypes
    <2>3. QED BY <1>1, <1>2, <1>3, <2>1, <2>2, UrbElsewhere
  <1>5. CASE u = v
    <2>1. hcpriv'[u] = 0 /\ use'[u] = use[u] - 1 /\ use[u] \in Int
      BY <1>1, <1>3, <1>5 DEF TdTypes
    <2>2. /\ hcpriv[u] = 1 /\ urb_del[u] = 0
          /\ \A p \in Procs : \A place : ~ At(p, place, u)
      BY <1>5 DEF CanUnlink, Unowned, At
    <2>3. Queued(u) /\ ~ Submitting(u) /\ Holding(u)
      BY <2>2 DEF Queued, Submitting, Holding, At
    <2>4. ~ Queued(u)' /\ ~ Submitting(u)'
      BY <1>2, <2>1, <2>3, OwnerDecides DEF Queued
    <2>5. Owned(u)'
      BY <1>2, <2>2 DEF Owned, SameOwner
    <2>6. Accounted(u)'
      <3>1. disabled' = 0 => Outstanding(u)' = 0
        BY <1>1, <1>2, <1>5, <2>2, <2>3 DEF UrbOk, Accounted, Active
      <3>2. irq' # "complete"
        OBVIOUS
      <3>3. QED BY <2>1, <2>4, <3>1, <3>2 DEF Accounted
    <2>7. Quiet(u)'
      BY <2>1, <2>4 DEF Quiet
    <2>8. ~ Holding(u)'
      BY <1>3, <2>1, <2>2, <2>4 DEF Holding
    <2>9. ShortAsync => Held(u)'
      BY <1>1, <2>1, <2>3, <2>8 DEF UrbOk, Held
    <2>10. QED BY <2>5, <2>6, <2>7, <2>9 DEF UrbOk
  <1>6. QED BY <1>4, <1>5

(* The completion handler submits an urb.                                  *)
LEMMA SubmitUrb ==
  ASSUME TdInv, Alive, TdTypes', NEW u \in Urbs, CompleteSubmit
  PROVE UrbOk(u)'
  <1>1. TdTypes /\ UrbOk(u)
    BY DEF TdInv
  <1>2. PICK v \in Urbs :
          /\ CanSubmit(v) /\ disabled = 0
          /\ use' = [use EXCEPT ![v] = @ + 1]
          /\ hcpriv' = [hcpriv EXCEPT ![v] = 1]
          /\ td_cnt' = [td_cnt EXCEPT ![v] = 0]
          /\ urb_del' = [urb_del EXCEPT ![v] = 0]
          /\ queue' = [queue EXCEPT ![EdOf[v]] = @ \o Tds(v)]
          /\ status' = [status EXCEPT ![v] = "pending"]
    BY DEF CompleteSubmit, LinkAndQueue
  <1>3. /\ irq = "complete" /\ irq' = "after"
        /\ UNCHANGED <<hc_done, done_head, td_list, disabled, freed, cur, spin, pc, target>>
    BY DEF CompleteSubmit, hcVars, procVars
  <1>4. /\ SameOwner(u)
        /\ Outstanding(u)' = Outstanding(u) + IF u = v THEN Length[u] ELSE 0
        /\ Outstanding(u) \in Nat /\ Length[u] \in Nat /\ use[u] \in Int
    BY <1>1, <1>2, <1>3, ProcsSame, AppendOut, OutNat, ConfigAssumption DEF TdTypes
  <1>5. CASE u # v
    <2>1. hcpriv'[u] = hcpriv[u] /\ td_cnt'[u] = td_cnt[u] /\ urb_del'[u] = urb_del[u]
      BY <1>1, <1>2, <1>5 DEF TdTypes
    <2>2. use'[u] = use[u] /\ status'[u] = status[u]
      BY <1>1, <1>2, <1>5 DEF TdTypes
    <2>3. Outstanding(u)' = Outstanding(u)
      BY <1>4, <1>5
    <2>4. QED BY <1>1, <1>3, <1>4, <2>1, <2>2, <2>3, UrbElsewhere
  <1>6. CASE u = v
    <2>1. hcpriv'[u] = 1 /\ td_cnt'[u] = 0 /\ urb_del'[u] = 0
      BY <1>1, <1>2, <1>6 DEF TdTypes
    <2>2. use'[u] = use[u] + 1 /\ status'[u] = "pending"
      BY <1>1, <1>2, <1>6 DEF TdTypes
    <2>3. /\ hcpriv[u] = 0 /\ freed = 0 /\ disabled = 0
          /\ \A p \in Procs : \A place : ~ At(p, place, u)
      BY <1>2, <1>6 DEF CanSubmit, Unowned, At
    <2>4. \A p \in Procs : \A place : ~ At(p, place, u)'
      BY <1>4, <2>3 DEF SameOwner
    <2>5. ~ Submitting(u)' /\ Queued(u)'
      BY <2>1, <2>4 DEF Submitting, Queued, At
    <2>6. Owned(u)'
      BY <2>4 DEF Owned
    <2>7. Accounted(u)'
      <3>1. ~ Queued(u)
        BY <2>3 DEF Queued
      <3>2. Outstanding(u) = 0
        BY <1>1, <2>3, <3>1 DEF UrbOk, Accounted
      <3>3. Outstanding(u)' + td_cnt'[u] = Length[u]
        BY <1>4, <1>6, <2>1, <3>2
      <3>4. ~ (Completing(u)' /\ u \in Requeued)
        BY <1>1, <1>3, <2>3 DEF UrbOk, Accounted, Completing
      <3>5. QED BY <2>2, <2>5, <3>3, <3>4 DEF Accounted
    <2>8. Quiet(u)'
      BY <1>3, <2>3 DEF Quiet
    <2>9. ShortAsync => Held(u)'
      <3>1. ShortAsync => use[u] >= 0
        BY <1>1, <1>4 DEF UrbOk, Held
      <3>2. QED BY <1>4, <2>2, <3>1 DEF Held
    <2>10. QED BY <2>6, <2>7, <2>8, <2>9 DEF UrbOk
  <1>7. QED BY <1>5, <1>6

(* The completion handler unlinks an active urb.                           *)
LEMMA UnlinkUrb ==
  ASSUME TdInv, Alive, TdTypes', NEW u \in Urbs, CompleteUnlink
  PROVE UrbOk(u)'
  <1>1. TdTypes /\ UrbOk(u)
    BY DEF TdInv
  <1>2. PICK v \in Urbs :
          /\ CanUnlink(v) /\ Active(v)
          /\ urb_del' = [urb_del EXCEPT ![v] = 1]
          /\ queue' = queue
          /\ IF v \in AsyncUnlink
             THEN irq' = "after" /\ UNCHANGED spin
             ELSE irq' = "spin" /\ spin' = [NoSpin EXCEPT !.urb = v]
    BY DEF CompleteUnlink, RequestUrbDel
  <1>3. /\ irq = "complete" /\ irq' \in {"after", "spin"}
        /\ irq' = "spin" => spin'.urb = v
        /\ UNCHANGED <<hcpriv, td_cnt, status, use, hc_done, done_head, td_list, disabled,
                       freed, cur, pc, target>>
    <2>1. [NoSpin EXCEPT !.urb = v].urb = v
      BY DEF NoSpin
    <2>2. QED BY <1>2, <2>1 DEF CompleteUnlink, procVars
  <1>4. SameOwner(u) /\ Outstanding(u)' = Outstanding(u)
    BY <1>2, <1>3, ProcsSame, OutSame
  <1>5. CASE u # v
    <2>1. urb_del'[u] = urb_del[u]
      BY <1>1, <1>2, <1>5 DEF TdTypes
    <2>2. QED BY <1>1, <1>3, <1>4, <1>5, <2>1, UrbElsewhere
  <1>6. CASE u = v
    <2>1. urb_del'[u] = 1
      BY <1>1, <1>2, <1>6 DEF TdTypes
    <2>2. /\ hcpriv[u] = 1 /\ urb_del[u] = 0
          /\ \A p \in Procs : \A place : ~ At(p, place, u)
      BY <1>2, <1>6 DEF CanUnlink, Unowned, At
    <2>3. Queued(u) /\ Holding(u)
      BY <2>2 DEF Queued, Holding, At
    <2>4. Queued(u)' /\ ~ Submitting(u)'
      BY <1>3, <1>4, <2>2, <2>3, OwnerDecides DEF Submitting
    <2>5. Owned(u)'
      BY <1>4, <2>2 DEF Owned, SameOwner
    <2>6. Accounted(u)'
      <3>1. Completing(u)' => Completing(u)
        BY <1>3 DEF Completing
      <3>2. irq' # "complete"
        BY <1>3
      <3>3. QED BY <1>1, <1>3, <1>4, <2>1, <2>3, <2>4, <3>1, <3>2 DEF UrbOk, Accounted
    <2>7. Quiet(u)'
      BY <2>1, <2>4 DEF Quiet
    <2>8. ShortAsync => Held(u)'
      BY <1>1, <1>3, <2>3 DEF UrbOk, Held, TdTypes
    <2>9. QED BY <2>5, <2>6, <2>7, <2>8 DEF UrbOk
  <1>7. QED BY <1>5, <1>6

(* It begins to wait for frames.                                           *)
LEMMA SpinBeginUrb ==
  ASSUME TdInv, Alive, TdTypes', NEW u \in Urbs, SpinBegin
  PROVE UrbOk(u)'
  <1>1. TdTypes /\ UrbOk(u)
    BY DEF TdInv
  <1>2. /\ UNCHANGED <<queue, hcpriv, td_cnt, urb_del, use, status, disabled, freed, irq,
                       cur, hc_done, done_head, td_list, pc, target>>
        /\ spin' = [spin EXCEPT !.off = 1, !.prev = frame]
    BY DEF SpinBegin, edVars, urbVars, procVars
  <1>3. spin'.urb = spin.urb
    BY <1>2
  <1>4. SameOwner(u) /\ Outstanding(u)' = Outstanding(u)
    BY <1>2, ProcsSame, OutSame
  <1>5. Completing(u)' <=> Completing(u)
    BY <1>2 DEF Completing
  <1>6. use'[u] >= use[u]
    BY <1>1, <1>2 DEF TdTypes
  <1>7. QED BY <1>1, <1>2, <1>3, <1>4, <1>5, <1>6, UrbStays

(* The wait of the handler for the frames is over.                         *)
LEMMA SpinEndUrb ==
  ASSUME TdInv, Alive, TdTypes', NEW u \in Urbs, SpinEnd
  PROVE UrbOk(u)'
  <1>1. TdTypes /\ UrbOk(u) /\ OneOwner
    BY DEF TdInv, DeviceOk
  <1> DEFINE v == spin.urb
  <1>2. /\ status' = [status EXCEPT ![v] = "unlinked"]
        /\ use' = [use EXCEPT ![v] = @ - 1]
        /\ irq = "spin" /\ irq' = "after"
        /\ UNCHANGED <<queue, hc_done, done_head, td_list, hcpriv, td_cnt, urb_del,
                       disabled, freed, cur, pc, target>>
    BY DEF SpinEnd, DecUse, edVars, procVars
  <1>3. v \in Urbs \ AsyncUnlink /\ urb_del[v] = 1 /\ Unowned(v)
    BY <1>1, <1>2 DEF OneOwner
  <1>4. SameOwner(u) /\ Outstanding(u)' = Outstanding(u)
    BY <1>2, ProcsSame, OutSame
  <1>5. CASE u # v
    <2>1. use'[u] = use[u] /\ status'[u] = status[u]
      BY <1>1, <1>2, <1>5 DEF TdTypes
    <2>2. QED BY <1>1, <1>2, <1>4, <2>1, UrbElsewhere
  <1>6. CASE u = v
    <2>1. use'[u] = use[u] - 1 /\ use[u] \in Int
      BY <1>1, <1>2, <1>6 DEF TdTypes
    <2>2. \A p \in Procs : \A place : ~ At(p, place, u)
      BY <1>3, <1>6 DEF Unowned, At
    <2>3. \A p \in Procs : \A place : ~ At(p, place, u)'
      BY <1>4, <2>2 DEF SameOwner
    <2>4. ~ Submitting(u)' /\ (Queued(u)' <=> Queued(u))
      BY <1>2, <1>4, <2>2, OwnerDecides DEF Submitting
    <2>5. Owned(u)'
      BY <2>3 DEF Owned
    <2>6. Accounted(u)'
      <3>1. Completing(u)' => Completing(u)
        BY <1>2 DEF Completing
      <3>2. irq' # "complete" /\ urb_del'[u] = 1
        BY <1>2, <1>3, <1>6
      <3>3. QED BY <1>1, <1>2, <1>4, <2>4, <3>1, <3>2 DEF UrbOk, Accounted
    <2>7. Quiet(u)'
      BY <1>2, <1>3, <1>6, <2>4 DEF Quiet
    <2>8. Holding(u)
      BY <1>2, <1>3, <1>6 DEF Holding, Unlinking
    <2>9. ~ Holding(u)'
      <3>1. ~ Unlinking(u)'
        BY <1>2, <2>3 DEF Unlinking
      <3>2. QED BY <1>2, <1>3, <1>6, <2>4, <3>1 DEF Holding
    <2>10. ShortAsync => Held(u)'
      BY <1>1, <2>1, <2>8, <2>9 DEF UrbOk, Held
    <2>11. QED BY <2>5, <2>6, <2>7, <2>10 DEF UrbOk
  <1>7. QED BY <1>5, <1>6

(* The urb is queued again, or left.                                       *)
LEMMA AfterUrb ==
  ASSUME TdInv, Alive, TdTypes', NEW u \in Urbs, AfterComplete
  PROVE UrbOk(u)'
  <1>1. TdTypes /\ UrbOk(u) /\ Handed
    BY DEF TdInv, DeviceOk
  <1>2. /\ irq = "after" /\ irq' = "done"
        /\ UNCHANGED <<hc_done, done_head, td_list, hcpriv, urb_del, use, disabled, freed,
                       spin, pc, target>>
        /\ cur \in Urbs
    BY <1>1 DEF AfterComplete, Handed, hcVars, procVars
  <1>3. SameOwner(u) /\ ~ Completing(u)' /\ use[u] \in Int
    BY <1>1, <1>2, ProcsSame DEF Completing, TdTypes
  <1>4. CASE \/ cur \notin Requeued
             \/ cur \in Requeued /\ urb_del[cur] # 0
    <2>1. queue' = queue /\ td_cnt' = td_cnt
      BY <1>4 DEF AfterComplete, UnlinkIdle
    <2>2. status' = status \/ status' = [status EXCEPT ![cur] = "pending"]
      BY DEF AfterComplete
    <2>3. status'[u] \in {status[u], "pending"}
      BY <1>1, <2>2 DEF TdTypes
    <2>4. Outstanding(u)' = Outstanding(u)
      BY <1>2, <2>1, OutSame
    <2>5. use'[u] >= use[u]
      BY <1>2, <1>3
    <2>6. QED BY <1>1, <1>2, <1>3, <2>1, <2>3, <2>4, <2>5, UrbStays
  <1>5. CASE cur \in Requeued /\ urb_del[cur] = 0
    <2>1. /\ td_cnt' = [td_cnt EXCEPT ![cur] = 0]
          /\ queue' = [queue EXCEPT ![EdOf[cur]] = @ \o Tds(cur)]
          /\ status' = [status EXCEPT ![cur] = "pending"] /\ hcpriv[cur] = 1
      BY <1>5 DEF AfterComplete, CountAnew
    <2>2. /\ Outstanding(u)' = Outstanding(u) + IF u = cur THEN Length[u] ELSE 0
          /\ Outstanding(u) \in Nat /\ Length[u] \in Nat
      BY <1>1, <1>2, <2>1, AppendOut, OutNat, ConfigAssumption
    <2>3. /\ td_cnt'[u] = IF u = cur THEN 0 ELSE td_cnt[u]
          /\ status'[u] = IF u = cur THEN "pending" ELSE status[u]
      BY <1>1, <2>1 DEF TdTypes
    <2>4. CASE u # cur
      <3>1. Outstanding(u)' = Outstanding(u)
        BY <2>2, <2>4
      <3>2. QED BY <1>1, <1>2, <1>3, <2>3, <2>4, <3>1, UrbElsewhere
    <2>5. CASE u = cur
      <3>1. Queued(u) /\ td_cnt[u] = Length[u]
        BY <1>1, <1>2, <1>5, <2>1, <2>5 DEF UrbOk, Accounted, Completing
      <3>2. Outstanding(u) = 0
        BY <1>1, <2>2, <3>1 DEF UrbOk, Accounted
      <3>3. ~ Submitting(u)
        BY <1>1, <3>1 DEF Queued, Submitting, UrbOk, Owned, At
      <3>4. Queued(u)' /\ ~ Submitting(u)' /\ (Unlinking(u)' => Unlinking(u))
        BY <1>2, <1>3, <3>1, <3>3, OwnerDecides
      <3>5. Owned(u)'
        BY <1>1, <1>2, <1>3, <3>3 DEF UrbOk, Owned, SameOwner, Submitting
      <3>6. Accounted(u)'
        <4>1. Outstanding(u)' + td_cnt'[u] = Length[u]
          BY <2>2, <2>3, <2>5, <3>2
        <4>2. status'[u] = "pending"
          BY <2>3, <2>5
        <4>3. QED BY <1>3, <3>4, <4>1, <4>2 DEF Accounted
      <3>7. Quiet(u)'
        BY <1>1, <1>2, <3>4 DEF UrbOk, Quiet
      <3>8. Holding(u)' => Holding(u)
        BY <1>2, <3>4 DEF Holding
      <3>9. ShortAsync => Held(u)'
        BY <1>1, <1>2, <1>3, <3>8 DEF UrbOk, Held
      <3>10. QED BY <3>5, <3>6, <3>7, <3>9 DEF UrbOk
    <2>6. QED BY <2>4, <2>5
  <1>6. urb_del[cur] \in 0 .. 1
    BY <1>1, <1>2 DEF TdTypes
  <1>7. QED BY <1>4, <1>5, <1>6

(* The completion handler takes back an urb that is not active, fails to   *)
(* submit, or does nothing; a process takes back one, or is refused.       *)
LEMMA PassUrb ==
  ASSUME TdInv, Alive, TdTypes', NEW u \in Urbs,
         CompleteOnly \/ CompleteSubmitFails \/ CompleteDrop \/ UnlinkDrop \/ SubmitShutdown
  PROVE UrbOk(u)'
  <1>1. TdTypes /\ UrbOk(u)
    BY DEF TdInv
  <1> USE DEF edVars, urbVars, hcVars, irqVars, procVars
  <1>2. CASE CompleteOnly \/ CompleteSubmitFails
    <2>1. queue' = queue
      BY <1>2 DEF CompleteOnly, CompleteSubmitFails, EpAddEd, SkipNew
    <2>2. /\ UNCHANGED <<hcpriv, td_cnt, urb_del, use, status, disabled, freed, cur, spin,
                         hc_done, done_head, td_list, pc, target>>
          /\ irq = "complete" /\ irq' = "after"
      BY <1>2 DEF CompleteOnly, CompleteSubmitFails
    <2>3. SameOwner(u) /\ Outstanding(u)' = Outstanding(u)
      BY <2>1, <2>2, ProcsSame, OutSame
    <2>4. QED BY <1>1, <2>2, <2>3, UrbElsewhere
  <1>3. CASE CompleteDrop \/ UnlinkDrop
    <2>1. PICK v \in Urbs : CanUnlink(v) /\ ~ Active(v) /\ DropInactive(v)
      BY <1>3 DEF CompleteDrop, UnlinkDrop
    <2>2. /\ UNCHANGED <<edVars, hcVars, td_list, disabled, freed, cur, spin, pc, target>>
          /\ (irq = "complete" /\ irq' = "after") \/ (irq = "off" /\ irq' = "off")
      BY <1>3 DEF CompleteDrop, UnlinkDrop, Runs
    <2>3. QED BY <2>1, <2>2, DropUrb
  <1>4. CASE SubmitShutdown
    <2>1. PICK v \in Urbs : use' = [use EXCEPT ![v] = @ + 1]
      BY <1>4 DEF SubmitShutdown
    <2>2. use'[u] >= use[u]
      BY <1>1, <2>1 DEF TdTypes
    <2>3. UNCHANGED <<queue, hcpriv, td_cnt, urb_del, status, disabled, freed, irq, cur,
                      spin, hc_done, done_head, td_list, pc, target>>
      BY <1>4 DEF SubmitShutdown
    <2>4. SameOwner(u) /\ Outstanding(u)' = Outstanding(u)
      BY <2>3, ProcsSame, OutSame
    <2>5. Completing(u)' <=> Completing(u)
      BY <2>3 DEF Completing
    <2>6. QED BY <1>1, <2>2, <2>3, <2>4, <2>5, UrbStays
  <1>5. QED BY <1>2, <1>3, <1>4

(* What dl_del_list does to an urb: g of its TDs go, and are counted.      *)
LEMMA DeleteEffect ==
  ASSUME TdTypes, NEW f \in Frames, DlDelList(f), Alive',
         UNCHANGED <<hc_done, done_head, td_list>>, NEW u \in Urbs
  PROVE \E g \in Nat :
          /\ td_cnt'[u] = td_cnt[u] + g /\ Outstanding(u)' = Outstanding(u) - g
          /\ g <= Outstanding(u)
          /\ g > 0 => hcpriv[u] = 1 /\ (urb_del[u] = 1 \/ "DEL" \in state[EdOf[u]])
          /\ hcpriv'[u] = IF g > 0 /\ td_cnt[u] + g = Length[u] THEN 0 ELSE hcpriv[u]
          /\ use'[u] = IF u \in AsyncUnlink THEN use[u] - g ELSE use[u]
          /\ g = 0 => status'[u] = status[u]
          /\ u \notin AsyncUnlink => status'[u] = status[u]
          /\ urb_del'[u] = urb_del[u]
  <1> DEFINE S == ed_rm_list[f]
             Doomed == {v \in Urbs : urb_del[v] = 1 \/ "DEL" \in state[EdOf[v]]}
             Gone(v) == IF EdOf[v] \in S /\ v \in Doomed
                        THEN Count(queue[EdOf[v]], v) ELSE 0
  <1>1. /\ queue' = [e \in Eds |-> IF e \in S THEN Without(queue[e], Doomed) ELSE queue[e]]
        /\ td_cnt' = [v \in Urbs |-> td_cnt[v] + Gone(v)]
        /\ hcpriv' = [v \in Urbs |-> IF Gone(v) > 0 /\ LastTd(v, td_cnt[v] + Gone(v))
                                     THEN 0 ELSE hcpriv[v]]
        /\ use' = [v \in Urbs |-> IF v \in AsyncUnlink THEN use[v] - Gone(v) ELSE use[v]]
        /\ status' = [v \in Urbs |-> IF v \in AsyncUnlink /\ Gone(v) > 0
                                     THEN "reset" ELSE status[v]]
        /\ urb_del' = urb_del
    BY DEF DlDelList
  <1>2. \A e \in S : \A t \in ToSet(queue[e]) : hcpriv[t.urb] # 0
    <2>1. fault' = IF \E e \in S : \E t \in ToSet(queue[e]) : hcpriv[t.urb] = 0
                   THEN "urb_priv"
                   ELSE IF \E e \in {x \in S : "DEL" \in state[x]} : linked[e] > 0
                        THEN "freed ED" ELSE fault
      BY DEF DlDelList
    <2>2. QED BY <2>1 DEF Alive
  <1>3. /\ EdOf[u] \in Eds /\ queue[EdOf[u]] \in Seq(Td)
        /\ Count(queue[EdOf[u]], u) \in Nat /\ Count(hc_done, u) \in Nat
        /\ Count(done_head, u) \in Nat /\ Count(td_list, u) \in Nat
    BY OutNat, ConfigAssumption
  <1>4. u \in Doomed <=> urb_del[u] = 1 \/ "DEL" \in state[EdOf[u]]
    OBVIOUS
  <1> HIDE DEF S, Doomed
  <1> DEFINE g == Gone(u)
  <1>5. g \in Nat /\ g <= Count(queue[EdOf[u]], u)
    BY <1>3
  <1>6. Count(queue'[EdOf[u]], u) = Count(queue[EdOf[u]], u) - g
    <2>1. CASE EdOf[u] \in S
      <3>1. queue'[EdOf[u]] = Without(queue[EdOf[u]], Doomed)
        BY <1>1, <1>3, <2>1
      <3>2. Count(Without(queue[EdOf[u]], Doomed), u)
              = IF u \in Doomed THEN 0 ELSE Count(queue[EdOf[u]], u)
        BY <1>3, CountWithout
      <3>3. QED BY <1>3, <2>1, <3>1, <3>2
    <2>2. CASE EdOf[u] \notin S
      BY <1>1, <1>3, <2>2
    <2>3. QED BY <2>1, <2>2
  <1>7. g > 0 => hcpriv[u] = 1 /\ u \in Doomed
    <2> SUFFICES ASSUME g > 0 PROVE hcpriv[u] = 1 /\ u \in Doomed
      OBVIOUS
    <2>1. EdOf[u] \in S /\ u \in Doomed /\ Count(queue[EdOf[u]], u) # 0
      BY <1>5
    <2>2. \E i \in DOMAIN queue[EdOf[u]] : queue[EdOf[u]][i].urb = u
      BY <1>3, <2>1, CountNat
    <2>3. hcpriv[u] # 0
      BY <1>2, <2>1, <2>2 DEF ToSet
    <2>4. QED BY <2>1, <2>3 DEF TdTypes
  <1>8. /\ td_cnt'[u] = td_cnt[u] + g
        /\ hcpriv'[u] = IF g > 0 /\ td_cnt[u] + g = Length[u] THEN 0 ELSE hcpriv[u]
        /\ use'[u] = IF u \in AsyncUnlink THEN use[u] - g ELSE use[u]
        /\ g = 0 => status'[u] = status[u]
        /\ u \notin AsyncUnlink => status'[u] = status[u]
        /\ urb_del'[u] = urb_del[u]
    BY <1>1 DEF LastTd
  <1> HIDE DEF g, Gone
  <1>9. /\ Outstanding(u) = Count(queue[EdOf[u]], u) + Count(hc_done, u)
                            + Count(done_head, u) + Count(td_list, u)
        /\ Outstanding(u)' = Count(queue'[EdOf[u]], u) + Count(hc_done, u)
                            + Count(done_head, u) + Count(td_list, u)
    BY DEF Outstanding
  <1>10. Outstanding(u)' = Outstanding(u) - g /\ g <= Outstanding(u)
    BY <1>3, <1>5, <1>6, <1>9
  <1>11. QED BY <1>4, <1>5, <1>7, <1>8, <1>10

(* dl_del_list, or nothing, and the urb is as it must be.                  *)
LEMMA DeleteUrb ==
  ASSUME TdInv, Alive, Alive', TdTypes', NEW u \in Urbs, SpinFrame \/ IrqEnd
  PROVE UrbOk(u)'
  <1>1. TdTypes /\ UrbOk(u) /\ DelWhenFreed
    BY DEF TdInv, DeviceOk
  <1>2. /\ UNCHANGED <<hc_done, done_head, td_list, disabled, freed, cur, pc, target>>
        /\ irq \in {"spin", "done"} /\ irq' \in {"spin", "off"}
        /\ irq' = "spin" => irq = "spin" /\ spin'.urb = spin.urb
    <2>1. CASE SpinFrame
      <3>1. spin' = [spin EXCEPT !.prev = frame, !.count = @ + 1]
        BY <2>1 DEF SpinFrame
      <3>2. spin'.urb = spin.urb
        BY <3>1
      <3>3. QED BY <2>1, <3>2 DEF SpinFrame, hcVars, procVars
    <2>2. CASE IrqEnd
      BY <2>2 DEF IrqEnd, procVars
    <2>3. QED BY <2>1, <2>2
  <1>3. SameOwner(u) /\ (Completing(u)' => Completing(u)) /\ irq' # "complete"
        /\ (irq' = "spin" /\ spin'.urb = u => irq = "spin" /\ spin.urb = u)
    BY <1>2, ProcsSame DEF Completing
  <1>4. NothingDeleted \/ DlDelList(1 - frame)
    BY DEF SpinFrame, IrqEnd, DelFrame
  <1>5. use[u] \in Int /\ td_cnt[u] \in Nat /\ Length[u] \in Nat /\ Outstanding(u) \in Nat
    BY <1>1, OutNat, ConfigAssumption DEF TdTypes
  <1>6. CASE NothingDeleted
    <2>1. UNCHANGED <<queue, hcpriv, td_cnt, urb_del, status, use>>
      BY <1>6 DEF NothingDeleted, edVars, urbVars
    <2>2. Outstanding(u)' = Outstanding(u) /\ use'[u] >= use[u]
      BY <1>2, <1>5, <2>1, OutSame
    <2>3. QED BY <1>1, <1>2, <1>3, <2>1, <2>2, UrbStays
  <1>7. CASE DlDelList(1 - frame)
    <2>1. 1 - frame \in Frames
      BY <1>1 DEF TdTypes, Frames
    <2>2. PICK g \in Nat :
            /\ td_cnt'[u] = td_cnt[u] + g /\ Outstanding(u)' = Outstanding(u) - g
            /\ g <= Outstanding(u)
            /\ g > 0 => hcpriv[u] = 1 /\ (urb_del[u] = 1 \/ "DEL" \in state[EdOf[u]])
            /\ hcpriv'[u] = IF g > 0 /\ td_cnt[u] + g = Length[u] THEN 0 ELSE hcpriv[u]
            /\ use'[u] = IF u \in AsyncUnlink THEN use[u] - g ELSE use[u]
            /\ g = 0 => status'[u] = status[u]
            /\ u \notin AsyncUnlink => status'[u] = status[u]
            /\ urb_del'[u] = urb_del[u]
      BY <1>1, <1>2, <1>7, <2>1, DeleteEffect
    <2>3. CASE g = 0
      <3>1. /\ td_cnt'[u] = td_cnt[u] /\ Outstanding(u)' = Outstanding(u)
            /\ hcpriv'[u] = hcpriv[u] /\ use'[u] >= use[u] /\ status'[u] = status[u]
            /\ urb_del'[u] = urb_del[u]
        BY <1>5, <2>2, <2>3
      <3>2. QED BY <1>1, <1>2, <1>3, <3>1, UrbStays
    <2>4. CASE g > 0
      <3>1. hcpriv[u] = 1 /\ Outstanding(u) # 0 /\ urb_del[u] = 1
        <4>1. hcpriv[u] = 1 /\ Outstanding(u) # 0
          BY <1>5, <2>2, <2>4
        <4>2. "DEL" \in state[EdOf[u]] => freed = 1
          BY <1>1, ConfigAssumption DEF DelWhenFreed
        <4>3. QED BY <1>1, <2>2, <2>4, <4>1, <4>2 DEF UrbOk, Quiet
      <3>2. Queued(u) /\ Outstanding(u) + td_cnt[u] = Length[u]
        BY <1>1, <3>1, OutMeansQueued DEF UrbOk, Accounted
      <3>3. ShortAsync /\ u \in AsyncUnlink => g = 1 /\ td_cnt[u] + g = Length[u]
        BY <1>5, <2>2, <2>4, <3>2 DEF ShortAsync
      <3>4. CASE td_cnt[u] + g = Length[u]
        <4>1. hcpriv'[u] = 0
          BY <2>2, <2>4, <3>4
        <4>2. ShortAsync => \/ use'[u] = use[u]
                            \/ use'[u] = use[u] - 1 /\ (urb_del[u] = 0 \/ u \in AsyncUnlink)
          BY <2>2, <3>3
        <4>3. QED BY <1>1, <1>2, <1>3, <2>2, <3>1, <3>4, <4>1, <4>2, UrbDone
      <3>5. CASE td_cnt[u] + g # Length[u]
        <4>1. hcpriv'[u] = 1 /\ (ShortAsync => use'[u] = use[u])
          BY <2>2, <3>1, <3>3, <3>5
        <4>2. QED BY <1>1, <1>2, <1>3, <2>2, <3>1, <4>1, UrbCounted
      <3>6. QED BY <3>4, <3>5
    <2>5. QED BY <2>3, <2>4
  <1>8. QED BY <1>4, <1>6, <1>7

-----------------------------------------------------------------------------
(* The processes.                                                          *)

(* What it means for urb u that process p has it.                          *)
LEMMA Owner ==
  ASSUME OneOwner, irq = "off", NEW p \in Procs, NEW u \in Urbs, target[p] = u
  PROVE /\ \A q \in Procs : \A place : At(q, place, u) <=> q = p /\ place = pc[p]
        /\ Submitting(u) <=> pc[p] \in {"add", "alloc", "link"}
        /\ Unlinking(u) <=> pc[p] \in {"request", "sleep"}
        /\ Queued(u) <=> hcpriv[u] = 1 /\ pc[p] # "link"
  <1>1. \A q \in Procs : \A place : At(q, place, u) <=> q = p /\ place = pc[p]
    <2>1. u # NoUrb
      BY ConfigAssumption
    <2>2. QED BY <2>1 DEF OneOwner, At
  <1>2. Queued(u) <=> hcpriv[u] = 1 /\ ~ \E q \in Procs : At(q, "link", u)
    BY DEF Queued, At
  <1>3. QED BY <1>1, <1>2 DEF Submitting, Unlinking

(* ... and once the process has moved with it.                             *)
LEMMA OwnerAfter ==
  ASSUME irq' = "off", NEW p \in Procs, NEW u \in Urbs, NEW to,
         \A q \in Procs : \A place : At(q, place, u)' <=> q = p /\ place = to
  PROVE /\ Submitting(u)' <=> to \in {"add", "alloc", "link"}
        /\ Unlinking(u)' <=> to \in {"request", "sleep"}
        /\ Queued(u)' <=> hcpriv'[u] = 1 /\ to # "link"
        /\ /\ to \in {"add", "alloc"} => hcpriv'[u] = 0
           /\ to = "link" => hcpriv'[u] = 1 /\ td_cnt'[u] = 0 /\ urb_del'[u] = 0
           /\ to = "mark" => urb_del'[u] = 0
           /\ to \in {"request", "sleep", "async"} => urb_del'[u] = 1
           /\ to = "sleep" => u \notin AsyncUnlink
           => Owned(u)'
        /\ ~ Completing(u)'
  <1>1. Queued(u)' <=> hcpriv'[u] = 1 /\ ~ \E q \in Procs : At(q, "link", u)'
    BY DEF Queued, At
  <1>2. QED BY <1>1 DEF Submitting, Unlinking, Owned, Completing

(* ... and once it has given it up.                                        *)
LEMMA NoOwner ==
  ASSUME irq' = "off", NEW u \in Urbs, \A q \in Procs : \A place : ~ At(q, place, u)'
  PROVE /\ ~ Submitting(u)' /\ ~ Unlinking(u)' /\ Owned(u)' /\ ~ Completing(u)'
        /\ Queued(u)' <=> hcpriv'[u] = 1
  <1>1. Queued(u)' <=> hcpriv'[u] = 1 /\ ~ \E q \in Procs : At(q, "link", u)'
    BY DEF Queued, At
  <1>2. QED BY <1>1 DEF Submitting, Unlinking, Owned, Completing

(* A process begins to submit an urb.                                      *)
LEMMA BeginUrb ==
  ASSUME TdInv, Alive, TdTypes', NEW p \in Procs, SubmitBegin(p), NEW u \in Urbs
  PROVE UrbOk(u)'
  <1>1. TdTypes /\ UrbOk(u) /\ OneOwner
    BY DEF TdInv, DeviceOk
  <1>2. PICK v \in Urbs : /\ CanSubmit(v) /\ target' = [target EXCEPT ![p] = v]
                          /\ use' = [use EXCEPT ![v] = @ + 1]
    BY DEF SubmitBegin, Take
  <1>3. PICK to \in {"add", "alloc"} : Moves(p, to, v) /\ Unowned(v)
    <2>1. \E to \in {"add", "alloc"} : pc' = [pc EXCEPT ![p] = to]
      BY DEF SubmitBegin, Goto
    <2>2. QED BY <1>2, <2>1 DEF Moves, CanSubmit
  <1>4. /\ UNCHANGED <<queue, hc_done, done_head, td_list, hcpriv, td_cnt, urb_del, status,
                       disabled, freed, irq, cur, spin>>
        /\ irq = "off" /\ disabled = 0 /\ pc[p] = "idle"
    BY DEF SubmitBegin, EpAddEd, SkipNew, Goto, Runs, hcVars, irqVars
  <1>5. Outstanding(u)' = Outstanding(u) /\ use[u] \in Int
    BY <1>1, <1>4, OutSame DEF TdTypes
  <1>6. target[p] = NoUrb /\ NoUrb \notin Urbs
    BY <1>1, <1>4, ConfigAssumption DEF OneOwner
  <1>7. CASE u # v
    <2>1. SameOwner(u)
      BY <1>1, <1>3, <1>6, <1>7, MoveOwners
    <2>2. use'[u] = use[u]
      BY <1>1, <1>2, <1>7 DEF TdTypes
    <2>3. QED BY <1>1, <1>4, <1>5, <2>1, <2>2, UrbElsewhere
  <1>8. CASE u = v
    <2>1. \A q \in Procs : \A place : At(q, place, u)' <=> q = p /\ place = to
      BY <1>1, <1>3, <1>8, MoveOwners
    <2>2. use'[u] = use[u] + 1 /\ hcpriv[u] = 0 /\ freed = 0
      BY <1>1, <1>2, <1>8 DEF TdTypes, CanSubmit
    <2>3. Owned(u)' /\ ~ Queued(u)' /\ ~ Completing(u)'
      BY <1>4, <2>1, <2>2, OwnerAfter
    <2>4. Outstanding(u) = 0
      BY <1>1, <1>4, <2>2 DEF UrbOk, Accounted, Queued
    <2>5. Accounted(u)'
      BY <1>5, <2>3, <2>4 DEF Accounted
    <2>6. Quiet(u)'
      BY <1>4, <2>2 DEF Quiet
    <2>7. ShortAsync => Held(u)'
      <3>1. ShortAsync => use[u] >= 0
        BY <1>1, <1>5 DEF UrbOk, Held
      <3>2. QED BY <1>5, <2>2, <3>1 DEF Held
    <2>8. QED BY <2>3, <2>5, <2>6, <2>7 DEF UrbOk
  <1>9. QED BY <1>7, <1>8

(* Its ED is set up.                                                       *)
LEMMA SetUpUrb ==
  ASSUME TdInv, Alive, TdTypes', NEW p \in Procs, SubmitSetUp(p), NEW u \in Urbs
  PROVE UrbOk(u)'
  <1>1. TdTypes /\ UrbOk(u) /\ OneOwner
    BY DEF TdInv, DeviceOk
  <1>2. /\ pc[p] = "add" /\ irq = "off"
        /\ UNCHANGED <<queue, hc_done, done_head, td_list, hcpriv, td_cnt, urb_del, use,
                       status, disabled, freed, irq, cur, spin>>
    BY DEF SubmitSetUp, Goto, Runs, urbVars, hcVars, irqVars
  <1>3. Moves(p, "alloc", target[p]) /\ target[p] \in Urbs \cup {NoUrb}
    BY <1>1, MoveStay DEF SubmitSetUp, Goto
  <1>4. Outstanding(u)' = Outstanding(u)
    BY <1>2, OutSame
  <1>5. CASE u # target[p]
    <2>1. SameOwner(u)
      BY <1>1, <1>3, <1>5, MoveOwners
    <2>2. QED BY <1>1, <1>2, <1>4, <2>1, UrbElsewhere
  <1>6. CASE u = target[p]
    <2>1. \A q \in Procs : \A place : At(q, place, u)' <=> q = p /\ place = "alloc"
      BY <1>1, <1>3, <1>6, MoveOwners
    <2>2. Submitting(u) /\ At(p, "add", u)
      BY <1>1, <1>2, <1>6, Owner
    <2>3. hcpriv[u] = 0
      BY <1>1, <2>2 DEF UrbOk, Owned
    <2>4. Owned(u)' /\ ~ Queued(u)' /\ ~ Completing(u)'
      BY <1>2, <2>1, <2>3, OwnerAfter
    <2>5. Accounted(u)'
      BY <1>1, <1>4, <2>2, <2>3, <2>4 DEF UrbOk, Accounted, Queued
    <2>6. Quiet(u)'
      BY <1>1, <1>2, <2>2 DEF UrbOk, Quiet
    <2>7. ShortAsync => Held(u)'
      BY <1>1, <1>2, <2>2 DEF UrbOk, Held, Holding, TdTypes
    <2>8. QED BY <2>4, <2>5, <2>6, <2>7 DEF UrbOk
  <1>7. QED BY <1>5, <1>6

(* Its private part is there.                                              *)
LEMMA AllocUrb ==
  ASSUME TdInv, Alive, TdTypes', NEW p \in Procs, SubmitAlloc(p), NEW u \in Urbs
  PROVE UrbOk(u)'
  <1>1. TdTypes /\ UrbOk(u) /\ OneOwner
    BY DEF TdInv, DeviceOk
  <1>2. /\ hcpriv' = [hcpriv EXCEPT ![target[p]] = 1]
        /\ td_cnt' = [td_cnt EXCEPT ![target[p]] = 0]
        /\ urb_del' = [urb_del EXCEPT ![target[p]] = 0]
        /\ pc[p] = "alloc" /\ irq = "off"
        /\ UNCHANGED <<queue, hc_done, done_head, td_list, use, status,
                       disabled, freed, irq, cur, spin>>
    BY DEF SubmitAlloc, Goto, Runs, edVars, hcVars, irqVars
  <1>3. Moves(p, "link", target[p]) /\ target[p] \in Urbs \cup {NoUrb}
    BY <1>1, MoveStay DEF SubmitAlloc, Goto
  <1>4. Outstanding(u)' = Outstanding(u)
    BY <1>2, OutSame
  <1>5. CASE u # target[p]
    <2>1. SameOwner(u)
      BY <1>1, <1>3, <1>5, MoveOwners
    <2>2. hcpriv'[u] = hcpriv[u] /\ td_cnt'[u] = td_cnt[u] /\ urb_del'[u] = urb_del[u]
      BY <1>1, <1>2, <1>5 DEF TdTypes
    <2>3. QED BY <1>1, <1>2, <1>4, <2>1, <2>2, UrbElsewhere
  <1>6. CASE u = target[p]
    <2>1. \A q \in Procs : \A place : At(q, place, u)' <=> q = p /\ place = "link"
      BY <1>1, <1>3, <1>6, MoveOwners
    <2>2. hcpriv'[u] = 1 /\ td_cnt'[u] = 0 /\ urb_del'[u] = 0
      BY <1>1, <1>2, <1>6 DEF TdTypes
    <2>3. Submitting(u) /\ At(p, "alloc", u)
      BY <1>1, <1>2, <1>6, Owner
    <2>4. ~ Queued(u)
      BY <1>1, <2>3 DEF UrbOk, Owned, Queued
    <2>5. Owned(u)' /\ ~ Queued(u)' /\ ~ Completing(u)'
      BY <1>2, <2>1, <2>2, OwnerAfter
    <2>6. Accounted(u)'
      BY <1>1, <1>4, <2>3, <2>4, <2>5 DEF UrbOk, Accounted
    <2>7. Quiet(u)'
      BY <1>1, <1>2, <2>3 DEF UrbOk, Quiet
    <2>8. ShortAsync => Held(u)'
      BY <1>1, <1>2, <2>3 DEF UrbOk, Held, Holding, TdTypes
    <2>9. QED BY <2>5, <2>6, <2>7, <2>8 DEF UrbOk
  <1>7. QED BY <1>5, <1>6

(* A failing submission, and one an ED refuses, undoes what it did.        *)
LEMMA UndoUrb ==
  ASSUME TdInv, Alive, TdTypes', NEW p \in Procs, pc[p] \in {"add", "alloc", "link"},
         irq = "off",
         UndoSubmit(target[p]), Moves(p, "idle", NoUrb), NEW u \in Urbs,
         UNCHANGED <<queue, hc_done, done_head, td_list, td_cnt, urb_del, status,
                     disabled, freed, irq, cur, spin>>
  PROVE UrbOk(u)'
  <1>1. TdTypes /\ UrbOk(u) /\ OneOwner /\ NoUrb \notin Urbs
    BY ConfigAssumption DEF TdInv, DeviceOk
  <1>2. /\ hcpriv' = [hcpriv EXCEPT ![target[p]] = 0]
        /\ use' = [use EXCEPT ![target[p]] = @ - 1]
    BY DEF UndoSubmit, DecUse, RmPriv
  <1>3. Outstanding(u)' = Outstanding(u)
    BY OutSame
  <1>4. CASE u # target[p]
    <2>1. SameOwner(u)
      BY <1>1, <1>4, MoveOwners
    <2>2. hcpriv'[u] = hcpriv[u] /\ use'[u] = use[u]
      BY <1>1, <1>2, <1>4 DEF TdTypes
    <2>3. QED BY <1>1, <1>3, <2>1, <2>2, UrbElsewhere
  <1>5. CASE u = target[p]
    <2>1. \A q \in Procs : \A place : ~ At(q, place, u)'
      BY <1>1, <1>5, MoveOwners
    <2>2. hcpriv'[u] = 0 /\ use'[u] = use[u] - 1 /\ use[u] \in Int
      BY <1>1, <1>2, <1>5 DEF TdTypes
    <2>3. Submitting(u) /\ (At(p, "add", u) \/ At(p, "alloc", u) \/ At(p, "link", u))
          /\ (Queued(u) <=> hcpriv[u] = 1 /\ pc[p] # "link")
      BY <1>1, <1>5, Owner
    <2>4. ~ Queued(u)
      BY <1>1, <2>3 DEF UrbOk, Owned, At
    <2>5. Owned(u)' /\ ~ Queued(u)' /\ ~ Completing(u)' /\ ~ Submitting(u)' /\ ~ Unlinking(u)'
      BY <2>1, <2>2, NoOwner
    <2>6. Accounted(u)'
      BY <1>1, <1>3, <2>3, <2>4, <2>5 DEF UrbOk, Accounted
    <2>7. Quiet(u)'
      BY <2>2, <2>5 DEF Quiet
    <2>8. Holding(u) /\ ~ Holding(u)'
      BY <2>2, <2>3, <2>5 DEF Holding
    <2>9. ShortAsync => Held(u)'
      BY <1>1, <2>2, <2>8 DEF UrbOk, Held
    <2>10. QED BY <2>5, <2>6, <2>7, <2>9 DEF UrbOk
  <1>6. QED BY <1>4, <1>5

(* The urb's TDs are queued, or the ED refuses it.                         *)
LEMMA LinkUrb ==
  ASSUME TdInv, Alive, TdTypes', NEW p \in Procs, SubmitLink(p), NEW u \in Urbs
  PROVE UrbOk(u)'
  <1>1. TdTypes /\ UrbOk(u) /\ OneOwner /\ NoUrb \notin Urbs
    BY ConfigAssumption DEF TdInv, DeviceOk
  <1>2. /\ pc[p] = "link" /\ irq = "off" /\ Moves(p, "idle", NoUrb)
        /\ UNCHANGED <<hc_done, done_head, td_list, td_cnt, urb_del,
                       disabled, freed, irq, cur, spin>>
    BY DEF SubmitLink, Goto, Runs, Release, Take, Moves, hcVars, irqVars
  <1>3. CASE UndoSubmit(target[p]) /\ UNCHANGED <<edVars, status>>
    BY <1>2, <1>3, UndoUrb DEF edVars
  <1>4. CASE LinkAndQueue(target[p], EdOf[target[p]]) /\ UNCHANGED <<hcpriv, use>>
    <2>1. target[p] \in Urbs
      BY <1>1, <1>2 DEF OneOwner, TdTypes
    <2>2. PICK v \in Urbs : v = target[p]
      BY <2>1
    <2>3. /\ queue' = [queue EXCEPT ![EdOf[v]] = @ \o Tds(v)]
          /\ status' = [status EXCEPT ![v] = "pending"]
      BY <1>4, <2>2 DEF LinkAndQueue
    <2>4. /\ Outstanding(u)' = Outstanding(u) + IF u = v THEN Length[u] ELSE 0
          /\ Outstanding(u) \in Nat /\ Length[u] \in Nat
      BY <1>1, <1>2, <2>3, AppendOut, OutNat, ConfigAssumption
    <2>5. CASE u # v
      <3>1. SameOwner(u)
        BY <1>1, <1>2, <2>2, <2>5, MoveOwners
      <3>2. status'[u] = status[u] /\ Outstanding(u)' = Outstanding(u)
        BY <1>1, <2>3, <2>4, <2>5 DEF TdTypes
      <3>3. QED BY <1>1, <1>2, <1>4, <3>1, <3>2, UrbElsewhere
    <2>6. CASE u = v
      <3>1. \A q \in Procs : \A place : ~ At(q, place, u)'
        BY <1>1, <1>2, <2>2, <2>6, MoveOwners
      <3>2. status'[u] = "pending"
        BY <1>1, <2>3, <2>6 DEF TdTypes
      <3>3. Submitting(u) /\ At(p, "link", u) /\ ~ Queued(u)
        BY <1>1, <1>2, <2>2, <2>6, Owner
      <3>4. hcpriv[u] = 1 /\ td_cnt[u] = 0 /\ urb_del[u] = 0 /\ Outstanding(u) = 0
        BY <1>1, <3>3 DEF UrbOk, Owned, Accounted
      <3>5. /\ Owned(u)' /\ ~ Completing(u)' /\ ~ Submitting(u)' /\ ~ Unlinking(u)'
            /\ Queued(u)'
        BY <1>2, <1>4, <3>1, <3>4, NoOwner
      <3>6. Accounted(u)'
        <4>1. Outstanding(u)' + td_cnt'[u] = Length[u]
          BY <1>2, <2>4, <2>6, <3>4
        <4>2. QED BY <3>2, <3>5, <4>1 DEF Accounted
      <3>7. Quiet(u)'
        BY <1>1, <1>2, <3>3 DEF UrbOk, Quiet
      <3>8. ShortAsync => Held(u)'
        BY <1>1, <1>4, <3>3 DEF UrbOk, Held, Holding, TdTypes
      <3>9. QED BY <3>5, <3>6, <3>7, <3>8 DEF UrbOk
    <2>7. QED BY <2>5, <2>6
  <1>5. QED BY <1>3, <1>4 DEF SubmitLink

(* A process that takes an urb back moves on, and marks or asks; the urb   *)
(* keeps its owner, finds one or loses it, and nothing else happens to it. *)
LEMMA PassOnUrb ==
  ASSUME TdInv, Alive, TdTypes', NEW p \in Procs, NEW to, NEW v \in Urbs, NEW u \in Urbs,
         irq = "off", ~ Submitting(v),
         (v = target[p] /\ urb_del[v] = 1 /\ to # "mark") \/ (to = "mark" /\ CanUnlink(v)),
         \/ Moves(p, to, v) /\ to \in {"mark", "sleep", "async"}
         \/ Moves(p, to, NoUrb) /\ v = target[p],
         to = "sleep" => v \notin AsyncUnlink /\ pc[p] \in {"request", "sleep"},
         target[p] \in {v, NoUrb},
         status' = status \/ status' = [status EXCEPT ![v] = "pending"],
         UNCHANGED <<queue, hc_done, done_head, td_list, hcpriv, td_cnt, urb_del, use,
                     disabled, freed, irq, cur, spin>>
  PROVE UrbOk(u)'
  <1>1. TdTypes /\ UrbOk(u) /\ OneOwner /\ NoUrb \notin Urbs
    BY ConfigAssumption DEF TdInv, DeviceOk
  <1>2. Outstanding(u)' = Outstanding(u) /\ use[u] \in Int
    BY <1>1, OutSame DEF TdTypes
  <1>3. Unowned(v) \/ v = target[p]
    BY DEF CanUnlink
  <1>4. CASE u # v
    <2>1. SameOwner(u)
      BY <1>1, <1>3, <1>4, MoveOwners
    <2>2. status'[u] = status[u]
      BY <1>1, <1>4 DEF TdTypes
    <2>3. QED BY <1>1, <1>2, <2>1, <2>2, UrbElsewhere
  <1>5. CASE u = v
    <2>1. \/ (\A q \in Procs : \A place : At(q, place, u)' <=> q = p /\ place = to)
             /\ to \in {"mark", "sleep", "async"}
          \/ \A q \in Procs : \A place : ~ At(q, place, u)'
      BY <1>1, <1>3, <1>5, MoveOwners
    <2>2. \/ urb_del[u] = 1 /\ to # "mark"
          \/ to = "mark" /\ urb_del[u] = 0 /\ hcpriv[u] = 1
      BY <1>5 DEF CanUnlink
    <2>3. /\ Owned(u)' /\ ~ Completing(u)' /\ ~ Submitting(u)'
          /\ (Queued(u)' <=> hcpriv'[u] = 1)
          /\ (Unlinking(u)' => to = "sleep")
      <3>1. CASE \A q \in Procs : \A place : ~ At(q, place, u)'
        BY <3>1, NoOwner
      <3>2. CASE /\ \A q \in Procs : \A place : At(q, place, u)' <=> q = p /\ place = to
                 /\ to \in {"mark", "sleep", "async"}
        <4>1. CASE to = "mark" /\ urb_del'[u] = 0
          BY <3>2, <4>1, OwnerAfter
        <4>2. CASE urb_del'[u] = 1 /\ to \in {"sleep", "async"}
          BY <1>5, <3>2, <4>2, OwnerAfter
        <4>3. QED BY <2>2, <3>2, <4>1, <4>2
      <3>3. QED BY <2>1, <2>2, <3>1, <3>2
    <2>4. ~ Submitting(u) /\ (Queued(u) <=> hcpriv[u] = 1)
      BY <1>5 DEF Submitting, Queued, At
    <2>5. Accounted(u)'
      <3>1. status'[u] \in {status[u], "pending"}
        BY <1>1, <1>5 DEF TdTypes
      <3>2. QED BY <1>1, <1>2, <2>3, <2>4, <3>1 DEF UrbOk, Accounted
    <2>6. Quiet(u)'
      BY <1>1, <2>3 DEF UrbOk, Quiet
    <2>7. Unlinking(u)' => Unlinking(u)
      BY <1>1, <1>5, <2>2, <2>3, Owner
    <2>8. Holding(u)' => Holding(u)
      BY <2>3, <2>7 DEF Holding
    <2>9. ShortAsync => Held(u)'
      BY <1>1, <1>2, <2>8 DEF UrbOk, Held
    <2>10. QED BY <2>3, <2>5, <2>6, <2>9 DEF UrbOk
  <1>6. QED BY <1>4, <1>5

(* The process that unlinks: up to the mark, the request, the end of an    *)
(* asynchronous one.                                                       *)
LEMMA TakeBackUrb ==
  ASSUME TdInv, Alive, TdTypes', NEW p \in Procs, NEW u \in Urbs,
         UnlinkBegin(p) \/ UnlinkRequest(p) \/ UnlinkAsync(p)
  PROVE UrbOk(u)'
  <1>1. TdTypes /\ OneOwner /\ NoUrb \notin Urbs /\ \A v \in Urbs : UrbOk(v)
    BY ConfigAssumption DEF TdInv, DeviceOk
  <1> USE DEF edVars, urbVars, hcVars, irqVars
  <1>2. /\ UNCHANGED <<queue, hc_done, done_head, td_list, hcpriv, td_cnt, urb_del, use,
                       disabled, freed, irq, cur, spin>>
        /\ irq = "off"
    BY DEF UnlinkBegin, UnlinkRequest, RequestUrbDel, UnlinkAsync, Goto, Runs
  <1>3. CASE UnlinkBegin(p)
    <2>1. PICK v \in Urbs : CanUnlink(v) /\ target' = [target EXCEPT ![p] = v]
      BY <1>3 DEF UnlinkBegin, Take
    <2>2. Moves(p, "mark", v) /\ status' = status /\ pc[p] = "idle"
      BY <1>3, <2>1 DEF UnlinkBegin, Goto, Moves
    <2>3. ~ Submitting(v) /\ target[p] \in {v, NoUrb}
      BY <1>1, <2>1, <2>2 DEF CanUnlink, Unowned, Submitting, At, OneOwner
    <2>4. "mark" # "sleep" /\ "mark" \in {"mark", "sleep", "async"}
      OBVIOUS
    <2>5. QED BY <1>2, <2>1, <2>2, <2>3, <2>4, PassOnUrb
  <1>4. CASE UnlinkRequest(p) \/ UnlinkAsync(p)
    <2>1. pc[p] \in {"request", "async"}
      BY <1>4 DEF UnlinkRequest, UnlinkAsync, Goto
    <2>2. target[p] \in Urbs
      BY <1>1, <2>1 DEF OneOwner, TdTypes
    <2>3. PICK v \in Urbs : v = target[p]
      BY <2>2
    <2>4. ~ Submitting(v) /\ At(p, pc[p], v)
      BY <1>1, <1>2, <2>1, <2>3, Owner
    <2>5. urb_del[v] = 1
      BY <1>1, <2>1, <2>4 DEF UrbOk, Owned
    <2>6. status' = status \/ status' = [status EXCEPT ![v] = "pending"]
      BY <1>4, <2>3 DEF UnlinkRequest, UnlinkAsync
    <2>7. \/ Moves(p, "idle", NoUrb)
          \/ UnlinkRequest(p) /\ v \in AsyncUnlink /\ Moves(p, "async", v)
          \/ UnlinkRequest(p) /\ v \notin AsyncUnlink /\ Moves(p, "sleep", v)
      <3>1. CASE UnlinkAsync(p)
        BY <3>1 DEF UnlinkAsync, Goto, Release, Take, Moves
      <3>2. CASE UnlinkRequest(p)
        <4>1. pc' = [pc EXCEPT ![p] = IF v \in AsyncUnlink THEN "async"
                             ELSE IF disabled = 1 /\ v \notin AsyncUnlink THEN "idle"
                             ELSE "sleep"]
          BY <2>3, <3>2 DEF UnlinkRequest, Goto
        <4>2. IF disabled = 1 /\ v \notin AsyncUnlink
              THEN target' = [target EXCEPT ![p] = NoUrb]
              ELSE target' = target
          BY <2>3, <3>2 DEF UnlinkRequest, Release, Take
        <4>3. target' = target => target' = [target EXCEPT ![p] = v]
          BY <1>1, <2>3 DEF TdTypes
        <4>4. QED BY <3>2, <4>1, <4>2, <4>3 DEF Moves
      <3>3. QED BY <1>4, <3>1, <3>2
    <2>8. UnlinkRequest(p) => pc[p] = "request"
      BY DEF UnlinkRequest
    <2>13. target[p] \in {v, NoUrb} /\ (v = target[p] /\ urb_del[v] = 1)
      BY <2>3, <2>5
    <2>14. "idle" \notin {"sleep", "mark"} /\ "async" \notin {"sleep", "mark"} /\ "sleep" # "mark"
           /\ "async" \in {"mark", "sleep", "async"} /\ "sleep" \in {"mark", "sleep", "async"}
      OBVIOUS
    <2>9. CASE Moves(p, "idle", NoUrb)
      BY <1>2, <2>4, <2>6, <2>9, <2>13, <2>14, PassOnUrb
    <2>10. CASE UnlinkRequest(p) /\ v \in AsyncUnlink /\ Moves(p, "async", v)
      BY <1>2, <2>4, <2>6, <2>10, <2>13, <2>14, PassOnUrb
    <2>11. CASE UnlinkRequest(p) /\ v \notin AsyncUnlink /\ Moves(p, "sleep", v)
      <3>1. v \notin AsyncUnlink /\ pc[p] \in {"request", "sleep"} /\ Moves(p, "sleep", v)
        BY <2>8, <2>11
      <3>2. QED BY <1>2, <2>4, <2>6, <2>13, <2>14, <3>1, PassOnUrb
    <2>12. QED BY <2>7, <2>9, <2>10, <2>11
  <1>5. QED BY <1>3, <1>4

(* urb_priv->state = URB_DEL: what is held is now for the one who unlinks. *)
LEMMA MarkUrb ==
  ASSUME TdInv, Alive, TdTypes', NEW p \in Procs, UnlinkMark(p), NEW u \in Urbs
  PROVE UrbOk(u)'
  <1>1. TdTypes /\ UrbOk(u) /\ OneOwner
    BY DEF TdInv, DeviceOk
  <1>2. /\ urb_del' = [urb_del EXCEPT ![target[p]] = 1]
        /\ pc[p] = "mark" /\ irq = "off" /\ hcpriv[target[p]] # 0
        /\ UNCHANGED <<queue, hc_done, done_head, td_list, hcpriv, td_cnt, use, status,
                       disabled, freed, irq, cur, spin>>
    BY DEF UnlinkMark, Stale, Goto, Runs, edVars, hcVars, irqVars
  <1>3. Moves(p, "request", target[p]) /\ target[p] \in Urbs \cup {NoUrb}
    BY <1>1, MoveStay DEF UnlinkMark, Goto
  <1>4. Outstanding(u)' = Outstanding(u)
    BY <1>2, OutSame
  <1>5. CASE u # target[p]
    <2>1. SameOwner(u)
      BY <1>1, <1>3, <1>5, MoveOwners
    <2>2. urb_del'[u] = urb_del[u]
      BY <1>1, <1>2, <1>5 DEF TdTypes
    <2>3. QED BY <1>1, <1>2, <1>4, <2>1, <2>2, UrbElsewhere
  <1>6. CASE u = target[p]
    <2>1. \A q \in Procs : \A place : At(q, place, u)' <=> q = p /\ place = "request"
      BY <1>1, <1>3, <1>6, MoveOwners
    <2>2. urb_del'[u] = 1 /\ hcpriv[u] = 1
      BY <1>1, <1>2, <1>6 DEF TdTypes
    <2>3. ~ Submitting(u) /\ Queued(u) /\ At(p, "mark", u)
      BY <1>1, <1>2, <1>6, <2>2, Owner
    <2>4. urb_del[u] = 0
      BY <1>1, <2>3 DEF UrbOk, Owned
    <2>5. Owned(u)' /\ Queued(u)' /\ ~ Completing(u)' /\ ~ Submitting(u)'
      BY <1>2, <2>1, <2>2, OwnerAfter
    <2>6. Accounted(u)'
      BY <1>1, <1>2, <1>4, <2>2, <2>3, <2>5 DEF UrbOk, Accounted
    <2>7. Quiet(u)'
      BY <2>2, <2>5 DEF Quiet
    <2>8. ShortAsync => Held(u)'
      BY <1>1, <1>2, <2>2, <2>4 DEF UrbOk, Held, Holding, TdTypes
    <2>9. QED BY <2>5, <2>6, <2>7, <2>8 DEF UrbOk
  <1>7. QED BY <1>5, <1>6

(* The one who waited gives back the use.                                  *)
LEMMA EndUrb ==
  ASSUME TdInv, Alive, TdTypes', NEW p \in Procs, UnlinkEnd(p), NEW u \in Urbs
  PROVE UrbOk(u)'
  <1>1. TdTypes /\ UrbOk(u) /\ OneOwner /\ NoUrb \notin Urbs
    BY ConfigAssumption DEF TdInv, DeviceOk
  <1>2. /\ status' = [status EXCEPT ![target[p]] = "unlinked"]
        /\ use' = [use EXCEPT ![target[p]] = @ - 1]
        /\ pc[p] = "sleep" /\ irq = "off" /\ Moves(p, "idle", NoUrb)
        /\ UNCHANGED <<queue, hc_done, done_head, td_list, hcpriv, td_cnt, urb_del,
                       disabled, freed, irq, cur, spin>>
    BY DEF UnlinkEnd, DecUse, Goto, Runs, Release, Take, Moves, edVars, hcVars, irqVars
  <1>3. Outstanding(u)' = Outstanding(u)
    BY <1>2, OutSame
  <1>4. CASE u # target[p]
    <2>1. SameOwner(u)
      BY <1>1, <1>2, <1>4, MoveOwners
    <2>2. use'[u] = use[u] /\ status'[u] = status[u]
      BY <1>1, <1>2, <1>4 DEF TdTypes
    <2>3. QED BY <1>1, <1>2, <1>3, <2>1, <2>2, UrbElsewhere
  <1>5. CASE u = target[p]
    <2>1. \A q \in Procs : \A place : ~ At(q, place, u)'
      BY <1>1, <1>2, <1>5, MoveOwners
    <2>2. use'[u] = use[u] - 1 /\ use[u] \in Int
      BY <1>1, <1>2, <1>5 DEF TdTypes
    <2>3. /\ ~ Submitting(u) /\ At(p, "sleep", u) /\ Unlinking(u)
          /\ (Queued(u) <=> hcpriv[u] = 1)
      BY <1>1, <1>2, <1>5, Owner
    <2>4. urb_del[u] = 1 /\ u \notin AsyncUnlink
      BY <1>1, <2>3 DEF UrbOk, Owned
    <2>5. /\ Owned(u)' /\ ~ Completing(u)' /\ ~ Submitting(u)' /\ ~ Unlinking(u)'
          /\ (Queued(u)' <=> hcpriv'[u] = 1)
      BY <1>2, <2>1, NoOwner
    <2>6. Accounted(u)'
      BY <1>1, <1>2, <1>3, <2>3, <2>4, <2>5 DEF UrbOk, Accounted
    <2>7. Quiet(u)'
      BY <1>2, <2>4, <2>5 DEF Quiet
    <2>8. Holding(u) /\ ~ Holding(u)'
      BY <1>2, <2>3, <2>4, <2>5 DEF Holding
    <2>9. ShortAsync => Held(u)'
      BY <1>1, <2>2, <2>8 DEF UrbOk, Held
    <2>10. QED BY <2>5, <2>6, <2>7, <2>9 DEF UrbOk
  <1>6. QED BY <1>4, <1>5

(* sohci_free_dev comes when no use is left: what is held keeps it away.   *)
LEMMA FreeUrb ==
  ASSUME TdInv, Alive, TdTypes', ShortAsync \/ "free" \notin Features,
         NEW p \in Procs, FreeDev(p) \/ FreeWait(p) \/ FreeEnd(p), NEW u \in Urbs
  PROVE UrbOk(u)'
  <1>1. TdTypes /\ UrbOk(u) /\ OneOwner /\ NoUrb \notin Urbs
    BY ConfigAssumption DEF TdInv, DeviceOk
  <1>2. /\ UNCHANGED <<queue, hc_done, done_head, td_list, hcpriv, td_cnt, urb_del, use,
                       status, disabled, irq, cur, spin>>
        /\ irq = "off"
    BY DEF FreeDev, FreeWait, FreeEnd, Goto, Runs, edVars, urbVars, hcVars, irqVars
  <1>3. /\ target[p] = NoUrb
        /\ \E to \in {"freeing", "freewait", "idle"} : Moves(p, to, target[p])
    <2>1. pc[p] \in {"idle", "freeing", "freewait"}
      BY DEF FreeDev, FreeWait, FreeEnd, Goto
    <2>2. \E to \in {"freeing", "freewait", "idle"} :
             pc' = [pc EXCEPT ![p] = to] /\ target' = target
      BY DEF FreeDev, FreeWait, FreeEnd, Goto
    <2>3. QED BY <1>1, <2>1, <2>2, MoveStay DEF OneOwner
  <1>4. SameOwner(u) /\ Outstanding(u)' = Outstanding(u) /\ use[u] \in Int
    <2>1. PICK to \in {"freeing", "freewait", "idle"} : Moves(p, to, NoUrb)
      BY <1>3
    <2>2. SameOwner(u)
      BY <1>1, <1>3, <2>1, MoveOwners
    <2>3. QED BY <1>1, <1>2, <2>2, OutSame DEF TdTypes
  <1>5. CASE FreeWait(p) \/ FreeEnd(p)
    <2>1. freed' = freed
      BY <1>5 DEF FreeWait, FreeEnd
    <2>2. QED BY <1>1, <1>2, <1>4, <2>1, UrbElsewhere
  <1>6. CASE FreeDev(p)
    <2>1. use[u] = 0 /\ (\A q \in Procs : pc[q] = "idle") /\ ShortAsync
      BY <1>6 DEF FreeDev
    <2>2. ~ Holding(u)
      BY <1>1, <2>1 DEF UrbOk, Held
    <2>3. /\ Submitting(u)' <=> Submitting(u)
          /\ Queued(u)' <=> Queued(u)
          /\ Unlinking(u)' => Unlinking(u)
          /\ ~ Completing(u)'
      BY <1>2, <1>4, OwnerDecides DEF Completing
    <2>4. Owned(u)'
      BY <1>1, <1>2, <1>4 DEF UrbOk, Owned, SameOwner
    <2>5. Accounted(u)'
      BY <1>1, <1>2, <1>4, <2>3 DEF UrbOk, Accounted
    <2>6. Quiet(u)'
      BY <1>1, <1>2, <2>2, <2>3 DEF Quiet, Holding, TdTypes
    <2>7. Held(u)'
      BY <1>2, <1>4, <2>1, <2>2, <2>3 DEF Held, Holding
    <2>8. QED BY <2>4, <2>5, <2>6, <2>7 DEF UrbOk
  <1>7. QED BY <1>5, <1>6

-----------------------------------------------------------------------------
(* The invariant holds.                                                    *)

(* Every step leaves every urb as it must be.                              *)
LEMMA UrbKeeps ==
  ASSUME TdInv, Next, Alive', ShortAsync \/ "free" \notin Features, TdTypes',
         NEW u \in Urbs
  PROVE UrbOk(u)'
  <1>1. Alive
    BY StepAlive
  <1>2. CASE Frame \/ \E e \in Eds : HcRetire(e)
    BY <1>1, <1>2, FrameUrb, RetireUrb
  <1>3. CASE Irq
    <2>1. ~ DoneOrphan /\ ~ AfterDropped
      BY DEF DoneOrphan, AfterDropped, Fails, Alive
    <2>2. CASE IrqEnter
      BY <1>1, <2>2, EnterUrb
    <2>3. CASE DoneTd \/ DoneDeleted \/ DoneLast
      BY <1>1, <2>3, ServeUrb
    <2>4. CASE CompleteOnly \/ CompleteSubmitFails \/ CompleteDrop
      BY <1>1, <2>4, PassUrb
    <2>5. CASE CompleteSubmit
      BY <1>1, <2>5, SubmitUrb
    <2>6. CASE CompleteUnlink
      BY <1>1, <2>6, UnlinkUrb
    <2>7. CASE SpinFrame \/ IrqEnd
      BY <1>1, <2>7, DeleteUrb
    <2>8. CASE SpinEnd
      BY <1>1, <2>8, SpinEndUrb
    <2>9. CASE AfterComplete
      BY <1>1, <2>9, AfterUrb
    <2>10. CASE SpinBegin
      BY <1>1, <2>10, SpinBeginUrb
    <2>11. QED
      BY <1>3, <2>1, <2>2, <2>3, <2>4, <2>5, <2>6, <2>7, <2>8, <2>9, <2>10 DEF Irq
  <1>4. CASE SubmitShutdown \/ UnlinkDrop
    BY <1>1, <1>4, PassUrb
  <1>5. ASSUME NEW p \in Procs, Proc(p) PROVE UrbOk(u)'
    <2>1. ~ UnlinkStale(p) /\ ~ SubmitTwice(p)
      BY DEF UnlinkStale, SubmitTwice, Fails, Alive
    <2>2. CASE SubmitBegin(p)
      BY <1>1, <2>2, BeginUrb
    <2>3. CASE SubmitAlloc(p)
      BY <1>1, <2>3, AllocUrb
    <2>4. CASE SubmitFails(p)
      <3>1. /\ pc[p] \in {"add", "alloc", "link"} /\ irq = "off"
            /\ UndoSubmit(target[p])
            /\ Moves(p, "idle", NoUrb)
            /\ UNCHANGED <<queue, hc_done, done_head, td_list, td_cnt, urb_del, status,
                           disabled, freed, irq, cur, spin>>
        BY <2>4 DEF SubmitFails, Goto, Runs, Release, Take, Moves, edVars, hcVars, irqVars
      <3>2. QED BY <1>1, <3>1, UndoUrb
    <2>5. CASE SubmitLink(p)
      BY <1>1, <2>5, LinkUrb
    <2>6. CASE UnlinkBegin(p) \/ UnlinkRequest(p) \/ UnlinkAsync(p)
      BY <1>1, <2>6, TakeBackUrb
    <2>7. CASE UnlinkMark(p)
      BY <1>1, <2>7, MarkUrb
    <2>8. CASE UnlinkEnd(p)
      BY <1>1, <2>8, EndUrb
    <2>9. CASE FreeDev(p) \/ FreeWait(p) \/ FreeEnd(p)
      BY <1>1, <2>9, FreeUrb
    <2>10. CASE SubmitSetUp(p)
      BY <1>1, <2>10, SetUpUrb
    <2>11. QED
      BY <1>5, <2>1, <2>2, <2>3, <2>4, <2>5, <2>6, <2>7, <2>8, <2>9, <2>10 DEF Proc
  <1>6. QED BY <1>2, <1>3, <1>4, <1>5 DEF Next

(* Nothing has happened yet.                                               *)
LEMMA TdInit == Init => TdInv
  <1> SUFFICES ASSUME Init PROVE TdInv
    OBVIOUS
  <1>1. TdTypes
    <2>1. <<>> \in Seq(Td)
      BY EmptySeq
    <2>2. "none" \in Statuses /\ "idle" \in Places /\ 0 \in Frames
      BY DEF Statuses, Places, Frames
    <2>3. /\ state \in [Eds -> SUBSET Bits] /\ queue \in [Eds -> Seq(Td)]
          /\ ed_rm_list \in [Frames -> SUBSET Eds] /\ status \in [Urbs -> Statuses]
          /\ pc \in [Procs -> Places]
      BY <2>1, <2>2 DEF Init
    <2>4. QED BY <2>1, <2>2, <2>3 DEF Init, TdTypes
  <1>2. NoUrb \notin Urbs /\ \A p \in Procs : pc[p] = "idle" /\ target[p] = NoUrb
    BY ConfigAssumption DEF Init
  <1>3. DeviceOk
    <2>1. OneOwner
      BY <1>2 DEF OneOwner, Init
    <2>2. Handed
      BY DEF Handed, Init
    <2>3. AtHome
      BY DEF AtHome, Init
    <2>4. DelWhenFreed
      BY DEF DelWhenFreed, Init
    <2>5. QED BY <2>1, <2>2, <2>3, <2>4 DEF DeviceOk
  <1>4. ASSUME NEW u \in Urbs PROVE UrbOk(u)
    <2>1. Outstanding(u) = 0
      <3>1. queue[EdOf[u]] = <<>>
        BY ConfigAssumption DEF Init
      <3>2. hc_done = <<>> /\ done_head = <<>> /\ td_list = <<>>
        BY DEF Init
      <3>3. QED BY <3>1, <3>2, CountEmpty DEF Outstanding
    <2>2. /\ \A p \in Procs : \A place : ~ At(p, place, u)
          /\ hcpriv[u] = 0 /\ use[u] = 0 /\ urb_del[u] = 0 /\ irq = "off" /\ freed = 0
      BY <1>2 DEF Init, At
    <2>3. ~ Queued(u) /\ ~ Submitting(u) /\ ~ Completing(u)
      BY <2>2 DEF Queued, Submitting, Completing
    <2>4. Owned(u) /\ Accounted(u) /\ Quiet(u)
      BY <2>1, <2>2, <2>3 DEF Owned, Accounted, Quiet
    <2>5. Held(u)
      BY <2>2, <2>3 DEF Held, Holding
    <2>6. QED BY <2>4, <2>5 DEF UrbOk
  <1>5. QED BY <1>1, <1>3, <1>4 DEF TdInv

(* The invariant is inductive.                                             *)
LEMMA TdStep ==
  ASSUME ShortAsync \/ "free" \notin Features, TdInv, [Next]_vars
  PROVE TdInv'
  <1>1. CASE Next
    <2>1. TdTypes'
      BY <1>1, TypesKeep
    <2>2. ASSUME Alive' PROVE DeviceOk' /\ \A u \in Urbs : UrbOk(u)'
      <3>1. OneOwner' /\ Handed' /\ AtHome' /\ DelWhenFreed'
        BY <1>1, <2>2, OneOwnerKeeps, HandedKeeps, AtHomeKeeps, DelKeeps
      <3>2. \A u \in Urbs : UrbOk(u)'
        BY <1>1, <2>1, <2>2, UrbKeeps
      <3>3. QED BY <3>1, <3>2 DEF DeviceOk
    <2>3. QED BY <2>1, <2>2 DEF TdInv
  <1>2. CASE UNCHANGED vars
    <2>1. UNCHANGED <<state, queue, hcpriv, td_cnt, urb_del, status, use, ed_rm_list,
                      disabled, frame, wdh, hc_done, done_head, irq, ints, td_list, cur,
                      spin, pc, target, freed, fault>>
      BY <1>2 DEF vars, edVars, urbVars, hcVars, irqVars, procVars
    <2>2. TdTypes' <=> TdTypes
      BY <2>1 DEF TdTypes
    <2>3. DeviceOk' <=> DeviceOk
      BY <2>1 DEF DeviceOk, OneOwner, Unowned, Handed, AtHome, DelWhenFreed
    <2>4. \A u \in Urbs : UrbOk(u)' <=> UrbOk(u)
      <3>1. \A u : Outstanding(u)' = Outstanding(u)
        BY <2>1, OutSame
      <3>2. \A u \in Urbs : /\ Owned(u)' <=> Owned(u)
                            /\ Quiet(u)' <=> Quiet(u)
                            /\ Held(u)' <=> Held(u)
        BY <2>1 DEF Owned, Quiet, Held, Holding, Submitting, Unlinking, At
      <3>3. \A u \in Urbs : Accounted(u)' <=> Accounted(u)
        BY <2>1, <3>1 DEF Accounted, Queued, Submitting, Completing, At
      <3>4. QED BY <3>2, <3>3 DEF UrbOk
    <2>5. Alive' <=> Alive
      BY <2>1 DEF Alive
    <2>6. QED BY <2>2, <2>3, <2>4, <2>5 DEF TdInv
  <1>3. QED BY <1>1, <1>2

(* The invariant of the TDs and the uses: sohci_submit_urb, the done list, *)
(* dl_del_list and sohci_unlink_urb keep it, whatever interrupts them; if  *)
(* the device may be freed, as long as no urb unlinked asynchronously      *)
(* gives back its use more than once.                                      *)
THEOREM TdInvariance ==
  ASSUME ShortAsync \/ "free" \notin Features
  PROVE Spec => []TdInv
  <1>1. TdInv /\ [Next]_vars => TdInv'
    BY TdStep
  <1>2. QED BY <1>1, TdInit, PTL DEF Spec

(* td_cnt accounts for every TD: urb_rm_priv is called when none is out.   *)
THEOREM TdsAreAccounted ==
  ASSUME ShortAsync \/ "free" \notin Features
  PROVE Spec => []TdsAccounted
  <1>1. TdInv => TdsAccounted
    <2> SUFFICES ASSUME TdInv, Alive, disabled = 0, NEW u \in Urbs
                 PROVE Outstanding(u) = IF Queued(u) THEN Length[u] - td_cnt[u] ELSE 0
      BY DEF TdsAccounted
    <2>1. TdTypes /\ Accounted(u)
      BY DEF TdInv, UrbOk
    <2>2. Outstanding(u) \in Nat /\ td_cnt[u] \in Nat /\ Length[u] \in Nat
      BY <2>1, OutNat, ConfigAssumption DEF TdTypes
    <2>3. QED BY <2>1, <2>2 DEF Accounted
  <1>2. QED BY <1>1, TdInvariance, PTL

(* An urb under way that is not taken back holds a use of the device: the  *)
(* calls of usb_inc_dev_use and usb_dec_dev_use balance.                   *)
THEOREM UsesAreHeld ==
  ASSUME ShortAsync
  PROVE Spec => []UseHeld
  <1>1. TdInv => UseHeld
    <2> SUFFICES ASSUME TdInv, Alive, NEW u \in Urbs, hcpriv[u] = 1, urb_del[u] = 0
                 PROVE use[u] >= 1
      BY DEF UseHeld
    <2>1. Holding(u)
      BY DEF Holding
    <2>2. QED BY <2>1 DEF TdInv, UrbOk, Held
  <1>2. Spec => []TdInv
    BY TdInvariance
  <1>3. QED BY <1>1, <1>2, PTL

(* The handler comes upon a TD whose urb has lost its private part, in the *)
(* done list or in the queue of an ED on the removal list.                 *)
LostTd == fault \in {"orphan TD", "urb_priv"}
NoLostTd == disabled = 0 => ~ LostTd

(* dl_done_list and dl_del_list dereference no urb_priv that was freed, as *)
(* long as the controller is not hung.                                     *)
THEOREM NoTdIsLost ==
  ASSUME ShortAsync \/ "free" \notin Features
  PROVE Spec => []NoLostTd
  <1>1. Init => NoLostTd
    BY DEF Init, NoLostTd, LostTd
  <1>2. TdInv /\ NoLostTd /\ [Next]_vars => NoLostTd'
    <2> SUFFICES ASSUME TdInv, Next, disabled' = 0, LostTd' PROVE FALSE
      BY DEF NoLostTd, LostTd, vars
    <2>1. Alive /\ TdTypes /\ DeviceOk /\ \A u \in Urbs : UrbOk(u)
      BY StepAlive DEF TdInv
    <2>2. disabled = 0
      <3>1. disabled' = disabled \/ disabled' = 1
        BY DEF Next, HcRetire, Frame, SubmitShutdown, UnlinkDrop, Irq, IrqEnter,
         DoneTd, DoneDeleted, DoneLast, DoneStep, DoneOrphan, Fails, CompleteOnly,
         CompleteSubmit, CompleteSubmitFails, CompleteDrop, CompleteUnlink, SpinBegin,
         SpinFrame, SpinEnd, AfterComplete, AfterDropped, IrqEnd, Proc, SubmitBegin,
         SubmitSetUp, SubmitTwice, SubmitAlloc, SubmitFails, SubmitLink, UnlinkBegin,
         UnlinkStale, UnlinkMark, UnlinkRequest,
         UnlinkAsync, UnlinkEnd, FreeDev, FreeWait, FreeEnd
      <3>2. QED BY <3>1
    <2>3. \A u \in Urbs : hcpriv[u] = 0 => Outstanding(u) = 0
      BY <2>1, <2>2 DEF UrbOk, Accounted, Queued
    <2>4. CASE DoneOrphan
      <3>1. td_list \in Seq(Td) /\ td_list # <<>> /\ hcpriv[DoneUrb] = 0
        BY <2>1, <2>4 DEF DoneOrphan, TdTypes
      <3>2. Head(td_list) \in Td
        BY <3>1, CountTail
      <3>3. PICK u \in Urbs : u = DoneUrb
        BY <3>2 DEF DoneUrb, Td
      <3>4. Count(td_list, u) # 0
        <4>1. Count(td_list, u) = Count(Tail(td_list), u) + 1 /\ Tail(td_list) \in Seq(Td)
          BY <3>1, <3>3, CountTail DEF DoneUrb
        <4>2. Count(Tail(td_list), u) \in Nat
          BY <4>1, CountNat
        <4>3. QED BY <4>1, <4>2
      <3>5. Outstanding(u) # 0
        BY <2>1, <3>4, OutNat DEF Outstanding
      <3>6. QED BY <2>3, <3>1, <3>3, <3>5
    <2>5. CASE (SpinFrame \/ IrqEnd) /\ DlDelList(1 - frame)
      <3>1. fault' = IF \E e \in ed_rm_list[1 - frame] :
                           \E t \in ToSet(queue[e]) : hcpriv[t.urb] = 0
                     THEN "urb_priv"
                     ELSE IF \E e \in {x \in ed_rm_list[1 - frame] : "DEL" \in state[x]} :
                                linked[e] > 0
                          THEN "freed ED" ELSE fault
        BY <2>5 DEF DlDelList
      <3>2. 1 - frame \in Frames
        BY <2>1 DEF TdTypes, Frames
      <3>3. ASSUME NEW e \in ed_rm_list[1 - frame], NEW t \in ToSet(queue[e]),
                   hcpriv[t.urb] = 0
            PROVE FALSE
        <4>1. e \in Eds /\ queue[e] \in Seq(Td)
          BY <2>1, <3>2 DEF TdTypes
        <4>2. PICK i \in DOMAIN queue[e] : queue[e][i] = t
          BY DEF ToSet
        <4>3. t \in Td
          BY <4>1, <4>2
        <4>4. PICK u \in Urbs : u = t.urb
          BY <4>3 DEF Td
        <4>5. EdOf[u] = e
          BY <2>1, <4>1, <4>2, <4>4 DEF DeviceOk, AtHome
        <4>6. Count(queue[EdOf[u]], u) # 0
          BY <4>1, <4>2, <4>4, <4>5, CountNat
        <4>7. Outstanding(u) # 0
          BY <2>1, <4>6, OutNat DEF Outstanding
        <4>8. QED BY <2>3, <3>3, <4>4, <4>7
      <3>4. QED BY <2>1, <3>1, <3>3 DEF Alive, LostTd
    <2>6. CASE ~ DoneOrphan /\ ~ ((SpinFrame \/ IrqEnd) /\ DlDelList(1 - frame))
      <3>1. fault = "none"
        BY <2>1 DEF Alive
      <3>2. ~ LostTd'
        <4>1. CASE Irq
          BY <2>6, <3>1, <4>1 DEF Irq, IrqEnter, DoneTd, DoneDeleted, DoneLast, DoneStep,
             CompleteOnly, CompleteSubmit, LinkAndQueue, EpLink, CompleteSubmitFails,
             CompleteDrop, CompleteUnlink, SpinBegin, SpinFrame, NothingDeleted, SpinEnd,
             AfterComplete, AfterDropped, Fails, IrqEnd, DelFrame, LostTd
        <4>2. CASE \/ \E e \in Eds : HcRetire(e)
                   \/ Frame \/ SubmitShutdown \/ UnlinkDrop
          BY <3>1, <4>2 DEF HcRetire, Frame, SubmitShutdown, UnlinkDrop, LostTd
        <4>3. ASSUME NEW p \in Procs, Proc(p)
              PROVE ~ LostTd'
          BY <3>1, <4>3 DEF Proc, SubmitBegin, SubmitSetUp, SubmitTwice, SubmitAlloc,
             SubmitFails, SubmitLink, LinkAndQueue, EpLink, UnlinkBegin, UnlinkStale,
             Fails, UnlinkMark, UnlinkRequest, UnlinkAsync, UnlinkEnd, FreeDev, FreeWait,
             FreeEnd, LostTd
        <4>4. QED BY <4>1, <4>2, <4>3 DEF Next
      <3>3. QED BY <3>2
    <2>7. QED BY <2>4, <2>5, <2>6
  <1>3. QED BY <1>1, <1>2, TdInvariance, PTL DEF Spec
=============================================================================

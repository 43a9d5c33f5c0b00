--------------------------- MODULE LocalMemProofs ---------------------------
(* Safety of the allocator, for any number of processes, regions and sizes.*)
EXTENDS LocalMem, TLAPS

-----------------------------------------------------------------------------
(* Blocks.                                                                 *)

(* A block that is cut is divided in two.                                  *)
LEMMA CutFacts ==
  ASSUME NEW b \in Block, NEW n \in Nat \ {0}, n < b.size
  PROVE  /\ Shrunk(b, n) \in Block /\ Cut(b, n) \in Block
         /\ Disjoint(Shrunk(b, n), Cut(b, n))
         /\ Cells(Shrunk(b, n)) \subseteq Cells(b)
         /\ Cells(Cut(b, n)) \subseteq Cells(b)
         /\ \A x \in Block : Disjoint(b, x) =>
                Disjoint(Shrunk(b, n), x) /\ Disjoint(Cut(b, n), x)
  <1>1. Shrunk(b, n) \in Block /\ Cut(b, n) \in Block
    BY DEF Shrunk, Cut, Mb, Block
  <1>2. Disjoint(Shrunk(b, n), Cut(b, n))
    BY DEF Disjoint, Shrunk, Cut, Mb, Block
  <1>3. Cells(Shrunk(b, n)) \subseteq Cells(b)
    BY DEF Cells, Shrunk, Mb, Block
  <1>4. Cells(Cut(b, n)) \subseteq Cells(b)
    BY DEF Cells, Cut, Mb, Block
  <1>5. ASSUME NEW x \in Block, Disjoint(b, x)
        PROVE  Disjoint(Shrunk(b, n), x) /\ Disjoint(Cut(b, n), x)
    BY <1>5 DEF Disjoint, Shrunk, Cut, Mb, Block
  <1>6. QED
    BY <1>1, <1>2, <1>3, <1>4, <1>5

(* Two blocks that meet make one of both.                                  *)
LEMMA MergeFacts ==
  ASSUME NEW a \in Block, NEW b \in Block, Precedes(a, b)
  PROVE  /\ Merged(a, b) \in Block
         /\ Cells(Merged(a, b)) \subseteq Cells(a) \cup Cells(b)
         /\ \A x \in Block : Disjoint(a, x) /\ Disjoint(b, x) =>
                Disjoint(Merged(a, b), x)
  <1>1. Merged(a, b) \in Block
    BY DEF Merged, Mb, Block
  <1>2. Cells(Merged(a, b)) \subseteq Cells(a) \cup Cells(b)
    BY DEF Cells, Precedes, Merged, Mb, Block
  <1>3. ASSUME NEW x \in Block, Disjoint(a, x), Disjoint(b, x)
        PROVE  Disjoint(Merged(a, b), x)
    BY <1>3 DEF Disjoint, Precedes, Merged, Mb, Block
  <1>4. QED
    BY <1>1, <1>2, <1>3

(* Blocks without a common cell lie apart; the relation is symmetric.      *)
LEMMA DisjointFacts ==
  ASSUME NEW a \in Block, NEW b \in Block
  PROVE  /\ Disjoint(a, b) <=> Disjoint(b, a)
         /\ (\A c \in Cells(a) : c \notin Cells(b)) => Disjoint(a, b)
  <1>1. Disjoint(a, b) <=> Disjoint(b, a)
    BY DEF Disjoint
  <1>2. ASSUME ~ Disjoint(a, b) PROVE \E c \in Cells(a) : c \in Cells(b)
    <2>1. CASE a.p >= b.p
      BY <1>2, <2>1 DEF Disjoint, Cells, Block
    <2>2. CASE a.p < b.p
      BY <1>2, <2>2 DEF Disjoint, Cells, Block
    <2>3. QED
      BY <2>1, <2>2 DEF Block
  <1>3. QED
    BY <1>1, <1>2

(* A region is a block, and has no cell of another region.                 *)
LEMMA RegionFacts ==
  ASSUME NEW r \in Bases
  PROVE  /\ Mb(r, Unit) \in Block
         /\ \A s \in Bases \ {r} : \A c \in Cells(Mb(r, Unit)) :
                c \notin Cells(Mb(s, Unit))
  <1>1. Mb(r, Unit) \in Block
    BY RegionAssumption DEF Mb, Block
  <1>2. ASSUME NEW s \in Bases \ {r}, NEW c \in Cells(Mb(r, Unit))
        PROVE  c \notin Cells(Mb(s, Unit))
    BY RegionAssumption DEF Mb, Cells
  <1>3. QED
    BY <1>1, <1>2

-----------------------------------------------------------------------------
(* Layouts: free blocks F, allocated ones A, and the part nw[q] that each  *)
(* call q in C has cut off, all within the cells R.                        *)

Apart(F, A, C, nw) ==
  /\ \A a, b \in F : a = b \/ Disjoint(a, b)
  /\ \A a, b \in A : a = b \/ Disjoint(a, b)
  /\ \A a \in F, b \in A : Disjoint(a, b)
  /\ \A q \in C : \A b \in F \cup A : Disjoint(nw[q], b)
  /\ \A q, r \in C : q = r \/ Disjoint(nw[q], nw[r])

Pieces(F, A, C, nw) == F \cup A \cup { nw[q] : q \in C }

Layout(F, A, C, nw, R) ==
  /\ \A b \in Pieces(F, A, C, nw) : b \in Block /\ Cells(b) \subseteq R
  /\ Apart(F, A, C, nw)

(* A free block is allocated.                                              *)
LEMMA LayoutWhole ==
  ASSUME NEW F, NEW A, NEW C, NEW nw, NEW R, Layout(F, A, C, nw, R),
         NEW b \in F
  PROVE  Layout(F \ {b}, A \cup {b}, C, nw, R)
  <1>1. b \in Block /\ F \subseteq Block /\ A \subseteq Block
    BY DEF Layout, Pieces
  <1>2. Pieces(F \ {b}, A \cup {b}, C, nw) \subseteq Pieces(F, A, C, nw)
    BY DEF Pieces
  <1>3. Apart(F \ {b}, A \cup {b}, C, nw)
    BY <1>1, DisjointFacts DEF Layout, Apart
  <1>4. QED
    BY <1>2, <1>3 DEF Layout

(* A part of the memory is forgotten.                                      *)
LEMMA LayoutLess ==
  ASSUME NEW F, NEW A, NEW C, NEW nw, NEW R, Layout(F, A, C, nw, R),
         NEW G \in SUBSET F, NEW B \in SUBSET A, NEW D \in SUBSET C,
         NEW mw, \A q \in D : mw[q] = nw[q]
  PROVE  Layout(G, B, D, mw, R)
  <1>1. Pieces(G, B, D, mw) \subseteq Pieces(F, A, C, nw)
    BY DEF Pieces
  <1>2. Apart(G, B, D, mw)
    BY DEF Layout, Apart
  <1>3. QED
    BY <1>1, <1>2 DEF Layout

(* A free block is cut, its upper part is allocated.                       *)
LEMMA LayoutTop ==
  ASSUME NEW F, NEW A, NEW C, NEW nw, NEW R, Layout(F, A, C, nw, R),
         NEW b \in F, NEW n \in Nat \ {0}, n < b.size
  PROVE  Layout((F \ {b}) \cup {Shrunk(b, n)}, A \cup {Cut(b, n)}, C, nw, R)
  <1> DEFINE s == Shrunk(b, n)
             t == Cut(b, n)
             G == (F \ {b}) \cup {s}
             B == A \cup {t}
  <1>1. b \in Block /\ F \subseteq Block /\ A \subseteq Block
    BY DEF Layout, Pieces
  <1>2. /\ s \in Block /\ t \in Block /\ Disjoint(s, t)
        /\ Cells(s) \subseteq R /\ Cells(t) \subseteq R
        /\ \A x \in Block : Disjoint(b, x) => Disjoint(s, x) /\ Disjoint(t, x)
    BY <1>1, CutFacts DEF Layout, Pieces
  <1>3. \A x, y \in Block : Disjoint(x, y) <=> Disjoint(y, x)
    BY DisjointFacts
  <1>4. \A x \in (F \ {b}) \cup A : Disjoint(b, x)
    BY DEF Layout, Apart
  <1>5. \A q \in C : nw[q] \in Block /\ Disjoint(b, nw[q])
    BY <1>1, <1>3 DEF Layout, Apart, Pieces
  <1> HIDE DEF s, t
  <1>6. \A x \in Pieces(G, B, C, nw) : x \in Block /\ Cells(x) \subseteq R
    BY <1>2 DEF Layout, Pieces
  <1>7. Apart(G, B, C, nw)
    <2>1. \A x, y \in G : x = y \/ Disjoint(x, y)
      BY <1>1, <1>2, <1>3, <1>4 DEF Layout, Apart
    <2>2. \A x, y \in B : x = y \/ Disjoint(x, y)
      BY <1>1, <1>2, <1>3, <1>4 DEF Layout, Apart
    <2>3. \A x \in G, y \in B : Disjoint(x, y)
      BY <1>1, <1>2, <1>3, <1>4 DEF Layout, Apart
    <2>4. \A q \in C : \A x \in G \cup B : Disjoint(nw[q], x)
      BY <1>1, <1>2, <1>3, <1>5 DEF Layout, Apart
    <2>5. \A q, r \in C : q = r \/ Disjoint(nw[q], nw[r])
      BY DEF Layout, Apart
    <2>6. QED
      BY <2>1, <2>2, <2>3, <2>4, <2>5 DEF Apart
  <1>8. QED
    BY <1>6, <1>7 DEF Layout, s, t

(* An allocated block is taken by a call that waits for its mb ...         *)
LEMMA LayoutWait ==
  ASSUME NEW F, NEW A, NEW C, NEW nw, NEW R, NEW b \in A,
         Layout(F, A, C, nw, R),
         NEW q, q \notin C, NEW mw, mw[q] = b, \A r \in C : mw[r] = nw[r]
  PROVE  Layout(F, A \ {b}, C \cup {q}, mw, R)
  <1>1. b \in Block /\ \A r \in C : nw[r] \in Block
    BY DEF Layout, Pieces
  <1>2. Pieces(F, A \ {b}, C \cup {q}, mw) \subseteq Pieces(F, A, C, nw)
    BY DEF Pieces
  <1>3. Apart(F, A \ {b}, C \cup {q}, mw)
    BY <1>1, DisjointFacts DEF Layout, Apart, Pieces
  <1>4. QED
    BY <1>2, <1>3 DEF Layout

(* ... and allocated when it has got it.                                   *)
LEMMA LayoutGot ==
  ASSUME NEW F, NEW A, NEW C, NEW nw, NEW R, Layout(F, A, C, nw, R),
         NEW q \in C, NEW mw, \A r \in C \ {q} : mw[r] = nw[r]
  PROVE  Layout(F, A \cup {nw[q]}, C \ {q}, mw, R)
  <1>1. nw[q] \in Block /\ F \subseteq Block /\ A \subseteq Block
    BY DEF Layout, Pieces
  <1>2. Pieces(F, A \cup {nw[q]}, C \ {q}, mw) \subseteq Pieces(F, A, C, nw)
    BY DEF Pieces
  <1>3. Apart(F, A \cup {nw[q]}, C \ {q}, mw)
    BY <1>1, DisjointFacts DEF Layout, Apart
  <1>4. QED
    BY <1>2, <1>3 DEF Layout

(* A block of new memory, or of allocated memory, becomes free.            *)
LEMMA LayoutFree ==
  ASSUME NEW F, NEW A, NEW C, NEW nw, NEW R, Layout(F, A, C, nw, R),
         NEW x \in Block, Cells(x) \subseteq R,
         \A y \in Pieces(F, A, C, nw) : Disjoint(x, y)
  PROVE  Layout(F \cup {x}, A, C, nw, R)
  <1>1. \A y \in Pieces(F, A, C, nw) : y \in Block /\ Disjoint(y, x)
    BY DisjointFacts DEF Layout
  <1>2. \A y \in Pieces(F \cup {x}, A, C, nw) : y \in Block /\ Cells(y) \subseteq R
    BY DEF Layout, Pieces
  <1>3. Apart(F \cup {x}, A, C, nw)
    BY <1>1 DEF Layout, Apart, Pieces
  <1>4. QED
    BY <1>2, <1>3 DEF Layout

(* More memory.                                                            *)
LEMMA LayoutMore ==
  ASSUME NEW F, NEW A, NEW C, NEW nw, NEW R, Layout(F, A, C, nw, R),
         NEW S, R \subseteq S
  PROVE  Layout(F, A, C, nw, S)
  BY DEF Layout

(* An allocated block is freed: alone, or with the free block before it.   *)
LEMMA LayoutFreed ==
  ASSUME NEW F, NEW A, NEW C, NEW nw, NEW R, Layout(F, A, C, nw, R),
         NEW b \in A
  PROVE  /\ Layout(F \cup {b}, A \ {b}, C, nw, R)
         /\ \A a \in F : Precedes(a, b) =>
                Layout((F \ {a}) \cup {Merged(a, b)}, A \ {b}, C, nw, R)
  <1>1. b \in Block /\ Cells(b) \subseteq R
    BY DEF Layout, Pieces
  <1>2. \A y \in Pieces(F, A \ {b}, C, nw) : y \in Block /\ Disjoint(b, y)
    <2>1. \A y \in Pieces(F, A, C, nw) : y \in Block
      BY DEF Layout
    <2>2. \A y \in Pieces(F, A \ {b}, C, nw) : Disjoint(b, y) \/ Disjoint(y, b)
      BY DEF Layout, Apart, Pieces
    <2>3. QED
      BY <1>1, <2>1, <2>2, DisjointFacts DEF Pieces
  <1>3. Layout(F, A \ {b}, C, nw, R)
    BY LayoutLess
  <1>4. Layout(F \cup {b}, A \ {b}, C, nw, R)
    BY <1>1, <1>2, <1>3, LayoutFree
  <1>5. ASSUME NEW a \in F, Precedes(a, b)
        PROVE  Layout((F \ {a}) \cup {Merged(a, b)}, A \ {b}, C, nw, R)
    <2>1. a \in Block /\ Cells(a) \subseteq R
      BY DEF Layout, Pieces
    <2>2. Layout(F \ {a}, A \ {b}, C, nw, R)
      BY LayoutLess
    <2>3. \A y \in Pieces(F \ {a}, A \ {b}, C, nw) : y \in Block /\ Disjoint(a, y)
      <3>1. \A y \in Pieces(F, A, C, nw) : y \in Block
        BY DEF Layout
      <3>2. \A y \in Pieces(F \ {a}, A \ {b}, C, nw) :
                Disjoint(a, y) \/ Disjoint(y, a)
        BY DEF Layout, Apart, Pieces
      <3>3. QED
        BY <2>1, <3>1, <3>2, DisjointFacts DEF Pieces
    <2>4. /\ Merged(a, b) \in Block /\ Cells(Merged(a, b)) \subseteq R
          /\ \A y \in Block : Disjoint(a, y) /\ Disjoint(b, y) =>
                 Disjoint(Merged(a, b), y)
      BY <1>1, <1>5, <2>1, MergeFacts
    <2>5. \A y \in Pieces(F \ {a}, A \ {b}, C, nw) : Disjoint(Merged(a, b), y)
      BY <1>2, <2>3, <2>4 DEF Pieces
    <2>6. QED
      BY <2>2, <2>4, <2>5, LayoutFree
  <1>6. QED
    BY <1>4, <1>5

-----------------------------------------------------------------------------
(* The inductive invariant, if line 110 reads its index after the call.    *)

LayoutInv == Layout(FreeList, AllocList, Cutting, new, RegionCells)

(* The table has at most one region too many, and then the model stops;    *)
(* a call is made while the allocator is there.                            *)
CallInv ==
  /\ ~ fault => nlocal_mems <= MaxMems
  /\ ~ loaded => nlocal_mems = 0
  /\ \A q \in Procs : pc[q] # "idle" => loaded /\ want[q] \in Sizes

LocalInv == TypeOK /\ CallInv /\ LayoutInv

(* It holds initially.                                                     *)
LEMMA LocalInit == Init => LocalInv
  <1> SUFFICES ASSUME Init PROVE LocalInv
    OBVIOUS
  <1>1. TypeOK
    <2>1. TableType
      <3>1. 0 \in Slots /\ local_mems \in [Slots -> Bases \cup {NULL}]
        BY RegionAssumption DEF Init, Slots
      <3>2. QED
        BY <3>1 DEF Init, TableType
    <2>2. ListType
      BY DEF Init, ListType
    <2>3. CallType
      BY RegionAssumption DEF Init, CallType, Slots
    <2>4. QED
      BY <2>1, <2>2, <2>3 DEF TypeOK
  <1>2. CallInv
    BY RegionAssumption DEF Init, CallInv
  <1>3. Cutting = {}
    BY DEF Init, Cutting
  <1>4. LayoutInv
    BY <1>3 DEF Init, LayoutInv, Layout, Pieces, Apart
  <1>5. QED
    BY <1>1, <1>2, <1>4 DEF LocalInv

(* What does not touch the blocks keeps the layout.                        *)
LEMMA SameLayout ==
  ASSUME LayoutInv, UNCHANGED <<FreeList, AllocList, new, heap>>,
         Cutting' = Cutting
  PROVE  LayoutInv'
  BY DEF LayoutInv, RegionCells

(* Steps of a call between other places than the wait for the mb.          *)
LEMMA SameCutting ==
  ASSUME CallType, NEW q \in Procs, NEW from, NEW to,
         Goto(q, from, to) \/ Sleep(q, from, to), from # "cut", to # "cut"
  PROVE  Cutting' = Cutting
  BY DEF CallType, Goto, Sleep, Cutting

(* The end of a call keeps the types.                                      *)
LEMMA ReturnType ==
  ASSUME CallType, NEW q \in Procs, NEW from, Return(q, from),
         do_retry' \in [Procs -> BOOLEAN],
         new' \in [Procs -> Block \cup {NULL}]
  PROVE  CallType'
  <1>1. 0 \in Slots
    BY RegionAssumption DEF Slots
  <1>2. pc' = [pc EXCEPT ![q] = "idle"] /\ cpu' = Idle
    BY DEF Return, Sleep
  <1>3. want' = [want EXCEPT ![q] = 0] /\ slot' = [slot EXCEPT ![q] = 0]
    BY DEF Return
  <1>4. QED
    BY <1>1, <1>2, <1>3 DEF CallType

(* The steps of a call that move no block.                                 *)
LEMMA QuietStep ==
  ASSUME LocalInv, NEW q \in Procs,
         \/ \E n \in Sizes : Call(q, n)
         \/ TestInsufficient(q) \/ GrowItem(q) \/ GrowItemFails(q)
         \/ ScanNone(q) \/ ScanFails(q)
  PROVE  LocalInv'
  <1> USE DEF LocalInv, TypeOK, CallInv
  <1>1. CASE \E n \in Sizes : Call(q, n)
    <2>1. PICK n \in Sizes : Call(q, n)
      BY <1>1
    <2> USE <2>1 DEF Call, tableVars, listVars
    <2>2. TableType' /\ ListType'
      BY DEF TableType, ListType
    <2>3. CallType'
      BY DEF CallType, Goto
    <2>4. CallInv'
      BY DEF CallType, Goto
    <2>5. LayoutInv'
      BY SameLayout, SameCutting
    <2>6. QED
      BY <2>2, <2>3, <2>4, <2>5
  <1>2. CASE TestInsufficient(q)
    <2> USE <1>2 DEF TestInsufficient, tableVars, listVars
    <2>1. TableType' /\ ListType'
      BY DEF TableType, ListType
    <2>2. CallType'
      BY DEF CallType, TableType, Goto, Sleep, Return, RetryOnce
    <2>3. CallInv'
      BY DEF CallType, Goto, Sleep, Return
    <2>4. LayoutInv'
      BY SameLayout, SameCutting DEF Return
    <2>5. QED
      BY <2>1, <2>2, <2>3, <2>4
  <1>3. CASE GrowItem(q)
    <2> USE <1>3 DEF GrowItem, tableVars, listVars
    <2>1. TableType' /\ ListType'
      BY DEF TableType, ListType
    <2>2. CallType'
      BY DEF CallType, TableType, Goto, Sleep, Return, RetryOnce
    <2>3. CallInv'
      BY DEF CallType, Goto, Sleep, Return
    <2>4. LayoutInv'
      BY SameLayout, SameCutting DEF Return
    <2>5. QED
      BY <2>1, <2>2, <2>3, <2>4
  <1>4. CASE GrowItemFails(q)
    <2> USE <1>4 DEF GrowItemFails, tableVars, listVars
    <2>1. TableType' /\ ListType'
      BY DEF TableType, ListType
    <2>2. CallType'
      BY DEF CallType, TableType, Goto, Sleep, Return, RetryOnce
    <2>3. CallInv'
      BY DEF CallType, Goto, Sleep, Return
    <2>4. LayoutInv'
      BY SameLayout, SameCutting DEF Return
    <2>5. QED
      BY <2>1, <2>2, <2>3, <2>4
  <1>5. CASE ScanNone(q)
    <2> USE <1>5 DEF ScanNone, tableVars, listVars
    <2>1. TableType' /\ ListType'
      BY DEF TableType, ListType
    <2>2. CallType'
      BY DEF CallType, TableType, Goto, Sleep, Return, RetryOnce
    <2>3. CallInv'
      BY DEF CallType, Goto, Sleep, Return
    <2>4. LayoutInv'
      BY SameLayout, SameCutting DEF Return
    <2>5. QED
      BY <2>1, <2>2, <2>3, <2>4
  <1>6. CASE ScanFails(q)
    <2> USE <1>6 DEF ScanFails, tableVars, listVars
    <2>1. TableType' /\ ListType'
      BY DEF TableType, ListType
    <2>2. CallType'
      <3>1. do_retry' \in [Procs -> BOOLEAN] /\ new' \in [Procs -> Block \cup {NULL}]
        BY DEF CallType
      <3>2. QED
        BY <3>1, ReturnType
    <2>3. CallInv'
      BY DEF CallType, Goto, Sleep, Return
    <2>4. LayoutInv'
      BY SameLayout, SameCutting DEF Return
    <2>5. QED
      BY <2>1, <2>2, <2>3, <2>4
  <1>7. QED
    BY <1>1, <1>2, <1>3, <1>4, <1>5, <1>6

(* A region the heap grants, if it grants one, is a new free block.        *)
LEMMA NewRegion ==
  ASSUME LocalInv, nlocal_mems <= MaxMems,
         NEW r \in (Bases \ heap) \cup {NULL}, EnterRegion(nlocal_mems, r),
         heap' = IF r = NULL THEN heap ELSE heap \cup {r},
         UNCHANGED <<AllocList, new>>, Cutting' = Cutting
  PROVE  /\ local_mems' \in [Slots -> Bases \cup {NULL}]
         /\ heap' \subseteq Bases /\ FreeList' \subseteq Block
         /\ nlocal_mems' \in {nlocal_mems, nlocal_mems + 1}
         /\ LayoutInv'
  <1>1. /\ local_mems \in [Slots -> Bases \cup {NULL}] /\ nlocal_mems \in Slots
        /\ heap \subseteq Bases /\ FreeList \subseteq Block
        /\ LayoutInv
    BY DEF LocalInv, TypeOK, TableType, ListType
  <1>2. /\ local_mems' = [local_mems EXCEPT ![nlocal_mems] = r]
        /\ r = NULL => UNCHANGED <<nlocal_mems, FreeList>>
        /\ r # NULL => /\ FreeList' = FreeList \cup {Mb(r, Unit)}
                       /\ nlocal_mems' = nlocal_mems + 1
    BY <1>1 DEF EnterRegion
  <1>3. CASE r = NULL
    <2>1. LayoutInv'
      BY <1>1, <1>2, <1>3, SameLayout
    <2>2. QED
      BY <1>1, <1>2, <1>3, <2>1
  <1>4. CASE r # NULL
    <2> DEFINE x == Mb(r, Unit)
    <2>1. r \in Bases \ heap /\ heap' = heap \cup {r}
      BY <1>4
    <2>2. /\ x \in Block
          /\ \A h \in heap : \A c \in Cells(x) : c \notin Cells(Mb(h, Unit))
      BY <1>1, <2>1, RegionFacts
    <2>3. RegionCells \subseteq RegionCells' /\ Cells(x) \subseteq RegionCells'
      BY <2>1 DEF RegionCells
    <2>4. \A c \in Cells(x) : c \notin RegionCells
      BY <2>2 DEF RegionCells
    <2> HIDE DEF x
    <2>5. \A y \in Pieces(FreeList, AllocList, Cutting, new) : Disjoint(x, y)
      BY <1>1, <2>2, <2>4, DisjointFacts DEF LayoutInv, Layout
    <2>6. Layout(FreeList, AllocList, Cutting, new, RegionCells')
      BY <1>1, <2>3, LayoutMore DEF LayoutInv
    <2>7. Layout(FreeList \cup {x}, AllocList, Cutting, new, RegionCells')
      BY <2>2, <2>3, <2>5, <2>6, LayoutFree
    <2>8. FreeList' = FreeList \cup {x}
      BY <1>2, <1>4 DEF x
    <2>9. LayoutInv'
      BY <2>7, <2>8 DEF LayoutInv
    <2>10. QED
      BY <1>1, <1>2, <1>4, <2>1, <2>2, <2>8, <2>9
  <1>5. QED
    BY <1>3, <1>4

(* The steps that enter a region in the table.                             *)
LEMMA RegionStep ==
  ASSUME LocalInv, ~ IndexFirst,
         \/ \E q \in Procs, r \in Grants : GrowRegion(q, r) \/ GrowOverrun(q, r)
         \/ \E r \in Bases \ heap : AllocateOhci(r) \/ AllocateOhciFails(r)
  PROVE  LocalInv'
  <1>1. TableType /\ ListType /\ CallType /\ CallInv /\ LayoutInv
    BY DEF LocalInv, TypeOK
  <1>2. CASE \E q \in Procs, r \in Grants : GrowRegion(q, r) \/ GrowOverrun(q, r)
    <2>1. PICK q \in Procs, r \in Grants : GrowRegion(q, r) \/ GrowOverrun(q, r)
      BY <1>2
    <2>2. /\ Goto(q, "heap", "scan") /\ ~ fault
          /\ EnterRegion(nlocal_mems, r)
          /\ heap' = IF r = NULL THEN heap ELSE heap \cup {r}
          /\ UNCHANGED <<loaded, insufficient_local_mem, AllocList, lost, want,
                         do_retry, slot, new>>
          /\ \/ UNCHANGED fault /\ nlocal_mems < MaxMems
             \/ fault'
          /\ fault' \in BOOLEAN
      BY <1>1, <2>1 DEF GrowRegion, GrowOverrun, Goto, Runs, Index, TableType
    <2>3. Cutting' = Cutting
      BY <1>1, <2>2, SameCutting
    <2>4. nlocal_mems <= MaxMems /\ r \in (Bases \ heap) \cup {NULL}
      BY <1>1, <2>2 DEF CallInv, Grants
    <2>5. /\ local_mems' \in [Slots -> Bases \cup {NULL}]
          /\ heap' \subseteq Bases /\ FreeList' \subseteq Block
          /\ nlocal_mems' \in {nlocal_mems, nlocal_mems + 1}
          /\ LayoutInv'
      BY <2>2, <2>3, <2>4, NewRegion
    <2>6. nlocal_mems' \in Slots /\ (~ fault' => nlocal_mems' <= MaxMems)
      BY <1>1, <2>2, <2>4, <2>5, RegionAssumption DEF TableType, Slots
    <2>7. TableType' /\ ListType'
      BY <1>1, <2>2, <2>5, <2>6 DEF TableType, ListType
    <2>8. CallType'
      BY <1>1, <2>2 DEF CallType, Goto
    <2>9. loaded
      BY <1>1, <2>2 DEF CallInv, Goto
    <2>10. CallInv'
      BY <1>1, <2>2, <2>6, <2>9 DEF CallInv, CallType, Goto
    <2>11. QED
      BY <2>5, <2>7, <2>8, <2>10 DEF LocalInv, TypeOK
  <1>3. CASE \E r \in Bases \ heap : AllocateOhci(r)
    <2>1. PICK r \in Bases \ heap : AllocateOhci(r)
      BY <1>3
    <2>2. /\ heap' = IF r = NULL THEN heap ELSE heap \cup {r}
          /\ Cutting' = Cutting
          /\ UNCHANGED <<AllocList, new>>
          /\ EnterRegion(nlocal_mems, r)
      BY <2>1, RegionAssumption DEF AllocateOhci, Cutting
    <2>3. nlocal_mems = 0
      BY <1>1, <2>1 DEF AllocateOhci, CallInv
    <2>4. nlocal_mems <= MaxMems
      BY <2>3, RegionAssumption
    <2>5. /\ local_mems' \in [Slots -> Bases \cup {NULL}]
          /\ heap' \subseteq Bases /\ FreeList' \subseteq Block
          /\ nlocal_mems' \in {nlocal_mems, nlocal_mems + 1}
          /\ LayoutInv'
      BY <2>2, <2>4, NewRegion
    <2>6. nlocal_mems' \in Slots /\ nlocal_mems' <= MaxMems
      BY <2>3, <2>5, RegionAssumption DEF Slots
    <2>7. TableType' /\ ListType'
      BY <1>1, <2>1, <2>5, <2>6 DEF TableType, ListType, AllocateOhci
    <2>8. CallType' /\ CallInv'
      BY <1>1, <2>1, <2>6 DEF CallType, CallInv, AllocateOhci
    <2>9. QED
      BY <2>5, <2>7, <2>8 DEF LocalInv, TypeOK
  <1>4. CASE \E r \in Bases \ heap : AllocateOhciFails(r)
    <2>1. PICK r \in Bases \ heap : AllocateOhciFails(r)
      BY <1>4
    <2> USE <2>1 DEF AllocateOhciFails, listVars
    <2>2. TableType' /\ ListType'
      BY <1>1 DEF TableType, ListType
    <2>3. CallType' /\ CallInv'
      BY <1>1 DEF CallType, CallInv
    <2>4. LayoutInv'
      BY <1>1, SameLayout DEF Cutting
    <2>5. QED
      BY <2>2, <2>3, <2>4 DEF LocalInv, TypeOK
  <1>5. QED
    BY <1>2, <1>3, <1>4

(* The steps of a call that take a block.                                  *)
LEMMA ScanStep ==
  ASSUME LocalInv, NEW q \in Procs, ScanWhole(q) \/ ScanTop(q) \/ CutDone(q)
  PROVE  LocalInv'
  <1>1. TableType /\ ListType /\ CallType /\ CallInv /\ LayoutInv
    BY DEF LocalInv, TypeOK
  <1>2. CASE ScanWhole(q)
    <2>1. PICK b \in FreeList : TakeWhole(b)
      BY <1>2 DEF ScanWhole
    <2>2. /\ Return(q, "scan") /\ do_retry' = [do_retry EXCEPT ![q] = FALSE]
          /\ UNCHANGED <<loaded, tableVars, insufficient_local_mem, lost, new, fault>>
      BY <1>2 DEF ScanWhole
    <2>3. Layout(FreeList', AllocList', Cutting, new, RegionCells)
      BY <1>1, <2>1, LayoutWhole DEF LayoutInv, TakeWhole
    <2>4. Cutting' = Cutting /\ RegionCells' = RegionCells
      BY <1>1, <2>2, SameCutting DEF Return, RegionCells, tableVars
    <2>5. LayoutInv'
      BY <2>2, <2>3, <2>4 DEF LayoutInv
    <2>6. TableType' /\ ListType'
      BY <1>1, <2>1, <2>2 DEF TableType, ListType, TakeWhole, tableVars
    <2>7. CallType'
      <3>1. do_retry' \in [Procs -> BOOLEAN] /\ new' \in [Procs -> Block \cup {NULL}]
        BY <1>1, <2>2 DEF CallType
      <3>2. QED
        BY <1>1, <2>2, <3>1, ReturnType
    <2>8. CallInv'
      BY <1>1, <2>2 DEF CallType, CallInv, Return, Sleep, tableVars
    <2>9. QED
      BY <2>5, <2>6, <2>7, <2>8 DEF LocalInv, TypeOK
  <1>3. CASE ScanTop(q)
    <2>1. PICK b \in FreeList : /\ b.size > want[q]
                                /\ TakeTop(b, want[q])
                                /\ new' = [new EXCEPT ![q] = Cut(b, want[q])]
      BY <1>3 DEF ScanTop
    <2>2. /\ Sleep(q, "scan", "cut")
          /\ do_retry' = [do_retry EXCEPT ![q] = FALSE]
          /\ UNCHANGED <<loaded, tableVars, insufficient_local_mem, AllocList,
                         lost, want, slot, fault>>
      BY <1>3 DEF ScanTop
    <2> DEFINE n == want[q]
               t == Cut(b, n)
    <2>3. n \in Nat \ {0} /\ b \in Block /\ n < b.size
      BY <1>1, <2>1, <2>2, RegionAssumption DEF CallInv, ListType, Sleep, Block
    <2>4. t \in Block /\ ~ Disjoint(t, t) /\ Shrunk(b, n) \in Block
      <3>1. t \in Block /\ Shrunk(b, n) \in Block
        BY <2>3, CutFacts
      <3>2. QED
        BY <3>1 DEF Disjoint, Block
    <2>5. t \notin AllocList
      <3>1. t \in AllocList => Disjoint(b, t)
        BY <1>1 DEF LayoutInv, Layout, Apart
      <3>2. Disjoint(b, t) => Disjoint(t, t)
        BY <2>3, <2>4, CutFacts
      <3>3. QED
        BY <2>4, <3>1, <3>2
    <2>6. /\ FreeList' = (FreeList \ {b}) \cup {Shrunk(b, n)}
          /\ new' = [new EXCEPT ![q] = t]
      BY <2>1 DEF TakeTop
    <2>7. Layout(FreeList', AllocList \cup {t}, Cutting, new, RegionCells)
      BY <1>1, <2>3, <2>6, LayoutTop DEF LayoutInv
    <2>8. q \notin Cutting /\ Cutting' = Cutting \cup {q}
      BY <1>1, <2>2 DEF Cutting, CallType, Sleep
    <2>9. new'[q] = t /\ \A r \in Cutting : new'[r] = new[r]
      BY <1>1, <2>6, <2>8 DEF CallType, Cutting
    <2> HIDE DEF t
    <2>10. Layout(FreeList', (AllocList \cup {t}) \ {t}, Cutting \cup {q}, new',
                  RegionCells)
      BY <2>7, <2>8, <2>9, LayoutWait
    <2>11. (AllocList \cup {t}) \ {t} = AllocList'
      BY <2>2, <2>5
    <2>12. RegionCells' = RegionCells
      BY <2>2 DEF RegionCells, tableVars
    <2>13. LayoutInv'
      BY <2>8, <2>10, <2>11, <2>12 DEF LayoutInv
    <2>14. TableType' /\ ListType'
      BY <1>1, <2>2, <2>4, <2>6 DEF TableType, ListType, tableVars
    <2>15. CallType'
      BY <1>1, <2>2, <2>4, <2>6 DEF CallType, Sleep
    <2>16. CallInv'
      BY <1>1, <2>2 DEF CallType, CallInv, Sleep, tableVars
    <2>17. QED
      BY <2>13, <2>14, <2>15, <2>16 DEF LocalInv, TypeOK
  <1>4. CASE CutDone(q)
    <2>1. /\ Return(q, "cut")
          /\ \/ AllocList' = AllocList \cup {new[q]} /\ lost' = lost
             \/ lost' = lost \cup {new[q]} /\ AllocList' = AllocList
          /\ new' = [new EXCEPT ![q] = NULL]
          /\ UNCHANGED <<loaded, tableVars, insufficient_local_mem, FreeList,
                         do_retry, fault>>
      BY <1>4 DEF CutDone
    <2>2. /\ q \in Cutting /\ Cutting' = Cutting \ {q}
          /\ \A r \in Cutting \ {q} : new'[r] = new[r]
      BY <1>1, <2>1 DEF Cutting, CallType, Return, Sleep
    <2>3. Layout(FreeList, AllocList \cup {new[q]}, Cutting \ {q}, new', RegionCells)
      BY <1>1, <2>2, LayoutGot DEF LayoutInv
    <2>4. Layout(FreeList, AllocList, Cutting \ {q}, new', RegionCells)
      BY <1>1, <2>2, LayoutLess DEF LayoutInv
    <2>5. RegionCells' = RegionCells
      BY <2>1 DEF RegionCells, tableVars
    <2>6. LayoutInv'
      BY <2>1, <2>2, <2>3, <2>4, <2>5 DEF LayoutInv
    <2>7. new[q] \in Block
      BY <1>1, <2>2 DEF LayoutInv, Layout, Pieces
    <2>8. TableType' /\ ListType'
      BY <1>1, <2>1, <2>7 DEF TableType, ListType, tableVars
    <2>9. CallType'
      <3>1. do_retry' \in [Procs -> BOOLEAN] /\ new' \in [Procs -> Block \cup {NULL}]
        BY <1>1, <2>1 DEF CallType
      <3>2. QED
        BY <1>1, <2>1, <3>1, ReturnType
    <2>10. CallInv'
      BY <1>1, <2>1 DEF CallType, CallInv, Return, Sleep, tableVars
    <2>11. QED
      BY <2>6, <2>8, <2>9, <2>10 DEF LocalInv, TypeOK
  <1>5. QED
    BY <1>2, <1>3, <1>4

(* The interrupt handler allocates, anybody frees, the driver ends.        *)
LEMMA OtherStep ==
  ASSUME LocalInv,
         \/ \E n \in Sizes : IrqAlloc(n)
         \/ \E b \in AllocList : Free(b)
         \/ FreeOhci
  PROVE  LocalInv'
  <1>1. TableType /\ ListType /\ CallType /\ CallInv /\ LayoutInv
    BY DEF LocalInv, TypeOK
  <1>2. ASSUME UNCHANGED <<loaded, tableVars, cpu, pc, want, do_retry, slot,
                           new, fault>>
        PROVE  /\ TableType' /\ CallType' /\ CallInv'
               /\ Cutting' = Cutting /\ RegionCells' = RegionCells
    BY <1>1, <1>2
       DEF TableType, CallType, CallInv, Cutting, RegionCells, tableVars
  <1>3. CASE \E n \in Sizes : IrqAlloc(n)
    <2>1. PICK n \in Sizes : IrqAlloc(n)
      BY <1>3
    <2>2. UNCHANGED <<loaded, tableVars, cpu, pc, want, do_retry, slot, new, fault>>
      BY <2>1 DEF IrqAlloc
    <2>3. /\ Layout(FreeList', AllocList', Cutting, new, RegionCells)
          /\ ListType'
      <3>1. CASE UNCHANGED listVars
        BY <1>1, <2>1, <3>1 DEF LayoutInv, ListType, listVars, IrqAlloc
      <3>2. CASE /\ \E b \in FreeList : b.size = n /\ TakeWhole(b)
                 /\ UNCHANGED <<insufficient_local_mem, lost>>
        <4>1. PICK b \in FreeList : TakeWhole(b)
          BY <3>2
        <4>2. Layout(FreeList', AllocList', Cutting, new, RegionCells)
          BY <1>1, <4>1, LayoutWhole DEF LayoutInv, TakeWhole
        <4>3. QED
          BY <1>1, <3>2, <4>1, <4>2 DEF ListType, TakeWhole
      <3>3. ASSUME NEW b \in FreeList, b.size > n, TakeTop(b, n),
                   \/ AllocList' = AllocList \cup {Cut(b, n)} /\ lost' = lost
                   \/ lost' = lost \cup {Cut(b, n)} /\ AllocList' = AllocList,
                   UNCHANGED insufficient_local_mem
            PROVE  /\ Layout(FreeList', AllocList', Cutting, new, RegionCells)
                   /\ ListType'
        <4>1. n \in Nat \ {0} /\ b \in Block /\ n < b.size
          BY <1>1, <3>3, RegionAssumption DEF ListType, Block
        <4>2. FreeList' = (FreeList \ {b}) \cup {Shrunk(b, n)}
          BY <3>3 DEF TakeTop
        <4>3. Layout(FreeList', AllocList \cup {Cut(b, n)}, Cutting, new, RegionCells)
          BY <1>1, <4>1, <4>2, LayoutTop DEF LayoutInv
        <4>4. Layout(FreeList', AllocList, Cutting, new, RegionCells)
          BY <4>3, LayoutLess
        <4>5. Shrunk(b, n) \in Block /\ Cut(b, n) \in Block
          BY <4>1, CutFacts
        <4>6. ListType'
          BY <1>1, <3>3, <4>2, <4>5 DEF ListType
        <4>7. QED
          BY <3>3, <4>3, <4>4, <4>6
      <3>4. QED
        BY <2>1, <3>1, <3>2, <3>3 DEF IrqAlloc
    <2>4. QED
      BY <1>2, <2>2, <2>3 DEF LocalInv, TypeOK, LayoutInv
  <1>4. CASE \E b \in AllocList : Free(b)
    <2>1. PICK b \in AllocList : Free(b)
      BY <1>4
    <2>2. UNCHANGED <<loaded, tableVars, cpu, pc, want, do_retry, slot, new,
                      fault, insufficient_local_mem, lost>>
      BY <2>1 DEF Free
    <2>3. Layout(FreeList', AllocList', Cutting, new, RegionCells)
      <3>1. AllocList' = AllocList \ {b}
        BY <2>1 DEF Free
      <3>2. CASE FreeList' = FreeList \cup {b}
        BY <1>1, <3>1, <3>2, LayoutFreed DEF LayoutInv
      <3>3. ASSUME NEW a \in FreeList, Precedes(a, b),
                   FreeList' = (FreeList \ {a}) \cup {Merged(a, b)}
            PROVE  Layout(FreeList', AllocList', Cutting, new, RegionCells)
        BY <1>1, <3>1, <3>3, LayoutFreed DEF LayoutInv
      <3>4. QED
        BY <2>1, <3>2, <3>3 DEF Free
    <2>4. FreeList' \subseteq Block /\ AllocList' \subseteq Block
      BY <2>3 DEF Layout, Pieces
    <2>5. ListType'
      BY <1>1, <2>2, <2>4 DEF ListType
    <2>6. QED
      BY <1>2, <2>2, <2>3, <2>5 DEF LocalInv, TypeOK, LayoutInv
  <1>5. CASE FreeOhci
    <2> USE <1>5 DEF FreeOhci, CleanupLocalMem, DropFreeList
    <2>1. TableType'
      <3>1. 0 \in Slots
        BY RegionAssumption DEF Slots
      <3>2. QED
        BY <1>1, <3>1 DEF TableType
    <2>2. ListType'
      BY <1>1 DEF ListType
    <2>3. CallType'
      BY <1>1 DEF CallType
    <2>4. CallInv'
      BY <1>1, RegionAssumption DEF CallInv
    <2>5. Cutting' = {} /\ FreeList' = {} /\ AllocList' = {}
      BY DEF Cutting
    <2>6. LayoutInv'
      BY <2>5 DEF LayoutInv, Layout, Pieces, Apart
    <2>7. QED
      BY <2>1, <2>2, <2>3, <2>4, <2>6 DEF LocalInv, TypeOK
  <1>6. QED
    BY <1>3, <1>4, <1>5

(* The invariant holds of every behaviour.                                 *)
THEOREM LocalInvariance ==
  ASSUME ~ IndexFirst
  PROVE  Spec => []LocalInv
  <1>1. LocalInv /\ UNCHANGED vars => LocalInv'
    <2> SUFFICES ASSUME LocalInv, UNCHANGED vars PROVE LocalInv'
      OBVIOUS
    <2> USE DEF vars, tableVars, listVars
    <2>1. TableType' /\ ListType'
      BY DEF LocalInv, TypeOK, TableType, ListType
    <2>2. CallType' /\ CallInv'
      BY DEF LocalInv, TypeOK, CallType, CallInv
    <2>3. LayoutInv'
      BY SameLayout DEF LocalInv, Cutting
    <2>4. QED
      BY <2>1, <2>2, <2>3 DEF LocalInv, TypeOK
  <1>2. LocalInv /\ Next => LocalInv'
    BY ~ IndexFirst, QuietStep, RegionStep, ScanStep, OtherStep DEF Next, Step
  <1>3. QED
    BY <1>1, <1>2, LocalInit, PTL DEF Spec

-----------------------------------------------------------------------------
(* What follows from it.                                                   *)

(* The lists hold blocks and the table regions, also behind its end.       *)
THEOREM LocalTypes ==
  ASSUME ~ IndexFirst
  PROVE  Spec => []TypeOK
  BY LocalInvariance, PTL DEF LocalInv

(* No memory is given to two users, whatever processes and the interrupt   *)
(* handler do while a call sleeps between cutting a block and entering it. *)
THEOREM BlocksNeverOverlap ==
  ASSUME ~ IndexFirst
  PROVE  Spec => []NoOverlap
  <1>1. LocalInv => NoOverlap
    BY DEF LocalInv, LayoutInv, Layout, Apart, NoOverlap
  <1>2. QED
    BY <1>1, LocalInvariance, PTL

(* Every block lies in memory the heap has granted, blocks merged across   *)
(* the border of two regions included.                                     *)
THEOREM BlocksWithinRegions ==
  ASSUME ~ IndexFirst
  PROVE  Spec => []WithinRegions
  <1>1. LocalInv => WithinRegions
    BY DEF LocalInv, LayoutInv, Layout, Pieces, Blocks, WithinRegions
  <1>2. QED
    BY <1>1, LocalInvariance, PTL

-----------------------------------------------------------------------------
(* The table of regions.                                                   *)

(* Entering a region that is not in the table keeps the table exact.       *)
LEMMA EnterKnown ==
  ASSUME LocalInv, RegionsKnown, nlocal_mems <= MaxMems,
         NEW r \in (Bases \ heap) \cup {NULL}, EnterRegion(nlocal_mems, r),
         heap' = IF r = NULL THEN heap ELSE heap \cup {r}
  PROVE  RegionsKnown'
  <1>1. local_mems \in [Slots -> Bases \cup {NULL}] /\ nlocal_mems \in Slots
    BY DEF LocalInv, TypeOK, TableType
  <1>2. /\ local_mems' = [local_mems EXCEPT ![nlocal_mems] = r]
        /\ r = NULL => UNCHANGED nlocal_mems
        /\ r # NULL => nlocal_mems' = nlocal_mems + 1
    BY <1>1 DEF EnterRegion
  <1>3. nlocal_mems \in Nat /\ 0 .. nlocal_mems \subseteq Slots
    BY <1>1, RegionAssumption DEF Slots
  <1>4. /\ local_mems'[nlocal_mems] = r
        /\ \A i \in 0 .. nlocal_mems - 1 : local_mems'[i] = local_mems[i]
    BY <1>1, <1>2, <1>3
  <1>5. CASE r = NULL
    BY <1>2, <1>3, <1>4, <1>5 DEF RegionsKnown, TableRegions
  <1>6. CASE r # NULL
    <2>1. 0 .. nlocal_mems' - 1 = (0 .. nlocal_mems - 1) \cup {nlocal_mems}
      BY <1>2, <1>3, <1>6
    <2>2. TableRegions' = TableRegions \cup {r}
      BY <1>4, <2>1 DEF TableRegions
    <2>3. r \notin TableRegions /\ heap' = heap \cup {r}
      BY <1>6 DEF RegionsKnown
    <2>4. \A i \in 0 .. nlocal_mems - 1 : local_mems[i] \in TableRegions
      BY DEF TableRegions
    <2>5. \A i, j \in 0 .. nlocal_mems' - 1 :
              local_mems'[i] = local_mems'[j] => i = j
      BY <1>4, <2>1, <2>3, <2>4 DEF RegionsKnown
    <2>6. QED
      BY <2>2, <2>3, <2>5 DEF RegionsKnown
  <1>7. QED
    BY <1>5, <1>6

(* The table knows every region once, if line 110 reads its index after    *)
(* the call.                                                               *)
THEOREM RegionsAreKnown ==
  ASSUME ~ IndexFirst
  PROVE  Spec => []RegionsKnown
  <1>1. Init => RegionsKnown
    BY DEF Init, RegionsKnown, TableRegions
  <1>2. ASSUME RegionsKnown, UNCHANGED tableVars PROVE RegionsKnown'
    BY <1>2 DEF RegionsKnown, TableRegions, tableVars
  <1>3. ASSUME LocalInv, RegionsKnown, NEW q \in Procs, NEW r \in Grants,
               GrowRegion(q, r) \/ GrowOverrun(q, r)
        PROVE  RegionsKnown'
    <2>1. /\ ~ fault /\ EnterRegion(nlocal_mems, r)
          /\ heap' = IF r = NULL THEN heap ELSE heap \cup {r}
      BY <1>3, ~ IndexFirst DEF GrowRegion, GrowOverrun, Goto, Runs, Index
    <2>2. nlocal_mems <= MaxMems /\ r \in (Bases \ heap) \cup {NULL}
      BY <1>3, <2>1 DEF LocalInv, CallInv, Grants
    <2>3. QED
      BY <1>3, <2>1, <2>2, EnterKnown
  <1>4. ASSUME LocalInv, RegionsKnown, NEW r \in Bases \ heap, AllocateOhci(r)
        PROVE  RegionsKnown'
    <2>1. /\ nlocal_mems = 0 /\ EnterRegion(nlocal_mems, r)
          /\ heap' = IF r = NULL THEN heap ELSE heap \cup {r}
      BY <1>4, RegionAssumption DEF AllocateOhci, LocalInv, CallInv
    <2>2. nlocal_mems <= MaxMems
      BY <2>1, RegionAssumption
    <2>3. QED
      BY <1>4, <2>1, <2>2, EnterKnown
  <1>5. ASSUME LocalInv, RegionsKnown, NEW r \in Bases \ heap,
               AllocateOhciFails(r)
        PROVE  RegionsKnown'
    <2>1. /\ local_mems \in [Slots -> Bases \cup {NULL}]
          /\ nlocal_mems \in Nat /\ 0 .. nlocal_mems \subseteq Slots
      BY <1>5, RegionAssumption DEF LocalInv, TypeOK, TableType, Slots
    <2>2. /\ UNCHANGED <<nlocal_mems, heap>>
          /\ \A i \in 0 .. nlocal_mems - 1 : local_mems'[i] = local_mems[i]
      BY <1>5, <2>1 DEF AllocateOhciFails
    <2>3. QED
      BY <1>5, <2>2 DEF RegionsKnown, TableRegions
  <1>6. ASSUME RegionsKnown, FreeOhci PROVE RegionsKnown'
    BY <1>6 DEF RegionsKnown, TableRegions, FreeOhci, CleanupLocalMem
  <1>7. LocalInv /\ RegionsKnown /\ [Next]_vars => RegionsKnown'
    BY <1>2, <1>3, <1>4, <1>5, <1>6 DEF Next, Step, Call, TestInsufficient,
       GrowItem, GrowItemFails, ScanWhole, ScanTop, ScanNone, ScanFails,
       CutDone, IrqAlloc, Free, vars
  <1>8. QED
    BY <1>1, <1>7, LocalInvariance, PTL DEF Spec

-----------------------------------------------------------------------------
(* Nothing of the granted memory is forgotten.                             *)

Cover(S) == UNION { Cells(b) : b \in S }
Memory == Blocks \cup lost

(* Cutting a block divides its cells, merging joins them.                  *)
LEMMA CellFacts ==
  /\ \A b \in Block : \A n \in Nat \ {0} :
         n < b.size => Cells(b) = Cells(Shrunk(b, n)) \cup Cells(Cut(b, n))
  /\ \A a, b \in Block :
         Precedes(a, b) => Cells(Merged(a, b)) = Cells(a) \cup Cells(b)
  <1>1. ASSUME NEW b \in Block, NEW n \in Nat \ {0}, n < b.size
        PROVE  Cells(b) = Cells(Shrunk(b, n)) \cup Cells(Cut(b, n))
    BY <1>1 DEF Cells, Shrunk, Cut, Mb, Block
  <1>2. ASSUME NEW a \in Block, NEW b \in Block, Precedes(a, b)
        PROVE  Cells(Merged(a, b)) = Cells(a) \cup Cells(b)
    BY <1>2 DEF Cells, Precedes, Merged, Mb, Block
  <1>3. QED
    BY <1>1, <1>2

(* A cut does not change what a set of blocks covers.                      *)
LEMMA CoverCut ==
  ASSUME NEW S, NEW T, NEW b \in S, b \in Block,
         NEW n \in Nat \ {0}, n < b.size,
         (S \ {b}) \cup {Shrunk(b, n), Cut(b, n)} \subseteq T,
         T \subseteq S \cup {Shrunk(b, n), Cut(b, n)}
  PROVE  Cover(T) = Cover(S)
  <1>1. Cells(b) = Cells(Shrunk(b, n)) \cup Cells(Cut(b, n))
    BY CellFacts
  <1>2. Cover(T) \subseteq Cover(S)
    BY <1>1 DEF Cover
  <1>3. Cover(S) \subseteq Cover(T)
    BY <1>1 DEF Cover
  <1>4. QED
    BY <1>2, <1>3

(* A neighbour joined to a block covers what the two covered before.       *)
LEMMA CoverMerge ==
  ASSUME NEW S, NEW T, NEW a \in S, NEW b \in S, a \in Block, b \in Block,
         Precedes(a, b),
         (S \ {a, b}) \cup {Merged(a, b)} \subseteq T,
         T \subseteq S \cup {Merged(a, b)}
  PROVE  Cover(T) = Cover(S)
  <1>1. Cells(Merged(a, b)) = Cells(a) \cup Cells(b)
    BY CellFacts
  <1>2. Cover(T) \subseteq Cover(S)
    BY <1>1 DEF Cover
  <1>3. Cover(S) \subseteq Cover(T)
    BY <1>1 DEF Cover
  <1>4. QED
    BY <1>2, <1>3

(* Steps that change neither the regions nor what the blocks cover.        *)
LEMMA SameCover ==
  ASSUME Tiling, UNCHANGED heap, Cover(Memory') = Cover(Memory)
  PROVE  Tiling'
  BY DEF Tiling, RegionCells, Cover, Memory

(* A region the heap grants, if it grants one, is covered by its block.    *)
LEMMA NewCover ==
  ASSUME LocalInv, Tiling, NEW r \in (Bases \ heap) \cup {NULL},
         EnterRegion(nlocal_mems, r),
         heap' = IF r = NULL THEN heap ELSE heap \cup {r},
         UNCHANGED <<AllocList, new, lost>>, Cutting' = Cutting
  PROVE  Tiling'
  <1>1. /\ r = NULL => UNCHANGED FreeList
        /\ r # NULL => FreeList' = FreeList \cup {Mb(r, Unit)}
    BY DEF EnterRegion, LocalInv, TypeOK, TableType
  <1>2. CASE r = NULL
    <2>1. Memory' = Memory
      BY <1>1, <1>2 DEF Memory, Blocks
    <2>2. QED
      BY <1>2, <2>1, SameCover
  <1>3. CASE r # NULL
    <2>1. Memory' = Memory \cup {Mb(r, Unit)}
      BY <1>1, <1>3 DEF Memory, Blocks
    <2>2. Cover(Memory') = Cover(Memory) \cup Cells(Mb(r, Unit))
      BY <2>1 DEF Cover
    <2>3. RegionCells' = RegionCells \cup Cells(Mb(r, Unit))
      BY <1>3 DEF RegionCells
    <2>4. QED
      BY <2>2, <2>3 DEF Tiling, Cover, Memory
  <1>4. QED
    BY <1>2, <1>3

(* The steps of a call.                                                    *)
LEMMA CallCover ==
  ASSUME LocalInv, Tiling, ~ IndexFirst, NEW q \in Procs,
         Step(q) \/ \E n \in Sizes : Call(q, n)
  PROVE  Tiling'
  <1>1. ListType /\ CallType /\ CallInv
    BY DEF LocalInv, TypeOK
  <1>2. CASE \/ \E n \in Sizes : Call(q, n)
             \/ TestInsufficient(q) \/ GrowItem(q) \/ GrowItemFails(q)
             \/ ScanNone(q) \/ ScanFails(q)
    <2>1. UNCHANGED <<heap, FreeList, AllocList, lost, new>>
      BY <1>2 DEF Call, TestInsufficient, GrowItem, GrowItemFails, ScanNone,
         ScanFails, tableVars, listVars
    <2>2. Cutting' = Cutting
      BY <1>1, <1>2, SameCutting DEF Call, TestInsufficient, GrowItem,
         GrowItemFails, ScanNone, ScanFails, Return
    <2>3. Memory' = Memory
      BY <2>1, <2>2 DEF Memory, Blocks
    <2>4. QED
      BY <2>1, <2>3, SameCover
  <1>3. ASSUME NEW r \in Grants, GrowRegion(q, r) \/ GrowOverrun(q, r)
        PROVE  Tiling'
    <2>1. /\ Goto(q, "heap", "scan")
          /\ EnterRegion(nlocal_mems, r)
          /\ heap' = IF r = NULL THEN heap ELSE heap \cup {r}
          /\ UNCHANGED <<AllocList, new, lost>>
      BY <1>3, ~ IndexFirst DEF GrowRegion, GrowOverrun, Index
    <2>2. Cutting' = Cutting
      BY <1>1, <2>1, SameCutting
    <2>3. QED
      BY <2>1, <2>2, NewCover DEF Grants
  <1>4. CASE ScanWhole(q)
    <2>1. PICK b \in FreeList : TakeWhole(b)
      BY <1>4 DEF ScanWhole
    <2>2. UNCHANGED <<heap, lost, new>> /\ Cutting' = Cutting
      BY <1>1, <1>4, SameCutting DEF ScanWhole, Return, tableVars
    <2>3. Memory' = Memory
      BY <2>1, <2>2 DEF Memory, Blocks, TakeWhole
    <2>4. QED
      BY <2>2, <2>3, SameCover
  <1>5. CASE ScanTop(q)
    <2>1. PICK b \in FreeList : /\ b.size > want[q]
                                /\ TakeTop(b, want[q])
                                /\ new' = [new EXCEPT ![q] = Cut(b, want[q])]
      BY <1>5 DEF ScanTop
    <2>2. Sleep(q, "scan", "cut") /\ UNCHANGED <<heap, AllocList, lost>>
      BY <1>5 DEF ScanTop, tableVars
    <2> DEFINE n == want[q]
               s == Shrunk(b, n)
               t == Cut(b, n)
    <2>3. n \in Nat \ {0} /\ b \in Block /\ n < b.size
      BY <1>1, <2>1, <2>2, RegionAssumption DEF CallInv, ListType, Sleep, Block
    <2>4. q \notin Cutting /\ Cutting' = Cutting \cup {q}
      BY <1>1, <2>2 DEF Cutting, CallType, Sleep
    <2>5. new'[q] = t /\ \A r \in Cutting : new'[r] = new[r]
      BY <1>1, <2>1, <2>4 DEF CallType, Cutting
    <2>6. FreeList' = (FreeList \ {b}) \cup {s}
      BY <2>1 DEF TakeTop
    <2> HIDE DEF s, t
    <2>7. { new'[r] : r \in Cutting' } = { new[r] : r \in Cutting } \cup {t}
      BY <2>4, <2>5
    <2>8. /\ (Memory \ {b}) \cup {s, t} \subseteq Memory'
          /\ Memory' \subseteq Memory \cup {s, t}
      BY <2>2, <2>6, <2>7 DEF Memory, Blocks
    <2>9. b \in Memory
      BY DEF Memory, Blocks
    <2>10. Cover(Memory') = Cover(Memory)
      BY <2>3, <2>8, <2>9, CoverCut DEF s, t
    <2>11. QED
      BY <2>2, <2>10, SameCover
  <1>6. CASE CutDone(q)
    <2>1. /\ Return(q, "cut")
          /\ \/ AllocList' = AllocList \cup {new[q]} /\ lost' = lost
             \/ lost' = lost \cup {new[q]} /\ AllocList' = AllocList
          /\ new' = [new EXCEPT ![q] = NULL]
          /\ UNCHANGED <<heap, FreeList>>
      BY <1>6 DEF CutDone, tableVars
    <2>2. /\ q \in Cutting /\ Cutting' = Cutting \ {q}
          /\ \A r \in Cutting \ {q} : new'[r] = new[r]
      BY <1>1, <2>1 DEF Cutting, CallType, Return, Sleep
    <2>3. { new'[r] : r \in Cutting' } \cup {new[q]} = { new[r] : r \in Cutting }
      BY <2>2
    <2>4. Memory' = Memory
      BY <2>1, <2>3 DEF Memory, Blocks
    <2>5. QED
      BY <2>1, <2>4, SameCover
  <1>7. QED
    BY <1>2, <1>3, <1>4, <1>5, <1>6 DEF Step

(* The steps of the handler, and those that free.                          *)
LEMMA FreeCover ==
  ASSUME LocalInv, Tiling,
         (\E n \in Sizes : IrqAlloc(n)) \/ \E b \in AllocList : Free(b)
  PROVE  Tiling'
  <1>1. ListType
    BY DEF LocalInv, TypeOK
  <1>2. UNCHANGED <<heap, new>> /\ Cutting' = Cutting
    BY DEF IrqAlloc, Free, tableVars, Cutting
  <1>3. CASE \E n \in Sizes : IrqAlloc(n)
    <2>1. PICK n \in Sizes : IrqAlloc(n)
      BY <1>3
    <2>2. CASE UNCHANGED listVars
      <3>1. Memory' = Memory
        BY <1>2, <2>2 DEF Memory, Blocks, listVars
      <3>2. QED
        BY <1>2, <3>1, SameCover
    <2>3. CASE (\E b \in FreeList : TakeWhole(b)) /\ lost' = lost
      <3>1. Memory' = Memory
        BY <1>2, <2>3 DEF Memory, Blocks, TakeWhole
      <3>2. QED
        BY <1>2, <3>1, SameCover
    <2>4. ASSUME NEW b \in FreeList, b.size > n, TakeTop(b, n),
                 \/ AllocList' = AllocList \cup {Cut(b, n)} /\ lost' = lost
                 \/ lost' = lost \cup {Cut(b, n)} /\ AllocList' = AllocList
          PROVE  Tiling'
      <3> DEFINE s == Shrunk(b, n)
                 t == Cut(b, n)
      <3>1. n \in Nat \ {0} /\ b \in Block /\ n < b.size
        BY <1>1, <2>4, RegionAssumption DEF ListType, Block
      <3>2. /\ FreeList' = (FreeList \ {b}) \cup {s}
            /\ \/ AllocList' = AllocList \cup {t} /\ lost' = lost
               \/ lost' = lost \cup {t} /\ AllocList' = AllocList
        BY <2>4 DEF TakeTop
      <3> HIDE DEF s, t
      <3>3. /\ (Memory \ {b}) \cup {s, t} \subseteq Memory'
            /\ Memory' \subseteq Memory \cup {s, t}
        BY <1>2, <3>2 DEF Memory, Blocks
      <3>4. b \in Memory
        BY DEF Memory, Blocks
      <3>5. Cover(Memory') = Cover(Memory)
        BY <3>1, <3>3, <3>4, CoverCut DEF s, t
      <3>6. QED
        BY <1>2, <3>5, SameCover
    <2>5. QED
      BY <2>1, <2>2, <2>3, <2>4 DEF IrqAlloc
  <1>4. CASE \E b \in AllocList : Free(b)
    <2>1. PICK b \in AllocList : Free(b)
      BY <1>4
    <2>2. AllocList' = AllocList \ {b} /\ lost' = lost
      BY <2>1 DEF Free
    <2>3. CASE FreeList' = FreeList \cup {b}
      <3>1. Memory' = Memory
        BY <1>2, <2>2, <2>3 DEF Memory, Blocks
      <3>2. QED
        BY <1>2, <3>1, SameCover
    <2>4. ASSUME NEW a \in FreeList, Precedes(a, b),
                 FreeList' = (FreeList \ {a}) \cup {Merged(a, b)}
          PROVE  Tiling'
      <3>1. a \in Block /\ b \in Block /\ a \in Memory /\ b \in Memory
        BY <1>1 DEF ListType, Memory, Blocks
      <3>2. /\ (Memory \ {a, b}) \cup {Merged(a, b)} \subseteq Memory'
            /\ Memory' \subseteq Memory \cup {Merged(a, b)}
        BY <1>2, <2>2, <2>4 DEF Memory, Blocks
      <3>3. Cover(Memory') = Cover(Memory)
        BY <2>4, <3>1, <3>2, CoverMerge
      <3>4. QED
        BY <1>2, <3>3, SameCover
    <2>5. QED
      BY <2>1, <2>3, <2>4 DEF Free
  <1>5. QED
    BY <1>3, <1>4

(* All of the granted memory is in some block, whatever is cut, merged and *)
(* freed, but for the blocks AllocLocalMem drops; on removal all regions   *)
(* go back, as the table knows them.                                       *)
THEOREM MemoryIsTiled ==
  ASSUME ~ IndexFirst
  PROVE  Spec => []Tiling
  <1>1. Init => Tiling
    BY DEF Init, Tiling, RegionCells, Blocks, Cutting
  <1>2. ASSUME Tiling, UNCHANGED <<heap, FreeList, AllocList, lost, new, pc>>
        PROVE  Tiling'
    BY <1>2 DEF Tiling, RegionCells, Blocks, Cutting
  <1>3. ASSUME LocalInv, Tiling, NEW r \in Bases \ heap, AllocateOhci(r)
        PROVE  Tiling'
    <2>1. nlocal_mems = 0 /\ r # NULL
      BY <1>3, RegionAssumption DEF AllocateOhci, LocalInv, CallInv
    <2>2. /\ EnterRegion(nlocal_mems, r) /\ heap' = heap \cup {r}
          /\ UNCHANGED <<AllocList, new, lost>> /\ Cutting' = Cutting
      BY <1>3 DEF AllocateOhci, Cutting
    <2>3. QED
      BY <1>3, <2>1, <2>2, NewCover
  <1>4. ASSUME RegionsKnown, FreeOhci PROVE Tiling'
    <2>1. heap' = {} /\ FreeList' = {} /\ AllocList' = {} /\ lost' = {}
      BY <1>4 DEF RegionsKnown, FreeOhci, CleanupLocalMem, DropFreeList
    <2>2. Cutting' = {}
      BY <1>4 DEF FreeOhci, Cutting
    <2>3. QED
      BY <2>1, <2>2 DEF Tiling, RegionCells, Blocks
  <1>5. ASSUME LocalInv, RegionsKnown, Tiling, Next PROVE Tiling'
    <2>1. ASSUME NEW r \in Bases \ heap, AllocateOhciFails(r) PROVE Tiling'
      BY <1>2, <1>5, <2>1 DEF AllocateOhciFails, listVars
    <2>2. QED
      BY <1>3, <1>4, <1>5, <2>1, ~ IndexFirst, CallCover, FreeCover DEF Next
  <1>6. LocalInv /\ RegionsKnown /\ Tiling /\ [Next]_vars => Tiling'
    BY <1>2, <1>5 DEF vars, tableVars, listVars
  <1>7. QED
    BY <1>1, <1>6, LocalInvariance, RegionsAreKnown, PTL DEF Spec
=============================================================================

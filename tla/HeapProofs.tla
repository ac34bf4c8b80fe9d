----------------------------- MODULE HeapProofs -----------------------------
(***************************************************************************)
(* The page allocator and the heap keep their promises for every memory    *)
(* map and any callers: every operation, taken from any state that the     *)
(* lemmas of FreeListProofs describe, leads to another such state.         *)
(***************************************************************************)
EXTENDS Heap, FreeListProofs

(* What each operation keeps, for any user of the allocator.               *)

PmmIInv == ListOK /\ RunsOK /\ CountOK /\ ReturnReadsOwnRun

TakenRuns == held \cup Pending

(* The list after a step.                                                  *)
LEMMA ListAfter ==
  ASSUME NEW v, Listed(v, List')
  PROVE  ListOK' /\ FreeRuns' = RunsOf(v, mem')
  <1>1. Walk(List') = v
    BY WalkIs
  <1>2. QED
    BY <1>1 DEF ListOK, FreeRuns

(* The runs before a step.                                                 *)
LEMMA RunsBefore ==
  ASSUME ListOK, RunsOK
  PROVE  /\ Tiles(FreeRuns \cup TakenRuns, GivenPages(reclaimed)) /\ GivenPages(reclaimed) \subseteq Pages
         /\ FreeRuns \cap TakenRuns = {}
         /\ \A c \in Callers : curr[c] # None => curr[c] \in Pending
         /\ \A r \in FreeRuns \cup TakenRuns :
              r.pa \in Pages /\ r.pages \in Nat \ {0} /\ r = [pa |-> r.pa, pages |-> r.pages]
         /\ \A r, q \in FreeRuns \cup TakenRuns : r.pa = q.pa \/ r.pa \in Extent(q) => r = q
         /\ \A i \in 1 .. Len(Walk(List)) :
              [pa |-> Walk(List)[i], pages |-> mem[Walk(List)[i]].num_pages] \in FreeRuns
  <1>1. Tiles(FreeRuns \cup TakenRuns, GivenPages(reclaimed))
    <2>1. FreeRuns \cup TakenRuns = FreeRuns \cup held \cup Pending
      BY DEF TakenRuns
    <2>2. QED
      BY <2>1, Zenon DEF RunsOK
  <1>2. GivenPages(reclaimed) \subseteq Pages
    <2>1. reclaimed = TRUE \/ reclaimed = FALSE
      BY DEF RunsOK
    <2>2. QED
      BY <2>1, EntriesTile, Zenon
  <1>3. FreeRuns \cap TakenRuns = {}
    BY DEF RunsOK, TakenRuns
  <1>4. \A c \in Callers : curr[c] # None => curr[c] \in Pending
    BY DEF Pending
  <1>5. \A r \in FreeRuns \cup TakenRuns :
          r.pa \in Pages /\ r.pages \in Nat \ {0} /\ r = [pa |-> r.pa, pages |-> r.pages]
    BY <1>1, <1>2, Heads
  <1>6. \A r, q \in FreeRuns \cup TakenRuns : r.pa = q.pa \/ r.pa \in Extent(q) => r = q
    BY <1>1, Heads
  <1>7. \A i \in 1 .. Len(Walk(List)) :
          [pa |-> Walk(List)[i], pages |-> mem[Walk(List)[i]].num_pages] \in FreeRuns
    BY DEF FreeRuns, RunsOf
  <1>8. QED
    BY <1>1, <1>2, <1>3, <1>4, <1>5, <1>6, <1>7

(* An owner's write to a page of its run leaves the list alone, and the    *)
(* first pages of the other runs.                                          *)
LEMMA Touch ==
  ASSUME ListOK, RunsOK, NEW r \in TakenRuns, NEW p \in Extent(r),
         mem' \in [Pages -> Node], \A q \in Pages \ {p} : mem'[q] = mem[q],
         freelist_head' = freelist_head
  PROVE  /\ ListOK' /\ FreeRuns' = FreeRuns
         /\ \A q \in TakenRuns : q # r => mem'[q.pa] = mem[q.pa]
  <1> DEFINE w == Walk(List)
  <1>1. Listed(w, List) /\ List.mem = mem /\ List.head = freelist_head
    BY DEF ListOK, List
  <1>2. List' = [mem |-> mem', head |-> freelist_head]
    BY DEF List
  <1>3. \A q \in FreeRuns \cup TakenRuns : q # r => q.pa \in Pages \ {p}
    <2> SUFFICES ASSUME NEW q \in FreeRuns \cup TakenRuns, q # r, q.pa = p PROVE FALSE
      BY RunsBefore
    <2>1. q.pa \in Extent(r)
      OBVIOUS
    <2>2. QED
      BY <2>1, RunsBefore
  <1>4. \A i \in 1 .. Len(w) : w[i] \in Pages \ {p}
    <2> SUFFICES ASSUME NEW i \in 1 .. Len(w) PROVE w[i] \in Pages \ {p}
      OBVIOUS
    <2> DEFINE q == [pa |-> w[i], pages |-> mem[w[i]].num_pages]
    <2>1. q \in FreeRuns
      BY RunsBefore
    <2>2. q # r
      BY <2>1, RunsBefore
    <2>3. q.pa \in Pages \ {p}
      BY <1>3, <2>1, <2>2
    <2>4. QED
      BY <2>3
  <1>5. \A i \in 1 .. Len(w) : mem'[w[i]] = mem[w[i]]
    BY <1>4
  <1> HIDE DEF w
  <1>6. Listed(w, List')
    BY <1>1, <1>2, <1>5 DEF Listed
  <1>7. ListOK' /\ FreeRuns' = RunsOf(w, mem')
    BY <1>6, ListAfter
  <1>8. RunsOf(w, mem') = RunsOf(w, mem)
    BY <1>5 DEF RunsOf
  <1>9. QED
    BY <1>3, <1>7, <1>8 DEF w, FreeRuns

LEMMA PendingCounted ==
  LET P == {c \in Callers : curr[c] # None} IN IsFiniteSet(P) /\ Cardinality(P) \in Nat
  <1>1. {c \in Callers : curr[c] # None} \subseteq Callers
    OBVIOUS
  <1>2. QED
    BY <1>1, CallersAssumption, FS_Subset, FS_CardinalityType

(* alloc() up to release().                                                *)
LEMMA AllocStep ==
  ASSUME PmmIInv, NEW c \in Callers, NEW count \in Nat \ {0}, Alloc(c, count)
  PROVE  /\ PmmIInv' /\ curr'[c].pages = count
         /\ \A r \in held : mem'[r.pa] = mem[r.pa]
  <1> DEFINE w == Walk(List)
             fits == Fits(List, count)
             i == CHOOSE i \in fits : \A j \in fits : i <= j
             p == w[i]
             n == mem[p].num_pages
             t == split(unlink(List, i), p, count)
             a == [pa |-> p, pages |-> count]
             r0 == [pa |-> p, pages |-> n]
             b == [pa |-> p + count, pages |-> n - count]
             U == FreeRuns \cup TakenRuns
             G == GivenPages(reclaimed)
  <1> USE DEF PmmIInv
  <1>1. Listed(w, List) /\ List.mem = mem /\ w \in Seq(Pages) /\ Len(w) \in Nat /\ DOMAIN w = 1 .. Len(w)
    BY DEF ListOK, List, Listed
  <1>2. fits = {j \in 1 .. Len(w) : mem[w[j]].num_pages >= count}
    BY <1>1 DEF Fits
  <1>3. i \in fits
    <2>1. fits # {} /\ fits \in SUBSET Nat
      BY <1>1, <1>2 DEF Alloc
    <2> HIDE DEF fits
    <2>2. \E m \in fits : \A k \in fits : m <= k
      BY <2>1, LeastNat
    <2>3. QED
      BY <2>2
  <1>4. /\ curr[c] = None
        /\ mem' = t.mem /\ freelist_head' = t.head
        /\ curr' = [curr EXCEPT ![c] = a]
        /\ g_ref_alloc' = g_ref_alloc + 1 /\ held' = held /\ reclaimed' = reclaimed
    BY DEF Alloc, Install
  <1>5. i \in 1 .. Len(w) /\ n >= count /\ n = List.mem[w[i]].num_pages
    <2> HIDE DEF i, fits
    <2> QED
      BY <1>1, <1>2, <1>3
  <1>6. Tiles(RunsOf(w, List.mem) \cup TakenRuns, G) /\ G \subseteq Pages
    BY <1>1, RunsBefore DEF FreeRuns
  <1>7. FreeRuns = RunsOf(w, List.mem)
    BY <1>1 DEF FreeRuns
  <1> HIDE DEF w, fits, i, G, n
  <1>8. PICK v :
         /\ Listed(v, t)
         /\ RunsOf(v, t.mem) = (RunsOf(w, List.mem) \ {r0}) \cup IF n > count THEN {b} ELSE {}
         /\ \A r \in TakenRuns : r \notin RunsOf(w, List.mem) => t.mem[r.pa] = List.mem[r.pa]
         /\ t.mem[p] = List.mem[p]
    <2>1. PICK v : Allocated(v, t, w, List, TakenRuns, p, count)
      BY <1>1, <1>5, <1>6, AllocList, Zenon
    <2>2. QED
      BY <1>1, <2>1 DEF Allocated, n
  <1>9. t = [mem |-> t.mem, head |-> t.head]
    BY <1>8 DEF Listed
  <1>10. List' = t
    BY <1>4, <1>9 DEF List
  <1> HIDE DEF t
  <1>11. ListOK' /\ FreeRuns' = (FreeRuns \ {r0}) \cup IF n > count THEN {b} ELSE {}
    BY <1>4, <1>7, <1>8, <1>10, ListAfter
  <1>12. mem'[p] = mem[p] /\ \A r \in TakenRuns : mem'[r.pa] = mem[r.pa]
    BY <1>1, <1>4, <1>7, <1>8, RunsBefore
  <1>13. r0 \in FreeRuns
    BY <1>5, RunsBefore DEF w, n
  <1>14. p \in Pages /\ p \in Nat \ {0} /\ n \in Nat \ {0} /\ mem[p].pa = p
    <2>1. r0.pa \in Pages /\ r0.pages \in Nat \ {0}
      BY <1>13, RunsBefore
    <2>2. QED
      BY <1>1, <1>5, <2>1, PagesFinite DEF Listed
  <1> DEFINE A == a
  <1>15. /\ a # None /\ a.pages = count /\ a.pa = p /\ b.pa # p /\ b.pa \in Nat
         /\ a \in [pa : Nat, pages : Nat] /\ (n = count => a = r0)
         /\ (n > count => b.pa \in Extent(r0)) /\ r0.pa = p
    BY <1>14 DEF None, Extent, Run
  <1> HIDE DEF a, b, r0, n, p
  <1>16. /\ curr'[c] = a /\ \A d \in Callers \ {c} : curr'[d] = curr[d]
         /\ curr' \in [Callers -> [pa : Nat, pages : Nat]]
    BY <1>4, <1>15 DEF RunsOK
  <1>17. Pending' = Pending \cup {a}
    BY <1>4, <1>15, <1>16 DEF Pending
  <1>18. \A r \in TakenRuns : r # a /\ (n > count => r # b)
    <2> SUFFICES ASSUME NEW r \in TakenRuns PROVE r.pa # p /\ (n > count => r # b)
      BY <1>15
    <2>1. r # r0
      BY <1>13, RunsBefore
    <2>2. QED
      BY <1>13, <1>15, <2>1, RunsBefore
  <1>19. \A r \in FreeRuns \ {r0} : r # a
    BY <1>13, <1>15, RunsBefore
  <1>20. FreeRuns' \cap held' = {} /\ FreeRuns' \cap Pending' = {} /\ held' \cap Pending' = {}
    <2>1. FreeRuns' \cap TakenRuns = {}
      BY <1>11, <1>18, RunsBefore
    <2>2. a \notin FreeRuns'
      BY <1>11, <1>15, <1>19
    <2>3. held \cap Pending = {} /\ a \notin held
      BY <1>18 DEF RunsOK, TakenRuns
    <2>4. QED
      BY <1>4, <1>17, <2>1, <2>2, <2>3 DEF TakenRuns
  <1>21. Tiles(FreeRuns' \cup held' \cup Pending', G)
    <2>0. Tiles(U, G)
      BY <1>6, <1>7
    <2>1. FreeRuns' \cup held' \cup Pending' = FreeRuns' \cup TakenRuns \cup {a}
      BY <1>4, <1>17 DEF TakenRuns
    <2>2. r0 \notin TakenRuns
      BY <1>13, RunsBefore
    <2>3. CASE n > count
      <3>1. FreeRuns' \cup TakenRuns \cup {a} = (U \ {r0}) \cup {a, b}
        BY <1>11, <2>2, <2>3
      <3>2. r0 \in U /\ count < r0.pages /\ r0.pa = p /\ r0.pages = n
        BY <1>13, <1>14, <2>3 DEF r0
      <3>3. a = [pa |-> r0.pa, pages |-> count] /\ b = [pa |-> r0.pa + count, pages |-> r0.pages - count]
        BY <3>2 DEF a, b
      <3> HIDE DEF U
      <3>4. Tiles((U \ {r0}) \cup {[pa |-> r0.pa, pages |-> count], [pa |-> r0.pa + count, pages |-> r0.pages - count]}, G)
        BY <2>0, <3>2, TilesSplit
      <3>5. QED
        BY <2>1, <3>1, <3>3, <3>4, Zenon
    <2>4. CASE ~(n > count)
      <3>1. n = count
        BY <1>5, <1>14, <2>4
      <3>2. FreeRuns' \cup TakenRuns \cup {a} = U
        BY <1>11, <1>13, <1>15, <2>4, <3>1
      <3>3. QED
        BY <2>0, <2>1, <3>2
    <2>5. QED
      BY <2>3, <2>4
  <1>22. \A d, e \in Callers : curr'[d] # None /\ curr'[d] = curr'[e] => d = e
    <2>1. \A d \in Callers \ {c} : curr[d] # a
      BY <1>15, <1>18, RunsBefore DEF TakenRuns
    <2>2. QED
      BY <1>16, <2>1 DEF RunsOK
  <1>23. RunsOK'
    BY <1>4, <1>16, <1>20, <1>21, <1>22 DEF RunsOK, G
  <1>24. CountOK'
    <2> DEFINE P == {d \in Callers : curr[d] # None}
               Q == {d \in Callers : curr'[d] # None}
    <2>1. IsFiniteSet(P) /\ Cardinality(P) \in Nat
      BY PendingCounted
    <2>2. Q = P \cup {c} /\ c \notin P
      BY <1>4, <1>15, <1>16
    <2>3. Cardinality(held) \in Nat
      BY FS_CardinalityType DEF CountOK
    <2> HIDE DEF P, Q
    <2>4. Cardinality(Q) = Cardinality(P) + 1
      BY <2>1, <2>2, FS_AddElement, SMTT(20)
    <2>5. g_ref_alloc = Cardinality(held) + Cardinality(P)
      BY DEF CountOK, RefCountExact, P
    <2>6. g_ref_alloc' = Cardinality(held) + Cardinality(Q) /\ g_ref_alloc' \in Nat
      BY <1>4, <2>1, <2>3, <2>4, <2>5
    <2>7. QED
      BY <1>4, <2>6 DEF CountOK, RefCountExact, Q
  <1>25. ReturnReadsOwnRun'
    <2> SUFFICES ASSUME NEW d \in Callers, curr'[d] # None
                 PROVE  mem'[curr'[d].pa].pa = curr'[d].pa
      BY DEF ReturnReadsOwnRun
    <2>1. CASE d = c
      BY <1>12, <1>14, <1>15, <1>16, <2>1
    <2>2. CASE d # c
      <3>1. curr'[d] = curr[d] /\ curr[d] \in TakenRuns
        BY <1>16, <2>2, RunsBefore DEF TakenRuns
      <3>2. QED
        BY <1>12, <3>1 DEF ReturnReadsOwnRun
    <2>3. QED
      BY <2>1, <2>2
  <1>26. \A r \in held : mem'[r.pa] = mem[r.pa]
    BY <1>12 DEF TakenRuns
  <1>27. QED
    BY <1>11, <1>15, <1>16, <1>23, <1>24, <1>25, <1>26

(* The return of an address, whatever else is written to the run's first   *)
(* page.                                                                   *)
LEMMA ReturnStep ==
  ASSUME PmmIInv, NEW c \in Callers, curr[c] # None,
         mem' \in [Pages -> Node], \A q \in Pages \ {curr[c].pa} : mem'[q] = mem[q],
         held' = held \cup {[pa |-> mem[curr[c].pa].pa, pages |-> curr[c].pages]},
         curr' = [curr EXCEPT ![c] = None],
         UNCHANGED <<freelist_head, g_ref_alloc, reclaimed>>
  PROVE  /\ PmmIInv' /\ mem[curr[c].pa].pa = curr[c].pa
         /\ held' = held \cup {curr[c]} /\ curr[c] \notin held
         /\ \A r \in held : mem'[r.pa] = mem[r.pa]
  <1> DEFINE a == curr[c]
  <1> USE DEF PmmIInv
  <1>1. a \in TakenRuns /\ a \in Pending /\ a \notin held
    BY RunsBefore DEF TakenRuns, RunsOK
  <1>2. mem[a.pa].pa = a.pa /\ a = [pa |-> a.pa, pages |-> a.pages] /\ a.pages \in Nat \ {0}
    BY <1>1, RunsBefore DEF ReturnReadsOwnRun
  <1>3. held' = held \cup {a}
    BY <1>2
  <1>4. a.pa \in Extent(a)
    BY <1>1, RunsBefore, Heads
  <1>5. /\ ListOK' /\ FreeRuns' = FreeRuns
        /\ \A q \in TakenRuns : q # a => mem'[q.pa] = mem[q.pa]
    BY <1>1, <1>4, Touch
  <1> HIDE DEF a
  <1>6. \A d \in Callers \ {c} : curr'[d] = curr[d] /\ curr[d] # a
    BY DEF a, RunsOK
  <1>7. curr'[c] = None /\ curr' \in [Callers -> [pa : Nat, pages : Nat]]
    BY DEF RunsOK, None
  <1>8. Pending' = Pending \ {a}
    BY <1>6, <1>7 DEF Pending, a
  <1>9. RunsOK'
    <2>1. FreeRuns' \cup held' \cup Pending' = FreeRuns \cup held \cup Pending
      BY <1>1, <1>3, <1>5, <1>8
    <2>2. FreeRuns' \cap held' = {} /\ FreeRuns' \cap Pending' = {} /\ held' \cap Pending' = {}
      BY <1>1, <1>3, <1>5, <1>8 DEF RunsOK
    <2>3. \A d, e \in Callers : curr'[d] # None /\ curr'[d] = curr'[e] => d = e
      BY <1>6, <1>7 DEF RunsOK
    <2>4. QED
      BY <1>7, <2>1, <2>2, <2>3, Zenon DEF RunsOK
  <1>10. CountOK'
    <2> DEFINE P == {d \in Callers : curr[d] # None}
               Q == {d \in Callers : curr'[d] # None}
    <2>1. IsFiniteSet(P) /\ Cardinality(P) \in Nat /\ IsFiniteSet(held)
      BY PendingCounted DEF CountOK
    <2>2. Q = P \ {c} /\ c \in P
      BY <1>6, <1>7
    <2> HIDE DEF P, Q
    <2>3. Cardinality(Q) = Cardinality(P) - 1
      BY <2>1, <2>2, FS_RemoveElement, Zenon
    <2>4. Cardinality(held') = Cardinality(held) + 1 /\ IsFiniteSet(held') /\ Cardinality(held) \in Nat
      <3>1. Cardinality(held) \in Nat
        BY <2>1, FS_CardinalityType
      <3>2. IsFiniteSet(held \cup {a}) /\ Cardinality(held \cup {a}) = Cardinality(held) + 1
        BY <1>1, <2>1, FS_AddElement
      <3>3. QED
        BY <1>3, <3>1, <3>2, Zenon
    <2>5. g_ref_alloc = Cardinality(held) + Cardinality(P) /\ g_ref_alloc \in Nat
      BY DEF CountOK, RefCountExact, P
    <2>6. g_ref_alloc' = Cardinality(held') + Cardinality(Q) /\ g_ref_alloc' \in Nat
      BY <2>1, <2>3, <2>4, <2>5
    <2>7. QED
      BY <2>4, <2>6 DEF CountOK, RefCountExact, Q
  <1>11. ReturnReadsOwnRun'
    <2> SUFFICES ASSUME NEW d \in Callers, curr'[d] # None
                 PROVE  mem'[curr'[d].pa].pa = curr'[d].pa
      BY DEF ReturnReadsOwnRun
    <2>1. d # c /\ curr'[d] = curr[d] /\ curr[d] \in TakenRuns /\ curr[d] # a
      BY <1>6, <1>7, RunsBefore DEF TakenRuns
    <2>2. QED
      BY <1>5, <2>1 DEF ReturnReadsOwnRun
  <1>12. \A r \in held : mem'[r.pa] = mem[r.pa]
    BY <1>1, <1>5 DEF TakenRuns
  <1>13. QED
    BY <1>1, <1>2, <1>3, <1>5, <1>9, <1>10, <1>11, <1>12 DEF a

(* free() of a run that is held.  The count is not 0.                      *)
LEMMA FreeStep ==
  ASSUME PmmIInv, NEW r \in held, release_run(r), held' = held \ {r},
         UNCHANGED <<curr, reclaimed>>
  PROVE  PmmIInv' /\ \A q \in held' : mem'[q.pa] = mem[q.pa]
  <1> DEFINE w == Walk(List)
             t == push_list(List, r.pa, r.pages)
  <1> USE DEF PmmIInv
  <1>1. r \in TakenRuns /\ r.pa \in Pages /\ r.pages \in Nat /\ r = [pa |-> r.pa, pages |-> r.pages]
    BY RunsBefore DEF TakenRuns
  <1>2. /\ IsFiniteSet(held) /\ Cardinality(held) \in Nat /\ IsFiniteSet(held')
        /\ Cardinality(held') = Cardinality(held) - 1 /\ Cardinality(held') \in Nat
    <2>1. IsFiniteSet(held) /\ Cardinality(held) \in Nat
      BY FS_CardinalityType DEF CountOK
    <2>2. IsFiniteSet(held \ {r}) /\ Cardinality(held \ {r}) = Cardinality(held) - 1
      BY <2>1, FS_RemoveElement
    <2>3. Cardinality(held \ {r}) \in Nat
      BY <2>2, FS_CardinalityType
    <2>4. QED
      BY <2>1, <2>2, <2>3
  <1>3. g_ref_alloc # 0 /\ g_ref_alloc \in Nat
    BY <1>2, PendingCounted DEF CountOK, RefCountExact
  <1>4. mem' = t.mem /\ freelist_head' = t.head /\ g_ref_alloc' = g_ref_alloc - 1
    BY <1>3 DEF release_run, Install
  <1>5. Listed(w, List) /\ List.mem = mem /\ FreeRuns = RunsOf(w, List.mem)
    BY DEF ListOK, List, FreeRuns
  <1>6. \A i \in 1 .. Len(w) : w[i] # r.pa
    <2> SUFFICES ASSUME NEW i \in 1 .. Len(w), w[i] = r.pa PROVE FALSE
      OBVIOUS
    <2> DEFINE q == [pa |-> w[i], pages |-> mem[w[i]].num_pages]
    <2>1. q \in FreeRuns /\ q.pa = r.pa
      BY RunsBefore
    <2>2. QED
      BY <1>1, <2>1, RunsBefore
  <1> HIDE DEF w
  <1>7. /\ Listed(<<r.pa>> \o w, t)
        /\ \A q \in Pages \ {r.pa} : t.mem[q] = List.mem[q]
        /\ RunsOf(<<r.pa>> \o w, t.mem) = RunsOf(w, List.mem) \cup {[pa |-> r.pa, pages |-> r.pages]}
    BY <1>1, <1>5, <1>6, Push
  <1>8. t = [mem |-> t.mem, head |-> t.head]
    BY <1>7 DEF Listed
  <1> HIDE DEF t
  <1>9. List' = t
    BY <1>4, <1>8 DEF List
  <1>10. ListOK' /\ FreeRuns' = FreeRuns \cup {r}
    BY <1>1, <1>4, <1>5, <1>7, <1>9, ListAfter
  <1>11. \A q \in TakenRuns : q # r => mem'[q.pa] = mem[q.pa]
    <2> SUFFICES ASSUME NEW q \in TakenRuns, q # r PROVE mem'[q.pa] = mem[q.pa]
      OBVIOUS
    <2>1. q.pa \in Pages \ {r.pa}
      BY <1>1, RunsBefore
    <2>2. QED
      BY <1>4, <1>5, <1>7, <2>1
  <1>12. Pending' = Pending
    BY DEF Pending
  <1>13. RunsOK'
    <2>1. FreeRuns' \cup held' \cup Pending' = FreeRuns \cup held \cup Pending
      BY <1>10, <1>12
    <2>2. FreeRuns' \cap held' = {} /\ FreeRuns' \cap Pending' = {} /\ held' \cap Pending' = {}
      BY <1>10, <1>12 DEF RunsOK
    <2>3. QED
      BY <2>1, <2>2 DEF RunsOK
  <1>14. CountOK'
    <2> DEFINE P == {d \in Callers : curr[d] # None}
    <2>1. Cardinality(P) \in Nat /\ g_ref_alloc = Cardinality(held) + Cardinality(P)
      BY PendingCounted DEF CountOK, RefCountExact
    <2>2. P' = P
      OBVIOUS
    <2> HIDE DEF P
    <2>3. g_ref_alloc' = Cardinality(held') + Cardinality(P) /\ g_ref_alloc' \in Nat
      BY <1>2, <1>4, <2>1
    <2>4. QED
      BY <1>2, <2>2, <2>3 DEF CountOK, RefCountExact, P
  <1>15. ReturnReadsOwnRun'
    <2> SUFFICES ASSUME NEW d \in Callers, curr[d] # None
                 PROVE  mem'[curr[d].pa].pa = curr[d].pa
      BY DEF ReturnReadsOwnRun
    <2>1. curr[d] \in TakenRuns /\ curr[d] # r
      BY RunsBefore DEF TakenRuns, RunsOK
    <2>2. QED
      BY <1>11, <2>1 DEF ReturnReadsOwnRun
  <1>16. \A q \in held' : mem'[q.pa] = mem[q.pa]
    BY <1>11 DEF TakenRuns
  <1>17. QED
    BY <1>10, <1>13, <1>14, <1>15, <1>16

(* A write by the owner of a run that is held.                             *)
LEMMA WriteStep ==
  ASSUME PmmIInv, NEW r \in held, NEW p \in Extent(r),
         mem' \in [Pages -> Node], \A q \in Pages \ {p} : mem'[q] = mem[q],
         UNCHANGED <<freelist_head, g_ref_alloc, curr, held, reclaimed>>
  PROVE  PmmIInv' /\ \A q \in held : q # r => mem'[q.pa] = mem[q.pa]
  <1> USE DEF PmmIInv
  <1>1. r \in TakenRuns
    BY DEF TakenRuns
  <1>2. /\ ListOK' /\ FreeRuns' = FreeRuns
        /\ \A q \in TakenRuns : q # r => mem'[q.pa] = mem[q.pa]
    BY <1>1, Touch
  <1>3. Pending' = Pending
    BY DEF Pending
  <1>4. RunsOK' /\ CountOK'
    BY <1>2, <1>3 DEF RunsOK, CountOK, RefCountExact
  <1>5. ReturnReadsOwnRun'
    <2> SUFFICES ASSUME NEW d \in Callers, curr[d] # None
                 PROVE  mem'[curr[d].pa].pa = curr[d].pa
      BY DEF ReturnReadsOwnRun
    <2>1. curr[d] \in TakenRuns /\ curr[d] # r
      BY RunsBefore DEF TakenRuns, RunsOK
    <2>2. QED
      BY <1>2, <2>1 DEF ReturnReadsOwnRun
  <1>6. QED
    BY <1>2, <1>4, <1>5 DEF TakenRuns

(* The bootloader's ranges come in.                                        *)
LEMMA ReclaimStep ==
  ASSUME PmmIInv, Reclaim
  PROVE  PmmIInv' /\ \A q \in held : mem'[q.pa] = mem[q.pa]
  <1> DEFINE w == Walk(List)
             E == EntryRuns("bootloader")
             t == push_entries(List, "bootloader")
             U == FreeRuns \cup held \cup Pending
  <1> USE DEF PmmIInv
  <1>1. /\ reclaimed = FALSE /\ reclaimed' = TRUE /\ mem' = t.mem /\ freelist_head' = t.head
        /\ UNCHANGED <<g_ref_alloc, curr, held>>
    BY DEF Reclaim, Install, RunsOK
  <1>2. PICK H : Tiles(E, H) /\ GivenPages(FALSE) \cap H = {} /\ GivenPages(TRUE) = GivenPages(FALSE) \cup H
    BY EntriesTile, Zenon
  <1>3. Listed(w, List) /\ List.mem = mem /\ FreeRuns = RunsOf(w, List.mem)
    BY DEF ListOK, List, FreeRuns
  <1>4. Tiles(U, GivenPages(FALSE))
    BY <1>1, Zenon DEF RunsOK
  <1>5. \A q \in U, r \in E : q.pa # r.pa
    <2> HIDE DEF U, E
    <2>1. \A q \in U : q.pa \in GivenPages(FALSE)
      BY <1>4, Heads, Zenon
    <2>2. \A r \in E : r.pa \in H
      BY <1>2, Heads
    <2>3. QED
      BY <1>2, <2>1, <2>2, Zenon
  <1>6. \A r \in E, i \in 1 .. Len(w) : w[i] # r.pa
    <2> SUFFICES ASSUME NEW r \in E, NEW i \in 1 .. Len(w), w[i] = r.pa PROVE FALSE
      OBVIOUS
    <2> DEFINE q == [pa |-> w[i], pages |-> mem[w[i]].num_pages]
    <2>1. q \in U /\ q.pa = r.pa
      BY RunsBefore
    <2>2. QED
      BY <1>5, <2>1
  <1> HIDE DEF w, E
  <1>7. PICK v :
          /\ Listed(v, t)
          /\ RunsOf(v, t.mem) = RunsOf(w, List.mem) \cup E
          /\ \A q \in Pages : (\A r \in E : q # r.pa) => t.mem[q] = List.mem[q]
    BY <1>3, <1>6, PushEntries DEF E
  <1>8. t = [mem |-> t.mem, head |-> t.head]
    BY <1>7 DEF Listed
  <1> HIDE DEF t
  <1>9. List' = t
    BY <1>1, <1>8 DEF List
  <1>10. ListOK' /\ FreeRuns' = FreeRuns \cup E
    BY <1>1, <1>3, <1>7, <1>9, ListAfter
  <1>11. \A q \in TakenRuns : mem'[q.pa] = mem[q.pa]
    BY <1>1, <1>3, <1>5, <1>7, RunsBefore DEF TakenRuns
  <1>12. Pending' = Pending
    BY <1>1 DEF Pending
  <1>13. E \cap U = {}
    BY <1>5
  <1>14. RunsOK'
    <2>1. FreeRuns' \cup held' \cup Pending' = U \cup E
      BY <1>1, <1>10, <1>12
    <2>2. FreeRuns' \cap held' = {} /\ FreeRuns' \cap Pending' = {} /\ held' \cap Pending' = {}
      BY <1>1, <1>10, <1>12, <1>13 DEF RunsOK
    <2> HIDE DEF U
    <2>3. Tiles(U \cup E, GivenPages(TRUE))
      <3>1. Tiles(U \cup E, GivenPages(FALSE) \cup H)
        BY <1>2, <1>4, TilesUnion, Zenon
      <3>2. QED
        BY <1>2, <3>1, Zenon
    <2>4. QED
      BY <1>1, <2>1, <2>2, <2>3, Zenon DEF RunsOK
  <1>15. CountOK'
    BY <1>1 DEF CountOK, RefCountExact
  <1>16. ReturnReadsOwnRun'
    BY <1>1, <1>11, RunsBefore DEF ReturnReadsOwnRun, TakenRuns
  <1>17. QED
    BY <1>10, <1>11, <1>14, <1>15, <1>16 DEF TakenRuns

(* After init_pmm the usable ranges are free, and nothing is handed out.   *)
LEMMA PmmInit ==
  ASSUME Init
  PROVE  PmmIInv
  <1> DEFINE E == EntryRuns("usable")
  <1>1. PICK g \in Garbage :
          LET s == push_entries([mem |-> [p \in Pages |-> g], head |-> 0], "usable")
          IN  mem = s.mem /\ freelist_head = s.head
    BY Zenon DEF Init
  <1> DEFINE s == [mem |-> [p \in Pages |-> g], head |-> 0]
             t == push_entries(s, "usable")
  <1>2. Listed(<<>>, s)
    <2>1. s.mem \in [Pages -> Node]
      BY MemmapAssumption
    <2>2. QED
      BY <2>1 DEF Listed, Nth
  <1>3. RunsOf(<<>>, s.mem) = {}
    BY DEF RunsOf
  <1>4. mem = t.mem /\ freelist_head = t.head
    BY <1>1
  <1> HIDE DEF s
  <1>5. PICK v : Listed(v, t) /\ RunsOf(v, t.mem) = E
    <2>1. \A r \in EntryRuns("usable"), i \in 1 .. Len(<<>>) : <<>>[i] # r.pa
      OBVIOUS
    <2>2. PICK v :
            /\ Listed(v, t)
            /\ RunsOf(v, t.mem) = RunsOf(<<>>, s.mem) \cup EntryRuns("usable")
            /\ \A q \in Pages : (\A r \in EntryRuns("usable") : q # r.pa) => t.mem[q] = s.mem[q]
      BY <1>2, <2>1, PushEntries
    <2>3. QED
      BY <1>3, <2>2, Zenon
  <1>6. t = [mem |-> t.mem, head |-> t.head]
    BY <1>5 DEF Listed
  <1> HIDE DEF t
  <1>7. List = t
    BY <1>4, <1>6 DEF List
  <1>8. Walk(List) = v
    BY <1>5, <1>7, WalkIs
  <1>9. ListOK /\ FreeRuns = E
    BY <1>4, <1>5, <1>7, <1>8 DEF ListOK, FreeRuns
  <1>10. Pending = {} /\ held = {} /\ {c \in Callers : curr[c] # None} = {}
    BY DEF Pending, Init
  <1>11. RunsOK
    <2>1. Tiles(FreeRuns \cup held \cup Pending, GivenPages(reclaimed))
      <3>1. FreeRuns \cup held \cup Pending = E /\ reclaimed = FALSE
        BY <1>9, <1>10 DEF Init
      <3>2. QED
        BY <3>1, EntriesTile, Zenon
    <2>2. QED
      BY <1>10, <2>1, Zenon DEF RunsOK, Init, None
  <1>12. CountOK
    <2>1. IsFiniteSet({}) /\ Cardinality({}) = 0
      BY FS_EmptySet, Zenon
    <2>2. g_ref_alloc = 0
      BY DEF Init
    <2>3. QED
      BY <1>10, <2>1, <2>2 DEF CountOK, RefCountExact
  <1>13. ReturnReadsOwnRun
    BY <1>10 DEF ReturnReadsOwnRun
  <1>14. QED
    BY <1>9, <1>11, <1>12, <1>13 DEF PmmIInv

(* A step that changes nothing of the allocator's.                         *)
LEMMA PmmUnchanged ==
  ASSUME PmmIInv, UNCHANGED vars
  PROVE  PmmIInv'
  <1>1. /\ mem' = mem /\ freelist_head' = freelist_head /\ g_ref_alloc' = g_ref_alloc
        /\ curr' = curr /\ held' = held /\ reclaimed' = reclaimed
    BY DEF vars
  <1>2. List' = List
    BY <1>1 DEF List
  <1>3. FreeRuns' = FreeRuns
    BY <1>1, <1>2 DEF FreeRuns
  <1>4. Pending' = Pending
    BY <1>1 DEF Pending
  <1>5. ListOK'
    BY <1>2 DEF PmmIInv, ListOK
  <1>6. RunsOK'
    BY <1>1, <1>3, <1>4 DEF PmmIInv, RunsOK
  <1>7. CountOK'
    BY <1>1 DEF PmmIInv, CountOK, RefCountExact
  <1>8. ReturnReadsOwnRun'
    BY <1>1 DEF PmmIInv, ReturnReadsOwnRun
  <1>9. QED
    BY <1>5, <1>6, <1>7, <1>8 DEF PmmIInv

(* Use, by any callers and of any runs that are held.                      *)
LEMMA UseStep ==
  ASSUME PmmIInv, NEW callers \in SUBSET Callers, NEW runs \in SUBSET held, Use(callers, runs)
  PROVE  /\ PmmIInv'
         /\ \A q \in held \ runs : q \in held' /\ mem'[q.pa] = mem[q.pa]
         /\ \A c \in Callers \ callers : curr'[c] = curr[c]
  <1> DEFINE Frame == \A q \in held \ runs : q \in held' /\ mem'[q.pa] = mem[q.pa]
             Others == \A c \in Callers \ callers : curr'[c] = curr[c]
  <1>0. mem \in [Pages -> Node] /\ ListOK /\ RunsOK
    BY DEF PmmIInv, ListOK, Listed, List
  <1>1. ASSUME NEW c \in callers, NEW n \in Counts, Alloc(c, n)
        PROVE  PmmIInv' /\ Frame /\ Others
    <2>1. c \in Callers /\ n \in Nat \ {0}
      BY CallersAssumption
    <2>2. PmmIInv' /\ \A r \in held : mem'[r.pa] = mem[r.pa]
      BY <1>1, <2>1, AllocStep
    <2>3. held' = held /\ Others
      BY <1>0, <1>1 DEF Alloc, RunsOK
    <2>4. QED
      BY <2>2, <2>3
  <1>2. ASSUME NEW c \in callers, NEW n \in Counts, AllocFails(c, n)
        PROVE  PmmIInv' /\ Frame /\ Others
    <2>1. UNCHANGED vars
      BY <1>2 DEF AllocFails
    <2>2. held' = held /\ mem' = mem /\ curr' = curr
      BY <2>1 DEF vars
    <2>3. QED
      BY <2>1, <2>2, PmmUnchanged
  <1>3. ASSUME NEW c \in callers, AllocReturn(c)
        PROVE  PmmIInv' /\ Frame /\ Others
    <2>1. PmmIInv' /\ \A r \in held : mem'[r.pa] = mem[r.pa]
      BY <1>0, <1>3, ReturnStep, Zenon DEF AllocReturn
    <2>2. held \subseteq held' /\ Others
      BY <1>0, <1>3 DEF AllocReturn, RunsOK
    <2>3. QED
      BY <2>1, <2>2
  <1>4. ASSUME NEW r \in runs, Free(r)
        PROVE  PmmIInv' /\ Frame /\ Others
    <2>1. PmmIInv' /\ \A q \in held' : mem'[q.pa] = mem[q.pa]
      BY <1>4, FreeStep DEF Free
    <2>2. held' = held \ {r} /\ Others
      BY <1>4 DEF Free
    <2>3. QED
      BY <2>1, <2>2
  <1>5. ASSUME NEW r \in runs, NEW g \in Garbage, NEW p \in Run(r.pa, r.pages), Write(p, g)
        PROVE  PmmIInv' /\ Frame /\ Others
    <2>1. p \in Extent(r) /\ r \in held
      BY DEF Extent
    <2>2. mem' \in [Pages -> Node] /\ \A q \in Pages \ {p} : mem'[q] = mem[q]
      BY <1>0, <1>5, MemmapAssumption, Zenon DEF Write
    <2>3. UNCHANGED <<freelist_head, g_ref_alloc, curr, held, reclaimed>>
      BY <1>5 DEF Write
    <2>4. PmmIInv' /\ \A q \in held : q # r => mem'[q.pa] = mem[q.pa]
      BY <2>1, <2>2, <2>3, WriteStep
    <2>5. QED
      BY <2>3, <2>4
  <1>6. ASSUME Reclaim
        PROVE  PmmIInv' /\ Frame /\ Others
    BY <1>6, ReclaimStep DEF Reclaim
  <1>7. QED
    BY <1>1, <1>2, <1>3, <1>4, <1>5, <1>6 DEF Use

(* What the invariant says of the pages.                                   *)
LEMMA PmmImplies ==
  ASSUME PmmIInv
  PROVE  PagesPartitioned /\ RefCountExact /\ ReturnReadsOwnRun
  <1> DEFINE w == Walk(List)
             runs == [i \in DOMAIN w |-> Run(w[i], mem[w[i]].num_pages)]
             given == Given
             owned == {Run(r.pa, r.pages) : r \in Taken}
             free(i) == [pa |-> w[i], pages |-> mem[w[i]].num_pages]
             U == FreeRuns \cup TakenRuns
  <1>1. /\ Listed(w, List) /\ DOMAIN w = 1 .. Len(w) /\ ListOK /\ RunsOK
        /\ Tiles(U, GivenPages(reclaimed)) /\ FreeRuns \cap TakenRuns = {}
    BY RunsBefore DEF PmmIInv, ListOK, Listed
  <1>2. Taken = TakenRuns
    BY DEF Taken, TakenRuns, Pending
  <1>3. \A r, q \in U : r # q => Extent(r) \cap Extent(q) = {}
    BY <1>1 DEF Tiles
  <1>4. /\ \A i \in DOMAIN w : runs[i] = Extent(free(i)) /\ free(i) \in FreeRuns
        /\ \A i, j \in DOMAIN w : i # j => free(i) # free(j)
        /\ \A r \in FreeRuns : \E i \in DOMAIN w : r = free(i)
    BY <1>1 DEF Extent, FreeRuns, RunsOf, Listed
  <1>5. owned = {Extent(r) : r \in TakenRuns}
    BY <1>2 DEF Extent
  <1>6. given = GivenPages(reclaimed)
    <2> DEFINE X == Entries("usable") \cup IF reclaimed THEN Entries("bootloader") ELSE {}
    <2>1. GivenRuns(reclaimed) = {[pa |-> e.base, pages |-> e.pages] : e \in X}
      BY DEF GivenRuns, EntryRuns
    <2> HIDE DEF X
    <2>2. \A e \in X : Extent([pa |-> e.base, pages |-> e.pages]) = Run(e.base, e.pages)
      BY DEF Extent
    <2>3. \A z : (\E r \in GivenRuns(reclaimed) : z \in Extent(r)) <=> \E e \in X : z \in Run(e.base, e.pages)
      BY <2>1, <2>2, Zenon
    <2>4. \A z : z \in UNION {Run(e.base, e.pages) : e \in X} <=> \E e \in X : z \in Run(e.base, e.pages)
      OBVIOUS
    <2>5. \A z : z \in GivenPages(reclaimed) <=> \E r \in GivenRuns(reclaimed) : z \in Extent(r)
      BY DEF GivenPages
    <2>6. \A z : z \in GivenPages(reclaimed) <=> z \in UNION {Run(e.base, e.pages) : e \in X}
      BY <2>3, <2>4, <2>5
    <2>7. GivenPages(reclaimed) = UNION {Run(e.base, e.pages) : e \in X}
      BY <2>6
    <2>8. QED
      BY <2>7 DEF X, Given
  <1>7. DOMAIN runs = DOMAIN w
    OBVIOUS
  <1> HIDE DEF runs, free
  <1>8. \A i, j \in DOMAIN runs : i # j => runs[i] \cap runs[j] = {}
    BY <1>3, <1>4, <1>7
  <1>9. \A a, b \in owned : a # b => a \cap b = {}
    BY <1>3, <1>5
  <1>10. ASSUME NEW i \in DOMAIN runs, NEW a \in owned PROVE runs[i] \cap a = {}
    <2>1. PICK r \in TakenRuns : a = Extent(r)
      BY <1>5
    <2>2. free(i) \in FreeRuns /\ runs[i] = Extent(free(i))
      BY <1>4, <1>7
    <2>3. free(i) # r
      BY <1>1, <2>1, <2>2
    <2>4. Extent(free(i)) \cap Extent(r) = {}
      BY <1>3, <2>2, <2>3
    <2>5. QED
      BY <2>1, <2>2, <2>4
  <1> DEFINE A == UNION owned
             B == UNION {runs[i] : i \in DOMAIN runs}
  <1>11. A \cup B = given
    <2>1. \A z : z \in given <=> \E r \in U : z \in Extent(r)
      BY <1>1, <1>6 DEF Tiles
    <2>2. \A z : z \in UNION {runs[i] : i \in DOMAIN runs} <=> \E r \in FreeRuns : z \in Extent(r)
      BY <1>4, <1>7
    <2>3. \A z : z \in UNION owned <=> \E r \in TakenRuns : z \in Extent(r)
      BY <1>5
    <2>4. \A z : (\E r \in U : z \in Extent(r)) <=>
                 (\E r \in FreeRuns : z \in Extent(r)) \/ (\E r \in TakenRuns : z \in Extent(r))
      OBVIOUS
    <2> HIDE DEF U, owned, given, A, B
    <2>5. \A z : z \in A \cup B <=> z \in given
      <3>1. \A z : z \in B <=> \E r \in FreeRuns : z \in Extent(r)
        BY <2>2 DEF B
      <3>2. \A z : z \in A <=> \E r \in TakenRuns : z \in Extent(r)
        BY <2>3 DEF A
      <3>3. QED
        BY <2>1, <2>4, <3>1, <3>2
    <2>6. QED
      BY <2>5
  <1>12. PagesPartitioned
    <2>1. Partition(runs, owned, given)
      <3> HIDE DEF owned, given
      <3>1. QED
        BY <1>8, <1>9, <1>10, <1>11 DEF Partition
    <2>2. QED
      BY <2>1 DEF PagesPartitioned, runs
  <1>13. QED
    BY <1>12 DEF PmmIInv, CountOK

(* The page allocator by itself: its pages stay partitioned into free and  *)
(* owned runs, its count is exact, and alloc() returns the run it took.    *)
THEOREM PmmPartitioned == Spec => [](PagesPartitioned /\ RefCountExact /\ ReturnReadsOwnRun)
  <1>1. Init => PmmIInv
    BY PmmInit
  <1>2. PmmIInv /\ [Next]_vars => PmmIInv'
    <2> SUFFICES ASSUME PmmIInv, [Next]_vars PROVE PmmIInv'
      OBVIOUS
    <2>1. CASE Next
      BY <2>1, UseStep DEF Next
    <2>2. CASE UNCHANGED vars
      BY <2>2, PmmUnchanged
    <2>3. QED
      BY <2>1, <2>2
  <1>3. QED
    BY <1>1, <1>2, PmmImplies, PTL DEF Spec
-----------------------------------------------------------------------------
(* The heap.                                                               *)

(* What kmalloc is to write into a header, and the headers of the blocks.  *)
HeapOK ==
  /\ want \in [Callers -> Nat]
  /\ \A c \in HeapCallers : curr[c] # None => curr[c].pages = kmalloc_pages(want[c])
  /\ HeaderNamesRun
  /\ \A a, b \in blocks : a.pa # 0 /\ a.pa = b.pa => a = b

(* kmalloc() asks for a page at least.                                     *)
LEMMA KmallocPages ==
  ASSUME NEW kb \in Sizes
  PROVE  kb \in Nat /\ kmalloc_pages(kb) \in Nat \ {0}
  <1> DEFINE x == kb + 1
             q == x \div PAGE_SIZE
             m == x % PAGE_SIZE
  <1>1. x \in Nat \ {0} /\ x < SizeRange /\ PAGE_SIZE \in Nat \ {0} /\ SizeRange \in Nat \ {0} /\ kb \in Nat
    BY HeapAssumption
  <1>2. x % SizeRange = x
    BY <1>1
  <1>3. q \in Nat /\ m \in Nat /\ x = PAGE_SIZE * q + m
    BY <1>1
  <1>4. m = 0 => q # 0
    BY <1>1, <1>3
  <1> HIDE DEF x, q, m
  <1>5. kmalloc_pages(kb) = q + (IF m # 0 THEN 1 ELSE 0)
    BY <1>2 DEF kmalloc_pages, bytes_to_pages, x, q, m
  <1>6. QED
    BY <1>1, <1>3, <1>4, <1>5

(* What HeapOK says after a step.                                          *)
LEMMA HeapAfter ==
  ASSUME want' \in [Callers -> Nat], HeaderNamesRun',
         \A c \in HeapCallers : curr'[c] # None => curr'[c].pages = kmalloc_pages(want'[c]),
         \A a, b \in blocks' : a.pa # 0 /\ a.pa = b.pa => a = b
  PROVE  HeapOK'
  BY DEF HeapOK, kmalloc_pages, bytes_to_pages

LEMMA HeapInitOK == HeapInit => PmmIInv /\ HeapOK
  <1> SUFFICES ASSUME HeapInit PROVE PmmIInv /\ HeapOK
    OBVIOUS
  <1>1. PmmIInv
    BY PmmInit DEF HeapInit
  <1>2. HeapOK
    BY HeapAssumption DEF HeapInit, Init, HeapOK, HeaderNamesRun
  <1>3. QED
    BY <1>1, <1>2

(* The invariant survives a kmalloc() under way,                           *)
LEMMA KmallocStep ==
  ASSUME PmmIInv, HeapOK, NEW c \in HeapCallers, NEW kb \in Sizes, Kmalloc(c, kb)
  PROVE  PmmIInv' /\ HeapOK'
  <1>1. c \in Callers /\ kb \in Nat /\ kmalloc_pages(kb) \in Nat \ {0} /\ Alloc(c, kmalloc_pages(kb))
    BY HeapAssumption, KmallocPages DEF Kmalloc
  <1>2. /\ PmmIInv' /\ curr'[c].pages = kmalloc_pages(kb)
        /\ \A r \in held : mem'[r.pa] = mem[r.pa]
    BY <1>1, AllocStep
  <1>3. /\ want' = [want EXCEPT ![c] = kb] /\ blocks' = blocks /\ held' = held
        /\ \A d \in Callers \ {c} : curr'[d] = curr[d]
    BY <1>1 DEF Kmalloc, Alloc, PmmIInv, RunsOK
  <1>4. want' \in [Callers -> Nat] /\ want'[c] = kb /\ \A d \in Callers \ {c} : want'[d] = want[d]
    BY <1>1, <1>3 DEF HeapOK
  <1>5. \A d \in HeapCallers : curr'[d] # None => curr'[d].pages = kmalloc_pages(want'[d])
    BY <1>2, <1>3, <1>4, HeapAssumption DEF HeapOK
  <1>6. HeaderNamesRun'
    <2> SUFFICES ASSUME NEW b \in blocks, b.pa # 0
                 PROVE  [pa |-> b.pa, pages |-> mem'[b.pa].next] \in held
      BY <1>3, Zenon DEF HeaderNamesRun
    <2> DEFINE r == [pa |-> b.pa, pages |-> mem[b.pa].next]
    <2>1. r \in held /\ r.pa = b.pa
      BY DEF HeapOK, HeaderNamesRun
    <2> HIDE DEF r
    <2>2. mem'[r.pa] = mem[r.pa]
      BY <1>2, <2>1
    <2>3. QED
      BY <2>1, <2>2 DEF r
  <1>7. \A a, b \in blocks' : a.pa # 0 /\ a.pa = b.pa => a = b
    BY <1>3 DEF HeapOK
  <1>8. QED
    BY <1>2, <1>4, <1>5, <1>6, <1>7, HeapAfter

(* one that finds no memory: its block lies in page 0,                     *)
LEMMA KmallocFailsStep ==
  ASSUME PmmIInv, HeapOK, NEW c \in HeapCallers, NEW kb \in Sizes, KmallocFails(c, kb)
  PROVE  PmmIInv' /\ HeapOK'
  <1> DEFINE new == [pa |-> 0, kb |-> kb]
  <1>1. UNCHANGED vars /\ want' = want /\ blocks' = blocks \cup {new} /\ new.pa = 0
    BY DEF KmallocFails, AllocFails
  <1> HIDE DEF new
  <1>2. curr' = curr /\ held' = held /\ mem' = mem
    BY <1>1 DEF vars
  <1>3. HeaderNamesRun'
    BY <1>1, <1>2 DEF HeapOK, HeaderNamesRun
  <1>4. \A a, b \in blocks' : a.pa # 0 /\ a.pa = b.pa => a = b
    BY <1>1 DEF HeapOK
  <1>5. HeapOK'
    BY <1>1, <1>2, <1>3, <1>4 DEF HeapOK, kmalloc_pages, bytes_to_pages
  <1>6. QED
    BY <1>1, <1>5, PmmUnchanged

(* the return of one that does, which writes the header,                                    *)
LEMMA KmallocReturnStep ==
  ASSUME PmmIInv, HeapOK, NEW c \in HeapCallers, KmallocReturn(c)
  PROVE  PmmIInv' /\ HeapOK'
  <1> DEFINE a == curr[c]
             h == header_pages(c)
             pa == mem[a.pa].pa
             new == [pa |-> pa, kb |-> want[c]]
  <1>1. c \in Callers /\ a # None /\ mem \in [Pages -> Node] /\ ListOK /\ RunsOK
    BY HeapAssumption DEF KmallocReturn, PmmIInv, ListOK, Listed, List
  <1>2. h = a.pages
    BY <1>1 DEF HeapOK, header_pages
  <1>3. a \in TakenRuns /\ a.pa \in Pages /\ a.pages \in Nat /\ a = [pa |-> a.pa, pages |-> a.pages]
    BY <1>1, RunsBefore DEF TakenRuns
  <1>4. pa = a.pa
    BY <1>1 DEF PmmIInv, ReturnReadsOwnRun
  <1>5. /\ mem' = [mem EXCEPT ![pa].next = h]
        /\ held' = held \cup {[pa |-> pa, pages |-> a.pages]}
        /\ blocks' = blocks \cup {new}
        /\ curr' = [curr EXCEPT ![c] = None]
        /\ UNCHANGED <<freelist_head, g_ref_alloc, reclaimed, want>>
    BY DEF KmallocReturn
  <1> HIDE DEF h
  <1>6. /\ mem' \in [Pages -> Node] /\ mem'[a.pa].next = a.pages
        /\ \A q \in Pages \ {a.pa} : mem'[q] = mem[q]
    <2>1. mem[a.pa] \in Node
      BY <1>1, <1>3
    <2>2. [mem[a.pa] EXCEPT !.next = h] \in Node /\ [mem[a.pa] EXCEPT !.next = h].next = h
      BY <1>2, <1>3, <2>1 DEF Node
    <2>3. QED
      BY <1>1, <1>2, <1>3, <1>4, <1>5, <2>2
  <1>7. /\ PmmIInv' /\ held' = held \cup {a} /\ a \notin held
        /\ \A r \in held : mem'[r.pa] = mem[r.pa]
    BY <1>1, <1>4, <1>5, <1>6, ReturnStep, Zenon
  <1>8. \A d \in Callers : curr'[d] # None => curr'[d] = curr[d]
    BY <1>1, <1>5 DEF RunsOK
  <1>9. \A b \in blocks : b.pa # 0 => [pa |-> b.pa, pages |-> mem'[b.pa].next] \in held /\ b.pa # a.pa
    <2> SUFFICES ASSUME NEW b \in blocks, b.pa # 0
                 PROVE  [pa |-> b.pa, pages |-> mem'[b.pa].next] \in held /\ b.pa # a.pa
      BY Zenon
    <2> DEFINE r == [pa |-> b.pa, pages |-> mem[b.pa].next]
    <2>1. r \in held /\ r.pa = b.pa /\ r \in TakenRuns
      BY DEF HeapOK, HeaderNamesRun, TakenRuns
    <2>2. mem'[b.pa] = mem[b.pa]
      BY <1>7, <2>1
    <2>3. r # a
      BY <1>7, <2>1
    <2>4. r.pa # a.pa
      BY <1>1, <1>3, <2>1, <2>3, RunsBefore
    <2>5. QED
      BY <2>1, <2>2, <2>4
  <1>10. [pa |-> new.pa, pages |-> mem'[new.pa].next] = a /\ new.pa = a.pa
    <2>1. new.pa = a.pa
      BY <1>4
    <2> HIDE DEF a, new
    <2>2. QED
      BY <1>3, <1>6, <2>1
  <1> HIDE DEF new
  <1>11. HeaderNamesRun'
    BY <1>5, <1>7, <1>9, <1>10 DEF HeaderNamesRun
  <1>12. \A b, e \in blocks' : b.pa # 0 /\ b.pa = e.pa => b = e
    BY <1>5, <1>9, <1>10 DEF HeapOK
  <1>13. \A d \in HeapCallers : curr'[d] # None => curr'[d].pages = kmalloc_pages(want'[d])
    BY <1>5, <1>8, HeapAssumption DEF HeapOK
  <1>14. want' \in [Callers -> Nat]
    BY <1>5 DEF HeapOK
  <1>15. QED
    BY <1>7, <1>11, <1>12, <1>13, <1>14, HeapAfter

(* and kmalloc_free(): the run that the header names is the one held at    *)
(* that page.                                                              *)
LEMMA KmallocFreeStep ==
  ASSUME PmmIInv, HeapOK, NEW b \in blocks, KmallocFree(b)
  PROVE  PmmIInv' /\ HeapOK'
  <1> DEFINE r == [pa |-> b.pa, pages |-> mem[b.pa].next]
  <1>1. r \in held /\ r.pa = b.pa /\ ListOK /\ RunsOK /\ b.pa # 0
    BY DEF HeapOK, HeaderNamesRun, PmmIInv, KmallocFree
  <1>2. \A q \in held : q.pa = b.pa => q = r
    BY <1>1, RunsBefore DEF TakenRuns
  <1>3. /\ release_run(r) /\ held' = {q \in held : q.pa # b.pa}
        /\ blocks' = blocks \ {b} /\ UNCHANGED <<curr, reclaimed, want>>
    BY DEF KmallocFree
  <1> HIDE DEF r
  <1>4. held' = held \ {r}
    BY <1>1, <1>2, <1>3
  <1>5. PmmIInv' /\ \A q \in held' : mem'[q.pa] = mem[q.pa]
    BY <1>1, <1>3, <1>4, FreeStep
  <1>6. HeaderNamesRun'
    <2> SUFFICES ASSUME NEW e \in blocks \ {b}, e.pa # 0
                 PROVE  [pa |-> e.pa, pages |-> mem'[e.pa].next] \in held'
      BY <1>3, Zenon DEF HeaderNamesRun
    <2> DEFINE q == [pa |-> e.pa, pages |-> mem[e.pa].next]
    <2>1. q \in held /\ q.pa = e.pa /\ e.pa # b.pa
      BY <1>1 DEF HeapOK, HeaderNamesRun
    <2>2. q \in held'
      BY <1>3, <2>1
    <2>3. mem'[e.pa] = mem[e.pa]
      BY <1>5, <2>1, <2>2
    <2>4. QED
      BY <2>2, <2>3
  <1>7. /\ want' \in [Callers -> Nat] /\ \A a, e \in blocks' : a.pa # 0 /\ a.pa = e.pa => a = e
        /\ \A c \in HeapCallers : curr'[c] # None => curr'[c].pages = kmalloc_pages(want'[c])
    BY <1>3 DEF HeapOK
  <1>8. QED
    BY <1>5, <1>6, <1>7, HeapAfter

(* A write to a block spares its header and the other blocks' headers.     *)
LEMMA WriteBlockStep ==
  ASSUME PmmIInv, HeapOK, NEW b \in blocks, NEW p \in Pages, NEW g \in Garbage, WriteBlock(b, p, g)
  PROVE  PmmIInv' /\ HeapOK'
  <1>1. mem \in [Pages -> Node] /\ ListOK /\ RunsOK /\ g \in Node
    BY MemmapAssumption DEF PmmIInv, ListOK, Listed, List
  <1>2. PICK r \in held : r.pa = b.pa /\ p \in Run(r.pa, r.pages)
    BY DEF WriteBlock
  <1>3. mem' = [mem EXCEPT ![p] = IF p = b.pa THEN [@ EXCEPT !.pa = g.pa] ELSE g]
    BY DEF WriteBlock
  <1>4. [mem[p] EXCEPT !.pa = g.pa] \in Node /\ [mem[p] EXCEPT !.pa = g.pa].next = mem[p].next
    <2>1. mem[p] \in Node
      BY <1>1
    <2>2. QED
      BY <1>1, <2>1 DEF Node
  <1>5. /\ mem' \in [Pages -> Node] /\ \A q \in Pages \ {p} : mem'[q] = mem[q]
        /\ p = b.pa => mem'[p].next = mem[p].next
    BY <1>1, <1>3, <1>4
  <1>6. UNCHANGED <<freelist_head, g_ref_alloc, curr, held, reclaimed, want, blocks>> /\ p \in Extent(r)
    BY <1>2 DEF WriteBlock, Extent
  <1>7. PmmIInv' /\ \A q \in held : q # r => mem'[q.pa] = mem[q.pa]
    BY <1>5, <1>6, WriteStep
  <1>8. HeaderNamesRun'
    <2> SUFFICES ASSUME NEW e \in blocks, e.pa # 0
                 PROVE  [pa |-> e.pa, pages |-> mem'[e.pa].next] \in held
      BY <1>6, Zenon DEF HeaderNamesRun
    <2> DEFINE q == [pa |-> e.pa, pages |-> mem[e.pa].next]
    <2>1. q \in held /\ q.pa = e.pa /\ q.pa \in Pages
      BY <1>1, RunsBefore DEF HeapOK, HeaderNamesRun, TakenRuns
    <2>2. mem'[e.pa].next = mem[e.pa].next
      <3>1. CASE e.pa = b.pa
        BY <1>5, <2>1, <3>1
      <3>2. CASE e.pa # b.pa
        BY <1>2, <1>7, <2>1, <3>2
      <3>3. QED
        BY <3>1, <3>2
    <2>3. QED
      BY <2>1, <2>2
  <1>9. /\ want' \in [Callers -> Nat] /\ \A a, e \in blocks' : a.pa # 0 /\ a.pa = e.pa => a = e
        /\ \A c \in HeapCallers : curr'[c] # None => curr'[c].pages = kmalloc_pages(want'[c])
    BY <1>6 DEF HeapOK
  <1>10. QED
    BY <1>7, <1>8, <1>9, HeapAfter

(* The direct users of the allocator leave the blocks alone.               *)
LEMMA DirectStep ==
  ASSUME PmmIInv, HeapOK, DirectUse
  PROVE  PmmIInv' /\ HeapOK'
  <1>0. Use(Callers \ HeapCallers, DirectRuns) /\ UNCHANGED <<want, blocks>>
    BY DEF DirectUse
  <1>1. Callers \ HeapCallers \in SUBSET Callers /\ DirectRuns \in SUBSET held
    BY DEF DirectRuns
  <1>2. /\ PmmIInv'
        /\ \A q \in held \ DirectRuns : q \in held' /\ mem'[q.pa] = mem[q.pa]
        /\ \A c \in Callers \ (Callers \ HeapCallers) : curr'[c] = curr[c]
    BY <1>0, <1>1, UseStep
  <1>3. \A c \in HeapCallers : curr'[c] = curr[c]
    BY <1>2, HeapAssumption
  <1>4. HeaderNamesRun'
    <2> SUFFICES ASSUME NEW b \in blocks, b.pa # 0
                 PROVE  [pa |-> b.pa, pages |-> mem'[b.pa].next] \in held'
      BY <1>0, Zenon DEF HeaderNamesRun
    <2> DEFINE r == [pa |-> b.pa, pages |-> mem[b.pa].next]
    <2>1. r \in held /\ r.pa = b.pa
      BY DEF HeapOK, HeaderNamesRun
    <2>2. r \in held \ DirectRuns
      BY <2>1 DEF DirectRuns
    <2>3. QED
      BY <1>2, <2>1, <2>2
  <1>5. QED
    BY <1>0, <1>2, <1>3, <1>4 DEF HeapOK, kmalloc_pages, bytes_to_pages

(* A block in page 0 changes nothing before it is used.                    *)
LEMMA NullStep ==
  ASSUME PmmIInv, HeapOK, NEW b \in blocks, FreeNull(b) \/ UseNull(b)
  PROVE  PmmIInv' /\ HeapOK'
  <1>1. UNCHANGED vars /\ want' = want /\ blocks' \subseteq blocks
    BY DEF FreeNull, UseNull
  <1>2. curr' = curr /\ held' = held /\ mem' = mem
    BY <1>1 DEF vars
  <1>3. HeaderNamesRun'
    BY <1>1, <1>2 DEF HeapOK, HeaderNamesRun
  <1>4. HeapOK'
    BY <1>1, <1>2, <1>3 DEF HeapOK, kmalloc_pages, bytes_to_pages
  <1>5. QED
    BY <1>1, <1>4, PmmUnchanged

LEMMA HeapInductive == PmmIInv /\ HeapOK /\ [HeapNext]_hvars => PmmIInv' /\ HeapOK'
  <1> SUFFICES ASSUME PmmIInv, HeapOK, [HeapNext]_hvars PROVE PmmIInv' /\ HeapOK'
    OBVIOUS
  <1>1. ASSUME NEW c \in HeapCallers, NEW kb \in Sizes, Kmalloc(c, kb) PROVE PmmIInv' /\ HeapOK'
    BY <1>1, KmallocStep
  <1>2. ASSUME NEW c \in HeapCallers, KmallocReturn(c) PROVE PmmIInv' /\ HeapOK'
    BY <1>2, KmallocReturnStep
  <1>3. ASSUME NEW b \in blocks, KmallocFree(b) PROVE PmmIInv' /\ HeapOK'
    BY <1>3, KmallocFreeStep
  <1>4. ASSUME NEW b \in blocks, NEW p \in Pages, NEW g \in Garbage, WriteBlock(b, p, g)
        PROVE  PmmIInv' /\ HeapOK'
    BY <1>4, WriteBlockStep
  <1>5. CASE DirectUse
    BY <1>5, DirectStep
  <1>8. ASSUME NEW c \in HeapCallers, NEW kb \in Sizes, KmallocFails(c, kb) PROVE PmmIInv' /\ HeapOK'
    BY <1>8, KmallocFailsStep
  <1>9. ASSUME NEW b \in blocks, FreeNull(b) \/ UseNull(b) PROVE PmmIInv' /\ HeapOK'
    BY <1>9, NullStep
  <1>6. CASE UNCHANGED hvars
    <2>1. UNCHANGED vars /\ want' = want /\ blocks' = blocks
      BY <1>6 DEF hvars
    <2>2. curr' = curr /\ held' = held /\ mem' = mem
      BY <2>1 DEF vars
    <2>3. HeaderNamesRun'
      BY <2>1, <2>2 DEF HeapOK, HeaderNamesRun
    <2>4. HeapOK'
      BY <2>1, <2>2, <2>3 DEF HeapOK
    <2>5. QED
      BY <2>1, <2>4, PmmUnchanged
  <1>7. QED
    BY <1>1, <1>2, <1>3, <1>4, <1>5, <1>6, <1>8, <1>9 DEF HeapNext

LEMMA HeapInvariant == HeapSpec => [](PmmIInv /\ HeapOK)
  BY HeapInitOK, HeapInductive, PTL DEF HeapSpec

(* Whatever kmalloc(), kmalloc_free(), their users and the direct users of *)
(* the page allocator do, every page that the allocator was given is in    *)
(* exactly one run, free or handed out.                                    *)
THEOREM HeapPagesPartitioned == HeapSpec => []PagesPartitioned
  BY HeapInvariant, PmmImplies, PTL

(* g_ref_alloc is the number of allocations outstanding, so that free()    *)
(* never turns an owner down.                                              *)
THEOREM HeapRefCountExact == HeapSpec => []RefCountExact
  BY HeapInvariant, PmmImplies, PTL

(* alloc() returns the run that it unlinked although it reads the address  *)
(* from the page after it released the lock.                               *)
THEOREM HeapReturnReadsOwnRun == HeapSpec => []ReturnReadsOwnRun
  BY HeapInvariant, PmmImplies, PTL

(* The header of a live block names the run that was handed out for it, so *)
(* that kmalloc_free() gives back that run and no other page; calls that   *)
(* find no memory leave these headers alone.                               *)
THEOREM HeapHeaderNamesRun == HeapSpec => []HeaderNamesRun
  <1>1. HeapOK => HeaderNamesRun
    BY DEF HeapOK
  <1>2. QED
    BY <1>1, HeapInvariant, PTL
=============================================================================

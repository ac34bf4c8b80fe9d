--------------------------- MODULE FreeListProofs ---------------------------
(***************************************************************************)
(* What is free is a list threaded through the free pages themselves.      *)
(* Here: which sequence of pages that list is, how push_list, unlink and   *)
(* alloc's search change it, and that its runs and those handed out tile   *)
(* the memory that was given.                                              *)
(***************************************************************************)
EXTENDS Pmm, FiniteSetTheorems, TLAPS

(* An element of a sequence over S is in S.                                *)
LEMMA SeqElement ==
  ASSUME NEW S, NEW s \in Seq(S), NEW n \in 1 .. Len(s)
  PROVE  s[n] \in S
  OBVIOUS

(* A sequence is a function on the numbers up to its length.               *)
LEMMA SeqLength ==
  ASSUME NEW S, NEW s \in Seq(S)
  PROVE  Len(s) \in Nat /\ s \in [1 .. Len(s) -> S] /\ DOMAIN s = 1 .. Len(s)
  OBVIOUS

(* A function on the numbers up to n is a sequence.                        *)
LEMMA SeqOfFunction ==
  ASSUME NEW S, NEW n \in Nat, NEW f \in [1 .. n -> S]
  PROVE  f \in Seq(S)
  OBVIOUS

Below == {p \in Nat \X Nat : p[1] < p[2]}

(* A set of naturals that is not empty has a least element.                *)
LEMMA LeastNat ==
  ASSUME NEW S \in SUBSET Nat, S # {}
  PROVE  \E m \in S : \A k \in S : m <= k
  <1>1. IsWellFoundedOn(Below, Nat)
    BY NatLessThanWellFounded DEF OpToRel, Below
  <1>2. PICK m \in S : \A k \in S : <<k, m>> \notin Below
    BY <1>1, WFMin, Zenon
  <1>3. \A k \in S : k < m => <<k, m>> \in Below
    BY DEF Below
  <1>4. \A k \in S : k \in Nat /\ m \in Nat /\ ~(k < m)
    BY <1>2, <1>3, Zenon
  <1>5. \A k \in S : m <= k
    BY <1>4
  <1>6. QED
    BY <1>5

(* The fields of an entry of the memory map.                               *)
LEMMA MemmapTypes ==
  /\ Len(Memmap) \in Nat /\ DOMAIN Memmap = 1 .. Len(Memmap)
  /\ \A i \in 1 .. Len(Memmap) : Memmap[i].base \in Nat \ {0} /\ Memmap[i].pages \in Nat \ {0}
  <1>1. Memmap \in Seq([base : Nat \ {0}, pages : Nat \ {0}, type : STRING])
    BY MemmapAssumption
  <1>2. Len(Memmap) \in Nat /\ DOMAIN Memmap = 1 .. Len(Memmap)
    BY <1>1
  <1>3. \A i \in 1 .. Len(Memmap) :
          Memmap[i] \in [base : Nat \ {0}, pages : Nat \ {0}, type : STRING]
    BY <1>1, SeqElement, Zenon
  <1>4. QED
    BY <1>2, <1>3

LEMMA PagesFinite == IsFiniteSet(Pages) /\ Pages \subseteq Nat \ {0}
  <1> DEFINE n == Len(Memmap)
             S == {Run(Memmap[i].base, Memmap[i].pages) : i \in 1 .. n}
             f == [i \in 1 .. n |-> Run(Memmap[i].base, Memmap[i].pages)]
  <1>1. n \in Nat /\ Pages = UNION S
    BY MemmapTypes DEF Pages
  <1>2. f \in Surjection(1 .. n, S)
    BY DEF Surjection
  <1>3. IsFiniteSet(1 .. n)
    BY <1>1, FS_Interval
  <1>4. IsFiniteSet(S)
    BY <1>2, <1>3, FS_Surjection
  <1>5. \A T \in S : IsFiniteSet(T) /\ T \subseteq Nat \ {0}
    <2> SUFFICES ASSUME NEW i \in 1 .. n
                 PROVE  LET T == Run(Memmap[i].base, Memmap[i].pages)
                        IN  IsFiniteSet(T) /\ T \subseteq Nat \ {0}
      OBVIOUS
    <2>1. Memmap[i].base \in Nat \ {0} /\ Memmap[i].pages \in Nat \ {0}
      BY MemmapTypes
    <2>2. Memmap[i].base \in Int /\ Memmap[i].base + Memmap[i].pages - 1 \in Int
      BY <2>1
    <2>3. IsFiniteSet(Memmap[i].base .. Memmap[i].base + Memmap[i].pages - 1)
      BY <2>2, FS_Interval, Zenon
    <2>4. QED
      BY <2>1, <2>3 DEF Run
  <1> HIDE DEF S
  <1>6. IsFiniteSet(UNION S)
    BY <1>4, <1>5, FS_UNION
  <1>7. QED
    BY <1>1, <1>5, <1>6
-----------------------------------------------------------------------------
(* The free list.                                                          *)

Nth(w, i) == IF i <= Len(w) THEN w[i] ELSE 0

(* The list of s is threaded through the pages w.                          *)
Listed(w, s) ==
  /\ w \in Seq(Pages) /\ s.mem \in [Pages -> Node] /\ s = [mem |-> s.mem, head |-> s.head]
  /\ \A i, j \in 1 .. Len(w) : w[i] = w[j] => i = j
  /\ s.head = Nth(w, 1)
  /\ \A i \in 1 .. Len(w) : s.mem[w[i]].next = Nth(w, i + 1) /\ s.mem[w[i]].pa = w[i]

(* Its runs.                                                               *)
RunsOf(w, m) == {[pa |-> w[i], pages |-> m[w[i]].num_pages] : i \in 1 .. Len(w)}

(* A list without cycles is not longer than there are pages.               *)
LEMMA ListedLength ==
  ASSUME NEW w, NEW s, Listed(w, s)
  PROVE  Len(w) \in Nat /\ Len(w) <= Cardinality(Pages) /\ Cardinality(Pages) \in Nat
  <1>1. w \in Seq(Pages) /\ Len(w) \in Nat /\ w \in [1 .. Len(w) -> Pages]
    BY DEF Listed
  <1>2. w \in Injection(1 .. Len(w), Pages)
    BY <1>1 DEF Listed, Injection, IsInjective
  <1>3. IsFiniteSet(Pages) /\ Cardinality(Pages) \in Nat
    BY PagesFinite, FS_CardinalityType
  <1>4. Cardinality(1 .. Len(w)) <= Cardinality(Pages)
    BY <1>2, <1>3, FS_Injection
  <1>5. Cardinality(1 .. Len(w)) = Len(w)
    <2>1. Cardinality(1 .. Len(w)) = IF 1 > Len(w) THEN 0 ELSE Len(w) - 1 + 1
      BY <1>1, FS_Interval
    <2>2. QED
      BY <1>1, <2>1
  <1>6. QED
    BY <1>1, <1>3, <1>4, <1>5

Walked(f, s, n) ==
  f = [k \in 0 .. n |-> IF k = 0 THEN s.head
                        ELSE IF f[k - 1] = 0 THEN 0 ELSE s.mem[f[k - 1]].next]

(* The search meets exactly the pages of the list, in its order.           *)
LEMMA WalkIs ==
  ASSUME NEW w, NEW s, Listed(w, s)
  PROVE  Walk(s) = w
  <1> DEFINE n == Cardinality(Pages)
             f == CHOOSE f : Walked(f, s, n)
             g == [k \in 0 .. n |-> Nth(w, k + 1)]
  <1>1. w \in Seq(Pages) /\ Len(w) \in Nat /\ Len(w) <= n /\ n \in Nat
    <2>1. w \in Seq(Pages)
      BY DEF Listed
    <2>2. QED
      BY <2>1, ListedLength
  <1> HIDE DEF n
  <1>2. \A i \in 1 .. Len(w) : w[i] \in Pages /\ w[i] # 0 /\ w[i] \in Nat
    BY <1>1, PagesFinite, SeqElement, Zenon
  <1>3. \A k \in 0 .. n : k # 0 => g[k] = IF g[k - 1] = 0 THEN 0 ELSE s.mem[g[k - 1]].next
    <2> SUFFICES ASSUME NEW k \in 0 .. n, k # 0
                 PROVE  g[k] = IF g[k - 1] = 0 THEN 0 ELSE s.mem[g[k - 1]].next
      OBVIOUS
    <2>1. k - 1 \in 0 .. n /\ g[k] = Nth(w, k + 1) /\ g[k - 1] = Nth(w, k)
      BY <1>1
    <2>2. CASE k <= Len(w)
      <3>1. k \in 1 .. Len(w) /\ g[k - 1] = w[k] /\ w[k] # 0
        BY <1>1, <1>2, <2>1, <2>2 DEF Nth
      <3>2. s.mem[w[k]].next = Nth(w, k + 1)
        BY <3>1 DEF Listed
      <3>3. QED
        BY <2>1, <3>1, <3>2
    <2>3. CASE ~(k <= Len(w))
      BY <1>1, <2>1, <2>3 DEF Nth
    <2>4. QED
      BY <2>2, <2>3
  <1>4. g[0] = s.head
    BY <1>1 DEF Listed
  <1>5. Walked(g, s, n)
    BY <1>3, <1>4 DEF Walked
  <1>6. Walked(f, s, n)
    BY <1>5
  <1>7. Walk(s) = [i \in 1 .. Cardinality({k \in DOMAIN f : f[k] # 0}) |-> f[i - 1]]
    BY DEF Walk, Walked, n
  <1> HIDE DEF f, g
  <1>8. \A k \in 0 .. n : f[k] = g[k]
    <2> DEFINE S == {k \in 0 .. n : f[k] # g[k]}
    <2> SUFFICES ASSUME S # {} PROVE FALSE
      OBVIOUS
    <2>0. S \in SUBSET Nat
      BY <1>1
    <2>1. PICK m \in S : \A k \in S : m <= k
      <3> HIDE DEF S
      <3> QED BY <2>0, LeastNat
    <2>2. m # 0
      BY <1>1, <1>4, <1>6 DEF Walked
    <2>3. m - 1 \in 0 .. n /\ m - 1 \notin S
      BY <1>1, <2>1, <2>2
    <2>4. f[m - 1] = g[m - 1]
      BY <2>3, Zenon
    <2>5. f[m] = IF f[m - 1] = 0 THEN 0 ELSE s.mem[f[m - 1]].next
      BY <1>6, <2>1, <2>2, Zenon DEF Walked
    <2>6. QED
      BY <1>3, <2>1, <2>2, <2>4, <2>5
  <1>9. DOMAIN f = 0 .. n
    BY <1>6 DEF Walked
  <1>10. {k \in DOMAIN f : f[k] # 0} = 0 .. Len(w) - 1
    <2>1. \A k \in 0 .. n : g[k] # 0 <=> k + 1 <= Len(w)
      BY <1>1, <1>2 DEF g, Nth
    <2>2. \A k \in 0 .. n : f[k] # 0 <=> k \in 0 .. Len(w) - 1
      BY <1>1, <1>8, <2>1
    <2>3. 0 .. Len(w) - 1 \subseteq 0 .. n
      BY <1>1
    <2>4. QED
      BY <1>9, <2>2, <2>3
  <1>11. Cardinality(0 .. Len(w) - 1) = Len(w)
    <2>1. Cardinality(0 .. Len(w) - 1) = IF 0 > Len(w) - 1 THEN 0 ELSE Len(w) - 1 - 0 + 1
      <3>1. 0 \in Int /\ Len(w) - 1 \in Int
        BY <1>1
      <3>2. QED
        BY <3>1, FS_Interval
    <2>2. QED
      BY <1>1, <2>1
  <1>12. \A i \in 1 .. Len(w) : f[i - 1] = w[i]
    BY <1>1, <1>8 DEF g, Nth
  <1>13. Walk(s) = [i \in 1 .. Len(w) |-> w[i]]
    BY <1>7, <1>10, <1>11, <1>12, Zenon
  <1>14. QED
    BY <1>1, <1>13
-----------------------------------------------------------------------------
(* What the operations do to the list.                                     *)

(* A page that is not in the list becomes its head.                        *)
LEMMA Push ==
  ASSUME NEW w, NEW s, Listed(w, s), NEW p \in Pages, NEW n \in Nat,
         \A i \in 1 .. Len(w) : w[i] # p
  PROVE  LET v == <<p>> \o w  t == push_list(s, p, n) IN
         /\ Listed(v, t)
         /\ \A q \in Pages \ {p} : t.mem[q] = s.mem[q]
         /\ RunsOf(v, t.mem) = RunsOf(w, s.mem) \cup {[pa |-> p, pages |-> n]}
  <1> DEFINE v == <<p>> \o w
             t == push_list(s, p, n)
             node == [next |-> s.head, num_pages |-> n, pa |-> p]
  <1>1. w \in Seq(Pages) /\ Len(w) \in Nat /\ s.mem \in [Pages -> Node]
    BY DEF Listed
  <1>2. /\ v \in Seq(Pages) /\ Len(v) = Len(w) + 1 /\ v[1] = p
        /\ \A i \in 1 .. Len(w) : v[i + 1] = w[i]
        /\ \A i \in 2 .. Len(v) : i - 1 \in 1 .. Len(w) /\ v[i] = w[i - 1]
    BY <1>1
  <1>3. \A i \in 1 .. Len(w) : w[i] \in Pages /\ w[i] \in Nat
    BY <1>1, SeqElement, PagesFinite, Zenon
  <1>4. s.head \in Nat
    BY <1>1, <1>3 DEF Listed, Nth
  <1>5. node \in Node /\ p \in Nat \ {0}
    BY <1>4, PagesFinite DEF Node
  <1>6. t.mem = [s.mem EXCEPT ![p] = node] /\ t.head = p /\ t = [mem |-> t.mem, head |-> t.head]
    BY DEF push_list
  <1>7. /\ t.mem \in [Pages -> Node] /\ t.mem[p] = node
        /\ \A q \in Pages \ {p} : t.mem[q] = s.mem[q]
    BY <1>1, <1>5, <1>6
  <1> HIDE DEF v, t
  <1>8. \A i, j \in 1 .. Len(v) : v[i] = v[j] => i = j
    <2> SUFFICES ASSUME NEW i \in 1 .. Len(v), NEW j \in 1 .. Len(v), v[i] = v[j]
                 PROVE  i = j
      OBVIOUS
    <2>1. CASE i = 1 /\ j = 1
      BY <2>1
    <2>2. CASE i = 1 /\ j # 1
      BY <1>1, <1>2, <2>2
    <2>3. CASE i # 1 /\ j = 1
      BY <1>1, <1>2, <2>3
    <2>4. CASE i # 1 /\ j # 1
      <3>1. /\ i - 1 \in 1 .. Len(w) /\ v[i] = w[i - 1]
            /\ j - 1 \in 1 .. Len(w) /\ v[j] = w[j - 1]
        BY <1>1, <1>2, <2>4
      <3>2. i - 1 = j - 1
        BY <3>1 DEF Listed
      <3>3. QED
        BY <1>1, <1>2, <3>2
    <2>5. QED
      BY <2>1, <2>2, <2>3, <2>4
  <1>9. \A i \in 1 .. Len(v) : t.mem[v[i]].next = Nth(v, i + 1) /\ t.mem[v[i]].pa = v[i]
    <2> SUFFICES ASSUME NEW i \in 1 .. Len(v)
                 PROVE  t.mem[v[i]].next = Nth(v, i + 1) /\ t.mem[v[i]].pa = v[i]
      OBVIOUS
    <2>1. CASE i = 1
      <3>1. Nth(v, 2) = Nth(w, 1)
        BY <1>1, <1>2 DEF Nth
      <3>2. QED
        BY <1>1, <1>2, <1>7, <2>1, <3>1 DEF Listed
    <2>2. CASE i # 1
      <3>1. i - 1 \in 1 .. Len(w) /\ v[i] = w[i - 1] /\ v[i] \in Pages \ {p}
        BY <1>1, <1>2, <1>3, <2>2
      <3>2. t.mem[v[i]] = s.mem[w[i - 1]]
        BY <1>7, <3>1
      <3>3. s.mem[w[i - 1]].next = Nth(w, i - 1 + 1) /\ s.mem[w[i - 1]].pa = w[i - 1]
        BY <3>1 DEF Listed
      <3>4. Nth(v, i + 1) = Nth(w, i - 1 + 1)
        BY <1>1, <1>2, <2>2 DEF Nth
      <3>5. QED
        BY <3>1, <3>2, <3>3, <3>4
    <2>3. QED
      BY <2>1, <2>2
  <1>10. Listed(v, t)
    <2>1. t.head = Nth(v, 1)
      BY <1>1, <1>2, <1>6 DEF Nth
    <2>2. QED
      BY <1>2, <1>6, <1>7, <1>8, <1>9, <2>1 DEF Listed
  <1>11. RunsOf(v, t.mem) = RunsOf(w, s.mem) \cup {[pa |-> p, pages |-> n]}
    <2> DEFINE e(i) == [pa |-> v[i], pages |-> t.mem[v[i]].num_pages]
               o(i) == [pa |-> w[i], pages |-> s.mem[w[i]].num_pages]
    <2>1. e(1) = [pa |-> p, pages |-> n] /\ 1 \in 1 .. Len(v)
      BY <1>1, <1>2, <1>7
    <2>2. \A i \in 1 .. Len(w) : i + 1 \in 1 .. Len(v) /\ e(i + 1) = o(i)
      BY <1>1, <1>2, <1>3, <1>7
    <2>3. \A i \in 2 .. Len(v) : i - 1 \in 1 .. Len(w) /\ e(i) = o(i - 1)
      BY <1>1, <1>2, <1>3, <1>7
    <2>4. RunsOf(v, t.mem) = {e(i) : i \in 1 .. Len(v)} /\ RunsOf(w, s.mem) = {o(i) : i \in 1 .. Len(w)}
      BY DEF RunsOf
    <2>5. 1 .. Len(v) = {1} \cup 2 .. Len(v)
      BY <1>1, <1>2
    <2> HIDE DEF e, o
    <2>6. QED
      BY <2>1, <2>2, <2>3, <2>4, <2>5, Zenon
  <1>12. QED
    BY <1>7, <1>10, <1>11 DEF v, t

Without(w, i) == [j \in 1 .. Len(w) - 1 |-> IF j < i THEN w[j] ELSE w[j + 1]]

(* alloc() takes the node at position i out, and changes no other field    *)
(* than the next of the node before it.                                    *)
LEMMA Unlink ==
  ASSUME NEW w, NEW s, Listed(w, s), NEW i \in 1 .. Len(w)
  PROVE  LET v == Without(w, i)  t == unlink(s, i) IN
         /\ Listed(v, t)
         /\ \A j \in 1 .. Len(v) : v[j] # w[i] /\ \E k \in 1 .. Len(w) : v[j] = w[k]
         /\ \A q \in Pages : t.mem[q].num_pages = s.mem[q].num_pages
         /\ \A q \in Pages : (\A j \in 1 .. Len(v) : q # v[j]) => t.mem[q] = s.mem[q]
         /\ RunsOf(v, t.mem) =
              RunsOf(w, s.mem) \ {[pa |-> w[i], pages |-> s.mem[w[i]].num_pages]}
  <1> DEFINE v == Without(w, i)
             t == unlink(s, i)
  <1>0. Walk(s) = w
    BY WalkIs
  <1>1. w \in Seq(Pages) /\ Len(w) \in Nat /\ s.mem \in [Pages -> Node] /\ Walk(s) = w
    BY <1>0 DEF Listed
  <1>2. \A j \in 1 .. Len(w) : w[j] \in Pages /\ w[j] \in Nat
    BY <1>1, SeqElement, PagesFinite, Zenon
  <1>3. /\ v \in Seq(Pages) /\ Len(v) = Len(w) - 1 /\ Len(v) \in Nat
        /\ \A j \in 1 .. Len(v) : v[j] = IF j < i THEN w[j] ELSE w[j + 1]
    <2>1. \A j \in 1 .. Len(w) - 1 : (IF j < i THEN w[j] ELSE w[j + 1]) \in Pages
      BY <1>1, <1>2
    <2>2. v \in [1 .. Len(w) - 1 -> Pages] /\ Len(w) - 1 \in Nat
      BY <1>1, <2>1 DEF Without
    <2>3. v \in Seq(Pages)
      BY <2>2, SeqOfFunction
    <2>4. DOMAIN v = 1 .. Len(w) - 1
      BY <2>2
    <2>5. Len(v) = Len(w) - 1
      BY <2>2, <2>3, <2>4, SeqLength
    <2>6. QED
      BY <2>2, <2>3, <2>5 DEF Without
  <1>4. /\ t.mem \in [Pages -> Node] /\ t = [mem |-> t.mem, head |-> t.head]
        /\ t.head = Nth(v, 1)
        /\ \A q \in Pages : t.mem[q].num_pages = s.mem[q].num_pages /\ t.mem[q].pa = s.mem[q].pa
        /\ \A q \in Pages : (i > 1 => q # w[i - 1]) => t.mem[q] = s.mem[q]
        /\ i > 1 => t.mem[w[i - 1]].next = Nth(w, i + 1)
    <2>1. CASE i = 1
      <3>1. t = [s EXCEPT !.head = s.mem[w[1]].next]
        BY <1>1, <2>1 DEF unlink
      <3>2. s = [mem |-> s.mem, head |-> s.head]
        BY DEF Listed
      <3>3. t.mem = s.mem /\ t.head = s.mem[w[1]].next /\ t = [mem |-> t.mem, head |-> t.head]
        BY <3>1, <3>2
      <3>4. s.mem[w[1]].next = Nth(w, 2)
        BY <2>1 DEF Listed
      <3>5. Nth(w, 2) = Nth(v, 1)
        BY <1>1, <1>3, <2>1 DEF Nth
      <3>6. QED
        BY <1>1, <2>1, <3>3, <3>4, <3>5
    <2>2. CASE i # 1
      <3> DEFINE x == w[i - 1]
                 y == s.mem[w[i]].next
      <3>1. i > 1 /\ i - 1 \in 1 .. Len(w) /\ x \in Pages
        BY <1>1, <1>2, <2>2
      <3>2. t = [s EXCEPT !.mem[x].next = y]
        BY <1>1, <2>2 DEF unlink
      <3>3. y = Nth(w, i + 1) /\ y \in Nat
        BY <1>1, <1>2 DEF Listed, Nth
      <3>4. s = [mem |-> s.mem, head |-> s.head] /\ s.head = Nth(w, 1)
        BY DEF Listed
      <3> HIDE DEF x, y
      <3>5. t = [mem |-> [s.mem EXCEPT ![x].next = y], head |-> s.head]
        BY <3>2, <3>4
      <3>6. s.mem[x] \in Node
        BY <1>1, <3>1
      <3>7. /\ [s.mem[x] EXCEPT !.next = y] \in Node
            /\ [s.mem[x] EXCEPT !.next = y].num_pages = s.mem[x].num_pages
            /\ [s.mem[x] EXCEPT !.next = y].pa = s.mem[x].pa
            /\ [s.mem[x] EXCEPT !.next = y].next = y
        BY <3>3, <3>6 DEF Node
      <3>8. /\ t.mem \in [Pages -> Node] /\ t.mem[x] = [s.mem[x] EXCEPT !.next = y]
            /\ \A q \in Pages \ {x} : t.mem[q] = s.mem[q]
        BY <1>1, <3>1, <3>5, <3>7
      <3>9. Nth(w, 1) = Nth(v, 1)
        BY <1>1, <1>3, <2>2 DEF Nth
      <3>10. QED
        BY <3>1, <3>3, <3>4, <3>5, <3>7, <3>8, <3>9 DEF x
    <2>3. QED
      BY <2>1, <2>2
  <1> DEFINE at(j) == IF j < i THEN j ELSE j + 1
  <1>5. \A j \in 1 .. Len(v) : at(j) \in 1 .. Len(w) /\ at(j) # i /\ v[j] = w[at(j)]
    BY <1>1, <1>3
  <1>6. \A j, k \in 1 .. Len(v) : at(j) = at(k) => j = k
    BY <1>1, <1>3
  <1>7. \A j \in 1 .. Len(w) : j # i => \E k \in 1 .. Len(v) : at(k) = j
    <2> SUFFICES ASSUME NEW j \in 1 .. Len(w), j # i
                 PROVE  \E k \in 1 .. Len(v) : at(k) = j
      OBVIOUS
    <2>1. CASE j < i
      <3>1. j \in 1 .. Len(v) /\ at(j) = j
        BY <1>1, <1>3, <2>1
      <3>2. QED
        BY <3>1
    <2>2. CASE j > i
      <3>1. j - 1 \in 1 .. Len(v) /\ at(j - 1) = j
        BY <1>1, <1>3, <2>2
      <3>2. QED
        BY <3>1
    <2>3. QED
      BY <1>1, <2>1, <2>2
  <1>8. \A j \in 1 .. Len(v) :
          (i > 1 /\ at(j) = i - 1) \/ ((i > 1 => at(j) # i - 1) /\ Nth(v, j + 1) = Nth(w, at(j) + 1))
    <2> HIDE DEF v
    <2> SUFFICES ASSUME NEW j \in 1 .. Len(v), i > 1 => at(j) # i - 1
                 PROVE  Nth(v, j + 1) = Nth(w, at(j) + 1)
      OBVIOUS
    <2>1. CASE j + 1 <= Len(v)
      <3>1. v[j + 1] = w[at(j) + 1] /\ at(j) + 1 <= Len(w)
        BY <1>1, <1>3, <2>1
      <3>2. QED
        BY <2>1, <3>1 DEF Nth
    <2>2. CASE ~(j + 1 <= Len(v))
      <3>1. ~(at(j) + 1 <= Len(w))
        BY <1>1, <1>3, <2>2
      <3>2. QED
        BY <2>2, <3>1 DEF Nth
    <2>3. QED
      BY <2>1, <2>2
  <1>9. \A j \in 1 .. Len(v) : i > 1 /\ at(j) = i - 1 => Nth(v, j + 1) = Nth(w, i + 1)
    BY <1>1, <1>3 DEF Nth
  <1> HIDE DEF v, t, at
  <1>10. \A j, k \in 1 .. Len(w) : w[j] = w[k] => j = k
    BY DEF Listed
  <1>11. \A j, k \in 1 .. Len(v) : v[j] = v[k] => j = k
    BY <1>5, <1>6, <1>10
  <1>12. \A j \in 1 .. Len(v) : t.mem[v[j]].next = Nth(v, j + 1) /\ t.mem[v[j]].pa = v[j]
    <2> SUFFICES ASSUME NEW j \in 1 .. Len(v)
                 PROVE  t.mem[v[j]].next = Nth(v, j + 1) /\ t.mem[v[j]].pa = v[j]
      OBVIOUS
    <2>1. at(j) \in 1 .. Len(w) /\ v[j] = w[at(j)] /\ v[j] \in Pages
      BY <1>2, <1>5
    <2>2. s.mem[v[j]].next = Nth(w, at(j) + 1) /\ s.mem[v[j]].pa = v[j]
      BY <2>1 DEF Listed
    <2>3. CASE i > 1 /\ at(j) = i - 1
      BY <1>4, <1>9, <2>1, <2>2, <2>3
    <2>4. CASE (i > 1 => at(j) # i - 1) /\ Nth(v, j + 1) = Nth(w, at(j) + 1)
      <3>1. i > 1 => i - 1 \in 1 .. Len(w)
        BY <1>1
      <3>2. i > 1 => v[j] # w[i - 1]
        BY <1>10, <2>1, <2>4, <3>1
      <3>3. QED
        BY <1>4, <2>1, <2>2, <2>4, <3>2
    <2>5. QED
      BY <1>8, <2>3, <2>4
  <1>13. Listed(v, t)
    BY <1>3, <1>4, <1>11, <1>12, SMTT(20) DEF Listed
  <1>14. \A j \in 1 .. Len(v) : v[j] # w[i] /\ \E k \in 1 .. Len(w) : v[j] = w[k]
    BY <1>5, <1>10
  <1>15. \A q \in Pages : (\A j \in 1 .. Len(v) : q # v[j]) => t.mem[q] = s.mem[q]
    <2>1. i > 1 => i - 1 \in 1 .. Len(w) /\ i - 1 # i
      BY <1>1
    <2>2. i > 1 => \E j \in 1 .. Len(v) : v[j] = w[i - 1]
      BY <1>5, <1>7, <2>1
    <2>3. QED
      BY <1>4, <2>2
  <1>16. RunsOf(v, t.mem) =
           RunsOf(w, s.mem) \ {[pa |-> w[i], pages |-> s.mem[w[i]].num_pages]}
    <2> DEFINE e(j) == [pa |-> v[j], pages |-> t.mem[v[j]].num_pages]
               o(j) == [pa |-> w[j], pages |-> s.mem[w[j]].num_pages]
    <2>1. \A j \in 1 .. Len(v) : at(j) \in 1 .. Len(w) /\ at(j) # i /\ e(j) = o(at(j))
      BY <1>2, <1>4, <1>5
    <2>2. \A j, k \in 1 .. Len(w) : o(j) = o(k) => j = k
      BY <1>10
    <2>3. RunsOf(v, t.mem) = {e(j) : j \in 1 .. Len(v)} /\ RunsOf(w, s.mem) = {o(j) : j \in 1 .. Len(w)}
      BY DEF RunsOf
    <2>4. [pa |-> w[i], pages |-> s.mem[w[i]].num_pages] = o(i)
      OBVIOUS
    <2> HIDE DEF e, o
    <2>5. QED
      BY <1>7, <2>1, <2>2, <2>3, <2>4
  <1>17. QED
    BY <1>4, <1>13, <1>14, <1>15, <1>16 DEF v, t
-----------------------------------------------------------------------------
(* The memory that was given, and the invariant.                           *)

Extent(r) == Run(r.pa, r.pages)

(* The runs U are disjoint and make up G.                                  *)
Tiles(U, G) ==
  /\ U \subseteq [pa : Nat \ {0}, pages : Nat \ {0}]
  /\ \A r, q \in U : r # q => Extent(r) \cap Extent(q) = {}
  /\ UNION {Extent(r) : r \in U} = G

EntryRuns(type) == {[pa |-> e.base, pages |-> e.pages] : e \in Entries(type)}

GivenRuns(rec) == EntryRuns("usable") \cup IF rec THEN EntryRuns("bootloader") ELSE {}

GivenPages(rec) == UNION {Extent(r) : r \in GivenRuns(rec)}

FreeRuns == RunsOf(Walk(List), mem)

Pending == {curr[c] : c \in Callers} \ {None}

ListOK == Listed(Walk(List), List)

(* Each run is free, held or about to be returned, and only one of these.  *)
RunsOK ==
  /\ Tiles(FreeRuns \cup held \cup Pending, GivenPages(reclaimed)) /\ reclaimed \in BOOLEAN
  /\ FreeRuns \cap held = {} /\ FreeRuns \cap Pending = {} /\ held \cap Pending = {}
  /\ curr \in [Callers -> [pa : Nat, pages : Nat]]
  /\ \A c, d \in Callers : curr[c] # None /\ curr[c] = curr[d] => c = d

CountOK == IsFiniteSet(held) /\ g_ref_alloc \in Nat /\ RefCountExact
-----------------------------------------------------------------------------
(* The loop over the memory map.                                           *)

(* f holds the list after each of the first n entries.                     *)
Pushed(f, s, type, n) ==
  f = [i \in 0 .. n |-> IF i = 0 THEN s
                        ELSE IF Memmap[i].type # type THEN f[i - 1]
                        ELSE push_list(f[i - 1], Memmap[i].base, Memmap[i].pages)]

(* The recursive function in push_entries exists.                          *)
LEMMA PushedExist ==
  ASSUME NEW s, NEW type, NEW len \in Nat
  PROVE  \E f : Pushed(f, s, type, len)
  <1> DEFINE S == {n \in Nat : ~ \E f : Pushed(f, s, type, n)}
             body(f, i) == IF i = 0 THEN s
                           ELSE IF Memmap[i].type # type THEN f[i - 1]
                           ELSE push_list(f[i - 1], Memmap[i].base, Memmap[i].pages)
  <1>0. \A f, n : Pushed(f, s, type, n) <=> f = [i \in 0 .. n |-> body(f, i)]
    BY DEF Pushed
  <1> SUFFICES ASSUME S # {} PROVE FALSE
    OBVIOUS
  <1>1. PICK m \in S : \A k \in S : m <= k
    BY LeastNat, Zenon
  <1>2. m \in Nat /\ ~ \E f : Pushed(f, s, type, m)
    OBVIOUS
  <1>3. m # 0
    <2> DEFINE f == [i \in 0 .. 0 |-> s]
    <2>1. Pushed(f, s, type, 0)
      BY DEF Pushed
    <2>2. QED
      BY <1>2, <2>1
  <1>4. m - 1 \in Nat /\ m - 1 \notin S
    BY <1>1, <1>2, <1>3
  <1>5. PICK f : Pushed(f, s, type, m - 1)
    BY <1>4
  <1> DEFINE g == [i \in 0 .. m |-> body(f, i)]
  <1>6. ASSUME NEW i \in 0 .. m, i # 0 PROVE f[i - 1] = g[i - 1]
    <2> HIDE DEF body
    <2>1. i - 1 \in 0 .. m - 1 /\ i - 1 \in 0 .. m
      BY <1>2, <1>6
    <2>2. f[i - 1] = body(f, i - 1)
      BY <1>0, <1>5, <2>1
    <2>3. QED
      BY <2>1, <2>2
  <1>7. g = [i \in 0 .. m |-> body(g, i)]
    BY <1>6, Zenon
  <1> HIDE DEF g
  <1>8. Pushed(g, s, type, m)
    BY <1>0, <1>7
  <1>9. QED
    BY <1>2, <1>8

(* The runs of the first n entries, and what the loop has done by then.    *)
EntryRun(j) == [pa |-> Memmap[j].base, pages |-> Memmap[j].pages]

RunsUpTo(type, n) == {EntryRun(j) : j \in {j \in 1 .. n : Memmap[j].type = type}}

PushedOK(v, t, w, s, type, n) ==
  /\ Listed(v, t)
  /\ RunsOf(v, t.mem) = RunsOf(w, s.mem) \cup RunsUpTo(type, n)
  /\ \A q \in Pages : (\A r \in EntryRuns(type) : q # r.pa) => t.mem[q] = s.mem[q]

LEMMA EntryRunsAre ==
  ASSUME NEW type
  PROVE  EntryRuns(type) = RunsUpTo(type, Len(Memmap))
  <1>1. DOMAIN Memmap = 1 .. Len(Memmap)
    BY MemmapTypes
  <1>2. QED
    BY <1>1 DEF EntryRuns, RunsUpTo, Entries, EntryRun

(* No two entries begin at the same page.                                  *)
LEMMA BasesDiffer ==
  ASSUME NEW i \in 1 .. Len(Memmap), NEW j \in 1 .. Len(Memmap), i # j
  PROVE  Memmap[i].base # Memmap[j].base
  <1>1. /\ Memmap[i].base \in Nat \ {0} /\ Memmap[i].pages \in Nat \ {0}
        /\ Memmap[j].base \in Nat \ {0} /\ Memmap[j].pages \in Nat \ {0}
        /\ i \in DOMAIN Memmap /\ j \in DOMAIN Memmap
    BY MemmapTypes
  <1>2. /\ Memmap[i].base \in Run(Memmap[i].base, Memmap[i].pages)
        /\ Memmap[j].base \in Run(Memmap[j].base, Memmap[j].pages)
    <2>1. \A a, n \in Nat \ {0} : a \in Run(a, n)
      BY DEF Run
    <2>2. Memmap[i].base \in Run(Memmap[i].base, Memmap[i].pages)
      BY <1>1, <2>1
    <2>3. Memmap[j].base \in Run(Memmap[j].base, Memmap[j].pages)
      BY <1>1, <2>1
    <2>4. QED
      BY <2>2, <2>3
  <1>3. Run(Memmap[i].base, Memmap[i].pages) \cap Run(Memmap[j].base, Memmap[j].pages) = {}
    BY <1>1, MemmapAssumption, Zenon
  <1>4. QED
    BY <1>2, <1>3

(* The entries of a type come to the runs of the list, and only their      *)
(* first pages are written.                                                *)
LEMMA PushEntries ==
  ASSUME NEW w, NEW s, Listed(w, s), NEW type,
         \A r \in EntryRuns(type), i \in 1 .. Len(w) : w[i] # r.pa
  PROVE  LET t == push_entries(s, type) IN \E v :
         /\ Listed(v, t)
         /\ RunsOf(v, t.mem) = RunsOf(w, s.mem) \cup EntryRuns(type)
         /\ \A q \in Pages : (\A r \in EntryRuns(type) : q # r.pa) => t.mem[q] = s.mem[q]
  <1> DEFINE n == Len(Memmap)
             f == CHOOSE f : Pushed(f, s, type, n)
             S == {i \in 0 .. n : ~ \E v : PushedOK(v, f[i], w, s, type, i)}
  <1>1. n \in Nat
    BY MemmapTypes
  <1>2. Pushed(f, s, type, n)
    BY <1>1, PushedExist
  <1>3. push_entries(s, type) = f[n]
    BY DEF push_entries, Pushed
  <1> HIDE DEF f, n
  <1>4. S = {}
    <2> SUFFICES ASSUME S # {} PROVE FALSE
      OBVIOUS
    <2>1. S \in SUBSET Nat
      BY <1>1
    <2>2. PICK m \in S : \A k \in S : m <= k
      <3> HIDE DEF S
      <3>1. QED
        BY <2>1, LeastNat
    <2>3. m \in 0 .. n /\ ~ \E v : PushedOK(v, f[m], w, s, type, m)
      OBVIOUS
    <2>4. m # 0
      <3>1. SUFFICES ASSUME m = 0 PROVE FALSE
        OBVIOUS
      <3>2. f[0] = s /\ RunsUpTo(type, 0) = {}
        BY <1>1, <1>2 DEF Pushed, RunsUpTo
      <3>3. PushedOK(w, f[0], w, s, type, 0)
        BY <3>2 DEF PushedOK
      <3>4. QED
        BY <2>3, <3>1, <3>3
    <2>5. m - 1 \in 0 .. n /\ m - 1 \notin S /\ m \in 1 .. n
      BY <1>1, <2>2, <2>3, <2>4
    <2>6. PICK v : PushedOK(v, f[m - 1], w, s, type, m - 1)
      BY <2>5
    <2>7. f[m] = IF Memmap[m].type # type THEN f[m - 1]
                 ELSE push_list(f[m - 1], Memmap[m].base, Memmap[m].pages)
      BY <1>2, <2>3, <2>4, Zenon DEF Pushed
    <2>8. 1 .. m = 1 .. m - 1 \cup {m}
      BY <2>5
    <2>9. CASE Memmap[m].type # type
      <3>1. RunsUpTo(type, m) = RunsUpTo(type, m - 1)
        BY <2>8, <2>9 DEF RunsUpTo
      <3>2. QED
        BY <2>3, <2>6, <2>7, <2>9, <3>1 DEF PushedOK
    <2>10. CASE Memmap[m].type = type
      <3> DEFINE p == Memmap[m].base
                 t == f[m - 1]
                 a == Memmap[m].pages
      <3>1. RunsUpTo(type, m) = RunsUpTo(type, m - 1) \cup {EntryRun(m)}
        BY <2>8, <2>10 DEF RunsUpTo
      <3>2. p \in Nat \ {0} /\ Memmap[m].pages \in Nat \ {0} /\ m \in DOMAIN Memmap
        BY <2>5, MemmapTypes DEF n
      <3>3. p \in Run(p, Memmap[m].pages)
        BY <3>2 DEF Run
      <3>4. p \in Pages
        BY <3>2, <3>3 DEF Pages
      <3>5. EntryRun(m) \in EntryRuns(type) /\ EntryRun(m).pa = p
        BY <2>5, <2>10, EntryRunsAre DEF RunsUpTo, EntryRun, n
      <3>6. \A i \in 1 .. Len(v) : v[i] # p
        <4> SUFFICES ASSUME NEW i \in 1 .. Len(v), v[i] = p PROVE FALSE
          OBVIOUS
        <4> DEFINE r == [pa |-> v[i], pages |-> t.mem[v[i]].num_pages]
        <4>1. r \in RunsOf(v, t.mem) /\ r.pa = p
          BY DEF RunsOf
        <4>2. r \in RunsOf(w, s.mem) \/ r \in RunsUpTo(type, m - 1)
          BY <2>6, <4>1 DEF PushedOK
        <4>3. CASE r \in RunsOf(w, s.mem)
          <5>1. PICK j \in 1 .. Len(w) : r = [pa |-> w[j], pages |-> s.mem[w[j]].num_pages]
            BY <4>3 DEF RunsOf
          <5>2. w[j] = p
            BY <4>1, <5>1
          <5>3. QED
            BY <3>5, <5>2
        <4>4. CASE r \in RunsUpTo(type, m - 1)
          <5>1. PICK j \in 1 .. m - 1 : r = EntryRun(j)
            BY <4>4 DEF RunsUpTo
          <5>2. Memmap[j].base = p /\ j \in 1 .. n /\ j # m
            BY <1>1, <2>5, <4>1, <5>1 DEF EntryRun
          <5>3. QED
            BY <2>5, <5>2, BasesDiffer DEF n
        <4>5. QED
          BY <4>2, <4>3, <4>4
      <3>7. Listed(v, t) /\ a \in Nat
        BY <2>6, <3>2 DEF PushedOK
      <3> DEFINE u == push_list(t, p, a)
      <3> HIDE DEF p, t, a
      <3>8. /\ Listed(<<p>> \o v, u)
            /\ \A q \in Pages \ {p} : u.mem[q] = t.mem[q]
            /\ RunsOf(<<p>> \o v, u.mem) = RunsOf(v, t.mem) \cup {[pa |-> p, pages |-> a]}
        BY <3>4, <3>6, <3>7, Push, SMTT(20)
      <3>9. f[m] = u /\ [pa |-> p, pages |-> a] = EntryRun(m)
        BY <2>7, <2>10 DEF p, t, a, EntryRun
      <3> HIDE DEF u
      <3>10. RunsOf(<<p>> \o v, u.mem) = RunsOf(w, s.mem) \cup RunsUpTo(type, m)
        BY <2>6, <3>1, <3>8, <3>9 DEF PushedOK, t
      <3>11. \A q \in Pages : (\A r \in EntryRuns(type) : q # r.pa) => u.mem[q] = s.mem[q]
        BY <2>6, <3>5, <3>8 DEF PushedOK, t
      <3>12. PushedOK(<<p>> \o v, u, w, s, type, m)
        BY <3>8, <3>10, <3>11 DEF PushedOK
      <3>13. QED
        BY <2>3, <3>9, <3>12
    <2>11. QED
      BY <2>9, <2>10
  <1>5. PICK v : PushedOK(v, f[n], w, s, type, n)
    BY <1>1, <1>4
  <1>6. QED
    BY <1>3, <1>5, EntryRunsAre DEF PushedOK, n
-----------------------------------------------------------------------------
(* Runs that tile the memory.                                              *)

(* The first page of a run is in it and in no other one.                   *)
LEMMA Heads ==
  ASSUME NEW U, NEW G, Tiles(U, G), NEW r \in U
  PROVE  /\ r.pa \in Extent(r) /\ r.pa \in G /\ r.pa \in Nat \ {0} /\ r.pages \in Nat \ {0}
         /\ r = [pa |-> r.pa, pages |-> r.pages]
         /\ \A q \in U : r.pa \in Extent(q) => q = r
         /\ \A q \in U : q.pa = r.pa => q = r
  <1>1. U \subseteq [pa : Nat \ {0}, pages : Nat \ {0}]
    BY DEF Tiles
  <1>2. \A q \in U : q.pa \in Nat \ {0} /\ q.pages \in Nat \ {0} /\ q = [pa |-> q.pa, pages |-> q.pages]
    BY <1>1
  <1>3. \A q \in U : q.pa \in Extent(q)
    BY <1>2 DEF Extent, Run
  <1>4. \A q \in U : r.pa \in Extent(q) => q = r
    BY <1>3 DEF Tiles
  <1>5. r.pa \in G
    BY <1>3 DEF Tiles
  <1>6. QED
    BY <1>2, <1>3, <1>4, <1>5

(* A run may be cut in two.                                                *)
LEMMA TilesSplit ==
  ASSUME NEW U, NEW G, Tiles(U, G), NEW r \in U, NEW n \in Nat \ {0}, n < r.pages
  PROVE  Tiles((U \ {r}) \cup {[pa |-> r.pa, pages |-> n],
                               [pa |-> r.pa + n, pages |-> r.pages - n]}, G)
  <1> DEFINE a == [pa |-> r.pa, pages |-> n]
             b == [pa |-> r.pa + n, pages |-> r.pages - n]
             V == (U \ {r}) \cup {a, b}
  <1>1. r.pa \in Nat \ {0} /\ r.pages \in Nat \ {0}
    BY Heads
  <1>2. a \in [pa : Nat \ {0}, pages : Nat \ {0}] /\ b \in [pa : Nat \ {0}, pages : Nat \ {0}]
    BY <1>1
  <1>3. Extent(a) \cap Extent(b) = {} /\ Extent(a) \cup Extent(b) = Extent(r)
    BY <1>1 DEF Extent, Run
  <1> HIDE DEF a, b
  <1>4. V \subseteq [pa : Nat \ {0}, pages : Nat \ {0}]
    BY <1>2 DEF Tiles
  <1>5. \A q \in U \ {r} : Extent(q) \cap Extent(r) = {}
    BY DEF Tiles
  <1>6. \A x, y \in V : x # y => Extent(x) \cap Extent(y) = {}
    <2>1. \A x, y \in U \ {r} : x # y => Extent(x) \cap Extent(y) = {}
      BY DEF Tiles
    <2>2. \A x \in U \ {r} : Extent(x) \cap Extent(a) = {} /\ Extent(x) \cap Extent(b) = {}
      BY <1>3, <1>5
    <2>3. QED
      BY <1>3, <2>1, <2>2
  <1>7. UNION {Extent(q) : q \in V} = G
    <2>1. G = UNION {Extent(q) : q \in U}
      BY DEF Tiles
    <2>2. \A z : z \in G => \E q \in V : z \in Extent(q)
      <3> SUFFICES ASSUME NEW z, z \in G PROVE \E q \in V : z \in Extent(q)
        OBVIOUS
      <3>1. PICK q \in U : z \in Extent(q)
        BY <2>1
      <3>2. CASE q = r
        BY <1>3, <3>1, <3>2
      <3>3. CASE q # r
        BY <3>1, <3>3
      <3>4. QED
        BY <3>2, <3>3
    <2>3. \A q \in V : Extent(q) \subseteq G
      BY <1>3, <2>1
    <2> HIDE DEF V
    <2>4. QED
      BY <2>2, <2>3
  <1>8. QED
    BY <1>4, <1>6, <1>7 DEF Tiles, a, b

(* Two tilings of memory that is apart.                                    *)
LEMMA TilesUnion ==
  ASSUME NEW U, NEW G, Tiles(U, G), NEW V, NEW H, Tiles(V, H), G \cap H = {}
  PROVE  Tiles(U \cup V, G \cup H)
  <1>1. \A r \in U : Extent(r) \subseteq G
    BY DEF Tiles
  <1>2. \A r \in V : Extent(r) \subseteq H
    BY DEF Tiles
  <1>3. \A r \in U, q \in V : Extent(r) \cap Extent(q) = {} /\ Extent(q) \cap Extent(r) = {}
    BY <1>1, <1>2
  <1>4. \A r, q \in U \cup V : r # q => Extent(r) \cap Extent(q) = {}
    BY <1>3 DEF Tiles
  <1>5. UNION {Extent(r) : r \in U \cup V} = G \cup H
    BY DEF Tiles
  <1>6. QED
    BY <1>4, <1>5 DEF Tiles

(* The memory map's own runs.                                              *)
LEMMA EntriesTile ==
  /\ Tiles(EntryRuns("usable"), GivenPages(FALSE))
  /\ \E H : Tiles(EntryRuns("bootloader"), H) /\ GivenPages(FALSE) \cap H = {} /\ GivenPages(TRUE) = GivenPages(FALSE) \cup H
  /\ GivenPages(FALSE) \subseteq Pages /\ GivenPages(TRUE) \subseteq Pages
  <1> DEFINE n == Len(Memmap)
             H == UNION {Extent(r) : r \in EntryRuns("bootloader")}
  <1>1. n \in Nat /\ DOMAIN Memmap = 1 .. n
    BY MemmapTypes
  <1>2. \A i \in 1 .. n : EntryRun(i) \in [pa : Nat \ {0}, pages : Nat \ {0}]
    BY MemmapTypes DEF EntryRun
  <1>3. \A i \in 1 .. n : Extent(EntryRun(i)) = Run(Memmap[i].base, Memmap[i].pages)
    BY DEF Extent, EntryRun
  <1>4. \A i, j \in 1 .. n : i # j => Extent(EntryRun(i)) \cap Extent(EntryRun(j)) = {}
    BY <1>1, <1>3, MemmapAssumption, Zenon
  <1>5. \A type : \A r \in EntryRuns(type) : \E i \in 1 .. n : r = EntryRun(i) /\ Memmap[i].type = type
    BY EntryRunsAre DEF RunsUpTo
  <1>6. ASSUME NEW type PROVE Tiles(EntryRuns(type), UNION {Extent(r) : r \in EntryRuns(type)})
    <2>1. \A r \in EntryRuns(type) : \E i \in 1 .. n : r = EntryRun(i)
      BY <1>5
    <2>2. \A r \in EntryRuns(type) : r \in [pa : Nat \ {0}, pages : Nat \ {0}]
      BY <1>2, <2>1
    <2>3. \A r, q \in EntryRuns(type) : r # q => Extent(r) \cap Extent(q) = {}
      BY <1>4, <2>1
    <2>4. QED
      BY <2>2, <2>3 DEF Tiles
  <1>7. \A r \in EntryRuns("usable"), q \in EntryRuns("bootloader") : Extent(r) \cap Extent(q) = {}
    <2> SUFFICES ASSUME NEW r \in EntryRuns("usable"), NEW q \in EntryRuns("bootloader")
                 PROVE  Extent(r) \cap Extent(q) = {}
      OBVIOUS
    <2>1. PICK i \in 1 .. n : r = EntryRun(i) /\ Memmap[i].type = "usable"
      BY <1>5
    <2>2. PICK j \in 1 .. n : q = EntryRun(j) /\ Memmap[j].type = "bootloader"
      BY <1>5
    <2>3. i # j
      BY <2>1, <2>2
    <2>4. QED
      BY <1>4, <2>1, <2>2, <2>3
  <1>8. /\ GivenPages(FALSE) = UNION {Extent(r) : r \in EntryRuns("usable")}
        /\ GivenPages(TRUE) = GivenPages(FALSE) \cup H
    BY DEF GivenPages, GivenRuns
  <1>9. GivenPages(FALSE) \cap H = {}
    <2> SUFFICES ASSUME NEW z, z \in GivenPages(FALSE), z \in H PROVE FALSE
      BY Zenon
    <2>1. PICK r \in EntryRuns("usable") : z \in Extent(r)
      BY <1>8, Zenon
    <2>2. PICK q \in EntryRuns("bootloader") : z \in Extent(q)
      OBVIOUS
    <2>3. QED
      BY <1>7, <2>1, <2>2
  <1>10. \A type : UNION {Extent(r) : r \in EntryRuns(type)} \subseteq Pages
    BY <1>1, <1>3, <1>5 DEF Pages
  <1>11. Tiles(EntryRuns("bootloader"), H) /\ H \subseteq Pages
    BY <1>6, <1>10
  <1>12. Tiles(EntryRuns("usable"), GivenPages(FALSE)) /\ GivenPages(FALSE) \subseteq Pages
    BY <1>6, <1>8, <1>10, Zenon
  <1> HIDE DEF H
  <1>13. QED
    BY <1>8, <1>9, <1>11, <1>12, Zenon

(* alloc() up to its release(): the node at p leaves the list w of s, what *)
(* its run has beyond count comes back, and neither its own node nor the   *)
(* first page of a run in T that is not free changes.  The list is then v. *)
Allocated(v, t, w, s, T, p, count) ==
  LET n == s.mem[p].num_pages IN
  /\ Listed(v, t)
  /\ RunsOf(v, t.mem) = (RunsOf(w, s.mem) \ {[pa |-> p, pages |-> n]})
       \cup IF n > count THEN {[pa |-> p + count, pages |-> n - count]} ELSE {}
  /\ \A r \in T : r \notin RunsOf(w, s.mem) => t.mem[r.pa] = s.mem[r.pa]
  /\ t.mem[p] = s.mem[p]

LEMMA AllocList ==
  ASSUME NEW w, NEW s, Listed(w, s), NEW i \in 1 .. Len(w), NEW count \in Nat \ {0},
         s.mem[w[i]].num_pages >= count,
         NEW T, NEW G, Tiles(RunsOf(w, s.mem) \cup T, G), G \subseteq Pages
  PROVE  \E v : Allocated(v, split(unlink(s, i), w[i], count), w, s, T, w[i], count)
  <1> DEFINE p == w[i]
             u == unlink(s, i)
             x == Without(w, i)
             U == RunsOf(w, s.mem) \cup T
             n == s.mem[p].num_pages
             r0 == [pa |-> p, pages |-> n]
             run(k) == [pa |-> w[k], pages |-> s.mem[w[k]].num_pages]
  <1>1. w \in Seq(Pages) /\ Len(w) \in Nat /\ s.mem \in [Pages -> Node]
    BY DEF Listed
  <1>2. \A k \in 1 .. Len(w) : w[k] \in Pages /\ run(k) \in U /\ run(k).pa = w[k]
    BY <1>1, SeqElement DEF RunsOf
  <1>3. r0 = run(i) /\ r0 \in U /\ p \in Pages
    BY <1>2
  <1> HIDE DEF run
  <1>4. /\ Listed(x, u)
        /\ \A j \in 1 .. Len(x) : x[j] # p /\ \E k \in 1 .. Len(w) : x[j] = w[k]
        /\ \A q \in Pages : u.mem[q].num_pages = s.mem[q].num_pages
        /\ \A q \in Pages : (\A j \in 1 .. Len(x) : q # x[j]) => u.mem[q] = s.mem[q]
        /\ RunsOf(x, u.mem) = RunsOf(w, s.mem) \ {r0}
    BY Unlink
  <1> HIDE DEF u, x, U
  <1>5. u.mem[p] = s.mem[p]
    BY <1>3, <1>4
  <1>6. \A r \in T : r \notin RunsOf(w, s.mem) => r.pa \in Pages /\ \A k \in 1 .. Len(w) : r.pa # w[k]
    <2> SUFFICES ASSUME NEW r \in T, r \notin RunsOf(w, s.mem)
                 PROVE  r.pa \in Pages /\ \A k \in 1 .. Len(w) : r.pa # w[k]
      OBVIOUS
    <2>1. r \in U /\ Tiles(U, G)
      BY DEF U
    <2>2. r.pa \in Pages /\ \A q \in U : q.pa = r.pa => q = r
      BY <2>1, Heads
    <2>3. \A k \in 1 .. Len(w) : run(k) \in RunsOf(w, s.mem)
      BY DEF run, RunsOf
    <2>4. QED
      BY <1>2, <2>2, <2>3
  <1>7. \A r \in T : r \notin RunsOf(w, s.mem) => u.mem[r.pa] = s.mem[r.pa]
    BY <1>4, <1>6
  <1>8. p \in Nat \ {0} /\ n \in Nat \ {0} /\ s.mem[p].pa = p
    <2>1. r0.pa \in Nat \ {0} /\ r0.pages \in Nat \ {0}
      BY <1>3, Heads DEF U
    <2>2. QED
      BY <2>1 DEF Listed
  <1>9. CASE n > count
    <2> DEFINE p2 == p + count
               n2 == n - count
               t == push_list(u, p2, n2)
    <2>1. split(u, p, count) = t
      BY <1>5, <1>8, <1>9 DEF split
    <2>2. p2 \in Extent(r0) /\ p2 # p /\ n2 \in Nat
      <3>1. Extent(r0) = p .. p + n - 1
        BY DEF Extent, Run
      <3> HIDE DEF p, n, r0
      <3>2. QED
        BY <1>8, <1>9, <3>1
    <2>3. Tiles(U, G)
      BY DEF U
    <2>4. p2 \in Pages
      BY <1>3, <2>2, <2>3 DEF Tiles
    <2>5. \A q \in U : q.pa = p2 => q = r0
      <3> SUFFICES ASSUME NEW q \in U, q.pa = p2 PROVE q = r0
        OBVIOUS
      <3>1. q.pa \in Extent(r0)
        BY <2>2
      <3>2. QED
        BY <1>3, <2>3, <3>1, Heads
    <2> HIDE DEF p2, n2, t
    <2>6. \A k \in 1 .. Len(w) : w[k] # p2
      BY <1>2, <1>3, <2>2, <2>5
    <2>7. \A j \in 1 .. Len(x) : x[j] # p2
      BY <1>4, <2>6
    <2>8. /\ Listed(<<p2>> \o x, t)
          /\ \A q \in Pages \ {p2} : t.mem[q] = u.mem[q]
          /\ RunsOf(<<p2>> \o x, t.mem) = RunsOf(x, u.mem) \cup {[pa |-> p2, pages |-> n2]}
      BY <1>4, <2>2, <2>4, <2>7, Push DEF t
    <2>9. \A r \in T : r \notin RunsOf(w, s.mem) => t.mem[r.pa] = s.mem[r.pa]
      <3> SUFFICES ASSUME NEW r \in T, r \notin RunsOf(w, s.mem)
                   PROVE  t.mem[r.pa] = s.mem[r.pa]
        OBVIOUS
      <3>1. r \in U /\ r0 \in RunsOf(w, s.mem)
        BY <1>3 DEF U, run, RunsOf
      <3>2. r.pa # p2
        BY <2>5, <3>1
      <3>3. QED
        BY <1>6, <1>7, <2>8, <3>2
    <2>10. t.mem[p] = s.mem[p]
      BY <1>3, <1>5, <2>2, <2>8
    <2>11. Allocated(<<p2>> \o x, t, w, s, T, p, count)
      BY <1>4, <1>9, <2>8, <2>9, <2>10 DEF Allocated, p2, n2
    <2>12. QED
      BY <2>1, <2>11 DEF u
  <1>10. CASE ~(n > count)
    <2>1. split(u, p, count) = u
      BY <1>5, <1>10 DEF split
    <2>2. Allocated(x, u, w, s, T, p, count)
      BY <1>4, <1>5, <1>7, <1>10 DEF Allocated
    <2>3. QED
      BY <2>1, <2>2 DEF u
  <1>11. QED
    BY <1>9, <1>10
=============================================================================

---------------------------- MODULE LibraryProofs ----------------------------
(***************************************************************************)
(* Two of the building blocks the rest of the kernel calls, for every size *)
(* they can have.                                                          *)
(*                                                                         *)
(* kstd::SingleDeque: any number of lists over any finite set of values    *)
(* that share one hook implement the sequences of module Deques.  The      *)
(* inductive invariant says which sequences the pointers hold.             *)
(*                                                                         *)
(* The memory functions do what they promise for regions of every size and *)
(* place.  The inductive invariant says what has been written, or looked   *)
(* at, so far: for memove, from the end that the source does not reach     *)
(* into.                                                                   *)
(***************************************************************************)
EXTENDS SingleDeque, StringOps, NaturalsInduction, WellFoundedInduction, TLAPS

Below == {e \in Nat \X Nat : e[1] < e[2]}

LEMMA LeastNat ==
  ASSUME NEW S \in SUBSET Nat, S # {}
  PROVE  \E m \in S : \A k \in S : m <= k
<1>1. IsWellFoundedOn(Below, Nat)
  BY NatLessThanWellFounded DEF OpToRel, Below
<1>2. PICK m \in S : \A k \in S : <<k, m>> \notin Below
  BY <1>1, WFMin, Zenon
<1>3. \A k \in S : k < m => <<k, m>> \in Below
  BY DEF Below
<1>4. \A k \in S : k \in Nat /\ m \in Nat /\ ~(k < m)
  BY <1>2, <1>3, Zenon
<1>5. \A k \in S : m <= k
  BY <1>4
<1> QED
  BY <1>5

(* Two sequences of one length with the same elements are the same.        *)
LEMMA SeqSame ==
  ASSUME NEW S, NEW s \in Seq(S), NEW t \in Seq(S),
         Len(s) = Len(t), \A j \in 1 .. Len(s) : s[j] = t[j]
  PROVE  s = t
  OBVIOUS

(* Only the empty sequence has length 0.                                   *)
LEMMA SeqEmpty ==
  ASSUME NEW S, NEW s \in Seq(S), Len(s) = 0
  PROVE  s = <<>>
  OBVIOUS

(* A sequence without its first element.                                   *)
LEMMA SeqTail ==
  ASSUME NEW S, NEW s \in Seq(S), s # <<>>
  PROVE  /\ Tail(s) \in Seq(S) /\ Len(Tail(s)) = Len(s) - 1 /\ Len(s) - 1 \in Nat
         /\ \A j \in 1 .. Len(s) - 1 : Tail(s)[j] = s[j + 1]
  OBVIOUS

LEMMA SeqTailOne ==
  ASSUME NEW S, NEW s \in Seq(S), Len(s) = 1
  PROVE  Tail(s) = <<>>
<1>1. s # <<>>
  OBVIOUS
<1>2. Tail(s) \in Seq(S) /\ Len(Tail(s)) = 0
  BY <1>1, SeqTail
<1> QED
  BY <1>2, SeqEmpty
-----------------------------------------------------------------------------
(* The value at place k of a list, Null beyond its ends.                   *)
At(w, k) == IF k \in DOMAIN w THEN w[k] ELSE Null

Distinct(w) == \A j, k \in DOMAIN w : w[j] = w[k] => j = k

(* The hooks from p on link the values of w, and the last hook is Null.    *)
Walks(next, p, w) ==
  /\ w \in Seq(Values) /\ Distinct(w)
  /\ p = At(w, 1)
  /\ \A k \in DOMAIN w : next[w[k]] = At(w, k + 1)

Steps(f, next, p, n) ==
  f = [k \in 0 .. n |-> IF k = 0 THEN p
                        ELSE IF f[k - 1] = Null THEN Null ELSE next[f[k - 1]]]

(* n steps along the hooks lead to place n + 1.                            *)
LEMMA NthIs ==
  ASSUME NEW next, NEW p, NEW w, Walks(next, p, w)
  PROVE  /\ DOMAIN Nth(next, p) = 0 .. Nodes
         /\ \A n \in 0 .. Nodes : Nth(next, p)[n] = At(w, n + 1)
<1> DEFINE N == Nodes
           g == [k \in 0 .. N |-> At(w, k + 1)]
           f == CHOOSE h : Steps(h, next, p, N)
<1>1. N \in Nat
  BY NodesAssumption
<1>2. Nth(next, p) = f
  BY DEF Nth, Steps
<1> HIDE DEF N
<1>3. w \in Seq(Values) /\ p = At(w, 1) /\ \A k \in DOMAIN w : next[w[k]] = At(w, k + 1)
  BY DEF Walks
<1>4. ASSUME NEW k \in Nat, k # 0
      PROVE  At(w, k + 1) = IF At(w, k) = Null THEN Null ELSE next[At(w, k)]
  <2>1. CASE k \in DOMAIN w
    <3>1. At(w, k) = w[k] /\ w[k] # Null
      BY <1>3, <2>1, NullAssumption DEF At
    <3> QED
      BY <1>3, <2>1, <3>1
  <2>2. CASE k \notin DOMAIN w
    <3>1. k + 1 \notin DOMAIN w
      BY <1>3, <1>4, <2>2
    <3> QED
      BY <2>2, <3>1 DEF At
  <2> QED
    BY <2>1, <2>2
<1>5. Steps(g, next, p, N)
  <2> DEFINE h == [k \in 0 .. N |-> IF k = 0 THEN p
                        ELSE IF g[k - 1] = Null THEN Null ELSE next[g[k - 1]]]
  <2>1. ASSUME NEW k \in 0 .. N PROVE g[k] = h[k]
    <3>1. CASE k = 0
      BY <1>1, <1>3, <3>1
    <3>2. CASE k # 0
      <4>1. k \in Nat /\ k - 1 \in 0 .. N /\ k - 1 + 1 = k
        BY <1>1, <3>2
      <4>2. g[k - 1] = At(w, k) /\ g[k] = At(w, k + 1)
        BY <4>1
      <4> HIDE DEF g
      <4> QED
        BY <1>4, <3>2, <4>1, <4>2
    <3> QED
      BY <3>1, <3>2
  <2>2. g = h
    BY <2>1
  <2> HIDE DEF g
  <2> QED
    BY <2>2 DEF Steps
<1>6. Steps(f, next, p, N)
  BY <1>5
<1> HIDE DEF f
<1> DEFINE B == {n \in Nat : n <= N /\ f[n] # At(w, n + 1)}
<1>7. DOMAIN f = 0 .. N
  BY <1>6 DEF Steps
<1>8. \A k \in 0 .. N : f[k] = IF k = 0 THEN p
                               ELSE IF f[k - 1] = Null THEN Null ELSE next[f[k - 1]]
  BY <1>6, Zenon DEF Steps
<1>9. B = {}
  <2> SUFFICES ASSUME B # {} PROVE FALSE
    OBVIOUS
  <2>1. PICK m \in B : \A k \in B : m <= k
    BY LeastNat, Zenon
  <2>2. m \in 0 .. N /\ f[m] # At(w, m + 1)
    BY <1>1
  <2>3. m # 0
    BY <1>1, <1>3, <1>8, <2>2
  <2>4. m \in Nat /\ m - 1 \in Nat /\ m - 1 <= N /\ m - 1 \notin B /\ m - 1 + 1 = m
    BY <1>1, <2>1, <2>2, <2>3
  <2>5. f[m - 1] = At(w, m)
    BY <2>4
  <2> QED
    BY <1>4, <1>8, <2>2, <2>3, <2>4, <2>5
<1> QED
  BY <1>1, <1>2, <1>7, <1>9 DEF N

OneToOne(f, n, m) ==
  f \in [1 .. n -> 1 .. m] /\ \A j, k \in 1 .. n : f[j] = f[k] => j = k

(* n things do not fit into fewer places.                                  *)
LEMMA Pigeonhole ==
  ASSUME NEW n \in Nat, NEW m \in Nat, NEW f, OneToOne(f, n, m)
  PROVE  n <= m
<1> DEFINE Bad == {b \in Nat : \E a \in Nat : a > b /\ \E g : OneToOne(g, a, b)}
<1>1. Bad = {}
  <2> SUFFICES ASSUME Bad # {} PROVE FALSE
    OBVIOUS
  <2>1. PICK b \in Bad : \A c \in Bad : b <= c
    BY LeastNat, Zenon
  <2>2. PICK a \in Nat : a > b /\ \E g : OneToOne(g, a, b)
    BY <2>1
  <2>3. PICK g : OneToOne(g, a, b)
    BY <2>2
  <2>4. b \in Nat /\ b # 0 /\ b - 1 \in Nat /\ a - 1 \in Nat /\ a - 1 > b - 1
    <3>1. b \in Nat
      BY <2>1
    <3>2. a \in 1 .. a /\ g[a] \in 1 .. b
      BY <2>2, <2>3, <3>1 DEF OneToOne
    <3> QED
      BY <2>2, <3>1, <3>2
  <2> DEFINE h == [k \in 1 .. a - 1 |-> IF g[k] = b THEN g[a] ELSE g[k]]
  <2>5. OneToOne(h, a - 1, b - 1)
    <3>1. \A k \in 1 .. a : g[k] \in 1 .. b
      BY <2>3 DEF OneToOne
    <3>2. \A j, k \in 1 .. a : g[j] = g[k] => j = k
      BY <2>3 DEF OneToOne
    <3>3. ASSUME NEW k \in 1 .. a - 1
          PROVE  /\ k \in 1 .. a /\ a \in 1 .. a /\ k # a /\ g[k] # g[a]
                 /\ h[k] = IF g[k] = b THEN g[a] ELSE g[k]
      BY <2>4, <3>2
    <3>4. ASSUME NEW k \in 1 .. a - 1 PROVE h[k] \in 1 .. b - 1
      <4>1. g[k] \in 1 .. b /\ g[a] \in 1 .. b /\ g[k] # g[a]
        BY <3>1, <3>3
      <4> QED
        BY <2>4, <3>3, <4>1
    <3>5. ASSUME NEW j \in 1 .. a - 1, NEW k \in 1 .. a - 1, h[j] = h[k] PROVE j = k
      <4>1. g[j] = g[k]
        BY <3>3, <3>5
      <4> QED
        BY <3>2, <3>3, <4>1
    <3>6. h \in [1 .. a - 1 -> 1 .. b - 1]
      BY <3>4
    <3> QED
      BY <3>5, <3>6 DEF OneToOne
  <2>6. b - 1 \in Bad
    BY <2>4, <2>5
  <2> QED
    BY <2>1, <2>4, <2>6
<1>2. m \notin Bad
  BY <1>1
<1> QED
  BY <1>2

(* A list is no longer than there are values.                              *)
LEMMA LenBound ==
  ASSUME NEW w \in Seq(Values), Distinct(w)
  PROVE  Len(w) \in Nat /\ Len(w) <= Nodes
<1>1. PICK f \in [Values -> 1 .. Nodes] : \A u, v \in Values : f[u] = f[v] => u = v
  BY NodesAssumption
<1> DEFINE g == [k \in 1 .. Len(w) |-> f[w[k]]]
<1>2. Len(w) \in Nat /\ DOMAIN w = 1 .. Len(w) /\ \A k \in 1 .. Len(w) : w[k] \in Values
  OBVIOUS
<1>3. OneToOne(g, Len(w), Nodes)
  <2>1. g \in [1 .. Len(w) -> 1 .. Nodes]
    BY <1>1, <1>2
  <2>2. ASSUME NEW j \in 1 .. Len(w), NEW k \in 1 .. Len(w), g[j] = g[k] PROVE j = k
    <3>1. w[j] = w[k]
      BY <1>1, <1>2, <2>2
    <3> QED
      BY <1>2, <3>1 DEF Distinct
  <2> QED
    BY <2>1, <2>2 DEF OneToOne
<1>4. Len(w) <= Nodes
  BY <1>2, <1>3, Pigeonhole, NodesAssumption
<1> QED
  BY <1>2, <1>4

LEMMA ChainIs ==
  ASSUME NEW next, NEW p, NEW w, Walks(next, p, w)
  PROVE  Chain(next, p) = w
<1> DEFINE f     == Nth(next, p)
           ends  == {n \in DOMAIN f : f[n] = Null}
           least == CHOOSE n \in ends : \A k \in ends : n <= k
<1>1. w \in Seq(Values) /\ Distinct(w)
  BY DEF Walks
<1>2. Len(w) \in Nat /\ Len(w) <= Nodes /\ Nodes \in Nat
  BY <1>1, LenBound, NodesAssumption
<1>3. DOMAIN f = 0 .. Nodes /\ \A n \in 0 .. Nodes : f[n] = At(w, n + 1)
  BY NthIs
<1> HIDE DEF f
<1>4. \A k \in DOMAIN w : w[k] # Null
  BY <1>1, NullAssumption
<1>5. Len(w) \in ends /\ \A n \in ends : n \in Nat /\ Len(w) <= n
  <2>1. DOMAIN w = 1 .. Len(w)
    BY <1>1
  <2>2. ASSUME NEW n \in 0 .. Nodes PROVE f[n] = Null <=> Len(w) <= n
    <3>1. f[n] = At(w, n + 1) /\ n \in Nat
      BY <1>3
    <3>2. n + 1 \in DOMAIN w <=> ~(Len(w) <= n)
      BY <1>2, <2>1, <3>1
    <3> QED
      BY <1>4, <3>1, <3>2 DEF At
  <2> QED
    BY <1>2, <1>3, <2>2
<1>6. Chain(next, p) = [k \in 1 .. IF ends = {} THEN Nodes + 1 ELSE least |-> f[k - 1]]
  BY DEF Chain, f
<1> HIDE DEF ends
<1>7. least = Len(w) /\ ends # {}
  BY <1>2, <1>5
<1>8. \A k \in 1 .. Len(w) : f[k - 1] = w[k]
  BY <1>1, <1>2, <1>3 DEF At
<1>9. Chain(next, p) = [k \in 1 .. Len(w) |-> f[k - 1]]
  BY <1>6, <1>7
<1>10. w = [k \in 1 .. Len(w) |-> w[k]]
  BY <1>1
<1> QED
  BY <1>8, <1>9, <1>10

(* The walk that looks for the hook that names a value.                    *)
LEMMA BeforeIs ==
  ASSUME NEW next, NEW p, NEW w, Walks(next, p, w), NEW v \in Values
  PROVE  /\ \A k \in DOMAIN w : w[k] = v => Before(next, p, v) = At(w, k - 1)
         /\ (\A k \in DOMAIN w : w[k] # v) => Before(next, p, v) = Null
<1> DEFINE f  == Nth(next, p)
           at == {n \in DOMAIN f : f[n] # Null /\ next[f[n]] = v}
<1>1. w \in Seq(Values) /\ Distinct(w) /\ \A k \in DOMAIN w : next[w[k]] = At(w, k + 1)
  BY DEF Walks
<1>2. Len(w) \in Nat /\ Len(w) <= Nodes /\ Nodes \in Nat
  BY <1>1, LenBound, NodesAssumption
<1>3. DOMAIN f = 0 .. Nodes /\ \A n \in 0 .. Nodes : f[n] = At(w, n + 1)
  BY NthIs
<1>4. Before(next, p, v) = IF at = {} THEN Null ELSE f[CHOOSE n \in at : \A k \in at : n <= k]
  BY DEF Before
<1> HIDE DEF f
<1>5. ASSUME NEW n \in at PROVE n \in Nat /\ n + 2 \in DOMAIN w /\ w[n + 2] = v
  <2>1. n \in 0 .. Nodes /\ f[n] # Null /\ next[f[n]] = v
    BY <1>3
  <2>2. n + 1 \in DOMAIN w /\ f[n] = w[n + 1]
    BY <1>3, <2>1 DEF At
  <2>3. next[w[n + 1]] = At(w, n + 2)
    BY <1>1, <1>2, <2>1, <2>2
  <2>4. At(w, n + 2) = v /\ v # Null
    BY <2>1, <2>2, <2>3, NullAssumption
  <2> QED
    BY <2>1, <2>4 DEF At
<1>6. ASSUME NEW k \in DOMAIN w, w[k] = v, k # 1
      PROVE  at = {k - 2} /\ f[k - 2] = w[k - 1]
  <2>1. k \in 2 .. Len(w) /\ k - 1 \in DOMAIN w
    BY <1>1, <1>2, <1>6
  <2>2. k - 2 \in 0 .. Nodes /\ f[k - 2] = w[k - 1]
    BY <1>2, <1>3, <2>1 DEF At
  <2>3. w[k - 1] # Null /\ next[w[k - 1]] = w[k]
    BY <1>1, <1>2, <2>1, NullAssumption DEF At
  <2>4. k - 2 \in at
    BY <1>3, <1>6, <2>2, <2>3
  <2>5. ASSUME NEW n \in at PROVE n = k - 2
    <3>1. n \in Nat /\ n + 2 \in DOMAIN w /\ w[n + 2] = w[k]
      BY <1>5, <1>6
    <3>2. n + 2 = k
      BY <1>1, <3>1 DEF Distinct
    <3> QED
      BY <3>1, <3>2
  <2> HIDE DEF at
  <2> QED
    BY <2>2, <2>4, <2>5
<1>7. ASSUME NEW k \in DOMAIN w, w[k] = v
      PROVE  Before(next, p, v) = At(w, k - 1)
  <2>1. CASE k = 1
    <3>1. at = {}
      <4> SUFFICES ASSUME NEW n \in at PROVE FALSE
        OBVIOUS
      <4>1. n \in Nat /\ n + 2 \in DOMAIN w /\ w[n + 2] = w[k]
        BY <1>5, <1>7
      <4>2. n + 2 = k
        BY <1>1, <4>1 DEF Distinct
      <4> QED
        BY <2>1, <4>1, <4>2
    <3>2. At(w, k - 1) = Null
      BY <1>1, <2>1 DEF At
    <3> HIDE DEF at
    <3> QED
      BY <1>4, <3>1, <3>2
  <2>2. CASE k # 1
    <3>1. at = {k - 2} /\ f[k - 2] = w[k - 1]
      BY <1>6, <1>7, <2>2
    <3> HIDE DEF at
    <3>2. k - 2 \in Int /\ k - 1 \in DOMAIN w
      BY <1>1, <1>2, <2>2
    <3>3. (CHOOSE n \in at : \A j \in at : n <= j) = k - 2
      BY <3>1, <3>2
    <3> QED
      BY <1>4, <3>1, <3>2, <3>3 DEF At
  <2> QED
    BY <2>1, <2>2
<1>8. ASSUME \A k \in DOMAIN w : w[k] # v PROVE Before(next, p, v) = Null
  <2>1. at = {}
    BY <1>5, <1>8, Zenon
  <2> HIDE DEF at
  <2> QED
    BY <1>4, <2>1
<1> QED
  BY <1>7, <1>8
-----------------------------------------------------------------------------
DequeState ==
  [head : [Lists -> Pointer], tail : [Lists -> Pointer], next : [Values -> Pointer]]

(* The pointers s hold the lists Q: each is linked head to tail and ends,  *)
(* and no value is in two of them.                                         *)
Represents(s, Q) ==
  /\ s \in DequeState /\ Q \in [Lists -> Seq(Values)]
  /\ \A l \in Lists : Walks(s.next, s.head[l], Q[l]) /\ s.tail[l] = At(Q[l], Len(Q[l]))
  /\ \A l, m \in Lists : l # m =>
       \A j \in DOMAIN Q[l] : \A k \in DOMAIN Q[m] : Q[l][j] # Q[m][k]

(* The call touched no other list than l, and v is in none of them.        *)
OthersKept(r, s, Q, l, v) ==
  \A m \in Lists \ {l} :
    /\ r.head[m] = s.head[m] /\ r.tail[m] = s.tail[m]
    /\ \A k \in DOMAIN Q[m] : Q[m][k] # v /\ r.next[Q[m][k]] = s.next[Q[m][k]]

(* What w holds was in l or is v.                                          *)
FromList(w, Q, l, v) ==
  \A k \in DOMAIN w : w[k] = v \/ \E j \in DOMAIN Q[l] : w[k] = Q[l][j]

(* A call on list l that turns it into w.                                  *)
LEMMA OneList ==
  ASSUME NEW s, NEW Q, Represents(s, Q), NEW r \in DequeState, NEW l \in Lists, NEW v,
         NEW w, Walks(r.next, r.head[l], w), r.tail[l] = At(w, Len(w)),
         FromList(w, Q, l, v), OthersKept(r, s, Q, l, v)
  PROVE  Represents(r, [Q EXCEPT ![l] = w])
<1> DEFINE P == [Q EXCEPT ![l] = w]
<1>1. Q \in [Lists -> Seq(Values)] /\ w \in Seq(Values)
  BY DEF Represents, Walks
<1>2. P \in [Lists -> Seq(Values)] /\ P[l] = w /\ \A m \in Lists \ {l} : P[m] = Q[m]
  BY <1>1
<1> HIDE DEF P
<1>3. ASSUME NEW m \in Lists
      PROVE  Walks(r.next, r.head[m], P[m]) /\ r.tail[m] = At(P[m], Len(P[m]))
  <2>1. CASE m = l
    BY <1>2, <2>1
  <2>2. CASE m # l
    <3>1. P[m] = Q[m] /\ r.head[m] = s.head[m] /\ r.tail[m] = s.tail[m]
      BY <1>2, <2>2 DEF OthersKept
    <3>2. Walks(s.next, s.head[m], Q[m]) /\ s.tail[m] = At(Q[m], Len(Q[m]))
      BY DEF Represents
    <3>3. \A k \in DOMAIN Q[m] : r.next[Q[m][k]] = s.next[Q[m][k]]
      BY <2>2 DEF OthersKept
    <3> QED
      BY <3>1, <3>2, <3>3 DEF Walks
  <2> QED
    BY <2>1, <2>2
<1>4. ASSUME NEW m \in Lists, m # l, NEW j \in DOMAIN w, NEW k \in DOMAIN Q[m]
      PROVE  w[j] # Q[m][k]
  <2>1. CASE w[j] = v
    BY <1>4, <2>1 DEF OthersKept
  <2>2. CASE w[j] # v
    <3>1. PICK n \in DOMAIN Q[l] : w[j] = Q[l][n]
      BY <2>2 DEF FromList
    <3>2. Q[l][n] # Q[m][k]
      BY <1>4 DEF Represents
    <3> QED
      BY <3>1, <3>2
  <2> QED
    BY <2>1, <2>2
<1>5. ASSUME NEW m \in Lists, NEW n \in Lists, m # n,
             NEW j \in DOMAIN P[m], NEW k \in DOMAIN P[n]
      PROVE  P[m][j] # P[n][k]
  <2>1. CASE m = l
    BY <1>2, <1>4, <1>5, <2>1
  <2>2. CASE n = l
    BY <1>2, <1>4, <1>5, <2>2
  <2>3. CASE m # l /\ n # l
    <3>1. P[m] = Q[m] /\ P[n] = Q[n]
      BY <1>2, <2>3
    <3> QED
      BY <1>5, <3>1 DEF Represents
  <2> QED
    BY <2>1, <2>2, <2>3
<1> QED
  BY <1>2, <1>3, <1>5 DEF Represents, P

(* What a represented list w gives to a proof about a call on it.          *)
ListAt(s, w, l) ==
  /\ s \in DequeState /\ w \in Seq(Values) /\ Distinct(w)
  /\ Len(w) \in Nat /\ DOMAIN w = 1 .. Len(w)
  /\ \A k \in DOMAIN w : w[k] \in Values /\ w[k] # Null
  /\ Walks(s.next, s.head[l], w)
  /\ s.head[l] = At(w, 1) /\ s.tail[l] = At(w, Len(w))
  /\ \A k \in DOMAIN w : s.next[w[k]] = At(w, k + 1)

LEMMA ListFacts ==
  ASSUME NEW s, NEW Q, Represents(s, Q), NEW l \in Lists
  PROVE  ListAt(s, Q[l], l)
<1>1. /\ s \in DequeState /\ Walks(s.next, s.head[l], Q[l])
      /\ s.tail[l] = At(Q[l], Len(Q[l]))
  BY DEF Represents
<1>2. Q[l] \in Seq(Values) /\ Distinct(Q[l])
  BY <1>1 DEF Walks
<1>3. Len(Q[l]) \in Nat /\ DOMAIN Q[l] = 1 .. Len(Q[l])
  BY <1>2
<1>4. \A k \in DOMAIN Q[l] : Q[l][k] \in Values /\ Q[l][k] # Null
  BY <1>2, NullAssumption
<1> QED
  BY <1>1, <1>2, <1>3, <1>4 DEF Walks, ListAt

(* The fields that a call writes.                                          *)
Written(r, s, l, h, t, g) ==
  /\ r \in DequeState
  /\ r.head[l] = h /\ r.tail[l] = t /\ r.next = g
  /\ \A m \in Lists \ {l} : r.head[m] = s.head[m] /\ r.tail[m] = s.tail[m]

LEMMA SetPointers ==
  ASSUME NEW s \in DequeState, NEW l \in Lists, NEW h \in Pointer, NEW t \in Pointer,
         NEW g \in [Values -> Pointer]
  PROVE  Written([head |-> [s.head EXCEPT ![l] = h], tail |-> [s.tail EXCEPT ![l] = t],
                  next |-> g], s, l, h, t, g)
  BY DEF DequeState, Written

(* A value that is in no list.                                             *)
FreeOf(Q, v) == \A l \in Lists : \A k \in DOMAIN Q[l] : Q[l][k] # v

LEMMA PushHeadLists ==
  ASSUME NEW s, NEW Q, Represents(s, Q), NEW l \in Lists, NEW v \in Values, FreeOf(Q, v)
  PROVE  Represents(push_head(s, l, v), [Q EXCEPT ![l] = <<v>> \o Q[l]])
<1> DEFINE w == Q[l]
           u == <<v>> \o w
           g == [s.next EXCEPT ![v] = s.head[l]]
           t == IF w = <<>> THEN v ELSE s.tail[l]
           r == [head |-> [s.head EXCEPT ![l] = v], tail |-> [s.tail EXCEPT ![l] = t],
                 next |-> g]
<1>1. /\ s \in DequeState /\ w \in Seq(Values) /\ Distinct(w)
      /\ Len(w) \in Nat /\ DOMAIN w = 1 .. Len(w)
      /\ \A k \in DOMAIN w : w[k] \in Values /\ w[k] # Null
      /\ s.head[l] = At(w, 1) /\ s.tail[l] = At(w, Len(w))
      /\ \A k \in DOMAIN w : s.next[w[k]] = At(w, k + 1)
  <2>1. ListAt(s, w, l)
    BY ListFacts
  <2> QED
    BY <2>1 DEF ListAt
<1>2. \A k \in DOMAIN w : w[k] # v
  BY DEF FreeOf
<1>3. /\ u \in Seq(Values) /\ Len(u) = Len(w) + 1 /\ DOMAIN u = 1 .. Len(w) + 1
      /\ u[1] = v /\ \A k \in DOMAIN w : u[k + 1] = w[k]
  BY <1>1
<1>4. s.head \in [Lists -> Pointer] /\ s.tail \in [Lists -> Pointer] /\ s.next \in [Values -> Pointer]
  BY <1>1 DEF DequeState
<1>5. push_head(s, l, v) = r
  <2>1. s.head[l] = Null <=> w = <<>>
    BY <1>1 DEF At
  <2>2. CASE w = <<>>
    <3>1. push_head(s, l, v) = [s EXCEPT !.next[v] = Null, !.tail[l] = v, !.head[l] = v]
      BY <2>1, <2>2 DEF push_head
    <3> QED
      BY <1>1, <2>1, <2>2, <3>1 DEF DequeState
  <2>3. CASE w # <<>>
    <3>1. push_head(s, l, v) = [s EXCEPT !.next[v] = s.head[l], !.head[l] = v]
      BY <2>1, <2>3 DEF push_head
    <3>2. [s.tail EXCEPT ![l] = t] = s.tail
      BY <1>4, <2>3
    <3> QED
      BY <1>1, <2>3, <3>1, <3>2 DEF DequeState
  <2> QED
    BY <2>2, <2>3
<1>6. t \in Pointer /\ v \in Pointer /\ g \in [Values -> Pointer]
  BY <1>4 DEF Pointer
<1>7. g[v] = At(w, 1) /\ \A x \in Values \ {v} : g[x] = s.next[x]
  BY <1>1, <1>4
<1>8. t = At(u, Len(u))
  BY <1>1, <1>3 DEF At
<1> HIDE DEF w, u, g, t
<1>9. /\ r \in DequeState /\ r.head[l] = v /\ r.tail[l] = t /\ r.next = g
      /\ \A m \in Lists \ {l} : r.head[m] = s.head[m] /\ r.tail[m] = s.tail[m]
  <2>1. Written(r, s, l, v, t, g)
    BY <1>1, <1>6, SetPointers
  <2> QED
    BY <2>1 DEF Written
<1> HIDE DEF r
<1>10. \A k \in DOMAIN u : k = 1 \/ (k - 1 \in DOMAIN w /\ u[k] = w[k - 1])
  BY <1>1, <1>3
<1>11. Distinct(u)
  BY <1>1, <1>2, <1>3, <1>10 DEF Distinct
<1>12. \A k \in Nat : At(u, k + 1) = IF k = 0 THEN v ELSE At(w, k)
  BY <1>1, <1>3 DEF At
<1>13. \A k \in DOMAIN u : g[u[k]] = At(u, k + 1)
  <2> SUFFICES ASSUME NEW k \in DOMAIN u PROVE g[u[k]] = At(u, k + 1)
    OBVIOUS
  <2>0. k \in Nat /\ k # 0
    BY <1>1, <1>3
  <2>1. k \in Nat /\ k # 0 /\ At(u, k + 1) = At(w, k)
    BY <1>12, <2>0
  <2>2. CASE k = 1
    BY <1>3, <1>7, <2>1, <2>2
  <2>3. CASE k # 1
    <3>1. k - 1 \in DOMAIN w /\ u[k] = w[k - 1] /\ k - 1 + 1 = k
      BY <1>10, <2>1, <2>3
    <3>2. g[w[k - 1]] = s.next[w[k - 1]] /\ s.next[w[k - 1]] = At(w, k - 1 + 1)
      BY <1>1, <1>2, <1>7, <3>1
    <3> QED
      BY <2>1, <3>1, <3>2
  <2> QED
    BY <2>2, <2>3
<1>14. v = At(u, 1)
  BY <1>3, <1>1 DEF At
<1>15. Walks(r.next, r.head[l], u)
  BY <1>3, <1>9, <1>11, <1>13, <1>14 DEF Walks
<1>16. FromList(u, Q, l, v)
  BY <1>3, <1>10 DEF w, FromList
<1>17. OthersKept(r, s, Q, l, v)
  <2> SUFFICES ASSUME NEW m \in Lists \ {l}, NEW k \in DOMAIN Q[m]
               PROVE  Q[m][k] # v /\ r.next[Q[m][k]] = s.next[Q[m][k]]
    BY <1>9 DEF OthersKept
  <2>1. Q[m][k] # v /\ Q[m][k] \in Values
    <3>1. ListAt(s, Q[m], m)
      BY ListFacts
    <3> QED
      BY <3>1 DEF ListAt, FreeOf
  <2> QED
    BY <1>7, <1>9, <2>1
<1>18. r \in DequeState /\ r.tail[l] = At(u, Len(u))
  BY <1>8, <1>9
<1>19. Represents(r, [Q EXCEPT ![l] = u])
  BY <1>15, <1>16, <1>17, <1>18, OneList, Zenon
<1> QED
  BY <1>5, <1>19 DEF u, w

LEMMA PushTailLists ==
  ASSUME NEW s, NEW Q, Represents(s, Q), NEW l \in Lists, NEW v \in Values, FreeOf(Q, v)
  PROVE  Represents(push_tail(s, l, v), [Q EXCEPT ![l] = Append(Q[l], v)])
<1> DEFINE w == Q[l]
           u == Append(w, v)
           f == [s.next EXCEPT ![v] = Null]
           g == [f EXCEPT ![s.tail[l]] = v]
           h == IF w = <<>> THEN v ELSE s.head[l]
           r == [head |-> [s.head EXCEPT ![l] = h], tail |-> [s.tail EXCEPT ![l] = v],
                 next |-> g]
<1>1. /\ s \in DequeState /\ w \in Seq(Values) /\ Distinct(w)
      /\ Len(w) \in Nat /\ DOMAIN w = 1 .. Len(w)
      /\ \A k \in DOMAIN w : w[k] \in Values /\ w[k] # Null
      /\ s.head[l] = At(w, 1) /\ s.tail[l] = At(w, Len(w))
      /\ \A k \in DOMAIN w : s.next[w[k]] = At(w, k + 1)
  <2>1. ListAt(s, w, l)
    BY ListFacts
  <2> QED
    BY <2>1 DEF ListAt
<1>2. \A k \in DOMAIN w : w[k] # v
  BY DEF FreeOf
<1>3. /\ u \in Seq(Values) /\ Len(u) = Len(w) + 1 /\ DOMAIN u = 1 .. Len(w) + 1
      /\ u[Len(w) + 1] = v /\ \A k \in DOMAIN w : u[k] = w[k]
  BY <1>1
<1>4. /\ s.head \in [Lists -> Pointer] /\ s.tail \in [Lists -> Pointer]
      /\ s.next \in [Values -> Pointer] /\ f \in [Values -> Pointer]
      /\ g \in [Values -> Pointer] /\ v # Null
  BY <1>1, NullAssumption DEF DequeState, Pointer
<1>5. push_tail(s, l, v) = r
  <2>1. s.tail[l] = Null <=> w = <<>>
    BY <1>1 DEF At
  <2>2. CASE w = <<>>
    <3>1. push_tail(s, l, v) = [s EXCEPT !.next[v] = Null, !.head[l] = v, !.tail[l] = v]
      BY <2>1, <2>2 DEF push_tail
    <3>2. g = f
      BY <1>4, <2>1, <2>2, NullAssumption
    <3> QED
      BY <1>1, <2>2, <3>1, <3>2 DEF DequeState
  <2>3. CASE w # <<>>
    <3>1. push_tail(s, l, v)
            = [s EXCEPT !.next[v] = Null, !.next[s.tail[l]] = v, !.tail[l] = v]
      BY <2>1, <2>3 DEF push_tail
    <3>2. [s.head EXCEPT ![l] = h] = s.head
      BY <1>4, <2>3
    <3> QED
      BY <1>1, <2>3, <3>1, <3>2 DEF DequeState
  <2> QED
    BY <2>2, <2>3
<1>6. h \in Pointer /\ v \in Pointer
  BY <1>4 DEF Pointer
<1>7. /\ g[v] = Null
      /\ w # <<>> => g[w[Len(w)]] = v
      /\ \A x \in Values \ {v} : x # s.tail[l] => g[x] = s.next[x]
  <2>1. s.tail[l] # v
    BY <1>1, <1>2, <1>4 DEF At
  <2>2. w # <<>> => s.tail[l] = w[Len(w)] /\ w[Len(w)] \in Values
    BY <1>1 DEF At
  <2> QED
    BY <1>4, <2>1, <2>2
<1>8. h = At(u, 1)
  BY <1>1, <1>3 DEF At
<1>9. v = At(u, Len(u))
  BY <1>1, <1>3 DEF At
<1> HIDE DEF w, u, f, g, h
<1>10. /\ r \in DequeState /\ r.head[l] = h /\ r.tail[l] = v /\ r.next = g
       /\ \A m \in Lists \ {l} : r.head[m] = s.head[m] /\ r.tail[m] = s.tail[m]
  <2>1. Written(r, s, l, h, v, g)
    BY <1>1, <1>4, <1>6, SetPointers
  <2> QED
    BY <2>1 DEF Written
<1> HIDE DEF r
<1>11. Distinct(u)
  BY <1>1, <1>2, <1>3 DEF Distinct
<1>12. \A k \in DOMAIN u : g[u[k]] = At(u, k + 1)
  <2> SUFFICES ASSUME NEW k \in DOMAIN u PROVE g[u[k]] = At(u, k + 1)
    OBVIOUS
  <2>1. CASE k = Len(w) + 1
    <3>1. At(u, k + 1) = Null
      BY <1>1, <1>3, <2>1 DEF At
    <3> QED
      BY <1>3, <1>7, <2>1, <3>1
  <2>2. CASE k = Len(w)
    <3>1. At(u, k + 1) = v /\ w # <<>> /\ u[k] = w[Len(w)]
      BY <1>1, <1>3, <2>2 DEF At
    <3> QED
      BY <1>7, <3>1
  <2>3. CASE k \notin {Len(w), Len(w) + 1}
    <3>1. k \in DOMAIN w /\ k + 1 \in DOMAIN w /\ Len(w) \in DOMAIN w
      BY <1>1, <1>3, <2>3
    <3>2. w[k] # w[Len(w)]
      BY <1>1, <2>3, <3>1 DEF Distinct
    <3>3. g[w[k]] = s.next[w[k]]
      BY <1>1, <1>2, <1>7, <3>1, <3>2 DEF At
    <3>4. At(w, k + 1) = At(u, k + 1)
      BY <1>1, <1>3, <3>1 DEF At
    <3> QED
      BY <1>1, <1>3, <3>1, <3>3, <3>4
  <2> QED
    BY <2>1, <2>2, <2>3
<1>13. Walks(r.next, r.head[l], u)
  BY <1>3, <1>8, <1>10, <1>11, <1>12 DEF Walks
<1>14. FromList(u, Q, l, v)
  <2>1. \A k \in DOMAIN u : k \in DOMAIN w \/ k = Len(w) + 1
    BY <1>1, <1>3
  <2> QED
    BY <1>3, <2>1 DEF w, FromList
<1>15. OthersKept(r, s, Q, l, v)
  <2> SUFFICES ASSUME NEW m \in Lists \ {l}, NEW k \in DOMAIN Q[m]
               PROVE  Q[m][k] # v /\ r.next[Q[m][k]] = s.next[Q[m][k]]
    BY <1>10 DEF OthersKept
  <2>1. Q[m][k] # v /\ Q[m][k] \in Values /\ Q[m][k] # Null
    <3>1. ListAt(s, Q[m], m)
      BY ListFacts
    <3> QED
      BY <3>1 DEF ListAt, FreeOf
  <2>2. Q[m][k] # s.tail[l]
    <3>1. \A j \in DOMAIN w : w[j] # Q[m][k]
      BY DEF Represents, w
    <3> QED
      BY <1>1, <2>1, <3>1 DEF At
  <2> QED
    BY <1>7, <1>10, <2>1, <2>2
<1>16. r \in DequeState /\ r.tail[l] = At(u, Len(u))
  BY <1>9, <1>10
<1>17. Represents(r, [Q EXCEPT ![l] = u])
  BY <1>13, <1>14, <1>15, <1>16, OneList, Zenon
<1> QED
  BY <1>5, <1>17 DEF u, w
-----------------------------------------------------------------------------
(* The list without its place j.                                           *)
Cut(w, j) == [k \in 1 .. Len(w) - 1 |-> IF k < j THEN w[k] ELSE w[k + 1]]

LEMMA CutFacts ==
  ASSUME NEW w \in Seq(Values), Distinct(w), NEW j \in DOMAIN w
  PROVE  /\ Cut(w, j) \in Seq(Values) /\ Distinct(Cut(w, j))
         /\ Len(Cut(w, j)) = Len(w) - 1 /\ DOMAIN Cut(w, j) = 1 .. Len(w) - 1
         /\ \A k \in Nat : At(Cut(w, j), k) = IF k < j THEN At(w, k) ELSE At(w, k + 1)
<1> DEFINE c == Cut(w, j)
<1>1. Len(w) \in Nat /\ DOMAIN w = 1 .. Len(w) /\ Len(w) - 1 \in Nat /\ j \in 1 .. Len(w)
  OBVIOUS
<1>2. \A k \in 1 .. Len(w) - 1 : /\ k \in DOMAIN w /\ k + 1 \in DOMAIN w
                                 /\ c[k] = IF k < j THEN w[k] ELSE w[k + 1]
  BY <1>1 DEF Cut
<1>3. c \in Seq(Values) /\ Len(c) = Len(w) - 1 /\ DOMAIN c = 1 .. Len(w) - 1
  BY <1>1, <1>2 DEF Cut
<1> HIDE DEF c
<1>4. ASSUME NEW k \in DOMAIN c, NEW m \in DOMAIN c, c[k] = c[m] PROVE k = m
  <2> DEFINE a == IF k < j THEN k ELSE k + 1
             b == IF m < j THEN m ELSE m + 1
  <2>1. a \in DOMAIN w /\ b \in DOMAIN w /\ c[k] = w[a] /\ c[m] = w[b]
    BY <1>2, <1>3
  <2> HIDE DEF a, b
  <2>2. a = b
    BY <1>4, <2>1 DEF Distinct
  <2> QED
    BY <1>1, <1>3, <2>2 DEF a, b
<1>5. Distinct(c)
  BY <1>4 DEF Distinct
<1>6. \A k \in Nat : At(c, k) = IF k < j THEN At(w, k) ELSE At(w, k + 1)
  BY <1>1, <1>2, <1>3 DEF At
<1> QED
  BY <1>3, <1>5, <1>6 DEF c

(* The value at place j of list l, which holds w, is taken out by a change *)
(* of the hook before it, or of head, and of tail when it was the last.    *)
CutBy(r, s, w, l, j) ==
  /\ r.head[l] = IF j = 1 THEN At(w, 2) ELSE s.head[l]
  /\ r.tail[l] = IF j = Len(w) THEN At(w, j - 1) ELSE s.tail[l]
  /\ \A m \in Lists \ {l} : r.head[m] = s.head[m] /\ r.tail[m] = s.tail[m]
  /\ j # 1 => r.next[w[j - 1]] = At(w, j + 1)
  /\ \A x \in Values : (j # 1 => x # w[j - 1]) => r.next[x] = s.next[x]

LEMMA CutList ==
  ASSUME NEW s, NEW Q, Represents(s, Q), NEW l \in Lists, NEW j \in DOMAIN Q[l],
         NEW r \in DequeState, CutBy(r, s, Q[l], l, j)
  PROVE  Represents(r, [Q EXCEPT ![l] = Cut(Q[l], j)])
<1> DEFINE w == Q[l]
           u == Cut(w, j)
<1>1. /\ s \in DequeState /\ w \in Seq(Values) /\ Distinct(w)
      /\ Len(w) \in Nat /\ DOMAIN w = 1 .. Len(w)
      /\ \A k \in DOMAIN w : w[k] \in Values /\ w[k] # Null
      /\ s.head[l] = At(w, 1) /\ s.tail[l] = At(w, Len(w))
      /\ \A k \in DOMAIN w : s.next[w[k]] = At(w, k + 1)
  <2>1. ListAt(s, w, l)
    BY ListFacts
  <2> QED
    BY <2>1 DEF ListAt
<1>2. /\ u \in Seq(Values) /\ Distinct(u) /\ Len(u) = Len(w) - 1 /\ DOMAIN u = 1 .. Len(w) - 1
      /\ \A k \in Nat : At(u, k) = IF k < j THEN At(w, k) ELSE At(w, k + 1)
  BY <1>1, CutFacts
<1>3. j \in DOMAIN w /\ (j # 1 => j - 1 \in DOMAIN w /\ r.next[w[j - 1]] = At(w, j + 1))
  BY <1>1 DEF CutBy
<1>4. \A k \in DOMAIN w : j = 1 \/ k # j - 1 => r.next[w[k]] = At(w, k + 1)
  <2> SUFFICES ASSUME NEW k \in DOMAIN w, j = 1 \/ k # j - 1
               PROVE  r.next[w[k]] = At(w, k + 1)
    BY Zenon
  <2>1. j # 1 => w[k] # w[j - 1]
    BY <1>1, <1>3 DEF Distinct
  <2>2. r.next[w[k]] = s.next[w[k]]
    BY <1>1, <2>1 DEF CutBy
  <2> QED
    BY <1>1, <2>2
<1>5. OthersKept(r, s, Q, l, Null)
  <2> SUFFICES ASSUME NEW m \in Lists \ {l}, NEW k \in DOMAIN Q[m]
               PROVE  Q[m][k] # Null /\ r.next[Q[m][k]] = s.next[Q[m][k]]
    BY DEF OthersKept, CutBy
  <2>1. Q[m][k] \in Values /\ Q[m][k] # Null
    <3>1. ListAt(s, Q[m], m)
      BY ListFacts
    <3> QED
      BY <3>1 DEF ListAt
  <2>2. j # 1 => Q[m][k] # w[j - 1]
    BY <1>3 DEF Represents
  <2> QED
    BY <2>1, <2>2 DEF CutBy
<1> HIDE DEF w, u
<1>5a. \A k \in DOMAIN u : k \in Nat /\ k \in DOMAIN w /\ k + 1 \in DOMAIN w
  <2>1. Len(w) \in Nat /\ DOMAIN w = 1 .. Len(w) /\ DOMAIN u = 1 .. Len(w) - 1
    BY <1>1, <1>2, Zenon
  <2>2. \A k \in 1 .. Len(w) - 1 : k \in Nat /\ k \in 1 .. Len(w) /\ k + 1 \in 1 .. Len(w)
    BY <2>1
  <2> QED
    BY <2>1, <2>2, Zenon
<1>6. ASSUME NEW k \in DOMAIN u PROVE r.next[u[k]] = At(u, k + 1)
  <2>1. k \in Nat /\ k \in DOMAIN w /\ k + 1 \in DOMAIN w
    BY <1>5a
  <2>2. u[k] = At(u, k) /\ At(w, k) = w[k] /\ At(w, k + 1) = w[k + 1]
    BY <2>1 DEF At
  <2>3. CASE k < j - 1
    <3>1. u[k] = w[k] /\ At(u, k + 1) = At(w, k + 1)
      BY <1>1, <1>2, <1>3, <2>1, <2>2, <2>3
    <3>2. k # j - 1
      BY <1>1, <1>3, <2>1, <2>3
    <3> QED
      BY <1>4, <2>1, <3>1, <3>2
  <2>4. CASE k = j - 1
    <3>1. u[k] = w[j - 1] /\ At(u, k + 1) = At(w, j + 1) /\ j # 1
      BY <1>1, <1>2, <1>3, <2>1, <2>2, <2>4
    <3> QED
      BY <1>3, <3>1
  <2>5. CASE k >= j
    <3>1. u[k] = w[k + 1] /\ At(u, k + 1) = At(w, k + 1 + 1)
      BY <1>1, <1>2, <1>3, <2>1, <2>2, <2>5
    <3>2. k + 1 # j - 1
      BY <1>1, <1>3, <2>1, <2>5
    <3> QED
      BY <1>4, <2>1, <3>1, <3>2
  <2> QED
    BY <1>1, <1>3, <2>1, <2>3, <2>4, <2>5
<1>7. r.head[l] = At(u, 1)
  <2>1. CASE j = 1
    BY <1>2, <2>1 DEF w, CutBy
  <2>2. CASE j # 1
    <3>1. 1 < j
      BY <1>1, <1>3, <2>2
    <3> QED
      BY <1>1, <1>2, <2>2, <3>1 DEF w, CutBy
  <2> QED
    BY <2>1, <2>2
<1>8. r.tail[l] = At(u, Len(u))
  <2>1. CASE j = Len(w)
    <3>1. j - 1 \in Nat /\ j - 1 < j /\ Len(u) = j - 1
      BY <1>1, <1>2, <1>3, <2>1
    <3>2. At(u, j - 1) = At(w, j - 1)
      BY <1>2, <3>1
    <3> QED
      BY <2>1, <3>1, <3>2 DEF w, CutBy
  <2>2. CASE j # Len(w)
    <3>1. Len(w) - 1 \in Nat /\ ~(Len(w) - 1 < j) /\ Len(w) - 1 + 1 = Len(w)
      BY <1>1, <1>3, <2>2
    <3>2. At(u, Len(w) - 1) = At(w, Len(w))
      BY <1>2, <3>1
    <3> QED
      BY <1>1, <1>2, <2>2, <3>2 DEF w, CutBy
  <2> QED
    BY <2>1, <2>2
<1>9. Walks(r.next, r.head[l], u)
  BY <1>2, <1>6, <1>7 DEF Walks
<1>10. FromList(u, Q, l, Null)
  <2> SUFFICES ASSUME NEW k \in DOMAIN u PROVE \E n \in DOMAIN w : u[k] = w[n]
    BY DEF w, FromList
  <2>1. k \in Nat /\ k \in DOMAIN w /\ k + 1 \in DOMAIN w
    BY <1>5a
  <2>2. u[k] = At(u, k) /\ At(w, k) = w[k] /\ At(w, k + 1) = w[k + 1]
    BY <2>1 DEF At
  <2> QED
    BY <1>2, <2>1, <2>2
<1>11. Represents(r, [Q EXCEPT ![l] = u])
  BY <1>5, <1>8, <1>9, <1>10, OneList, Zenon
<1> QED
  BY <1>11 DEF u, w

(* pop_head of a list that holds something.                                *)
LEMMA PopHeadLists ==
  ASSUME NEW s, NEW Q, Represents(s, Q), NEW l \in Lists, Q[l] # <<>>
  PROVE  Represents(pop_head(s, l), [Q EXCEPT ![l] = Cut(Q[l], 1)])
<1> DEFINE w == Q[l]
           h == At(w, 2)
           t == IF h = Null THEN Null ELSE s.tail[l]
           r == [head |-> [s.head EXCEPT ![l] = h], tail |-> [s.tail EXCEPT ![l] = t],
                 next |-> s.next]
<1>1. /\ s \in DequeState /\ w \in Seq(Values) /\ Distinct(w)
      /\ Len(w) \in Nat /\ DOMAIN w = 1 .. Len(w)
      /\ \A k \in DOMAIN w : w[k] \in Values /\ w[k] # Null
      /\ s.head[l] = At(w, 1) /\ s.tail[l] = At(w, Len(w))
      /\ \A k \in DOMAIN w : s.next[w[k]] = At(w, k + 1)
  <2>1. ListAt(s, w, l)
    BY ListFacts
  <2> QED
    BY <2>1 DEF ListAt
<1>2. 1 \in DOMAIN w /\ s.head[l] = w[1] /\ w[1] # Null /\ s.next[w[1]] = h
  BY <1>1 DEF At
<1>3. /\ s.head \in [Lists -> Pointer] /\ s.tail \in [Lists -> Pointer]
      /\ s.next \in [Values -> Pointer]
  BY <1>1 DEF DequeState
<1>4. h \in Pointer /\ t \in Pointer
  <2>1. h \in Pointer
    BY <1>1, <1>2, <1>3
  <2> QED
    BY <1>3, <2>1 DEF Pointer
<1>5. pop_head(s, l) = r
  <2>1. pop_head(s, l) = [s EXCEPT !.head[l] = h, !.tail[l] = IF h = Null THEN Null ELSE @]
    BY <1>2 DEF pop_head
  <2> HIDE DEF h
  <2> QED
    BY <1>1, <2>1 DEF DequeState
<1>6. t = IF 1 = Len(w) THEN At(w, 1 - 1) ELSE s.tail[l]
  <2>1. h = Null <=> Len(w) = 1
    <3>1. 2 \in DOMAIN w <=> Len(w) # 1
      <4>1. Len(w) \in Nat /\ DOMAIN w = 1 .. Len(w) /\ 1 \in DOMAIN w
        BY <1>1, <1>2, Zenon
      <4> HIDE DEF w
      <4> QED
        BY <4>1
    <3> QED
      BY <1>1, <3>1 DEF At
  <2>2. At(w, 1 - 1) = Null
    BY <1>1 DEF At
  <2> QED
    BY <2>1, <2>2
<1> HIDE DEF w, h, t
<1>7. /\ r \in DequeState /\ r.head[l] = h /\ r.tail[l] = t /\ r.next = s.next
      /\ \A m \in Lists \ {l} : r.head[m] = s.head[m] /\ r.tail[m] = s.tail[m]
  <2>1. Written(r, s, l, h, t, s.next)
    BY <1>1, <1>3, <1>4, SetPointers
  <2> QED
    BY <2>1 DEF Written
<1> HIDE DEF r
<1>8. CutBy(r, s, Q[l], l, 1)
  BY <1>6, <1>7 DEF w, h, CutBy
<1>9. Represents(r, [Q EXCEPT ![l] = Cut(Q[l], 1)])
  BY <1>2, <1>7, <1>8, CutList DEF w
<1> QED
  BY <1>5, <1>9

(* pop_tail of a list that holds something.                                *)
LEMMA PopTailLists ==
  ASSUME NEW s, NEW Q, Represents(s, Q), NEW l \in Lists, Q[l] # <<>>
  PROVE  Represents(pop_tail(s, l), [Q EXCEPT ![l] = Cut(Q[l], Len(Q[l]))])
<1> DEFINE w == Q[l]
           n == Len(w)
           h == IF n = 1 THEN Null ELSE s.head[l]
           t == At(w, n - 1)
           g == IF n = 1 THEN s.next ELSE [s.next EXCEPT ![t] = Null]
           r == [head |-> [s.head EXCEPT ![l] = h], tail |-> [s.tail EXCEPT ![l] = t],
                 next |-> g]
<1>1. /\ s \in DequeState /\ w \in Seq(Values) /\ Distinct(w)
      /\ Len(w) \in Nat /\ DOMAIN w = 1 .. Len(w)
      /\ \A k \in DOMAIN w : w[k] \in Values /\ w[k] # Null
      /\ s.head[l] = At(w, 1) /\ s.tail[l] = At(w, Len(w))
      /\ \A k \in DOMAIN w : s.next[w[k]] = At(w, k + 1)
      /\ Walks(s.next, s.head[l], w)
  <2>1. ListAt(s, w, l)
    BY ListFacts
  <2> QED
    BY <2>1 DEF ListAt
<1>2. /\ 1 \in DOMAIN w /\ n \in DOMAIN w /\ s.head[l] = w[1] /\ s.tail[l] = w[n]
      /\ w[n] \in Values /\ w[n] # Null
  BY <1>1 DEF At
<1>3. /\ s.head \in [Lists -> Pointer] /\ s.tail \in [Lists -> Pointer]
      /\ s.next \in [Values -> Pointer]
  BY <1>1 DEF DequeState
<1>4. n # 1 => t = w[n - 1] /\ n - 1 \in DOMAIN w /\ t \in Values
  <2>1. n # 1 => n - 1 \in DOMAIN w
    <3>1. Len(w) \in Nat /\ DOMAIN w = 1 .. Len(w) /\ Len(w) \in DOMAIN w
      BY <1>1, <1>2, Zenon
    <3> HIDE DEF w
    <3> QED
      BY <3>1
  <2> QED
    BY <1>1, <2>1 DEF At
<1>5. n = 1 => t = Null
  BY <1>1 DEF At
<1>6. h \in Pointer /\ t \in Pointer /\ g \in [Values -> Pointer]
  BY <1>3, <1>4, <1>5 DEF Pointer
<1>7. s.head[l] = s.tail[l] <=> n = 1
  BY <1>1, <1>2 DEF Distinct
<1>8. pop_tail(s, l) = r
  <2>1. CASE n = 1
    <3>1. pop_tail(s, l) = [s EXCEPT !.head[l] = Null, !.tail[l] = Null]
      BY <1>2, <1>7, <2>1 DEF pop_tail
    <3>2. h = Null /\ t = Null /\ g = s.next
      BY <1>5, <2>1
    <3> HIDE DEF h, t, g
    <3> QED
      BY <1>1, <3>1, <3>2 DEF DequeState
  <2>2. CASE n # 1
    <3>1. Before(s.next, s.head[l], s.tail[l]) = t
      BY <1>1, <1>2, BeforeIs
    <3>2. pop_tail(s, l) = [s EXCEPT !.next[t] = Null, !.tail[l] = t]
      BY <1>2, <1>7, <2>2, <3>1 DEF pop_tail
    <3>3. [s.head EXCEPT ![l] = h] = s.head /\ g = [s.next EXCEPT ![t] = Null]
      BY <1>3, <2>2
    <3> HIDE DEF h, t, g
    <3> QED
      BY <1>1, <3>2, <3>3 DEF DequeState
  <2> QED
    BY <2>1, <2>2
<1>9. h = IF n = 1 THEN At(w, 2) ELSE s.head[l]
  BY <1>1 DEF At
<1>10. n # 1 => g[w[n - 1]] = At(w, n + 1)
  BY <1>1, <1>3, <1>4 DEF At
<1>11. \A x \in Values : (n # 1 => x # w[n - 1]) => g[x] = s.next[x]
  BY <1>3, <1>4
<1> HIDE DEF w, n, h, t, g
<1>12. /\ r \in DequeState /\ r.head[l] = h /\ r.tail[l] = t /\ r.next = g
       /\ \A m \in Lists \ {l} : r.head[m] = s.head[m] /\ r.tail[m] = s.tail[m]
  <2>1. Written(r, s, l, h, t, g)
    BY <1>1, <1>6, SetPointers
  <2> QED
    BY <2>1 DEF Written
<1> HIDE DEF r
<1>13. CutBy(r, s, w, l, n)
  BY <1>9, <1>10, <1>11, <1>12 DEF n, t, CutBy
<1>14. Represents(r, [Q EXCEPT ![l] = Cut(Q[l], Len(Q[l]))])
  BY <1>2, <1>12, <1>13, CutList DEF w, n
<1> QED
  BY <1>8, <1>14

(* remove of the value at place j.                                         *)
LEMMA RemoveHeld ==
  ASSUME NEW s, NEW Q, Represents(s, Q), NEW l \in Lists, NEW j \in DOMAIN Q[l]
  PROVE  Represents(remove(s, l, Q[l][j]), [Q EXCEPT ![l] = Cut(Q[l], j)])
<1> DEFINE w == Q[l]
           v == w[j]
           n == Len(w)
<1>1. /\ s \in DequeState /\ w \in Seq(Values) /\ Distinct(w)
      /\ Len(w) \in Nat /\ DOMAIN w = 1 .. Len(w)
      /\ \A k \in DOMAIN w : w[k] \in Values /\ w[k] # Null
      /\ s.head[l] = At(w, 1) /\ s.tail[l] = At(w, Len(w))
      /\ \A k \in DOMAIN w : s.next[w[k]] = At(w, k + 1)
      /\ Walks(s.next, s.head[l], w)
  <2>1. ListAt(s, w, l)
    BY ListFacts
  <2> QED
    BY <2>1 DEF ListAt
<1>2. /\ 1 \in DOMAIN w /\ n \in DOMAIN w /\ s.head[l] = w[1] /\ s.tail[l] = w[n]
      /\ v \in Values /\ v # Null /\ s.head[l] # Null /\ Q[l] # <<>>
  BY <1>1 DEF At
<1>3. (v = s.tail[l] <=> j = n) /\ (v = s.head[l] <=> j = 1)
  BY <1>1, <1>2 DEF Distinct
<1>4. CASE j = n
  <2>1. remove(s, l, v) = pop_tail(s, l)
    BY <1>2, <1>3, <1>4 DEF remove
  <2> QED
    BY <1>2, <1>4, <2>1, PopTailLists
<1>5. CASE j # n /\ j = 1
  <2>1. remove(s, l, v) = pop_head(s, l)
    BY <1>2, <1>3, <1>5 DEF remove
  <2> QED
    BY <1>2, <1>5, <2>1, PopHeadLists
<1>6. CASE j # n /\ j # 1
  <2> DEFINE p == w[j - 1]
             g == [s.next EXCEPT ![p] = At(w, j + 1)]
             r == [head |-> [s.head EXCEPT ![l] = s.head[l]],
                   tail |-> [s.tail EXCEPT ![l] = s.tail[l]], next |-> g]
  <2>1. j - 1 \in DOMAIN w /\ p \in Values /\ p # Null /\ At(w, j - 1) = p
    BY <1>1, <1>6 DEF At
  <2>2. Before(s.next, s.head[l], v) = p
    BY <1>1, <1>2, <2>1, BeforeIs
  <2>3. s.next[v] = At(w, j + 1)
    BY <1>1
  <2>4. remove(s, l, v) = [s EXCEPT !.next[p] = At(w, j + 1)]
    BY <1>2, <1>3, <1>6, <2>1, <2>2, <2>3 DEF remove
  <2>5. /\ s.head \in [Lists -> Pointer] /\ s.tail \in [Lists -> Pointer]
        /\ s.next \in [Values -> Pointer]
    BY <1>1 DEF DequeState
  <2>6. At(w, j + 1) \in Pointer
    BY <1>2, <2>3, <2>5
  <2>7. g \in [Values -> Pointer] /\ s.head[l] \in Pointer /\ s.tail[l] \in Pointer
    BY <2>5, <2>6
  <2>8. g[p] = At(w, j + 1) /\ \A x \in Values : x # p => g[x] = s.next[x]
    BY <2>1, <2>5
  <2>9. [s.head EXCEPT ![l] = s.head[l]] = s.head /\ [s.tail EXCEPT ![l] = s.tail[l]] = s.tail
    BY <2>5
  <2> HIDE DEF p, v, w
  <2>10. remove(s, l, v) = r
    BY <1>1, <2>4, <2>9 DEF DequeState
  <2> HIDE DEF g
  <2>11. /\ r \in DequeState /\ r.head[l] = s.head[l] /\ r.tail[l] = s.tail[l] /\ r.next = g
         /\ \A m \in Lists \ {l} : r.head[m] = s.head[m] /\ r.tail[m] = s.tail[m]
    <3>1. Written(r, s, l, s.head[l], s.tail[l], g)
      BY <1>1, <2>7, SetPointers
    <3> QED
      BY <3>1 DEF Written
  <2> HIDE DEF r
  <2>12. CutBy(r, s, w, l, j)
    BY <1>6, <2>8, <2>11 DEF n, p, CutBy
  <2>13. Represents(r, [Q EXCEPT ![l] = Cut(Q[l], j)])
    BY <2>11, <2>12, CutList DEF w
  <2> QED
    BY <2>10, <2>13 DEF v, w
<1> QED
  BY <1>4, <1>5, <1>6

(* remove of what the list does not hold.                                  *)
LEMMA RemoveAbsent ==
  ASSUME NEW s, NEW Q, Represents(s, Q), NEW l \in Lists, NEW v \in Pointer,
         \A k \in DOMAIN Q[l] : Q[l][k] # v
  PROVE  remove(s, l, v) = s
<1>1. /\ Walks(s.next, s.head[l], Q[l]) /\ Q[l] \in Seq(Values)
      /\ s.head[l] = At(Q[l], 1) /\ s.tail[l] = At(Q[l], Len(Q[l]))
  <2>1. ListAt(s, Q[l], l)
    BY ListFacts
  <2> QED
    BY <2>1 DEF ListAt
<1>2. CASE v = Null \/ s.head[l] = Null
  BY <1>2 DEF remove
<1>3. CASE v # Null /\ s.head[l] # Null
  <2>1. v \in Values
    BY <1>3 DEF Pointer
  <2>2. v # s.head[l] /\ v # s.tail[l]
    BY <1>1, <1>3 DEF At
  <2>3. Before(s.next, s.head[l], v) = Null
    BY <1>1, <2>1, BeforeIs
  <2> QED
    BY <1>3, <2>2, <2>3 DEF remove
<1> QED
  BY <1>2, <1>3

(* The list without v, which it holds at most once.                        *)
Without(w, v) ==
  IF \A k \in DOMAIN w : w[k] # v THEN w ELSE Cut(w, CHOOSE k \in DOMAIN w : w[k] = v)

(* remove of any value takes it out, if it is there.                       *)
LEMMA RemoveLists ==
  ASSUME NEW s, NEW Q, Represents(s, Q), NEW l \in Lists, NEW v \in Pointer
  PROVE  Represents(remove(s, l, v), [Q EXCEPT ![l] = Without(Q[l], v)])
<1>1. CASE \A k \in DOMAIN Q[l] : Q[l][k] # v
  <2>1. Without(Q[l], v) = Q[l] /\ remove(s, l, v) = s
    BY <1>1, RemoveAbsent DEF Without
  <2>2. [Q EXCEPT ![l] = Q[l]] = Q
    BY DEF Represents
  <2> QED
    BY <2>1, <2>2
<1>2. CASE ~ \A k \in DOMAIN Q[l] : Q[l][k] # v
  <2> DEFINE j == CHOOSE k \in DOMAIN Q[l] : Q[l][k] = v
  <2>1. j \in DOMAIN Q[l] /\ Q[l][j] = v
    BY <1>2
  <2>2. Without(Q[l], v) = Cut(Q[l], j)
    BY <1>2 DEF Without
  <2> HIDE DEF j
  <2> QED
    BY <2>1, <2>2, RemoveHeld
<1> QED
  BY <1>1, <1>2

LEMMA ClearLists ==
  ASSUME NEW s, NEW Q, Represents(s, Q), NEW l \in Lists
  PROVE  Represents(clear_all(s, l), [Q EXCEPT ![l] = <<>>])
<1> DEFINE r == [head |-> [s.head EXCEPT ![l] = Null], tail |-> [s.tail EXCEPT ![l] = Null],
                 next |-> s.next]
<1>1. s \in DequeState /\ Null \in Pointer /\ s.next \in [Values -> Pointer]
  BY DEF Represents, DequeState, Pointer
<1>2. clear_all(s, l) = r
  <2>1. clear_all(s, l) = [s EXCEPT !.head[l] = Null, !.tail[l] = Null]
    BY DEF clear_all
  <2> QED
    BY <1>1, <2>1 DEF DequeState
<1>3. /\ r \in DequeState /\ r.head[l] = Null /\ r.tail[l] = Null /\ r.next = s.next
      /\ \A m \in Lists \ {l} : r.head[m] = s.head[m] /\ r.tail[m] = s.tail[m]
  <2>1. Written(r, s, l, Null, Null, s.next)
    BY <1>1, SetPointers
  <2> QED
    BY <2>1 DEF Written
<1> HIDE DEF r
<1>4. Walks(r.next, r.head[l], <<>>) /\ r.tail[l] = At(<<>>, Len(<<>>))
  BY <1>3 DEF Walks, At, Distinct
<1>5. FromList(<<>>, Q, l, Null)
  BY DEF FromList
<1>6. OthersKept(r, s, Q, l, Null)
  <2>1. \A m \in Lists : \A k \in DOMAIN Q[m] : Q[m][k] # Null
    <3> SUFFICES ASSUME NEW m \in Lists PROVE \A k \in DOMAIN Q[m] : Q[m][k] # Null
      OBVIOUS
    <3> QED
      <4>1. ListAt(s, Q[m], m)
        BY ListFacts
      <4> QED
        BY <4>1 DEF ListAt
  <2> QED
    BY <1>3, <2>1 DEF OthersKept
<1>7. Represents(r, [Q EXCEPT ![l] = <<>>])
  BY <1>3, <1>4, <1>5, <1>6, OneList, Zenon
<1> QED
  BY <1>2, <1>7
-----------------------------------------------------------------------------
IteratorState == [ptr : Pointer, next : Pointer, over : Lists]

(* A running loop stands on a value of its list, and has read its hook.    *)
StandsOn(j, w, k) == k \in DOMAIN w /\ j.ptr = w[k] /\ j.next = At(w, k + 1)

LoopAt(j, Q) == j.ptr # Null => \E k \in DOMAIN Q[j.over] : StandsOn(j, Q[j.over], k)

Holds(Q) == Represents(d, Q) /\ it \in IteratorState /\ LoopAt(it, Q)

(* The inductive invariant: the pointers hold some lists.                  *)
DequeInv == \E Q : Holds(Q)

(* The list from place k on.                                               *)
From(w, k) == [n \in 1 .. Len(w) - k + 1 |-> w[n + k - 1]]

LEMMA ListsAre ==
  ASSUME NEW s, NEW Q, Represents(s, Q)
  PROVE  ListsOf(s) = Q
<1>1. Q \in [Lists -> Seq(Values)] /\ \A l \in Lists : Walks(s.next, s.head[l], Q[l])
  BY DEF Represents
<1>2. \A l \in Lists : Chain(s.next, s.head[l]) = Q[l]
  BY <1>1, ChainIs
<1> QED
  BY <1>1, <1>2, Zenon DEF ListsOf

(* What a loop has yet to visit is the rest of its list.                   *)
Visits(s, j, w, k) ==
  /\ TodoOf(s, j) = From(w, k) /\ j.ptr # Null
  /\ From(w, k) # <<>> /\ Head(From(w, k)) = j.ptr

LEMMA TodoIs ==
  ASSUME NEW s, NEW Q, Represents(s, Q), NEW l \in Lists, NEW j, NEW k,
         StandsOn(j, Q[l], k)
  PROVE  Visits(s, j, Q[l], k)
<1> DEFINE w == Q[l]
           u == [n \in 1 .. Len(w) - k |-> w[n + k]]
<1>1. /\ w \in Seq(Values) /\ Distinct(w)
      /\ Len(w) \in Nat /\ DOMAIN w = 1 .. Len(w)
      /\ \A m \in DOMAIN w : w[m] \in Values /\ w[m] # Null
      /\ \A m \in DOMAIN w : s.next[w[m]] = At(w, m + 1)
  <2>1. ListAt(s, w, l)
    BY ListFacts
  <2> QED
    BY <2>1 DEF ListAt
<1>2. k \in DOMAIN w /\ j.ptr = w[k] /\ j.next = At(w, k + 1)
  BY DEF StandsOn
<1> HIDE DEF w
<1>3. k \in 1 .. Len(w) /\ Len(w) - k \in Nat
  BY <1>1, <1>2
<1>4. \A n \in 1 .. Len(w) - k : n + k \in DOMAIN w /\ u[n] = w[n + k]
  BY <1>1, <1>3
<1>5. u \in Seq(Values) /\ Len(u) = Len(w) - k /\ DOMAIN u = 1 .. Len(w) - k
  BY <1>1, <1>3, <1>4
<1> HIDE DEF u
<1>6. Distinct(u)
  <2> SUFFICES ASSUME NEW a \in DOMAIN u, NEW b \in DOMAIN u, u[a] = u[b] PROVE a = b
    BY DEF Distinct
  <2>1. a + k \in DOMAIN w /\ b + k \in DOMAIN w /\ w[a + k] = w[b + k]
    BY <1>4, <1>5
  <2>2. a + k = b + k
    BY <1>1, <2>1 DEF Distinct
  <2> QED
    BY <1>3, <1>5, <2>2
<1>7. \A n \in Nat : n # 0 => At(u, n) = At(w, n + k)
  <2> SUFFICES ASSUME NEW n \in Nat, n # 0 PROVE At(u, n) = At(w, n + k)
    OBVIOUS
  <2>1. n \in 1 .. Len(w) - k <=> n + k \in 1 .. Len(w)
    BY <1>1, <1>3
  <2> QED
    BY <1>1, <1>4, <1>5, <2>1 DEF At
<1>8. \A n \in DOMAIN u : s.next[u[n]] = At(u, n + 1)
  <2> SUFFICES ASSUME NEW n \in DOMAIN u PROVE s.next[u[n]] = At(u, n + 1)
    OBVIOUS
  <2>1. n + 1 \in Nat /\ n + 1 # 0 /\ n + 1 + k = n + k + 1
    BY <1>3, <1>5
  <2>2. At(u, n + 1) = At(w, n + k + 1)
    BY <1>7, <2>1
  <2>3. u[n] = w[n + k] /\ n + k \in DOMAIN w
    BY <1>4, <1>5
  <2> QED
    BY <1>1, <2>2, <2>3
<1>9. j.next = At(u, 1)
  <2>1. 1 + k = k + 1
    BY <1>3
  <2> QED
    BY <1>2, <1>7, <2>1
<1>10. Walks(s.next, j.next, u)
  BY <1>5, <1>6, <1>8, <1>9 DEF Walks
<1>11. Chain(s.next, j.next) = u
  BY <1>10, ChainIs
<1>12. j.ptr # Null /\ j.ptr \in Values
  BY <1>1, <1>2
<1>13. TodoOf(s, j) = <<w[k]>> \o u
  BY <1>2, <1>11, <1>12 DEF TodoOf
<1>14. From(w, k) \in Seq(Values) /\ Len(From(w, k)) = Len(w) - k + 1
       /\ DOMAIN From(w, k) = 1 .. Len(w) - k + 1
       /\ \A n \in 1 .. Len(w) - k + 1 : From(w, k)[n] = w[n + k - 1]
  <2>1. \A n \in 1 .. Len(w) - k + 1 : n + k - 1 \in DOMAIN w
    BY <1>1, <1>3
  <2> QED
    BY <1>1, <1>3, <2>1 DEF From
<1>15. <<w[k]>> \o u = From(w, k)
  <2> DEFINE a == <<w[k]>> \o u
  <2>1. w[k] \in Values
    BY <1>2, <1>12
  <2>2. a \in Seq(Values) /\ Len(a) = Len(w) - k + 1 /\ DOMAIN a = 1 .. Len(w) - k + 1
    BY <1>3, <1>5, <2>1
  <2>3. ASSUME NEW n \in 1 .. Len(w) - k + 1 PROVE a[n] = From(w, k)[n]
    <3>1. CASE n = 1
      <4>1. a[1] = w[k] /\ 1 + k - 1 = k
        BY <1>3, <1>5, <2>1
      <4> HIDE DEF a
      <4> QED
        BY <1>14, <3>1, <4>1
    <3>2. CASE n # 1
      <4>1. n - 1 \in 1 .. Len(w) - k /\ n - 1 + k = n + k - 1
        BY <1>3, <3>2
      <4>2. a[n] = u[n - 1]
        BY <1>3, <1>5, <2>1, <4>1
      <4> HIDE DEF a
      <4> QED
        BY <1>4, <1>14, <4>1, <4>2
    <3> QED
      BY <3>1, <3>2
  <2> HIDE DEF a
  <2>4. a = From(w, k)
    BY <1>14, <2>2, <2>3
  <2> QED
    BY <2>4 DEF a
<1>16. From(w, k) # <<>> /\ Head(From(w, k)) = w[k]
  <2>1. 1 \in 1 .. Len(w) - k + 1 /\ 1 + k - 1 = k /\ Len(w) - k + 1 # 0
    BY <1>3
  <2> QED
    BY <1>14, <2>1
<1> QED
  BY <1>2, <1>12, <1>13, <1>15, <1>16 DEF w, Visits

(* operator++ after a body that kept the visited value or took it out.     *)
MovedOn(h, j, r, P, w, k) ==
  /\ h \in IteratorState /\ h.over = j.over /\ LoopAt(h, P)
  /\ TodoOf(r, h) = Tail(From(w, k))

LEMMA Advances ==
  ASSUME NEW s, NEW Q, Represents(s, Q), NEW j \in IteratorState, NEW k,
         StandsOn(j, Q[j.over], k), NEW r, NEW P, Represents(r, P),
         P[j.over] = Q[j.over] \/ P[j.over] = Cut(Q[j.over], k)
  PROVE  MovedOn(advance(r, j), j, r, P, Q[j.over], k)
<1> DEFINE w == Q[j.over]
           u == P[j.over]
           h == advance(r, j)
           a == IF j.next = Null THEN j.next ELSE r.next[j.next]
<1>1. j.over \in Lists /\ j.next \in Pointer /\ j.ptr \in Pointer
  BY DEF IteratorState
<1>2. w \in Seq(Values) /\ Distinct(w) /\ Len(w) \in Nat /\ DOMAIN w = 1 .. Len(w)
      /\ \A m \in DOMAIN w : w[m] \in Values /\ w[m] # Null
  <2>1. ListAt(s, w, j.over)
    BY <1>1, ListFacts
  <2> QED
    BY <2>1 DEF ListAt
<1>3. k \in DOMAIN w /\ j.ptr = w[k] /\ j.next = At(w, k + 1)
  BY DEF StandsOn
<1>4. /\ r \in DequeState /\ u \in Seq(Values) /\ Len(u) \in Nat /\ DOMAIN u = 1 .. Len(u)
      /\ \A m \in DOMAIN u : u[m] \in Values /\ u[m] # Null
      /\ \A m \in DOMAIN u : r.next[u[m]] = At(u, m + 1)
  <2>1. ListAt(r, u, j.over)
    BY <1>1, ListFacts
  <2> QED
    BY <2>1 DEF ListAt
<1>5. h = [j EXCEPT !.ptr = j.next, !.next = a]
  BY DEF advance
<1>6. a \in Pointer
  <2>1. r.next \in [Values -> Pointer]
    BY <1>4 DEF DequeState
  <2> QED
    BY <1>1, <2>1 DEF Pointer
<1> HIDE DEF a
<1>7. h \in IteratorState /\ h.over = j.over /\ h.ptr = j.next /\ h.next = a
  BY <1>1, <1>5, <1>6 DEF IteratorState
<1> HIDE DEF h, w, u
<1>8. k \in 1 .. Len(w) /\ Len(w) - k \in Nat
  BY <1>2, <1>3
<1>9. /\ From(w, k) \in Seq(Values) /\ Len(From(w, k)) = Len(w) - k + 1
      /\ \A n \in 1 .. Len(w) - k + 1 : From(w, k)[n] = w[n + k - 1]
  <2>1. \A n \in 1 .. Len(w) - k + 1 : n + k - 1 \in DOMAIN w
    BY <1>2, <1>8
  <2> QED
    BY <1>2, <1>8, <2>1 DEF From
<1>10. CASE k = Len(w)
  <2>1. j.next = Null
    BY <1>2, <1>3, <1>10 DEF At
  <2>2. TodoOf(r, h) = <<>> /\ LoopAt(h, P)
    BY <1>7, <2>1 DEF TodoOf, LoopAt
  <2>3. Tail(From(w, k)) = <<>>
    <3>1. From(w, k) \in Seq(Values) /\ Len(From(w, k)) = 1
      BY <1>2, <1>9, <1>10
    <3> QED
      BY <3>1, SeqTailOne
  <2> QED
    BY <1>7, <2>2, <2>3 DEF w, h, MovedOn
<1>11. CASE k # Len(w)
  <2> DEFINE b == IF u = w THEN k + 1 ELSE k
  <2>1. k + 1 \in DOMAIN w /\ j.next = w[k + 1] /\ w[k + 1] # Null
    BY <1>2, <1>3, <1>8, <1>11 DEF At
  <2>2. a = r.next[w[k + 1]]
    BY <2>1 DEF a
  <2>3. u = w \/ (u # w /\ u = Cut(w, k))
    BY DEF u, w
  <2>4. /\ b \in DOMAIN u /\ u[b] = w[k + 1] /\ Len(u) - b + 1 = Len(w) - k
        /\ \A n \in 1 .. Len(w) - k : u[n + b - 1] = w[n + k]
    <3>1. CASE u = w
      <4>1. \A n \in 1 .. Len(w) - k : n + (k + 1) - 1 = n + k
        BY <1>8
      <4> QED
        BY <1>2, <1>8, <2>1, <3>1, <4>1
    <3>2. CASE u # w /\ u = Cut(w, k)
      <4>1. Len(u) = Len(w) - 1 /\ DOMAIN u = 1 .. Len(w) - 1
        BY <1>2, <1>3, <3>2, CutFacts
      <4>2. \A m \in 1 .. Len(w) - 1 : u[m] = IF m < k THEN w[m] ELSE w[m + 1]
        BY <3>2 DEF Cut
      <4>3. k \in 1 .. Len(w) - 1 /\ b = k
        BY <1>8, <1>11, <3>2
      <4>4. \A n \in 1 .. Len(w) - k : /\ n + k - 1 \in 1 .. Len(w) - 1 /\ ~(n + k - 1 < k)
                                       /\ n + k - 1 + 1 = n + k
        BY <1>8
      <4>5. \A n \in 1 .. Len(w) - k : u[n + k - 1] = w[n + k]
        BY <4>2, <4>4
      <4>6. u[k] = w[k + 1]
        BY <1>8, <4>2, <4>3
      <4> QED
        BY <1>8, <4>1, <4>3, <4>5, <4>6
    <3> QED
      BY <2>3, <3>1, <3>2
  <2> HIDE DEF b
  <2>5. h.next = At(u, b + 1) /\ h.ptr = u[b]
    BY <1>4, <1>7, <2>1, <2>2, <2>4
  <2>6. StandsOn(h, u, b)
    BY <2>4, <2>5 DEF StandsOn
  <2>7. LoopAt(h, P)
    BY <1>7, <2>4, <2>6 DEF LoopAt, u
  <2>8. TodoOf(r, h) = From(u, b)
    <3>1. StandsOn(h, P[j.over], b)
      BY <2>6 DEF u
    <3>2. Visits(r, h, P[j.over], b)
      BY <1>1, <3>1, TodoIs
    <3> QED
      BY <3>2 DEF u, Visits
  <2>9. From(u, b) = [n \in 1 .. Len(w) - k |-> w[n + k]]
    BY <2>4 DEF From
  <2>10. Tail(From(w, k)) = [n \in 1 .. Len(w) - k |-> w[n + k]]
    <3> DEFINE f == From(w, k)
    <3>1. f \in Seq(Values) /\ Len(f) = Len(w) - k + 1 /\ f # <<>>
      BY <1>8, <1>9
    <3>2. \A n \in 1 .. Len(w) - k : n + 1 \in 1 .. Len(w) - k + 1 /\ n + 1 + k - 1 = n + k
      BY <1>8
    <3>3. \A n \in 1 .. Len(w) - k : f[n + 1] = w[n + k]
      BY <1>9, <3>2
    <3> HIDE DEF f
    <3>4. /\ Tail(f) \in Seq(Values) /\ Len(Tail(f)) = Len(w) - k
          /\ \A n \in 1 .. Len(w) - k : Tail(f)[n] = f[n + 1]
      BY <1>8, <3>1, SeqTail
    <3> DEFINE g == [n \in 1 .. Len(w) - k |-> w[n + k]]
    <3>5. /\ g \in Seq(Values) /\ Len(g) = Len(w) - k
          /\ \A n \in 1 .. Len(w) - k : g[n] = w[n + k]
      <4>1. \A n \in 1 .. Len(w) - k : n + k \in DOMAIN w
        BY <1>2, <1>8
      <4> QED
        BY <1>2, <1>8, <4>1
    <3> HIDE DEF g
    <3>6. Tail(f) = g
      BY <3>3, <3>4, <3>5, SeqSame
    <3>7. Tail(f) = [n \in 1 .. Len(w) - k |-> w[n + k]]
      BY <3>6 DEF g
    <3> QED
      BY <3>7 DEF f
  <2> QED
    BY <1>7, <2>7, <2>8, <2>9, <2>10 DEF w, h, MovedOn
<1> QED
  BY <1>10, <1>11


LEMMA Seen ==
  ASSUME NEW Q, Holds(Q)
  PROVE  /\ ListsOf(d) = Q /\ Q \in [Lists -> Seq(Values)]
         /\ it.over \in Lists
         /\ NoLoop => TodoOf(d, it) = <<>>
<1>1. Represents(d, Q) /\ it.over \in Lists
  BY DEF Holds, IteratorState
<1>2. ListsOf(d) = Q
  BY <1>1, ListsAre
<1>3. Q \in [Lists -> Seq(Values)]
  BY <1>1 DEF Represents
<1> QED
  BY <1>1, <1>2, <1>3 DEF NoLoop, TodoOf

(* A call outside of a loop.                                               *)
LEMMA Called ==
  ASSUME NEW Q, Holds(Q), NoLoop, NEW P, Represents(d', P), it' = it
  PROVE  /\ DequeInv' /\ ListsOf(d)' = P
         /\ TodoOf(d, it) = <<>> /\ TodoOf(d, it)' = <<>> /\ it'.over = it.over
<1>1. Holds(P)'
  BY DEF Holds, LoopAt, NoLoop
<1>2. ListsOf(d)' = P
  BY ListsAre
<1> QED
  BY <1>1, <1>2 DEF DequeInv, TodoOf, NoLoop

(* The callers' contract is that of Deques.                                *)
LEMMA UnlinkedIs ==
  ASSUME NEW Q, Holds(Q), NEW v, Unlinked(v)
  PROVE  FreeOf(Q, v)
<1>1. Represents(d, Q)
  BY DEF Holds
<1>2. \A l \in Lists : Chain(d.next, d.head[l]) = Q[l]
  BY <1>1, ListsAre DEF ListsOf
<1> QED
  BY <1>2 DEF Unlinked, FreeOf

LEMMA Begins ==
  ASSUME NEW Q, Holds(Q), NEW l \in Lists, LoopBegin(l)
  PROVE  /\ DequeInv' /\ ListsOf(d) = Q /\ TodoOf(d, it) = <<>>
         /\ ListsOf(d)' = Q /\ TodoOf(d, it)' = Q[l] /\ it'.over = l /\ ret' = ret
<1> DEFINE h == d.head[l]
           n == IF h = Null THEN Null ELSE d.next[h]
           j == [ptr |-> h, next |-> n, over |-> l]
           w == Q[l]
<1>1. NoLoop /\ Represents(d, Q) /\ d' = d /\ it' = j /\ ret' = ret
  BY DEF LoopBegin, Holds, begin
<1>2. /\ d \in DequeState /\ w \in Seq(Values) /\ Len(w) \in Nat /\ DOMAIN w = 1 .. Len(w)
      /\ h = At(w, 1) /\ \A k \in DOMAIN w : w[k] \in Values /\ w[k] # Null
      /\ \A k \in DOMAIN w : d.next[w[k]] = At(w, k + 1)
  <2>1. ListAt(d, w, l)
    BY <1>1, ListFacts
  <2> QED
    BY <2>1 DEF ListAt
<1>3. h \in Pointer /\ n \in Pointer
  <2>1. h \in Pointer /\ d.next \in [Values -> Pointer]
    BY <1>2 DEF DequeState
  <2> QED
    BY <2>1 DEF Pointer
<1>4. ListsOf(d) = Q /\ TodoOf(d, it) = <<>>
  BY <1>1, Seen
<1> HIDE DEF h, n, w
<1>5. j \in IteratorState /\ j.ptr = h /\ j.next = n /\ j.over = l
  BY <1>3 DEF IteratorState
<1> HIDE DEF j
<1>6. LoopAt(j, Q) /\ TodoOf(d, j) = w
  <2>1. CASE w = <<>>
    <3>1. h = Null
      BY <1>2, <2>1 DEF At
    <3> QED
      BY <1>5, <2>1, <3>1 DEF LoopAt, TodoOf
  <2>2. CASE w # <<>>
    <3>1. 1 \in DOMAIN w /\ h = w[1] /\ h # Null
      BY <1>2, <2>2 DEF At
    <3>2. n = At(w, 1 + 1)
      BY <1>2, <3>1 DEF n
    <3>3. StandsOn(j, w, 1)
      BY <1>5, <3>1, <3>2 DEF StandsOn
    <3>4. LoopAt(j, Q)
      BY <1>5, <3>1, <3>3 DEF LoopAt, w
    <3>5. TodoOf(d, j) = From(w, 1)
      <4>1. Visits(d, j, w, 1)
        BY <1>1, <3>3, TodoIs DEF w
      <4> QED
        BY <4>1 DEF Visits
    <3>6. /\ From(w, 1) \in Seq(Values) /\ Len(From(w, 1)) = Len(w)
          /\ \A k \in 1 .. Len(w) : From(w, 1)[k] = w[k]
      <4>1. Len(w) - 1 + 1 = Len(w) /\ \A k \in 1 .. Len(w) : k + 1 - 1 = k
        BY <1>2
      <4> QED
        BY <1>2, <4>1 DEF From
    <3>7. From(w, 1) = w
      BY <1>2, <3>6, SeqSame
    <3> QED
      BY <3>4, <3>5, <3>7
  <2> QED
    BY <2>1, <2>2
<1>7. Holds(Q)'
  BY <1>1, <1>5, <1>6 DEF Holds
<1>8. ListsOf(d)' = Q /\ TodoOf(d, it)' = w /\ it'.over = l
  BY <1>1, <1>4, <1>5, <1>6
<1> QED
  BY <1>1, <1>4, <1>7, <1>8 DEF DequeInv, w

(* One turn of a loop that leaves the lists P.                             *)
Turned(Q, P) ==
  /\ DequeInv' /\ ListsOf(d) = Q /\ ListsOf(d)' = P
  /\ TodoOf(d, it) # <<>> /\ Head(TodoOf(d, it)) = it.ptr
  /\ TodoOf(d, it)' = Tail(TodoOf(d, it))
  /\ it'.over = it.over /\ ret' = it.ptr

LEMMA Turns ==
  ASSUME NEW Q, Holds(Q), LoopTurn
  PROVE  LET l == it.over
             v == it.ptr
             c == Without(Q[l], v)
         IN  /\ l \in Lists /\ Q \in [Lists -> Seq(Values)]
             /\ \/ Turned(Q, Q)
                \/ Turned(Q, [Q EXCEPT ![l] = c])
                \/ \E m \in Lists \ {l} :
                     Turned(Q, [Q EXCEPT ![l] = c, ![m] = Append(Q[m], v)])
<1> DEFINE l == it.over
           v == it.ptr
           w == Q[l]
           c == Without(w, v)
<1>1. /\ Represents(d, Q) /\ it \in IteratorState /\ v # Null /\ LoopAt(it, Q)
      /\ it' = advance(d', it) /\ ret' = v
  BY DEF LoopTurn, Holds, NoLoop
<1>2. l \in Lists /\ v \in Pointer /\ Q \in [Lists -> Seq(Values)]
  BY <1>1 DEF IteratorState, Represents
<1>3. PICK k \in DOMAIN w : StandsOn(it, w, k)
  BY <1>1 DEF LoopAt
<1>4. v = w[k] /\ v \in Values
  BY <1>1, <1>2, <1>3 DEF StandsOn, Pointer
<1>5. c = Cut(w, k)
  <2>1. Distinct(w)
    <3>1. ListAt(d, w, l)
      BY <1>1, <1>2, ListFacts
    <3> QED
      BY <3>1 DEF ListAt
  <2>2. (CHOOSE n \in DOMAIN w : w[n] = v) = k
    BY <1>3, <1>4, <2>1 DEF Distinct
  <2> HIDE DEF w, v
  <2> QED
    BY <1>3, <1>4, <2>2 DEF Without
<1>6. /\ ListsOf(d) = Q /\ TodoOf(d, it) = From(w, k)
      /\ From(w, k) # <<>> /\ Head(From(w, k)) = v
  <2>1. Visits(d, it, w, k)
    BY <1>1, <1>2, <1>3, TodoIs
  <2> QED
    BY <2>1, Seen DEF Visits
<1>7. ASSUME NEW P, Represents(d', P), P[l] = w \/ P[l] = Cut(w, k)
      PROVE  Turned(Q, P)
  <2>1. /\ it' \in IteratorState /\ it'.over = l /\ LoopAt(it', P)
        /\ TodoOf(d', it') = Tail(From(w, k))
    <3>1. StandsOn(it, Q[it.over], k)
      BY <1>3
    <3>2. P[it.over] = Q[it.over] \/ P[it.over] = Cut(Q[it.over], k)
      BY <1>7
    <3>3. MovedOn(advance(d', it), it, d', P, Q[it.over], k)
      BY <1>1, <1>7, <3>1, <3>2, Advances
    <3> QED
      BY <1>1, <3>3 DEF MovedOn
  <2>2. Holds(P)'
    BY <1>7, <2>1 DEF Holds
  <2>3. ListsOf(d)' = P
    BY <1>7, ListsAre
  <2>4. DequeInv'
    BY <2>2 DEF DequeInv
  <2> QED
    BY <1>1, <1>6, <2>1, <2>3, <2>4 DEF Turned
<1>8. CASE d' = d
  <2>1. Turned(Q, Q)
    BY <1>1, <1>7, <1>8
  <2> QED
    BY <1>2, <2>1
<1>9. CASE d' = remove(d, l, v)
  <2> DEFINE P == [Q EXCEPT ![l] = c]
  <2>1. Represents(d', P) /\ P[l] = Cut(w, k)
    BY <1>1, <1>2, <1>5, <1>9, RemoveLists
  <2>2. Turned(Q, P)
    BY <1>7, <2>1
  <2> QED
    BY <1>2, <2>2
<1>10. ASSUME NEW m \in Lists \ {l}, d' = push_tail(remove(d, l, v), m, v)
       PROVE  Turned(Q, [Q EXCEPT ![l] = c, ![m] = Append(Q[m], v)])
  <2> DEFINE R == [Q EXCEPT ![l] = c]
             P == [R EXCEPT ![m] = Append(R[m], v)]
  <2>1. Represents(remove(d, l, v), R) /\ R[l] = Cut(w, k) /\ R[m] = Q[m]
    BY <1>1, <1>2, <1>5, RemoveLists
  <2>2. FreeOf(R, v)
    <3> SUFFICES ASSUME NEW x \in Lists, NEW n \in DOMAIN R[x] PROVE R[x][n] # v
      BY DEF FreeOf
    <3>1. CASE x = l
      <4>1. w \in Seq(Values) /\ Distinct(w) /\ Len(w) \in Nat /\ DOMAIN w = 1 .. Len(w)
        <5>1. ListAt(d, w, l)
          BY <1>1, <1>2, ListFacts
        <5> QED
          BY <5>1 DEF ListAt
      <4> HIDE DEF w
      <4>2. DOMAIN Cut(w, k) = 1 .. Len(w) - 1
        BY <1>3, <4>1, CutFacts
      <4>3. n \in 1 .. Len(w) - 1 /\ R[x][n] = IF n < k THEN w[n] ELSE w[n + 1]
        BY <2>1, <3>1, <4>2 DEF Cut
      <4>4. n \in DOMAIN w /\ n + 1 \in DOMAIN w
        BY <4>1, <4>3
      <4>5. n < k => w[n] # w[k]
        BY <1>3, <4>1, <4>4 DEF Distinct
      <4>6. ~(n < k) => w[n + 1] # w[k]
        BY <1>3, <4>1, <4>4 DEF Distinct
      <4> QED
        BY <1>4, <4>3, <4>5, <4>6
    <3>2. CASE x # l
      <4>1. R[x] = Q[x]
        BY <1>2, <3>2
      <4> HIDE DEF R
      <4> QED
        BY <1>1, <1>2, <1>4, <3>2, <4>1 DEF Represents
    <3> QED
      BY <3>1, <3>2
  <2>3. Represents(d', P)
    <3> HIDE DEF R, v
    <3> QED
      BY <1>4, <1>10, <2>1, <2>2, PushTailLists
  <2>4. P[l] = Cut(w, k)
    BY <1>2, <2>1
  <2>5. P = [Q EXCEPT ![l] = c, ![m] = Append(Q[m], v)]
    BY <1>2, <2>1
  <2> HIDE DEF P
  <2>6. Turned(Q, P)
    BY <1>7, <2>3, <2>4
  <2> QED
    BY <2>5, <2>6
<1>11. \/ d' = d
       \/ d' = remove(d, l, v)
       \/ \E m \in Lists \ {l} : d' = push_tail(remove(d, l, v), m, v)
  BY DEF LoopTurn
<1> QED
  BY <1>2, <1>8, <1>9, <1>10, <1>11
-----------------------------------------------------------------------------
(* The refinement mapping: q is what the lists hold, todo what the running *)
(* loop has yet to visit.                                                  *)
Abstract == INSTANCE Deques WITH q <- ListsOf(d), todo <- TodoOf(d, it), over <- it.over

LEMMA SameWithout ==
  ASSUME NEW w, NEW v
  PROVE  Abstract!Without(w, v) = Without(w, v)
  BY DEF Abstract!Without, Without, Cut

LEMMA PushHeadStep ==
  ASSUME NEW Q, Holds(Q), NEW l \in Lists, NEW v \in Values, PushHead(l, v)
  PROVE  DequeInv' /\ Abstract!PushHead(l, v)
<1> DEFINE P == [Q EXCEPT ![l] = <<v>> \o Q[l]]
<1>1. /\ NoLoop /\ FreeOf(Q, v) /\ Represents(d, Q) /\ d' = push_head(d, l, v)
      /\ it' = it /\ ret' = ret
  BY UnlinkedIs DEF PushHead, Holds
<1>2. Represents(d', P)
  BY <1>1, PushHeadLists
<1> HIDE DEF P
<1>3. /\ DequeInv' /\ ListsOf(d)' = P
      /\ TodoOf(d, it) = <<>> /\ TodoOf(d, it)' = <<>> /\ it'.over = it.over
  BY <1>1, <1>2, Called
<1>4. ListsOf(d) = Q
  BY Seen
<1>5. Abstract!PushHead(l, v)
  BY <1>1, <1>3, <1>4 DEF P, Abstract!PushHead, Abstract!Idle, Abstract!Free, Abstract!In, FreeOf
<1> QED
  BY <1>3, <1>5

LEMMA PushTailStep ==
  ASSUME NEW Q, Holds(Q), NEW l \in Lists, NEW v \in Values, PushTail(l, v)
  PROVE  DequeInv' /\ Abstract!PushTail(l, v)
<1> DEFINE P == [Q EXCEPT ![l] = Append(Q[l], v)]
<1>1. /\ NoLoop /\ FreeOf(Q, v) /\ Represents(d, Q) /\ d' = push_tail(d, l, v)
      /\ it' = it /\ ret' = ret
  BY UnlinkedIs DEF PushTail, Holds
<1>2. Represents(d', P)
  BY <1>1, PushTailLists
<1> HIDE DEF P
<1>3. /\ DequeInv' /\ ListsOf(d)' = P
      /\ TodoOf(d, it) = <<>> /\ TodoOf(d, it)' = <<>> /\ it'.over = it.over
  BY <1>1, <1>2, Called
<1>4. ListsOf(d) = Q
  BY Seen
<1>5. Abstract!PushTail(l, v)
  BY <1>1, <1>3, <1>4 DEF P, Abstract!PushTail, Abstract!Idle, Abstract!Free, Abstract!In, FreeOf
<1> QED
  BY <1>3, <1>5

(* What the two ends of a list are, as sequences.                          *)
LEMMA CutEnds ==
  ASSUME NEW w \in Seq(Values), w # <<>>
  PROVE  /\ Cut(w, 1) = Tail(w) /\ Cut(w, Len(w)) = SubSeq(w, 1, Len(w) - 1)
         /\ At(w, 1) = Head(w) /\ At(w, Len(w)) = w[Len(w)]
<1>1. Len(w) \in Nat /\ Len(w) # 0 /\ DOMAIN w = 1 .. Len(w)
  OBVIOUS
<1>2. Cut(w, 1) = Tail(w)
  <2>1. /\ Tail(w) \in Seq(Values) /\ Len(Tail(w)) = Len(w) - 1 /\ Len(w) - 1 \in Nat
        /\ \A k \in 1 .. Len(w) - 1 : Tail(w)[k] = w[k + 1]
    BY SeqTail
  <2>2. \A k \in 1 .. Len(w) - 1 : k \in DOMAIN w /\ k + 1 \in DOMAIN w /\ ~(k < 1)
    BY <1>1
  <2>3. /\ Cut(w, 1) \in Seq(Values) /\ Len(Cut(w, 1)) = Len(w) - 1
        /\ \A k \in 1 .. Len(w) - 1 : Cut(w, 1)[k] = w[k + 1]
    BY <2>1, <2>2 DEF Cut
  <2> QED
    BY <2>1, <2>3, SeqSame
<1>3. Cut(w, Len(w)) = SubSeq(w, 1, Len(w) - 1)
  <2>1. SubSeq(w, 1, Len(w) - 1) = [k \in 1 .. Len(w) - 1 |-> w[k]]
    BY <1>1
  <2>2. \A k \in 1 .. Len(w) - 1 : (IF k < Len(w) THEN w[k] ELSE w[k + 1]) = w[k]
    BY <1>1
  <2> QED
    BY <2>1, <2>2, Zenon DEF Cut
<1>4. 1 \in DOMAIN w /\ Len(w) \in DOMAIN w /\ Head(w) = w[1]
  BY <1>1
<1> QED
  BY <1>2, <1>3, <1>4 DEF At

LEMMA PopHeadStep ==
  ASSUME NEW Q, Holds(Q), NEW l \in Lists, PopHead(l)
  PROVE  DequeInv' /\ Abstract!PopHead(l)
<1>1. NoLoop /\ Represents(d, Q) /\ d' = pop_head(d, l) /\ ret' = d.head[l] /\ it' = it
  BY DEF PopHead, Holds
<1>2. Q[l] \in Seq(Values) /\ d.head[l] = At(Q[l], 1)
  <2>1. ListAt(d, Q[l], l)
    BY <1>1, ListFacts
  <2> QED
    BY <2>1 DEF ListAt
<1>3. ListsOf(d) = Q
  BY Seen
<1>4. CASE Q[l] = <<>>
  <2>1. d.head[l] = Null
    BY <1>2, <1>4 DEF At
  <2>2. d' = d /\ ret' = Null
    BY <1>1, <2>1 DEF pop_head
  <2>3. /\ DequeInv' /\ ListsOf(d)' = Q
        /\ TodoOf(d, it) = <<>> /\ TodoOf(d, it)' = <<>> /\ it'.over = it.over
    BY <1>1, <2>2, Called
  <2>4. Abstract!PopHead(l)
    BY <1>1, <1>3, <1>4, <2>2, <2>3 DEF Abstract!PopHead, Abstract!Idle
  <2> QED
    BY <2>3, <2>4
<1>5. CASE Q[l] # <<>>
  <2> DEFINE P == [Q EXCEPT ![l] = Tail(Q[l])]
  <2>1. Represents(d', P)
    BY <1>1, <1>2, <1>5, PopHeadLists, CutEnds
  <2>2. ret' = Head(Q[l])
    BY <1>1, <1>2, <1>5, CutEnds
  <2> HIDE DEF P
  <2>3. /\ DequeInv' /\ ListsOf(d)' = P
        /\ TodoOf(d, it) = <<>> /\ TodoOf(d, it)' = <<>> /\ it'.over = it.over
    BY <1>1, <2>1, Called
  <2>4. Abstract!PopHead(l)
    BY <1>1, <1>3, <1>5, <2>2, <2>3 DEF P, Abstract!PopHead, Abstract!Idle
  <2> QED
    BY <2>3, <2>4
<1> QED
  BY <1>4, <1>5

LEMMA PopTailStep ==
  ASSUME NEW Q, Holds(Q), NEW l \in Lists, PopTail(l)
  PROVE  DequeInv' /\ Abstract!PopTail(l)
<1>1. NoLoop /\ Represents(d, Q) /\ d' = pop_tail(d, l) /\ ret' = d.tail[l] /\ it' = it
  BY DEF PopTail, Holds
<1>2. Q[l] \in Seq(Values) /\ d.tail[l] = At(Q[l], Len(Q[l]))
  <2>1. ListAt(d, Q[l], l)
    BY <1>1, ListFacts
  <2> QED
    BY <2>1 DEF ListAt
<1>3. ListsOf(d) = Q
  BY Seen
<1>4. CASE Q[l] = <<>>
  <2>1. d.tail[l] = Null
    BY <1>2, <1>4 DEF At
  <2>2. d' = d /\ ret' = Null
    BY <1>1, <2>1 DEF pop_tail
  <2>3. /\ DequeInv' /\ ListsOf(d)' = Q
        /\ TodoOf(d, it) = <<>> /\ TodoOf(d, it)' = <<>> /\ it'.over = it.over
    BY <1>1, <2>2, Called
  <2>4. Abstract!PopTail(l)
    BY <1>1, <1>3, <1>4, <2>2, <2>3 DEF Abstract!PopTail, Abstract!Idle
  <2> QED
    BY <2>3, <2>4
<1>5. CASE Q[l] # <<>>
  <2> DEFINE P == [Q EXCEPT ![l] = SubSeq(Q[l], 1, Len(Q[l]) - 1)]
  <2>1. Represents(d', P)
    BY <1>1, <1>2, <1>5, PopTailLists, CutEnds
  <2>2. ret' = Q[l][Len(Q[l])]
    BY <1>1, <1>2, <1>5, CutEnds
  <2> HIDE DEF P
  <2>3. /\ DequeInv' /\ ListsOf(d)' = P
        /\ TodoOf(d, it) = <<>> /\ TodoOf(d, it)' = <<>> /\ it'.over = it.over
    BY <1>1, <2>1, Called
  <2>4. Abstract!PopTail(l)
    BY <1>1, <1>3, <1>5, <2>2, <2>3 DEF P, Abstract!PopTail, Abstract!Idle
  <2> QED
    BY <2>3, <2>4
<1> QED
  BY <1>4, <1>5

LEMMA RemoveStep ==
  ASSUME NEW Q, Holds(Q), NEW l \in Lists, NEW v \in Pointer, Remove(l, v)
  PROVE  DequeInv' /\ Abstract!Remove(l, v)
<1> DEFINE P == [Q EXCEPT ![l] = Without(Q[l], v)]
<1>1. NoLoop /\ Represents(d, Q) /\ d' = remove(d, l, v) /\ it' = it /\ ret' = ret
  BY DEF Remove, Holds
<1>2. Represents(d', P)
  BY <1>1, RemoveLists
<1> HIDE DEF P
<1>3. /\ DequeInv' /\ ListsOf(d)' = P
      /\ TodoOf(d, it) = <<>> /\ TodoOf(d, it)' = <<>> /\ it'.over = it.over
  BY <1>1, <1>2, Called
<1>4. ListsOf(d) = Q
  BY Seen
<1>5. Abstract!Remove(l, v)
  BY <1>1, <1>3, <1>4, SameWithout DEF P, Abstract!Remove, Abstract!Idle
<1> QED
  BY <1>3, <1>5

LEMMA ClearStep ==
  ASSUME NEW Q, Holds(Q), NEW l \in Lists, ClearAll(l)
  PROVE  DequeInv' /\ Abstract!Clear(l)
<1> DEFINE P == [Q EXCEPT ![l] = <<>>]
<1>1. NoLoop /\ Represents(d, Q) /\ d' = clear_all(d, l) /\ it' = it /\ ret' = ret
  BY DEF ClearAll, Holds
<1>2. Represents(d', P)
  BY <1>1, ClearLists
<1> HIDE DEF P
<1>3. /\ DequeInv' /\ ListsOf(d)' = P
      /\ TodoOf(d, it) = <<>> /\ TodoOf(d, it)' = <<>> /\ it'.over = it.over
  BY <1>1, <1>2, Called
<1>4. ListsOf(d) = Q
  BY Seen
<1>5. Abstract!Clear(l)
  BY <1>1, <1>3, <1>4 DEF P, Abstract!Clear, Abstract!Idle
<1> QED
  BY <1>3, <1>5

LEMMA SizeStep ==
  ASSUME NEW Q, Holds(Q), NEW l \in Lists, Size(l)
  PROVE  DequeInv' /\ Abstract!Size(l)
<1>1. /\ NoLoop /\ Represents(d, Q) /\ d' = d /\ it' = it
      /\ ret' = <<size(d, l), empty(d, l)>>
  BY DEF Size, Holds
<1>2. /\ DequeInv' /\ ListsOf(d)' = Q
      /\ TodoOf(d, it) = <<>> /\ TodoOf(d, it)' = <<>> /\ it'.over = it.over
  BY <1>1, Called
<1>3. ListsOf(d) = Q
  BY Seen
<1>4. /\ Q[l] \in Seq(Values) /\ d.head[l] = At(Q[l], 1) /\ d.tail[l] = At(Q[l], Len(Q[l]))
      /\ \A k \in DOMAIN Q[l] : Q[l][k] # Null
  <2>1. ListAt(d, Q[l], l)
    BY <1>1, ListFacts
  <2> QED
    BY <2>1 DEF ListAt
<1>5. size(d, l) = Len(Q[l])
  BY <1>3 DEF size, ListsOf
<1>6. empty(d, l) = (Q[l] = <<>>)
  BY <1>4 DEF empty, At
<1>7. Abstract!Size(l)
  BY <1>1, <1>2, <1>3, <1>5, <1>6 DEF Abstract!Size, Abstract!Idle
<1> QED
  BY <1>2, <1>7

LEMMA LoopTurnStep ==
  ASSUME NEW Q, Holds(Q), LoopTurn
  PROVE  DequeInv' /\ Abstract!LoopTurn
<1> DEFINE l == it.over
           v == it.ptr
           c == Without(Q[l], v)
           A == \/ ListsOf(d)' = Q
                \/ ListsOf(d)' = [Q EXCEPT ![l] = c]
                \/ \E m \in Lists \ {l} :
                     ListsOf(d)' = [Q EXCEPT ![l] = c, ![m] = Append(Q[m], v)]
<1>1. /\ l \in Lists /\ Q \in [Lists -> Seq(Values)]
      /\ \/ Turned(Q, Q)
         \/ Turned(Q, [Q EXCEPT ![l] = c])
         \/ \E m \in Lists \ {l} :
              Turned(Q, [Q EXCEPT ![l] = c, ![m] = Append(Q[m], v)])
  BY Turns
<1>2. A
  BY <1>1 DEF Turned
<1>3. /\ DequeInv' /\ ListsOf(d) = Q
      /\ TodoOf(d, it) # <<>> /\ Head(TodoOf(d, it)) = v
      /\ TodoOf(d, it)' = Tail(TodoOf(d, it))
      /\ it'.over = l /\ ret' = v
  BY <1>1 DEF Turned
<1>4. c = Abstract!Without(Q[l], v)
  BY SameWithout
<1> HIDE DEF c
<1>5. Abstract!LoopTurn
  <2>1. \A m \in Lists \ {l} :
          [Q EXCEPT ![l] = c, ![m] = Append(Q[m], v)] = [Q EXCEPT ![l] = c, ![m] = Append(@, v)]
    BY <1>1
  <2> QED
    BY <1>1, <1>2, <1>3, <1>4, <2>1 DEF Abstract!LoopTurn
<1> QED
  BY <1>3, <1>5

LEMMA LoopBeginStep ==
  ASSUME NEW Q, Holds(Q), NEW l \in Lists, LoopBegin(l)
  PROVE  DequeInv' /\ Abstract!LoopBegin(l)
  BY Begins DEF Abstract!LoopBegin, Abstract!Idle

LEMMA DequeStart == Init => DequeInv /\ Abstract!Init
<1> SUFFICES ASSUME Init PROVE DequeInv /\ Abstract!Init
  OBVIOUS
<1> DEFINE Q == [l \in Lists |-> <<>>]
<1>1. /\ d.head \in [Lists -> {Null}] /\ d.tail \in [Lists -> {Null}]
      /\ d.next \in [Values -> Pointer] /\ ret = Null
      /\ it.ptr = Null /\ it \in IteratorState /\ d \in DequeState /\ it.over \in Lists
  BY DEF Init, IteratorState, DequeState, Pointer
<1>2. Q \in [Lists -> Seq(Values)] /\ \A l \in Lists : Q[l] = <<>>
  OBVIOUS
<1> HIDE DEF Q
<1>3. ASSUME NEW l \in Lists
      PROVE  Walks(d.next, d.head[l], Q[l]) /\ d.tail[l] = At(Q[l], Len(Q[l]))
  <2>1. Q[l] = <<>> /\ d.head[l] = Null /\ d.tail[l] = Null
    BY <1>1, <1>2
  <2>2. DOMAIN <<>> = {} /\ <<>> \in Seq(Values)
    OBVIOUS
  <2>3. Distinct(<<>>) /\ At(<<>>, 1) = Null /\ At(<<>>, Len(<<>>)) = Null
    BY <2>2, Zenon DEF Distinct, At
  <2>4. Walks(d.next, Null, <<>>)
    BY <2>2, <2>3, Zenon DEF Walks
  <2> QED
    BY <2>1, <2>3, <2>4
<1>4. Represents(d, Q)
  BY <1>1, <1>2, <1>3 DEF Represents
<1>5. Holds(Q)
  BY <1>1, <1>4 DEF Holds, LoopAt
<1>6. ListsOf(d) = Q /\ TodoOf(d, it) = <<>>
  BY <1>1, <1>4, ListsAre DEF TodoOf
<1>7. Abstract!Init
  BY <1>1, <1>6 DEF Q, Abstract!Init
<1> QED
  BY <1>5, <1>7 DEF DequeInv

(* Every step keeps the invariant and is a step, or a stutter, of Deques.  *)
LEMMA DequeStep ==
  DequeInv /\ [Next]_vars => DequeInv' /\ [Abstract!Next]_(Abstract!vars)
<1> SUFFICES ASSUME DequeInv, [Next]_vars
             PROVE  DequeInv' /\ [Abstract!Next]_(Abstract!vars)
  OBVIOUS
<1>1. PICK Q : Holds(Q)
  BY DEF DequeInv
<1>2. CASE Next
  <2>1. ASSUME NEW l \in Lists, NEW v \in Values, PushHead(l, v) \/ PushTail(l, v)
        PROVE  DequeInv' /\ Abstract!Next
    BY <1>1, <2>1, PushHeadStep, PushTailStep DEF Abstract!Next
  <2>2. ASSUME NEW l \in Lists, NEW v \in Pointer, Remove(l, v)
        PROVE  DequeInv' /\ Abstract!Next
    BY <1>1, <2>2, RemoveStep DEF Abstract!Next, Pointer
  <2>3. ASSUME NEW l \in Lists,
               PopHead(l) \/ PopTail(l) \/ ClearAll(l) \/ Size(l) \/ LoopBegin(l)
        PROVE  DequeInv' /\ Abstract!Next
    BY <1>1, <2>3, PopHeadStep, PopTailStep, ClearStep, SizeStep, LoopBeginStep
       DEF Abstract!Next
  <2>4. CASE LoopTurn
    BY <1>1, <2>4, LoopTurnStep DEF Abstract!Next
  <2> QED
    BY <1>2, <2>1, <2>2, <2>3, <2>4 DEF Next
<1>3. CASE UNCHANGED vars
  <2>1. d' = d /\ it' = it /\ ret' = ret
    BY <1>3 DEF vars
  <2>2. DequeInv'
    BY <1>1, <2>1 DEF DequeInv, Holds
  <2>3. UNCHANGED Abstract!vars
    BY <2>1 DEF Abstract!vars
  <2> QED
    BY <2>2, <2>3
<1> QED
  BY <1>2, <1>3

(* kstd::SingleDeque implements the lists of Deques, for any lists and     *)
(* values: every call, and every turn of a loop over a list whose body     *)
(* relinks the hook the loop stands on, does to the lists what Deques says *)
(* and returns what it says.  This is ImplementsDeques without its         *)
(* fairness.                                                               *)
THEOREM ListsImplementDeques ==
  Init /\ [][Next]_vars => Abstract!Init /\ [][Abstract!Next]_(Abstract!vars)
  BY DequeStart, DequeStep, PTL
-----------------------------------------------------------------------------
(* libc/string.cpp.                                                        *)
Writes == call.f \in {"memcpy", "memset", "memove"}

(* The part of the region that is done.                                    *)
Done(n) == IF Down(call) THEN i <= n /\ n < call.n ELSE 0 <= n /\ n < i

(* The byte whose turn it is.                                              *)
Here == IF Down(call) THEN i - 1 ELSE i

StrTypes ==
  /\ mem \in [Cells -> Bytes] /\ old \in [Cells -> Bytes]
  /\ call \in Calls /\ Allowed(call, old)
  /\ i \in 0 .. call.n
  /\ returned \in BOOLEAN /\ result \in Int

(* The inductive invariant.                                                *)
Progress ==
  /\ StrTypes
  /\ Writes => /\ \A n \in Int : Done(n) => mem[call.dest + n] = Wanted(n)
               /\ \A a \in Cells : (\A n \in Int : Done(n) => a # call.dest + n) => mem[a] = old[a]
  /\ ~Writes => mem = old
  /\ call.f = "memcmp" => \A n \in 0 .. i - 1 : old[call.dest + n] = old[call.src + n]
  /\ call.f = "strlen" => \A n \in 0 .. i - 1 : call.src # 0 /\ old[call.src + n] # 0
  /\ call.f = "memove" /\ call.src = call.dest => i = 0
  /\ returned => ~Looping

(* What was found, as the place where the loop stopped says it.            *)
Answer ==
  /\ ~returned => result = 0
  /\ returned /\ call.f = "memcmp" =>
       result = IF i < call.n THEN IF mem[call.dest + i] < mem[call.src + i] THEN -1 ELSE 1
                ELSE 0
  /\ returned /\ call.f = "strlen" => result = i

LEMMA InCells ==
  ASSUME NEW a \in Addresses, NEW n \in Sizes, NEW j \in 0 .. n
  PROVE  a + j \in Cells
  <1>1. a + j \in a .. a + n
    BY MemoryAssumption
  <1>2. a + j \in UNION {a .. a + m : m \in Sizes}
    BY <1>1
  <1>3. QED
    BY <1>2 DEF Cells

LEMMA CallTypes ==
  ASSUME NEW c \in Calls
  PROVE  /\ c.f \in {"memcpy", "memset", "memove", "memcmp", "strlen"}
         /\ c.dest \in Addresses /\ c.src \in Addresses /\ c.n \in Sizes /\ c.c \in Int
         /\ c.dest \in Nat /\ c.src \in Nat /\ c.n \in Nat
  <1>1. /\ c.f \in {"memcpy", "memset", "memove", "memcmp", "strlen"}
        /\ c.dest \in Addresses /\ c.src \in Addresses /\ c.n \in Sizes /\ c.c \in -1 .. BYTE
    BY Zenon DEF Calls
  <1>2. c.c \in Int
    BY <1>1
  <1>3. c.dest \in Nat /\ c.src \in Nat /\ c.n \in Nat
    BY <1>1, MemoryAssumption, Zenon
  <1>4. QED
    BY <1>1, <1>2, <1>3

LEMMA ProgressInit == StrInit => Progress
  <1> SUFFICES ASSUME StrInit PROVE Progress
    OBVIOUS
  <1>1. call \in Calls /\ Allowed(call, mem) /\ mem \in [Cells -> Bytes] /\ old = mem
    BY DEF StrInit
  <1>2. call.n \in Nat /\ call.src \in Nat /\ call.dest \in Nat
    BY <1>1, CallTypes
  <1>3. i = IF Down(call) THEN call.n ELSE 0
    BY DEF StrInit
  <1>4. i \in 0 .. call.n
    BY <1>2, <1>3
  <1>5. returned = FALSE /\ result \in Int
    BY DEF StrInit
  <1>6. StrTypes
    BY <1>1, <1>4, <1>5, Zenon DEF StrTypes
  <1>7. \A n \in Int : ~Done(n)
    BY <1>2, <1>3 DEF Done
  <1>8. call.f = "memove" /\ call.src = call.dest => i = 0
    BY <1>2, <1>3 DEF Down
  <1>9. call.f \in {"memcmp", "strlen"} => 0 .. i - 1 = {}
    BY <1>3 DEF Down
  <1>10. QED
    BY <1>1, <1>5, <1>6, <1>7, <1>8, <1>9 DEF Progress

(* One more byte at the end of the part that is done.                      *)
LEMMA WriteOne ==
  ASSUME Progress, Writes, Here \in 0 .. call.n - 1, ~(call.f = "memove" /\ call.src = call.dest),
         ~returned, Wanted(Here) \in Bytes,
         mem' = [mem EXCEPT ![call.dest + Here] = Wanted(Here)], i' = (IF Down(call) THEN i - 1 ELSE i + 1),
         UNCHANGED <<old, call, returned, result>>
  PROVE  Progress'
  <1>1. call \in Calls /\ i \in 0 .. call.n /\ mem \in [Cells -> Bytes]
    BY DEF Progress, StrTypes
  <1>2. call.n \in Nat /\ call.src \in Nat /\ call.dest \in Nat
    BY <1>1, CallTypes
  <1>3. call.dest + Here \in Cells
    BY <1>1, <1>2, CallTypes, InCells
  <1>4. StrTypes'
    <2>1. mem' \in [Cells -> Bytes]
      BY <1>1, Zenon
    <2>2. i' \in 0 .. call'.n
      <3>1. call'.n = call.n
        OBVIOUS
      <3>2. QED
        BY <3>1, <1>1, <1>2 DEF Here
    <2>3. returned' \in BOOLEAN /\ result' \in Int /\ old' \in [Cells -> Bytes]
          /\ call' \in Calls /\ Allowed(call', old')
      BY DEF Progress, StrTypes
    <2>4. QED
      BY <2>1, <2>2, <2>3 DEF StrTypes
  <1>5. \A n \in Int : Done(n)' <=> Done(n) \/ n = Here
    BY <1>1, <1>2 DEF Done, Down, Here
  <1>6. \A n \in Int : Wanted(n)' = Wanted(n)
    BY DEF Wanted
  <1>7. ASSUME NEW n \in Int, Done(n)' PROVE mem'[call.dest + n] = Wanted(n)
    <2>1. CASE n = Here
      BY <2>1, <1>1, <1>3
    <2>2. CASE n # Here
      <3>1. Done(n) /\ mem[call.dest + n] = Wanted(n)
        BY <1>5, <1>7, <2>2 DEF Progress
      <3>2. call.dest + n \in Cells
        BY <3>1, <1>1, <1>2, CallTypes, InCells DEF Done
      <3>3. call.dest + n # call.dest + Here
        BY <2>2, <1>1, <1>2
      <3>4. QED
        BY <3>1, <3>2, <3>3, <1>1
    <2>3. QED
      BY <2>1, <2>2
  <1>8. ASSUME NEW a \in Cells, \A n \in Int : Done(n)' => a # call.dest + n
        PROVE  mem'[a] = old[a]
    <2>1. a # call.dest + Here
      BY <1>5, <1>8, <1>1
    <2>2. mem[a] = old[a]
      BY <1>5, <1>8 DEF Progress
    <2>3. QED
      BY <2>1, <2>2, <1>1
  <1>9. QED
    BY <1>4, <1>6, <1>7, <1>8 DEF Progress, Writes

(* The byte to read next has not been overwritten.                         *)
LEMMA SourceKept ==
  ASSUME Progress, call.f \in {"memcpy", "memove"}, Here \in 0 .. call.n - 1,
         ~(call.f = "memove" /\ call.src = call.dest)
  PROVE  mem[call.src + Here] = old[call.src + Here] /\ old[call.src + Here] \in Bytes
  <1>1. call \in Calls /\ i \in 0 .. call.n /\ old \in [Cells -> Bytes] /\ Allowed(call, old)
    BY DEF Progress, StrTypes
  <1>2. call.n \in Nat /\ call.src \in Nat /\ call.dest \in Nat
    BY <1>1, CallTypes
  <1>3. call.src + Here \in Cells
    BY <1>1, <1>2, CallTypes, InCells
  <1>4. call.f = "memcpy" => call.dest + call.n <= call.src \/ call.src + call.n <= call.dest
    BY <1>1 DEF Allowed
  <1>5. ASSUME NEW n \in Int, Done(n) PROVE call.src + Here # call.dest + n
    BY <1>5, <1>1, <1>2, <1>4 DEF Done, Down, Here
  <1>6. QED
    BY <1>1, <1>3, <1>5 DEF Progress, Writes

LEMMA ProgressTurn ==
  ASSUME Progress, Turn
  PROVE  Progress'
  <1>1. call \in Calls /\ i \in 0 .. call.n /\ Allowed(call, old)
    BY DEF Progress, StrTypes
  <1>2. call.n \in Nat /\ call.src \in Nat /\ call.dest \in Nat /\ call.c \in Int
    BY <1>1, CallTypes
  <1>3. ~returned /\ Looping /\ UNCHANGED <<old, call, returned, result>>
    BY DEF Turn
  <1>4. CASE memcpy
    <2>1. call.f = "memcpy" /\ ~Down(call) /\ i < call.n
      BY <1>3, <1>4 DEF memcpy, Looping, Down
    <2>2. Here = i /\ Here \in 0 .. call.n - 1 /\ Writes
      BY <2>1, <1>1, <1>2 DEF Here, Writes
    <2>3. mem[call.src + Here] = Wanted(Here) /\ Wanted(Here) \in Bytes
      BY <2>1, <2>2, SourceKept DEF Wanted
    <2>4. mem' = [mem EXCEPT ![call.dest + Here] = Wanted(Here)] /\ i' = i + 1
      BY <2>2, <2>3, <1>4, Zenon DEF memcpy, Store
    <2>5. QED
      BY <2>1, <2>2, <2>3, <2>4, <1>3, WriteOne
  <1>5. CASE memset
    <2>1. call.f = "memset" /\ ~Down(call) /\ i < call.n
      BY <1>3, <1>5 DEF memset, Looping, Down
    <2>2. Here = i /\ Here \in 0 .. call.n - 1 /\ Writes
      BY <2>1, <1>1, <1>2 DEF Here, Writes
    <2>3. Wanted(Here) = call.c % BYTE /\ Wanted(Here) \in Bytes
      BY <2>1, <1>2, MemoryAssumption DEF Wanted, Bytes
    <2>4. mem' = [mem EXCEPT ![call.dest + Here] = Wanted(Here)] /\ i' = i + 1
      BY <2>2, <2>3, <1>5 DEF memset, Store
    <2>5. QED
      BY <2>1, <2>2, <2>3, <2>4, <1>3, WriteOne
  <1>6. CASE memove
    <2>1. /\ call.f = "memove" /\ call.src # call.dest
          /\ IF Down(call) THEN i > 0 ELSE i < call.n
      BY <1>2, <1>3, <1>6 DEF memove, Looping, Down
    <2>2. Here \in 0 .. call.n - 1 /\ Writes
      BY <2>1, <1>1, <1>2 DEF Here, Writes
    <2>3. mem[call.src + Here] = Wanted(Here) /\ Wanted(Here) \in Bytes
      BY <2>1, <2>2, SourceKept DEF Wanted
    <2>4. /\ mem' = [mem EXCEPT ![call.dest + Here] = Wanted(Here)]
          /\ i' = (IF Down(call) THEN i - 1 ELSE i + 1)
      <3>1. Down(call) => call.src + i - 1 = call.src + Here
        BY <1>1, <1>2 DEF Here
      <3>2. QED
        BY <3>1, <2>3, <1>6 DEF memove, Store, Here
    <2>5. QED
      BY <2>1, <2>2, <2>3, <2>4, <1>3, WriteOne
  <1>7. CASE Scan
    <2>1. call.f \in {"memcmp", "strlen"} /\ i' = i + 1 /\ mem' = mem /\ ~Writes /\ mem = old
      BY <1>7 DEF Scan, Writes, Progress
    <2>2. /\ call.f = "memcmp" => i < call.n /\ old[call.dest + i] = old[call.src + i]
          /\ call.f = "strlen" => call.src # 0 /\ old[call.src + i] # 0
      BY <2>1, <1>3, Zenon DEF Looping
    <2>3. call.f = "strlen" => i < call.n
      <3>1. SUFFICES ASSUME call.f = "strlen" PROVE i < call.n
        OBVIOUS
      <3>2. PICK n \in 0 .. call.n : old[call.src + n] = 0
        BY <3>1, <1>1 DEF Allowed
      <3>3. n \notin 0 .. i - 1 /\ n # i
        BY <3>1, <3>2, <2>2 DEF Progress
      <3>4. QED
        BY <3>2, <3>3, <1>1, <1>2
    <2>4. call'.n = call.n
      BY <1>3
    <2>5. i' \in 0 .. call'.n
      BY <2>1, <2>2, <2>3, <2>4, <1>1, <1>2
    <2>6. StrTypes'
      BY <2>1, <2>5, <1>3 DEF Progress, StrTypes
    <2>7. \A n \in 0 .. i' - 1 : n \in 0 .. i - 1 \/ n = i
      BY <2>1, <1>1, <1>2
    <2>8. call.f = "memcmp" => \A n \in 0 .. i' - 1 : old[call.dest + n] = old[call.src + n]
      BY <2>2, <2>7 DEF Progress
    <2>9. call.f = "strlen" => \A n \in 0 .. i' - 1 : call.src # 0 /\ old[call.src + n] # 0
      BY <2>2, <2>7 DEF Progress
    <2>10. QED
      BY <2>1, <2>6, <2>8, <2>9, <1>3 DEF Progress, Writes
  <1>8. QED
    BY <1>4, <1>5, <1>6, <1>7 DEF Turn

LEMMA ProgressNext == Progress /\ [StrNext]_strvars => Progress'
  <1> SUFFICES ASSUME Progress, [StrNext]_strvars PROVE Progress'
    OBVIOUS
  <1>1. CASE Turn
    BY <1>1, ProgressTurn
  <1>2. CASE Return
    <2>1. UNCHANGED <<mem, old, call, i>> /\ returned' = TRUE /\ ~Looping
      BY <1>2 DEF Return
    <2>2. i \in Int /\ result \in Int
      BY DEF Progress, StrTypes
    <2>3. result' \in Int
      BY <1>2, <2>2 DEF Return
    <2>4. StrTypes'
      BY <2>1, <2>3, Zenon DEF Progress, StrTypes
    <2>5. Looping' <=> Looping
      BY <2>1 DEF Looping
    <2>6. QED
      BY <2>1, <2>4, <2>5 DEF Progress, Writes, Done, Wanted, Down
  <1>3. CASE UNCHANGED strvars
    BY <1>3, Zenon DEF strvars, Progress, StrTypes, Writes, Done, Wanted, Down, Looping
  <1>4. QED
    BY <1>1, <1>2, <1>3 DEF StrNext

(* At every state of every call, what has been done is right.              *)
THEOREM Progresses == StrSpec => []Progress
  BY ProgressInit, ProgressNext, PTL DEF StrSpec

(* For regions of every size and overlap, memcpy, memset and memove leave  *)
(* in their destination what the source held at the call, and write        *)
(* nowhere else.                                                           *)
THEOREM Moved == StrSpec => []MovesWhole
  <1>1. Progress => MovesWhole
    <2> SUFFICES ASSUME Progress, returned PROVE MovesWhole
      BY DEF MovesWhole
    <2>1. call \in Calls /\ i \in 0 .. call.n /\ ~Looping
      BY DEF Progress, StrTypes
    <2>2. call.n \in Nat /\ call.src \in Nat /\ call.dest \in Nat
      BY <2>1, CallTypes
    <2>3. CASE ~Writes
      BY <2>3 DEF Progress, Writes, Region, MovesWhole
    <2>4. CASE call.f = "memove" /\ call.src = call.dest
      <3>1. \A n \in Int : ~Done(n)
        BY <2>1, <2>2, <2>4 DEF Progress, Done, Down
      <3>2. \A a \in Cells : mem[a] = old[a]
        BY <2>4, <3>1 DEF Progress, Writes
      <3>3. \A n \in 0 .. call.n - 1 : call.dest + n \in Cells
        BY <2>1, <2>2, CallTypes, InCells
      <3>4. QED
        BY <2>4, <3>2, <3>3 DEF MovesWhole, Region, Wanted
    <2>5. CASE Writes /\ ~(call.f = "memove" /\ call.src = call.dest)
      <3>1. \A n \in Int : Done(n) <=> n \in 0 .. call.n - 1
        <4>1. CASE call.f = "memove"
          BY <4>1, <2>1, <2>2, <2>5 DEF Looping, Done, Down
        <4>2. CASE call.f \in {"memcpy", "memset"}
          <5>1. ~Down(call)
            BY <4>2 DEF Down
          <5>2. ~(i < call.n)
            BY <4>2, <2>1, Zenon DEF Looping
          <5>3. QED
            BY <5>1, <5>2, <2>1, <2>2 DEF Done
        <4>3. QED
          BY <4>1, <4>2, <2>5 DEF Writes
      <3>2. Region = 0 .. call.n - 1
        BY <2>5 DEF Region, Writes
      <3>3. QED
        BY <2>5, <3>1, <3>2 DEF Progress, MovesWhole
    <2>6. QED
      BY <2>3, <2>4, <2>5 DEF Writes
  <1>2. QED
    BY <1>1, Progresses, PTL

(* For regions and strings of every content and size, memcmp compares the  *)
(* first bytes that differ and strlen finds the first 0.                   *)
THEOREM Scanned == StrSpec => []ScansRight
  <1>1. StrInit => Answer
    BY DEF StrInit, Answer
  <1>2. Answer /\ [StrNext]_strvars => Answer'
    <2> SUFFICES ASSUME Answer, [StrNext]_strvars PROVE Answer'
      OBVIOUS
    <2>1. CASE Turn
      BY <2>1 DEF Turn, Answer
    <2>2. CASE Return
      BY <2>2 DEF Return, Answer
    <2>3. CASE UNCHANGED strvars
      BY <2>3 DEF strvars, Answer
    <2>4. QED
      BY <2>1, <2>2, <2>3 DEF StrNext
  <1>3. Progress /\ Answer => ScansRight
    <2> SUFFICES ASSUME Progress, Answer, returned PROVE ScansRight
      BY DEF ScansRight
    <2>1. call \in Calls /\ i \in 0 .. call.n /\ ~Looping /\ mem \in [Cells -> Bytes]
      BY DEF Progress, StrTypes
    <2>2. /\ call.n \in Nat /\ call.src \in Nat /\ call.dest \in Nat
          /\ call.dest + i \in Cells /\ call.src + i \in Cells
      BY <2>1, CallTypes, InCells
    <2>3. CASE call.f = "memcmp"
      <3>1. mem = old /\ \A m \in 0 .. i - 1 : old[call.dest + m] = old[call.src + m]
        BY <2>3 DEF Progress, Writes
      <3>2. CASE i = call.n
        BY <2>2, <2>3, <3>1, <3>2 DEF Answer, ScansRight
      <3>3. CASE i # call.n
        <4>1. i \in 0 .. call.n - 1 /\ i < call.n
          BY <2>1, <2>2, <3>3
        <4>2. old[call.dest + i] # old[call.src + i]
          BY <2>1, <2>3, <3>1, <4>1 DEF Looping
        <4>3. old[call.dest + i] \in Int /\ old[call.src + i] \in Int
          BY <2>1, <2>2, <3>1, MemoryAssumption DEF Bytes
        <4>4. \/ result = -1 /\ old[call.dest + i] < old[call.src + i]
              \/ result = 1 /\ old[call.dest + i] > old[call.src + i]
          BY <2>3, <3>1, <4>1, <4>2, <4>3 DEF Answer
        <4>5. QED
          BY <2>3, <3>1, <4>1, <4>4 DEF ScansRight
      <3>4. QED
        BY <3>2, <3>3
    <2>4. CASE call.f = "strlen"
      <3>1. mem = old /\ result = i /\ (call.src = 0 \/ old[call.src + i] = 0)
        BY <2>1, <2>4 DEF Progress, Writes, Answer, Looping
      <3>2. call.src = 0 => i = 0
        <4>1. \A m \in 0 .. i - 1 : call.src # 0
          BY <2>4 DEF Progress
        <4>2. QED
          BY <4>1, <2>1, <2>2
      <3>3. \A m \in 0 .. i - 1 : old[call.src + m] # 0
        BY <2>4 DEF Progress
      <3>4. QED
        BY <2>1, <2>4, <3>1, <3>2, <3>3 DEF ScansRight
    <2>5. QED
      BY <2>3, <2>4 DEF ScansRight
  <1>4. QED
    BY <1>1, <1>2, <1>3, Progresses, PTL DEF StrSpec
=============================================================================

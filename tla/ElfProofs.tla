----------------------------- MODULE ElfProofs -----------------------------
(***************************************************************************)
(* Proofs about ElfLoader, for every page size, width of an address and    *)
(* limit of the header's fields, and for all files.                        *)
(***************************************************************************)
EXTENDS ElfLoader, TLAPS

(* A sequence is a function on the numbers up to its length.               *)
LEMMA SeqLength ==
  ASSUME NEW S, NEW s \in Seq(S)
  PROVE  Len(s) \in Nat /\ s \in [1 .. Len(s) -> S] /\ DOMAIN s = 1 .. Len(s)
  OBVIOUS

(* One sequence behind another.                                            *)
LEMMA SeqJoin ==
  ASSUME NEW S, NEW s \in Seq(S), NEW t \in Seq(S)
  PROVE  /\ s \o t \in Seq(S)
         /\ Len(s \o t) = Len(s) + Len(t)
         /\ \A j \in 1 .. Len(s) + Len(t) :
              (s \o t)[j] = IF j <= Len(s) THEN s[j] ELSE t[j - Len(s)]
  OBVIOUS

(* The pages of a segment, by number.                                      *)
First(p) == p.p_vaddr \div PAGE_SIZE

Size(p) == pages(p)

Last(p) == First(p) + Size(p) - 1

UserPages == USER_ADDR_END \div PAGE_SIZE

(* What holds of every file.                                               *)
FileOK == ehdr \in Headers /\ phdrs \in [1 .. PHNUM_LIMIT - 1 -> Phdrs]

(* The LOAD headers before the n-th.                                       *)
LoadsUpTo(n) == {k \in 1 .. ehdr.e_phnum : k < n /\ phdrs[k].p_type = "Load"}

(* How far the first loop has come.                                        *)
Checked == IF pc = "check" THEN i ELSE ehdr.e_phnum + 1

PastHeader == pc \notin {"header", "Invalid"}

HeaderOK ==
  /\ FileOK /\ i \in Nat
  /\ PastHeader => /\ ehdr.e_phnum < PHNUM_LIMIT /\ i >= 1
                   /\ ehdr.e_phentsize >= PHDR_SIZE
                   /\ ehdr.e_phoff + ehdr.e_phnum * ehdr.e_phentsize <= ehdr.size

BoundsOK == PastHeader => \A k \in LoadsUpTo(Checked) : segment_bounds(phdrs[k])

ReadIInv == HeaderOK /\ BoundsOK

(* The segments that were checked ascend, and the last one ends where      *)
(* prev_page_end says, when the file is linked low.                        *)
OrderOK ==
  LinkedLow =>
  /\ prev_page_end \in Nat
  /\ pc = "check" /\ ~base_found => LoadsUpTo(i) = {}
  /\ pc = "check" => \A k \in LoadsUpTo(i) : (Last(phdrs[k]) + 1) * PAGE_SIZE <= prev_page_end
  /\ PastHeader =>
       \A k, n \in LoadsUpTo(Checked) : k < n => Last(phdrs[k]) < First(phdrs[n])

(* The segments that were loaded are in memory, page by page, when the     *)
(* file is linked low.                                                     *)
Contents == [0 .. PAGE_SIZE - 1 -> Nat]

Holds(p) ==
  \A v \in First(p) .. Last(p) :
    /\ v \in DOMAIN space
    /\ space[v].flags = flags_of(p)
    /\ space[v].pa \in 1 .. Len(phys)
    /\ phys[space[v].pa] = page_bytes(p, v - First(p))

SpaceOK ==
  /\ phys \in Seq(Contents)
  /\ MapsUserPagesOnly
  /\ LinkedLow /\ pc = "load" => \A k \in LoadsUpTo(i) : Holds(phdrs[k])
  /\ LinkedLow /\ pc = "Loaded" => \A k \in LoadsUpTo(ehdr.e_phnum + 1) : Holds(phdrs[k])

ElfIInv == ReadIInv /\ OrderOK /\ SpaceOK

-----------------------------------------------------------------------------
(* Products and quotients.                                                 *)

LEMMA MulLe ==
  ASSUME NEW a \in Int, NEW b \in Int, NEW n \in Nat, a <= b
  PROVE  a * n <= b * n
  <1>1. (b - a) * n >= 0
    OBVIOUS
  <1>2. (b - a) * n = b * n - a * n
    OBVIOUS
  <1>3. a * n \in Int /\ b * n \in Int
    OBVIOUS
  <1> QED
    BY <1>1, <1>2, <1>3

LEMMA MulCancel ==
  ASSUME NEW a \in Int, NEW b \in Int, NEW n \in Nat \ {0}, a * n < b * n
  PROVE  a < b
  BY MulLe

LEMMA DivMod ==
  ASSUME NEW a \in Nat, NEW n \in Nat \ {0}
  PROVE  /\ a \div n \in Nat /\ a % n \in 0 .. n - 1
         /\ a = (a \div n) * n + (a % n)
  OBVIOUS

LEMMA DivIs ==
  ASSUME NEW q \in Nat, NEW n \in Nat \ {0}, NEW r \in 0 .. n - 1
  PROVE  (q * n + r) \div n = q /\ (q * n + r) % n = r
  <1> DEFINE a == q * n + r
             d == a \div n
  <1>1. q * n \in Nat /\ a \in Nat
    OBVIOUS
  <1>2. d \in Nat /\ a % n \in 0 .. n - 1 /\ a = d * n + (a % n)
    BY <1>1, DivMod, Zenon
  <1> HIDE DEF d
  <1>3. d * n \in Nat
    BY <1>2
  <1>4. ~ d < q
    <2> SUFFICES ASSUME d + 1 <= q PROVE FALSE
      BY <1>2
    <2>1. (d + 1) * n <= q * n
      BY <1>2, MulLe
    <2>2. (d + 1) * n = d * n + n
      BY <1>2
    <2> QED
      BY <1>1, <1>2, <1>3, <2>1, <2>2
  <1>5. ~ q < d
    <2> SUFFICES ASSUME q + 1 <= d PROVE FALSE
      BY <1>2
    <2>1. (q + 1) * n <= d * n
      BY <1>2, MulLe
    <2>2. (q + 1) * n = q * n + n
      OBVIOUS
    <2> QED
      BY <1>1, <1>2, <1>3, <2>1, <2>2
  <1>6. d = q
    BY <1>2, <1>4, <1>5
  <1> QED
    BY <1>1, <1>2, <1>6 DEF d

LEMMA ModSmall ==
  ASSUME NEW n \in Nat \ {0}, NEW r \in 0 .. n - 1
  PROVE  r % n = r
  BY DivIs, 0 * n + r = r

(* The s pages of m bytes at a, which is r bytes into page f.              *)
Spans(n, a, m, u, f, r, s) ==
  /\ f \in Nat /\ s \in Nat /\ r \in 0 .. n - 1 /\ f >= 1 /\ f + s <= u
  /\ a = f * n + r /\ f * n \in Nat
  /\ (a + m + n - 1) \div n = f + s
  /\ (f * n) \div n = f
  /\ \A k \in 0 .. m - 1 :
       /\ (a + k) \div n \in f .. f + s - 1 /\ (a + k) % n \in 0 .. n - 1
       /\ ((a + k) \div n - f) * n + ((a + k) % n) - r = k

LEMMA Span ==
  ASSUME NEW n \in Nat \ {0}, NEW a \in Nat, NEW m \in Nat, NEW u \in Nat,
         n <= a, a + m <= u * n,
         NEW f, f = a \div n, NEW r, r = a % n,
         NEW s, s = (m + r + n - 1) \div n
  PROVE  Spans(n, a, m, u, f, r, s)
  <1> DEFINE t == (m + r + n - 1) % n
  <1>1. f \in Nat /\ r \in 0 .. n - 1 /\ a = f * n + r
    BY DivMod, Zenon
  <1>2. m + r + n - 1 \in Nat
    BY <1>1
  <1>3. s \in Nat /\ t \in 0 .. n - 1 /\ m + r + n - 1 = s * n + t
    BY <1>2, DivMod, Zenon
  <1> HIDE DEF t
  <1>4. (f + s) * n = f * n + s * n /\ f * n \in Nat /\ s * n \in Nat /\ u * n \in Nat
    BY <1>1, <1>3
  <1>5. a + m + n - 1 = (f + s) * n + t /\ f + s \in Nat
    BY <1>1, <1>3, <1>4
  <1>6. (a + m + n - 1) \div n = f + s
    <2>1. \A q \in Nat : (q * n + t) \div n = q
      BY <1>3, DivIs, Zenon
    <2>2. ((f + s) * n + t) \div n = f + s
      BY <1>5, <2>1, Zenon
    <2> QED
      BY <1>5, <2>2
  <1>7. (f * n) \div n = f
    BY <1>1, DivIs, 0 \in 0 .. n - 1, f * n + 0 = f * n
  <1>8. f >= 1
    BY <1>1
  <1>9. f + s <= u
    <2>1. (u + 1) * n = u * n + n
      OBVIOUS
    <2>2. (f + s) * n < (u + 1) * n
      BY <2>1, <1>3, <1>4, <1>5
    <2>3. f + s < u + 1
      BY <2>2, <1>1, <1>3, MulCancel
    <2> QED
      BY <2>3, <1>1, <1>3
  <1>10. ASSUME NEW k \in 0 .. m - 1
         PROVE  /\ (a + k) \div n \in f .. f + s - 1 /\ (a + k) % n \in 0 .. n - 1
                /\ ((a + k) \div n - f) * n + ((a + k) % n) - r = k
    <2> DEFINE v == (a + k) \div n
               b == (a + k) % n
    <2>0. a + k \in Nat
      OBVIOUS
    <2>1. v \in Nat /\ b \in 0 .. n - 1 /\ a + k = v * n + b
      BY <2>0, DivMod, Zenon
    <2> HIDE DEF v, b
    <2>2. v * n \in Nat /\ (v + 1) * n = v * n + n /\ (v - f) * n = v * n - f * n
      BY <2>1, <1>1
    <2>3. f * n < (v + 1) * n
      BY <2>1, <2>2, <1>1, <1>4
    <2>4. f < v + 1
      BY <2>3, <2>1, <1>1, MulCancel
    <2>5. v * n < (f + s) * n
      BY <2>1, <2>2, <1>3, <1>4, <1>5
    <2>6. v < f + s
      BY <2>5, <2>1, <1>1, <1>3, MulCancel
    <2>7. (v - f) * n + b - r = k
      BY <2>1, <2>2, <1>1, <1>4
    <2>8. v \in f .. f + s - 1
      BY <2>1, <2>4, <2>6, <1>1, <1>3
    <2> QED
      BY <2>1, <2>7, <2>8 DEF v, b
  <1> QED
    BY <1>1, <1>3, <1>4, <1>6, <1>7, <1>8, <1>9, <1>10 DEF Spans

LEMMA AlignDown ==
  ASSUME NEW a \in Nat
  PROVE  align_down(a) = (a \div PAGE_SIZE) * PAGE_SIZE
  <1>1. PAGE_SIZE \in Nat \ {0}
    BY PagesFit
  <1>2. a = (a \div PAGE_SIZE) * PAGE_SIZE + (a % PAGE_SIZE)
        /\ a \div PAGE_SIZE \in Nat /\ a % PAGE_SIZE \in 0 .. PAGE_SIZE - 1
    BY <1>1, DivMod, Zenon
  <1>3. (a \div PAGE_SIZE) * PAGE_SIZE \in Nat
    BY <1>1, <1>2
  <1> QED
    BY <1>2, <1>3 DEF align_down

LEMMA AddSmall ==
  ASSUME NEW a \in Nat, NEW b \in Nat, a + b < MOD
  PROVE  add(a, b) = a + b
  <1>1. MOD \in Nat \ {0} /\ a + b \in 0 .. MOD - 1
    BY LimitsFit
  <1> QED
    BY <1>1, ModSmall DEF add

LEMMA AlignUp ==
  ASSUME NEW a \in Nat, a + PAGE_SIZE <= MOD
  PROVE  align_up(a) = ((a + PAGE_SIZE - 1) \div PAGE_SIZE) * PAGE_SIZE
  <1>1. PAGE_SIZE \in Nat \ {0} /\ MOD \in Nat
    BY PagesFit, LimitsFit
  <1>2. add(a, PAGE_SIZE - 1) = a + (PAGE_SIZE - 1)
    BY <1>1, AddSmall
  <1>3. a + (PAGE_SIZE - 1) = a + PAGE_SIZE - 1 /\ a + PAGE_SIZE - 1 \in Nat
    BY <1>1
  <1> QED
    BY <1>2, <1>3, AlignDown DEF align_up

-----------------------------------------------------------------------------
(* A segment that passed the checks lies in the user's half, and its pages *)
(* are the same ones for both loops.                                       *)
SegmentOK(p) ==
  /\ First(p) \in Nat /\ Size(p) \in Nat /\ First(p) >= 1 /\ First(p) + Size(p) <= UserPages
  /\ page_start(p) = First(p) * PAGE_SIZE
  /\ page_start(p) \div PAGE_SIZE = First(p)
  /\ page_end(p) = (First(p) + Size(p)) * PAGE_SIZE
  /\ entries(p) = First(p) .. Last(p)
  /\ \A v \in First(p) .. Last(p) : page_at(p, v) = v - First(p)
  /\ p.p_vaddr % PAGE_SIZE \in 0 .. PAGE_SIZE - 1
  /\ \A k \in 0 .. p.p_memsz - 1 :
       /\ (p.p_vaddr + k) \div PAGE_SIZE \in First(p) .. Last(p)
       /\ (p.p_vaddr + k) % PAGE_SIZE \in 0 .. PAGE_SIZE - 1
       /\ ((p.p_vaddr + k) \div PAGE_SIZE - First(p)) * PAGE_SIZE
            + ((p.p_vaddr + k) % PAGE_SIZE) - (p.p_vaddr % PAGE_SIZE) = k

LEMMA UserPagesAre ==
  /\ PAGE_SIZE \in Nat \ {0} /\ MOD \in Nat \ {0} /\ USER_ADDR_END \in Nat
  /\ UserPages \in Nat /\ USER_ADDR_END = UserPages * PAGE_SIZE
  /\ USER_ADDR_END + PAGE_SIZE <= MOD
  /\ TABLE_PAGES \in Nat \ {0} /\ UserPages <= TABLE_PAGES
  <1>1. PAGE_SIZE \in Nat \ {0} /\ MOD \in Nat \ {0} /\ USER_ADDR_END \in Nat
        /\ USER_ADDR_END + PAGE_SIZE <= MOD
    BY PagesFit, LimitsFit
  <1>2. USER_ADDR_END = UserPages * PAGE_SIZE + (USER_ADDR_END % PAGE_SIZE) /\ UserPages \in Nat
    BY <1>1, DivMod DEF UserPages
  <1>3. UserPages * PAGE_SIZE \in Nat
    BY <1>1, <1>2
  <1> QED
    BY <1>1, <1>2, <1>3, PagesFit DEF UserPages

(* The entries of a run of pages in the user's half are its own, in order. *)
LEMMA EntriesOf ==
  ASSUME NEW p, NEW f \in Nat, NEW s \in Nat,
         f + s <= UserPages, page_start(p) = f * PAGE_SIZE, pages(p) = s
  PROVE  /\ entries(p) = f .. f + s - 1
         /\ \A v \in f .. f + s - 1 : page_at(p, v) = v - f
  <1>1. ASSUME NEW k \in 0 .. s - 1 PROVE entry(p, k) = f + k
    <2>1. k * PAGE_SIZE \in Nat /\ f * PAGE_SIZE \in Nat
          /\ f * PAGE_SIZE + k * PAGE_SIZE = (f + k) * PAGE_SIZE
      BY UserPagesAre
    <2>2. (f + k) * PAGE_SIZE <= UserPages * PAGE_SIZE
      BY UserPagesAre, MulLe
    <2>3. add(f * PAGE_SIZE, k * PAGE_SIZE) = (f + k) * PAGE_SIZE
      BY <2>1, <2>2, UserPagesAre, AddSmall
    <2>4. ((f + k) * PAGE_SIZE) \div PAGE_SIZE = f + k
      BY UserPagesAre, DivIs, 0 \in 0 .. PAGE_SIZE - 1, (f + k) * PAGE_SIZE + 0 = (f + k) * PAGE_SIZE
    <2>5. f + k \in 0 .. TABLE_PAGES - 1
      BY UserPagesAre
    <2>6. (f + k) % TABLE_PAGES = f + k
      BY <2>5, UserPagesAre, ModSmall
    <2> QED
      BY <2>3, <2>4, <2>6 DEF entry
  <1>2. entries(p) = {f + k : k \in 0 .. s - 1}
    BY <1>1 DEF entries
  <1>3. {f + k : k \in 0 .. s - 1} = f .. f + s - 1
    <2>1. ASSUME NEW v \in f .. f + s - 1 PROVE v \in {f + k : k \in 0 .. s - 1}
      <3>1. v - f \in 0 .. s - 1 /\ v = f + (v - f)
        OBVIOUS
      <3> QED
        BY <3>1
    <2> QED
      BY <2>1
  <1>4. ASSUME NEW v \in f .. f + s - 1 PROVE page_at(p, v) = v - f
    <2> DEFINE P(k) == entry(p, k) = v /\ \A j \in k + 1 .. s - 1 : entry(p, j) # v
    <2>1. v - f \in 0 .. s - 1 /\ v = f + (v - f)
      OBVIOUS
    <2>2. \A k \in 0 .. s - 1 : P(k) => k = v - f
      BY <1>1
    <2>3. P(v - f)
      <3>1. entry(p, v - f) = v
        BY <1>1, <2>1
      <3>2. ASSUME NEW j \in (v - f) + 1 .. s - 1 PROVE entry(p, j) # v
        BY <1>1, <2>1
      <3> QED
        BY <3>1, <3>2
    <2>4. page_at(p, v) = CHOOSE k \in 0 .. s - 1 : P(k)
      BY DEF page_at
    <2> HIDE DEF P
    <2> QED
      BY <2>1, <2>2, <2>3, <2>4
  <1> QED
    BY <1>2, <1>3, <1>4

LEMMA Segment ==
  ASSUME FileOK, NEW p \in Phdrs, segment_bounds(p), p.p_vaddr <= USER_ADDR_END
  PROVE  SegmentOK(p)
  <1> DEFINE n == PAGE_SIZE
             a == p.p_vaddr
             m == p.p_memsz
             u == UserPages
             f == a \div n
             r == a % n
             s == (m + r + n - 1) \div n
  <1>1. n \in Nat \ {0} /\ u \in Nat /\ USER_ADDR_END = u * n /\ USER_ADDR_END \in Nat
        /\ USER_ADDR_END + n <= MOD /\ MOD \in Nat \ {0}
    BY UserPagesAre
  <1>2. a \in 0 .. MOD - 1 /\ m \in 0 .. MOD - 1 /\ n <= a /\ m <= sub(USER_ADDR_END, a)
    BY DEF Phdrs, segment_bounds
  <1>3. a <= USER_ADDR_END
    OBVIOUS
  <1> HIDE DEF n, a, m, u
  <1>4. sub(USER_ADDR_END, a) = USER_ADDR_END - a
    <2>1. USER_ADDR_END - a \in 0 .. MOD - 1
      BY <1>1, <1>2, <1>3
    <2> QED
      BY <1>1, <2>1, ModSmall DEF sub
  <1>5. a \in Nat /\ m \in Nat /\ a + m <= u * n
    BY <1>1, <1>2, <1>3, <1>4
  <1> HIDE DEF f, r, s
  <1>a. Spans(n, a, m, u, f, r, s)
    BY <1>1, <1>2, <1>5, Span, Zenon DEF f, r, s
  <1>6. /\ f \in Nat /\ s \in Nat /\ r \in 0 .. n - 1 /\ f >= 1 /\ f + s <= u
        /\ a = f * n + r /\ f * n \in Nat
        /\ (a + m + n - 1) \div n = f + s
        /\ (f * n) \div n = f
        /\ \A k \in 0 .. m - 1 :
             /\ (a + k) \div n \in f .. f + s - 1 /\ (a + k) % n \in 0 .. n - 1
             /\ ((a + k) \div n - f) * n + ((a + k) % n) - r = k
    BY <1>a DEF Spans
  <1>7. align_down(a) = f * n
    BY <1>5, AlignDown DEF f, n
  <1>8. align_up(add(a, m)) = (f + s) * n
    <2>1. add(a, m) = a + m
      BY <1>1, <1>5, AddSmall
    <2>2. a + m \in Nat /\ a + m + PAGE_SIZE <= MOD
      BY <1>1, <1>5 DEF n
    <2>3. align_up(a + m) = ((a + m + PAGE_SIZE - 1) \div PAGE_SIZE) * PAGE_SIZE
      BY <2>2, AlignUp
    <2> QED
      BY <1>6, <2>1, <2>3 DEF n
  <1>9. align_up(add(m, r)) \div n = s
    <2>1. m + r \in Nat /\ m + r + PAGE_SIZE <= MOD /\ r \in Nat /\ m + r < MOD
      BY <1>1, <1>5, <1>6 DEF n
    <2>2. add(m, r) = m + r
      BY <1>5, <2>1, AddSmall
    <2>3. align_up(m + r) = ((m + r + PAGE_SIZE - 1) \div PAGE_SIZE) * PAGE_SIZE
      BY <2>1, AlignUp
    <2>4. align_up(m + r) = s * n
      BY <2>3 DEF s, n
    <2>5. (s * n) \div n = s
      BY <1>1, <1>6, DivIs, 0 \in 0 .. n - 1, s * n + 0 = s * n
    <2> QED
      BY <2>2, <2>4, <2>5
  <1>10. First(p) = f /\ Size(p) = s /\ Last(p) = f + s - 1
    BY <1>9 DEF First, Size, Last, pages, aligned_size, f, r, n, a, m
  <1>11. page_start(p) = f * n /\ page_end(p) = (f + s) * n
    BY <1>7, <1>8 DEF page_start, page_end, a, m
  <1>12. /\ entries(p) = f .. f + s - 1
         /\ \A v \in f .. f + s - 1 : page_at(p, v) = v - f
    <2>1. f + s <= UserPages /\ page_start(p) = f * PAGE_SIZE /\ pages(p) = s
      BY <1>6, <1>10, <1>11 DEF n, u, Size
    <2> QED
      BY <1>6, <2>1, EntriesOf
  <1> QED
    BY <1>6, <1>10, <1>11, <1>12 DEF SegmentOK, n, a, m, u, r
-----------------------------------------------------------------------------
(* What is read.                                                           *)

LEMMA HeaderInit == Init => ReadIInv
  <1> SUFFICES ASSUME Init PROVE ReadIInv
    OBVIOUS
  <1>1. PICK f \in Files : ehdr = f.ehdr /\ phdrs = f.phdrs
    BY DEF Init
  <1>2. FileOK
    BY <1>1, FilesAssumption DEF FileOK
  <1> QED
    BY <1>2 DEF Init, ReadIInv, HeaderOK, BoundsOK, PastHeader

(* The sum that table_fits compares does not wrap.                         *)
LEMMA TableFits ==
  ASSUME FileOK, elf_check_supported(ehdr), table_fits(ehdr)
  PROVE  /\ ehdr.e_phnum < PHNUM_LIMIT /\ ehdr.e_phentsize >= PHDR_SIZE
         /\ ehdr.e_phoff + ehdr.e_phnum * ehdr.e_phentsize <= ehdr.size
  <1> DEFINE num == ehdr.e_phnum
             ent == ehdr.e_phentsize
             off == ehdr.e_phoff
             N == PHNUM_LIMIT - 1
             E == PHENTSIZE_LIMIT - 1
             O == PHOFF_LIMIT - 1
  <1>1. num \in Nat /\ ent \in Nat /\ off \in Nat
    BY DEF FileOK, Headers
  <1>2. num <= N /\ ent <= E /\ off <= O /\ N \in Nat /\ E \in Nat /\ O \in Nat /\ O + N * E < MOD
        /\ MOD \in Nat
    BY <1>1, LimitsFit DEF elf_check_supported
  <1>3. num < PHNUM_LIMIT /\ ent >= PHDR_SIZE /\ add(off, num * ent) <= ehdr.size
    BY DEF elf_check_supported, table_fits
  <1> HIDE DEF num, ent, off, N, E, O
  <1>4. num * ent \in Nat /\ N * ent \in Nat /\ N * E \in Nat
    BY <1>1, <1>2
  <1>5. num * ent <= N * ent
    BY <1>1, <1>2, MulLe
  <1>6. ent * N <= E * N
    BY <1>1, <1>2, MulLe
  <1>7. N * ent <= N * E
    BY <1>1, <1>2, <1>6
  <1>8. off + num * ent < MOD
    BY <1>1, <1>2, <1>4, <1>5, <1>7
  <1>9. add(off, num * ent) = off + num * ent
    BY <1>1, <1>4, <1>8, AddSmall
  <1> QED
    BY <1>3, <1>9 DEF num, ent, off

LEMMA Uploads ==
  ASSUME FileOK, NEW n \in Nat
  PROVE  /\ \A k \in LoadsUpTo(n) :
              k \in 1 .. ehdr.e_phnum /\ k < n /\ phdrs[k].p_type = "Load"
         /\ \A k \in LoadsUpTo(n + 1) : k \in LoadsUpTo(n) \/ k = n
         /\ n \in 1 .. ehdr.e_phnum /\ phdrs[n].p_type # "Load" => LoadsUpTo(n + 1) = LoadsUpTo(n)
         /\ n > ehdr.e_phnum => LoadsUpTo(n) = LoadsUpTo(ehdr.e_phnum + 1)
         /\ n <= 1 => LoadsUpTo(n) = {}
  <1>1. ehdr.e_phnum \in Nat
    BY DEF FileOK, Headers
  <1> QED
    BY <1>1 DEF LoadsUpTo

LEMMA SameFile ==
  ASSUME Next
  PROVE  /\ ehdr' = ehdr /\ phdrs' = phdrs
         /\ (FileOK => FileOK') /\ Loads' = Loads /\ (LinkedLow' <=> LinkedLow)
         /\ \A n : LoadsUpTo(n)' = LoadsUpTo(n)
         /\ \A p : (segment_bounds(p)' <=> segment_bounds(p))
  <1>1. ehdr' = ehdr /\ phdrs' = phdrs
    BY DEF Next, CheckHeader, CheckPhdr, CheckEntry, LoadPhdr, LoadNoMemory, Finish
  <1> QED
    BY <1>1 DEF FileOK, Loads, LinkedLow, LoadsUpTo, segment_bounds

LEMMA ReadStep == ReadIInv /\ [Next]_vars => ReadIInv'
  <1> SUFFICES ASSUME ReadIInv, [Next]_vars PROVE ReadIInv'
    OBVIOUS
  <1>0. FileOK /\ i \in Nat /\ ehdr.e_phnum \in Nat
    BY DEF ReadIInv, HeaderOK, FileOK, Headers
  <1>1. CASE UNCHANGED vars
    BY <1>1 DEF vars, ReadIInv, HeaderOK, BoundsOK, FileOK, PastHeader, LoadsUpTo, Checked,
                segment_bounds
  <1>2. CASE Next
    <2>1. ehdr' = ehdr /\ phdrs' = phdrs /\ FileOK'
          /\ (\A n : LoadsUpTo(n)' = LoadsUpTo(n))
          /\ \A p : (segment_bounds(p)' <=> segment_bounds(p))
      BY <1>0, <1>2, SameFile
    <2>2. CASE CheckHeader
      <3>1. CASE pc' = "Invalid" /\ i' = i
        BY <1>0, <2>1, <3>1 DEF ReadIInv, HeaderOK, BoundsOK, PastHeader
      <3>2. CASE /\ elf_check_supported(ehdr) /\ table_fits(ehdr)
                 /\ pc' = "check" /\ i' = 1
        <4>1. HeaderOK'
          BY <1>0, <2>1, <3>2, TableFits DEF HeaderOK
        <4>2. LoadsUpTo(1) = {}
          BY <1>0, Uploads
        <4> QED
          BY <2>1, <3>2, <4>1, <4>2 DEF ReadIInv, BoundsOK, Checked
      <3> QED
        BY <2>2, <3>1, <3>2 DEF CheckHeader, Return
    <2>3. CASE CheckPhdr
      <3>0. pc = "check" /\ i \in 1 .. ehdr.e_phnum
            /\ (\A k \in LoadsUpTo(i) : segment_bounds(phdrs[k]))
        BY <1>0, <2>3 DEF CheckPhdr, ReadIInv, HeaderOK, BoundsOK, PastHeader, Checked
      <3>1. CASE pc' = "Invalid" /\ i' = i
        BY <1>0, <2>1, <3>1 DEF ReadIInv, HeaderOK, BoundsOK, PastHeader
      <3>2. CASE /\ pc' = pc /\ i' = i + 1
                 /\ phdrs[i].p_type = "Load" => segment_bounds(phdrs[i])
        <4>1. HeaderOK'
          BY <1>0, <2>1, <3>0, <3>2 DEF ReadIInv, HeaderOK, PastHeader
        <4>2. \A k \in LoadsUpTo(i + 1) : k \in LoadsUpTo(i) \/ (k = i /\ phdrs[i].p_type = "Load")
          BY <1>0 DEF LoadsUpTo
        <4>3. \A k \in LoadsUpTo(i + 1) : segment_bounds(phdrs[k])
          BY <3>0, <3>2, <4>2
        <4> QED
          BY <2>1, <3>0, <3>2, <4>1, <4>3 DEF ReadIInv, BoundsOK, Checked
      <3> QED
        BY <2>3, <3>1, <3>2 DEF CheckPhdr, Return
    <2>4. CASE CheckEntry
      <3>1. CASE pc' = "Invalid" /\ i' = i
        BY <1>0, <2>1, <3>1 DEF ReadIInv, HeaderOK, BoundsOK, PastHeader
      <3>2. CASE pc' = "load" /\ i' = 1
        <4>0. pc = "check" /\ i > ehdr.e_phnum
          BY <2>4 DEF CheckEntry
        <4>1. HeaderOK'
          BY <1>0, <2>1, <4>0, <3>2 DEF ReadIInv, HeaderOK, PastHeader
        <4>2. LoadsUpTo(i) = LoadsUpTo(ehdr.e_phnum + 1)
          BY <1>0, <4>0, Uploads
        <4> QED
          BY <2>1, <3>2, <4>0, <4>1, <4>2 DEF ReadIInv, BoundsOK, Checked, PastHeader
      <3> QED
        BY <2>4, <3>1, <3>2 DEF CheckEntry, Return
    <2>5. CASE LoadPhdr \/ LoadNoMemory \/ Finish
      <3>1. pc = "load" /\ pc' \in {"load", "NoMemory", "Loaded"} /\ i' \in {i, i + 1}
        BY <2>5 DEF LoadPhdr, LoadNoMemory, Finish, Return
      <3>2. HeaderOK'
        BY <1>0, <2>1, <3>1 DEF ReadIInv, HeaderOK, PastHeader
      <3> QED
        BY <2>1, <3>1, <3>2 DEF ReadIInv, BoundsOK, Checked, PastHeader
    <2> QED
      BY <1>2, <2>2, <2>3, <2>4, <2>5 DEF Next
  <1> QED
    BY <1>1, <1>2

LEMMA ReadImplies == ReadIInv => ReadsInsideFile
  <1> SUFFICES ASSUME ReadIInv PROVE ReadsInsideFile
    OBVIOUS
  <1>0. FileOK /\ i \in Nat /\ ehdr \in Headers /\ ehdr.e_phnum \in Nat
    BY DEF ReadIInv, HeaderOK, FileOK, Headers
  <1>1. ASSUME pc \in {"check", "load"}, i <= ehdr.e_phnum
        PROVE  InFile(ehdr.e_phoff + (i - 1) * ehdr.e_phentsize, PHDR_SIZE)
    <2> DEFINE num == ehdr.e_phnum
               ent == ehdr.e_phentsize
               off == ehdr.e_phoff
               size == ehdr.size
    <2>1. i >= 1 /\ ent >= PHDR_SIZE /\ off + num * ent <= size /\ i <= num
      BY <1>1 DEF ReadIInv, HeaderOK, PastHeader
    <2>2. num \in Nat /\ ent \in Nat /\ off \in Nat /\ size \in Nat /\ PHDR_SIZE \in Nat
      BY <1>0, PagesFit DEF Headers
    <2> HIDE DEF num, ent, off, size
    <2>3. i * ent <= num * ent
      BY <1>0, <2>1, <2>2, MulLe
    <2>4. (i - 1) * ent = i * ent - ent /\ i * ent \in Nat /\ num * ent \in Nat
      BY <1>0, <2>2
    <2>5. off + (i - 1) * ent + PHDR_SIZE <= size
      BY <2>1, <2>2, <2>3, <2>4
    <2> QED
      BY <2>5 DEF InFile, num, ent, off, size
  <1>2. ASSUME pc = "load", NEW p \in Loads
        PROVE  InFile(p.p_offset, p.p_filesz)
    <2>1. PICK k \in 1 .. ehdr.e_phnum : phdrs[k].p_type = "Load" /\ p = phdrs[k]
      BY DEF Loads
    <2>2. k \in LoadsUpTo(ehdr.e_phnum + 1)
      BY <1>0, <2>1 DEF LoadsUpTo
    <2>3. segment_bounds(p)
      BY <1>2, <2>1, <2>2 DEF ReadIInv, BoundsOK, Checked, PastHeader
    <2>4. p \in Phdrs
      BY <1>0, <1>2, <2>1, LimitsFit, SMTT(20) DEF ReadIInv, HeaderOK, PastHeader, FileOK
    <2> QED
      BY <1>0, <2>3, <2>4 DEF segment_bounds, InFile, Phdrs, Headers
  <1> QED
    BY <1>1, <1>2 DEF ReadsInsideFile

(* elf_load reads nothing outside the file it was given, whatever the file *)
(* says: the program headers lie in it, since the limits on the fields of  *)
(* the file header keep the sum from wrapping, and so do the segments.     *)
THEOREM ElfReadsInsideFile == Spec => []ReadsInsideFile
  BY HeaderInit, ReadStep, ReadImplies, PTL DEF Spec

-----------------------------------------------------------------------------
(* What is mapped and loaded.                                              *)

LEMMA LoadsAreSegments ==
  ASSUME ReadIInv, LinkedLow, PastHeader, NEW k \in LoadsUpTo(Checked)
  PROVE  phdrs[k] \in Phdrs /\ SegmentOK(phdrs[k])
  <1>0. FileOK /\ ehdr.e_phnum \in Nat /\ ehdr.e_phnum < PHNUM_LIMIT
    BY DEF ReadIInv, HeaderOK, FileOK, Headers
  <1>1. k \in 1 .. PHNUM_LIMIT - 1 /\ phdrs[k].p_type = "Load"
    BY <1>0, LimitsFit DEF LoadsUpTo
  <1>2. phdrs[k] \in Phdrs
    BY <1>0, <1>1 DEF FileOK
  <1>3. phdrs[k].p_vaddr <= USER_ADDR_END
    BY DEF LinkedLow, Loads, LoadsUpTo
  <1>4. segment_bounds(phdrs[k])
    BY DEF ReadIInv, BoundsOK
  <1> QED
    BY <1>0, <1>2, <1>3, <1>4, Segment

LEMMA ElfInit == Init => ElfIInv
  <1> SUFFICES ASSUME Init PROVE ElfIInv
    OBVIOUS
  <1>3. OrderOK
    BY DEF Init, OrderOK, PastHeader
  <1>4. SpaceOK
    BY DEF Init, SpaceOK, MapsUserPagesOnly
  <1> QED
    BY <1>3, <1>4, HeaderInit DEF ElfIInv

(* The first loop: a segment that is let through begins behind all others. *)
LEMMA CheckPhdrOrder ==
  ASSUME ElfIInv, CheckPhdr
  PROVE  OrderOK'
  <1>a. LinkedLow' <=> LinkedLow
    BY SameFile DEF Next
  <1> SUFFICES ASSUME LinkedLow PROVE OrderOK'
    BY <1>a DEF OrderOK
  <1>0. FileOK /\ i \in Nat /\ ehdr.e_phnum \in Nat /\ ehdr' = ehdr /\ phdrs' = phdrs
        /\ pc = "check" /\ i \in 1 .. ehdr.e_phnum /\ prev_page_end \in Nat /\ PastHeader
    BY DEF ElfIInv, ReadIInv, HeaderOK, FileOK, Headers, CheckPhdr, OrderOK, PastHeader
  <1>1. \A n : LoadsUpTo(n)' = LoadsUpTo(n)
    BY <1>0 DEF LoadsUpTo
  <1>2. /\ ~base_found => LoadsUpTo(i) = {}
        /\ \A k \in LoadsUpTo(i) : (Last(phdrs[k]) + 1) * PAGE_SIZE <= prev_page_end
        /\ \A k, n \in LoadsUpTo(i) : k < n => Last(phdrs[k]) < First(phdrs[n])
    BY <1>0 DEF ElfIInv, OrderOK, Checked
  <1>3. CASE pc' = "Invalid" /\ prev_page_end' = prev_page_end
    BY <1>0, <1>3 DEF OrderOK, PastHeader
  <1>4. CASE phdrs[i].p_type # "Load" /\ pc' = pc /\ i' = i + 1
             /\ prev_page_end' = prev_page_end /\ base_found' = base_found
    <2>1. LoadsUpTo(i + 1) = LoadsUpTo(i)
      BY <1>0, <1>4, Uploads
    <2> QED
      BY <1>0, <1>1, <1>2, <1>4, <2>1 DEF OrderOK, Checked
  <1>5. CASE phdrs[i].p_type = "Load" /\ segment_bounds(phdrs[i]) /\ ~overlaps(phdrs[i])
             /\ pc' = pc /\ i' = i + 1
             /\ prev_page_end' = page_end(phdrs[i]) /\ base_found' = TRUE
    <2> DEFINE q == phdrs[i]
    <2>1. i \in LoadsUpTo(i + 1)
      BY <1>0, <1>5 DEF LoadsUpTo
    <2>2. \A k \in LoadsUpTo(i + 1) : phdrs[k] \in Phdrs /\ SegmentOK(phdrs[k])
      <3>1. \A k \in LoadsUpTo(i) : phdrs[k] \in Phdrs /\ SegmentOK(phdrs[k])
        BY <1>0, LoadsAreSegments DEF ElfIInv, Checked
      <3>2. i \in 1 .. PHNUM_LIMIT - 1
        BY <1>0, LimitsFit DEF ElfIInv, ReadIInv, HeaderOK
      <3>3. q \in Phdrs /\ q.p_vaddr <= USER_ADDR_END
        BY <1>0, <1>5, <3>2 DEF FileOK, LinkedLow, Loads
      <3>4. SegmentOK(q)
        BY <1>0, <1>5, <3>3, Segment
      <3>5. \A k \in LoadsUpTo(i + 1) : k \in LoadsUpTo(i) \/ k = i
        BY <1>0, Uploads
      <3> QED
        BY <3>1, <3>3, <3>4, <3>5
    <2>3. LoadsUpTo(i) \subseteq LoadsUpTo(i + 1)
      BY <1>0 DEF LoadsUpTo
    <2>4. /\ First(q) \in Nat /\ Size(q) \in Nat /\ page_start(q) = First(q) * PAGE_SIZE
          /\ page_end(q) = (First(q) + Size(q)) * PAGE_SIZE
          /\ Last(q) + 1 = First(q) + Size(q)
      BY <2>1, <2>2 DEF SegmentOK, Last
    <2>5. PAGE_SIZE \in Nat \ {0}
      BY UserPagesAre
    <2> HIDE DEF q
    <2>6. page_start(q) <= page_end(q) /\ page_end(q) \in Nat
      <3>1. First(q) <= First(q) + Size(q)
        BY <2>4
      <3>2. First(q) * PAGE_SIZE <= (First(q) + Size(q)) * PAGE_SIZE
        BY <2>4, <2>5, <3>1, MulLe
      <3> QED
        BY <2>4, <2>5, <3>2
    <2>7. ASSUME NEW k \in LoadsUpTo(i)
          PROVE  /\ Last(phdrs[k]) < First(q)
                 /\ (Last(phdrs[k]) + 1) * PAGE_SIZE <= page_end(q)
      <3>1. Last(phdrs[k]) \in Int
        BY <2>2, <2>3 DEF SegmentOK, Last
      <3>2. prev_page_end <= page_start(q)
        BY <1>0, <1>2, <1>5, <2>4, <2>5 DEF overlaps, q
      <3>3. (Last(phdrs[k]) + 1) * PAGE_SIZE <= prev_page_end
        BY <1>2
      <3> DEFINE l == Last(phdrs[k])
      <3> HIDE DEF l
      <3>4. l \in Int /\ (l + 1) * PAGE_SIZE <= First(q) * PAGE_SIZE
        BY <1>0, <2>4, <2>5, <3>1, <3>2, <3>3 DEF l
      <3>5. l + 1 <= First(q)
        BY <2>4, <2>5, <3>4, MulCancel
      <3>6. (l + 1) * PAGE_SIZE <= page_end(q)
        BY <2>4, <2>5, <2>6, <3>4
      <3> QED
        BY <2>4, <3>4, <3>5, <3>6 DEF l
    <2>8. \A k \in LoadsUpTo(i + 1) : k \in LoadsUpTo(i) \/ k = i
      BY <1>0, Uploads
    <2>9. \A k \in LoadsUpTo(i) : k < i
      BY <1>0, Uploads
    <2>10. \A k \in LoadsUpTo(i + 1) : (Last(phdrs[k]) + 1) * PAGE_SIZE <= page_end(q)
      BY <2>4, <2>6, <2>7, <2>8 DEF q
    <2>11. \A k, n \in LoadsUpTo(i + 1) : k < n => Last(phdrs[k]) < First(phdrs[n])
      <3> SUFFICES ASSUME NEW k \in LoadsUpTo(i + 1), NEW n \in LoadsUpTo(i + 1), k < n
                   PROVE  Last(phdrs[k]) < First(phdrs[n])
        OBVIOUS
      <3>1. k \in Int /\ n \in Int
        BY DEF LoadsUpTo
      <3>2. k \in LoadsUpTo(i)
        BY <1>0, <2>8, <2>9, <3>1
      <3> QED
        BY <1>2, <2>7, <2>8, <3>2 DEF q
    <2> QED
      BY <1>0, <1>1, <1>5, <2>6, <2>10, <2>11 DEF OrderOK, Checked, q, Last, First, Size
  <1> QED
    BY <1>3, <1>4, <1>5, Zenon DEF CheckPhdr, Return, Locals

(* The bytes of a page of a segment.                                       *)
LEMMA PageBytes ==
  ASSUME NEW p \in Phdrs, NEW k \in Nat
  PROVE  page_bytes(p, k) \in Contents
  <1> DEFINE at(b) == k * PAGE_SIZE + b - (p.p_vaddr % PAGE_SIZE)
  <1>1. PAGE_SIZE \in Nat \ {0} /\ p.p_vaddr \in Nat /\ p.p_offset \in Nat /\ p.p_filesz \in Nat
    BY UserPagesAre DEF Phdrs
  <1>2. p.p_vaddr % PAGE_SIZE \in Nat
    BY <1>1, DivMod
  <1>3. k * PAGE_SIZE \in Nat
    BY <1>1
  <1>4. \A b \in 0 .. PAGE_SIZE - 1 : at(b) \in Int
    BY <1>1, <1>2, <1>3
  <1>5. page_bytes(p, k) = [b \in 0 .. PAGE_SIZE - 1 |->
                              IF at(b) \in 0 .. p.p_filesz - 1 THEN p.p_offset + at(b) + 1 ELSE 0]
    BY DEF page_bytes
  <1> HIDE DEF at
  <1>6. \A b \in 0 .. PAGE_SIZE - 1 :
          (IF at(b) \in 0 .. p.p_filesz - 1 THEN p.p_offset + at(b) + 1 ELSE 0) \in Nat
    BY <1>1, <1>4
  <1> QED
    BY <1>5, <1>6 DEF Contents

(* The pages of any segment that was checked, however far it reaches.      *)
LEMMA SizeIsNat ==
  ASSUME NEW p \in Phdrs
  PROVE  pages(p) \in Nat
  <1>1. p.p_vaddr \in Nat /\ p.p_memsz \in Nat /\ PAGE_SIZE \in Nat \ {0} /\ MOD \in Nat \ {0}
    BY UserPagesAre DEF Phdrs
  <1>2. p.p_vaddr % PAGE_SIZE \in Nat
    BY <1>1, DivMod
  <1> DEFINE x == add(p.p_memsz, p.p_vaddr % PAGE_SIZE)
             y == add(x, PAGE_SIZE - 1)
  <1>3. x \in Nat
    BY <1>1, <1>2, DivMod DEF add
  <1> HIDE DEF x
  <1>4. y \in Nat
    BY <1>1, <1>3, DivMod DEF add
  <1> HIDE DEF y
  <1>5. align_down(y) = (y \div PAGE_SIZE) * PAGE_SIZE /\ y \div PAGE_SIZE \in Nat
    BY <1>1, <1>4, AlignDown, DivMod
  <1>6. aligned_size(p) = align_down(y)
    BY DEF aligned_size, align_up, x, y
  <1>7. aligned_size(p) \in Nat
    BY <1>1, <1>5, <1>6
  <1> QED
    BY <1>1, <1>7, DivMod DEF pages

(* Memory gets a new page for each page of the segment.                    *)
LEMMA LoadPhdrPhys ==
  ASSUME NEW p \in Phdrs, phys \in Seq(Contents),
         phys' = phys \o [k \in 1 .. pages(p) |-> page_bytes(p, k - 1)]
  PROVE  /\ phys' \in Seq(Contents) /\ Len(phys') = Len(phys) + pages(p) /\ Len(phys) \in Nat
         /\ \A n \in 1 .. Len(phys) : phys'[n] = phys[n]
         /\ \A k \in 1 .. pages(p) : phys'[Len(phys) + k] = page_bytes(p, k - 1)
  <1> DEFINE s == pages(p)
             new == [k \in 1 .. s |-> page_bytes(p, k - 1)]
  <1>0. s \in Nat
    BY SizeIsNat
  <1>1. new \in Seq(Contents) /\ Len(new) = s /\ \A k \in 1 .. s : new[k] = page_bytes(p, k - 1)
    <2>1. \A k \in 1 .. s : page_bytes(p, k - 1) \in Contents
      BY <1>0, PageBytes
    <2> QED
      BY <1>0, <2>1
  <1>2. phys' = phys \o new
    OBVIOUS
  <1> HIDE DEF s, new
  <1>3. /\ phys \o new \in Seq(Contents) /\ Len(phys \o new) = Len(phys) + Len(new)
        /\ \A n \in 1 .. Len(phys) + Len(new) :
             (phys \o new)[n] = IF n <= Len(phys) THEN phys[n] ELSE new[n - Len(phys)]
    BY <1>1, SeqJoin, Zenon
  <1>4. Len(phys) \in Nat
    BY SeqLength
  <1>5. \A n \in 1 .. Len(phys) : phys'[n] = phys[n]
    BY <1>0, <1>1, <1>2, <1>3, <1>4
  <1>6. ASSUME NEW k \in 1 .. s PROVE phys'[Len(phys) + k] = page_bytes(p, k - 1)
    <2>1. Len(phys) + k \in 1 .. Len(phys) + s /\ ~ Len(phys) + k <= Len(phys)
          /\ (Len(phys) + k) - Len(phys) = k
      BY <1>0, <1>4
    <2>2. phys'[Len(phys) + k] = new[k]
      BY <1>1, <1>2, <1>3, <2>1
    <2> QED
      BY <1>1, <2>2
  <1> QED
    BY <1>1, <1>2, <1>3, <1>4, <1>5, <1>6 DEF s

(* A page that is mapped is a user page, or its segment starts beyond.     *)
LEMMA LoadPhdrMaps ==
  ASSUME ElfIInv, LoadPhdr
  PROVE  MapsUserPagesOnly'
  <1>0. FileOK /\ i \in Nat /\ ehdr.e_phnum \in Nat /\ pc = "load" /\ i \in 1 .. ehdr.e_phnum
        /\ PastHeader /\ ReadIInv
    BY DEF ElfIInv, ReadIInv, HeaderOK, FileOK, Headers, LoadPhdr, PastHeader
  <1>n. i \in 1 .. PHNUM_LIMIT - 1
    BY <1>0, LimitsFit DEF ReadIInv, HeaderOK
  <1>1. Loads' = Loads /\ MapsUserPagesOnly
    BY SameFile DEF Next, ElfIInv, SpaceOK
  <1>2. CASE phdrs[i].p_type # "Load"
    BY <1>1, <1>2 DEF LoadPhdr, MapsUserPagesOnly
  <1>3. CASE phdrs[i].p_type = "Load"
    <2> DEFINE q == phdrs[i]
    <2>1. DOMAIN space' = DOMAIN space \cup entries(q)
      BY <1>3 DEF LoadPhdr
    <2>2. q \in Loads /\ q \in Phdrs /\ i \in LoadsUpTo(Checked)
      BY <1>0, <1>n, <1>3 DEF Loads, FileOK, LoadsUpTo, Checked
    <2>3. segment_bounds(q)
      BY <1>0, <2>2 DEF ReadIInv, BoundsOK
    <2>4. q.p_vaddr \in Int /\ USER_ADDR_END \in Int
      BY <2>2, UserPagesAre DEF Phdrs
    <2>5. CASE q.p_vaddr > USER_ADDR_END
      BY <1>1, <2>1, <2>2, <2>5 DEF MapsUserPagesOnly
    <2>6. CASE q.p_vaddr <= USER_ADDR_END
      <3>1. SegmentOK(q)
        BY <1>0, <2>2, <2>3, <2>6, Segment
      <3>2. entries(q) = First(q) .. Last(q) /\ First(q) \in Nat /\ Size(q) \in Nat
            /\ First(q) >= 1 /\ First(q) + Size(q) <= UserPages
        BY <3>1 DEF SegmentOK
      <3>3. entries(q) \subseteq 1 .. UserPages - 1
        BY <3>2, UserPagesAre DEF Last
      <3> QED
        BY <1>1, <2>1, <3>3 DEF MapsUserPagesOnly, UserPages
    <2> QED
      BY <2>4, <2>5, <2>6
  <1> QED
    BY <1>2, <1>3

(* The second loop: the pages of a segment are new ones, and the segments  *)
(* loaded before it stay where they are.                                   *)
LEMMA LoadPhdrSpace ==
  ASSUME ElfIInv, LoadPhdr
  PROVE  SpaceOK'
  <1>0. FileOK /\ i \in Nat /\ ehdr.e_phnum \in Nat /\ ehdr' = ehdr /\ phdrs' = phdrs
        /\ pc = "load" /\ i \in 1 .. ehdr.e_phnum /\ PastHeader
        /\ pc' = "load" /\ i' = i + 1
    BY DEF ElfIInv, ReadIInv, HeaderOK, FileOK, Headers, LoadPhdr, PastHeader
  <1>n. i \in 1 .. PHNUM_LIMIT - 1
    BY <1>0, LimitsFit DEF ElfIInv, ReadIInv, HeaderOK
  <1>1. (\A n : LoadsUpTo(n)' = LoadsUpTo(n)) /\ (LinkedLow' <=> LinkedLow)
    BY SameFile DEF Next
  <1>2. phys \in Seq(Contents) /\ (LinkedLow => \A k \in LoadsUpTo(i) : Holds(phdrs[k]))
    BY <1>0 DEF ElfIInv, SpaceOK
  <1>m. MapsUserPagesOnly'
    BY LoadPhdrMaps
  <1>3. CASE phdrs[i].p_type # "Load"
    <2>1. LoadsUpTo(i + 1) = LoadsUpTo(i)
      BY <1>0, <1>3, Uploads
    <2>2. space' = space /\ phys' = phys
      BY <1>3 DEF LoadPhdr
    <2> QED
      BY <1>0, <1>1, <1>2, <1>m, <2>1, <2>2 DEF SpaceOK, Holds
  <1>4. CASE phdrs[i].p_type = "Load"
    <2> DEFINE q == phdrs[i]
               f == First(q)
               s == Size(q)
               Q == f .. f + s - 1
    <2>0. q \in Phdrs
      BY <1>0, <1>n DEF FileOK
    <2>7. /\ phys' \in Seq(Contents) /\ Len(phys') = Len(phys) + s /\ Len(phys) \in Nat
          /\ \A n \in 1 .. Len(phys) : phys'[n] = phys[n]
          /\ \A k \in 1 .. s : phys'[Len(phys) + k] = page_bytes(q, k - 1)
      <3>1. phys' = phys \o [k \in 1 .. pages(q) |-> page_bytes(q, k - 1)]
        BY <1>4 DEF LoadPhdr
      <3> QED
        BY <1>2, <2>0, <3>1, LoadPhdrPhys, Zenon DEF Size
    <2> SUFFICES ASSUME LinkedLow PROVE \A k \in LoadsUpTo(i + 1) : Holds(phdrs[k])'
      BY <1>0, <1>1, <1>m, <2>7 DEF SpaceOK
    <2>1. /\ \A k \in LoadsUpTo(ehdr.e_phnum + 1) : phdrs[k] \in Phdrs /\ SegmentOK(phdrs[k])
          /\ \A k, n \in LoadsUpTo(ehdr.e_phnum + 1) : k < n => Last(phdrs[k]) < First(phdrs[n])
      BY <1>0, LoadsAreSegments DEF ElfIInv, OrderOK, Checked
    <2>2. i \in LoadsUpTo(ehdr.e_phnum + 1) /\ LoadsUpTo(i) \subseteq LoadsUpTo(ehdr.e_phnum + 1)
      BY <1>0, <1>4 DEF LoadsUpTo
    <2>3. f \in Nat /\ s \in Nat /\ f >= 1 /\ f + s <= UserPages
          /\ entries(q) = Q /\ \A v \in Q : page_at(q, v) = v - f
      BY <2>1, <2>2 DEF SegmentOK, Last
    <2>4. /\ DOMAIN space' = (DOMAIN space) \cup Q
          /\ \A v \in Q : space'[v] = [pa |-> Len(phys) + 1 + (v - f), flags |-> flags_of(q)]
          /\ \A v \in (DOMAIN space) \ Q : space'[v] = space[v]
      <3>1. space' = [v \in (DOMAIN space) \cup Q |->
                        IF v \in Q
                        THEN [pa |-> Len(phys) + 1 + page_at(q, v), flags |-> flags_of(q)]
                        ELSE space[v]]
        BY <1>4, <2>3, Zenon DEF LoadPhdr
      <3> HIDE DEF Q, f
      <3> QED
        BY <2>3, <3>1
    <2> HIDE DEF q, f, s
    <2>9. ASSUME NEW v \in Q
          PROVE  /\ v \in DOMAIN space' /\ space'[v].flags = flags_of(q)
                 /\ space'[v].pa \in 1 .. Len(phys')
                 /\ phys'[space'[v].pa] = page_bytes(q, v - f)
      <3>1. v \in DOMAIN space' /\ space'[v] = [pa |-> Len(phys) + 1 + (v - f), flags |-> flags_of(q)]
        BY <2>4
      <3>a. space'[v].pa = Len(phys) + 1 + (v - f)
        BY <3>1
      <3>2. space'[v].pa = Len(phys) + (v - f + 1) /\ v - f + 1 \in 1 .. s
        <4>1. v \in Int /\ f <= v /\ v <= f + s - 1 /\ Len(phys) \in Nat
          BY <2>3, <2>7
        <4>2. Len(phys) + 1 + (v - f) = Len(phys) + (v - f + 1)
          BY <2>3, <4>1
        <4>3. v - f + 1 \in 1 .. s
          BY <2>3, <4>1
        <4> QED
          BY <3>a, <4>2, <4>3
      <3>3. (v - f + 1) - 1 = v - f
        BY <2>3
      <3>4. phys'[Len(phys) + (v - f + 1)] = page_bytes(q, (v - f + 1) - 1)
        BY <2>7, <3>2
      <3>5. phys'[space'[v].pa] = page_bytes(q, v - f)
        BY <3>2, <3>3, <3>4
      <3>6. space'[v].flags = flags_of(q)
        BY <3>1
      <3> QED
        BY <2>3, <2>7, <3>1, <3>2, <3>5, <3>6
    <2>10. ASSUME NEW k \in LoadsUpTo(i), NEW v \in First(phdrs[k]) .. Last(phdrs[k])
           PROVE  /\ v \in DOMAIN space' /\ space'[v].flags = flags_of(phdrs[k])
                  /\ space'[v].pa \in 1 .. Len(phys')
                  /\ phys'[space'[v].pa] = page_bytes(phdrs[k], v - First(phdrs[k]))
      <3>1. /\ v \in DOMAIN space /\ space[v].flags = flags_of(phdrs[k])
            /\ space[v].pa \in 1 .. Len(phys)
            /\ phys[space[v].pa] = page_bytes(phdrs[k], v - First(phdrs[k]))
        BY <1>2 DEF Holds
      <3>2. k < i /\ Last(phdrs[k]) < f
        BY <1>0, <2>1, <2>2, Uploads DEF f, q
      <3>3. Last(phdrs[k]) \in Int /\ v \in Int
        BY <2>1, <2>2 DEF SegmentOK, Last
      <3>4. v \notin Q
        BY <2>3, <3>2, <3>3
      <3>5. v \in DOMAIN space' /\ space'[v] = space[v]
        BY <2>4, <3>1, <3>4
      <3> QED
        BY <2>3, <2>7, <3>1, <3>5
    <2>11. \A k \in LoadsUpTo(i + 1) : k \in LoadsUpTo(i) \/ k = i
      BY <1>0, Uploads
    <2>12. ASSUME NEW k \in LoadsUpTo(i + 1) PROVE Holds(phdrs[k])'
      <3>1. CASE k \in LoadsUpTo(i)
        BY <1>0, <2>10, <3>1 DEF Holds, First, Last, Size
      <3>2. CASE k = i
        BY <1>0, <2>9, <3>2 DEF Holds, Last, f, s, q
      <3> QED
        BY <2>11, <3>1, <3>2
    <2> QED
      BY <2>12
  <1> QED
    BY <1>3, <1>4

LEMMA ElfStep == ElfIInv /\ [Next]_vars => ElfIInv'
  <1> SUFFICES ASSUME ElfIInv, [Next]_vars PROVE ElfIInv'
    OBVIOUS
  <1>0. FileOK /\ i \in Nat /\ ehdr.e_phnum \in Nat /\ ReadIInv /\ OrderOK /\ SpaceOK
    BY DEF ElfIInv, ReadIInv, HeaderOK, FileOK, Headers
  <1>1. ReadIInv'
    BY <1>0, ReadStep
  <1>2. CASE UNCHANGED vars
    <2>1. OrderOK' /\ SpaceOK'
      <3>1. /\ \A n : LoadsUpTo(n)' = LoadsUpTo(n)
            /\ Loads' = Loads /\ (LinkedLow' <=> LinkedLow)
        BY <1>2 DEF vars, LoadsUpTo, Loads, LinkedLow
      <3>2. OrderOK'
        BY <1>0, <1>2, <3>1 DEF vars, OrderOK, Checked, PastHeader
      <3>3. SpaceOK'
        BY <1>0, <1>2, <3>1 DEF vars, SpaceOK, MapsUserPagesOnly, Holds
      <3> QED
        BY <3>2, <3>3
    <2> QED
      BY <1>1, <2>1 DEF ElfIInv
  <1>3. CASE Next
    <2>1. /\ ehdr' = ehdr /\ phdrs' = phdrs /\ \A n : LoadsUpTo(n)' = LoadsUpTo(n)
          /\ Loads' = Loads /\ (LinkedLow' <=> LinkedLow)
      BY <1>0, <1>3, SameFile
    <2>2. CASE CheckHeader
      <3>1. LoadsUpTo(1) = {}
        BY <1>0, Uploads
      <3>2. pc' = "Invalid" \/ (pc' = "check" /\ i' = 1)
        BY <2>2 DEF CheckHeader, Return
      <3>3. OrderOK'
        BY <1>0, <2>1, <2>2, <3>1, <3>2 DEF OrderOK, Checked, PastHeader, CheckHeader, Locals
      <3>4. SpaceOK'
        BY <1>0, <2>1, <2>2, <3>2 DEF SpaceOK, MapsUserPagesOnly, CheckHeader
      <3> QED
        BY <1>1, <2>1, <3>3, <3>4 DEF ElfIInv
    <2>3. CASE CheckPhdr
      <3>1. OrderOK'
        BY <2>3, CheckPhdrOrder
      <3>2. pc' \in {"check", "Invalid"} /\ space' = space /\ phys' = phys
        BY <2>3 DEF CheckPhdr, Return
      <3>3. SpaceOK'
        BY <1>0, <2>1, <3>2 DEF SpaceOK, MapsUserPagesOnly
      <3> QED
        BY <1>1, <2>1, <3>1, <3>3 DEF ElfIInv
    <2>4. CASE CheckEntry
      <3>0. pc = "check" /\ i > ehdr.e_phnum /\ prev_page_end' = prev_page_end
            /\ space' = space /\ phys' = phys
            /\ (pc' = "Invalid" \/ (pc' = "load" /\ i' = 1))
        BY <2>4 DEF CheckEntry, Return, Locals
      <3>1. LoadsUpTo(1) = {} /\ LoadsUpTo(i) = LoadsUpTo(ehdr.e_phnum + 1)
        BY <1>0, <3>0, Uploads
      <3>2. OrderOK'
        BY <1>0, <2>1, <3>0, <3>1 DEF OrderOK, Checked, PastHeader
      <3>3. SpaceOK'
        BY <1>0, <2>1, <3>0, <3>1 DEF SpaceOK, MapsUserPagesOnly
      <3> QED
        BY <1>1, <2>1, <3>2, <3>3 DEF ElfIInv
    <2>5. CASE LoadPhdr
      <3>1. SpaceOK'
        BY <2>5, LoadPhdrSpace
      <3>2. pc = "load" /\ pc' = pc /\ prev_page_end' = prev_page_end
        BY <2>5 DEF LoadPhdr, Locals
      <3>3. OrderOK'
        BY <1>0, <2>1, <3>2 DEF OrderOK, Checked, PastHeader
      <3> QED
        BY <1>1, <2>1, <3>1, <3>3 DEF ElfIInv
    <2>6. CASE LoadNoMemory \/ Finish
      <3>1. /\ pc = "load" /\ prev_page_end' = prev_page_end /\ space' = space /\ phys' = phys
            /\ pc' = "NoMemory" \/ (pc' = "Loaded" /\ i > ehdr.e_phnum)
        BY <2>6 DEF LoadNoMemory, Finish, Return, Locals
      <3>2. i > ehdr.e_phnum => LoadsUpTo(i) = LoadsUpTo(ehdr.e_phnum + 1)
        BY <1>0, Uploads
      <3>3. OrderOK'
        BY <1>0, <2>1, <3>1 DEF OrderOK, Checked, PastHeader
      <3>4. SpaceOK'
        BY <1>0, <2>1, <3>1, <3>2 DEF SpaceOK, MapsUserPagesOnly, Holds
      <3> QED
        BY <1>1, <2>1, <3>3, <3>4 DEF ElfIInv
    <2> QED
      BY <1>3, <2>2, <2>3, <2>4, <2>5, <2>6 DEF Next
  <1> QED
    BY <1>2, <1>3

LEMMA ElfImplies == ElfIInv => MapsUserPagesOnly /\ LoadedAsLinked
  <1> SUFFICES ASSUME ElfIInv, pc = "Loaded", LinkedLow, NEW p \in Loads, NEW k \in 0 .. p.p_memsz - 1
               PROVE  LET a == p.p_vaddr + k
                          v == a \div PAGE_SIZE
                      IN  /\ v \in DOMAIN space
                          /\ space[v].flags = flags_of(p)
                          /\ phys[space[v].pa][a % PAGE_SIZE] =
                               IF k < p.p_filesz THEN p.p_offset + k + 1 ELSE 0
    BY DEF ElfIInv, SpaceOK, LoadedAsLinked
  <1> DEFINE a == p.p_vaddr + k
             v == a \div PAGE_SIZE
             b == a % PAGE_SIZE
  <1>0. FileOK /\ ehdr.e_phnum \in Nat /\ ReadIInv /\ PastHeader
    BY DEF ElfIInv, ReadIInv, HeaderOK, FileOK, Headers, PastHeader
  <1>1. PICK n \in 1 .. ehdr.e_phnum : phdrs[n].p_type = "Load" /\ p = phdrs[n]
    BY DEF Loads
  <1>2. n \in LoadsUpTo(ehdr.e_phnum + 1)
    BY <1>0, <1>1 DEF LoadsUpTo
  <1>3. p \in Phdrs /\ SegmentOK(p)
    BY <1>0, <1>1, <1>2, LoadsAreSegments DEF Checked
  <1>4. Holds(p)
    BY <1>1, <1>2 DEF ElfIInv, SpaceOK
  <1>5. /\ v \in First(p) .. Last(p) /\ b \in 0 .. PAGE_SIZE - 1
        /\ (v - First(p)) * PAGE_SIZE + b - (p.p_vaddr % PAGE_SIZE) = k
    BY <1>3 DEF SegmentOK
  <1> HIDE DEF a, v, b
  <1>6. v \in DOMAIN space /\ space[v].flags = flags_of(p)
        /\ phys[space[v].pa] = page_bytes(p, v - First(p))
    BY <1>4, <1>5 DEF Holds
  <1>7. page_bytes(p, v - First(p))[b] = IF k \in 0 .. p.p_filesz - 1 THEN p.p_offset + k + 1 ELSE 0
    BY <1>5 DEF page_bytes
  <1>8. k \in 0 .. p.p_filesz - 1 <=> k < p.p_filesz
    BY <1>3 DEF Phdrs
  <1>9. phys[space[v].pa][b] = IF k < p.p_filesz THEN p.p_offset + k + 1 ELSE 0
    BY <1>6, <1>7, <1>8
  <1> QED
    BY <1>6, <1>9 DEF a, v, b

LEMMA ElfInvariant == Spec => []ElfIInv
  BY ElfInit, ElfStep, PTL DEF Spec

(* For all files elf_load gives a segment that starts at or below          *)
(* USER_ADDR_END no page outside the user's half and not page 0, whatever  *)
(* else the file holds and wherever memory runs out.                       *)
THEOREM ElfMapsUserPagesOnly == Spec => []MapsUserPagesOnly
  BY ElfInvariant, ElfImplies, PTL

(* A program that was loaded from a file linked low finds the bytes of all *)
(* its segments at their addresses, zeros behind them, and its rights.     *)
THEOREM ElfLoadedAsLinked == Spec => []LoadedAsLinked
  BY ElfInvariant, ElfImplies, PTL
=============================================================================

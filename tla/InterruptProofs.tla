--------------------------- MODULE InterruptProofs ---------------------------
(***************************************************************************)
(* What interrupts may not break: the locks and guards, which shut them    *)
(* out, and the keyboard, whose bytes come in by them.                     *)
(*                                                                         *)
(* The locks and guards keep their promises for any number of CPUs and     *)
(* locks and any nesting.  The inductive invariant has two parts.  Each    *)
(* CPU for itself: interrupts are on only where nothing is held, so at     *)
(* most one handler runs and what it interrupted owns nothing, and every   *)
(* flag that was saved says how interrupts were before the lock or guard   *)
(* it was saved for.  All CPUs together: a lock's data is set exactly      *)
(* while one of them owns it.  Every instruction of a lock or a guard,     *)
(* every interrupt and every return keeps it, and with it the locks        *)
(* exclude each other, no handler can spin on a lock of its own CPU and    *)
(* interrupts end up as they were.                                         *)
(*                                                                         *)
(* No key is lost, doubled, reordered or decoded wrongly, and no command   *)
(* is sent too often, for a ring buffer of any size, any keys, any retry   *)
(* limit and any number of key presses.                                    *)
(***************************************************************************)
EXTENDS IrqLocks, Keyboard, TLAPS

(* A sequence with one element replaced.                                   *)
LEMMA SeqReplace ==
  ASSUME NEW S, NEW s \in Seq(S), NEW n \in 1 .. Len(s), NEW e \in S
  PROVE  /\ [s EXCEPT ![n] = e] \in Seq(S)
         /\ Len([s EXCEPT ![n] = e]) = Len(s)
         /\ \A j \in 1 .. Len(s) : [s EXCEPT ![n] = e][j] = IF j = n THEN e ELSE s[j]
  OBVIOUS

(* A part of a sequence.                                                   *)
LEMMA SeqPart ==
  ASSUME NEW S, NEW s, NEW m \in Int, NEW n \in Int, \A j \in m .. n : s[j] \in S
  PROVE  /\ SubSeq(s, m, n) \in Seq(S)
         /\ Len(SubSeq(s, m, n)) = IF m <= n THEN n - m + 1 ELSE 0
         /\ \A j \in 1 .. n - m + 1 : SubSeq(s, m, n)[j] = s[m + j - 1]
  OBVIOUS

(* One sequence behind another.                                            *)
LEMMA SeqJoin ==
  ASSUME NEW S, NEW s \in Seq(S), NEW t \in Seq(S)
  PROVE  /\ s \o t \in Seq(S)
         /\ Len(s \o t) = Len(s) + Len(t)
         /\ \A j \in 1 .. Len(s) + Len(t) :
              (s \o t)[j] = IF j <= Len(s) THEN s[j] ELSE t[j - Len(s)]
  OBVIOUS

(* Append puts a sequence of one element behind.                           *)
LEMMA SeqAppend ==
  ASSUME NEW S, NEW s \in Seq(S), NEW e \in S
  PROVE  Append(s, e) = s \o <<e>>
  OBVIOUS

(* Three sequences behind each other.                                      *)
LEMMA SeqAssociative ==
  ASSUME NEW S, NEW s \in Seq(S), NEW t \in Seq(S), NEW r \in Seq(S)
  PROVE  (s \o t) \o r = s \o (t \o r)
  OBVIOUS

(* The empty sequence adds nothing.                                        *)
LEMMA SeqNothing ==
  ASSUME NEW S, NEW s \in Seq(S)
  PROVE  s \o <<>> = s /\ <<>> \o s = s
  OBVIOUS

(* Two sequences of one length with the same elements are the same.        *)
LEMMA SeqSame ==
  ASSUME NEW S, NEW s \in Seq(S), NEW t \in Seq(S),
         Len(s) = Len(t), \A j \in 1 .. Len(s) : s[j] = t[j]
  PROVE  s = t
  OBVIOUS
-----------------------------------------------------------------------------
(* The locks and the guards.                                               *)

(* Where a context can be while interrupts are on.                         *)
Early == {"run", "cli", "guard"}

(* Where a context works on a lock that it does not hold yet or any more.  *)
Working == {"cli", "exchange", "save", "store"}

Held == [lock : Locks \cup {0}, saved : BOOLEAN]

Context == [pc : Early \cup Working \cup {"sti"}, lock : Locks \cup {0}, saved : BOOLEAN, held : Seq(Held)]

(* Whether giving up h turns interrupts on.                                *)
Restores(h, fl) == IF h.lock = 0 THEN h.saved ELSE fl[h.lock]

(* Whether interrupts are to be on in the n-th context of a CPU when it    *)
(* holds k things and the thread wants them on.                            *)
On(n, k, w) == n = 1 /\ k = 0 /\ w

(* The running context x, the n-th of a CPU whose interrupt flag is e.     *)
Flagged(e, x, n, w) == e <=> On(n, Len(x.held), w) /\ x.pc \in Early

Remembers(x, n, w, fl) ==
  /\ x.pc # "run" => (x.saved <=> On(n, Len(x.held), w))
  /\ \A j \in 1 .. Len(x.held) : Restores(x.held[j], fl) <=> On(n, j - 1, w)

Ascending(x) ==
  /\ \A j, k \in 1 .. Len(x.held) :
       j < k /\ x.held[k].lock # 0 => x.held[j].lock < x.held[k].lock
  /\ x.pc \in Working => x.lock \in Locks /\ \A j \in 1 .. Len(x.held) : x.held[j].lock < x.lock

(* A context x that a handler interrupted.                                 *)
Interrupted(x, w) ==
  /\ w /\ x.held = <<>> /\ x.pc \in Early /\ (x.pc # "run" => x.saved)
  /\ x.pc \in Working => x.lock \in Locks

(* One CPU: e is its interrupt flag, w what its thread wants, s its        *)
(* contexts.                                                               *)
Local(e, w, s, fl) ==
  /\ Len(s) \in {1, 2}
  /\ Flagged(e, s[Len(s)], Len(s), w)
  /\ Remembers(s[Len(s)], Len(s), w, fl)
  /\ Ascending(s[Len(s)])
  /\ Len(s) = 2 => Interrupted(s[1], w)

Types ==
  /\ IF_ \in [Cpus -> BOOLEAN] /\ wanted \in [Cpus -> BOOLEAN]
  /\ data \in [Locks -> BOOLEAN] /\ flags \in [Locks -> BOOLEAN]
  /\ ctx \in [Cpus -> Seq(Context)]

(* Who owns what, of the contexts that run.                                *)
Exclusive ==
  /\ \A l \in Locks : data[l] => \E c \in Cpus : l \in Owns(top(c))
  /\ \A c \in Cpus : \A l \in Owns(top(c)) : l \in Locks /\ data[l]
  /\ \A c1, c2 \in Cpus : Owns(top(c1)) \cap Owns(top(c2)) # {} => c1 = c2

(* The inductive invariant.                                                *)
IInv ==
  /\ Types
  /\ \A c \in Cpus : Local(IF_[c], wanted[c], ctx[c], flags)
  /\ Exclusive
-----------------------------------------------------------------------------
(* How many contexts a CPU can have, for arithmetic.                       *)
LEMMA Depth ==
  ASSUME NEW n, n \in {1, 2}
  PROVE  (n = 1 \/ n = 2) /\ n \in Nat /\ n \in 1 .. n
  <1>1. n = 1 \/ n = 2
    OBVIOUS
  <1>2. \A m : m = 1 \/ m = 2 => m \in Nat /\ m \in 1 .. m
    OBVIOUS
  <1>3. QED
    BY <1>1, <1>2

(* What an action that replaces the running context of c does to ctx.      *)
LEMMA Replaced ==
  ASSUME Types, NEW c \in Cpus, Len(ctx[c]) \in {1, 2}, NEW new \in Context, Become(c, new)
  PROVE  /\ ctx' \in [Cpus -> Seq(Context)]
         /\ Len(ctx'[c]) = Len(ctx[c])
         /\ ctx'[c][Len(ctx[c])] = new
         /\ Len(ctx[c]) = 2 => ctx'[c][1] = ctx[c][1]
         /\ \A c2 \in Cpus : c2 # c => ctx'[c2] = ctx[c2]
  <1>1. ctx \in [Cpus -> Seq(Context)] /\ ctx[c] \in Seq(Context)
    BY DEF Types
  <1>2. ctx' = [ctx EXCEPT ![c] = [ctx[c] EXCEPT ![Len(ctx[c])] = new]]
    BY <1>1 DEF Become
  <1>3. /\ [ctx[c] EXCEPT ![Len(ctx[c])] = new] \in Seq(Context)
        /\ Len([ctx[c] EXCEPT ![Len(ctx[c])] = new]) = Len(ctx[c])
        /\ \A j \in 1 .. Len(ctx[c]) : [ctx[c] EXCEPT ![Len(ctx[c])] = new][j] =
                                        IF j = Len(ctx[c]) THEN new ELSE ctx[c][j]
    <2>1. Len(ctx[c]) \in 1 .. Len(ctx[c])
      BY Depth, Zenon
    <2>2. QED
      BY <1>1, <2>1, SeqReplace
  <1>4. ctx' \in [Cpus -> Seq(Context)]
    BY <1>1, <1>2, <1>3
  <1>5. ctx'[c] = [ctx[c] EXCEPT ![Len(ctx[c])] = new]
    BY <1>1, <1>2
  <1>6. \A c2 \in Cpus : c2 # c => ctx'[c2] = ctx[c2]
    BY <1>1, <1>2
  <1>7. /\ Len(ctx'[c]) = Len(ctx[c])
        /\ \A j \in 1 .. Len(ctx[c]) : ctx'[c][j] = IF j = Len(ctx[c]) THEN new ELSE ctx[c][j]
    BY <1>3, <1>5, Zenon
  <1>8. ctx'[c][Len(ctx[c])] = new
    <2>1. Len(ctx[c]) \in 1 .. Len(ctx[c])
      BY Depth, Zenon
    <2>2. QED
      BY <1>7, <2>1, Zenon
  <1>9. Len(ctx[c]) = 2 => ctx'[c][1] = ctx[c][1]
    <2>1. \A n : n = 2 => 1 \in 1 .. n /\ 1 # n
      OBVIOUS
    <2>2. QED
      BY <1>7, <2>1, Zenon
  <1>10. QED
    BY <1>4, <1>6, <1>7, <1>8, <1>9, Zenon

(* The running context of a CPU.                                           *)
LEMMA Running ==
  ASSUME Types, NEW c \in Cpus, Len(ctx[c]) \in {1, 2}
  PROVE  /\ top(c) = ctx[c][Len(ctx[c])] /\ top(c) \in Context
         /\ top(c).held \in Seq(Held) /\ top(c).saved \in BOOLEAN
         /\ top(c).lock \in Locks \cup {0} /\ top(c).pc \in Early \cup Working \cup {"sti"}
         /\ \A j \in 1 .. Len(top(c).held) :
              top(c).held[j] \in Held /\ top(c).held[j].lock \in Nat /\ top(c).held[j].saved \in BOOLEAN
  <1>1. ctx[c] \in Seq(Context)
    BY DEF Types
  <1>2. top(c) = ctx[c][Len(ctx[c])]
    BY DEF top, Last
  <1>3. top(c) \in Context
    BY <1>1, <1>2
  <1>4. /\ top(c).held \in Seq(Held) /\ top(c).saved \in BOOLEAN
        /\ top(c).lock \in Locks \cup {0} /\ top(c).pc \in Early \cup Working \cup {"sti"}
    BY <1>3 DEF Context
  <1>5. \A j \in 1 .. Len(top(c).held) : top(c).held[j] \in Held
    BY <1>4
  <1>6. \A h \in Held : h.lock \in Locks \cup {0} /\ h.saved \in BOOLEAN
    BY DEF Held
  <1>7. Locks \cup {0} \subseteq Nat
    BY LocksAssumption
  <1>8. QED
    BY <1>2, <1>3, <1>4, <1>5, <1>6, <1>7

(* What is left to show when the running context of c is replaced.         *)
LEMMA ReplacedKeeps ==
  ASSUME IInv, NEW c \in Cpus, NEW new \in Context, Become(c, new),
         wanted' = wanted,
         IF_' \in [Cpus -> BOOLEAN], \A c2 \in Cpus : c2 # c => IF_'[c2] = IF_[c2],
         data' \in [Locks -> BOOLEAN], flags' \in [Locks -> BOOLEAN],
         \A c2 \in Cpus : c2 # c => \A h \in HeldLocks(top(c2)) : flags'[h] = flags[h],
         Flagged(IF_'[c], new, Len(ctx[c]), wanted[c]),
         Remembers(new, Len(ctx[c]), wanted[c], flags'),
         Ascending(new),
         Exclusive'
  PROVE  IInv'
  <1>1. Types /\ Len(ctx[c]) \in {1, 2} /\ Local(IF_[c], wanted[c], ctx[c], flags)
    BY DEF IInv, Local
  <1>2. /\ ctx' \in [Cpus -> Seq(Context)]
        /\ Len(ctx'[c]) = Len(ctx[c])
        /\ ctx'[c][Len(ctx[c])] = new
        /\ Len(ctx[c]) = 2 => ctx'[c][1] = ctx[c][1]
        /\ \A c2 \in Cpus : c2 # c => ctx'[c2] = ctx[c2]
    BY <1>1, Replaced
  <1>3. Types'
    BY <1>1, <1>2 DEF Types
  <1>4. Local(IF_'[c], wanted'[c], ctx'[c], flags')
    BY <1>1, <1>2 DEF Local
  <1>5. ASSUME NEW c2 \in Cpus, c2 # c
        PROVE  Local(IF_'[c2], wanted'[c2], ctx'[c2], flags')
    <2> DEFINE x == ctx[c2][Len(ctx[c2])]
    <2>1. Local(IF_[c2], wanted[c2], ctx[c2], flags) /\ Len(ctx[c2]) \in {1, 2}
      BY DEF IInv, Local
    <2>2. IF_'[c2] = IF_[c2] /\ wanted'[c2] = wanted[c2] /\ ctx'[c2] = ctx[c2]
      BY <1>2, <1>5
    <2>3. top(c2) = x
      BY <1>1, <2>1, Running
    <2>4. ASSUME NEW j \in 1 .. Len(x.held)
          PROVE  Restores(x.held[j], flags') = Restores(x.held[j], flags)
      <3>1. CASE x.held[j].lock = 0
        BY <3>1 DEF Restores
      <3>2. CASE x.held[j].lock # 0
        <4>1. x.held \in Seq(Held)
          BY <1>1, <2>1, <2>3, Running
        <4>2. j \in DOMAIN x.held
          BY <4>1
        <4>3. x.held[j].lock \in HeldLocks(x)
          BY <4>2, <3>2 DEF HeldLocks
        <4>4. flags'[x.held[j].lock] = flags[x.held[j].lock]
          BY <4>3, <2>3, <1>5
        <4>5. QED
          BY <3>2, <4>4 DEF Restores
      <3>3. QED
        BY <3>1, <3>2
    <2>5. Remembers(x, Len(ctx[c2]), wanted[c2], flags')
      BY <2>1, <2>4 DEF Local, Remembers
    <2>6. QED
      BY <2>1, <2>2, <2>5 DEF Local
  <1>6. \A c2 \in Cpus : Local(IF_'[c2], wanted'[c2], ctx'[c2], flags')
    BY <1>4, <1>5
  <1>7. QED
    BY <1>3, <1>6 DEF IInv

(* A step that changes no owner.                                           *)
LEMMA OwnersKept ==
  ASSUME IInv, NEW c \in Cpus, NEW new \in Context, Become(c, new), data' = data,
         Owns(new) = Owns(top(c))
  PROVE  Exclusive'
  <1>1. Types /\ Len(ctx[c]) \in {1, 2} /\ Exclusive
    BY DEF IInv, Local
  <1>2. \A c2 \in Cpus : Owns(top(c2)') = Owns(top(c2))
    <2>1. top(c)' = new
      BY <1>1, Replaced DEF top, Last
    <2>2. \A c2 \in Cpus : c2 # c => top(c2)' = top(c2)
      BY <1>1, Replaced DEF top, Last
    <2>3. QED
      BY <2>1, <2>2
  <1>3. QED
    BY <1>1, <1>2 DEF Exclusive
(* What the invariant says of the context that acts.                       *)
LEMMA Here ==
  ASSUME IInv, NEW c \in Cpus
  PROVE  /\ Types /\ Exclusive /\ Len(ctx[c]) \in {1, 2}
         /\ Flagged(IF_[c], top(c), Len(ctx[c]), wanted[c])
         /\ Remembers(top(c), Len(ctx[c]), wanted[c], flags)
         /\ Ascending(top(c))
         /\ top(c) \in Context /\ top(c).held \in Seq(Held)
         /\ top(c).saved \in BOOLEAN /\ top(c).lock \in Locks \cup {0}
         /\ \A j \in 1 .. Len(top(c).held) :
              top(c).held[j] \in Held /\ top(c).held[j].lock \in Nat /\ top(c).held[j].saved \in BOOLEAN
  <1>1. Types /\ Exclusive /\ Len(ctx[c]) \in {1, 2} /\ Local(IF_[c], wanted[c], ctx[c], flags)
    BY DEF IInv, Local
  <1>2. QED
    BY <1>1, Running DEF Local

(* The running contexts after c's has been replaced.                       *)
LEMMA Tops ==
  ASSUME IInv, NEW c \in Cpus, NEW new \in Context, Become(c, new)
  PROVE  top(c)' = new /\ \A c2 \in Cpus : c2 # c => top(c2)' = top(c2)
  <1>1. Types /\ Len(ctx[c]) \in {1, 2}
    BY DEF IInv, Local
  <1>2. QED
    BY <1>1, Replaced DEF top, Last

(* The locks among the things held.                                        *)
Named(h) == {h[i].lock : i \in DOMAIN h} \ {0}

LEMMA HeldNamed ==
  ASSUME NEW x
  PROVE  HeldLocks(x) = Named(x.held)
  BY DEF HeldLocks, Named

LEMMA InNamed ==
  ASSUME NEW h, NEW v
  PROVE  v \in Named(h) <=> v # 0 /\ \E i \in DOMAIN h : v = h[i].lock
  BY DEF Named

(* Holding one thing more.                                                 *)
LEMMA Appended ==
  ASSUME NEW s \in Seq(Held), NEW h \in Held
  PROVE  /\ Append(s, h) \in Seq(Held) /\ Len(Append(s, h)) = Len(s) + 1
         /\ Append(s, h)[Len(s) + 1] = h
         /\ \A j \in 1 .. Len(s) : Append(s, h)[j] = s[j]
         /\ Named(Append(s, h)) = Named(s) \cup ({h.lock} \ {0})
  <1>1. /\ Append(s, h) \in Seq(Held) /\ Len(Append(s, h)) = Len(s) + 1
        /\ Append(s, h)[Len(s) + 1] = h
        /\ \A j \in 1 .. Len(s) : Append(s, h)[j] = s[j]
    OBVIOUS
  <1>2. DOMAIN Append(s, h) = DOMAIN s \cup {Len(s) + 1} /\ DOMAIN s = 1 .. Len(s)
    OBVIOUS
  <1> DEFINE t == Append(s, h)
             e == Len(s) + 1
  <1> HIDE DEF t, e
  <1>3. Named(t) = Named(s) \cup ({h.lock} \ {0})
    <2>1. DOMAIN t = DOMAIN s \cup {e} /\ t[e] = h /\ \A j \in DOMAIN s : t[j] = s[j]
      BY <1>1, <1>2 DEF t, e
    <2>2. ASSUME NEW v
          PROVE  v \in Named(t) <=> v \in Named(s) \/ (v = h.lock /\ v # 0)
      <3>1. v \in Named(t) <=> v # 0 /\ \E i \in DOMAIN s \cup {e} : v = t[i].lock
        BY <2>1, InNamed
      <3>2. v \in Named(s) <=> v # 0 /\ \E i \in DOMAIN s : v = s[i].lock
        BY InNamed
      <3>3. QED
        BY <2>1, <3>1, <3>2
    <2>3. QED
      BY <2>2
  <1>4. QED
    BY <1>1, <1>3 DEF t

(* Giving up the last thing held.                                          *)
LEMMA Fronted ==
  ASSUME NEW s \in Seq(Held), s # <<>>
  PROVE  /\ Front(s) \in Seq(Held) /\ Len(s) \in Nat \ {0} /\ Len(Front(s)) = Len(s) - 1
         /\ Last(s) = s[Len(s)] /\ Last(s) \in Held
         /\ \A j \in 1 .. Len(s) - 1 : Front(s)[j] = s[j]
         /\ Named(s) = Named(Front(s)) \cup ({Last(s).lock} \ {0})
  <1>1. Len(s) \in Nat \ {0}
    OBVIOUS
  <1>2. /\ Front(s) \in Seq(Held) /\ Len(Front(s)) = Len(s) - 1
        /\ \A j \in 1 .. Len(s) - 1 : Front(s)[j] = s[j]
    <2> DEFINE m == Len(s) - 1
    <2>1. m \in Nat /\ \A j \in 1 .. m : s[j] \in Held
      BY <1>1
    <2> HIDE DEF m
    <2>2. /\ SubSeq(s, 1, m) \in Seq(Held)
          /\ Len(SubSeq(s, 1, m)) = IF 1 <= m THEN m - 1 + 1 ELSE 0
          /\ \A i \in 1 .. m - 1 + 1 : SubSeq(s, 1, m)[i] = s[1 + i - 1]
      <3>1. 1 \in Int /\ m \in Int
        BY <2>1
      <3>2. QED
        BY <2>1, <3>1, SeqPart
    <2>3. Len(SubSeq(s, 1, m)) = m
      BY <2>1, <2>2
    <2>4. \A j \in 1 .. m : SubSeq(s, 1, m)[j] = s[j]
      <3>1. \A j \in 1 .. m : j \in 1 .. m - 1 + 1 /\ 1 + j - 1 = j
        BY <2>1
      <3>2. QED
        BY <2>2, <3>1
    <2>5. QED
      BY <2>2, <2>3, <2>4 DEF Front, m
  <1>3. Last(s) = s[Len(s)] /\ Last(s) \in Held
    BY <1>1 DEF Last
  <1>4. DOMAIN s = DOMAIN Front(s) \cup {Len(s)} /\ DOMAIN Front(s) = 1 .. Len(s) - 1
    BY <1>1, <1>2
  <1>5. Named(s) = Named(Front(s)) \cup ({Last(s).lock} \ {0})
    <2> DEFINE f == Front(s)
               e == Len(s)
               g == Last(s)
    <2>1. DOMAIN s = DOMAIN f \cup {e} /\ s[e] = g /\ \A j \in DOMAIN f : s[j] = f[j]
      BY <1>2, <1>3, <1>4
    <2> HIDE DEF f, e, g
    <2>2. ASSUME NEW v
          PROVE  v \in Named(s) <=> v \in Named(f) \/ (v = g.lock /\ v # 0)
      <3>1. v \in Named(s) <=> v # 0 /\ \E i \in DOMAIN f \cup {e} : v = s[i].lock
        BY <2>1, InNamed
      <3>2. v \in Named(f) <=> v # 0 /\ \E i \in DOMAIN f : v = f[i].lock
        BY InNamed
      <3>3. QED
        BY <2>1, <3>1, <3>2
    <2>3. Named(s) = Named(f) \cup ({g.lock} \ {0})
      BY <2>2
    <2>4. QED
      BY <2>3 DEF f, g
  <1>6. QED
    BY <1>1, <1>2, <1>3, <1>5
-----------------------------------------------------------------------------
(* The step is an acquire's pushfq.                                        *)
LEMMA PushfqKeeps ==
  ASSUME IInv, NEW c \in Cpus, NEW l \in Locks, Pushfq(c, l)
  PROVE  IInv'
  <1> DEFINE x == top(c)
             y == [x EXCEPT !.pc = "cli", !.lock = l, !.saved = IF_[c]]
             n == Len(ctx[c])
  <1>1. /\ Types /\ Flagged(IF_[c], x, n, wanted[c]) /\ Remembers(x, n, wanted[c], flags)
        /\ Ascending(x) /\ x \in Context /\ x.held \in Seq(Held) /\ x.pc = "run"
        /\ \A j \in 1 .. Len(x.held) : x.held[j].lock \in Nat
    BY Here DEF Pushfq, At
  <1>2. /\ y \in Context /\ y.pc = "cli" /\ y.lock = l /\ y.saved = IF_[c] /\ y.held = x.held
    BY <1>1, Zenon DEF Context, Types, Early, Working
  <1>3. Become(c, y) /\ IF_' = IF_ /\ wanted' = wanted /\ data' = data /\ flags' = flags
    BY DEF Pushfq
  <1>4. \A j \in 1 .. Len(x.held) : x.held[j].lock < l
    <2> SUFFICES ASSUME NEW j \in 1 .. Len(x.held) PROVE x.held[j].lock < l
      OBVIOUS
    <2>1. l > 0 /\ l \in Nat
      BY LocksAssumption
    <2>2. CASE x.held[j].lock = 0
      BY <2>1, <2>2
    <2>3. CASE x.held[j].lock # 0
      <3>1. x.held[j].lock \in HeldLocks(x)
        BY <1>1, <2>3 DEF HeldLocks
      <3>2. QED
        BY <3>1 DEF Pushfq
    <2>4. QED
      BY <2>2, <2>3
  <1> HIDE DEF x, y, n
  <1>5. Flagged(IF_'[c], y, n, wanted[c])
    BY <1>1, <1>2, <1>3 DEF Flagged, Early
  <1>6. Remembers(y, n, wanted[c], flags')
    BY <1>1, <1>2, <1>3 DEF Remembers, Flagged, Early
  <1>7. Ascending(y)
    BY <1>1, <1>2, <1>4 DEF Ascending
  <1>8. Owns(y) = Owns(x)
    BY <1>1, <1>2 DEF Owns, HeldLocks
  <1>9. Exclusive'
    BY <1>2, <1>3, <1>8, OwnersKept DEF x
  <1>10. QED
    BY <1>1, <1>2, <1>3, <1>5, <1>6, <1>7, <1>9, ReplacedKeeps, Zenon DEF Types, n

(* The step is an acquire's cli.                                           *)
LEMMA CliKeeps ==
  ASSUME IInv, NEW c \in Cpus, Cli(c)
  PROVE  IInv'
  <1> DEFINE x == top(c)
             y == [x EXCEPT !.pc = "exchange"]
             n == Len(ctx[c])
  <1>1. /\ Types /\ Remembers(x, n, wanted[c], flags)
        /\ Ascending(x) /\ x \in Context /\ x.held \in Seq(Held) /\ x.pc = "cli"
    BY Here DEF Cli, At
  <1>2. /\ y \in Context /\ y.pc = "exchange" /\ y.lock = x.lock /\ y.saved = x.saved
        /\ y.held = x.held
    BY <1>1, Zenon DEF Context, Types, Early, Working
  <1>3. /\ Become(c, y) /\ wanted' = wanted /\ data' = data /\ flags' = flags
        /\ IF_' = [IF_ EXCEPT ![c] = FALSE]
    BY DEF Cli
  <1>4. IF_' \in [Cpus -> BOOLEAN] /\ IF_'[c] = FALSE /\ \A c2 \in Cpus : c2 # c => IF_'[c2] = IF_[c2]
    BY <1>1, <1>3 DEF Types
  <1> HIDE DEF x, y, n
  <1>5. Flagged(IF_'[c], y, n, wanted[c])
    BY <1>2, <1>4 DEF Flagged, Early
  <1>6. Remembers(y, n, wanted[c], flags')
    BY <1>1, <1>2, <1>3 DEF Remembers
  <1>7. Ascending(y)
    BY <1>1, <1>2 DEF Ascending, Working
  <1>8. Owns(y) = Owns(x)
    BY <1>1, <1>2 DEF Owns, HeldLocks
  <1>9. Exclusive'
    BY <1>2, <1>3, <1>8, OwnersKept DEF x
  <1>10. QED
    BY <1>1, <1>2, <1>3, <1>4, <1>5, <1>6, <1>7, <1>9, ReplacedKeeps, Zenon DEF Types, n
(* The step is an acquire's exchange, on a lock that is free.              *)
LEMMA ExchangeKeeps ==
  ASSUME IInv, NEW c \in Cpus, Exchange(c)
  PROVE  IInv'
  <1> DEFINE x == top(c)
             y == [x EXCEPT !.pc = "save"]
             n == Len(ctx[c])
  <1>1. /\ Types /\ Exclusive /\ Flagged(IF_[c], x, n, wanted[c])
        /\ Remembers(x, n, wanted[c], flags)
        /\ Ascending(x) /\ x \in Context /\ x.pc = "exchange" /\ ~data[x.lock]
    BY Here DEF Exchange, At
  <1>2. /\ y \in Context /\ y.pc = "save" /\ y.lock = x.lock /\ y.saved = x.saved
        /\ y.held = x.held
    BY <1>1, Zenon DEF Context, Types, Early, Working
  <1>3. /\ Become(c, y) /\ IF_' = IF_ /\ wanted' = wanted /\ flags' = flags
        /\ data' = [data EXCEPT ![x.lock] = TRUE]
    BY DEF Exchange
  <1>4. top(c)' = y /\ \A c2 \in Cpus : c2 # c => top(c2)' = top(c2)
    BY <1>2, <1>3, Tops
  <1>5. x.lock \in Locks
    BY <1>1 DEF Ascending, Working
  <1>6. data' \in [Locks -> BOOLEAN] /\ data'[x.lock] /\ \A l \in Locks : l # x.lock => data'[l] = data[l]
    BY <1>1, <1>3, <1>5 DEF Types
  <1> HIDE DEF y, n
  <1>7. Owns(y) = Owns(x) \cup {x.lock}
    BY <1>1, <1>2 DEF Owns, HeldLocks
  <1> HIDE DEF x
  <1>8. Exclusive'
    <2>1. ASSUME NEW l \in Locks, data'[l]
          PROVE  \E c2 \in Cpus : l \in Owns(top(c2)')
      <3>1. CASE l = x.lock
        BY <3>1, <1>4, <1>7
      <3>2. CASE l # x.lock
        <4>1. PICK c2 \in Cpus : l \in Owns(top(c2))
          BY <1>1, <1>6, <2>1, <3>2 DEF Exclusive
        <4>2. QED
          BY <4>1, <1>4, <1>7 DEF x
      <3>3. QED
        BY <3>1, <3>2
    <2>2. ASSUME NEW c2 \in Cpus, NEW l \in Owns(top(c2)')
          PROVE  l \in Locks /\ data'[l]
      <3>1. l = x.lock \/ l \in Owns(top(c2))
        BY <1>4, <1>7 DEF x
      <3>2. QED
        BY <3>1, <1>1, <1>5, <1>6 DEF Exclusive
    <2>3. ASSUME NEW c2 \in Cpus, c2 # c
          PROVE  Owns(y) \cap Owns(top(c2)) = {}
      BY <2>3, <1>1, <1>7 DEF Exclusive, x
    <2>4. ASSUME NEW c1 \in Cpus, NEW c2 \in Cpus, Owns(top(c1)') \cap Owns(top(c2)') # {}
          PROVE  c1 = c2
      <3>1. CASE c1 = c
        BY <3>1, <2>3, <2>4, <1>4
      <3>2. CASE c2 = c
        BY <3>2, <2>3, <2>4, <1>4
      <3>3. CASE c1 # c /\ c2 # c
        BY <3>3, <2>4, <1>1, <1>4 DEF Exclusive
      <3>4. QED
        BY <3>1, <3>2, <3>3
    <2>5. QED
      BY <2>1, <2>2, <2>4 DEF Exclusive
  <1>9. Flagged(IF_'[c], y, n, wanted[c])
    BY <1>1, <1>2, <1>3 DEF Flagged, Early
  <1>10. Remembers(y, n, wanted[c], flags')
    BY <1>1, <1>2, <1>3 DEF Remembers
  <1>11. Ascending(y)
    BY <1>1, <1>2 DEF Ascending, Working
  <1>12. QED
    BY <1>1, <1>2, <1>3, <1>6, <1>8, <1>9, <1>10, <1>11, ReplacedKeeps, Zenon DEF Types, n

(* The step is a release's store.                                          *)
LEMMA StoreKeeps ==
  ASSUME IInv, NEW c \in Cpus, Store(c)
  PROVE  IInv'
  <1> DEFINE x == top(c)
             y == [x EXCEPT !.pc = "sti"]
             n == Len(ctx[c])
  <1>1. /\ Types /\ Exclusive /\ Flagged(IF_[c], x, n, wanted[c])
        /\ Remembers(x, n, wanted[c], flags)
        /\ Ascending(x) /\ x \in Context /\ x.pc = "store" /\ x.held \in Seq(Held)
        /\ \A j \in 1 .. Len(x.held) : x.held[j].lock \in Nat
    BY Here DEF Store, At
  <1>2. /\ y \in Context /\ y.pc = "sti" /\ y.lock = x.lock /\ y.saved = x.saved
        /\ y.held = x.held
    BY <1>1, Zenon DEF Context, Types, Early, Working
  <1>3. /\ Become(c, y) /\ IF_' = IF_ /\ wanted' = wanted /\ flags' = flags
        /\ data' = [data EXCEPT ![x.lock] = FALSE]
    BY DEF Store
  <1>4. top(c)' = y /\ \A c2 \in Cpus : c2 # c => top(c2)' = top(c2)
    BY <1>2, <1>3, Tops
  <1>5. x.lock \in Locks /\ x.lock \in Nat
    BY <1>1, LocksAssumption, Zenon DEF Ascending, Working
  <1>6. data' \in [Locks -> BOOLEAN] /\ ~data'[x.lock] /\ \A l \in Locks : l # x.lock => data'[l] = data[l]
    BY <1>1, <1>3, <1>5 DEF Types
  <1> HIDE DEF y, n
  <1>7. Owns(y) = Owns(x) \ {x.lock}
    <2>1. x.lock \notin HeldLocks(x)
      <3>1. \A j \in 1 .. Len(x.held) : x.held[j].lock < x.lock
        BY <1>1 DEF Ascending, Working
      <3>2. \A j \in DOMAIN x.held : x.held[j].lock # x.lock
        BY <1>1, <1>5, <3>1
      <3>3. QED
        BY <3>2 DEF HeldLocks
    <2>2. Owns(x) = HeldLocks(x) \cup {x.lock} /\ Owns(y) = HeldLocks(x)
      BY <1>1, <1>2 DEF Owns, HeldLocks
    <2>3. QED
      BY <2>1, <2>2
  <1>8. x.lock \in Owns(x)
    BY <1>1 DEF Owns
  <1> HIDE DEF x
  <1>9. Exclusive'
    <2>1. \A c2 \in Cpus : Owns(top(c2)') = Owns(top(c2)) \ {x.lock}
      <3>1. \A c2 \in Cpus : c2 # c => x.lock \notin Owns(top(c2))
        BY <1>1, <1>8 DEF Exclusive, x
      <3>2. QED
        BY <3>1, <1>4, <1>7 DEF x
    <2>2. ASSUME NEW l \in Locks, data'[l]
          PROVE  \E c2 \in Cpus : l \in Owns(top(c2)')
      BY <2>1, <2>2, <1>1, <1>6 DEF Exclusive
    <2>3. ASSUME NEW c2 \in Cpus, NEW l \in Owns(top(c2)')
          PROVE  l \in Locks /\ data'[l]
      BY <2>1, <1>1, <1>6 DEF Exclusive
    <2>4. ASSUME NEW c1 \in Cpus, NEW c2 \in Cpus, Owns(top(c1)') \cap Owns(top(c2)') # {}
          PROVE  c1 = c2
      BY <2>1, <2>4, <1>1 DEF Exclusive
    <2>5. QED
      BY <2>2, <2>3, <2>4 DEF Exclusive
  <1>10. Flagged(IF_'[c], y, n, wanted[c])
    BY <1>1, <1>2, <1>3 DEF Flagged, Early
  <1>11. Remembers(y, n, wanted[c], flags')
    BY <1>1, <1>2, <1>3 DEF Remembers
  <1>12. Ascending(y)
    BY <1>1, <1>2 DEF Ascending, Working
  <1>13. QED
    BY <1>1, <1>2, <1>3, <1>6, <1>9, <1>10, <1>11, <1>12, ReplacedKeeps, Zenon DEF Types, n

(* The step is a release's sti.                                            *)
LEMMA StiKeeps ==
  ASSUME IInv, NEW c \in Cpus, Sti(c)
  PROVE  IInv'
  <1> DEFINE x == top(c)
             y == [x EXCEPT !.pc = "run"]
             n == Len(ctx[c])
  <1>1. /\ Types /\ Flagged(IF_[c], x, n, wanted[c]) /\ Remembers(x, n, wanted[c], flags)
        /\ Ascending(x) /\ x \in Context /\ x.pc = "sti" /\ x.saved \in BOOLEAN
    BY Here DEF Sti, At
  <1>2. y \in Context /\ y.pc = "run" /\ y.held = x.held
    BY <1>1, Zenon DEF Context, Types, Early, Working
  <1>3. /\ Become(c, y) /\ wanted' = wanted /\ data' = data /\ flags' = flags
        /\ IF_' = [IF_ EXCEPT ![c] = @ \/ x.saved]
    BY DEF Sti
  <1>4. /\ IF_' \in [Cpus -> BOOLEAN] /\ IF_'[c] = (IF_[c] \/ x.saved)
        /\ \A c2 \in Cpus : c2 # c => IF_'[c2] = IF_[c2]
    BY <1>1, <1>3 DEF Types
  <1> HIDE DEF x, y, n
  <1>5. Flagged(IF_'[c], y, n, wanted[c])
    <2>1. ~IF_[c]
      BY <1>1 DEF Flagged, Early
    <2>2. x.saved <=> On(n, Len(x.held), wanted[c])
      BY <1>1 DEF Remembers
    <2>3. QED
      BY <2>1, <2>2, <1>2, <1>4 DEF Flagged, Early
  <1>6. Remembers(y, n, wanted[c], flags')
    BY <1>1, <1>2, <1>3 DEF Remembers
  <1>7. Ascending(y)
    BY <1>1, <1>2 DEF Ascending, Working
  <1>8. Owns(y) = Owns(x)
    BY <1>1, <1>2 DEF Owns, HeldLocks
  <1>9. Exclusive'
    BY <1>2, <1>3, <1>8, OwnersKept DEF x
  <1>10. QED
    BY <1>1, <1>2, <1>3, <1>4, <1>5, <1>6, <1>7, <1>9, ReplacedKeeps, Zenon DEF Types, n

(* The step is a guard's pushfq.                                           *)
LEMMA GuardPushfqKeeps ==
  ASSUME IInv, NEW c \in Cpus, GuardPushfq(c)
  PROVE  IInv'
  <1> DEFINE x == top(c)
             y == [x EXCEPT !.pc = "guard", !.saved = IF_[c]]
             n == Len(ctx[c])
  <1>1. /\ Types /\ Flagged(IF_[c], x, n, wanted[c]) /\ Remembers(x, n, wanted[c], flags)
        /\ Ascending(x) /\ x \in Context /\ x.pc = "run"
    BY Here DEF GuardPushfq, At
  <1>2. y \in Context /\ y.pc = "guard" /\ y.saved = IF_[c] /\ y.held = x.held
    BY <1>1, Zenon DEF Context, Types, Early, Working
  <1>3. Become(c, y) /\ IF_' = IF_ /\ wanted' = wanted /\ data' = data /\ flags' = flags
    BY DEF GuardPushfq
  <1> HIDE DEF x, y, n
  <1>4. Flagged(IF_'[c], y, n, wanted[c])
    BY <1>1, <1>2, <1>3 DEF Flagged, Early
  <1>5. Remembers(y, n, wanted[c], flags')
    BY <1>1, <1>2, <1>3 DEF Remembers, Flagged, Early
  <1>6. Ascending(y)
    BY <1>1, <1>2 DEF Ascending, Working
  <1>7. Owns(y) = Owns(x)
    BY <1>1, <1>2 DEF Owns, HeldLocks
  <1>8. Exclusive'
    BY <1>2, <1>3, <1>7, OwnersKept DEF x
  <1>9. QED
    BY <1>1, <1>2, <1>3, <1>4, <1>5, <1>6, <1>8, ReplacedKeeps, Zenon DEF Types, n
(* The step ends an acquire: flags = saved_flags.                          *)
LEMMA SaveKeeps ==
  ASSUME IInv, NEW c \in Cpus, Save(c)
  PROVE  IInv'
  <1> DEFINE x == top(c)
             h == [lock |-> x.lock, saved |-> FALSE]
             y == [x EXCEPT !.pc = "run", !.held = Append(x.held, h)]
             n == Len(ctx[c])
             k == Len(x.held)
  <1>1. /\ Types /\ Exclusive /\ Flagged(IF_[c], x, n, wanted[c])
        /\ Remembers(x, n, wanted[c], flags)
        /\ Ascending(x) /\ x \in Context /\ x.pc = "save" /\ x.held \in Seq(Held)
        /\ x.saved \in BOOLEAN
        /\ \A j \in 1 .. k : x.held[j] \in Held /\ x.held[j].lock \in Nat
    BY Here DEF Save, At
  <1>2. x.lock \in Locks /\ x.lock \in Nat \ {0} /\ \A j \in 1 .. k : x.held[j].lock < x.lock
    BY <1>1, LocksAssumption, Zenon DEF Ascending, Working
  <1>3. h \in Held /\ h.lock = x.lock
    BY <1>2 DEF Held
  <1>4. /\ Append(x.held, h) \in Seq(Held) /\ Len(Append(x.held, h)) = k + 1
        /\ Append(x.held, h)[k + 1] = h
        /\ \A j \in 1 .. k : Append(x.held, h)[j] = x.held[j]
        /\ Named(Append(x.held, h)) = Named(x.held) \cup ({h.lock} \ {0})
    BY <1>1, <1>3, Appended, Zenon
  <1>5. y \in Context /\ y.pc = "run" /\ y.held = Append(x.held, h)
    BY <1>1, <1>4, Zenon DEF Context, Types, Early, Working
  <1>6. /\ Become(c, y) /\ IF_' = IF_ /\ wanted' = wanted /\ data' = data
        /\ flags' = [flags EXCEPT ![x.lock] = x.saved]
    BY DEF Save
  <1>7. /\ flags' \in [Locks -> BOOLEAN] /\ flags'[x.lock] = x.saved
        /\ \A l \in Locks : l # x.lock => flags'[l] = flags[l]
    BY <1>1, <1>2, <1>6 DEF Types
  <1>8. k \in Nat
    BY <1>1
  <1>9. \A j \in 1 .. k : x.held[j].lock \in Locks \cup {0}
    <2>1. \A g \in Held : g.lock \in Locks \cup {0}
      BY DEF Held
    <2>2. QED
      BY <1>1, <2>1
  <1>10. x.lock \in Owns(x)
    BY <1>1 DEF Owns
  <1> HIDE DEF y, n, h, k
  <1>11. Owns(y) = Owns(x)
    <2>1. HeldLocks(y) = HeldLocks(x) \cup {x.lock}
      BY <1>2, <1>3, <1>4, <1>5, HeldNamed, Zenon
    <2>2. QED
      BY <2>1, <1>1, <1>5 DEF Owns
  <1> HIDE DEF x
  <1>12. Flagged(IF_'[c], y, n, wanted[c])
    <2>1. ~IF_[c]
      BY <1>1 DEF Flagged, Early
    <2>2. Len(y.held) # 0
      BY <1>4, <1>5, <1>8
    <2>3. QED
      BY <2>1, <2>2, <1>6 DEF Flagged, On
  <1>13. Remembers(y, n, wanted[c], flags')
    <2> SUFFICES ASSUME NEW j \in 1 .. k + 1
                 PROVE  Restores(y.held[j], flags') <=> On(n, j - 1, wanted[c])
      BY <1>4, <1>5 DEF Remembers
    <2>1. CASE j = k + 1
      <3>1. Restores(y.held[j], flags') = x.saved
        BY <2>1, <1>2, <1>3, <1>4, <1>5, <1>7 DEF Restores
      <3>2. x.saved <=> On(n, k, wanted[c])
        BY <1>1 DEF Remembers, k
      <3>3. j - 1 = k
        BY <2>1, <1>8
      <3>4. QED
        BY <3>1, <3>2, <3>3
    <2>2. CASE j \in 1 .. k
      <3>1. y.held[j] = x.held[j]
        BY <2>2, <1>4, <1>5
      <3>2. x.held[j].lock # x.lock
        BY <2>2, <1>1, <1>2
      <3>3. Restores(x.held[j], flags') = Restores(x.held[j], flags)
        BY <2>2, <3>2, <1>7, <1>9 DEF Restores
      <3>4. Restores(x.held[j], flags) <=> On(n, j - 1, wanted[c])
        BY <2>2, <1>1 DEF Remembers, k
      <3>5. QED
        BY <3>1, <3>3, <3>4
    <2>3. QED
      BY <2>1, <2>2, <1>8
  <1>14. Ascending(y)
    <2>1. ASSUME NEW i \in 1 .. k + 1, NEW j \in 1 .. k + 1, i < j, y.held[j].lock # 0
          PROVE  y.held[i].lock < y.held[j].lock
      <3>1. i \in 1 .. k /\ y.held[i] = x.held[i]
        BY <2>1, <1>4, <1>5, <1>8
      <3>2. CASE j = k + 1
        BY <3>1, <3>2, <1>2, <1>3, <1>4, <1>5
      <3>3. CASE j \in 1 .. k
        <4>1. y.held[j] = x.held[j]
          BY <3>3, <1>4, <1>5
        <4>2. QED
          BY <3>1, <3>3, <4>1, <2>1, <1>1 DEF Ascending, k
      <3>4. QED
        BY <3>2, <3>3, <1>8
    <2>2. QED
      BY <2>1, <1>4, <1>5 DEF Ascending, Working
  <1>15. Exclusive'
    BY <1>5, <1>6, <1>11, OwnersKept DEF x
  <1>16. ASSUME NEW c2 \in Cpus, c2 # c, NEW l \in HeldLocks(top(c2))
         PROVE  flags'[l] = flags[l]
    <2>1. l \in Owns(top(c2))
      BY DEF Owns
    <2>2. l \in Locks /\ l # x.lock
      BY <2>1, <1>16, <1>10, <1>1 DEF Exclusive, x
    <2>3. QED
      BY <2>2, <1>7
  <1>17. QED
    BY <1>1, <1>5, <1>6, <1>7, <1>12, <1>13, <1>14, <1>15, <1>16, ReplacedKeeps, Zenon DEF Types, n

(* The step begins a release: saved_flags = flags.                         *)
LEMMA LoadKeeps ==
  ASSUME IInv, NEW c \in Cpus, Load(c)
  PROVE  IInv'
  <1> DEFINE x == top(c)
             l == Last(x.held).lock
             y == [x EXCEPT !.pc = "store", !.lock = l, !.saved = flags[l], !.held = Front(x.held)]
             n == Len(ctx[c])
             k == Len(x.held)
  <1>1. /\ Types /\ Flagged(IF_[c], x, n, wanted[c]) /\ Remembers(x, n, wanted[c], flags)
        /\ Ascending(x) /\ x \in Context /\ x.pc = "run" /\ x.held \in Seq(Held)
        /\ x.held # <<>> /\ l # 0
        /\ \A j \in 1 .. k : x.held[j].lock \in Nat
    BY Here DEF Load, At
  <1>2. /\ Front(x.held) \in Seq(Held) /\ k \in Nat \ {0} /\ Len(Front(x.held)) = k - 1
        /\ Last(x.held) = x.held[k] /\ Last(x.held) \in Held
        /\ \A j \in 1 .. k - 1 : Front(x.held)[j] = x.held[j]
        /\ Named(x.held) = Named(Front(x.held)) \cup ({l} \ {0})
    BY <1>1, Fronted, Zenon
  <1>3. l \in Locks
    BY <1>1, <1>2 DEF Held
  <1>4. flags[l] \in BOOLEAN
    BY <1>1, <1>3 DEF Types
  <1>5. y \in Context /\ y.pc = "store" /\ y.lock = l /\ y.saved = flags[l] /\ y.held = Front(x.held)
    BY <1>1, <1>2, <1>3, <1>4, Zenon DEF Context, Early, Working
  <1>6. Become(c, y) /\ IF_' = IF_ /\ wanted' = wanted /\ data' = data /\ flags' = flags
    BY DEF Load
  <1> HIDE DEF y, n, k, l
  <1>7. Owns(y) = Owns(x)
    <2>1. HeldLocks(x) = HeldLocks(y) \cup {l}
      BY <1>1, <1>2, <1>5, HeldNamed
    <2>2. QED
      BY <2>1, <1>1, <1>5 DEF Owns
  <1> HIDE DEF x
  <1>8. Flagged(IF_'[c], y, n, wanted[c])
    <2>1. ~IF_[c]
      BY <1>1, <1>2 DEF Flagged, On, k
    <2>2. QED
      BY <2>1, <1>5, <1>6 DEF Flagged, Early
  <1>9. Remembers(y, n, wanted[c], flags')
    <2>1. y.saved <=> On(n, k - 1, wanted[c])
      <3>1. Restores(x.held[k], flags) <=> On(n, k - 1, wanted[c])
        BY <1>1, <1>2 DEF Remembers, k
      <3>2. Restores(x.held[k], flags) = flags[l]
        BY <1>1, <1>2 DEF Restores, l
      <3>3. QED
        BY <3>1, <3>2, <1>5
    <2>2. ASSUME NEW j \in 1 .. k - 1
          PROVE  Restores(y.held[j], flags') <=> On(n, j - 1, wanted[c])
      <3>1. y.held[j] = x.held[j] /\ j \in 1 .. k
        BY <1>2, <1>5
      <3>2. QED
        BY <3>1, <1>1, <1>6 DEF Remembers, k
    <2>3. Len(y.held) = k - 1
      BY <1>2, <1>5
    <2>4. QED
      BY <2>1, <2>2, <2>3 DEF Remembers
  <1>10. Ascending(y)
    <2>1. \A i \in 1 .. k - 1 : i \in 1 .. k /\ i < k /\ y.held[i] = x.held[i]
      BY <1>2, <1>5
    <2>2. Len(y.held) = k - 1
      BY <1>2, <1>5
    <2>3. k \in 1 .. k /\ x.held[k].lock = l
      BY <1>2 DEF l
    <2>4. ASSUME NEW i \in 1 .. k - 1
          PROVE  y.held[i].lock < l
      <3>1. i \in 1 .. k /\ i < k /\ y.held[i] = x.held[i]
        BY <2>1
      <3>2. i < k /\ x.held[k].lock # 0 => x.held[i].lock < x.held[k].lock
        BY <3>1, <2>3, <1>1 DEF Ascending, k
      <3>3. QED
        BY <3>1, <3>2, <2>3, <1>1
    <2>5. ASSUME NEW i \in 1 .. k - 1, NEW j \in 1 .. k - 1
          PROVE  i < j /\ y.held[j].lock # 0 => y.held[i].lock < y.held[j].lock
      <3>1. i \in 1 .. k /\ y.held[i] = x.held[i] /\ j \in 1 .. k /\ y.held[j] = x.held[j]
        BY <2>1
      <3>2. QED
        BY <3>1, <1>1 DEF Ascending, k
    <2>6. QED
      BY <2>2, <2>4, <2>5, <1>3, <1>5 DEF Ascending
  <1>11. Exclusive'
    BY <1>5, <1>6, <1>7, OwnersKept DEF x
  <1>12. QED
    BY <1>1, <1>5, <1>6, <1>8, <1>9, <1>10, <1>11, ReplacedKeeps, Zenon DEF Types, n
(* The step ends a guard's constructor: cli.                               *)
LEMMA GuardCliKeeps ==
  ASSUME IInv, NEW c \in Cpus, GuardCli(c)
  PROVE  IInv'
  <1> DEFINE x == top(c)
             h == [lock |-> 0, saved |-> x.saved]
             y == [x EXCEPT !.pc = "run", !.held = Append(x.held, h)]
             n == Len(ctx[c])
             k == Len(x.held)
  <1>1. /\ Types /\ Remembers(x, n, wanted[c], flags)
        /\ Ascending(x) /\ x \in Context /\ x.pc = "guard" /\ x.held \in Seq(Held)
        /\ x.saved \in BOOLEAN
    BY Here DEF GuardCli, At
  <1>2. h \in Held /\ h.lock = 0 /\ h.saved = x.saved
    BY <1>1 DEF Held
  <1>3. /\ Append(x.held, h) \in Seq(Held) /\ Len(Append(x.held, h)) = k + 1
        /\ Append(x.held, h)[k + 1] = h
        /\ \A j \in 1 .. k : Append(x.held, h)[j] = x.held[j]
        /\ Named(Append(x.held, h)) = Named(x.held) \cup ({h.lock} \ {0})
    BY <1>1, <1>2, Appended
  <1>4. y \in Context /\ y.pc = "run" /\ y.held = Append(x.held, h)
    BY <1>1, <1>3, Zenon DEF Context, Types, Early, Working
  <1>5. /\ Become(c, y) /\ wanted' = wanted /\ data' = data /\ flags' = flags
        /\ IF_' = [IF_ EXCEPT ![c] = FALSE]
    BY DEF GuardCli
  <1>6. IF_' \in [Cpus -> BOOLEAN] /\ IF_'[c] = FALSE /\ \A c2 \in Cpus : c2 # c => IF_'[c2] = IF_[c2]
    BY <1>1, <1>5 DEF Types
  <1>7. k \in Nat
    BY <1>1
  <1> HIDE DEF y, n, h, k
  <1>8. Owns(y) = Owns(x)
    <2>1. HeldLocks(y) = HeldLocks(x)
      BY <1>2, <1>3, <1>4, HeldNamed, Zenon
    <2>2. QED
      BY <2>1, <1>1, <1>4 DEF Owns
  <1> HIDE DEF x
  <1>9. Flagged(IF_'[c], y, n, wanted[c])
    <2>1. Len(y.held) # 0
      BY <1>3, <1>4, <1>7
    <2>2. QED
      BY <2>1, <1>6 DEF Flagged, On
  <1>10. Remembers(y, n, wanted[c], flags')
    <2> SUFFICES ASSUME NEW j \in 1 .. k + 1
                 PROVE  Restores(y.held[j], flags') <=> On(n, j - 1, wanted[c])
      BY <1>3, <1>4 DEF Remembers
    <2>1. CASE j = k + 1
      <3>1. Restores(y.held[j], flags') = x.saved
        BY <2>1, <1>2, <1>3, <1>4 DEF Restores
      <3>2. x.saved <=> On(n, k, wanted[c])
        BY <1>1 DEF Remembers, k
      <3>3. j - 1 = k
        BY <2>1, <1>7
      <3>4. QED
        BY <3>1, <3>2, <3>3
    <2>2. CASE j \in 1 .. k
      BY <2>2, <1>1, <1>3, <1>4, <1>5 DEF Remembers, k
    <2>3. QED
      BY <2>1, <2>2, <1>7
  <1>11. Ascending(y)
    <2>1. ASSUME NEW i \in 1 .. k + 1, NEW j \in 1 .. k + 1, i < j, y.held[j].lock # 0
          PROVE  y.held[i].lock < y.held[j].lock
      <3>1. i \in 1 .. k /\ y.held[i] = x.held[i]
        BY <2>1, <1>3, <1>4, <1>7
      <3>2. j # k + 1
        BY <2>1, <1>2, <1>3, <1>4
      <3>3. j \in 1 .. k /\ y.held[j] = x.held[j]
        BY <3>2, <1>3, <1>4, <1>7
      <3>4. QED
        BY <3>1, <3>3, <2>1, <1>1 DEF Ascending, k
    <2>2. QED
      BY <2>1, <1>3, <1>4 DEF Ascending, Working
  <1>12. Exclusive'
    BY <1>4, <1>5, <1>8, OwnersKept DEF x
  <1>13. QED
    BY <1>1, <1>4, <1>5, <1>6, <1>9, <1>10, <1>11, <1>12, ReplacedKeeps, Zenon DEF Types, n

(* The step is a guard's destructor.                                       *)
LEMMA GuardExitKeeps ==
  ASSUME IInv, NEW c \in Cpus, GuardExit(c)
  PROVE  IInv'
  <1> DEFINE x == top(c)
             g == Last(x.held)
             y == [x EXCEPT !.held = Front(x.held)]
             n == Len(ctx[c])
             k == Len(x.held)
  <1>1. /\ Types /\ Flagged(IF_[c], x, n, wanted[c]) /\ Remembers(x, n, wanted[c], flags)
        /\ Ascending(x) /\ x \in Context /\ x.pc = "run" /\ x.held \in Seq(Held)
        /\ x.held # <<>> /\ g.lock = 0
    BY Here DEF GuardExit, At
  <1>2. /\ Front(x.held) \in Seq(Held) /\ k \in Nat \ {0} /\ Len(Front(x.held)) = k - 1
        /\ g = x.held[k] /\ g \in Held
        /\ \A j \in 1 .. k - 1 : Front(x.held)[j] = x.held[j]
        /\ Named(x.held) = Named(Front(x.held)) \cup ({g.lock} \ {0})
    BY <1>1, Fronted
  <1>3. g.saved \in BOOLEAN
    BY <1>2 DEF Held
  <1>4. y \in Context /\ y.pc = "run" /\ y.held = Front(x.held)
    BY <1>1, <1>2 DEF Context, Early, Working
  <1>5. /\ Become(c, y) /\ wanted' = wanted /\ data' = data /\ flags' = flags
        /\ IF_' = [IF_ EXCEPT ![c] = @ \/ g.saved]
    BY DEF GuardExit
  <1>6. /\ IF_' \in [Cpus -> BOOLEAN] /\ IF_'[c] = (IF_[c] \/ g.saved)
        /\ \A c2 \in Cpus : c2 # c => IF_'[c2] = IF_[c2]
    BY <1>1, <1>3, <1>5 DEF Types
  <1> HIDE DEF y, n, k, g
  <1>7. Owns(y) = Owns(x)
    <2>1. HeldLocks(x) = HeldLocks(y)
      BY <1>1, <1>2, <1>4, HeldNamed, Zenon
    <2>2. QED
      BY <2>1, <1>1, <1>4 DEF Owns
  <1> HIDE DEF x
  <1>8. Len(y.held) = k - 1
    BY <1>2, <1>4
  <1>9. Flagged(IF_'[c], y, n, wanted[c])
    <2>1. ~IF_[c]
      BY <1>1, <1>2 DEF Flagged, On, k
    <2>2. g.saved <=> On(n, k - 1, wanted[c])
      <3>1. Restores(x.held[k], flags) <=> On(n, k - 1, wanted[c])
        BY <1>1, <1>2 DEF Remembers, k
      <3>2. Restores(x.held[k], flags) = g.saved
        BY <1>1, <1>2 DEF Restores
      <3>3. QED
        BY <3>1, <3>2
    <2>3. QED
      BY <2>1, <2>2, <1>4, <1>6, <1>8 DEF Flagged, Early
  <1>10. \A i \in 1 .. k - 1 : i \in 1 .. k /\ y.held[i] = x.held[i]
    BY <1>2, <1>4
  <1>11. Remembers(y, n, wanted[c], flags')
    BY <1>1, <1>4, <1>5, <1>8, <1>10 DEF Remembers, k
  <1>12. Ascending(y)
    BY <1>1, <1>4, <1>8, <1>10 DEF Ascending, Working, k
  <1>13. Exclusive'
    BY <1>4, <1>5, <1>7, OwnersKept DEF x
  <1>14. QED
    BY <1>1, <1>4, <1>5, <1>6, <1>9, <1>11, <1>12, <1>13, ReplacedKeeps, Zenon DEF Types, n

(* The thread sets or clears the flag itself.                              *)
LEMMA ToggleKeeps ==
  ASSUME IInv, NEW c \in Cpus, Toggle(c)
  PROVE  IInv'
  <1>1. /\ Types /\ Exclusive /\ top(c).pc = "run" /\ top(c).held = <<>> /\ Len(ctx[c]) = 1
        /\ top(c) = ctx[c][Len(ctx[c])]
    BY Here, Running DEF Toggle, At
  <1>2. /\ wanted' = [wanted EXCEPT ![c] = ~@] /\ IF_' = [IF_ EXCEPT ![c] = wanted'[c]]
        /\ data' = data /\ flags' = flags /\ ctx' = ctx
    BY DEF Toggle
  <1>3. /\ wanted' \in [Cpus -> BOOLEAN] /\ IF_' \in [Cpus -> BOOLEAN] /\ IF_'[c] = wanted'[c]
        /\ \A c2 \in Cpus : c2 # c => IF_'[c2] = IF_[c2] /\ wanted'[c2] = wanted[c2]
    BY <1>1, <1>2 DEF Types
  <1>4. Types'
    BY <1>1, <1>2, <1>3 DEF Types
  <1>5. Local(IF_'[c], wanted'[c], ctx'[c], flags')
    <2> DEFINE x == ctx[c][Len(ctx[c])]
             n == Len(ctx[c])
    <2>1. x.pc = "run" /\ Len(x.held) = 0 /\ n = 1
      BY <1>1
    <2> HIDE DEF x, n
    <2>2. Flagged(IF_'[c], x, n, wanted'[c])
      BY <2>1, <1>3 DEF Flagged, On, Early
    <2>3. Remembers(x, n, wanted'[c], flags') /\ Ascending(x)
      BY <2>1 DEF Remembers, Ascending, Working
    <2>4. n \in {1, 2} /\ n # 2
      BY <2>1
    <2>5. Local(IF_'[c], wanted'[c], ctx[c], flags')
      BY <2>2, <2>3, <2>4 DEF Local, x, n
    <2>6. QED
      BY <2>5, <1>2
  <1>6. ASSUME NEW c2 \in Cpus, c2 # c
        PROVE  Local(IF_'[c2], wanted'[c2], ctx'[c2], flags')
    BY <1>2, <1>3, <1>6 DEF IInv
  <1>7. Exclusive'
    BY <1>1, <1>2 DEF Exclusive, top
  <1>8. QED
    BY <1>4, <1>5, <1>6, <1>7 DEF IInv
(* A handler starts.                                                       *)
LEMMA InterruptKeeps ==
  ASSUME IInv, NEW c \in Cpus, Interrupt(c)
  PROVE  IInv'
  <1> DEFINE x == top(c)
             n == Len(ctx[c])
  <1>1. /\ Types /\ Exclusive /\ Flagged(IF_[c], x, n, wanted[c])
        /\ Remembers(x, n, wanted[c], flags) /\ Ascending(x) /\ x.held \in Seq(Held) /\ IF_[c]
        /\ x = ctx[c][n]
    BY Here, Running, Zenon DEF Interrupt
  <1>2. /\ IF_' = [IF_ EXCEPT ![c] = FALSE] /\ ctx' = [ctx EXCEPT ![c] = Append(ctx[c], Fresh)]
        /\ wanted' = wanted /\ data' = data /\ flags' = flags
    BY DEF Interrupt
  <1>3. n = 1 /\ Len(x.held) = 0 /\ wanted[c] /\ x.pc \in Early
    BY <1>1 DEF Flagged, On
  <1>4. x.held = <<>>
    BY <1>1, <1>3
  <1>5. ctx[c] \in Seq(Context)
    BY <1>1 DEF Types
  <1>6. /\ Fresh \in Context /\ Fresh.pc = "run" /\ Fresh.held = <<>> /\ Len(Fresh.held) = 0
    <2>1. <<>> \in Seq(Held)
      OBVIOUS
    <2>2. QED
      BY <2>1 DEF Fresh, Context, Early
  <1>7. /\ Append(ctx[c], Fresh) \in Seq(Context) /\ Len(Append(ctx[c], Fresh)) = 2
        /\ Append(ctx[c], Fresh)[1] = x /\ Append(ctx[c], Fresh)[2] = Fresh
    <2> DEFINE s == ctx[c]
    <2>1. s \in Seq(Context) /\ Len(s) = 1 /\ s[1] = x
      BY <1>1, <1>3, <1>5
    <2> HIDE DEF s, x, n
    <2>2. /\ Append(s, Fresh) \in Seq(Context) /\ Len(Append(s, Fresh)) = Len(s) + 1
          /\ \A i \in 1 .. Len(s) : Append(s, Fresh)[i] = s[i]
          /\ Append(s, Fresh)[Len(s) + 1] = Fresh
      <3>1. ASSUME NEW t \in Seq(Context), NEW f \in Context
            PROVE  /\ Append(t, f) \in Seq(Context) /\ Len(Append(t, f)) = Len(t) + 1
                   /\ \A i \in 1 .. Len(t) : Append(t, f)[i] = t[i]
                   /\ Append(t, f)[Len(t) + 1] = f
        OBVIOUS
      <3>2. s \in Seq(Context) /\ Fresh \in Context
        BY <2>1, <1>6
      <3>3. QED
        BY <3>1, <3>2, Zenon
    <2>3. QED
      BY <2>1, <2>2 DEF s
  <1>8. /\ ctx' \in [Cpus -> Seq(Context)] /\ ctx'[c] = Append(ctx[c], Fresh)
        /\ \A c2 \in Cpus : c2 # c => ctx'[c2] = ctx[c2]
    BY <1>1, <1>2, <1>7 DEF Types
  <1>9. /\ IF_' \in [Cpus -> BOOLEAN] /\ IF_'[c] = FALSE
        /\ \A c2 \in Cpus : c2 # c => IF_'[c2] = IF_[c2]
    BY <1>1, <1>2 DEF Types
  <1>10. Types'
    BY <1>1, <1>2, <1>8, <1>9 DEF Types
  <1>11. Local(IF_'[c], wanted'[c], ctx'[c], flags')
    <2> DEFINE s == Append(ctx[c], Fresh)
    <2>1. Len(s) = 2 /\ s[1] = x /\ s[2] = Fresh
      BY <1>7
    <2> HIDE DEF s, x, n
    <2>2. Interrupted(x, wanted[c])
      <3>1. x.pc # "run" => x.saved
        BY <1>1, <1>3 DEF Remembers, On
      <3>2. x.pc \in Working => x.lock \in Locks
        BY <1>1 DEF Ascending
      <3>3. QED
        BY <3>1, <3>2, <1>3, <1>4 DEF Interrupted
    <2>3. Flagged(FALSE, Fresh, 2, wanted[c])
      BY DEF Flagged, On
    <2>4. Remembers(Fresh, 2, wanted[c], flags) /\ Ascending(Fresh)
      BY <1>6 DEF Remembers, Ascending, Working
    <2>5. Local(FALSE, wanted[c], s, flags)
      BY <2>1, <2>2, <2>3, <2>4, Zenon DEF Local
    <2>6. QED
      BY <2>5, <1>2, <1>8, <1>9, Zenon DEF s
  <1>12. ASSUME NEW c2 \in Cpus, c2 # c
         PROVE  Local(IF_'[c2], wanted'[c2], ctx'[c2], flags')
    BY <1>2, <1>8, <1>9, <1>12 DEF IInv
  <1>13. Exclusive'
    <2>1. top(c)' = Fresh /\ \A c2 \in Cpus : c2 # c => top(c2)' = top(c2)
      BY <1>7, <1>8 DEF top, Last
    <2>2. Owns(Fresh) = {} /\ Owns(x) = {}
      BY <1>3, <1>4, <1>6 DEF Owns, HeldLocks, Early
    <2>3. \A c2 \in Cpus : Owns(top(c2)') = Owns(top(c2))
      BY <2>1, <2>2, Zenon
    <2>4. QED
      BY <2>3, <1>1, <1>2 DEF Exclusive
  <1>14. QED
    BY <1>10, <1>11, <1>12, <1>13 DEF IInv

(* A handler returns.                                                      *)
LEMMA IretqKeeps ==
  ASSUME IInv, NEW c \in Cpus, Iretq(c)
  PROVE  IInv'
  <1> DEFINE x == ctx[c][1]
  <1>1. /\ Types /\ Exclusive /\ Len(ctx[c]) = 2 /\ Interrupted(x, wanted[c])
        /\ top(c).pc = "run" /\ top(c).held = <<>>
    <2>1. Local(IF_[c], wanted[c], ctx[c], flags) /\ Len(ctx[c]) \in {1, 2}
      BY DEF IInv, Local
    <2>2. Len(ctx[c]) = 2
      <3>1. (Len(ctx[c]) = 1 \/ Len(ctx[c]) = 2) /\ Len(ctx[c]) > 1
        BY <2>1, Depth DEF Iretq
      <3>2. QED
        BY <3>1
    <2>3. QED
      BY <2>1, <2>2, Here DEF Iretq, At, Local
  <1>2. /\ IF_' = [IF_ EXCEPT ![c] = TRUE] /\ ctx' = [ctx EXCEPT ![c] = Front(ctx[c])]
        /\ wanted' = wanted /\ data' = data /\ flags' = flags
    BY DEF Iretq
  <1>3. ctx[c] \in Seq(Context) /\ x \in Context
    <2>1. ctx[c] \in Seq(Context)
      BY <1>1 DEF Types
    <2>2. \A s \in Seq(Context) : Len(s) = 2 => s[1] \in Context
      OBVIOUS
    <2>3. QED
      BY <1>1, <2>1, <2>2
  <1>4. Front(ctx[c]) \in Seq(Context) /\ Len(Front(ctx[c])) = 1 /\ Front(ctx[c])[1] = x
    <2>1. \A i \in 1 .. 1 : ctx[c][i] \in Context
      BY <1>3
    <2>2. Front(ctx[c]) = SubSeq(ctx[c], 1, 1)
      BY <1>1 DEF Front
    <2>3. /\ SubSeq(ctx[c], 1, 1) \in Seq(Context)
          /\ Len(SubSeq(ctx[c], 1, 1)) = IF 1 <= 1 THEN 1 - 1 + 1 ELSE 0
          /\ \A i \in 1 .. 1 - 1 + 1 : SubSeq(ctx[c], 1, 1)[i] = ctx[c][1 + i - 1]
      <3>1. 1 \in Int
        OBVIOUS
      <3>2. QED
        BY <2>1, <3>1, SeqPart
    <2>4. QED
      BY <2>2, <2>3
  <1>5. /\ ctx' \in [Cpus -> Seq(Context)] /\ ctx'[c] = Front(ctx[c])
        /\ \A c2 \in Cpus : c2 # c => ctx'[c2] = ctx[c2]
    BY <1>1, <1>2, <1>4 DEF Types
  <1>6. /\ IF_' \in [Cpus -> BOOLEAN] /\ IF_'[c] = TRUE
        /\ \A c2 \in Cpus : c2 # c => IF_'[c2] = IF_[c2]
    BY <1>1, <1>2 DEF Types
  <1>7. Types'
    BY <1>1, <1>2, <1>5, <1>6 DEF Types
  <1>8. Len(x.held) = 0
    BY <1>1 DEF Interrupted
  <1>9. Local(IF_'[c], wanted'[c], ctx'[c], flags')
    <2> DEFINE s == Front(ctx[c])
    <2>1. Len(s) = 1 /\ s[1] = x
      BY <1>4
    <2> HIDE DEF s, x
    <2>2. Flagged(TRUE, x, 1, wanted[c])
      BY <1>1, <1>8 DEF Flagged, On, Interrupted
    <2>3. Remembers(x, 1, wanted[c], flags)
      BY <1>1, <1>8 DEF Remembers, On, Interrupted
    <2>4. Ascending(x)
      BY <1>1, <1>8 DEF Ascending, Interrupted
    <2>5. Local(TRUE, wanted[c], s, flags)
      <3>1. Len(s) \in {1, 2} /\ Len(s) # 2
        BY <2>1
      <3>2. QED
        BY <2>1, <2>2, <2>3, <2>4, <3>1, Zenon DEF Local
    <2>6. QED
      BY <2>5, <1>2, <1>5, <1>6, Zenon DEF s
  <1>10. ASSUME NEW c2 \in Cpus, c2 # c
         PROVE  Local(IF_'[c2], wanted'[c2], ctx'[c2], flags')
    BY <1>2, <1>5, <1>6, <1>10 DEF IInv
  <1>11. Exclusive'
    <2>1. top(c)' = x /\ \A c2 \in Cpus : c2 # c => top(c2)' = top(c2)
      BY <1>4, <1>5 DEF top, Last
    <2>2. Owns(top(c)) = {} /\ Owns(x) = {}
      BY <1>1 DEF Owns, HeldLocks, Early, Interrupted
    <2>3. \A c2 \in Cpus : Owns(top(c2)') = Owns(top(c2))
      BY <2>1, <2>2
    <2>4. QED
      BY <2>3, <1>1, <1>2 DEF Exclusive
  <1>12. QED
    BY <1>7, <1>9, <1>10, <1>11 DEF IInv
-----------------------------------------------------------------------------
(* The invariant holds at first: no CPU holds anything.                    *)
LEMMA Starts ==
  ASSUME LocksInit
  PROVE  IInv
  <1>1. /\ Fresh \in Context /\ Fresh.pc = "run" /\ Fresh.held = <<>> /\ Len(Fresh.held) = 0
    <2>1. <<>> \in Seq(Held)
      OBVIOUS
    <2>2. QED
      BY <2>1 DEF Fresh, Context, Early
  <1>2. <<Fresh>> \in Seq(Context) /\ Len(<<Fresh>>) = 1 /\ <<Fresh>>[1] = Fresh
    BY <1>1
  <1>3. Types
    BY <1>2 DEF LocksInit, Types
  <1>4. ASSUME NEW c \in Cpus
        PROVE  Local(IF_[c], wanted[c], ctx[c], flags)
    <2>1. ctx[c] = <<Fresh>> /\ wanted[c] = IF_[c] /\ IF_[c] \in BOOLEAN
      BY DEF LocksInit
    <2>2. Flagged(IF_[c], Fresh, 1, IF_[c])
      BY <1>1 DEF Flagged, On, Early
    <2>3. Remembers(Fresh, 1, IF_[c], flags) /\ Ascending(Fresh)
      BY <1>1 DEF Remembers, Ascending, Working
    <2> DEFINE s == <<Fresh>>
    <2>4. Len(s) = 1 /\ s[1] = Fresh
      BY <1>2
    <2> HIDE DEF s
    <2>5. Local(IF_[c], IF_[c], s, flags)
      BY <2>2, <2>3, <2>4 DEF Local
    <2>6. QED
      BY <2>1, <2>5 DEF s
  <1>5. Exclusive
    <2>1. \A c \in Cpus : top(c) = Fresh
      BY <1>2, Zenon DEF LocksInit, top, Last
    <2>2. Owns(Fresh) = {}
      BY <1>1 DEF Owns, HeldLocks
    <2>3. QED
      BY <2>1, <2>2 DEF Exclusive, LocksInit
  <1>6. QED
    BY <1>3, <1>4, <1>5 DEF IInv

(* Every step keeps the invariant.                                         *)
LEMMA Steps ==
  ASSUME IInv, [LocksNext]_lockvars
  PROVE  IInv'
  <1>1. CASE LocksNext
    <2> SUFFICES ASSUME NEW c \in Cpus,
                        \/ \E l \in Locks : Pushfq(c, l)
                        \/ Cli(c) \/ Exchange(c) \/ Save(c)
                        \/ Load(c) \/ Store(c) \/ Sti(c)
                        \/ GuardPushfq(c) \/ GuardCli(c) \/ GuardExit(c)
                        \/ Toggle(c) \/ Interrupt(c) \/ Iretq(c)
                 PROVE  IInv'
      BY <1>1 DEF LocksNext
    <2>1. QED
      BY PushfqKeeps, CliKeeps, ExchangeKeeps, SaveKeeps, LoadKeeps, StoreKeeps, StiKeeps,
         GuardPushfqKeeps, GuardCliKeeps, GuardExitKeeps, ToggleKeeps, InterruptKeeps, IretqKeeps
  <1>2. CASE UNCHANGED lockvars
    BY <1>2 DEF lockvars, IInv, Types, Local, Exclusive, top
  <1>3. QED
    BY <1>1, <1>2

LEMMA Inductive == LocksSpec => []IInv
  BY Starts, Steps, PTL DEF LocksSpec
-----------------------------------------------------------------------------
(* A context below the running one owns nothing.                           *)
LEMMA BelowOwnsNothing ==
  ASSUME IInv, NEW c \in Cpus, NEW i \in 1 .. Len(ctx[c]) - 1
  PROVE  Owns(ctx[c][i]) = {}
  <1>1. Len(ctx[c]) \in {1, 2} /\ (Len(ctx[c]) = 2 => Interrupted(ctx[c][1], wanted[c]))
    BY DEF IInv, Local
  <1>2. Len(ctx[c]) = 2 /\ i = 1
    <2>1. (Len(ctx[c]) = 1 \/ Len(ctx[c]) = 2) /\ i \in 1 .. Len(ctx[c]) - 1
      BY <1>1, Depth
    <2>2. \A n, j : (n = 1 \/ n = 2) /\ j \in 1 .. n - 1 => n = 2 /\ j = 1
      OBVIOUS
    <2>3. QED
      BY <2>1, <2>2, Zenon
  <1>3. QED
    BY <1>1, <1>2 DEF Interrupted, Owns, HeldLocks, Early

(* For any number of CPUs and locks and any depth of handlers and guards,  *)
(* no handler runs on top of a context that owns a lock.                   *)
THEOREM HandlersNeverSpin == LocksSpec => []HandlersFindLocksFree
  <1>1. IInv => HandlersFindLocksFree
    BY BelowOwnsNothing, Zenon DEF HandlersFindLocksFree
  <1>2. QED
    BY <1>1, Inductive, PTL

(* However many locks and guards nest, in whatever order their releases    *)
(* restore the flag: where a context runs, interrupts are on exactly if it *)
(* is the thread, holds nothing and had them on.                           *)
THEOREM InterruptsRestored == LocksSpec => []InterruptsAsLeft
  <1>1. IInv => InterruptsAsLeft
    <2> SUFFICES ASSUME IInv, NEW c \in Cpus, top(c).pc = "run"
                 PROVE  IF_[c] <=> Len(ctx[c]) = 1 /\ top(c).held = <<>> /\ wanted[c]
      BY DEF InterruptsAsLeft, At
    <2>1. /\ Flagged(IF_[c], top(c), Len(ctx[c]), wanted[c]) /\ top(c).held \in Seq(Held)
      BY Here
    <2>2. top(c).held = <<>> <=> Len(top(c).held) = 0
      BY <2>1
    <2>3. QED
      BY <2>1, <2>2 DEF Flagged, On, Early
  <1>2. QED
    BY <1>1, Inductive, PTL

(* A lock has at most one owner over all CPUs and the contexts on them,    *)
(* and its data is set exactly while it has one.                           *)
THEOREM LocksExclude == LocksSpec => []OneOwner
  <1>1. IInv => OneOwner
    <2> SUFFICES ASSUME IInv, NEW l \in Locks
                 PROVE  LET owners == {k \in Contexts : l \in Owns(ctx[k[1]][k[2]])}
                        IN  (\A j, k \in owners : j = k) /\ (data[l] <=> owners # {})
      BY DEF OneOwner
    <2> DEFINE owners == {k \in Contexts : l \in Owns(ctx[k[1]][k[2]])}
    <2>1. ASSUME NEW k \in owners
          PROVE  \E c \in Cpus : k = <<c, Len(ctx[c])>> /\ l \in Owns(top(c))
      <3>0. PICK c \in Cpus : \E i \in DOMAIN ctx[c] : k = <<c, i>>
        BY DEF Contexts
      <3>1. PICK i \in DOMAIN ctx[c] : k = <<c, i>>
        BY <3>0
      <3>2. l \in Owns(ctx[c][i])
        BY <3>1, Zenon
      <3>3. Types /\ Len(ctx[c]) \in {1, 2} /\ top(c) = ctx[c][Len(ctx[c])]
        BY Here, Running
      <3>4. i \in 1 .. Len(ctx[c])
        BY <3>3 DEF Types
      <3>5. i = Len(ctx[c])
        <4>1. i \notin 1 .. Len(ctx[c]) - 1
          BY <3>2, BelowOwnsNothing, Zenon
        <4>2. Len(ctx[c]) \in Nat
          BY <3>3, Depth
        <4>3. QED
          BY <3>4, <4>1, <4>2
      <3>6. QED
        BY <3>1, <3>2, <3>3, <3>5
    <2>2. ASSUME NEW c \in Cpus, l \in Owns(top(c))
          PROVE  <<c, Len(ctx[c])>> \in owners
      <3>1. Types /\ Len(ctx[c]) \in {1, 2} /\ top(c) = ctx[c][Len(ctx[c])]
        BY Here, Running
      <3>2. Len(ctx[c]) \in DOMAIN ctx[c]
        <4>1. Len(ctx[c]) \in 1 .. Len(ctx[c])
          BY <3>1, Depth, Zenon
        <4>2. DOMAIN ctx[c] = 1 .. Len(ctx[c])
          BY <3>1 DEF Types
        <4>3. QED
          BY <4>1, <4>2
      <3>3. <<c, Len(ctx[c])>> \in Contexts
        BY <3>2 DEF Contexts
      <3>4. QED
        BY <3>1, <3>3, <2>2
    <2>3. Exclusive
      BY DEF IInv
    <2>4. data[l] <=> owners # {}
      BY <2>1, <2>2, <2>3, Zenon DEF Exclusive
    <2>5. \A j, k \in owners : j = k
      BY <2>1, <2>3, Zenon DEF Exclusive
    <2>6. QED
      BY <2>4, <2>5
  <1>2. QED
    BY <1>1, Inductive, PTL
-----------------------------------------------------------------------------
(* The keyboard.                                                           *)

(* The bytes that end a key, and the replies of the controller or nothing. *)
Releases == {b + 128 : b \in Keys}

KeyBytes == Keys \cup Releases

Quiet == {0, ACK, RESEND}

(* The buffer: size counts what lies between the indices.                  *)
Buffers ==
  [cap : [0 .. N - 1 -> Int], read : 0 .. N - 1, write : 0 .. N - 1, size : Int]

BufOK(b) == b \in Buffers /\ b.size = (b.write - b.read) % N

Keyboards ==
  [data : Buffers, signal : {"Ack", "Nack", "Error"}, nack_count : Nat,
   state_machine : {"None", "E0"}, last_data : {SCANNING_BYTE}]

Devices == [todo : Seq(Int), cmd : {0, SCANNING_BYTE}, sends : Nat]

TypeOK ==
  /\ kbd \in Keyboards /\ device \in Devices
  /\ port \in BOOLEAN /\ panicked \in BOOLEAN
  /\ typed \in Seq(Int) /\ taken \in Seq(Int)

(* Where the bytes of the key that is being sent are: in the keyboard, the *)
(* prefix in the controller, the prefix seen, and so on.                   *)
Waiting(o, todo, state) == o \in Quiet /\ state = "None" /\ todo = <<>>

Whole(o, todo, state, b) == o \in Quiet /\ state = "None" /\ todo \in {<<b>>, <<E0, b>>}

Prefixed(o, todo, state, b) == o = E0 /\ state = "None" /\ todo = <<b>>

Seen(o, todo, state, b) == o \in Quiet /\ state = "E0" /\ todo = <<b>>

Ending(o, todo, state, b) == o = b /\ todo = <<>>

BytesOK(o, todo, state) ==
  \/ Waiting(o, todo, state)
  \/ \E b \in KeyBytes : \/ Whole(o, todo, state, b) \/ Prefixed(o, todo, state, b)
                         \/ Seen(o, todo, state, b) \/ Ending(o, todo, state, b)

(* A command that is not acknowledged was sent once more than it was       *)
(* refused.  Giving up turns the port off, and nothing answers any more.   *)
RetryOK ==
  /\ kbd.nack_count < MAX_RETRY
  /\ device.cmd # 0 => obf \notin {ACK, RESEND} /\ device.sends = kbd.nack_count + 1
  /\ obf = RESEND => device.sends = kbd.nack_count + 1
  /\ obf = ACK => device.sends = 0
  /\ kbd.signal = "Error" => ~port /\ obf \notin {ACK, RESEND} /\ device.cmd = 0
  /\ device.sends <= MAX_RETRY

KbdIInv ==
  /\ TypeOK /\ BufOK(kbd.data) /\ BytesOK(obf, device.todo, kbd.state_machine) /\ RetryOK
  /\ KeysInOrder
-----------------------------------------------------------------------------
(* The ring buffer.                                                        *)
LEMMA Modulo ==
  ASSUME NEW r \in 0 .. N - 1
  PROVE  /\ \A j \in 0 .. N - 1 : (r + j) % N = IF r + j < N THEN r + j ELSE r + j - N
         /\ \A w \in 0 .. N - 1 : (w - r) % N = IF w >= r THEN w - r ELSE w - r + N
         /\ (r + 1) % N = IF r + 1 = N THEN 0 ELSE r + 1
  <1> USE NAssumption
  <1>1. ASSUME NEW a \in 0 .. N - 1 PROVE a % N = a /\ (a + N) % N = a /\ (a - N) % N = a
    BY <1>1
  <1>2. \A j \in 0 .. N - 1 : (r + j) % N = IF r + j < N THEN r + j ELSE r + j - N
    <2> TAKE j \in 0 .. N - 1
    <2>1. CASE r + j < N
      BY <1>1, <2>1
    <2>2. CASE r + j >= N
      <3>1. r + j - N \in 0 .. N - 1 /\ (r + j - N) + N = r + j
        BY <2>2
      <3>2. QED
        BY <1>1, <2>2, <3>1
    <2>3. QED
      BY <2>1, <2>2
  <1>3. \A w \in 0 .. N - 1 : (w - r) % N = IF w >= r THEN w - r ELSE w - r + N
    <2> TAKE w \in 0 .. N - 1
    <2>1. CASE w >= r
      BY <1>1, <2>1
    <2>2. CASE w < r
      <3>1. w - r + N \in 0 .. N - 1 /\ (w - r + N) - N = w - r
        BY <2>2
      <3>2. QED
        BY <1>1, <2>2, <3>1
    <2>3. QED
      BY <2>1, <2>2
  <1>4. (r + 1) % N = IF r + 1 = N THEN 0 ELSE r + 1
    BY <1>2
  <1>5. QED
    BY <1>2, <1>3, <1>4

(* What n elements between the indices r and w make of the arithmetic.     *)
RingFacts(w, r, n) ==
  /\ n \in 0 .. N - 1 /\ (n = 0 <=> w = r) /\ (n = N - 1 <=> (w + 1) % N = r)
  /\ (w + 1) % N \in 0 .. N - 1 /\ (r + 1) % N \in 0 .. N - 1
  /\ n # N - 1 => (((w + 1) % N) - r) % N = n + 1
  /\ n # 0 => (w - ((r + 1) % N)) % N = n - 1
  /\ \A i \in 1 .. n : (r + i - 1) % N \in 0 .. N - 1 /\ (r + i - 1) % N # w
  /\ (r + (n + 1) - 1) % N = w
  /\ \A i \in 2 .. n : (((r + 1) % N) + (i - 1) - 1) % N = (r + i - 1) % N
  /\ (r + 1 - 1) % N = r

LEMMA Ring ==
  ASSUME NEW w \in 0 .. N - 1, NEW r \in 0 .. N - 1
  PROVE  RingFacts(w, r, (w - r) % N)
  <1> DEFINE n == (w - r) % N
  <1>0. N \in Nat /\ N >= 2 /\ w \in Int /\ r \in Int /\ 0 <= w /\ w < N /\ 0 <= r /\ r < N
    BY NAssumption
  <1>1. n \in Int /\ n = (w - r) % N
    BY <1>0
  <1> HIDE DEF n
  <1>2. n = IF w >= r THEN w - r ELSE w - r + N
    BY <1>1, Modulo
  <1>3. 0 <= n /\ n <= N - 1 /\ (n = 0 <=> w = r)
    BY <1>0, <1>2
  <1>4. PICK u \in Int : u = (w + 1) % N
    BY <1>0
  <1>5. u = IF w + 1 = N THEN 0 ELSE w + 1
    BY <1>4, Modulo
  <1>6. u \in 0 .. N - 1
    BY <1>0, <1>5
  <1>7. n = N - 1 <=> u = r
    BY <1>0, <1>2, <1>5
  <1>8. n # N - 1 => (u - r) % N = n + 1
    <2>1. (u - r) % N = IF u >= r THEN u - r ELSE u - r + N
      BY <1>6, Modulo
    <2>2. n # N - 1 => (IF u >= r THEN u - r ELSE u - r + N) = n + 1
      BY <1>0, <1>2, <1>5
    <2>3. QED
      BY <2>1, <2>2
  <1>9. PICK v \in Int : v = (r + 1) % N
    BY <1>0
  <1>10. v = IF r + 1 = N THEN 0 ELSE r + 1
    BY <1>9, Modulo
  <1>11. v \in 0 .. N - 1
    BY <1>0, <1>10
  <1>12. n # 0 => (w - v) % N = n - 1
    <2>1. (w - v) % N = IF w >= v THEN w - v ELSE w - v + N
      BY <1>11, Modulo
    <2>2. n # 0 => (IF w >= v THEN w - v ELSE w - v + N) = n - 1
      BY <1>0, <1>2, <1>10
    <2>3. QED
      BY <2>1, <2>2
  <1>13. ASSUME NEW j \in 0 .. N - 1
         PROVE  (r + (j + 1) - 1) % N = IF r + j < N THEN r + j ELSE r + j - N
    <2>1. r + (j + 1) - 1 = r + j
      BY <1>0, <1>13
    <2>2. QED
      BY <2>1, Modulo
  <1>14. ASSUME NEW i \in 1 .. n
         PROVE  (r + i - 1) % N \in 0 .. N - 1 /\ (r + i - 1) % N # w
    <2>1. PICK j \in 0 .. N - 1 : i = j + 1 /\ j < n
      BY <1>1, <1>3, <1>0
    <2>2. (r + i - 1) % N = IF r + j < N THEN r + j ELSE r + j - N
      BY <1>13, <2>1
    <2>3. LET x == IF r + j < N THEN r + j ELSE r + j - N IN x \in 0 .. N - 1 /\ x # w
      BY <1>0, <1>2, <2>1
    <2>4. QED
      BY <2>2, <2>3
  <1>15. (r + (n + 1) - 1) % N = w
    <2>1. n \in 0 .. N - 1
      BY <1>0, <1>1, <1>3
    <2>2. (IF r + n < N THEN r + n ELSE r + n - N) = w
      BY <1>0, <1>2
    <2>3. QED
      BY <1>13, <2>1, <2>2
  <1>16. ASSUME NEW i \in 2 .. n
         PROVE  (v + (i - 1) - 1) % N = (r + i - 1) % N
    <2>1. PICK j \in 0 .. N - 1 : i = j + 2 /\ j + 1 \in 0 .. N - 1
      <3>1. i - 2 \in 0 .. N - 1 /\ i = (i - 2) + 2 /\ (i - 2) + 1 \in 0 .. N - 1
        BY <1>0, <1>1, <1>3
      <3>2. QED
        BY <3>1
    <2>2. v + (i - 1) - 1 = v + j /\ r + i - 1 = r + (j + 1)
      BY <1>0, <2>1
    <2>3. (v + j) % N = IF v + j < N THEN v + j ELSE v + j - N
      BY <1>11, Modulo
    <2>4. (r + (j + 1)) % N = IF r + (j + 1) < N THEN r + (j + 1) ELSE r + (j + 1) - N
      BY <2>1, Modulo
    <2>5. (IF v + j < N THEN v + j ELSE v + j - N) =
            (IF r + (j + 1) < N THEN r + (j + 1) ELSE r + (j + 1) - N)
      BY <1>0, <1>10, <2>1
    <2>6. QED
      BY <2>2, <2>3, <2>4, <2>5
  <1>17. (r + 1 - 1) % N = r
    <2>1. r + 1 - 1 = r + 0 /\ 0 \in 0 .. N - 1
      BY <1>0
    <2>2. (r + 0) % N = IF r + 0 < N THEN r + 0 ELSE r + 0 - N
      BY <2>1, Modulo
    <2>3. QED
      BY <1>0, <2>1, <2>2
  <1>18. n \in 0 .. N - 1
    BY <1>0, <1>1, <1>3
  <1>19. QED
    BY <1>1, <1>3, <1>4, <1>6, <1>7, <1>8, <1>9, <1>11, <1>12, <1>14, <1>15, <1>16, <1>17, <1>18, Zenon
       DEF RingFacts, n

(* What the buffer holds is a sequence; it is full with N - 1 elements.    *)
LEMMA BufHolds ==
  ASSUME NEW b, BufOK(b)
  PROVE  /\ Contents(b) \in Seq(Int) /\ Len(Contents(b)) = b.size /\ b.size \in 0 .. N - 1
         /\ is_full(b) <=> b.size = N - 1
         /\ is_empty(b) <=> b.size = 0
  <1>1. /\ b.write \in 0 .. N - 1 /\ b.read \in 0 .. N - 1 /\ b.cap \in [0 .. N - 1 -> Int]
        /\ b.size = (b.write - b.read) % N
    BY DEF BufOK, Buffers
  <1>2. PICK n : n = (b.write - b.read) % N
    OBVIOUS
  <1>r. RingFacts(b.write, b.read, n)
    BY <1>1, <1>2, Ring
  <1>3. /\ n \in 0 .. N - 1 /\ (n = 0 <=> b.write = b.read)
        /\ (n = N - 1 <=> (b.write + 1) % N = b.read)
        /\ \A i \in 1 .. n : (b.read + i - 1) % N \in 0 .. N - 1
    BY <1>r DEF RingFacts
  <1>4. \A i \in 1 .. n : b.cap[(b.read + i - 1) % N] \in Int
    BY <1>1, <1>3, Zenon
  <1>5. Contents(b) = [i \in 1 .. n |-> b.cap[(b.read + i - 1) % N]]
    BY <1>2 DEF Contents
  <1>6. n \in Nat
    BY <1>3
  <1>7. Contents(b) \in Seq(Int) /\ Len(Contents(b)) = n
    BY <1>4, <1>5, <1>6
  <1>8. (is_full(b) <=> n = N - 1) /\ (is_empty(b) <=> n = 0)
    BY <1>3 DEF is_full, is_empty
  <1>9. QED
    BY <1>1, <1>2, <1>3, <1>7, <1>8

(* buf_write puts one element behind the others, buf_read takes the first. *)
LEMMA BufWrite ==
  ASSUME NEW b, BufOK(b), ~is_full(b), NEW d \in Int
  PROVE  /\ BufOK(buf_write(b, d))
         /\ Contents(buf_write(b, d)) = Append(Contents(b), d)
  <1> DEFINE c == buf_write(b, d)
  <1>1. /\ b.write \in 0 .. N - 1 /\ b.read \in 0 .. N - 1 /\ b.cap \in [0 .. N - 1 -> Int]
        /\ b.size = (b.write - b.read) % N
    BY DEF BufOK, Buffers
  <1>2. PICK w, r, n : w = b.write /\ r = b.read /\ n = b.size
    OBVIOUS
  <1>r. RingFacts(w, r, n)
    BY <1>1, <1>2, Ring
  <1>3. /\ c.cap = [b.cap EXCEPT ![w] = d] /\ c.write = (w + 1) % N /\ c.read = r /\ c.size = n + 1
    BY <1>2 DEF buf_write, BufOK, Buffers
  <1> HIDE DEF c
  <1>4. /\ n \in 0 .. N - 1 /\ (w + 1) % N \in 0 .. N - 1
        /\ n # N - 1 /\ (((w + 1) % N) - r) % N = n + 1
        /\ \A i \in 1 .. n : (r + i - 1) % N \in 0 .. N - 1 /\ (r + i - 1) % N # w
        /\ (r + (n + 1) - 1) % N = w
    BY <1>r, <1>2 DEF RingFacts, is_full
  <1>5. n \in Nat /\ n + 1 \in Int
    BY <1>4
  <1>6. BufOK(c)
    <2>1. b \in Buffers /\ b.cap \in [0 .. N - 1 -> Int]
      BY <1>1 DEF BufOK
    <2>2. c \in Buffers
      BY <1>2, <1>4, <1>5, <2>1, Zenon DEF c, buf_write, Buffers
    <2>3. QED
      BY <1>3, <1>4, <2>2 DEF BufOK
  <1>7. /\ Contents(b) \in Seq(Int) /\ Len(Contents(b)) = n /\ Contents(c) \in Seq(Int)
        /\ Len(Contents(c)) = n + 1
    BY <1>2, <1>3, <1>6, BufHolds
  <1>8. /\ Contents(b) = [i \in 1 .. n |-> b.cap[(r + i - 1) % N]]
        /\ Contents(c) = [i \in 1 .. n + 1 |-> c.cap[(r + i - 1) % N]]
    BY <1>1, <1>2, <1>3, <1>4 DEF Contents
  <1>9. ASSUME NEW i \in 1 .. n + 1
        PROVE  Contents(c)[i] = Append(Contents(b), d)[i]
    <2>1. CASE i \in 1 .. n
      <3>1. Append(Contents(b), d)[i] = Contents(b)[i]
        BY <1>7, <2>1
      <3>2. c.cap[(r + i - 1) % N] = b.cap[(r + i - 1) % N]
        BY <1>1, <1>2, <1>3, <1>4, <2>1, SMTT(20)
      <3>3. QED
        BY <1>8, <2>1, <3>1, <3>2, Zenon
    <2>2. CASE i = n + 1
      <3>1. Append(Contents(b), d)[i] = d
        BY <1>7, <2>2
      <3>2. c.cap[(r + i - 1) % N] = d
        BY <1>1, <1>2, <1>3, <1>4, <2>2, Zenon
      <3>3. QED
        BY <1>8, <3>1, <3>2, Zenon
    <2>3. i \in 1 .. n \/ i = n + 1
      BY <1>5
    <2>4. QED
      BY <2>1, <2>2, <2>3, Zenon
  <1>10. Append(Contents(b), d) \in Seq(Int) /\ Len(Append(Contents(b), d)) = n + 1
    BY <1>7
  <1>11. Contents(c) = Append(Contents(b), d)
    BY <1>7, <1>9, <1>10, SeqSame
  <1>12. QED
    BY <1>6, <1>11 DEF c

LEMMA BufRead ==
  ASSUME NEW b, BufOK(b), ~is_empty(b)
  PROVE  /\ BufOK(buf_read(b)) /\ get_read(b) \in Int
         /\ Contents(b) = <<get_read(b)>> \o Contents(buf_read(b))
  <1> DEFINE c == buf_read(b)
  <1>1. /\ b.write \in 0 .. N - 1 /\ b.read \in 0 .. N - 1 /\ b.cap \in [0 .. N - 1 -> Int]
        /\ b.size = (b.write - b.read) % N
    BY DEF BufOK, Buffers
  <1>2. PICK w, r, n : w = b.write /\ r = b.read /\ n = b.size
    OBVIOUS
  <1>r. RingFacts(w, r, n)
    BY <1>1, <1>2, Ring
  <1>3. /\ c.cap = b.cap /\ c.write = w /\ c.read = (r + 1) % N /\ c.size = n - 1
    BY <1>2 DEF buf_read, BufOK, Buffers
  <1> HIDE DEF c
  <1>4. /\ n \in 0 .. N - 1 /\ n # 0 /\ (r + 1) % N \in 0 .. N - 1
        /\ (w - ((r + 1) % N)) % N = n - 1
        /\ \A i \in 2 .. n : (((r + 1) % N) + (i - 1) - 1) % N = (r + i - 1) % N
        /\ (r + 1 - 1) % N = r
    BY <1>r, <1>2 DEF RingFacts, is_empty
  <1>5. n \in Nat \ {0} /\ n - 1 \in Int
    BY <1>4
  <1>6. BufOK(c)
    <2>1. b \in Buffers /\ b.cap \in [0 .. N - 1 -> Int]
      BY <1>1 DEF BufOK
    <2>2. c \in Buffers
      BY <1>2, <1>4, <1>5, <2>1, Zenon DEF c, buf_read, Buffers
    <2>3. QED
      BY <1>3, <1>4, <2>2 DEF BufOK
  <1>7. /\ Contents(b) \in Seq(Int) /\ Len(Contents(b)) = n /\ Contents(c) \in Seq(Int)
        /\ Len(Contents(c)) = n - 1
    BY <1>2, <1>3, <1>6, BufHolds
  <1>8. /\ Contents(b) = [i \in 1 .. n |-> b.cap[(r + i - 1) % N]]
        /\ Contents(c) = [i \in 1 .. n - 1 |-> b.cap[(((r + 1) % N) + i - 1) % N]]
    BY <1>1, <1>2, <1>3, <1>4 DEF Contents
  <1>9. get_read(b) = b.cap[r] /\ get_read(b) \in Int
    BY <1>1, <1>2, Zenon DEF get_read
  <1> DEFINE s == <<get_read(b)>> \o Contents(c)
  <1>10. /\ s \in Seq(Int) /\ Len(s) = n /\ s[1] = get_read(b)
         /\ \A i \in 2 .. n : s[i] = Contents(c)[i - 1]
    BY <1>5, <1>7, <1>9
  <1> HIDE DEF s
  <1>11. ASSUME NEW i \in 1 .. n
         PROVE  Contents(b)[i] = s[i]
    <2>1. CASE i = 1
      <3>1. Contents(b)[1] = b.cap[(r + 1 - 1) % N]
        BY <1>5, <1>8
      <3>2. QED
        BY <1>4, <1>9, <1>10, <2>1, <3>1
    <2>2. CASE i \in 2 .. n
      <3>1. i - 1 \in 1 .. n - 1
        BY <1>5, <2>2
      <3>2. Contents(c)[i - 1] = b.cap[(((r + 1) % N) + (i - 1) - 1) % N]
        BY <1>8, <3>1
      <3>3. QED
        BY <1>4, <1>8, <1>10, <2>2, <3>2
    <2>3. QED
      BY <1>5, <2>1, <2>2
  <1>12. Contents(b) = s
    BY <1>7, <1>10, <1>11, SeqSame
  <1>13. QED
    BY <1>6, <1>9, <1>12 DEF c, s

-----------------------------------------------------------------------------
(* The bytes of a key.  Nothing but a key ends it.                         *)
LEMMA Distinct ==
  /\ \A b \in KeyBytes : b \in Int /\ b \notin Quiet /\ b # E0
  /\ \A b \in KeyBytes : b >= 128 <=> b \notin Keys
  /\ \A b \in Keys : b % 128 = b /\ b \in 1 .. 127 /\ b \in KeyBytes /\ b + 128 \in KeyBytes
  /\ \A o \in Quiet \cup {E0} : o \notin Keys /\ o \in Int
  /\ E0 \notin Quiet /\ E0 \notin Keys /\ 0 \in Quiet /\ {ACK, RESEND} \subseteq Quiet
  <1>1. Keys \subseteq (1 .. 127) \ {122, 126, 96}
    BY KeyboardAssumption DEF ACK, RESEND, E0
  <1>2. ASSUME NEW b \in KeyBytes
        PROVE  (b \in Keys /\ b < 128 /\ b > 0) \/ (\E c \in Keys : b = c + 128)
    BY <1>1 DEF KeyBytes, Releases
  <1>3. ASSUME NEW b \in KeyBytes
        PROVE  b \in Int /\ b \notin Quiet /\ b # E0 /\ (b >= 128 <=> b \notin Keys)
    <2>1. CASE b \in Keys
      BY <1>1, <2>1 DEF Quiet, ACK, RESEND, E0
    <2>2. ASSUME NEW c \in Keys, b = c + 128
          PROVE  b \in Int /\ b \notin Quiet /\ b # E0 /\ (b >= 128 <=> b \notin Keys)
      BY <1>1, <2>2 DEF Quiet, ACK, RESEND, E0
    <2>3. QED
      BY <1>2, <2>1, <2>2
  <1>4. \A b \in Keys : b % 128 = b /\ b \in 1 .. 127 /\ b \in KeyBytes /\ b + 128 \in KeyBytes
    BY <1>1 DEF KeyBytes, Releases
  <1>5. \A o \in Quiet \cup {E0} : o \notin Keys /\ o \in Int
    BY <1>1 DEF Quiet, ACK, RESEND, E0
  <1>6. E0 \notin Quiet /\ E0 \notin Keys /\ 0 \in Quiet /\ {ACK, RESEND} \subseteq Quiet
    BY <1>1 DEF Quiet, ACK, RESEND, E0
  <1>7. QED
    BY <1>3, <1>4, <1>5, <1>6

(* The code that b ends, which is none for the release of a key.           *)
Short(b) == IF b \in Keys THEN <<b>> ELSE <<>>

Long(b) == IF b \in Keys THEN <<b + 128>> ELSE <<>>

LEMMA FlyingIs ==
  ASSUME NEW o \in Quiet \cup {E0}, NEW st, NEW b \in KeyBytes
  PROVE  /\ st # "E0" => Flying(b, <<>>, st) = Short(b)
         /\ st = "E0" => Flying(b, <<>>, st) = Long(b)
         /\ st # "E0" /\ o # E0 => Flying(o, <<b>>, st) = Short(b)
         /\ st = "E0" \/ o = E0 => Flying(o, <<b>>, st) = Long(b)
         /\ Flying(o, <<E0, b>>, st) = Long(b)
         /\ Flying(o, <<>>, st) = <<>>
  <1> DEFINE Bytes(p, t) == {p} \cup {t[i] : i \in DOMAIN t}
  <1>1. /\ Bytes(b, <<>>) = {b} /\ Bytes(o, <<b>>) = {o, b} /\ Bytes(o, <<E0, b>>) = {o, E0, b}
        /\ Bytes(o, <<>>) = {o}
    OBVIOUS
  <1>2. o \notin Keys /\ E0 \notin Keys /\ b # E0
    BY Distinct
  <1>3. ASSUME NEW p, NEW t, b \in Bytes(p, t), Bytes(p, t) \subseteq {o, E0, b}
        PROVE  /\ st # "E0" /\ E0 \notin Bytes(p, t) => Flying(p, t, st) = Short(b)
               /\ st = "E0" \/ E0 \in Bytes(p, t) => Flying(p, t, st) = Long(b)
    <2>1. CASE b \in Keys
      <3>1. Bytes(p, t) \cap Keys # {}
        BY <1>3, <2>1
      <3>2. (CHOOSE c \in Bytes(p, t) : c \in Keys) = b
        BY <1>2, <1>3, <2>1
      <3>3. Flying(p, t, st) = <<b + (IF st = "E0" \/ E0 \in Bytes(p, t) THEN 128 ELSE 0)>>
        BY <3>1, <3>2, Zenon DEF Flying
      <3>4. b + 0 = b
        BY Distinct
      <3> HIDE DEF Bytes
      <3>5. QED
        BY <2>1, <3>3, <3>4 DEF Short, Long
    <2>2. CASE b \notin Keys
      <3>1. Bytes(p, t) \cap Keys = {}
        BY <1>2, <1>3, <2>2
      <3>2. Flying(p, t, st) = <<>>
        BY <3>1, Zenon DEF Flying
      <3>3. QED
        BY <2>2, <3>2 DEF Short, Long
    <2>3. QED
      BY <2>1, <2>2
  <1>4. Bytes(o, <<>>) \cap Keys = {}
    BY <1>1, <1>2
  <1>5. Flying(o, <<>>, st) = <<>>
    BY <1>4, Zenon DEF Flying
  <1> HIDE DEF Bytes
  <1>6. (st # "E0" => Flying(b, <<>>, st) = Short(b)) /\ (st = "E0" => Flying(b, <<>>, st) = Long(b))
    BY <1>1, <1>2, <1>3
  <1>7. /\ st # "E0" /\ o # E0 => Flying(o, <<b>>, st) = Short(b)
        /\ st = "E0" \/ o = E0 => Flying(o, <<b>>, st) = Long(b)
    BY <1>1, <1>2, <1>3
  <1>8. Flying(o, <<E0, b>>, st) = Long(b)
    BY <1>1, <1>2, <1>3
  <1>9. QED
    BY <1>5, <1>6, <1>7, <1>8

(* What a step that moves a byte makes of the code that is on its way: a   *)
(* reply in between leaves it alone,                                       *)
LEMMA ReplyBytes ==
  ASSUME NEW o \in Quiet, NEW p \in Quiet, NEW todo, NEW st, BytesOK(o, todo, st)
  PROVE  BytesOK(p, todo, st) /\ Flying(p, todo, st) = Flying(o, todo, st)
  <1>1. CASE Waiting(o, todo, st)
    <2>1. \A b \in KeyBytes : Flying(p, <<>>, st) = <<>> /\ Flying(o, <<>>, st) = <<>>
      BY FlyingIs, Zenon
    <2>2. o \notin Keys /\ p \notin Keys
      BY Distinct
    <2>3. Flying(p, <<>>, st) = <<>> /\ Flying(o, <<>>, st) = <<>>
      BY <2>2 DEF Flying
    <2>4. QED
      BY <1>1, <2>3 DEF Waiting, BytesOK
  <1>2. ASSUME NEW b \in KeyBytes,
               Whole(o, todo, st, b) \/ Prefixed(o, todo, st, b) \/ Seen(o, todo, st, b)
                 \/ Ending(o, todo, st, b)
        PROVE  BytesOK(p, todo, st) /\ Flying(p, todo, st) = Flying(o, todo, st)
    <2>1. o # E0 /\ p # E0 /\ o # b
      BY Distinct
    <2>2. /\ Flying(o, <<b>>, st) = Flying(p, <<b>>, st)
          /\ Flying(o, <<E0, b>>, st) = Flying(p, <<E0, b>>, st)
      <3>1. o \in Quiet \cup {E0} /\ p \in Quiet \cup {E0}
        OBVIOUS
      <3>2. CASE st = "E0"
        BY <3>1, <3>2, FlyingIs, SMTT(20)
      <3>3. CASE st # "E0"
        BY <2>1, <3>1, <3>3, FlyingIs, Zenon
      <3>4. QED
        BY <3>2, <3>3
    <2>3. Whole(o, todo, st, b) \/ Seen(o, todo, st, b)
      BY <1>2, <2>1 DEF Prefixed, Ending
    <2>4. Whole(p, todo, st, b) \/ Seen(p, todo, st, b)
      BY <2>3 DEF Whole, Seen
    <2>5. todo \in {<<b>>, <<E0, b>>}
      BY <2>3 DEF Whole, Seen
    <2>6. QED
      BY <2>2, <2>4, <2>5 DEF BytesOK
  <1>3. QED
    BY <1>1, <1>2 DEF BytesOK

(* the prefix is remembered,                                               *)
LEMMA PrefixBytes ==
  ASSUME NEW todo, NEW st, BytesOK(E0, todo, st)
  PROVE  BytesOK(0, todo, "E0") /\ Flying(0, todo, "E0") = Flying(E0, todo, st)
  <1>1. PICK b \in KeyBytes : todo = <<b>>
    BY Distinct DEF BytesOK, Waiting, Whole, Prefixed, Seen, Ending
  <1>2. Flying(E0, <<b>>, st) = Long(b) /\ Flying(0, <<b>>, "E0") = Long(b)
    <2>1. 0 \in Quiet \cup {E0} /\ E0 \in Quiet \cup {E0}
      BY Distinct
    <2>2. Flying(E0, <<b>>, st) = Long(b)
      BY <2>1, FlyingIs, Zenon
    <2>3. Flying(0, <<b>>, "E0") = Long(b)
      BY <2>1, FlyingIs, Zenon
    <2>4. QED
      BY <2>2, <2>3
  <1>3. Seen(0, todo, "E0", b)
    BY <1>1, Distinct DEF Seen
  <1>4. QED
    BY <1>1, <1>2, <1>3 DEF BytesOK

(* the keyboard hands on the next byte,                                    *)
LEMMA EmitBytes ==
  ASSUME NEW todo, NEW st, BytesOK(0, todo, st), todo # <<>>
  PROVE  /\ BytesOK(Head(todo), Tail(todo), st) /\ Tail(todo) \in Seq(Int)
         /\ Flying(Head(todo), Tail(todo), st) = Flying(0, todo, st)
         /\ Head(todo) \notin {ACK, RESEND}
  <1>1. PICK b \in KeyBytes : Whole(0, todo, st, b) \/ Seen(0, todo, st, b)
    BY Distinct DEF BytesOK, Waiting, Prefixed, Ending
  <1>2. b \in Int /\ b \notin Quiet /\ 0 \in Quiet /\ E0 \notin Quiet /\ {ACK, RESEND} \subseteq Quiet
    BY Distinct
  <1>3. 0 # E0
    BY DEF E0
  <1>4. CASE todo = <<b>>
    <2>1. Head(todo) = b /\ Tail(todo) = <<>>
      BY <1>4
    <2>2. Flying(0, <<b>>, st) = Flying(b, <<>>, st)
      <3>1. CASE st = "E0"
        BY <1>2, <3>1, FlyingIs, Zenon
      <3>2. CASE st # "E0"
        BY <1>2, <1>3, <3>2, FlyingIs
      <3>3. QED
        BY <3>1, <3>2
    <2>3. BytesOK(b, <<>>, st)
      BY DEF BytesOK, Ending
    <2>4. QED
      BY <1>2, <1>4, <2>1, <2>2, <2>3
  <1>5. CASE todo = <<E0, b>> /\ st = "None"
    <2>1. Head(todo) = E0 /\ Tail(todo) = <<b>>
      BY <1>5
    <2>2. Flying(0, <<E0, b>>, st) = Flying(E0, <<b>>, st)
      <3>1. 0 \in Quiet \cup {E0} /\ E0 \in Quiet \cup {E0}
        BY <1>2
      <3>2. Flying(0, <<E0, b>>, st) = Long(b)
        BY <3>1, FlyingIs, Zenon
      <3>3. Flying(E0, <<b>>, st) = Long(b)
        BY <3>1, FlyingIs, Zenon
      <3>4. QED
        BY <3>2, <3>3
    <2>3. BytesOK(E0, <<b>>, st)
      BY <1>5 DEF BytesOK, Prefixed
    <2>4. QED
      BY <1>2, <1>5, <2>1, <2>2, <2>3
  <1>6. QED
    BY <1>1, <1>4, <1>5 DEF Whole, Seen

(* the driver decodes the byte that ends it,                               *)
LEMMA CodeBytes ==
  ASSUME NEW o, NEW todo, NEW st, BytesOK(o, todo, st), o \notin {0, ACK, RESEND, E0}
  PROVE  /\ BytesOK(0, todo, "None") /\ Flying(0, todo, "None") = <<>> /\ o \in Int
         /\ Flying(o, todo, st) = IF o >= 128 THEN <<>>
                                  ELSE <<IF st = "E0" THEN 128 + (o % 128) ELSE o % 128>>
  <1>1. o \in KeyBytes /\ todo = <<>>
    BY DEF BytesOK, Waiting, Whole, Prefixed, Seen, Ending, Quiet
  <1>2. 0 \in Quiet
    BY Distinct
  <1>3. Flying(0, todo, "None") = <<>> /\ Flying(o, todo, st) = IF st = "E0" THEN Long(o) ELSE Short(o)
    BY <1>1, <1>2, FlyingIs, Zenon
  <1>4. BytesOK(0, todo, "None")
    BY <1>1, <1>2 DEF BytesOK, Waiting
  <1>5. o \in Int /\ (o >= 128 <=> o \notin Keys) /\ (o \in Keys => o % 128 = o)
    BY <1>1, Distinct
  <1>6. (IF st = "E0" THEN Long(o) ELSE Short(o))
          = IF o >= 128 THEN <<>> ELSE <<IF st = "E0" THEN 128 + (o % 128) ELSE o % 128>>
    BY <1>5 DEF Long, Short
  <1>7. QED
    BY <1>3, <1>4, <1>5, <1>6

LEMMA Concat ==
  ASSUME NEW a \in Int, NEW b \in Int
  PROVE  <<a>> \o <<b>> = <<a, b>> /\ <<>> \o <<b>> = <<b>>
  <1> DEFINE s == <<a>> \o <<b>>
             t == <<a, b>>
  <1>1. s \in Seq(Int) /\ Len(s) = 2 /\ s[1] = a /\ s[2] = b
    OBVIOUS
  <1>2. t \in Seq(Int) /\ Len(t) = 2 /\ t[1] = a /\ t[2] = b
    OBVIOUS
  <1> HIDE DEF s, t
  <1>3. \A i \in 1 .. 2 : s[i] = t[i]
    BY <1>1, <1>2
  <1>4. s = t
    BY <1>1, <1>2, <1>3, SeqSame, Zenon
  <1>5. <<>> \o <<b>> = <<b>>
    OBVIOUS
  <1>6. QED
    BY <1>4, <1>5 DEF s, t

(* and a key begins another: the bytes it sends, the code it stands for.   *)
Sent(k, extended, release) ==
  (IF extended THEN <<E0>> ELSE <<>>) \o <<IF release THEN k + 128 ELSE k>>

Meant(k, extended, release) == IF release THEN <<>> ELSE <<IF extended THEN k + 128 ELSE k>>

LEMMA TypeBytes ==
  ASSUME NEW o \in Quiet, NEW st, BytesOK(o, <<>>, st),
         NEW k \in Keys, NEW extended \in BOOLEAN, NEW release \in BOOLEAN
  PROVE  /\ BytesOK(o, Sent(k, extended, release), st) /\ Flying(o, <<>>, st) = <<>>
         /\ Sent(k, extended, release) \in Seq(Int)
         /\ Flying(o, Sent(k, extended, release), st) = Meant(k, extended, release)
  <1> DEFINE b == IF release THEN k + 128 ELSE k
             t == (IF extended THEN <<E0>> ELSE <<>>) \o <<b>>
  <1>1. b \in KeyBytes /\ b \in Int /\ o # E0 /\ k + 128 \in KeyBytes /\ k + 128 \notin Keys
    BY Distinct
  <1>2. st = "None"
    BY Distinct DEF BytesOK, Waiting, Whole, Prefixed, Seen, Ending
  <1>3. /\ extended => t = <<E0, b>>
        /\ ~extended => t = <<b>>
    <2> HIDE DEF b
    <2>1. <<E0>> \o <<b>> = <<E0, b>> /\ <<>> \o <<b>> = <<b>>
      BY <1>1, Concat DEF E0
    <2>2. QED
      BY <2>1, Zenon
  <1>4. t \in Seq(Int)
    BY <1>1, <1>3 DEF E0
  <1>5. release => b \notin Keys
    BY <1>1
  <1>6. ~release => b = k
    OBVIOUS
  <1>7. k \in Int
    BY Distinct
  <1> HIDE DEF b, t
  <1>8. BytesOK(o, t, st)
    BY <1>1, <1>2, <1>3 DEF BytesOK, Whole
  <1>9. /\ Flying(o, <<>>, st) = <<>>
        /\ Flying(o, <<b>>, st) = Short(b) /\ Flying(o, <<E0, b>>, st) = Long(b)
    <2>1. o \in Quiet \cup {E0} /\ st # "E0" /\ o # E0 /\ b \in KeyBytes
      BY <1>1, <1>2
    <2>2. st # "E0" /\ o # E0 => Flying(o, <<b>>, st) = Short(b)
      BY <2>1, FlyingIs, Zenon
    <2>3. Flying(o, <<E0, b>>, st) = Long(b) /\ Flying(o, <<>>, st) = <<>>
      BY <2>1, FlyingIs, Zenon
    <2>4. QED
      BY <2>1, <2>2, <2>3
  <1>10. Flying(o, t, st) = IF release THEN <<>> ELSE <<IF extended THEN k + 128 ELSE k>>
    BY <1>3, <1>5, <1>6, <1>9 DEF Long, Short
  <1>11. QED
    BY <1>4, <1>8, <1>9, <1>10, Zenon DEF b, t, Sent, Meant

-----------------------------------------------------------------------------
(* The steps.                                                              *)
LEMMA KbdInit ==
  Init => KbdIInv
  <1> SUFFICES ASSUME Init PROVE KbdIInv
    OBVIOUS
  <1>1. 0 \in 0 .. N - 1 /\ 0 % N = 0 /\ (0 - 0) % N = 0
    BY NAssumption
  <1>2. Empty(0) \in Buffers
    BY <1>1 DEF Empty, Buffers
  <1>3. BufOK(Empty(0)) /\ is_empty(Empty(0))
    BY <1>1, <1>2 DEF Empty, BufOK, is_empty
  <1>4. Contents(Empty(0)) = <<>>
    BY <1>3, BufHolds
  <1>5. TypeOK
    <2>1. kbd \in Keyboards
      BY <1>2 DEF Init, Keyboards
    <2>2. device \in Devices
      BY DEF Init, Devices
    <2>3. typed \in Seq(Int) /\ taken \in Seq(Int)
      BY DEF Init
    <2>4. port \in BOOLEAN /\ panicked \in BOOLEAN
      BY Zenon DEF Init
    <2>5. QED
      BY <2>1, <2>2, <2>3, <2>4 DEF TypeOK
  <1>6. BytesOK(obf, device.todo, kbd.state_machine)
    BY Distinct DEF Init, BytesOK, Waiting
  <1>7. RetryOK
    BY KeyboardAssumption DEF Init, RetryOK, ACK, RESEND
  <1>8. Flying(0, <<>>, "None") = <<>>
    BY Distinct DEF Flying
  <1>9. KeysInOrder
    BY <1>4, <1>8 DEF Init, KeysInOrder, InFlight
  <1>10. QED
    BY <1>3, <1>5, <1>6, <1>7, <1>9 DEF KbdIInv, Init

(* The fields, one by one.                                                 *)
LEMMA Fields ==
  ASSUME KbdIInv
  PROVE  /\ kbd.data \in Buffers /\ kbd.signal \in {"Ack", "Nack", "Error"} /\ kbd.nack_count \in Nat
         /\ kbd.state_machine \in {"None", "E0"} /\ kbd.last_data = SCANNING_BYTE
         /\ device.todo \in Seq(Int) /\ device.cmd \in {0, SCANNING_BYTE} /\ device.sends \in Nat
         /\ typed \in Seq(Int) /\ taken \in Seq(Int) /\ BufOK(kbd.data)
         /\ BytesOK(obf, device.todo, kbd.state_machine)
  BY DEF KbdIInv, TypeOK, Keyboards, Devices

(* The keys stay in order when neither they nor the code on its way move.  *)
LEMMA Kept ==
  ASSUME KbdIInv, UNCHANGED <<typed, taken, panicked>>, kbd'.data = kbd.data,
         Flying(obf', device'.todo, kbd'.state_machine) = Flying(obf, device.todo, kbd.state_machine)
  PROVE  KeysInOrder'
  BY DEF KbdIInv, KeysInOrder, InFlight

(* A reply.  The last RESEND turns the port off instead of trying again.   *)
LEMMA ReplyStep ==
  ASSUME KbdIInv, isr_keyboard, OnReply
  PROVE  KbdIInv'
  <1> DEFINE k == on_reply(kbd, obf)
  <1>0. /\ obf \in {ACK, RESEND} /\ obf' = 0 /\ kbd' = k /\ UNCHANGED <<typed, taken, panicked>>
        /\ port' = (port /\ k.signal # "Error")
        /\ device' = IF k.signal = "Nack" THEN [device EXCEPT !.cmd = k.last_data, !.sends = @ + 1]
                     ELSE device
    BY DEF OnReply, isr_keyboard
  <1>1. /\ k.data = kbd.data /\ k.state_machine = kbd.state_machine /\ k.last_data = SCANNING_BYTE
        /\ obf = ACK => k.signal = "Ack" /\ k.nack_count = 0
        /\ obf # ACK => IF kbd.nack_count + 1 >= MAX_RETRY THEN k.signal = "Error" /\ k.nack_count = 0
                        ELSE k.signal = "Nack" /\ k.nack_count = kbd.nack_count + 1
    BY DEF on_reply, KbdIInv, TypeOK, Keyboards
  <1>2. k \in Keyboards
    <2>1. kbd \in Keyboards /\ kbd.nack_count + 1 \in Nat
      BY Fields DEF KbdIInv, TypeOK
    <2>2. [kbd EXCEPT !.signal = "Ack", !.nack_count = 0] \in Keyboards
      BY <2>1, Zenon DEF Keyboards
    <2>3. [kbd EXCEPT !.signal = "Error", !.nack_count = 0] \in Keyboards
      BY <2>1, Zenon DEF Keyboards
    <2>4. [kbd EXCEPT !.signal = "Nack", !.nack_count = @ + 1] \in Keyboards
      BY <2>1, Zenon DEF Keyboards
    <2>5. QED
      BY <2>2, <2>3, <2>4 DEF on_reply
  <1> HIDE DEF k
  <1>3. /\ device' \in Devices /\ device'.todo = device.todo
        /\ k.signal = "Nack" => device'.cmd = SCANNING_BYTE /\ device'.sends = device.sends + 1
        /\ k.signal # "Nack" => device' = device
    <2>1. device \in Devices /\ device.sends + 1 \in Nat
      BY Fields DEF KbdIInv, TypeOK
    <2>2. CASE k.signal = "Nack"
      BY <1>0, <1>1, <2>1, <2>2, Zenon DEF Devices
    <2>3. CASE k.signal # "Nack"
      BY <1>0, <2>1, <2>3
    <2>4. QED
      BY <2>2, <2>3
  <1>4. port' \in BOOLEAN /\ (k.signal = "Error" => ~port')
    BY <1>0, Zenon
  <1>5. TypeOK'
    BY <1>0, <1>2, <1>3, <1>4 DEF KbdIInv, TypeOK
  <1>6. BufOK(kbd'.data)
    BY <1>0, <1>1, Fields
  <1>7. /\ BytesOK(0, device.todo, kbd.state_machine)
        /\ Flying(0, device.todo, kbd.state_machine) = Flying(obf, device.todo, kbd.state_machine)
    BY <1>0, Fields, ReplyBytes, Distinct
  <1>8. BytesOK(obf', device'.todo, kbd'.state_machine)
    BY <1>0, <1>1, <1>3, <1>7
  <1>9. KeysInOrder'
    BY <1>0, <1>1, <1>3, <1>7, Kept
  <1>10. RetryOK'
    <2>1. /\ kbd.nack_count \in Nat /\ MAX_RETRY \in Nat \ {0} /\ device.sends \in Nat
          /\ kbd.nack_count < MAX_RETRY /\ device.sends <= MAX_RETRY /\ device.cmd = 0
          /\ obf = RESEND => device.sends = kbd.nack_count + 1
      BY <1>0, Fields, KeyboardAssumption DEF KbdIInv, RetryOK
    <2>2. 0 # ACK /\ 0 # RESEND /\ ACK # RESEND
      BY DEF ACK, RESEND
    <2>3. CASE k.signal = "Nack"
      <3>1. obf = RESEND /\ kbd.nack_count + 1 < MAX_RETRY /\ k.nack_count = kbd.nack_count + 1
        BY <1>0, <1>1, <2>1, <2>3
      <3>2. device'.sends = k.nack_count + 1 /\ device'.sends <= MAX_RETRY /\ k.nack_count < MAX_RETRY
        BY <1>3, <2>1, <2>3, <3>1
      <3>3. QED
        BY <1>0, <2>2, <2>3, <3>2 DEF RetryOK
    <2>4. CASE k.signal # "Nack"
      <3>1. k.nack_count = 0 /\ device' = device
        BY <1>1, <1>3, <2>4
      <3>2. QED
        <4>1. device'.cmd = 0 /\ device'.sends <= MAX_RETRY /\ kbd'.nack_count < MAX_RETRY
          <5>1. 0 < MAX_RETRY
            BY <2>1
          <5>2. QED
            BY <1>0, <2>1, <3>1, <5>1, Zenon
        <4>2. kbd'.signal = "Error" => ~port'
          BY <1>0, <1>4
        <4>3. obf' \notin {ACK, RESEND}
          BY <1>0, <2>2
        <4>4. QED
          BY <4>1, <4>2, <4>3 DEF RetryOK
    <2>5. QED
      BY <2>3, <2>4
  <1>11. QED
    BY <1>5, <1>6, <1>8, <1>9, <1>10 DEF KbdIInv

LEMMA PrefixStep ==
  ASSUME KbdIInv, isr_keyboard, OnPrefix
  PROVE  KbdIInv'
  <1>0. /\ obf = E0 /\ obf' = 0 /\ kbd' = [kbd EXCEPT !.state_machine = "E0"]
        /\ UNCHANGED <<port, device, typed, taken, panicked>>
    BY DEF OnPrefix, isr_keyboard
  <1>1. /\ kbd'.data = kbd.data /\ kbd'.state_machine = "E0" /\ kbd'.nack_count = kbd.nack_count
        /\ kbd'.signal = kbd.signal
    BY <1>0 DEF KbdIInv, TypeOK, Keyboards
  <1>2. TypeOK'
    BY <1>0, Zenon DEF KbdIInv, TypeOK, Keyboards
  <1>3. BytesOK(E0, device.todo, kbd.state_machine) /\ BufOK(kbd.data)
    BY <1>0, Fields
  <1>4. /\ BytesOK(0, device.todo, "E0")
        /\ Flying(0, device.todo, "E0") = Flying(E0, device.todo, kbd.state_machine)
    BY <1>3, PrefixBytes
  <1>5. KeysInOrder'
    BY <1>0, <1>1, <1>4, Kept
  <1>6. RetryOK'
    BY <1>0, <1>1 DEF KbdIInv, RetryOK, ACK, RESEND
  <1>7. QED
    BY <1>0, <1>1, <1>2, <1>3, <1>4, <1>5, <1>6 DEF KbdIInv

(* A code moves from the wire to the buffer, and from there to taken.      *)
LEMMA Moves ==
  ASSUME NEW s \in Seq(Int), NEW t \in Seq(Int), NEW c \in Int
  PROVE  s \o t \o <<c>> = s \o Append(t, c) \o <<>>
  <1>1. Append(t, c) = t \o <<c>> /\ <<c>> \in Seq(Int)
    BY SeqAppend
  <1>2. (s \o t) \o <<c>> = s \o (t \o <<c>>)
    BY <1>1, SeqAssociative
  <1>3. t \o <<c>> \in Seq(Int) /\ s \o (t \o <<c>>) \in Seq(Int)
    BY <1>1, SeqJoin
  <1>4. (s \o (t \o <<c>>)) \o <<>> = s \o (t \o <<c>>)
    BY <1>3, SeqNothing
  <1>5. QED
    BY <1>1, <1>2, <1>4, Zenon

LEMMA Takes ==
  ASSUME NEW s \in Seq(Int), NEW t \in Seq(Int), NEW c \in Int
  PROVE  s \o (<<c>> \o t) = Append(s, c) \o t
  <1>1. Append(s, c) = s \o <<c>> /\ <<c>> \in Seq(Int)
    BY SeqAppend
  <1>2. (s \o <<c>>) \o t = s \o (<<c>> \o t)
    BY <1>1, SeqAssociative
  <1>3. QED
    BY <1>1, <1>2, Zenon

(* A code: a release is dropped, a full buffer panics, and anything else   *)
(* goes from the wire to the end of the buffer.                            *)
LEMMA CodeStep ==
  ASSUME KbdIInv, isr_keyboard, OnCode
  PROVE  KbdIInv'
  <1> DEFINE code == decode(kbd, obf)
             drop == ps2_is_release(obf)
             full == is_full(kbd.data)
  <1>0. /\ obf \notin {0, ACK, RESEND, E0} /\ obf' = 0 /\ UNCHANGED <<port, device, typed, taken>>
        /\ panicked' = (~drop /\ full) /\ ~panicked
        /\ kbd' = IF drop \/ full THEN [kbd EXCEPT !.state_machine = "None"]
                  ELSE [[kbd EXCEPT !.state_machine = "None"] EXCEPT !.data = buf_write(@, code)]
    BY DEF OnCode, isr_keyboard
  <1>1. /\ BytesOK(0, device.todo, "None") /\ Flying(0, device.todo, "None") = <<>> /\ obf \in Int
        /\ Flying(obf, device.todo, kbd.state_machine) = IF drop THEN <<>> ELSE <<code>>
    BY <1>0, Fields, CodeBytes DEF decode, ps2_is_release, ps2_extend_codes, ps2_single_byte
  <1>2. code \in Int
    BY <1>1 DEF decode, ps2_extend_codes, ps2_single_byte
  <1> HIDE DEF code, drop, full
  <1>3. BufOK(kbd.data) /\ kbd.data \in Buffers /\ kbd \in Keyboards
    BY Fields DEF KbdIInv, TypeOK
  <1>4. /\ ~full => BufOK(buf_write(kbd.data, code))
        /\ ~full => Contents(buf_write(kbd.data, code)) = Append(Contents(kbd.data), code)
    BY <1>2, <1>3, BufWrite DEF full
  <1>5. /\ drop \/ full => kbd'.data = kbd.data
        /\ ~(drop \/ full) => kbd'.data = buf_write(kbd.data, code)
        /\ kbd'.state_machine = "None" /\ kbd'.nack_count = kbd.nack_count /\ kbd'.signal = kbd.signal
        /\ kbd' \in Keyboards
    <2>1. CASE drop \/ full
      BY <1>0, <1>3, <2>1 DEF Keyboards
    <2>2. CASE ~(drop \/ full)
      BY <1>0, <1>3, <1>4, <2>2, Zenon DEF Keyboards, BufOK
    <2>3. QED
      BY <2>1, <2>2
  <1>6. panicked' \in BOOLEAN /\ device \in Devices /\ port \in BOOLEAN
    BY <1>0 DEF KbdIInv, TypeOK
  <1>7. TypeOK'
    BY <1>0, <1>5, <1>6, Fields DEF TypeOK
  <1>8. BufOK(kbd'.data)
    BY <1>3, <1>4, <1>5
  <1>9. RetryOK'
    BY <1>0, <1>5 DEF KbdIInv, RetryOK, ACK, RESEND
  <1>10. KeysInOrder'
    <2> DEFINE C == Contents(kbd.data)
               F == Flying(obf, device.todo, kbd.state_machine)
    <2>1. C \in Seq(Int) /\ taken \in Seq(Int) /\ typed = taken \o C \o F
      BY <1>0, <1>3, Fields, BufHolds DEF KbdIInv, KeysInOrder, InFlight
    <2>2. InFlight' = <<>>
      BY <1>0, <1>1, <1>5 DEF InFlight
    <2>3. CASE drop
      <3>1. F = <<>> /\ ~panicked' /\ kbd'.data = kbd.data
        BY <1>0, <1>1, <1>5, <2>3, Zenon
      <3>2. QED
        BY <1>0, <2>1, <2>2, <3>1 DEF KeysInOrder
    <2>4. CASE ~drop /\ full
      <3>1. panicked' /\ kbd'.data = kbd.data
        BY <1>0, <1>5, <2>4, Zenon
      <3>2. kbd.data.size = N - 1 /\ Len(C) = N - 1
        BY <1>3, <2>4, BufHolds DEF full
      <3>3. QED
        BY <3>1, <3>2 DEF KeysInOrder
    <2>5. CASE ~drop /\ ~full
      <3>1. ~panicked' /\ kbd'.data = buf_write(kbd.data, code) /\ F = <<code>>
        BY <1>0, <1>1, <1>5, <2>5, Zenon
      <3>2. Contents(kbd'.data) = Append(C, code)
        BY <1>4, <2>5, <3>1
      <3> HIDE DEF C, F
      <3>3. taken \o C \o <<code>> = taken \o Append(C, code) \o <<>>
        BY <1>2, <2>1, Moves, Zenon
      <3>4. typed' = taken' \o Contents(kbd'.data) \o InFlight'
        BY <1>0, <2>1, <2>2, <3>1, <3>2, <3>3, Zenon
      <3>5. QED
        BY <3>1, <3>4 DEF KeysInOrder
    <2>6. QED
      BY <2>3, <2>4, <2>5
  <1>11. QED
    BY <1>0, <1>1, <1>5, <1>7, <1>8, <1>9, <1>10 DEF KbdIInv

(* The terminal takes the oldest code.                                     *)
LEMMA TakeStep ==
  ASSUME KbdIInv, TakeKey
  PROVE  KbdIInv'
  <1> DEFINE c == get_read(kbd.data)
             b == buf_read(kbd.data)
  <1>0. /\ ~panicked /\ taken' = Append(taken, c) /\ kbd' = [kbd EXCEPT !.data = b]
        /\ UNCHANGED <<obf, port, device, panicked, typed>> /\ ~is_empty(kbd.data)
    BY DEF TakeKey
  <1>1. BufOK(b) /\ c \in Int /\ Contents(kbd.data) = <<c>> \o Contents(b)
    BY <1>0, Fields, BufRead, Zenon
  <1> HIDE DEF c, b
  <1>2. /\ kbd' \in Keyboards /\ kbd'.data = b /\ kbd'.state_machine = kbd.state_machine
        /\ kbd'.nack_count = kbd.nack_count /\ kbd'.signal = kbd.signal
    BY <1>0, <1>1, Zenon DEF KbdIInv, TypeOK, Keyboards, BufOK
  <1>3. taken' \in Seq(Int)
    BY <1>0, <1>1, Fields
  <1>4. TypeOK'
    BY <1>0, <1>2, <1>3 DEF KbdIInv, TypeOK
  <1>5. RetryOK'
    BY <1>0, <1>2 DEF KbdIInv, RetryOK
  <1>6. KeysInOrder'
    <2> DEFINE F == InFlight
    <2>1. typed = taken \o (<<c>> \o Contents(b)) \o F
      BY <1>0, <1>1 DEF KbdIInv, KeysInOrder
    <2>2. InFlight' = F
      BY <1>0, <1>2 DEF InFlight
    <2>3. Contents(b) \in Seq(Int) /\ taken \in Seq(Int)
      BY <1>1, BufHolds, Fields
    <2> HIDE DEF F
    <2>4. taken \o (<<c>> \o Contents(b)) = Append(taken, c) \o Contents(b)
      BY <1>1, <2>3, Takes, Zenon
    <2>5. typed' = taken' \o Contents(kbd'.data) \o InFlight'
      BY <1>0, <1>2, <2>1, <2>2, <2>4
    <2>6. QED
      BY <1>0, <2>5 DEF KeysInOrder
  <1>7. BytesOK(obf', device'.todo, kbd'.state_machine)
    BY <1>0, <1>2, Fields
  <1>8. QED
    BY <1>1, <1>2, <1>4, <1>5, <1>6, <1>7 DEF KbdIInv

(* The steps of the terminal and of other interrupts that move no key.     *)
LEMMA StillStep ==
  ASSUME KbdIInv, UNCHANGED <<kbd, obf, port, device, panicked, typed, taken>>
  PROVE  KbdIInv'
  BY Zenon DEF KbdIInv, TypeOK, RetryOK, KeysInOrder, InFlight

LEMMA TypeStep ==
  ASSUME KbdIInv, NEW k \in Keys, NEW extended \in BOOLEAN, NEW release \in BOOLEAN,
         Type(k, extended, release)
  PROVE  KbdIInv'
  <1> DEFINE t == Sent(k, extended, release)
             n == Meant(k, extended, release)
             st == kbd.state_machine
  <1>0. /\ device.todo = <<>> /\ obf \in Quiet /\ device' = [device EXCEPT !.todo = t]
        /\ typed' = IF release THEN typed ELSE Append(typed, IF extended THEN k + 128 ELSE k)
        /\ UNCHANGED <<kbd, obf, port, panicked, taken>>
    BY DEF Type, terminal, Quiet, Sent
  <1>1. BytesOK(obf, <<>>, st)
    BY <1>0, Fields
  <1>2. BytesOK(obf, t, st) /\ Flying(obf, <<>>, st) = <<>> /\ t \in Seq(Int) /\ Flying(obf, t, st) = n
    BY <1>0, <1>1, TypeBytes
  <1> HIDE DEF t
  <1>3. device' \in Devices /\ device'.todo = t /\ device'.cmd = device.cmd /\ device'.sends = device.sends
    BY <1>0, <1>2, Zenon DEF KbdIInv, TypeOK, Devices
  <1>4. k \in Int /\ (IF extended THEN k + 128 ELSE k) \in Int
    BY Distinct
  <1>5. typed' \in Seq(Int)
    BY <1>0, <1>4, Fields
  <1>6. TypeOK'
    BY <1>0, <1>3, <1>5 DEF KbdIInv, TypeOK
  <1>7. RetryOK'
    BY <1>0, <1>3 DEF KbdIInv, RetryOK
  <1>8. KeysInOrder'
    <2>1. InFlight = <<>> /\ InFlight' = n
      BY <1>0, <1>2, <1>3 DEF InFlight
    <2>2. CASE panicked
      BY <1>0, <2>2 DEF KbdIInv, KeysInOrder
    <2>3. CASE ~panicked
      <3> DEFINE s == taken \o Contents(kbd.data)
      <3>1. s \in Seq(Int)
        <4>1. taken \in Seq(Int) /\ Contents(kbd.data) \in Seq(Int)
          BY Fields, BufHolds
        <4>2. QED
          BY <4>1, SeqJoin
      <3>2. typed = s \o <<>>
        BY <2>1, <2>3 DEF KbdIInv, KeysInOrder
      <3> HIDE DEF s
      <3>3. typed' = s \o n
        <4>1. typed = s /\ s \o <<>> = s
          BY <3>1, <3>2
        <4>2. Append(s, IF extended THEN k + 128 ELSE k) = s \o <<IF extended THEN k + 128 ELSE k>>
          BY <1>4, <3>1, SeqAppend
        <4>3. QED
          BY <1>0, <4>1, <4>2, Zenon DEF Meant
      <3>4. QED
        BY <1>0, <2>1, <2>3, <3>3, Zenon DEF KeysInOrder, s
    <2>4. QED
      BY <2>2, <2>3
  <1>9. QED
    BY <1>0, <1>2, <1>3, <1>6, <1>7, <1>8, Fields DEF KbdIInv

LEMMA EmitStep ==
  ASSUME KbdIInv, Emit
  PROVE  KbdIInv'
  <1> DEFINE todo == device.todo
             st == kbd.state_machine
  <1>0. /\ obf = 0 /\ todo # <<>> /\ obf' = Head(todo) /\ device' = [device EXCEPT !.todo = Tail(@)]
        /\ UNCHANGED <<kbd, port, panicked, typed, taken>>
    BY DEF Emit, terminal
  <1>1. /\ BytesOK(Head(todo), Tail(todo), st) /\ Tail(todo) \in Seq(Int)
        /\ Flying(Head(todo), Tail(todo), st) = Flying(0, todo, st) /\ Head(todo) \notin {ACK, RESEND}
    BY <1>0, Fields, EmitBytes
  <1>2. /\ device' \in Devices /\ device'.todo = Tail(todo) /\ device'.cmd = device.cmd
        /\ device'.sends = device.sends
    BY <1>0, <1>1, Zenon DEF KbdIInv, TypeOK, Devices
  <1>3. TypeOK'
    BY <1>0, <1>2 DEF KbdIInv, TypeOK
  <1>4. RetryOK'
    BY <1>0, <1>1, <1>2 DEF KbdIInv, RetryOK
  <1>5. KeysInOrder'
    BY <1>0, <1>1, <1>2, Kept
  <1>6. QED
    BY <1>0, <1>1, <1>2, <1>3, <1>4, <1>5, Fields DEF KbdIInv

LEMMA AnswerStep ==
  ASSUME KbdIInv, NEW reply \in {ACK, RESEND}, Answer(reply)
  PROVE  KbdIInv'
  <1>0. /\ port /\ obf = 0 /\ device.cmd # 0 /\ obf' = reply
        /\ device' = [device EXCEPT !.cmd = 0, !.sends = IF reply = ACK THEN 0 ELSE @]
        /\ UNCHANGED <<kbd, port, panicked, typed, taken>>
    BY DEF Answer, terminal
  <1>1. /\ BytesOK(reply, device.todo, kbd.state_machine)
        /\ Flying(reply, device.todo, kbd.state_machine) = Flying(0, device.todo, kbd.state_machine)
    <2>1. BytesOK(0, device.todo, kbd.state_machine) /\ 0 \in Quiet /\ reply \in Quiet
      BY <1>0, Fields, Distinct
    <2>2. QED
      BY <2>1, ReplyBytes
  <1>2. /\ device' \in Devices /\ device'.todo = device.todo /\ device'.cmd = 0
        /\ device'.sends = IF reply = ACK THEN 0 ELSE device.sends
    BY <1>0, Zenon DEF KbdIInv, TypeOK, Devices
  <1>3. TypeOK'
    BY <1>0, <1>2 DEF KbdIInv, TypeOK
  <1>4. RetryOK'
    <2>1. /\ kbd.nack_count < MAX_RETRY /\ device.sends = kbd.nack_count + 1 /\ kbd.signal # "Error"
          /\ device.sends <= MAX_RETRY /\ MAX_RETRY \in Nat
      BY <1>0, KeyboardAssumption DEF KbdIInv, RetryOK
    <2>2. ACK # RESEND
      BY DEF ACK, RESEND
    <2>3. QED
      BY <1>0, <1>2, <2>1, <2>2 DEF RetryOK
  <1>5. KeysInOrder'
    BY <1>0, <1>1, <1>2, Kept
  <1>6. QED
    BY <1>0, <1>1, <1>2, <1>3, <1>4, <1>5, Fields DEF KbdIInv

LEMMA KbdInductive ==
  KbdIInv /\ [Next]_vars => KbdIInv'
  <1> SUFFICES ASSUME KbdIInv, [Next]_vars PROVE KbdIInv'
    OBVIOUS
  <1>1. CASE isr_keyboard
    BY <1>1, ReplyStep, PrefixStep, CodeStep DEF isr_keyboard
  <1>2. CASE OtherIrq
    BY <1>2, StillStep DEF OtherIrq
  <1>3. CASE Terminal
    <2>1. CASE TakeKey
      BY <2>1, TakeStep
    <2>2. CASE TerminalCli \/ HaltWhenEmpty \/ Echo
      BY <2>2, StillStep DEF TerminalCli, HaltWhenEmpty, Echo
    <2>3. QED
      BY <1>3, <2>1, <2>2 DEF Terminal
  <1>4. ASSUME NEW k \in Keys, NEW extended \in BOOLEAN, NEW release \in BOOLEAN,
               Type(k, extended, release)
        PROVE  KbdIInv'
    BY <1>4, TypeStep
  <1>5. CASE Emit
    BY <1>5, EmitStep
  <1>6. ASSUME NEW reply \in {ACK, RESEND}, Answer(reply)
        PROVE  KbdIInv'
    BY <1>6, AnswerStep
  <1>7. CASE UNCHANGED vars
    BY <1>7, StillStep DEF vars
  <1>8. QED
    BY <1>1, <1>2, <1>3, <1>4, <1>5, <1>6, <1>7 DEF Next

LEMMA KbdInvariant ==
  Spec => []KbdIInv
  BY KbdInit, KbdInductive, PTL DEF Spec
-----------------------------------------------------------------------------
(* Every key press reaches the terminal once, in the order typed and with  *)
(* its own code: on_recieve, RingBuffer::buf_write and buf_read and        *)
(* read_and_echo together neither lose nor change one, short of the panic  *)
(* of a full buffer, and the buffer is full with N - 1 codes.              *)
THEOREM KeyboardKeysInOrder ==
  Spec => []KeysInOrder
  <1>1. KbdIInv => KeysInOrder
    BY DEF KbdIInv
  <1>2. QED
    BY <1>1, KbdInvariant, PTL

(* The driver sends a command at most MAX_RETRY times, and when it gives   *)
(* up the port is off.                                                     *)
THEOREM KeyboardRetriesBounded ==
  Spec => []RetriesBounded
  <1>1. KbdIInv => RetriesBounded
    BY DEF KbdIInv, RetryOK, RetriesBounded
  <1>2. QED
    BY <1>1, KbdInvariant, PTL
=============================================================================

----------------------------- MODULE SingleDeque -----------------------------
(***************************************************************************)
(* kstd::SingleDeque (include/std/single_deque.hpp) at the level of its    *)
(* pointers: several lists whose nodes share one hook, as ready_threads    *)
(* and waiting_queue share ThreadBlock::hook.  Module Deques is what the   *)
(* class promises; the specification here implements it as long as callers *)
(* push only values that no list holds.                                    *)
(*                                                                         *)
(* The member functions are operators on a record of all pointers, because *)
(* remove calls pop_tail and pop_head, and a loop body calls remove and    *)
(* push_tail.                                                              *)
(***************************************************************************)
EXTENDS Integers, Sequences

CONSTANTS Lists, Values, Null,
  Nodes     \* how many nodes there are, which ends a walk over a broken list

ASSUME NullAssumption == Null \notin Values

(* The values can be numbered from 1 to Nodes.                             *)
ASSUME NodesAssumption ==
  /\ Nodes \in Nat
  /\ \E f \in [Values -> 1 .. Nodes] : \A u, v \in Values : f[u] = f[v] => u = v

VARIABLES
  d,      \* [head, tail : Lists -> pointer, next : Values -> pointer]
  it,     \* the Iterator of the running loop: [ptr, next, over]
  ret     \* what the last call returned, or the value the loop visited

vars == <<d, it, ret>>

Pointer == Values \cup {Null}
-----------------------------------------------------------------------------
(* Walking the hooks: Nth(next, p)[n] is n steps from p.                   *)
Nth(next, p) ==
  LET f[n \in 0 .. Nodes] ==
        IF n = 0 THEN p
        ELSE IF f[n - 1] = Null THEN Null ELSE next[f[n - 1]]
  IN  f

(* The nodes a walk from p meets.                                          *)
Chain(next, p) ==
  LET f    == Nth(next, p)
      ends == {n \in DOMAIN f : f[n] = Null}
      len  == IF ends = {} THEN Nodes + 1 ELSE CHOOSE n \in ends : \A k \in ends : n <= k
  IN  [i \in 1 .. len |-> f[i - 1]]

(* The node whose hook names v, Null when the walk from p ends before it.  *)
Before(next, p, v) ==
  LET f  == Nth(next, p)
      at == {n \in DOMAIN f : f[n] # Null /\ next[f[n]] = v}
  IN  IF at = {} THEN Null ELSE f[CHOOSE n \in at : \A k \in at : n <= k]
-----------------------------------------------------------------------------
push_head(s, l, v) ==
  IF s.head[l] = Null
  THEN [s EXCEPT !.next[v] = Null, !.tail[l] = v, !.head[l] = v]
  ELSE [s EXCEPT !.next[v] = s.head[l], !.head[l] = v]

push_tail(s, l, v) ==
  IF s.tail[l] = Null
  THEN [s EXCEPT !.next[v] = Null, !.head[l] = v, !.tail[l] = v]
  ELSE [s EXCEPT !.next[v] = Null, !.next[s.tail[l]] = v, !.tail[l] = v]

pop_head(s, l) ==
  IF s.head[l] = Null THEN s
  ELSE LET h == s.next[s.head[l]]
       IN  [s EXCEPT !.head[l] = h, !.tail[l] = IF h = Null THEN Null ELSE @]

pop_tail(s, l) ==
  IF s.tail[l] = Null THEN s
  ELSE IF s.head[l] = s.tail[l] THEN [s EXCEPT !.head[l] = Null, !.tail[l] = Null]
  ELSE LET new_tail == Before(s.next, s.head[l], s.tail[l])
       IN  [s EXCEPT !.next[new_tail] = Null, !.tail[l] = new_tail]

(* remove of a value the list does not hold walks to the end and returns.  *)
remove(s, l, v) ==
  IF v = Null \/ s.head[l] = Null THEN s
  ELSE IF v = s.tail[l] THEN pop_tail(s, l)
  ELSE IF v = s.head[l] THEN pop_head(s, l)
  ELSE LET prev == Before(s.next, s.head[l], v)
       IN  IF prev = Null THEN s ELSE [s EXCEPT !.next[prev] = s.next[v]]

clear_all(s, l) == [s EXCEPT !.head[l] = Null, !.tail[l] = Null]

empty(s, l) == s.head[l] = Null /\ s.tail[l] = Null

size(s, l) == Len(Chain(s.next, s.head[l]))

begin(s, l) ==
  LET h == s.head[l]
  IN  [ptr |-> h, next |-> IF h = Null THEN Null ELSE s.next[h], over |-> l]

(* Mutant: the hook is read when the loop moves on. *)
advance_late(s, i) ==
  LET p == s.next[i.ptr]
  IN  [i EXCEPT !.ptr = p, !.next = IF p = Null THEN Null ELSE s.next[p]]

(* operator++: the pointer moves to the hook read before the body ran.     *)
advance(s, i) ==
  [i EXCEPT !.ptr = i.next, !.next = IF i.next = Null THEN @ ELSE s.next[i.next]]
-----------------------------------------------------------------------------
Init ==
  /\ d \in [head : [Lists -> {Null}], tail : [Lists -> {Null}],
            next : [Values -> Pointer]]     \* VmRegion::hook starts unset
  /\ it \in [ptr : {Null}, next : {Null}, over : Lists]
  /\ ret = Null

NoLoop == it.ptr = Null

(* The callers' contract: the value's hook is in no list.                  *)
Unlinked(v) ==
  \A l \in Lists : \A i \in DOMAIN Chain(d.next, d.head[l]) :
    Chain(d.next, d.head[l])[i] # v

PushHead(l, v) ==
  NoLoop /\ Unlinked(v) /\ d' = push_head(d, l, v) /\ UNCHANGED <<it, ret>>

PushTail(l, v) ==
  NoLoop /\ Unlinked(v) /\ d' = push_tail(d, l, v) /\ UNCHANGED <<it, ret>>

PopHead(l) ==
  NoLoop /\ d' = pop_head(d, l) /\ ret' = d.head[l] /\ UNCHANGED it

PopTail(l) ==
  NoLoop /\ d' = pop_tail(d, l) /\ ret' = d.tail[l] /\ UNCHANGED it

Remove(l, v) == NoLoop /\ d' = remove(d, l, v) /\ UNCHANGED <<it, ret>>

ClearAll(l) == NoLoop /\ d' = clear_all(d, l) /\ UNCHANGED <<it, ret>>

Size(l) == NoLoop /\ ret' = <<size(d, l), empty(d, l)>> /\ UNCHANGED <<d, it>>

LoopBegin(l) == NoLoop /\ it' = begin(d, l) /\ UNCHANGED <<d, ret>>

(* A loop body of the scheduler: pit_irq_handler leaves a thread where it  *)
(* is or moves it to ready_threads, remove_dead_process_threads takes it   *)
(* out.                                                                    *)
LoopTurn ==
  /\ ~NoLoop
  /\ \/ d' = d
     \/ d' = remove(d, it.over, it.ptr)
     \/ \E l \in Lists \ {it.over} :
          d' = push_tail(remove(d, it.over, it.ptr), l, it.ptr)
  /\ it' = advance(d', it)
  /\ ret' = it.ptr

Next ==
  \/ \E l \in Lists, v \in Values : PushHead(l, v) \/ PushTail(l, v)
  \/ \E l \in Lists, v \in Pointer : Remove(l, v)
  \/ \E l \in Lists : PopHead(l) \/ PopTail(l) \/ ClearAll(l) \/ Size(l) \/ LoopBegin(l)
  \/ LoopTurn

(* A loop runs with interrupts off, so its turns follow one another.       *)
Spec == Init /\ [][Next]_vars /\ WF_vars(LoopTurn)
-----------------------------------------------------------------------------
(* What the lists hold, and what a loop that stands at j has yet to visit. *)
ListsOf(s) == [l \in Lists |-> Chain(s.next, s.head[l])]

TodoOf(s, j) == IF j.ptr = Null THEN <<>> ELSE <<j.ptr>> \o Chain(s.next, j.next)
=============================================================================

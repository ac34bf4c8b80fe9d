------------------------------- MODULE Deques -------------------------------
(***************************************************************************)
(* What kstd::SingleDeque promises its callers: lists of distinct values,  *)
(* no value in two lists at once, and loops that visit the list as it was  *)
(* when they started although their body takes the visited value out.      *)
(***************************************************************************)
EXTENDS Integers, Sequences

CONSTANTS Lists, Values, Null

VARIABLES
  q,      \* what each list holds, head first
  todo,   \* the values the running loop has yet to visit
  over,   \* the list that loop runs over
  ret     \* what the last call returned, or the value the loop visited

vars == <<q, todo, over, ret>>

In(l) == {q[l][i] : i \in DOMAIN q[l]}

(* The list without v, which it holds at most once.                        *)
Without(s, v) ==
  IF \A k \in DOMAIN s : s[k] # v THEN s
  ELSE LET at == CHOOSE k \in DOMAIN s : s[k] = v
       IN  [k \in 1 .. Len(s) - 1 |-> IF k < at THEN s[k] ELSE s[k + 1]]

Init == q = [l \in Lists |-> <<>>] /\ todo = <<>> /\ over \in Lists /\ ret = Null

Idle == todo = <<>>

(* A value has one hook: it is pushed only while no list holds it.         *)
Free(v) == \A l \in Lists : v \notin In(l)

PushHead(l, v) ==
  Idle /\ Free(v) /\ q' = [q EXCEPT ![l] = <<v>> \o @] /\ UNCHANGED <<todo, over, ret>>

PushTail(l, v) ==
  Idle /\ Free(v) /\ q' = [q EXCEPT ![l] = Append(@, v)] /\ UNCHANGED <<todo, over, ret>>

PopHead(l) ==
  /\ Idle
  /\ IF q[l] = <<>> THEN ret' = Null /\ q' = q
     ELSE ret' = Head(q[l]) /\ q' = [q EXCEPT ![l] = Tail(@)]
  /\ UNCHANGED <<todo, over>>

PopTail(l) ==
  /\ Idle
  /\ IF q[l] = <<>> THEN ret' = Null /\ q' = q
     ELSE ret' = q[l][Len(q[l])] /\ q' = [q EXCEPT ![l] = SubSeq(@, 1, Len(@) - 1)]
  /\ UNCHANGED <<todo, over>>

(* Any value, the ones the list does not hold included.                    *)
Remove(l, v) ==
  Idle /\ q' = [q EXCEPT ![l] = Without(@, v)] /\ UNCHANGED <<todo, over, ret>>

Clear(l) ==
  Idle /\ q' = [q EXCEPT ![l] = <<>>] /\ UNCHANGED <<todo, over, ret>>

Size(l) ==
  Idle /\ ret' = <<Len(q[l]), q[l] = <<>> >> /\ UNCHANGED <<q, todo, over>>

LoopBegin(l) ==
  Idle /\ todo' = q[l] /\ over' = l /\ UNCHANGED <<q, ret>>

(* One turn: the body keeps the value, takes it out, or moves it to the    *)
(* end of another list.                                                    *)
LoopTurn ==
  /\ todo # <<>>
  /\ ret' = Head(todo)
  /\ todo' = Tail(todo)
  /\ \/ q' = q
     \/ q' = [q EXCEPT ![over] = Without(@, Head(todo))]
     \/ \E l \in Lists \ {over} :
          q' = [q EXCEPT ![over] = Without(@, Head(todo)), ![l] = Append(@, Head(todo))]
  /\ UNCHANGED over

Next ==
  \/ \E l \in Lists, v \in Values : PushHead(l, v) \/ PushTail(l, v)
  \/ \E l \in Lists, v \in Values \cup {Null} : Remove(l, v)
  \/ \E l \in Lists : PopHead(l) \/ PopTail(l) \/ Clear(l) \/ Size(l) \/ LoopBegin(l)
  \/ LoopTurn

Spec == Init /\ [][Next]_vars /\ WF_vars(LoopTurn)
=============================================================================

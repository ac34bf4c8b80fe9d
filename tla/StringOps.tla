----------------------------- MODULE StringOps -----------------------------
(***************************************************************************)
(* libc/string.cpp: memcpy, memset, memove, memcmp and strlen, one step    *)
(* per turn of their loops, on a memory in which the regions may overlap   *)
(* in any way.  The kernel calls memcpy on regions that do not overlap,    *)
(* and strlen on strings that end.                                         *)
(***************************************************************************)
EXTENDS Integers

CONSTANTS
  BYTE,       \* how many values a byte has, of which 0 ends a string
  Addresses,  \* the values of the pointers, of which 0 is null
  Sizes       \* the values of n

ASSUME MemoryAssumption ==
  Addresses \subseteq Nat /\ Sizes \subseteq Nat /\ BYTE \in Nat \ {0}

VARIABLES
  mem,      \* the memory, by address
  old,      \* what it was when the call was made
  call,     \* the function and its arguments; dest is also s and s1, src s2 and str
  i,        \* the counter of the loop
  returned, \* whether the call has returned
  result    \* the int that memcmp and strlen return

strvars == <<mem, old, call, i, returned, result>>

Bytes == 0 .. BYTE - 1

(* What the arguments can point to.                                        *)
Cells == UNION {UNION {a .. a + n : n \in Sizes} : a \in Addresses}

Calls == [f : {"memcpy", "memset", "memove", "memcmp", "strlen"},
          dest : Addresses, src : Addresses, c : -1 .. BYTE, n : Sizes]

(* What callers keep to; only memset has an int c.                         *)
Allowed(c, m) ==
  /\ c.f = "memcpy" => c.dest + c.n <= c.src \/ c.src + c.n <= c.dest
  /\ c.f = "strlen" => \E n \in 0 .. c.n : m[c.src + n] = 0
  /\ c.f # "memset" => c.c = 0

(* The loop of memove that counts down.                                    *)
Down(c) == c.f = "memove" /\ c.src < c.dest

StrInit ==
  /\ mem \in [Cells -> Bytes] /\ old = mem
  /\ call \in {c \in Calls : Allowed(c, mem)}
  /\ i = IF Down(call) THEN call.n ELSE 0
  /\ returned = FALSE /\ result = 0
-----------------------------------------------------------------------------
Store(n, v) == mem' = [mem EXCEPT ![call.dest + n] = v]

(* The condition of the loop, which no turn changes for a null str or a    *)
(* memove of a region onto itself.                                         *)
Looping ==
  CASE call.f \in {"memcpy", "memset"} -> i < call.n
    [] call.f = "memove" -> \/ call.src > call.dest /\ i < call.n
                            \/ call.src < call.dest /\ i > 0
    [] call.f = "memcmp" -> i < call.n /\ mem[call.dest + i] = mem[call.src + i]
    [] call.f = "strlen" -> call.src # 0 /\ mem[call.src + i] # 0

memcpy == call.f = "memcpy" /\ Store(i, mem[call.src + i]) /\ i' = i + 1

(* The cast of c to a byte is % BYTE.                                      *)
memset == call.f = "memset" /\ Store(i, call.c % BYTE) /\ i' = i + 1

(* Mutant: the loop always counts up. *)
memove_up ==
  /\ call.f = "memove"
  /\ Store(IF Down(call) THEN call.n - i ELSE i,
           mem[call.src + IF Down(call) THEN call.n - i ELSE i])
  /\ i' = IF Down(call) THEN i - 1 ELSE i + 1

memove ==
  /\ call.f = "memove"
  /\ IF Down(call) THEN Store(i - 1, mem[call.src + i - 1]) /\ i' = i - 1
                   ELSE Store(i, mem[call.src + i]) /\ i' = i + 1

(* memcmp and strlen look at a byte and go on.                             *)
Scan == call.f \in {"memcmp", "strlen"} /\ i' = i + 1 /\ UNCHANGED mem

Turn ==
  /\ ~returned /\ Looping
  /\ memcpy \/ memset \/ memove \/ Scan
  /\ UNCHANGED <<old, call, returned, result>>

Return ==
  /\ ~returned /\ ~Looping
  /\ returned' = TRUE
  /\ result' = CASE call.f = "memcmp" /\ i < call.n ->
                      IF mem[call.dest + i] < mem[call.src + i] THEN -1 ELSE 1
                 [] call.f = "strlen" -> i
                 [] OTHER -> result
  /\ UNCHANGED <<mem, old, call, i>>

StrNext == Turn \/ Return

StrSpec == StrInit /\ [][StrNext]_strvars
-----------------------------------------------------------------------------
(* Where the call may write, and what.                                     *)
Region == IF call.f \in {"memcpy", "memset", "memove"} THEN 0 .. call.n - 1 ELSE {}

Wanted(n) == IF call.f = "memset" THEN call.c % BYTE ELSE old[call.src + n]

(* memcpy, memset and memove leave in their region what the source held    *)
(* when they were called, although memove overwrites the source as it      *)
(* goes when the two overlap, and no function writes outside of it.        *)
MovesWhole ==
  returned =>
  /\ \A n \in Region : mem[call.dest + n] = Wanted(n)
  /\ \A a \in Cells : (\A n \in Region : a # call.dest + n) => mem[a] = old[a]

(* memcmp returns 0 for equal regions and otherwise how they compare at    *)
(* the first byte in which they differ; strlen returns the place of the    *)
(* first 0, and 0 for a null string.                                       *)
ScansRight ==
  returned =>
  /\ call.f = "memcmp" =>
       \/ result = 0 /\ \A n \in 0 .. call.n - 1 : old[call.dest + n] = old[call.src + n]
       \/ \E n \in 0 .. call.n - 1 :
            /\ \A m \in 0 .. n - 1 : old[call.dest + m] = old[call.src + m]
            /\ \/ result = -1 /\ old[call.dest + n] < old[call.src + n]
               \/ result = 1 /\ old[call.dest + n] > old[call.src + n]
  /\ call.f = "strlen" =>
       IF call.src = 0 THEN result = 0
       ELSE /\ result \in 0 .. call.n /\ old[call.src + result] = 0
            /\ \A m \in 0 .. result - 1 : old[call.src + m] # 0
=============================================================================

----------------------------- MODULE RingBuffer -----------------------------
(***************************************************************************)
(* kstd::RingBuffer<T, N> of include/std/ring_buffer.hpp.  A buffer is a   *)
(* record and each member function an operator on it; one slot stays free  *)
(* to tell full from empty.  buf_read of an empty and buf_write to a full  *)
(* buffer call klog_panic, which never returns: callers model that case.   *)
(***************************************************************************)
EXTENDS Integers, Sequences

CONSTANT N    \* the length of cap: 255 for KeyboardBuffer

ASSUME NAssumption == N \in Nat \ {0, 1}

Empty(junk) == [cap |-> [i \in 0 .. N - 1 |-> junk], read |-> 0, write |-> 0, size |-> 0]

is_empty(b) == b.write = b.read

is_full(b) == (b.write + 1) % N = b.read

get_read(b) == b.cap[b.read]

buf_read(b) == [b EXCEPT !.read = (b.read + 1) % N, !.size = b.size - 1]

buf_write(b, data) ==
  [b EXCEPT !.cap = [b.cap EXCEPT ![b.write] = data],
            !.write = (b.write + 1) % N,
            !.size = b.size + 1]

(* What the buffer holds, oldest first.                                    *)
Contents(b) == [i \in 1 .. (b.write - b.read) % N |-> b.cap[(b.read + i - 1) % N]]
=============================================================================

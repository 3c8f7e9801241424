------------------------------ MODULE NativeArrays ------------------------------
(***************************************************************************)
(* The two growing arrays of the native layer: the text buffer             *)
(* (native/c/src/buffer.c) and the cookie collection                       *)
(* (native/c/src/cookie.c).  A size is a word of Width bits, and what is   *)
(* larger wraps.  realloc may fail at any time, and then nothing changes.  *)
(***************************************************************************)
EXTENDS Integers

CONSTANTS
  Width, SIZE_MAX,
  SmallestBuffer, SmallestCollection,   \* 64 bytes, 16 cookies
  ItemSize,                             \* sizeof(luck_cookie)
  Chunk                                 \* the lengths of texts to append

ASSUME ArrayAssumption ==
  /\ Width \in Nat /\ SIZE_MAX \in Nat /\ SIZE_MAX = 2^Width - 1
  /\ Chunk \subseteq 0..SIZE_MAX
  /\ {SmallestBuffer, SmallestCollection, ItemSize} \subseteq 1..SIZE_MAX

VARIABLES
  buffer,       \* length, capacity, and how many bytes realloc was asked for
  collection    \* the same of the items

array_vars == <<buffer, collection>>

Wrapped(n) == n % (SIZE_MAX + 1)

Empty == [length |-> 0, capacity |-> 0, bytes |-> 0]

(***************************************************************************)
(* buffer.c: next_capacity, luck_buffer_reserve, luck_buffer_append.       *)
(***************************************************************************)
\* The loop of next_capacity: the least of the doublings of the capacity that
\* is enough, or what is required when the next doubling would wrap.
next_capacity(current, required) ==
  LET least == IF current < SmallestBuffer THEN SmallestBuffer ELSE current
      enough == {c \in required..SIZE_MAX : \E n \in 0..Width : c = least * 2^n}
  IN IF enough = {} THEN required
     ELSE CHOOSE c \in enough : \A d \in enough : c <= d

\* The buffer after a reserve that succeeds.
BufferReserved(minimum) ==
  LET capacity == next_capacity(buffer.capacity, minimum)
  IN IF minimum <= buffer.capacity THEN buffer
     ELSE [buffer EXCEPT !.capacity = capacity, !.bytes = capacity]

\* A faulty Appendable, which forgets the NUL.
AppendableWithoutEnd(length) == length <= SIZE_MAX - buffer.length

\* What the first test of luck_buffer_append lets through: a text that fits
\* behind the buffer with the NUL after it.
Appendable(length) == length <= Wrapped(SIZE_MAX - buffer.length - 1)

AppendText ==
  /\ \E length \in Chunk :
       /\ Appendable(length)
       /\ buffer' = [BufferReserved(Wrapped(buffer.length + length + 1))
                       EXCEPT !.length = Wrapped(@ + length)]
  /\ UNCHANGED collection

ClearBuffer ==
  /\ buffer' = [buffer EXCEPT !.length = 0]
  /\ UNCHANGED collection

\* A reserve without an append.
ReserveBuffer ==
  /\ \E minimum \in Chunk : buffer' = BufferReserved(minimum)
  /\ UNCHANGED collection

\* A faulty Fits: only the product is compared.
FitsWrapped(capacity) == Wrapped(capacity * ItemSize) <= SIZE_MAX

(***************************************************************************)
(* cookie.c: luck_cookie_collection_reserve and _push.                     *)
(***************************************************************************)
Fits(capacity) == capacity <= SIZE_MAX \div ItemSize

Reserved(capacity) ==
  IF capacity <= collection.capacity THEN collection
  ELSE [collection EXCEPT !.capacity = capacity, !.bytes = Wrapped(capacity * ItemSize)]

ReserveCollection ==
  /\ \E capacity \in Chunk : Fits(capacity) /\ collection' = Reserved(capacity)
  /\ UNCHANGED buffer

Push ==
  /\ LET full == collection.length = collection.capacity
         doubled == IF collection.capacity = 0 THEN SmallestCollection
                    ELSE Wrapped(collection.capacity * 2)
     IN /\ full => doubled >= collection.capacity /\ Fits(doubled)
        /\ collection' = [(IF full THEN Reserved(doubled) ELSE collection)
                            EXCEPT !.length = @ + 1]
  /\ UNCHANGED buffer

\* luck_cookie_collection_clear; the memory stays.
ClearCollection ==
  /\ collection' = [collection EXCEPT !.length = 0]
  /\ UNCHANGED buffer

ArrayInit == buffer = Empty /\ collection = Empty

ArrayNext ==
  \/ AppendText \/ ClearBuffer \/ ReserveBuffer
  \/ ReserveCollection \/ Push \/ ClearCollection

ArraySpec == ArrayInit /\ [][ArrayNext]_array_vars

\* What is written lies in the memory that was asked for, although lengths and
\* capacities are computed with a width: the text and the NUL behind it, and
\* all items (buffer.c:7-66, cookie.c:156-180).
GrowthNeverWraps ==
  /\ buffer.length > 0 => buffer.length + 1 <= buffer.bytes
  /\ buffer.bytes = buffer.capacity
  /\ collection.length <= collection.capacity
  /\ collection.capacity * ItemSize <= collection.bytes
=============================================================================

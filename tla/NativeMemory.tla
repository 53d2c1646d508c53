---------------------------- MODULE NativeMemory ----------------------------
(***************************************************************************)
(* Numbers in memory, as Utils.c and UnsafeAccess.java put and get them.   *)
(* A number of n bytes is the sequence of its bytes, least significant     *)
(* first: byte i is (value >> 8 * (i - 1)) & 0xFF.  A memory is a function *)
(* from addresses to bytes.                                                *)
(***************************************************************************)
EXTENDS Integers, Sequences, Functions

Byte == 0..255

\* insert8, insert16, insert32, insert64 of the C side.
Insert(mem, pos, value) ==
  [a \in DOMAIN mem |-> IF a \in pos..pos + Len(value) - 1
                        THEN value[a - pos + 1] ELSE mem[a]]

\* get8, get16, get32, get64 of the C side.
Get(mem, pos, n) == [i \in 1..n |-> mem[pos + i - 1]]

\* Unsafe.putX and Unsafe.getX, which keep the byte order of the machine.
PutUnsafe(mem, pos, value) ==
  [a \in DOMAIN mem |-> IF a \in pos..pos + Len(value) - 1
                        THEN value[a - pos + 1] ELSE mem[a]]

GetUnsafe(mem, pos, n) == [i \in 1..n |-> mem[pos + i - 1]]

\* The casts to a smaller type.
Truncate(value, n) == SubSeq(value, 1, n)

\* Mutant: the mask is left out, and the sign fills the bytes in front.
SignExtend(value, n) ==
  [i \in 1..n |-> IF i <= Len(value) THEN value[i]
                  ELSE IF value[Len(value)] >= 128 THEN 255 ELSE 0]

\* Utils.signToUnsign, to a larger type: the mask leaves zeros in front.
SignToUnsign(value, n) ==
  [i \in 1..n |-> IF i <= Len(value) THEN value[i] ELSE 0]

\* Utils.swap, for a value of any width.
Swap(value) == [i \in 1..Len(value) |-> value[Len(value) + 1 - i]]

\* A small number as a short, and back.
Short(n)     == <<n % 256, n \div 256>>
OfShort(v)   == v[1] + 256 * v[2]

=============================================================================

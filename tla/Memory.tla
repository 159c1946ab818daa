------------------------------- MODULE Memory -------------------------------
(***************************************************************************)
(* The memory of an EVM call frame, as the yellow paper has it: an array   *)
(* of bytes, zero until written, read and written anywhere by word or by   *)
(* range.  boa's FastMem (boa/vm/fast_mem.py) is shown to implement it.    *)
(***************************************************************************)
EXTENDS Naturals

CONSTANTS
  Byte,         \* the values of a byte
  WordSize,     \* bytes in a word (32 in the EVM)
  MaxWords,     \* bound on the memory, in words
  ToInt(_),     \* the number written, big-endian, by a sequence of bytes
  ToBytes(_)    \* the bytes of a number that fits in a word

VARIABLES
  bytes,        \* the contents
  out           \* the last operation, its position and what it read or wrote

MemSize == WordSize * MaxWords
MemPos == 0..(MemSize - 1)
Bytes(n) == [1..n -> Byte]
Range0(b, p, n) == [i \in 1..n |-> b[p + i - 1]]
Written(b, p, s, n) == [i \in MemPos |-> IF i \in p..(p + n - 1) THEN s[i - p + 1] ELSE b[i]]

Init == bytes = [i \in MemPos |-> 0] /\ out = <<>>

LoadWord(p) == out' = <<"load", p, ToInt(Range0(bytes, p, WordSize))>> /\ UNCHANGED bytes

LoadRange(p, n) == out' = <<"read", p, Range0(bytes, p, n)>> /\ UNCHANGED bytes

StoreRange(p, s, n) == bytes' = Written(bytes, p, s, n) /\ out' = <<"write", p, s>>

Next ==
  \/ \E p \in 0..(MemSize - WordSize) : LoadWord(p)
  \/ \E p \in MemPos : \E n \in 0..(MemSize - p) : LoadRange(p, n)
  \/ \E p \in MemPos : \E n \in 0..(MemSize - p) : \E s \in Bytes(n) : StoreRange(p, s, n)

Spec == Init /\ [][Next]_<<bytes, out>>
=============================================================================

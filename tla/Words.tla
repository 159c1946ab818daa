------------------------------- MODULE Words -------------------------------
(***************************************************************************)
(* boa/vm/utils.py: numbers and their big-endian bytes.  The model has     *)
(* words of a few one-bit bytes in place of the EVM's 32 eight-bit ones.   *)
(***************************************************************************)
EXTENDS Integers, Sequences

Bit == 0..1

\* 2 to the power of n.
Pow2[n \in Nat] == IF n = 0 THEN 1 ELSE 2 * Pow2[n - 1]

to_int(s) ==
  LET v[i \in 0..Len(s)] == IF i = 0 THEN 0 ELSE 2 * v[i - 1] + s[i] IN v[Len(s)]

to_bytes(n, size) == [i \in 1..size |-> (n \div Pow2[size - i]) % 2]

floor32(n, size) == n - (n % size)

ceil32(n, size) == floor32(n + size - 1, size)
=============================================================================

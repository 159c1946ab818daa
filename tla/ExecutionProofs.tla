-------------------------- MODULE ExecutionProofs --------------------------
(***************************************************************************)
(* Proofs about what boa puts in the place of the EVM's own parts.         *)
(*                                                                         *)
(* FastMem, for words and memories of any size: as long as no word is read *)
(* at an unaligned position and no range of length 0 extends the memory,   *)
(* it is an array of bytes.                                                *)
(*                                                                         *)
(* Arithmetic, for words of any width: the operators and shifts that fast  *)
(* mode computes with Python's integers are those of the EVM.              *)
(*                                                                         *)
(* Calls, for any gas, any number of computations and any number of steps: *)
(* the stack trace of a failed call names what made it fail, and the gas   *)
(* profile of a successful one counts what each computation used once.     *)
(***************************************************************************)
EXTENDS FastMem, Calls, Arithmetic, SequenceTheorems, FiniteSetTheorems, WellFoundedInduction, TLAPS

(***************************************************************************)
(* Positions and words                                                     *)
(***************************************************************************)

\* A position is a word and an offset in only one way.
LEMMA WordAndByte ==
  ASSUME NEW W \in Nat \ {0}, NEW w \in Nat, NEW k \in 0..(W - 1)
  PROVE  (w * W + k) \div W = w /\ (w * W + k) % W = k
  OBVIOUS

\* Division by the size of a word.
LEMMA Division ==
  ASSUME NEW W \in Nat \ {0}, NEW i \in Nat
  PROVE  /\ i \div W \in Nat /\ i % W \in 0..(W - 1)
         /\ i = (i \div W) * W + (i % W)
<1>1. i \div W \in Nat /\ i % W \in 0..(W - 1)
  OBVIOUS
<1>2. (i \div W) * W <= i /\ i - (i \div W) * W < W
  BY SMTT(20)
<1> DEFINE q == i \div W
<1>3. PICK r \in 0..(W - 1) : i = q * W + r
  <2>1. q \in Nat /\ q * W \in Nat /\ i - q * W \in 0..(W - 1) /\ i = q * W + (i - q * W)
    BY <1>1, <1>2
  <2> QED
    BY <2>1
<1>4. i % W = r
  <2> HIDE DEF q
  <2>1. q \in Nat
    BY <1>1 DEF q
  <2> QED
    BY <1>3, <2>1, WordAndByte
<1>5. i = q * W + (i % W)
  <2> HIDE DEF q
  <2> QED
    BY <1>3, <1>4
<1> QED
  BY <1>1, <1>5

\* Words in order.
LEMMA Order ==
  ASSUME NEW W \in Nat \ {0}, NEW v \in Nat, NEW w \in Nat, v < w
  PROVE  v * W + W <= w * W /\ v * W \in Nat /\ w * W \in Nat
  OBVIOUS

\* A position is a byte of a word, and a byte of a word a position.
LEMMA Positions ==
  /\ MemSize \in Nat
  /\ \A i \in MemPos : /\ i \div WordSize \in WordIx /\ i % WordSize \in 0..(WordSize - 1)
                       /\ i = (i \div WordSize) * WordSize + (i % WordSize)
  /\ \A w \in WordIx, k \in 0..(WordSize - 1) :
       /\ w * WordSize + k \in MemPos
       /\ (w * WordSize + k) \div WordSize = w /\ (w * WordSize + k) % WordSize = k
<1> USE FastMemAssumption
<1>1. MemSize \in Nat
  BY DEF MemSize
<1>2. ASSUME NEW i \in MemPos
      PROVE  /\ i \div WordSize \in WordIx /\ i % WordSize \in 0..(WordSize - 1)
             /\ i = (i \div WordSize) * WordSize + (i % WordSize)
  <2> DEFINE w == i \div WordSize
  <2>1. i \in Nat /\ i < MemSize
    BY <1>1 DEF MemPos
  <2>2. w \in Nat /\ i % WordSize \in 0..(WordSize - 1) /\ i = w * WordSize + (i % WordSize)
    BY <2>1, Division
  <2>3. w < MaxWords
    <3> HIDE DEF w
    <3>1. SUFFICES ASSUME ~(w < MaxWords) PROVE FALSE
      OBVIOUS
    <3>2. w = MaxWords \/ MaxWords < w
      BY <2>2, <3>1
    <3>3. MaxWords * WordSize <= w * WordSize /\ w * WordSize \in Nat
      BY <2>2, <3>2, Order
    <3> QED
      BY <2>1, <2>2, <3>3 DEF MemSize
  <2> QED
    BY <2>2, <2>3 DEF WordIx
<1>3. ASSUME NEW w \in WordIx, NEW k \in 0..(WordSize - 1)
      PROVE  /\ w * WordSize + k \in MemPos
             /\ (w * WordSize + k) \div WordSize = w /\ (w * WordSize + k) % WordSize = k
  <2>1. w \in Nat /\ w < MaxWords
    BY DEF WordIx
  <2>2. w * WordSize + WordSize <= MaxWords * WordSize /\ w * WordSize \in Nat
    BY <2>1, Order
  <2> QED
    BY <2>1, <2>2, WordAndByte DEF MemPos, MemSize
<1> QED
  BY <1>1, <1>2, <1>3

\* How many words n bytes need.
LEMMA Rounding ==
  ASSUME NEW n \in 1..MemSize
  PROVE  /\ Ceil(n) \in 1..MaxWords /\ n <= Ceil(n) * WordSize
         /\ \A i \in 0..(n - 1) : i \div WordSize < Ceil(n)
<1> USE FastMemAssumption
<1>1. MemSize \in Nat /\ n \in Nat /\ n - 1 \in MemPos
  BY Positions DEF MemPos
<1> DEFINE q == (n - 1) \div WordSize
           r == (n - 1) % WordSize
<1>2. q \in WordIx /\ r \in 0..(WordSize - 1) /\ n - 1 = q * WordSize + r
  BY <1>1, Positions
<1>3. Ceil(n) = q + 1
  <2> HIDE DEF q, r
  <2>1. q \in Nat /\ q + 1 \in Nat
    BY <1>2 DEF WordIx
  <2>2. n + WordSize - 1 = (q + 1) * WordSize + r
    BY <1>1, <1>2, <2>1
  <2> QED
    BY <1>2, <2>1, <2>2, WordAndByte DEF Ceil
<1> HIDE DEF q, r
<1>4. Ceil(n) \in 1..MaxWords
  BY <1>2, <1>3 DEF WordIx
<1>5. n <= Ceil(n) * WordSize
  BY <1>2, <1>3 DEF WordIx
<1>6. ASSUME NEW i \in 0..(n - 1) PROVE i \div WordSize < Ceil(n)
  <2> DEFINE w == i \div WordSize
  <2>1. i \in MemPos
    BY <1>1 DEF MemPos
  <2>2. w \in WordIx /\ i % WordSize \in 0..(WordSize - 1) /\ i = w * WordSize + (i % WordSize)
    BY <2>1, Positions
  <2> HIDE DEF w
  <2>3. SUFFICES ASSUME q < w PROVE FALSE
    BY <1>2, <1>3, <2>2 DEF WordIx, w
  <2>4. q * WordSize + WordSize <= w * WordSize
    BY <1>2, <2>2, <2>3, Order DEF WordIx
  <2> QED
    BY <1>1, <1>2, <2>2, <2>4 DEF WordIx
<1> QED
  BY <1>4, <1>5, <1>6

\* The words of a range of positions.
LEMMA Touching ==
  ASSUME NEW p \in MemPos, NEW n \in 1..(MemSize - p)
  PROVE  /\ p + n \in 1..MemSize /\ Ceil(p + n) \in 1..MaxWords
         /\ Touched(p, n) \subseteq WordIx
         /\ \A w \in Touched(p, n) : w < Ceil(p + n)
         /\ \A i \in p..(p + n - 1) : i \in MemPos /\ i \div WordSize \in Touched(p, n)
<1> USE FastMemAssumption
<1>1. MemSize \in Nat /\ p \in Nat /\ n \in Nat \ {0} /\ p + n \in 1..MemSize
  BY Positions DEF MemPos
<1>2. /\ Ceil(p + n) \in 1..MaxWords
      /\ \A i \in 0..(p + n - 1) : i \div WordSize < Ceil(p + n)
  <2> DEFINE N == p + n
  <2>1. N \in 1..MemSize
    BY <1>1
  <2> HIDE DEF N
  <2>2. Ceil(N) \in 1..MaxWords /\ \A i \in 0..(N - 1) : i \div WordSize < Ceil(N)
    BY <2>1, Rounding
  <2>3. N = p + n
    BY DEF N
  <2>4. ASSUME NEW i \in 0..(p + n - 1) PROVE i \div WordSize < Ceil(p + n)
    <3>1. i \in 0..(N - 1)
      BY <1>1, <2>3
    <3>2. i \div WordSize < Ceil(N)
      BY <2>2, <3>1
    <3> QED
      BY <2>3, <3>2
  <2> QED
    BY <2>2, <2>3, <2>4
<1>3. p \div WordSize \in WordIx
  BY Positions
<1>4. \A w \in Touched(p, n) : w \in WordIx /\ w < Ceil(p + n)
  BY <1>2, <1>3 DEF Touched, WordIx
<1>5. ASSUME NEW i \in p..(p + n - 1)
      PROVE  i \in MemPos /\ i \div WordSize \in Touched(p, n)
  <2>1. i \in MemPos /\ i \in 0..(p + n - 1)
    BY <1>1 DEF MemPos
  <2>2. i \div WordSize \in WordIx /\ i \div WordSize < Ceil(p + n)
    BY <1>2, <2>1, Positions
  <2>3. p \div WordSize <= i \div WordSize
    <3> DEFINE v == p \div WordSize
               w == i \div WordSize
    <3>1. /\ v \in WordIx /\ p % WordSize \in 0..(WordSize - 1) /\ p = v * WordSize + (p % WordSize)
          /\ w \in WordIx /\ i % WordSize \in 0..(WordSize - 1) /\ i = w * WordSize + (i % WordSize)
      BY <2>1, Positions
    <3> HIDE DEF v, w
    <3>2. SUFFICES ASSUME w < v PROVE FALSE
      BY <3>1 DEF v, w, WordIx
    <3>3. w * WordSize + WordSize <= v * WordSize
      BY <3>1, <3>2, Order DEF WordIx
    <3> QED
      BY <1>1, <2>1, <3>1, <3>3 DEF WordIx
  <2> QED
    BY <1>2, <1>3, <2>1, <2>2, <2>3 DEF Touched, WordIx
<1> QED
  BY <1>1, <1>2, <1>4, <1>5

\* A word at an aligned position is one word of the cache.
LEMMA OneWord ==
  ASSUME NEW p \in MemPos, Aligned(p)
  PROVE  /\ p = (p \div WordSize) * WordSize
         /\ Ceil(p + WordSize) = (p \div WordSize) + 1
         /\ Touched(p, WordSize) = {p \div WordSize}
         /\ \A i \in MemPos : i \div WordSize = p \div WordSize <=> i \in p..(p + WordSize - 1)
<1> USE FastMemAssumption
<1> DEFINE v == p \div WordSize
<1>1. MemSize \in Nat /\ v \in WordIx /\ p = v * WordSize + 0 /\ v * WordSize \in Nat
  <2>1. v \in WordIx /\ p = v * WordSize + (p % WordSize)
    BY Positions
  <2> HIDE DEF v
  <2>2. v \in Nat
    BY <2>1 DEF WordIx
  <2>3. p % WordSize = 0
    BY DEF Aligned
  <2> QED
    BY <2>1, <2>2, <2>3, Positions
<1>2. p = v * WordSize
  BY <1>1
<1>3. Ceil(p + WordSize) = v + 1
  <2> HIDE DEF v
  <2>1. p + WordSize + WordSize - 1 = (v + 1) * WordSize + (WordSize - 1)
    BY <1>1 DEF WordIx
  <2>2. v + 1 \in Nat /\ WordSize - 1 \in 0..(WordSize - 1)
    BY <1>1 DEF WordIx
  <2> QED
    BY <2>1, <2>2, WordAndByte DEF Ceil
<1>4. Touched(p, WordSize) = {v}
  BY <1>1, <1>3 DEF Touched, WordIx
<1>5. ASSUME NEW i \in MemPos
      PROVE  i \div WordSize = v <=> i \in p..(p + WordSize - 1)
  <2> DEFINE w == i \div WordSize
             r == i % WordSize
  <2>1. w \in WordIx /\ r \in 0..(WordSize - 1) /\ i = w * WordSize + r
    BY Positions
  <2>2. i \in Nat /\ p \in Nat
    BY DEF MemPos
  <2> HIDE DEF v, w, r
  <2>3. w = v => i \in p..(p + WordSize - 1)
    BY <1>1, <1>2, <2>1, <2>2
  <2>4. w < v => ~(i \in p..(p + WordSize - 1))
    <3> HAVE w < v
    <3>1. w * WordSize + WordSize <= v * WordSize /\ w * WordSize \in Nat
      BY <1>1, <2>1, Order DEF WordIx
    <3> QED
      BY <1>2, <2>1, <2>2, <3>1
  <2>5. v < w => ~(i \in p..(p + WordSize - 1))
    <3> HAVE v < w
    <3>1. v * WordSize + WordSize <= w * WordSize /\ w * WordSize \in Nat
      BY <1>1, <2>1, Order DEF WordIx
    <3> QED
      BY <1>2, <2>1, <2>2, <3>1
  <2>6. w = v <=> i \in p..(p + WordSize - 1)
    BY <1>1, <2>1, <2>3, <2>4, <2>5 DEF WordIx
  <2> QED
    BY <2>6 DEF v, w
<1> QED
  BY <1>2, <1>3, <1>4, <1>5

(***************************************************************************)
(* Memories in step                                                        *)
(***************************************************************************)

\* CacheInStep, of any memory.
Steady(m) ==
  \A w \in WordIx :
    /\ w >= m.words => m.cache[w] = DIRTY
    /\ m.back[w] => m.cache[w] # DIRTY
    /\ m.cache[w] # DIRTY /\ ~m.back[w] =>
         ToBytes(m.cache[w]) = [k \in 1..WordSize |-> m.bytes[w * WordSize + k - 1]]
InStep(m) == m \in MemType /\ m.len = m.words /\ Steady(m)

\* A memory whose lists have n words.
Lists(n, bytes, cache, back) ==
  [words |-> n, len |-> n, bytes |-> bytes, cache |-> cache, back |-> back]

\* Words and their bytes.
LEMMA Codec ==
  /\ \A s \in Bytes(WordSize) : ToInt(s) \in Word /\ ToBytes(ToInt(s)) = s
  /\ \A v \in Word : v # DIRTY /\ ToBytes(v) \in Bytes(WordSize) /\ ToInt(ToBytes(v)) = v
  BY CodecAssumption DEF Word, Bytes

\* The fields of a memory in step.
LEMMA Fields ==
  ASSUME NEW m, InStep(m)
  PROVE  /\ m = Lists(m.words, m.bytes, m.cache, m.back)
         /\ m.words \in 0..MaxWords /\ m.bytes \in [MemPos -> Byte]
         /\ m.cache \in [WordIx -> Word \union {DIRTY}] /\ m.back \in [WordIx -> BOOLEAN]
         /\ Steady(m)
  BY DEF InStep, MemType, Lists

\* What makes a memory one in step.
LEMMA Assembled ==
  ASSUME NEW n \in 0..MaxWords, NEW bytes \in [MemPos -> Byte],
         NEW cache \in [WordIx -> Word \union {DIRTY}], NEW back \in [WordIx -> BOOLEAN],
         \A w \in WordIx :
           /\ w >= n => cache[w] = DIRTY
           /\ back[w] => cache[w] # DIRTY
           /\ cache[w] # DIRTY /\ ~back[w] =>
                ToBytes(cache[w]) = [k \in 1..WordSize |-> bytes[w * WordSize + k - 1]]
  PROVE  InStep(Lists(n, bytes, cache, back))
  BY DEF InStep, Steady, MemType, Lists

\* The contents depend on three of the fields.
LEMMA ContentsOf ==
  ASSUME NEW n, NEW bytes, NEW cache, NEW back
  PROVE  Contents(Lists(n, bytes, cache, back)) =
           [i \in MemPos |-> IF back[i \div WordSize]
                             THEN ToBytes(cache[i \div WordSize])[(i % WordSize) + 1]
                             ELSE bytes[i]]
  BY DEF Contents, Lists

\* Extending a memory makes room for a range and changes no byte.
LEMMA Extending ==
  ASSUME NEW m, InStep(m), NEW p \in MemPos, NEW n \in 1..(MemSize - p)
  PROVE  /\ InStep(Extended(m, p, n)) /\ Contents(Extended(m, p, n)) = Contents(m)
         /\ Ceil(p + n) <= Extended(m, p, n).words
<1> DEFINE C == Ceil(p + n)
<1>1. C \in 1..MaxWords
  BY Touching
<1>2. n # 0
  BY Positions DEF MemPos
<1>3. CASE C > m.words
  <2>1. Extended(m, p, n) = Lists(C, m.bytes, m.cache, m.back)
    <3>1. Extended(m, p, n) = [m EXCEPT !.words = C, !.len = C]
      BY <1>2, <1>3 DEF Extended
    <3> HIDE DEF C
    <3> QED
      BY <3>1 DEF InStep, MemType, Lists
  <2> HIDE DEF C
  <2>2. InStep(Lists(C, m.bytes, m.cache, m.back))
    <3>1. /\ m.words \in 0..MaxWords /\ m.bytes \in [MemPos -> Byte]
          /\ m.cache \in [WordIx -> Word \union {DIRTY}] /\ m.back \in [WordIx -> BOOLEAN]
      BY Fields
    <3>2. ASSUME NEW w \in WordIx, w >= C PROVE m.cache[w] = DIRTY
      <4>1. w >= m.words
        BY <1>1, <1>3, <3>1, <3>2, FastMemAssumption DEF WordIx
      <4> QED
        BY <4>1, Fields DEF Steady
    <3>3. C \in 0..MaxWords
      BY <1>1, FastMemAssumption
    <3> HIDE DEF Lists
    <3>4. \A w \in WordIx :
            /\ m.back[w] => m.cache[w] # DIRTY
            /\ m.cache[w] # DIRTY /\ ~m.back[w] =>
                 ToBytes(m.cache[w]) = [k \in 1..WordSize |-> m.bytes[w * WordSize + k - 1]]
      BY Fields DEF Steady
    <3> QED
      BY <3>1, <3>2, <3>3, <3>4, Assembled
  <2>3. Contents(Lists(C, m.bytes, m.cache, m.back)) = Contents(m)
    BY DEF Contents, Lists
  <2>4. Ceil(p + n) <= Lists(C, m.bytes, m.cache, m.back).words
    BY <1>1, FastMemAssumption DEF C, Lists
  <2> QED
    BY <2>1, <2>2, <2>3, <2>4
<1>4. CASE ~(C > m.words)
  <2>1. Extended(m, p, n) = m
    BY <1>4 DEF Extended
  <2>2. C <= m.words
    BY <1>1, <1>4, Fields, FastMemAssumption
  <2> QED
    BY <2>1, <2>2
<1> QED
  BY <1>3, <1>4

(***************************************************************************)
(* Writing back                                                            *)
(***************************************************************************)

Whole(m, p, n) ==
  [i \in MemPos |-> IF i \div WordSize \in Touched(p, n) /\ m.back[i \div WordSize]
                    THEN ToBytes(m.cache[i \div WordSize])[(i % WordSize) + 1]
                    ELSE m.bytes[i]]
Settled(m, p, n) == [w \in WordIx |-> m.back[w] /\ w \notin Touched(p, n)]

\* In a memory that has been extended, no pending word is behind the bytes, and
\* each goes where it belongs.
LEMMA Flushing ==
  ASSUME NEW m, InStep(m), NEW p \in MemPos, NEW n \in 1..(MemSize - p),
         Ceil(p + n) <= m.words
  PROVE  Flushed(m, p, n) = Lists(m.words, Whole(m, p, n), m.cache, Settled(m, p, n))
<1> DEFINE pending == {w \in Touched(p, n) \intersect WordIx : m.back[w]}
           behind == {w \in pending : w >= m.len}
           Place(w) == IF w \in behind THEN m.len + Cardinality({x \in behind : x < w}) ELSE w
           From(i) == {w \in pending : Place(w) = i \div WordSize}
           bs == [i \in MemPos |-> IF From(i) = {} THEN m.bytes[i]
                                   ELSE ToBytes(m.cache[CHOOSE w \in From(i) : TRUE])[(i % WordSize) + 1]]
           bk == [w \in WordIx |-> m.back[w] /\ w \notin pending]
<1>1. Touched(p, n) \subseteq WordIx /\ \A w \in Touched(p, n) : w < Ceil(p + n)
  BY Touching
<1>2. m.len = m.words /\ m.words \in Nat /\ m.len \in Nat /\ Ceil(p + n) \in Nat
  <2>1. Ceil(p + n) \in 1..MaxWords
    BY Touching
  <2> QED
    BY <2>1, FastMemAssumption DEF InStep, MemType
<1>3. behind = {}
  <2>1. SUFFICES ASSUME NEW w \in behind PROVE FALSE
    OBVIOUS
  <2>2. w < Ceil(p + n) /\ w >= m.len /\ w \in Nat
    BY <1>1, <2>1 DEF WordIx
  <2> QED
    BY <1>2, <2>2
<1>4. \A w : Place(w) = w
  BY <1>3
<1>5. Cardinality(behind) = 0
  BY <1>3, FS_EmptySet
<1>6. Flushed(m, p, n) = [m EXCEPT !.bytes = bs, !.len = m.len + Cardinality(behind), !.back = bk]
  BY DEF Flushed
<1>7. bs = Whole(m, p, n)
  <2>1. ASSUME NEW i \in MemPos PROVE bs[i] = Whole(m, p, n)[i]
    <3> DEFINE v == i \div WordSize
    <3>1. v \in WordIx
      BY Positions
    <3>2. From(i) = {w \in pending : w = v}
      BY <1>4
    <3>3. CASE v \in Touched(p, n) /\ m.back[v]
      <4>1. v \in pending
        BY <3>1, <3>3
      <4>2. From(i) = {v}
        <5> HIDE DEF pending, v
        <5> QED
          BY <3>2, <4>1
      <4>3. (CHOOSE w \in {v} : TRUE) = v
        OBVIOUS
      <4>4. bs[i] = ToBytes(m.cache[v])[(i % WordSize) + 1]
        <5> HIDE DEF From, v, pending
        <5> QED
          BY <4>2, <4>3
      <4> QED
        BY <3>3, <4>4 DEF Whole
    <3>4. CASE ~(v \in Touched(p, n) /\ m.back[v])
      <4>1. v \notin pending
        BY <3>4
      <4>2. From(i) = {}
        <5> HIDE DEF pending, v
        <5> QED
          BY <3>2, <4>1
      <4>3. bs[i] = m.bytes[i]
        <5> HIDE DEF From, v, pending
        <5> QED
          BY <4>2
      <4> QED
        BY <3>4, <4>3 DEF Whole
    <3> QED
      BY <3>3, <3>4
  <2> HIDE DEF From
  <2> QED
    BY <2>1 DEF Whole
<1>8. bk = Settled(m, p, n)
  BY <1>1 DEF Settled
<1> HIDE DEF pending, behind, Place, From, bs, bk
<1>9. Flushed(m, p, n) = [m EXCEPT !.bytes = bs, !.len = m.words, !.back = bk]
  <2>1. m.len + Cardinality(behind) = m.words
    BY <1>2, <1>5
  <2> QED
    BY <1>6, <2>1
<1>10. Flushed(m, p, n) = Lists(m.words, bs, m.cache, bk)
  BY <1>9 DEF Lists, InStep, MemType
<1> QED
  BY <1>7, <1>8, <1>10

\* Writing back changes the form of a memory, and nothing it stands for.
LEMMA FlushedKeeps ==
  ASSUME NEW m, InStep(m), NEW p \in MemPos, NEW n \in 1..(MemSize - p),
         Ceil(p + n) <= m.words
  PROVE  LET f == Flushed(m, p, n)
         IN /\ InStep(f) /\ Contents(f) = Contents(m)
            /\ f.words = m.words /\ f.cache = m.cache
            /\ \A w \in Touched(p, n) : ~f.back[w]
<1> DEFINE bs == Whole(m, p, n)
           bk == Settled(m, p, n)
<1> USE FastMemAssumption
<1>1. Flushed(m, p, n) = Lists(m.words, bs, m.cache, bk)
  BY Flushing
<1>2. /\ m.words \in 0..MaxWords /\ m.bytes \in [MemPos -> Byte]
      /\ m.cache \in [WordIx -> Word \union {DIRTY}] /\ m.back \in [WordIx -> BOOLEAN]
      /\ Steady(m)
  BY Fields
<1>3. Touched(p, n) \subseteq WordIx
  BY Touching
<1>4. bk \in [WordIx -> BOOLEAN]
  BY <1>2 DEF Settled
<1>5. ASSUME NEW w \in WordIx, m.cache[w] # DIRTY
      PROVE  ToBytes(m.cache[w]) \in Bytes(WordSize)
  BY <1>2, <1>5, Codec
<1>6. bs \in [MemPos -> Byte]
  <2>1. ASSUME NEW i \in MemPos, m.back[i \div WordSize]
        PROVE  ToBytes(m.cache[i \div WordSize])[(i % WordSize) + 1] \in Byte
    <3> DEFINE v == i \div WordSize
               r == i % WordSize
    <3>1. v \in WordIx /\ r \in 0..(WordSize - 1)
      BY Positions
    <3> HIDE DEF v, r
    <3>2. m.cache[v] # DIRTY
      BY <1>2, <2>1, <3>1 DEF Steady, v
    <3>3. ToBytes(m.cache[v]) \in Bytes(WordSize) /\ r + 1 \in 1..WordSize
      BY <1>5, <3>1, <3>2
    <3>4. ToBytes(m.cache[v])[r + 1] \in Byte
      BY <3>3 DEF Bytes
    <3> QED
      BY <3>4 DEF v, r
  <2> QED
    BY <1>2, <2>1 DEF Whole
<1>7. ASSUME NEW w \in WordIx
      PROVE  /\ w >= m.words => m.cache[w] = DIRTY
             /\ bk[w] => m.cache[w] # DIRTY
             /\ m.cache[w] # DIRTY /\ ~bk[w] =>
                  ToBytes(m.cache[w]) = [k \in 1..WordSize |-> bs[w * WordSize + k - 1]]
  <2>1. w >= m.words => m.cache[w] = DIRTY
    BY <1>2 DEF Steady
  <2>2. bk[w] => m.cache[w] # DIRTY
    BY <1>2 DEF Steady, Settled
  <2>3. ASSUME m.cache[w] # DIRTY, ~bk[w]
        PROVE  ToBytes(m.cache[w]) = [k \in 1..WordSize |-> bs[w * WordSize + k - 1]]
    <3>1. ASSUME NEW k \in 1..WordSize
          PROVE  ToBytes(m.cache[w])[k] = bs[w * WordSize + k - 1]
      <4> DEFINE i == w * WordSize + (k - 1)
      <4>1. k - 1 \in 0..(WordSize - 1) /\ w \in Nat
        BY DEF WordIx
      <4>2. i \in MemPos /\ i \div WordSize = w /\ i % WordSize = k - 1
        BY <4>1, Positions
      <4>3. i = w * WordSize + k - 1 /\ (k - 1) + 1 = k
        BY <4>1
      <4> HIDE DEF i
      <4>4. CASE m.back[w]
        <5>1. w \in Touched(p, n)
          BY <2>3, <4>4 DEF Settled
        <5> QED
          BY <4>2, <4>3, <4>4, <5>1 DEF Whole
      <4>5. CASE ~m.back[w]
        <5>1. bs[i] = m.bytes[i]
          BY <4>2, <4>5 DEF Whole
        <5>2. ToBytes(m.cache[w])[k] = m.bytes[w * WordSize + k - 1]
          BY <1>2, <2>3, <4>5 DEF Steady
        <5> QED
          BY <4>3, <5>1, <5>2
      <4> QED
        BY <4>4, <4>5
    <3>2. ToBytes(m.cache[w]) \in Bytes(WordSize)
      BY <1>5, <2>3
    <3> HIDE DEF bs, bk
    <3> QED
      BY <3>1, <3>2 DEF Bytes
  <2> QED
    BY <2>1, <2>2, <2>3
<1> HIDE DEF bs, bk
<1>8. InStep(Lists(m.words, bs, m.cache, bk))
  BY <1>2, <1>4, <1>6, <1>7, Assembled
<1>9. Contents(Lists(m.words, bs, m.cache, bk)) = Contents(m)
  <2>1. ASSUME NEW i \in MemPos
        PROVE  (IF bk[i \div WordSize] THEN ToBytes(m.cache[i \div WordSize])[(i % WordSize) + 1]
                ELSE bs[i])
               = (IF m.back[i \div WordSize] THEN ToBytes(m.cache[i \div WordSize])[(i % WordSize) + 1]
                  ELSE m.bytes[i])
    <3>1. i \div WordSize \in WordIx
      BY Positions
    <3> QED
      BY <3>1 DEF bs, bk, Whole, Settled
  <2> QED
    BY <2>1, ContentsOf DEF Contents
<1>10. \A w \in Touched(p, n) : ~bk[w]
  BY <1>3 DEF bk, Settled
<1> QED
  BY <1>1, <1>8, <1>9, <1>10 DEF Lists

\* Bytes of a sequence or of the contents.
Part(b, p, n) == [i \in 1..n |-> b[p + i - 1]]

\* Reading a range that has no pending word reads the contents.
LEMMA SliceIsRange ==
  ASSUME NEW m, InStep(m), NEW p \in MemPos, NEW n \in 1..(MemSize - p),
         Ceil(p + n) <= m.words, \A w \in Touched(p, n) : ~m.back[w]
  PROVE  Slice(m, p, n) = Part(Contents(m), p, n)
<1> USE FastMemAssumption
<1>1. m.len = m.words /\ m.len \in Nat
  BY DEF InStep, MemType
<1>2. p \in Nat /\ n \in Nat \ {0}
  BY Positions DEF MemPos
<1>3. /\ Ceil(p + n) \in 1..MaxWords /\ p + n \in 1..MemSize
      /\ \A i \in p..(p + n - 1) : i \in MemPos /\ i \div WordSize \in Touched(p, n)
  BY Touching
<1>4. p + n <= m.len * WordSize
  <2> DEFINE N == p + n
             C == Ceil(N)
  <2>1. N \in 1..MemSize /\ C \in 1..MaxWords /\ C <= m.len
    BY <1>1, <1>3
  <2> HIDE DEF N
  <2>2. N <= C * WordSize
    BY <2>1, Rounding
  <2> HIDE DEF C
  <2>3. C * WordSize <= m.len * WordSize
    BY <1>1, <2>1
  <2>4. N <= m.len * WordSize
    BY <1>1, <2>1, <2>2, <2>3, Positions
  <2> QED
    BY <2>4 DEF N
<1>5. Slice(m, p, n) = [i \in 1..n |-> m.bytes[p + i - 1]]
  <2> DEFINE L == m.len * WordSize
             end == IF p + n < L THEN p + n ELSE L
  <2>1. L \in Nat
    BY <1>1
  <2>2. Slice(m, p, n) = [i \in 1..(IF end > p THEN end - p ELSE 0) |-> m.bytes[p + i - 1]]
    BY DEF Slice
  <2>3. p + n <= L
    BY <1>4
  <2> HIDE DEF L
  <2>4. end = p + n
    BY <1>2, <2>1, <2>3
  <2> HIDE DEF end
  <2>5. (IF end > p THEN end - p ELSE 0) = n
    BY <1>2, <2>4
  <2> QED
    BY <2>2, <2>5
<1>6. ASSUME NEW i \in 1..n PROVE m.bytes[p + i - 1] = Contents(m)[p + i - 1]
  <2> DEFINE j == p + i - 1
  <2>1. j \in p..(p + n - 1)
    BY <1>2
  <2> HIDE DEF j
  <2>2. j \in MemPos /\ ~m.back[j \div WordSize]
    BY <1>3, <2>1
  <2>3. m.bytes[j] = Contents(m)[j]
    BY <2>2 DEF Contents
  <2> QED
    BY <2>3 DEF j
<1> QED
  BY <1>5, <1>6 DEF Part

(***************************************************************************)
(* Words                                                                   *)
(***************************************************************************)

\* The contents at a position, by word and offset.
LEMMA ContentsAt ==
  ASSUME NEW m, NEW w \in WordIx, NEW k \in 1..WordSize
  PROVE  /\ w * WordSize + k - 1 \in MemPos
         /\ Contents(m)[w * WordSize + k - 1] =
              IF m.back[w] THEN ToBytes(m.cache[w])[k] ELSE m.bytes[w * WordSize + k - 1]
<1> DEFINE i == w * WordSize + (k - 1)
<1>1. w \in Nat /\ k - 1 \in 0..(WordSize - 1) /\ WordSize \in Nat
  BY FastMemAssumption DEF WordIx
<1>2. i \in MemPos /\ i \div WordSize = w /\ i % WordSize = k - 1
  BY <1>1, Positions
<1>3. i = w * WordSize + k - 1 /\ (k - 1) + 1 = k
  BY <1>1
<1> HIDE DEF i
<1>4. Contents(m)[i] = IF m.back[w] THEN ToBytes(m.cache[w])[k] ELSE m.bytes[i]
  BY <1>2, <1>3 DEF Contents
<1> QED
  BY <1>2, <1>3, <1>4

\* The positions of words that fit into memory.
LEMMA Fits ==
  ASSUME NEW p \in 0..(MemSize - WordSize)
  PROVE  p \in MemPos /\ WordSize \in 1..(MemSize - p)
  BY Positions, FastMemAssumption DEF MemPos

\* An aligned read_word returns the word of the contents, and changes no byte.
LEMMA WordReading ==
  ASSUME NEW m, InStep(m), NEW p \in 0..(MemSize - WordSize), Aligned(p),
         Ceil(p + WordSize) <= m.words
  PROVE  /\ InStep(WordRead(m, p).mem) /\ Contents(WordRead(m, p).mem) = Contents(m)
         /\ WordRead(m, p).val = ToInt(Part(Contents(m), p, WordSize))
<1> USE FastMemAssumption
<1> DEFINE w == p \div WordSize
           f == Flushed(m, p, WordSize)
           val == ToInt(Slice(f, p, WordSize))
<1>1. p \in MemPos /\ WordSize \in 1..(MemSize - p)
  BY Fits
<1>2. /\ w \in WordIx /\ p = w * WordSize
      /\ Touched(p, WordSize) = {w} /\ Ceil(p + WordSize) = w + 1
  BY <1>1, Positions, OneWord
<1>3. /\ m.words \in 0..MaxWords /\ m.bytes \in [MemPos -> Byte]
      /\ m.cache \in [WordIx -> Word \union {DIRTY}] /\ m.back \in [WordIx -> BOOLEAN]
      /\ Steady(m)
  BY Fields
<1>4. CASE m.cache[w] # DIRTY
  <2>1. WordRead(m, p).mem = m /\ WordRead(m, p).val = m.cache[w]
    BY <1>4 DEF WordRead
  <2> HIDE DEF w
  <2>2. m.cache[w] \in Word
    BY <1>2, <1>3, <1>4
  <2>3. ToBytes(m.cache[w]) \in Bytes(WordSize) /\ ToInt(ToBytes(m.cache[w])) = m.cache[w]
    BY <2>2, Codec
  <2>4. ASSUME NEW k \in 1..WordSize
        PROVE  Contents(m)[p + k - 1] = ToBytes(m.cache[w])[k]
    <3>1. Contents(m)[w * WordSize + k - 1] =
            IF m.back[w] THEN ToBytes(m.cache[w])[k] ELSE m.bytes[w * WordSize + k - 1]
      BY <1>2, ContentsAt
    <3>2. ~m.back[w] => ToBytes(m.cache[w])[k] = m.bytes[w * WordSize + k - 1]
      BY <1>2, <1>3, <1>4 DEF Steady
    <3> QED
      BY <1>2, <3>1, <3>2
  <2>5. Part(Contents(m), p, WordSize) = ToBytes(m.cache[w])
    BY <2>3, <2>4 DEF Part, Bytes
  <2> QED
    BY <2>1, <2>3, <2>5
<1>5. CASE m.cache[w] = DIRTY
  <2>1. WordRead(m, p).mem = [f EXCEPT !.cache[w] = val] /\ WordRead(m, p).val = val
    BY <1>5 DEF WordRead
  <2>2. /\ InStep(f) /\ Contents(f) = Contents(m)
        /\ f.words = m.words /\ ~f.back[w]
    BY <1>1, <1>2, FlushedKeeps
  <2>3. Slice(f, p, WordSize) = Part(Contents(m), p, WordSize)
    <3>1. \A x \in Touched(p, WordSize) : ~f.back[x]
      BY <1>2, <2>2
    <3>2. Ceil(p + WordSize) <= f.words
      BY <2>2
    <3> HIDE DEF f
    <3>3. Slice(f, p, WordSize) = Part(Contents(f), p, WordSize)
      BY <1>1, <2>2, <3>1, <3>2, SliceIsRange
    <3> QED
      BY <2>2, <3>3
  <2> HIDE DEF f, w
  <2>4. /\ f = Lists(f.words, f.bytes, f.cache, f.back)
        /\ f.words \in 0..MaxWords /\ f.bytes \in [MemPos -> Byte]
        /\ f.cache \in [WordIx -> Word \union {DIRTY}] /\ f.back \in [WordIx -> BOOLEAN]
        /\ Steady(f)
    BY <2>2, Fields
  <2>5. ASSUME NEW k \in 1..WordSize
        PROVE  Contents(m)[p + k - 1] = f.bytes[w * WordSize + k - 1]
    <3>1. Contents(f)[w * WordSize + k - 1] =
            IF f.back[w] THEN ToBytes(f.cache[w])[k] ELSE f.bytes[w * WordSize + k - 1]
      BY <1>2, ContentsAt
    <3> QED
      BY <1>2, <2>2, <3>1
  <2>6. Part(Contents(m), p, WordSize) \in Bytes(WordSize)
    <3>1. ASSUME NEW k \in 1..WordSize PROVE f.bytes[w * WordSize + k - 1] \in Byte
      BY <1>2, <2>4, ContentsAt
    <3> QED
      BY <2>5, <3>1 DEF Part, Bytes
  <2>7. val \in Word /\ ToBytes(val) = Part(Contents(m), p, WordSize)
    BY <2>3, <2>6, Codec
  <2>8. ToBytes(val) = [k \in 1..WordSize |-> f.bytes[w * WordSize + k - 1]]
    BY <2>5, <2>7 DEF Part
  <2> DEFINE c == [f.cache EXCEPT ![w] = val]
  <2> HIDE DEF val
  <2>9. [f EXCEPT !.cache[w] = val] = Lists(f.words, f.bytes, c, f.back)
    <3> HIDE DEF c
    <3>1. [f EXCEPT !.cache = c] = Lists(f.words, f.bytes, c, f.back)
      BY <2>2 DEF Lists, InStep, MemType
    <3>2. [f EXCEPT !.cache[w] = val] = [f EXCEPT !.cache = c]
      BY DEF c
    <3> QED
      BY <3>1, <3>2
  <2>10. InStep(Lists(f.words, f.bytes, c, f.back))
    <3>1. c \in [WordIx -> Word \union {DIRTY}]
      BY <2>4, <2>7
    <3>2. ASSUME NEW v \in WordIx
          PROVE  /\ v >= f.words => c[v] = DIRTY
                 /\ f.back[v] => c[v] # DIRTY
                 /\ c[v] # DIRTY /\ ~f.back[v] =>
                      ToBytes(c[v]) = [k \in 1..WordSize |-> f.bytes[v * WordSize + k - 1]]
      <4>1. CASE v = w
        <5>1. c[v] = val
          BY <1>2, <2>4, <4>1
        <5>2. ~(w >= f.words)
          BY <1>2, <1>3, <2>2 DEF WordIx
        <5> HIDE DEF c
        <5> QED
          BY <2>2, <2>8, <4>1, <5>1, <5>2
      <4>2. CASE v # w
        <5>1. c[v] = f.cache[v]
          BY <2>4, <4>2
        <5> HIDE DEF c
        <5> QED
          BY <2>4, <5>1 DEF Steady
      <4> QED
        BY <4>1, <4>2
    <3> HIDE DEF c
    <3> QED
      BY <2>4, <3>1, <3>2, Assembled
  <2>11. Contents(Lists(f.words, f.bytes, c, f.back)) = Contents(f)
    <3>1. ASSUME NEW i \in MemPos
          PROVE  (IF f.back[i \div WordSize] THEN ToBytes(c[i \div WordSize])[(i % WordSize) + 1] ELSE f.bytes[i])
                 = (IF f.back[i \div WordSize] THEN ToBytes(f.cache[i \div WordSize])[(i % WordSize) + 1] ELSE f.bytes[i])
      <4>1. i \div WordSize \in WordIx
        BY Positions
      <4>2. f.back[i \div WordSize] => c[i \div WordSize] = f.cache[i \div WordSize]
        BY <2>2, <2>4, <4>1
      <4> QED
        BY <4>2
    <3> HIDE DEF c
    <3> QED
      BY <3>1, ContentsOf DEF Contents
  <2> QED
    BY <2>1, <2>2, <2>3, <2>9, <2>10, <2>11 DEF val
<1> QED
  BY <1>4, <1>5

(***************************************************************************)
(* Writing                                                                 *)
(***************************************************************************)

\* The contents b with s written over [p, p + n).
Laid(b, p, s, n) == [i \in MemPos |-> IF i \in p..(p + n - 1) THEN s[i - p + 1] ELSE b[i]]

\* What write assigns: two of the lists.
LEMMA Overwritten ==
  ASSUME NEW m \in MemType, NEW c, NEW bs, m.len = m.words
  PROVE  [m EXCEPT !.cache = c, !.bytes = bs] = Lists(m.words, bs, c, m.back)
<1> DEFINE l == [m EXCEPT !.cache = c]
<1>1. l = Lists(m.words, m.bytes, c, m.back)
  BY DEF MemType, Lists
<1>2. [m EXCEPT !.cache = c, !.bytes = bs] = [l EXCEPT !.bytes = bs]
  OBVIOUS
<1> HIDE DEF l
<1>3. [l EXCEPT !.bytes = bs] = Lists(m.words, bs, c, m.back)
  BY <1>1 DEF Lists
<1> QED
  BY <1>2, <1>3

\* write changes the bytes of its range, whatever was pending there.
LEMMA RangeWriting ==
  ASSUME NEW m, InStep(m), NEW p \in MemPos, NEW n \in 1..(MemSize - p),
         NEW s \in Bytes(n), Ceil(p + n) <= m.words
  PROVE  /\ InStep(RangeWritten(m, p, s, n))
         /\ Contents(RangeWritten(m, p, s, n)) = Laid(Contents(m), p, s, n)
<1> USE FastMemAssumption
<1> DEFINE f == Flushed(m, p, n)
           T == Touched(p, n)
           c == [w \in WordIx |-> IF w \in T THEN DIRTY ELSE f.cache[w]]
           bs == [i \in MemPos |-> IF i \in p..(p + n - 1) THEN s[i - p + 1] ELSE f.bytes[i]]
<1>1. InStep(f) /\ Contents(f) = Contents(m) /\ \A w \in T : ~f.back[w]
  BY FlushedKeeps
<1>2. RangeWritten(m, p, s, n) = [f EXCEPT !.cache = c, !.bytes = bs]
  BY DEF RangeWritten
<1> HIDE DEF f
<1>3. /\ f = Lists(f.words, f.bytes, f.cache, f.back)
      /\ f.words \in 0..MaxWords /\ f.bytes \in [MemPos -> Byte]
      /\ f.cache \in [WordIx -> Word \union {DIRTY}] /\ f.back \in [WordIx -> BOOLEAN]
      /\ Steady(f)
  BY <1>1, Fields
<1>4. /\ T \subseteq WordIx
      /\ \A i \in p..(p + n - 1) : i \in MemPos /\ i \div WordSize \in T
  BY Touching
<1>5. p \in Nat /\ n \in Nat
  BY Positions DEF MemPos
<1> HIDE DEF T
<1>6. bs \in [MemPos -> Byte]
  <2>1. ASSUME NEW i \in p..(p + n - 1) PROVE s[i - p + 1] \in Byte
    <3>1. i - p + 1 \in 1..n
      BY <1>5
    <3> QED
      BY <3>1 DEF Bytes
  <2> QED
    BY <1>3, <2>1
<1>7. c \in [WordIx -> Word \union {DIRTY}]
  BY <1>3
<1>8. [f EXCEPT !.cache = c, !.bytes = bs] = Lists(f.words, bs, c, f.back)
  <2> HIDE DEF c, bs
  <2>1. f \in MemType /\ f.len = f.words
    BY <1>1 DEF InStep
  <2> QED
    BY <2>1, Overwritten
<1>9. InStep(Lists(f.words, bs, c, f.back))
  <2>1. ASSUME NEW w \in WordIx
        PROVE  /\ w >= f.words => c[w] = DIRTY
               /\ f.back[w] => c[w] # DIRTY
               /\ c[w] # DIRTY /\ ~f.back[w] =>
                    ToBytes(c[w]) = [k \in 1..WordSize |-> bs[w * WordSize + k - 1]]
    <3>1. w >= f.words => c[w] = DIRTY
      BY <1>3 DEF Steady
    <3>2. f.back[w] => c[w] # DIRTY
      BY <1>1, <1>3 DEF Steady
    <3>3. ASSUME c[w] # DIRTY, ~f.back[w]
          PROVE  ToBytes(c[w]) = [k \in 1..WordSize |-> bs[w * WordSize + k - 1]]
      <4>1. w \notin T /\ c[w] = f.cache[w]
        BY <3>3
      <4>2. ASSUME NEW k \in 1..WordSize
            PROVE  bs[w * WordSize + k - 1] = f.bytes[w * WordSize + k - 1]
        <5> DEFINE i == w * WordSize + (k - 1)
        <5>1. w \in Nat /\ k - 1 \in 0..(WordSize - 1)
          BY DEF WordIx
        <5>2. i \in MemPos /\ i \div WordSize = w
          BY <5>1, Positions
        <5>3. i = w * WordSize + k - 1
          BY <5>1
        <5> HIDE DEF i
        <5>4. i \notin p..(p + n - 1)
          BY <1>4, <4>1, <5>2
        <5> QED
          BY <5>2, <5>3, <5>4
      <4>3. ToBytes(f.cache[w]) = [k \in 1..WordSize |-> f.bytes[w * WordSize + k - 1]]
        BY <1>3, <3>3, <4>1 DEF Steady
      <4> HIDE DEF bs, c
      <4> QED
        BY <4>1, <4>2, <4>3
    <3> QED
      BY <3>1, <3>2, <3>3
  <2> HIDE DEF bs, c
  <2> QED
    BY <1>3, <1>6, <1>7, <2>1, Assembled
<1>10. Contents(Lists(f.words, bs, c, f.back)) = Laid(Contents(f), p, s, n)
  <2>1. ASSUME NEW i \in MemPos
        PROVE  (IF f.back[i \div WordSize] THEN ToBytes(c[i \div WordSize])[(i % WordSize) + 1] ELSE bs[i])
               = IF i \in p..(p + n - 1) THEN s[i - p + 1] ELSE Contents(f)[i]
    <3> DEFINE v == i \div WordSize
    <3>1. v \in WordIx
      BY Positions
    <3>2. Contents(f)[i] = IF f.back[v] THEN ToBytes(f.cache[v])[(i % WordSize) + 1] ELSE f.bytes[i]
      BY DEF Contents
    <3>3. i \in p..(p + n - 1) => v \in T
      BY <1>4
    <3> HIDE DEF v
    <3>4. f.back[v] => c[v] = f.cache[v] /\ i \notin p..(p + n - 1)
      BY <1>1, <3>1, <3>3
    <3>5. bs[i] = IF i \in p..(p + n - 1) THEN s[i - p + 1] ELSE f.bytes[i]
      OBVIOUS
    <3> HIDE DEF c, bs
    <3>6. (IF f.back[v] THEN ToBytes(c[v])[(i % WordSize) + 1] ELSE bs[i])
          = IF i \in p..(p + n - 1) THEN s[i - p + 1] ELSE Contents(f)[i]
      <4>1. CASE f.back[v]
        BY <3>2, <3>4, <4>1
      <4>2. CASE ~f.back[v]
        BY <3>2, <3>5, <4>2
      <4> QED
        BY <4>1, <4>2
    <3> QED
      BY <3>6 DEF v
  <2> HIDE DEF bs, c
  <2> QED
    BY <2>1, ContentsOf DEF Laid
<1> HIDE DEF bs, c
<1> QED
  BY <1>1, <1>2, <1>8, <1>9, <1>10

\* write_word changes the bytes of its word, aligned or not.
LEMMA WordWriting ==
  ASSUME NEW m, InStep(m), NEW p \in 0..(MemSize - WordSize), NEW val \in Word,
         Ceil(p + WordSize) <= m.words
  PROVE  /\ InStep(WordWritten(m, p, val))
         /\ Contents(WordWritten(m, p, val)) = Laid(Contents(m), p, ToBytes(val), WordSize)
<1> USE FastMemAssumption
<1>1. p \in MemPos /\ WordSize \in 1..(MemSize - p)
  BY Fits
<1>2. val # DIRTY /\ ToBytes(val) \in Bytes(WordSize)
  BY Codec
<1>3. CASE ~Aligned(p)
  <2>1. WordWritten(m, p, val) = RangeWritten(m, p, ToBytes(val), WordSize)
    BY <1>3 DEF WordWritten
  <2> QED
    BY <1>1, <1>2, <2>1, RangeWriting
<1>4. CASE Aligned(p)
  <2> DEFINE w == p \div WordSize
             c == [m.cache EXCEPT ![w] = val]
             b == [m.back EXCEPT ![w] = TRUE]
  <2>1. /\ w \in WordIx /\ p = w * WordSize /\ Ceil(p + WordSize) = w + 1
        /\ \A i \in MemPos : i \div WordSize = w <=> i \in p..(p + WordSize - 1)
    BY <1>1, <1>4, Positions, OneWord
  <2>2. WordWritten(m, p, val) = [m EXCEPT !.cache[w] = val, !.back[w] = TRUE]
    BY <1>4 DEF WordWritten
  <2> HIDE DEF w
  <2>3. /\ m.words \in 0..MaxWords /\ m.bytes \in [MemPos -> Byte]
        /\ m.cache \in [WordIx -> Word \union {DIRTY}] /\ m.back \in [WordIx -> BOOLEAN]
        /\ Steady(m)
    BY Fields
  <2>4. WordWritten(m, p, val) = Lists(m.words, m.bytes, c, b)
    <3>1. WordWritten(m, p, val) = [m EXCEPT !.cache = c, !.back = b]
      BY <2>2
    <3> HIDE DEF c, b
    <3> QED
      BY <3>1 DEF Lists, InStep, MemType
  <2>5. c \in [WordIx -> Word \union {DIRTY}] /\ b \in [WordIx -> BOOLEAN]
    BY <2>3
  <2>6. ASSUME NEW v \in WordIx
        PROVE  /\ v >= m.words => c[v] = DIRTY
               /\ b[v] => c[v] # DIRTY
               /\ c[v] # DIRTY /\ ~b[v] =>
                    ToBytes(c[v]) = [k \in 1..WordSize |-> m.bytes[v * WordSize + k - 1]]
    <3>1. CASE v = w
      <4>1. c[v] = val /\ b[v] = TRUE
        BY <2>1, <2>3, <3>1
      <4>2. ~(w >= m.words)
        BY <2>1, <2>3 DEF WordIx
      <4> HIDE DEF c, b
      <4> QED
        BY <1>2, <3>1, <4>1, <4>2
    <3>2. CASE v # w
      <4>1. c[v] = m.cache[v] /\ b[v] = m.back[v]
        BY <2>3, <3>2
      <4> HIDE DEF c, b
      <4> QED
        BY <2>3, <4>1 DEF Steady
    <3> QED
      BY <3>1, <3>2
  <2>7. ASSUME NEW i \in MemPos
        PROVE  (IF b[i \div WordSize] THEN ToBytes(c[i \div WordSize])[(i % WordSize) + 1] ELSE m.bytes[i])
               = IF i \in p..(p + WordSize - 1) THEN ToBytes(val)[i - p + 1] ELSE Contents(m)[i]
    <3> DEFINE v == i \div WordSize
    <3>1. v \in WordIx /\ i % WordSize \in 0..(WordSize - 1) /\ i = v * WordSize + (i % WordSize)
      BY Positions
    <3>2. Contents(m)[i] = IF m.back[v] THEN ToBytes(m.cache[v])[(i % WordSize) + 1] ELSE m.bytes[i]
      BY DEF Contents
    <3>3. v = w <=> i \in p..(p + WordSize - 1)
      BY <2>1
    <3> HIDE DEF v
    <3>4. (IF b[v] THEN ToBytes(c[v])[(i % WordSize) + 1] ELSE m.bytes[i])
          = IF i \in p..(p + WordSize - 1) THEN ToBytes(val)[i - p + 1] ELSE Contents(m)[i]
      <4>1. CASE v = w
        <5>1. c[v] = val /\ b[v] = TRUE
          BY <2>1, <2>3, <4>1
        <5>2. (i % WordSize) + 1 = i - p + 1
          <6> DEFINE r == i % WordSize
          <6>1. r \in Nat /\ i = v * WordSize + r /\ p = v * WordSize /\ v * WordSize \in Nat
            BY <2>1, <3>1, <4>1 DEF WordIx
          <6> HIDE DEF r
          <6>2. r + 1 = i - p + 1
            BY <6>1
          <6> QED
            BY <6>2 DEF r
        <5> HIDE DEF c, b
        <5> QED
          BY <3>3, <4>1, <5>1, <5>2
      <4>2. CASE v # w
        <5>1. c[v] = m.cache[v] /\ b[v] = m.back[v]
          BY <2>3, <4>2
        <5> HIDE DEF c, b
        <5> QED
          BY <3>2, <3>3, <4>2, <5>1
      <4> QED
        BY <4>1, <4>2
    <3> QED
      BY <3>4 DEF v
  <2> HIDE DEF c, b
  <2>8. InStep(Lists(m.words, m.bytes, c, b))
    BY <2>3, <2>5, <2>6, Assembled
  <2>9. Contents(Lists(m.words, m.bytes, c, b)) = Laid(Contents(m), p, ToBytes(val), WordSize)
    BY <2>7, ContentsOf DEF Laid
  <2> QED
    BY <2>4, <2>8, <2>9
<1> QED
  BY <1>3, <1>4

(***************************************************************************)
(* Theorems                                                                *)
(***************************************************************************)

\* The memory on its own, without the programs that use it.
MemSpec == MemInit /\ [][MemNext]_<<mem, out>>

\* CacheInStep says that the memory is in step.
LEMMA InvariantOf ==
  CacheInStep <=> InStep(mem)
  BY DEF CacheInStep, InStep, Steady

\* A new memory is in step, and all zero.
LEMMA NewMemory ==
  InStep(NewMem) /\ Contents(NewMem) = [i \in MemPos |-> 0]
<1> USE FastMemAssumption
<1>1. InStep(NewMem)
  BY DEF NewMem, InStep, Steady, MemType
<1>2. ASSUME NEW i \in MemPos PROVE Contents(NewMem)[i] = 0
  <2>1. i \div WordSize \in WordIx
    BY Positions
  <2> QED
    BY <2>1 DEF Contents, NewMem
<1>3. Contents(NewMem) = [i \in MemPos |-> Contents(NewMem)[i]]
  BY DEF Contents
<1> QED
  BY <1>1, <1>2, <1>3

\* Each use of the memory keeps it in step and does what it would do to an array
\* of bytes, which is a step of Memory.
LEMMA Uses ==
  ASSUME UnalignedReads = FALSE, EmptyExtends = FALSE, InStep(mem), MemNext
  PROVE  InStep(mem') /\ EVMMemory!Next
<1> USE FastMemAssumption
<1>1. ASSUME NEW p \in 0..(MemSize - WordSize), MLoad(p)
      PROVE  InStep(mem') /\ EVMMemory!Next
  <2> DEFINE m == Extended(mem, p, WordSize)
  <2>1. p \in MemPos /\ WordSize \in 1..(MemSize - p) /\ Aligned(p)
    BY <1>1, Fits DEF MLoad
  <2>2. InStep(m) /\ Contents(m) = Contents(mem) /\ Ceil(p + WordSize) <= m.words
    BY <2>1, Extending
  <2>3. mem' = WordRead(m, p).mem /\ out' = <<"load", p, WordRead(m, p).val>>
    BY <1>1 DEF MLoad
  <2> HIDE DEF m
  <2>4. /\ InStep(mem') /\ Contents(mem') = Contents(mem)
        /\ out' = <<"load", p, ToInt(Part(Contents(mem), p, WordSize))>>
    BY <2>1, <2>2, <2>3, WordReading
  <2>5. EVMMemory!LoadWord(p)
    BY <2>4 DEF EVMMemory!LoadWord, EVMMemory!Range0, Part
  <2> QED
    BY <2>4, <2>5 DEF EVMMemory!Next, EVMMemory!MemSize, MemSize
<1>2. ASSUME NEW p \in 0..(MemSize - WordSize), NEW val \in Word, MStore(p, val)
      PROVE  InStep(mem') /\ EVMMemory!Next
  <2> DEFINE m == Extended(mem, p, WordSize)
  <2>1. p \in MemPos /\ WordSize \in 1..(MemSize - p) /\ ToBytes(val) \in Bytes(WordSize)
    BY Fits, Codec
  <2>2. InStep(m) /\ Contents(m) = Contents(mem) /\ Ceil(p + WordSize) <= m.words
    BY <2>1, Extending
  <2>3. mem' = WordWritten(m, p, val) /\ out' = <<"write", p, ToBytes(val)>>
    BY <1>2 DEF MStore
  <2> HIDE DEF m
  <2>4. InStep(mem') /\ Contents(mem') = Laid(Contents(mem), p, ToBytes(val), WordSize)
    BY <2>2, <2>3, WordWriting
  <2>5. EVMMemory!StoreRange(p, ToBytes(val), WordSize)
    BY <2>3, <2>4 DEF EVMMemory!StoreRange, EVMMemory!Written, EVMMemory!MemPos, EVMMemory!MemSize,
      Laid, MemPos, MemSize
  <2>6. WordSize \in 0..(MemSize - p)
    BY <2>1, Positions DEF MemPos
  <2> QED
    BY <2>1, <2>4, <2>5, <2>6 DEF EVMMemory!Next, EVMMemory!MemPos, EVMMemory!MemSize, EVMMemory!Bytes,
      MemPos, MemSize, Bytes
<1>3. ASSUME NEW p \in MemPos, NEW n \in 0..(MemSize - p), ReadRange(p, n)
      PROVE  InStep(mem') /\ EVMMemory!Next
  <2> DEFINE m == Extended(mem, p, n)
             f == Flushed(m, p, n)
  <2>1. n \in 1..(MemSize - p)
    BY <1>3, Positions DEF ReadRange, MemPos
  <2>2. InStep(m) /\ Contents(m) = Contents(mem) /\ Ceil(p + n) <= m.words
    BY <2>1, Extending
  <2>3. mem' = f /\ out' = <<"read", p, Slice(f, p, n)>>
    BY <1>3 DEF ReadRange
  <2> HIDE DEF m
  <2>4. /\ InStep(f) /\ Contents(f) = Contents(mem) /\ Ceil(p + n) <= f.words
        /\ \A w \in Touched(p, n) : ~f.back[w]
    BY <2>1, <2>2, FlushedKeeps
  <2> HIDE DEF f
  <2>5. out' = <<"read", p, Part(Contents(mem), p, n)>>
    BY <2>1, <2>3, <2>4, SliceIsRange
  <2>6. EVMMemory!LoadRange(p, n)
    BY <2>3, <2>4, <2>5 DEF EVMMemory!LoadRange, EVMMemory!Range0, Part
  <2> QED
    BY <2>3, <2>4, <2>6 DEF EVMMemory!Next, EVMMemory!MemPos, EVMMemory!MemSize, MemPos, MemSize
<1>4. ASSUME NEW p \in MemPos, NEW n \in 0..(MemSize - p), NEW s \in Bytes(n), Copy(p, s, n)
      PROVE  InStep(mem') /\ EVMMemory!Next
  <2> DEFINE m == Extended(mem, p, n)
  <2>1. n \in 1..(MemSize - p)
    BY <1>4, Positions DEF Copy, MemPos
  <2>2. InStep(m) /\ Contents(m) = Contents(mem) /\ Ceil(p + n) <= m.words
    BY <2>1, Extending
  <2>3. mem' = RangeWritten(m, p, s, n) /\ out' = <<"write", p, s>>
    BY <1>4 DEF Copy
  <2> HIDE DEF m
  <2>4. InStep(mem') /\ Contents(mem') = Laid(Contents(mem), p, s, n)
    BY <2>1, <2>2, <2>3, RangeWriting
  <2>5. EVMMemory!StoreRange(p, s, n)
    BY <2>3, <2>4 DEF EVMMemory!StoreRange, EVMMemory!Written, EVMMemory!MemPos, EVMMemory!MemSize,
      Laid, MemPos, MemSize
  <2> QED
    BY <2>4, <2>5 DEF EVMMemory!Next, EVMMemory!MemPos, EVMMemory!MemSize, EVMMemory!Bytes,
      MemPos, MemSize, Bytes
<1> QED
  BY <1>1, <1>2, <1>3, <1>4 DEF MemNext

\* A step that leaves the memory alone keeps it in step and is a stutter of Memory.
LEMMA Stutters ==
  ASSUME InStep(mem), UNCHANGED <<mem, out>>
  PROVE  InStep(mem') /\ UNCHANGED <<Contents(mem), out>>
  BY DEF InStep, Steady, Contents

\* FastMem: for words and memories of any size, the cache of words, the marks of
\* pending words and the backing bytes stay in step (FastMem.extend, _writeback,
\* read_word, write_word, read_bytes, write), if no word is read at an unaligned
\* position and nothing is extended by nothing.
THEOREM CacheStaysInStep ==
  ASSUME UnalignedReads = FALSE, EmptyExtends = FALSE
  PROVE  MemSpec => []CacheInStep
<1>1. MemInit => InStep(mem)
  BY NewMemory DEF MemInit
<1>2. InStep(mem) /\ [MemNext]_<<mem, out>> => InStep(mem')
  BY Uses, Stutters
<1>3. MemInit => CacheInStep
  BY <1>1, InvariantOf
<1>4. CacheInStep /\ [MemNext]_<<mem, out>> => CacheInStep'
  <2> SUFFICES ASSUME CacheInStep, [MemNext]_<<mem, out>> PROVE CacheInStep'
    OBVIOUS
  <2>1. InStep(mem')
    BY <1>2, InvariantOf
  <2> QED
    BY <2>1 DEF CacheInStep, InStep, Steady
<1> QED
  BY <1>3, <1>4, PTL DEF MemSpec

\* FastMem is, for words and memories of any size, the memory of the EVM: under
\* the same two conditions, each of its operations does to the bytes it stands for
\* what the operation of eth.vm.Memory does.
THEOREM FastMemIsMemory ==
  ASSUME UnalignedReads = FALSE, EmptyExtends = FALSE
  PROVE  MemSpec => ImplementsMemory
<1>1. MemInit => EVMMemory!Init
  BY NewMemory DEF MemInit, EVMMemory!Init, EVMMemory!MemPos, EVMMemory!MemSize, MemPos, MemSize
<1>2. CacheInStep /\ [MemNext]_<<mem, out>> => [EVMMemory!Next]_<<Contents(mem), out>>
  BY Uses, Stutters, InvariantOf
<1>3. MemSpec => []CacheInStep
  BY CacheStaysInStep
<1> QED
  BY <1>1, <1>2, <1>3, PTL DEF MemSpec, ImplementsMemory, EVMMemory!Spec

(***************************************************************************)
(* Calls inside calls                                                      *)
(***************************************************************************)

CallsSpec == CallsInit /\ [][CallsNext]_callVars

(***************************************************************************)
(* The inductive invariant                                                 *)
(***************************************************************************)

CompFields == {"who", "parent", "gas", "left", "pc", "trace", "used", "refunded",
               "children", "childPcs", "end", "cause", "dev"}
IsComp(c) == DOMAIN c = CompFields

\* The computations are records, and each starts after the one that called it.
CompTyped(i) ==
  /\ IsComp(comps[i])
  /\ comps[i].who \in Kinds
  /\ comps[i].end \in {"open", "ok", "revert", "burn"}
  /\ comps[i].parent \in 0..(i - 1)
  /\ comps[i].children \in Seq((i + 1)..Len(comps))
  /\ comps[i].dev \in {0, i}

CompTypes ==
  /\ comps = [i \in 1..Len(comps) |-> comps[i]] /\ Len(comps) \in Nat \ {0}
  /\ open \in 0..Len(comps)
  /\ \A i \in 1..Len(comps) : CompTyped(i)

\* Those that are not over wait for each other in a line, after a CALL, and the
\* last of them executes: at the test of a CALL only when the CALL is over.
WaitsInLine(i) ==
  comps[i].end = "open" =>
    /\ comps[i].parent # 0 => comps[comps[i].parent].end = "open" /\ comps[comps[i].parent].pc = 2
    /\ open # 0 => comps[i].parent # open
    /\ \A j \in 1..Len(comps) :
         comps[j].end = "open" /\ comps[j].parent = comps[i].parent => i = j

OpenInLine ==
  /\ open # 0 => comps[open].end = "open" /\ (comps[open].pc = 2 => comps[open].children # <<>>)
  /\ \A i \in 1..Len(comps) : WaitsInLine(i)

\* A child is over, and what made a computation fail is an error of its own or the
\* failure of its last child.
CauseRight(i) ==
  LET c == comps[i]
  IN /\ \A k \in 1..Len(c.children) : comps[c.children[k]].end # "open"
     /\ c.end = "open" /\ c.pc # 4 => c.cause = 0
     /\ c.end = "ok" => c.cause = 0
     /\ c.end = "burn" => c.cause = i
     /\ c.end = "revert" => c.cause # 0
     /\ c.cause \notin {0, i} =>
          c.children # <<>> /\ c.cause = c.children[Len(c.children)] /\ Failed(c.cause)

CausesRight == \A i \in 1..Len(comps) : CauseRight(i)

CallsInv == CompTypes /\ OpenInLine /\ CausesRight

(***************************************************************************)
(* What the steps of the EVM leave alone                                   *)
(***************************************************************************)

\* c and d differ at most in what was executed.
SameNode(c, d) ==
  /\ d.who = c.who /\ d.parent = c.parent /\ d.children = c.children
  /\ d.end = c.end /\ d.dev = c.dev

\* A step that books gas or notes an opcode keeps everything else, and moves on only
\* in Fetch.
LEMMA FetchKeeps ==
  ASSUME NEW c, IsComp(c)
  PROVE  /\ IsComp(Fetch(c)) /\ SameNode(c, Fetch(c))
         /\ Fetch(c).cause = c.cause /\ Fetch(c).pc = c.pc + 1
BY DEF IsComp, SameNode, CompFields, Fetch

\* Booking gas.
LEMMA ConsumeGasKeeps ==
  ASSUME NEW c, NEW n, IsComp(c)
  PROVE  /\ IsComp(ConsumeGas(c, n)) /\ SameNode(c, ConsumeGas(c, n))
         /\ ConsumeGas(c, n).cause = c.cause /\ ConsumeGas(c, n).pc = c.pc
BY DEF IsComp, SameNode, CompFields, ConsumeGas

\* A refund.
LEMMA RefundGasKeeps ==
  ASSUME NEW c, NEW n, IsComp(c)
  PROVE  /\ IsComp(RefundGas(c, n)) /\ SameNode(c, RefundGas(c, n))
         /\ RefundGas(c, n).cause = c.cause /\ RefundGas(c, n).pc = c.pc
BY DEF IsComp, SameNode, CompFields, RefundGas

\* Gas that comes back from a child.
LEMMA ReturnGasKeeps ==
  ASSUME NEW c, NEW n, IsComp(c)
  PROVE  /\ IsComp(ReturnGas(c, n)) /\ SameNode(c, ReturnGas(c, n))
         /\ ReturnGas(c, n).cause = c.cause /\ ReturnGas(c, n).pc = c.pc
BY DEF IsComp, SameNode, CompFields, ReturnGas

\* A computation that starts.
LEMMA NewCompFields ==
  ASSUME NEW who, NEW parent, NEW gas
  PROVE  LET c == NewComp(who, parent, gas)
         IN /\ IsComp(c) /\ c.who = who /\ c.parent = parent /\ c.pc = 0
            /\ c.children = <<>> /\ c.end = "open" /\ c.cause = 0 /\ c.dev = 0
BY DEF IsComp, CompFields, NewComp

\* The user's call alone.
LEMMA CallsInitInv == CallsInit => CallsInv
<1> SUFFICES ASSUME CallsInit PROVE CallsInv
  OBVIOUS
<1>1. PICK who \in Kinds \ {"unknown"} : comps = <<NewComp(who, 0, StartGas)>>
  BY DEF CallsInit
<1> DEFINE c == NewComp(who, 0, StartGas)
<1>2. /\ IsComp(c) /\ c.who = who /\ c.parent = 0 /\ c.pc = 0
      /\ c.children = <<>> /\ c.end = "open" /\ c.cause = 0 /\ c.dev = 0
  BY NewCompFields
<1> HIDE DEF c
<1>3. Len(comps) = 1 /\ comps[1] = c /\ comps = [i \in 1..Len(comps) |-> comps[i]]
  BY <1>1 DEF c
<1>4. open = 1
  BY DEF CallsInit
<1>5. CompTypes
  <2>1. c.children \in Seq((1 + 1)..1) /\ who \in Kinds
    BY <1>2
  <2>a. <<>> \in Seq((1 + 1)..Len(comps))
    BY EmptySeq
  <2>b. comps[1].children = <<>> /\ comps[1].parent = 0
    BY <1>2, <1>3
  <2>2. comps[1].children \in Seq((1 + 1)..Len(comps)) /\ comps[1].parent \in 0..(1 - 1)
    BY <2>a, <2>b
  <2>3. CompTyped(1)
    BY <1>2, <1>3, <2>1, <2>2 DEF CompTyped
  <2> QED
    BY <1>3, <1>4, <2>3 DEF CompTypes
<1>6. OpenInLine
  BY <1>2, <1>3, <1>4 DEF OpenInLine, WaitsInLine
<1>7. CausesRight
  BY <1>2, <1>3, <1>4 DEF CausesRight, CauseRight
<1> QED
  BY <1>5, <1>6, <1>7 DEF CallsInv

\* Sequences that are functions.
LEMMA FunctionsAreSeqs ==
  ASSUME NEW S, NEW n \in Nat, NEW f \in [1..n -> S]
  PROVE  f \in Seq(S) /\ Len(f) = n
<1>1. f \in Seq(S)
  BY SeqDef
<1> QED
  BY <1>1, LenProperties

\* Children are computations that started later.
LEMMA ChildrenInRange ==
  ASSUME CompTypes
  PROVE  \A i \in 1..Len(comps) :
           /\ Len(comps[i].children) \in Nat
           /\ \A k \in 1..Len(comps[i].children) : comps[i].children[k] \in (i + 1)..Len(comps)
           /\ comps[i].children # <<>> =>
                comps[i].children[Len(comps[i].children)] \in (i + 1)..Len(comps)
<1> SUFFICES ASSUME NEW i \in 1..Len(comps)
             PROVE  /\ Len(comps[i].children) \in Nat
                    /\ \A k \in 1..Len(comps[i].children) : comps[i].children[k] \in (i + 1)..Len(comps)
                    /\ comps[i].children # <<>> =>
                         comps[i].children[Len(comps[i].children)] \in (i + 1)..Len(comps)
  OBVIOUS
<1>1. comps[i].children \in Seq((i + 1)..Len(comps))
  BY DEF CompTypes, CompTyped
<1> QED
  BY <1>1

\* The computations after one of them was changed.
LEMMA LocalShape ==
  ASSUME CompTypes, open # 0, NEW c, comps' = [comps EXCEPT ![open] = c]
  PROVE  /\ Len(comps') = Len(comps) /\ comps' = [i \in 1..Len(comps) |-> comps'[i]]
         /\ \A i \in 1..Len(comps) : comps'[i] = IF i = open THEN c ELSE comps[i]
<1> DEFINE N == Len(comps)
<1>1. open \in 1..N /\ N \in Nat /\ DOMAIN comps = 1..N
  BY DEF CompTypes
<1>2. /\ Len(comps') = N /\ comps' = [i \in 1..N |-> comps'[i]]
      /\ \A i \in 1..N : comps'[i] = IF i = open THEN c ELSE comps[i]
  <2> DEFINE S == {comps[i] : i \in 1..N} \union {c}
  <2>1. comps' = [i \in 1..N |-> IF i = open THEN c ELSE comps[i]]
    BY <1>1
  <2>2. comps' \in [1..N -> S]
    BY <2>1
  <2> HIDE DEF S
  <2>3. Len(comps') = N
    BY <1>1, <2>2, FunctionsAreSeqs
  <2> QED
    BY <2>1, <2>3
<1> QED
  BY <1>2

\* The executing computation does something on its own.
LEMMA LocalStep ==
  ASSUME CallsInv, open # 0, NEW c, IsComp(c), SameNode(comps[open], c),
         c.pc # 2, c.pc # 4 => c.cause = 0,
         c.cause \notin {0, open} =>
           /\ c.children # <<>> /\ c.cause = c.children[Len(c.children)]
           /\ Failed(c.cause),
         comps' = [comps EXCEPT ![open] = c], open' = open
  PROVE  CallsInv'
<1> DEFINE N == Len(comps)
<1>1. open \in 1..N /\ N \in Nat /\ DOMAIN comps = 1..N
  BY DEF CallsInv, CompTypes
<1>2. /\ Len(comps') = N /\ comps' = [i \in 1..N |-> comps'[i]]
      /\ \A i \in 1..N : comps'[i] = IF i = open THEN c ELSE comps[i]
  BY LocalShape DEF CallsInv
<1>3. \A i \in 1..N :
        /\ SameNode(comps[i], comps'[i]) /\ IsComp(comps'[i])
        /\ i # open => comps'[i] = comps[i]
  BY <1>1, <1>2 DEF CallsInv, CompTypes, CompTyped, SameNode
<1>4. CompTypes'
  <2>1. \A i \in 1..N : CompTyped(i)'
    BY <1>2, <1>3 DEF CallsInv, CompTypes, CompTyped, SameNode
  <2> QED
    BY <1>1, <1>2, <2>1 DEF CompTypes
<1>5. OpenInLine'
  <2>1. \A i \in 1..N : comps'[i].end = comps[i].end /\ comps'[i].parent = comps[i].parent
    BY <1>3 DEF SameNode
  <2>2. open' # 0 => comps'[open'].end = "open" /\ comps'[open'].pc # 2
    BY <1>1, <1>2, <2>1 DEF CallsInv, OpenInLine
  <2>3. ASSUME NEW i \in 1..N PROVE WaitsInLine(i)'
    <3>1. WaitsInLine(i)
      BY DEF CallsInv, OpenInLine
    <3>2. comps[i].parent # 0 => comps[i].parent \in 1..N
      BY DEF CallsInv, CompTypes, CompTyped
    <3> QED
      BY <1>1, <1>2, <1>3, <2>1, <3>1, <3>2 DEF WaitsInLine
  <2> QED
    BY <1>2, <2>2, <2>3 DEF OpenInLine
<1>6. CausesRight'
  <2>1. \A i \in 1..N : \A k \in 1..Len(comps[i].children) : comps[i].children[k] \in 1..N
    BY <1>1, ChildrenInRange DEF CallsInv
  <2>2. \A i \in 1..N : Failed(i) => Failed(i)'
    BY <1>3 DEF Failed, SameNode
  <2>3. ASSUME NEW i \in 1..N PROVE CauseRight(i)'
    <3>1. CauseRight(i)
      BY DEF CallsInv, CausesRight
    <3>2. \A k \in 1..Len(comps'[i].children) : comps'[comps'[i].children[k]].end # "open"
      BY <1>3, <2>1, <3>1 DEF CauseRight, SameNode
    <3>4. comps[i].children # <<>> => comps[i].children[Len(comps[i].children)] \in 1..N
      BY DEF CallsInv, CompTypes, CompTyped
    <3>5. CASE i = open
      <4>1. comps[i].end = "open" /\ comps'[i] = c /\ c.end = "open" /\ c.children = comps[i].children
        BY <1>1, <1>2, <3>5 DEF CallsInv, OpenInLine, SameNode
      <4>2. c.cause \notin {0, i} => Failed(c.cause)'
        BY <2>2, <3>4, <3>5, <4>1
      <4> QED
        BY <3>2, <3>5, <4>1, <4>2 DEF CauseRight
    <3>6. CASE i # open
      <4>1. comps'[i] = comps[i]
        BY <1>3, <3>6
      <4>2. comps[i].cause \notin {0, i} => Failed(comps[i].cause)'
        BY <2>2, <3>1, <3>4, <4>1 DEF CauseRight
      <4> QED
        BY <3>1, <3>2, <4>1, <4>2 DEF CauseRight
    <3> QED
      BY <3>5, <3>6
  <2> QED
    BY <1>2, <2>3 DEF CausesRight
<1> QED
  BY <1>4, <1>5, <1>6 DEF CallsInv

\* The computations after one of them was changed, and one more started.
LEMMA CallShape ==
  ASSUME CompTypes, open # 0, NEW c, NEW d, comps' = Append([comps EXCEPT ![open] = c], d)
  PROVE  /\ Len(comps') = Len(comps) + 1
         /\ comps' = [i \in 1..(Len(comps) + 1) |-> comps'[i]]
         /\ \A i \in 1..Len(comps) : comps'[i] = IF i = open THEN c ELSE comps[i]
         /\ comps'[Len(comps) + 1] = d
<1> DEFINE N == Len(comps)
<1>1. open \in 1..N /\ N \in Nat
  BY DEF CompTypes
<1>2. /\ Len(comps') = N + 1
      /\ comps' = [i \in 1..(N + 1) |-> comps'[i]]
      /\ \A i \in 1..N : comps'[i] = IF i = open THEN c ELSE comps[i]
      /\ comps'[N + 1] = d
  <2> DEFINE S == {comps[i] : i \in 1..N} \union {c, d}
             e == [comps EXCEPT ![open] = c]
  <2>1. e \in [1..N -> S] /\ \A i \in 1..N : e[i] = IF i = open THEN c ELSE comps[i]
    BY <1>1 DEF CompTypes
  <2>2. e \in Seq(S)
    BY <1>1, <2>1, SeqDef
  <2>3. Len(e) = N
    BY <2>1, <2>2, <1>1, LenProperties
  <2>4. d \in S
    OBVIOUS
  <2> HIDE DEF S, e
  <2>5. /\ Append(e, d) \in Seq(S) /\ Len(Append(e, d)) = N + 1
        /\ \A i \in 1..N : Append(e, d)[i] = e[i]
        /\ Append(e, d)[N + 1] = d
    BY <2>2, <2>3, <2>4, AppendProperties
  <2>6. Append(e, d) \in [1..(N + 1) -> S]
    BY <2>5, LenProperties
  <2>7. comps' = Append(e, d)
    BY DEF e
  <2> QED
    BY <2>1, <2>5, <2>6, <2>7
<1> QED
  BY <1>2

\* The executing computation calls another.
LEMMA CallStep ==
  ASSUME CallsInv, open # 0, NEW c, IsComp(c), SameNode(comps[open], c),
         c.pc = 2, c.cause = 0,
         NEW d, IsComp(d), d.who \in Kinds, d.parent = open, d.pc = 0, d.children = <<>>,
         d.end = "open", d.cause = 0, d.dev = 0,
         comps' = Append([comps EXCEPT ![open] = c], d), open' = Len(comps) + 1
  PROVE  CallsInv'
<1> DEFINE N == Len(comps)
<1>1. open \in 1..N /\ N \in Nat
  BY DEF CallsInv, CompTypes
<1>2. /\ Len(comps') = N + 1
      /\ comps' = [i \in 1..(N + 1) |-> comps'[i]]
      /\ \A i \in 1..N : comps'[i] = IF i = open THEN c ELSE comps[i]
      /\ comps'[N + 1] = d
  BY CallShape DEF CallsInv
<1>3. /\ \A i \in 1..N :
           /\ SameNode(comps[i], comps'[i]) /\ IsComp(comps'[i])
           /\ i # open => comps'[i] = comps[i]
      /\ comps'[open] = c
  BY <1>1, <1>2 DEF CallsInv, CompTypes, CompTyped, SameNode
<1>4. CompTypes'
  <2>1. ASSUME NEW i \in 1..(N + 1) PROVE CompTyped(i)'
    <3>1. CASE i = N + 1
      <4>1. d.children \in Seq((i + 1)..Len(comps')) /\ d.parent \in 0..(i - 1)
        BY <1>1, <3>1
      <4> QED
        BY <1>2, <3>1, <4>1 DEF CompTyped
    <3>2. CASE i \in 1..N
      <4>1. Seq((i + 1)..N) \subseteq Seq((i + 1)..(N + 1))
        BY <1>1, SeqMonotonic
      <4>2. CompTyped(i)
        BY <3>2 DEF CallsInv, CompTypes
      <4> QED
        BY <1>2, <1>3, <3>2, <4>1, <4>2 DEF SameNode, CompTyped
    <3> QED
      BY <1>1, <3>1, <3>2
  <2> QED
    BY <1>1, <1>2, <2>1 DEF CompTypes
<1>5. OpenInLine'
  <2>1. \A i \in 1..N : comps'[i].end = comps[i].end /\ comps'[i].parent = comps[i].parent
    BY <1>3 DEF SameNode
  <2>2. comps'[N + 1].end = "open" /\ comps'[N + 1].parent = open /\ comps[open].end = "open"
    BY <1>2 DEF CallsInv, OpenInLine
  <2>3. \A i \in 1..N : comps[i].parent # 0 => comps[i].parent \in 1..N
    BY DEF CallsInv, CompTypes, CompTyped
  <2>4. \A i \in 1..N : WaitsInLine(i)
    BY DEF CallsInv, OpenInLine
  <2>5. ASSUME NEW i \in 1..(N + 1), comps'[i].end = "open" PROVE WaitsInLine(i)'
    <3>1. CASE i = N + 1
      <4>1. \A j \in 1..N : comps'[j].end = "open" => comps'[j].parent # open
        BY <2>1, <2>4 DEF WaitsInLine
      <4>2. \A j \in 1..(N + 1) : comps'[j].end = "open" /\ comps'[j].parent = open => i = j
        BY <1>1, <3>1, <4>1
      <4>3. comps'[open].end = "open" /\ comps'[open].pc = 2
        BY <1>1, <1>3, <2>1, <2>2
      <4> QED
        BY <1>1, <1>2, <2>2, <3>1, <4>2, <4>3 DEF WaitsInLine
    <3>2. CASE i \in 1..N
      <4>1. comps[i].end = "open" /\ comps'[i].parent = comps[i].parent
        BY <2>1, <2>5, <3>2
      <4>2. comps[i].parent # 0 => comps'[comps[i].parent].end = "open" /\ comps'[comps[i].parent].pc = 2
        BY <1>3, <2>1, <2>3, <2>4, <3>2, <4>1 DEF WaitsInLine
      <4>3. open' # 0 /\ comps[i].parent # open'
        BY <1>1, <2>3, <3>2
      <4>4. ASSUME NEW j \in 1..(N + 1), comps'[j].end = "open", comps'[j].parent = comps[i].parent
            PROVE  i = j
        <5>1. comps[i].parent # open
          BY <2>4, <3>2, <4>1 DEF WaitsInLine
        <5>2. j \in 1..N
          BY <1>1, <2>2, <4>4, <5>1
        <5> QED
          BY <2>1, <2>4, <3>2, <4>1, <4>4, <5>2 DEF WaitsInLine
      <4> DEFINE q == comps[i].parent
      <4>5. comps'[i].parent = q /\ Len(comps') = N + 1
        BY <1>2, <4>1
      <4> HIDE DEF q
      <4> QED
        BY <4>2, <4>3, <4>4, <4>5 DEF WaitsInLine, q
    <3> QED
      BY <1>1, <3>1, <3>2
  <2>6. \A i \in 1..(N + 1) : WaitsInLine(i)'
    BY <2>5 DEF WaitsInLine
  <2>7. open' # 0 => comps'[open'].end = "open" /\ comps'[open'].pc # 2
    BY <1>2, <2>2
  <2> QED
    BY <1>2, <2>6, <2>7 DEF OpenInLine
<1>6. CausesRight'
  <2>1. \A i \in 1..N : \A k \in 1..Len(comps[i].children) : comps[i].children[k] \in 1..N
    BY <1>1, ChildrenInRange DEF CallsInv
  <2>2. \A i \in 1..N : Failed(i) => Failed(i)'
    BY <1>3 DEF Failed, SameNode
  <2>3. ASSUME NEW i \in 1..(N + 1) PROVE CauseRight(i)'
    <3>1. CASE i = N + 1
      <4>1. comps'[i] = d /\ Len(d.children) = 0
        BY <1>2, <3>1
      <4> QED
        BY <4>1 DEF CauseRight
    <3>2. CASE i \in 1..N
      <4>1. CauseRight(i)
        BY <3>2 DEF CallsInv, CausesRight
      <4>2. \A k \in 1..Len(comps'[i].children) : comps'[comps'[i].children[k]].end # "open"
        BY <1>3, <2>1, <3>2, <4>1 DEF CauseRight, SameNode
      <4>3. CASE i = open
        <5>1. comps'[i] = c /\ c.end = "open"
          BY <1>3, <4>3 DEF CallsInv, OpenInLine, SameNode
        <5> QED
          BY <4>2, <5>1 DEF CauseRight
      <4>4. CASE i # open
        <5>1. comps'[i] = comps[i]
          BY <1>3, <3>2, <4>4
        <5>2. comps[i].children # <<>> => comps[i].children[Len(comps[i].children)] \in 1..N
          BY <3>2 DEF CallsInv, CompTypes, CompTyped
        <5>3. comps[i].cause \notin {0, i} => Failed(comps[i].cause)'
          BY <2>2, <4>1, <5>1, <5>2 DEF CauseRight
        <5> QED
          BY <4>1, <4>2, <5>1, <5>3 DEF CauseRight
      <4> QED
        BY <4>3, <4>4
    <3> QED
      BY <1>1, <3>1, <3>2
  <2> QED
    BY <1>2, <2>3 DEF CausesRight
<1> QED
  BY <1>4, <1>5, <1>6 DEF CallsInv

\* c is over: what becomes of the computations.
Hands(c) ==
  LET N == Len(comps)
      p == c.parent
      b == comps[p]
      d == comps'[p]
  IN /\ Len(comps') = N /\ comps' = [i \in 1..N |-> comps'[i]]
     /\ open \in 1..N /\ p \in 0..(open - 1)
     /\ comps'[open] = c
     /\ \A i \in 1..N \ {open, p} : comps'[i] = comps[i]
     /\ p # 0 => /\ p \in 1..N /\ IsComp(b) /\ IsComp(d)
                 /\ d.who = b.who /\ d.parent = b.parent /\ d.end = b.end /\ d.dev = b.dev
                 /\ d.cause = b.cause /\ d.pc = b.pc
                 /\ d.children = Append(b.children, open)
                 /\ d.childPcs = Append(b.childPcs, b.pc)
                 /\ d.trace = b.trace /\ d.refunded = b.refunded /\ d.gas = b.gas
                 /\ d.left = b.left + c.left /\ d.used = Add(b.used, b.pc - 1, -c.left)

\* The computations after one of them was changed and is a child of its caller.
LEMMA OverShape ==
  ASSUME CompTypes, open # 0, NEW c, c.parent = comps[open].parent, Over(c)
  PROVE  Hands(c)
<1> DEFINE N == Len(comps)
           p == c.parent
<1>1. /\ open \in 1..N /\ N \in Nat /\ DOMAIN comps = 1..N
      /\ p \in 0..(open - 1) /\ open' = p
      /\ p # 0 => p \in 1..N /\ p < open
  BY DEF CompTypes, CompTyped, Over
<1>2. CASE p = 0
  <2>1. comps' = [comps EXCEPT ![open] = c]
    BY <1>2 DEF Over
  <2> QED
    BY <1>1, <1>2, <2>1, LocalShape DEF Hands
<1>3. CASE p # 0
  <2> DEFINE b == comps[p]
             q == AddChild(b, open)
             d == ReturnGas(q, c.left)
  <2>1. comps' = [comps EXCEPT ![open] = c, ![p] = d]
    BY <1>1, <1>3 DEF Over
  <2>2. IsComp(b)
    BY <1>1, <1>3 DEF CompTypes, CompTyped
  <2> HIDE DEF b
  <2>3. /\ IsComp(q) /\ q.who = b.who /\ q.parent = b.parent
        /\ q.end = b.end /\ q.dev = b.dev /\ q.cause = b.cause
        /\ q.pc = b.pc /\ q.children = Append(b.children, open)
        /\ q.childPcs = Append(b.childPcs, b.pc)
        /\ q.trace = b.trace /\ q.refunded = b.refunded /\ q.gas = b.gas
        /\ q.left = b.left /\ q.used = b.used
    BY <2>2 DEF IsComp, CompFields, AddChild
  <2> HIDE DEF q
  <2>4. /\ IsComp(d) /\ d.who = q.who /\ d.parent = q.parent
        /\ d.end = q.end /\ d.dev = q.dev /\ d.cause = q.cause
        /\ d.pc = q.pc /\ d.children = q.children /\ d.childPcs = q.childPcs
        /\ d.trace = q.trace /\ d.refunded = q.refunded /\ d.gas = q.gas
        /\ d.left = q.left + c.left /\ d.used = Add(q.used, q.pc - 1, -c.left)
    BY <2>3 DEF IsComp, CompFields, ReturnGas
  <2> HIDE DEF d
  <2> DEFINE e == [comps EXCEPT ![open] = c]
  <2>a. e = [i \in 1..N |-> IF i = open THEN c ELSE comps[i]]
    BY <1>1
  <2>b. comps' = [e EXCEPT ![p] = d]
    BY <2>1
  <2> HIDE DEF e
  <2>c. comps' = [i \in 1..N |-> IF i = p THEN d ELSE e[i]]
    BY <2>a, <2>b
  <2>e. p # open /\ \A i \in 1..N : e[i] = IF i = open THEN c ELSE comps[i]
    BY <1>1, <1>3, <2>a
  <2>5. comps' = [i \in 1..N |-> IF i = open THEN c ELSE IF i = p THEN d ELSE comps[i]]
    BY <2>c, <2>e
  <2>6. /\ Len(comps') = N /\ comps' = [i \in 1..N |-> comps'[i]]
        /\ comps'[open] = c /\ comps'[p] = d
        /\ \A i \in 1..N \ {open, p} : comps'[i] = comps[i]
    BY <1>1, <1>3, <2>5
  <2> QED
    BY <1>1, <1>3, <2>2, <2>3, <2>4, <2>6 DEF b, Hands
<1> QED
  BY <1>2, <1>3

\* The executing computation is over.
LEMMA OverStep ==
  ASSUME CallsInv, open # 0, NEW c, IsComp(c), c.who = comps[open].who,
         c.parent = comps[open].parent, c.children = comps[open].children,
         c.end \in {"ok", "revert", "burn"}, c.dev \in {0, open},
         c.end = "ok" => c.cause = 0,
         c.end = "burn" => c.cause = open,
         c.end = "revert" => c.cause # 0,
         c.cause \notin {0, open} =>
           /\ c.children # <<>> /\ c.cause = c.children[Len(c.children)]
           /\ Failed(c.cause),
         Over(c)
  PROVE  CallsInv'
<1> DEFINE N == Len(comps)
           p == comps[open].parent
<1>1. /\ open \in 1..N /\ N \in Nat /\ DOMAIN comps = 1..N
      /\ p \in 0..(open - 1) /\ open' = p /\ comps[open].end = "open"
      /\ p # 0 => p \in 1..N /\ p < open /\ comps[p].end = "open" /\ comps[p].pc = 2
  BY DEF CallsInv, CompTypes, CompTyped, OpenInLine, WaitsInLine, Over
<1>2. /\ Len(comps') = N /\ comps' = [i \in 1..N |-> comps'[i]]
      /\ comps'[open] = c
      /\ \A i \in 1..N \ {open, p} : comps'[i] = comps[i]
      /\ p # 0 => LET d == comps'[p]
                  IN /\ IsComp(d) /\ d.who = comps[p].who /\ d.parent = comps[p].parent
                     /\ d.end = "open" /\ d.dev = comps[p].dev /\ d.cause = comps[p].cause
                     /\ d.pc = 2 /\ d.children = Append(comps[p].children, open)
  <2>0. Hands(c) /\ c.parent = p
    BY OverShape DEF CallsInv
  <2>1. p # 0 => LET d == comps'[p]
                 IN /\ IsComp(d) /\ d.who = comps[p].who /\ d.parent = comps[p].parent
                    /\ d.end = comps[p].end /\ d.dev = comps[p].dev /\ d.cause = comps[p].cause
                    /\ d.pc = comps[p].pc /\ d.children = Append(comps[p].children, open)
    BY <2>0 DEF Hands
  <2> QED
    BY <1>1, <2>0, <2>1 DEF Hands
<1>3. \A i \in 1..N : /\ comps'[i].parent = comps[i].parent
                      /\ comps'[i].end = IF i = open THEN c.end ELSE comps[i].end
  BY <1>1, <1>2
<1>4. CompTypes'
  <2>1. ASSUME NEW i \in 1..N PROVE CompTyped(i)'
    <3>1. CompTyped(i)
      BY DEF CallsInv, CompTypes
    <3>2. CASE i = open
      BY <1>2, <3>1, <3>2 DEF CompTyped
    <3>3. CASE i = p
      <4>1. open \in (i + 1)..N
        BY <1>1, <3>3
      <4>2. comps[p].children \in Seq((i + 1)..N)
        BY <3>1, <3>3 DEF CompTyped
      <4>3. Append(comps[p].children, open) \in Seq((i + 1)..N)
        BY <4>1, <4>2, AppendProperties
      <4> QED
        <5>1. /\ IsComp(comps'[i]) /\ comps'[i].who = comps[i].who /\ comps'[i].parent = comps[i].parent
              /\ comps'[i].end = "open" /\ comps'[i].dev = comps[i].dev
              /\ comps'[i].children = Append(comps[p].children, open)
          BY <1>1, <1>2, <3>3
        <5> QED
          BY <1>2, <3>1, <4>3, <5>1 DEF CompTyped
    <3>4. CASE i \notin {open, p}
      BY <1>2, <3>1, <3>4 DEF CompTyped
    <3> QED
      BY <3>2, <3>3, <3>4
  <2> QED
    BY <1>1, <1>2, <2>1 DEF CompTypes
<1>5. OpenInLine'
  <2>1. open' # 0 => comps'[open'].end = "open" /\ comps'[open'].children # <<>>
    <3>1. ASSUME p # 0 PROVE Append(comps[p].children, open) # <<>>
      <4>1. comps[p].children \in Seq((p + 1)..N) /\ open \in (p + 1)..N
        BY <1>1, <3>1 DEF CallsInv, CompTypes, CompTyped
      <4> QED
        BY <4>1, AppendProperties
    <3> QED
      BY <1>1, <1>2, <3>1
  <2>2. ASSUME NEW i \in 1..N, comps'[i].end = "open" PROVE WaitsInLine(i)'
    <3>1. i # open /\ comps[i].end = "open"
      BY <1>1, <1>2, <1>3, <2>2
    <3>2. WaitsInLine(i) /\ WaitsInLine(open) /\ CompTyped(i) /\ CompTyped(open)
      BY <1>1 DEF CallsInv, CompTypes, OpenInLine
    <3>3. comps[i].parent # 0 =>
            /\ comps[i].parent \in 1..N \ {open} /\ comps[comps[i].parent].end = "open"
            /\ comps[comps[i].parent].pc = 2
      BY <3>1, <3>2 DEF WaitsInLine, CompTyped
    <3>4. comps[i].parent # p
      BY <1>1, <3>1, <3>2 DEF WaitsInLine
    <3>5. \A j \in 1..N : comps'[j].end = "open" /\ comps'[j].parent = comps'[i].parent => i = j
      BY <1>1, <1>3, <3>1, <3>2 DEF WaitsInLine
    <3> QED
      BY <1>1, <1>2, <1>3, <3>1, <3>3, <3>4, <3>5 DEF WaitsInLine
  <2>3. \A i \in 1..N : WaitsInLine(i)'
    BY <2>2 DEF WaitsInLine
  <2> QED
    BY <1>2, <2>1, <2>3 DEF OpenInLine
<1>6. CausesRight'
  <2>1. \A i \in 1..N : \A k \in 1..Len(comps[i].children) : comps[i].children[k] \in 1..N
    BY <1>1, ChildrenInRange DEF CallsInv
  <2>2. \A i \in 1..N : Failed(i) => Failed(i)'
    BY <1>1, <1>3 DEF Failed
  <2>3. ASSUME NEW i \in 1..N PROVE CauseRight(i)'
    <3>1. CauseRight(i) /\ CauseRight(open)
      BY <1>1 DEF CallsInv, CausesRight
    <3>2. \A j \in 1..N : comps[j].children # <<>> => comps[j].children[Len(comps[j].children)] \in 1..N
      BY <1>1, ChildrenInRange DEF CallsInv
    <3>3. CASE i = open
      <4>1. comps'[i] = c /\ c.children = comps[i].children
        BY <1>2, <3>3
      <4>2. \A k \in 1..Len(c.children) : comps'[c.children[k]].end # "open"
        BY <1>3, <2>1, <3>1, <3>3, <4>1 DEF CauseRight
      <4>3. c.cause \notin {0, i} => Failed(c.cause)'
        BY <2>2, <3>2, <3>3, <4>1
      <4> QED
        BY <3>3, <4>1, <4>2, <4>3 DEF CauseRight
    <3>4. CASE i = p
      <4>1. i # open /\ comps[i].cause = 0 /\ comps'[i].cause = 0 /\ comps'[i].end = "open"
        BY <1>1, <1>2, <3>1, <3>4 DEF CauseRight
      <4>2. comps[i].children \in Seq(1..N)
        BY <1>1, <3>4, SeqMonotonic DEF CallsInv, CompTypes, CompTyped
      <4>3. /\ comps'[i].children = Append(comps[i].children, open)
            /\ Len(comps'[i].children) = Len(comps[i].children) + 1
            /\ \A k \in 1..Len(comps[i].children) : comps'[i].children[k] = comps[i].children[k]
            /\ comps'[i].children[Len(comps[i].children) + 1] = open
            /\ Len(comps[i].children) \in Nat
        BY <1>1, <1>2, <3>4, <4>2, AppendProperties, LenProperties
      <4>4. ASSUME NEW k \in 1..Len(comps'[i].children)
            PROVE  comps'[comps'[i].children[k]].end # "open"
        <5>1. CASE k \in 1..Len(comps[i].children)
          <6>1. comps'[i].children[k] \in 1..N
            BY <2>1, <4>3, <5>1
          <6>2. comps[comps[i].children[k]].end # "open"
            BY <3>1, <5>1 DEF CauseRight
          <6> QED
            BY <1>1, <1>3, <4>3, <5>1, <6>1, <6>2
        <5>2. CASE k = Len(comps[i].children) + 1
          BY <1>1, <1>3, <4>3, <5>2
        <5> QED
          BY <4>3, <5>1, <5>2
      <4> QED
        BY <4>1, <4>4 DEF CauseRight
    <3>5. CASE i \notin {open, p}
      <4>1. comps'[i] = comps[i]
        BY <1>2, <3>5
      <4>2. \A k \in 1..Len(comps[i].children) : comps'[comps[i].children[k]].end # "open"
        BY <1>3, <2>1, <3>1 DEF CauseRight
      <4>3. comps[i].cause \notin {0, i} => Failed(comps[i].cause)'
        BY <2>2, <3>1, <3>2, <4>1 DEF CauseRight
      <4> QED
        BY <3>1, <4>1, <4>2, <4>3 DEF CauseRight
    <3> QED
      BY <3>3, <3>4, <3>5
  <2> QED
    BY <1>2, <2>3 DEF CausesRight
<1> QED
  BY <1>4, <1>5, <1>6 DEF CallsInv

\* Whatever the EVM does next.
LEMMA CallsNextInv ==
  ASSUME CallsInv, CallsNext
  PROVE  CallsInv'
<1> DEFINE c == Current
<1>1. open # 0 => /\ open \in 1..Len(comps) /\ IsComp(c) /\ c = comps[open] /\ c.end = "open"
                  /\ c.pc = 2 => c.children # <<>>
                  /\ CauseRight(open) /\ CompTyped(open)
  BY DEF CallsInv, CompTypes, CompTyped, OpenInLine, CausesRight, Current
<1>2. ASSUME NEW refund \in 0..1, NEW target \in {0, 1, 3, 4}, Work(refund, target) PROVE CallsInv'
  <2> DEFINE d == RefundGas(ConsumeGas(Fetch(c), CostOf(c.pc)), refund)
             e == [d EXCEPT !.pc = target]
  <2>1. /\ open # 0 /\ c.pc \in {0, 3} /\ open' = open
        /\ comps' = [comps EXCEPT ![open] = e]
    BY <1>2 DEF Work, Step
  <2>2. IsComp(d) /\ SameNode(c, d) /\ d.cause = c.cause
    <3>1. IsComp(Fetch(c)) /\ SameNode(c, Fetch(c)) /\ Fetch(c).cause = c.cause
      BY <1>1, <2>1, FetchKeeps
    <3> DEFINE f == ConsumeGas(Fetch(c), CostOf(c.pc))
    <3>2. IsComp(f) /\ SameNode(Fetch(c), f) /\ f.cause = Fetch(c).cause
      BY <3>1, ConsumeGasKeeps
    <3> HIDE DEF f
    <3>3. IsComp(RefundGas(f, refund)) /\ SameNode(f, RefundGas(f, refund)) /\ RefundGas(f, refund).cause = f.cause
      BY <3>2, RefundGasKeeps
    <3> QED
      BY <3>1, <3>2, <3>3 DEF SameNode, f
  <2> HIDE DEF d
  <2>3. IsComp(e) /\ SameNode(c, e) /\ e.cause = c.cause /\ e.pc = target
    BY <2>2 DEF IsComp, CompFields, SameNode
  <2> HIDE DEF e
  <2>4. c.cause = 0
    BY <1>1, <2>1 DEF CauseRight
  <2>5. e.pc # 2 /\ e.cause = 0 /\ SameNode(comps[open], e)
    BY <1>1, <2>1, <2>3, <2>4
  <2> HIDE DEF c
  <2> QED
    BY <2>1, <2>3, <2>5, LocalStep
<1>3. ASSUME NEW who \in Kinds, Call(who) PROVE CallsInv'
  <2> DEFINE given == (c.left - CostOf(1)) \div 2
             d == ConsumeGas(Fetch(c), CostOf(1) + given)
             e == NewComp(who, open, given)
  <2>1. /\ open # 0 /\ c.pc = 1 /\ open' = Len(comps) + 1
        /\ comps' = Append([comps EXCEPT ![open] = d], e)
    BY <1>3 DEF Call, Step
  <2>2. IsComp(Fetch(c)) /\ SameNode(c, Fetch(c)) /\ Fetch(c).cause = c.cause /\ Fetch(c).pc = 2
    BY <1>1, <2>1, FetchKeeps
  <2>3. IsComp(d) /\ SameNode(c, d) /\ d.cause = c.cause /\ d.pc = 2
    BY <2>2, ConsumeGasKeeps DEF SameNode
  <2>4. c.cause = 0
    BY <1>1, <2>1 DEF CauseRight
  <2>5. /\ IsComp(e) /\ e.who = who /\ e.parent = open /\ e.pc = 0
        /\ e.children = <<>> /\ e.end = "open" /\ e.cause = 0 /\ e.dev = 0
    BY NewCompFields
  <2> HIDE DEF d, e, c
  <2> QED
    BY <1>1, <2>1, <2>3, <2>4, <2>5, CallStep
<1>4. ASSUME NEW ignored \in BOOLEAN, Test(ignored) PROVE CallsInv'
  <2> DEFINE child == Last(c.children)
             d == ConsumeGas(Fetch(c), CostOf(2))
             e == [d EXCEPT !.pc = IF (Failed(child) /\ ~ignored) \/ c.who = "proxy" THEN 4 ELSE 3,
                            !.cause = IF Failed(child) /\ ~ignored THEN child ELSE 0]
  <2>1. /\ open # 0 /\ c.pc = 2 /\ open' = open
        /\ comps' = [comps EXCEPT ![open] = e]
    BY <1>4 DEF Test, Step
  <2>2. IsComp(Fetch(c)) /\ SameNode(c, Fetch(c))
    BY <1>1, <2>1, FetchKeeps
  <2>3. IsComp(d) /\ SameNode(c, d)
    BY <2>2, ConsumeGasKeeps DEF SameNode
  <2> HIDE DEF d
  <2>4. /\ IsComp(e) /\ SameNode(c, e)
        /\ e.cause = (IF Failed(child) /\ ~ignored THEN child ELSE 0)
        /\ e.pc = (IF (Failed(child) /\ ~ignored) \/ c.who = "proxy" THEN 4 ELSE 3)
    BY <2>3 DEF IsComp, CompFields, SameNode
  <2>5. c.children # <<>> /\ child = c.children[Len(c.children)]
    BY <1>1, <2>1 DEF Last
  <2> HIDE DEF c, child, e
  <2>7. /\ e.pc # 2 /\ (e.pc # 4 => e.cause = 0)
        /\ e.cause \notin {0, open} => e.cause = child /\ Failed(child)
    BY <2>4
  <2>8. e.children = c.children
    BY <2>4 DEF SameNode
  <2> QED
    BY <1>1, <2>1, <2>4, <2>5, <2>7, <2>8, LocalStep
<1>5. CASE Return
  <2> DEFINE d == [Fetch(c) EXCEPT !.end = "ok"]
  <2>1. open # 0 /\ c.cause = 0 /\ Over(d)
    BY <1>5 DEF Return, Step
  <2>2. IsComp(Fetch(c)) /\ SameNode(c, Fetch(c)) /\ Fetch(c).cause = c.cause
    BY <1>1, <2>1, FetchKeeps
  <2>3. /\ IsComp(d) /\ d.who = c.who /\ d.parent = c.parent /\ d.children = c.children
        /\ d.end = "ok" /\ d.dev = c.dev /\ d.cause = 0
    BY <2>1, <2>2 DEF IsComp, CompFields, SameNode
  <2>4. c.dev \in {0, open}
    BY <1>1, <2>1 DEF CompTyped
  <2> HIDE DEF c, d
  <2> QED
    BY <1>1, <2>1, <2>3, <2>4, OverStep
<1>6. ASSUME NEW dev \in BOOLEAN, Revert(dev) PROVE CallsInv'
  <2> DEFINE d == [Fetch(c) EXCEPT !.end = "revert", !.dev = IF dev THEN open ELSE 0,
                                   !.cause = IF @ = 0 THEN open ELSE @]
  <2>1. open # 0 /\ Over(d)
    BY <1>6 DEF Revert, Step
  <2>2. IsComp(Fetch(c)) /\ SameNode(c, Fetch(c)) /\ Fetch(c).cause = c.cause
    BY <1>1, <2>1, FetchKeeps
  <2>3. /\ IsComp(d) /\ d.who = c.who /\ d.parent = c.parent /\ d.children = c.children
        /\ d.end = "revert" /\ d.dev \in {0, open}
        /\ d.cause = IF c.cause = 0 THEN open ELSE c.cause
    BY <2>1, <2>2 DEF IsComp, CompFields, SameNode
  <2>4. c.cause \notin {0, open} =>
          c.children # <<>> /\ c.cause = c.children[Len(c.children)] /\ Failed(c.cause)
    BY <1>1, <2>1 DEF CauseRight
  <2> HIDE DEF c, d
  <2>5. d.cause # 0
    BY <1>1, <2>1, <2>3
  <2>6. d.cause \notin {0, open} =>
          d.children # <<>> /\ d.cause = d.children[Len(d.children)] /\ Failed(d.cause)
    BY <2>3, <2>4
  <2> QED
    BY <1>1, <2>1, <2>3, <2>5, <2>6, OverStep
<1>7. CASE OutOfGas
  <2> DEFINE d == [Fetch(c) EXCEPT !.end = "burn", !.left = 0, !.cause = open]
  <2>1. open # 0 /\ Over(d)
    BY <1>7 DEF OutOfGas, Step
  <2>2. IsComp(Fetch(c)) /\ SameNode(c, Fetch(c)) /\ Fetch(c).cause = c.cause
    BY <1>1, <2>1, FetchKeeps
  <2>3. /\ IsComp(d) /\ d.who = c.who /\ d.parent = c.parent /\ d.children = c.children
        /\ d.end = "burn" /\ d.dev = c.dev /\ d.cause = open
    BY <2>1, <2>2 DEF IsComp, CompFields, SameNode
  <2>4. c.dev \in {0, open}
    BY <1>1, <2>1 DEF CompTyped
  <2> HIDE DEF c, d
  <2> QED
    BY <1>1, <2>1, <2>3, <2>4, OverStep
<1> QED
  BY <1>2, <1>3, <1>4, <1>5, <1>6, <1>7 DEF CallsNext

\* Every reachable state of the calls satisfies the inductive invariant.
THEOREM CallsInvHolds == CallsSpec => []CallsInv
<1>1. CallsInit => CallsInv
  BY CallsInitInv
<1>2. CallsInv /\ [CallsNext]_callVars => CallsInv'
  <2>1. ASSUME CallsInv, UNCHANGED callVars PROVE CallsInv'
    BY <2>1 DEF callVars, CallsInv, CompTypes, CompTyped, OpenInLine, WaitsInLine, CausesRight,
                CauseRight, Failed
  <2> QED
    BY <2>1, CallsNextInv
<1> QED
  BY <1>1, <1>2, PTL DEF CallsSpec

(***************************************************************************)
(* Recursion from a computation to its last child                          *)
(***************************************************************************)

\* A nonempty set of numbers up to n has a greatest element.
LEMMA Greatest ==
  ASSUME NEW n \in Nat, NEW S \in SUBSET (0..n), S # {}
  PROVE  \E m \in S : \A k \in S : k <= m
<1> DEFINE T == {n - k : k \in S}
<1>1. T \in SUBSET Nat /\ T # {}
  <2>1. \A k \in S : n - k \in Nat
    OBVIOUS
  <2> QED
    BY <2>1
<1>2. PICK x \in T : \A y \in T : ~(<<y, x>> \in OpToRel(<, Nat))
  BY <1>1, WFMin, NatLessThanWellFounded
<1>3. PICK m \in S : x = n - m
  OBVIOUS
<1>4. \A k \in S : ~(n - k < n - m)
  BY <1>1, <1>2, <1>3 DEF OpToRel
<1> QED
  BY <1>4

\* The value of a function at x is built from its values at the members of S that
\* have a smaller measure.
Below(S, m, x) == {y \in S : m[y] < m[x]}
Builds(S, V, n, m, comb) ==
  /\ n \in Nat /\ m \in [S -> 0..n]
  /\ \A x \in S : \A h \in [Below(S, m, x) -> V] : comb[<<x, h>>] \in V
Solves(g, S, m, comb) == \A x \in S : g[x] = comb[<<x, [y \in Below(S, m, x) |-> g[y]]>>]

\* There is such a function.
LEMMA RecursionExists ==
  ASSUME NEW S, NEW V, NEW n, NEW m, NEW comb, Builds(S, V, n, m, comb)
  PROVE  \E g \in [S -> V] : Solves(g, S, m, comb)
<1> DEFINE To(k) == {x \in S : m[x] < k}
           Good(k) == \E g \in [To(k) -> V] : Solves(g, To(k), m, comb)
           Bad == {k \in 0..(n + 1) : ~Good((n + 1) - k)}
<1>1. n \in Nat /\ m \in [S -> 0..n]
  BY DEF Builds
<1>2. Good(0)
  <2> DEFINE g == [x \in To(0) |-> CHOOSE v \in V : TRUE]
  <2>1. To(0) = {}
    BY <1>1
  <2>2. g \in [To(0) -> V] /\ Solves(g, To(0), m, comb)
    BY <2>1 DEF Solves
  <2> QED
    BY <2>2
<1>3. ASSUME NEW k \in 0..n, Good(k) PROVE Good(k + 1)
  <2>1. PICK g \in [To(k) -> V] : Solves(g, To(k), m, comb)
    BY <1>3
  <2> DEFINE at(x) == comb[<<x, [y \in Below(S, m, x) |-> g[y]]>>]
             h == [x \in To(k + 1) |-> IF m[x] < k THEN g[x] ELSE at(x)]
  <2>2. ASSUME NEW x \in To(k + 1)
        PROVE  /\ Below(S, m, x) = Below(To(k + 1), m, x) /\ Below(S, m, x) \subseteq To(k)
               /\ m[x] < k => x \in To(k) /\ Below(To(k), m, x) = Below(S, m, x)
    BY <1>1 DEF Below
  <2>3. ASSUME NEW x \in To(k + 1) PROVE h[x] \in V /\ h[x] = at(x)
    <3>1. CASE m[x] < k
      <4>1. g[x] = comb[<<x, [y \in Below(To(k), m, x) |-> g[y]]>>] /\ g[x] \in V
        BY <2>1, <2>2, <3>1 DEF Solves
      <4>2. g[x] = at(x)
        BY <2>2, <3>1, <4>1
      <4> QED
        BY <3>1, <4>1, <4>2
    <3>2. CASE ~(m[x] < k)
      <4> DEFINE q == [y \in Below(S, m, x) |-> g[y]]
      <4>1. q \in [Below(S, m, x) -> V]
        BY <2>1, <2>2
      <4>2. comb[<<x, q>>] \in V
        BY <4>1 DEF Builds
      <4> QED
        BY <3>2, <4>2
    <3> QED
      BY <3>1, <3>2
  <2>4. ASSUME NEW x \in To(k + 1)
        PROVE  [y \in Below(To(k + 1), m, x) |-> h[y]] = [y \in Below(S, m, x) |-> g[y]]
    <3>1. ASSUME NEW y \in Below(S, m, x) PROVE y \in To(k + 1) /\ m[y] < k /\ h[y] = g[y]
      <4>1. x \in S /\ y \in S /\ m[x] \in 0..n /\ m[y] \in 0..n /\ m[x] < k + 1 /\ m[y] < m[x]
        BY <1>1 DEF Below
      <4>2. m[y] < k /\ m[y] < k + 1
        BY <4>1
      <4>3. y \in To(k + 1)
        BY <4>1, <4>2
      <4> QED
        BY <4>2, <4>3
    <3> QED
      BY <2>2, <3>1
  <2>5. h \in [To(k + 1) -> V]
    BY <2>3
  <2>6. Solves(h, To(k + 1), m, comb)
    BY <2>3, <2>4 DEF Solves
  <2> QED
    BY <2>5, <2>6
<1>4. Good(n + 1)
  <2> HIDE DEF Good
  <2> SUFFICES ASSUME ~Good(n + 1) PROVE FALSE
    OBVIOUS
  <2>1. 0 \in Bad
    <3>1. (n + 1) - 0 = n + 1 /\ 0 \in 0..(n + 1)
      BY <1>1
    <3> QED
      BY <3>1
  <2>2. n + 1 \in Nat /\ Bad \in SUBSET (0..(n + 1)) /\ Bad # {}
    <3>1. Bad \in SUBSET (0..(n + 1))
      OBVIOUS
    <3> HIDE DEF Bad
    <3> QED
      BY <1>1, <2>1, <3>1
  <2>3. PICK j \in Bad : \A k \in Bad : k <= j
    <3> HIDE DEF Bad
    <3> QED
      BY <2>2, Greatest
  <2>4. j \in 0..(n + 1) /\ ~Good((n + 1) - j)
    OBVIOUS
  <2>5. j # n + 1
    <3>1. (n + 1) - (n + 1) = 0
      BY <1>1
    <3> QED
      BY <1>2, <2>4, <3>1
  <2> DEFINE i == n - j
  <2>6. i \in 0..n /\ (n + 1) - j = i + 1 /\ (n + 1) - (j + 1) = i /\ j + 1 \in 0..(n + 1)
    BY <1>1, <2>4, <2>5
  <2>7. j + 1 \notin Bad
    <3>1. ~(j + 1 <= j)
      BY <2>4
    <3> QED
      BY <2>3, <3>1
  <2>8. Good(i)
    BY <2>6, <2>7
  <2> QED
    BY <1>3, <2>4, <2>6, <2>8
<1>5. To(n + 1) = S
  BY <1>1
<1>6. PICK g \in [To(n + 1) -> V] : Solves(g, To(n + 1), m, comb)
  BY <1>4
<1> QED
  BY <1>5, <1>6

\* StackTrace and Causes are values of these.
TraceStep(f, i) ==
  IF Descends(i) THEN Propagated(i, f[Last(comps[i].children)])
  ELSE <<[of |-> i, dev |-> comps[i].dev]>>
ChainStep(f, i) == IF comps[i].cause \in {0, i} THEN <<i>> ELSE <<i>> \o f[comps[i].cause]

Trace == CHOOSE f : f = [i \in DOMAIN comps |-> TraceStep(f, i)]
Chain == CHOOSE f : f = [i \in DOMAIN comps |-> ChainStep(f, i)]

Frames == [of : Nat, dev : Nat]

\* StackTrace is defined by such a function.
LEMMA StackTraceIs == StackTrace = Trace[1]
BY DEF StackTrace, Trace, TraceStep

\* The same for Causes.
LEMMA CausesIs == Causes = Chain[1]
BY DEF Causes, Chain, ChainStep

\* The frames below, with one on top, or no trace.
LEMMA PropagatedSeq ==
  ASSUME CompTypes, NEW i \in 1..Len(comps), NEW below \in Seq(Frames)
  PROVE  Propagated(i, below) \in Seq(Frames)
<1>1. CASE below = Crash
  BY <1>1, EmptySeq DEF Propagated, Crash
<1>2. CASE below # Crash
  <2>1. Last(below) \in Frames
    BY <1>2 DEF Last, Crash
  <2>2. comps[i].dev \in Nat /\ i \in Nat
    BY DEF CompTypes, CompTyped
  <2> DEFINE childDev == IF IsText(Last(below).of) THEN 0 ELSE Last(below).dev
             d == IF comps[i].dev = 0 THEN childDev ELSE comps[i].dev
             f == [of |-> i, dev |-> d]
  <2>3. d \in Nat
    BY <2>1, <2>2 DEF Frames
  <2> HIDE DEF d
  <2>4. f \in Frames
    BY <2>2, <2>3 DEF Frames
  <2>5. Append(below, f) \in Seq(Frames)
    BY <2>4, AppendProperties
  <2>6. Propagated(i, below) \in {Crash, Append(below, f)}
    BY DEF Propagated, d
  <2> QED
    BY <2>5, <2>6, EmptySeq DEF Crash
<1> QED
  BY <1>1, <1>2

\* There is such a function for the traces: children start later.
LEMMA TraceExists ==
  ASSUME CompTypes
  PROVE  Trace = [i \in 1..Len(comps) |-> TraceStep(Trace, i)]
<1> DEFINE n == Len(comps)
           S == 1..n
           V == Seq(Frames)
           m == [i \in S |-> n - i]
           comb == [z \in S \X UNION {[T -> V] : T \in SUBSET S} |-> TraceStep(z[2], z[1])]
<1>1. n \in Nat /\ DOMAIN comps = S
  BY DEF CompTypes
<1>2. \A i \in S : Below(S, m, i) = (i + 1)..n
  BY <1>1 DEF Below
<1>3. \A i \in S : Descends(i) => Last(comps[i].children) \in (i + 1)..n
  BY ChildrenInRange DEF Descends, Last
<1>4. \A i \in S : <<[of |-> i, dev |-> comps[i].dev]>> \in V
  <2> SUFFICES ASSUME NEW i \in S PROVE <<[of |-> i, dev |-> comps[i].dev]>> \in Seq(Frames)
    OBVIOUS
  <2>1. comps[i].dev \in Nat /\ i \in Nat
    BY DEF CompTypes, CompTyped
  <2>2. [of |-> i, dev |-> comps[i].dev] \in Frames
    BY <2>1 DEF Frames
  <2> QED
    BY <2>2
<1>5. ASSUME NEW i \in S, NEW h \in [(i + 1)..n -> V]
      PROVE  comb[<<i, h>>] = TraceStep(h, i) /\ TraceStep(h, i) \in V
  <2>1. (i + 1)..n \in SUBSET S
    BY <1>1
  <2>2. comb[<<i, h>>] = TraceStep(h, i)
    BY <2>1
  <2>3. TraceStep(h, i) \in V
    BY <1>3, <1>4, PropagatedSeq DEF TraceStep
  <2> QED
    BY <2>2, <2>3
<1>6. Builds(S, V, n, m, comb)
  <2>1. m \in [S -> 0..n]
    BY <1>1
  <2> HIDE DEF comb, V, m
  <2> QED
    BY <1>1, <1>2, <1>5, <2>1 DEF Builds
<1>7. PICK g \in [S -> V] : Solves(g, S, m, comb)
  <2> HIDE DEF S, V, n, m, comb
  <2> QED
    BY <1>6, RecursionExists
<1>8. ASSUME NEW i \in S PROVE g[i] = TraceStep(g, i)
  <2> DEFINE h == [y \in (i + 1)..n |-> g[y]]
  <2>1. \A y \in (i + 1)..n : y \in S
    BY <1>1
  <2>2. h \in [(i + 1)..n -> V]
    BY <2>1
  <2>3. g[i] = TraceStep(h, i)
    <3> HIDE DEF comb, V, m, h
    <3> QED
      BY <1>2, <1>5, <1>7, <2>2 DEF Solves, h
  <2>4. TraceStep(h, i) = TraceStep(g, i)
    BY <1>3 DEF TraceStep
  <2> QED
    BY <2>3, <2>4
<1>9. g = [i \in DOMAIN comps |-> TraceStep(g, i)]
  BY <1>1, <1>8
<1>10. Trace = [i \in DOMAIN comps |-> TraceStep(Trace, i)]
  BY <1>9 DEF Trace
<1> QED
  BY <1>1, <1>10

\* There is one for the causes: a cause is a child.
LEMMA ChainExists ==
  ASSUME CallsInv
  PROVE  Chain = [i \in 1..Len(comps) |-> ChainStep(Chain, i)]
<1> DEFINE n == Len(comps)
           S == 1..n
           V == Seq(Nat)
           m == [i \in S |-> n - i]
           comb == [z \in S \X UNION {[T -> V] : T \in SUBSET S} |-> ChainStep(z[2], z[1])]
<1>1. n \in Nat /\ DOMAIN comps = S
  BY DEF CallsInv, CompTypes
<1>2. \A i \in S : Below(S, m, i) = (i + 1)..n
  BY <1>1 DEF Below
<1>3. \A i \in S : comps[i].cause \notin {0, i} => comps[i].cause \in (i + 1)..n
  BY ChildrenInRange DEF CallsInv, CausesRight, CauseRight
<1>4. \A i \in S : <<i>> \in V
  BY <1>1
<1>5. ASSUME NEW i \in S, NEW h \in [(i + 1)..n -> V]
      PROVE  comb[<<i, h>>] = ChainStep(h, i) /\ ChainStep(h, i) \in V
  <2>1. (i + 1)..n \in SUBSET S
    BY <1>1
  <2>2. comb[<<i, h>>] = ChainStep(h, i)
    BY <2>1
  <2>3. ChainStep(h, i) \in V
    BY <1>3, <1>4, ConcatProperties DEF ChainStep
  <2> QED
    BY <2>2, <2>3
<1>6. Builds(S, V, n, m, comb)
  <2>1. m \in [S -> 0..n]
    BY <1>1
  <2> HIDE DEF comb, V, m
  <2> QED
    BY <1>1, <1>2, <1>5, <2>1 DEF Builds
<1>7. PICK g \in [S -> V] : Solves(g, S, m, comb)
  <2> HIDE DEF S, V, n, m, comb
  <2> QED
    BY <1>6, RecursionExists
<1>8. ASSUME NEW i \in S PROVE g[i] = ChainStep(g, i)
  <2> DEFINE h == [y \in (i + 1)..n |-> g[y]]
  <2>1. \A y \in (i + 1)..n : y \in S
    BY <1>1
  <2>2. h \in [(i + 1)..n -> V]
    BY <2>1
  <2>3. g[i] = ChainStep(h, i)
    <3> HIDE DEF comb, V, m, h
    <3> QED
      BY <1>2, <1>5, <1>7, <2>2 DEF Solves, h
  <2>4. ChainStep(h, i) = ChainStep(g, i)
    BY <1>3 DEF ChainStep
  <2> QED
    BY <2>3, <2>4
<1>9. g = [i \in DOMAIN comps |-> ChainStep(g, i)]
  BY <1>1, <1>8
<1>10. Chain = [i \in DOMAIN comps |-> ChainStep(Chain, i)]
  BY <1>9 DEF Chain
<1> QED
  BY <1>1, <1>10

(***************************************************************************)
(* The trace names the causes                                              *)
(***************************************************************************)

\* d is the dev reason of the first of c that has one, 0 if none has.
FirstReason(c, d) ==
  \/ d = 0 /\ \A k \in 1..Len(c) : comps[c[k]].dev = 0
  \/ \E k \in 1..Len(c) : /\ comps[c[k]].dev # 0 /\ d = comps[c[k]].dev
                          /\ \A j \in 1..(k - 1) : comps[c[j]].dev = 0

\* What the property says of the trace t and the causes c of the failure of i.
Matches(t, c) ==
  /\ Len(c) <= Len(t) /\ \A k \in 1..Len(c) : c[k] = t[Len(t) - k + 1].of
  /\ comps[c[Len(c)]].who = "vyper" => Len(t) = Len(c)
  /\ (\A k \in 1..Len(c) : ~IsText(c[k])) /\ Len(t) = Len(c) => FirstReason(c, t[Len(t)].dev)
Crashed(i) ==
  \E j, k \in 1..Len(comps) : i <= j /\ j < k /\ IsText(j) /\ comps[k].dev # 0
Follows(i, t, c) ==
  /\ t \in Seq(Frames) /\ c \in Seq(1..Len(comps)) /\ c # <<>> /\ c[1] = i
  /\ t = <<>> => Crashed(i)
  /\ t # <<>> => /\ Matches(t, c)
                 /\ t[Len(t)].dev # 0 => \E k \in i..Len(comps) : comps[k].dev # 0

\* An error where it arose.
LEMMA FollowsHere ==
  ASSUME CallsInv, NEW i \in 1..Len(comps), NEW t, t = <<[of |-> i, dev |-> comps[i].dev]>>
  PROVE  Follows(i, t, <<i>>)
<1>1. comps[i].dev \in {0, i} /\ Len(comps) \in Nat
  BY DEF CallsInv, CompTypes, CompTyped
<1>2. [of |-> i, dev |-> comps[i].dev] \in Frames
  BY <1>1 DEF Frames
<1>3. t \in Seq(Frames) /\ Len(t) = 1 /\ t # <<>> /\ t[1].of = i /\ t[1].dev = comps[i].dev
  BY <1>2
<1> DEFINE c == <<i>>
<1>4. c \in Seq(1..Len(comps)) /\ Len(c) = 1 /\ c # <<>> /\ c[1] = i
  OBVIOUS
<1> HIDE DEF c
<1>5. FirstReason(c, t[Len(t)].dev)
  <2>1. CASE comps[i].dev = 0
    BY <1>3, <1>4, <2>1 DEF FirstReason
  <2>2. CASE comps[i].dev # 0
    <3>1. 1 \in 1..Len(c) /\ comps[c[1]].dev # 0 /\ t[Len(t)].dev = comps[c[1]].dev
          /\ \A j \in 1..(1 - 1) : comps[c[j]].dev = 0
      BY <1>3, <1>4, <2>2
    <3> QED
      BY <3>1 DEF FirstReason
  <2> QED
    BY <2>1, <2>2
<1>6. Matches(t, c)
  BY <1>3, <1>4, <1>5 DEF Matches
<1>7. t[Len(t)].dev # 0 => \E k \in i..Len(comps) : comps[k].dev # 0
  BY <1>1, <1>3
<1> QED
  BY <1>3, <1>4, <1>6, <1>7 DEF Follows, c

\* The frame that goes on top of the trace of the last child.
LEMMA PropagatedIs ==
  ASSUME CallsInv, NEW i \in 1..Len(comps), NEW j \in (i + 1)..Len(comps), NEW t, NEW c,
         Follows(j, t, c)
  PROVE  \/ Propagated(i, t) = <<>> /\ Crashed(i)
         \/ \E d \in Nat :
              /\ t # <<>> /\ Propagated(i, t) = Append(t, [of |-> i, dev |-> d])
              /\ comps[i].dev # 0 => d = comps[i].dev
              /\ comps[i].dev = 0 => d = IF IsText(j) THEN 0 ELSE t[Len(t)].dev
<1>1. /\ comps[i].dev \in Nat /\ i \in Nat /\ j \in 1..Len(comps) /\ i < j /\ Len(comps) \in Nat
  <2>1. comps[i].dev \in {0, i} /\ Len(comps) \in Nat
    BY DEF CallsInv, CompTypes, CompTyped
  <2> QED
    BY <2>1
<1>2. CASE t = <<>>
  <2>1. Crashed(j)
    BY <1>2 DEF Follows
  <2>2. PICK a, b \in 1..Len(comps) : j <= a /\ a < b /\ IsText(a) /\ comps[b].dev # 0
    BY <2>1 DEF Crashed
  <2>3. i <= a
    BY <1>1, <2>2
  <2>4. Crashed(i)
    BY <2>2, <2>3 DEF Crashed
  <2> QED
    BY <1>2, <2>4 DEF Propagated, Crash
<1>3. CASE t # <<>>
  <2>1. t \in Seq(Frames) /\ Len(t) \in Nat \ {0} /\ Last(t) = t[Len(t)] /\ t[Len(t)] \in Frames
    BY <1>3 DEF Follows, Last
  <2>2. t[Len(t)].of = j
    <3>1. c[1] = t[Len(t) - 1 + 1].of /\ c[1] = j
      BY <1>3, <2>1 DEF Follows, Matches
    <3>2. Len(t) - 1 + 1 = Len(t)
      BY <2>1
    <3> QED
      BY <3>1, <3>2
  <2> DEFINE childDev == IF IsText(j) THEN 0 ELSE t[Len(t)].dev
             d == IF comps[i].dev = 0 THEN childDev ELSE comps[i].dev
  <2>3. childDev \in Nat /\ d \in Nat
    BY <1>1, <2>1 DEF Frames
  <2>4. Propagated(i, t) = IF childDev # 0 /\ IsText(i) THEN <<>>
                           ELSE Append(t, [of |-> i, dev |-> d])
    BY <1>3, <2>1, <2>2 DEF Propagated, Crash
  <2>5. CASE childDev # 0 /\ IsText(i)
    <3>1. t[Len(t)].dev # 0
      BY <2>5
    <3>2. PICK k \in j..Len(comps) : comps[k].dev # 0
      BY <1>3, <3>1 DEF Follows
    <3>3. i <= i /\ i < k /\ k \in 1..Len(comps)
      BY <1>1
    <3>4. Crashed(i)
      BY <2>5, <3>2, <3>3 DEF Crashed
    <3> QED
      BY <2>4, <2>5, <3>4
  <2>6. CASE ~(childDev # 0 /\ IsText(i))
    BY <1>3, <2>3, <2>4, <2>6
  <2> QED
    BY <2>5, <2>6
<1> QED
  BY <1>2, <1>3

\* A failure that the caller passes on.
LEMMA FollowsChild ==
  ASSUME CallsInv, NEW i \in 1..Len(comps), NEW j \in (i + 1)..Len(comps), NEW t, NEW c,
         Follows(j, t, c)
  PROVE  Follows(i, Propagated(i, t), <<i>> \o c)
<1> DEFINE n == Len(comps)
           e == <<i>> \o c
           u == Propagated(i, t)
<1>1. n \in Nat /\ i \in Nat /\ i < j
  BY DEF CallsInv, CompTypes
<1>2. c \in Seq(1..n) /\ t \in Seq(Frames) /\ c # <<>> /\ Len(c) \in Nat \ {0} /\ c[1] = j
  BY DEF Follows
<1>3. /\ e \in Seq(1..n) /\ Len(e) = Len(c) + 1 /\ e # <<>> /\ e[1] = i
      /\ \A k \in 1..Len(c) : e[k + 1] = c[k]
  <2>1. <<i>> \in Seq(1..n) /\ Len(<<i>>) = 1 /\ <<i>>[1] = i
    OBVIOUS
  <2>2. /\ e \in Seq(1..n) /\ Len(e) = 1 + Len(c)
        /\ \A k \in 1..(1 + Len(c)) : e[k] = IF k <= 1 THEN <<i>>[k] ELSE c[k - 1]
    BY <1>2, <2>1, ConcatProperties
  <2> HIDE DEF e
  <2>3. ASSUME NEW k \in 1..Len(c) PROVE e[k + 1] = c[k]
    <3>1. k + 1 \in 1..(1 + Len(c)) /\ ~(k + 1 <= 1) /\ (k + 1) - 1 = k
      BY <1>2
    <3> QED
      BY <2>2, <3>1
  <2> QED
    BY <1>2, <2>1, <2>2, <2>3
<1>4. \A k \in 1..Len(e) : k = 1 \/ (k - 1 \in 1..Len(c) /\ e[k] = c[k - 1])
  <2> HIDE DEF e
  <2> SUFFICES ASSUME NEW k \in 1..Len(e), k # 1 PROVE k - 1 \in 1..Len(c) /\ e[k] = c[k - 1]
    OBVIOUS
  <2>1. k - 1 \in 1..Len(c) /\ (k - 1) + 1 = k
    BY <1>2, <1>3
  <2> QED
    BY <1>3, <2>1
<1> HIDE DEF e
<1>5. CASE u = <<>> /\ Crashed(i)
  BY <1>3, <1>5, EmptySeq DEF Follows, e, u
<1>6. ASSUME NEW d \in Nat, t # <<>>, u = Append(t, [of |-> i, dev |-> d]),
             comps[i].dev # 0 => d = comps[i].dev,
             comps[i].dev = 0 => d = IF IsText(j) THEN 0 ELSE t[Len(t)].dev
      PROVE  Follows(i, u, e)
  <2> DEFINE f == [of |-> i, dev |-> d]
  <2>1. f \in Frames /\ f.of = i /\ f.dev = d
    BY <1>1 DEF Frames
  <2>2. Len(t) \in Nat \ {0}
    BY <1>2, <1>6
  <2>3. /\ u \in Seq(Frames) /\ u # <<>> /\ Len(u) = Len(t) + 1
        /\ \A k \in 1..Len(t) : u[k] = t[k]
        /\ u[Len(u)] = f
    <3> HIDE DEF f
    <3> QED
      BY <1>2, <1>6, <2>1, AppendProperties DEF f
  <2> HIDE DEF f, u
  <2>4. Matches(t, c)
    BY <1>6 DEF Follows
  <2>5. Len(e) <= Len(u)
    BY <1>2, <1>3, <2>2, <2>3, <2>4 DEF Matches
  <2>6. ASSUME NEW k \in 1..Len(e) PROVE e[k] = u[Len(u) - k + 1].of
    <3>1. CASE k = 1
      <4>1. Len(u) - k + 1 = Len(u)
        BY <2>2, <2>3, <3>1
      <4> QED
        BY <1>3, <2>1, <2>3, <3>1, <4>1
    <3>2. CASE k # 1
      <4>1. k - 1 \in 1..Len(c) /\ e[k] = c[k - 1]
        BY <1>4, <3>2
      <4>2. c[k - 1] = t[Len(t) - (k - 1) + 1].of
        BY <2>4, <4>1 DEF Matches
      <4>3. Len(t) - (k - 1) + 1 = Len(u) - k + 1 /\ Len(t) - (k - 1) + 1 \in 1..Len(t)
        BY <1>2, <2>2, <2>3, <2>4, <4>1 DEF Matches
      <4> QED
        BY <2>3, <4>1, <4>2, <4>3
    <3> QED
      BY <3>1, <3>2
  <2>7. e[Len(e)] = c[Len(c)]
    BY <1>2, <1>3
  <2>8. ASSUME \A k \in 1..Len(e) : ~IsText(e[k]), Len(u) = Len(e)
        PROVE  FirstReason(e, u[Len(u)].dev)
    <3>1. \A k \in 1..Len(c) : ~IsText(c[k])
      <4> SUFFICES ASSUME NEW k \in 1..Len(c) PROVE ~IsText(c[k])
        OBVIOUS
      <4>1. k + 1 \in 1..Len(e) /\ e[k + 1] = c[k]
        BY <1>2, <1>3
      <4> QED
        BY <2>8, <4>1
    <3>2. Len(t) = Len(c)
      BY <1>2, <1>3, <2>2, <2>3, <2>8
    <3>3. FirstReason(c, t[Len(t)].dev)
      BY <2>4, <3>1, <3>2 DEF Matches
    <3>4. u[Len(u)].dev = d
      BY <2>1, <2>3
    <3>5. CASE comps[i].dev # 0
      <4>1. /\ 1 \in 1..Len(e) /\ comps[e[1]].dev # 0 /\ d = comps[e[1]].dev
            /\ \A k \in 1..(1 - 1) : comps[e[k]].dev = 0
        BY <1>2, <1>3, <1>6, <3>5
      <4> QED
        BY <3>4, <4>1 DEF FirstReason
    <3>6. CASE comps[i].dev = 0
      <4>1. d = t[Len(t)].dev
        <5>1. ~IsText(c[1])
          BY <1>2, <3>1
        <5> QED
          BY <1>2, <1>6, <3>6, <5>1
      <4>2. CASE d = 0 /\ \A k \in 1..Len(c) : comps[c[k]].dev = 0
        <5>1. \A k \in 1..Len(e) : comps[e[k]].dev = 0
          BY <1>3, <1>4, <3>6, <4>2
        <5> QED
          BY <3>4, <4>2, <5>1 DEF FirstReason
      <4>3. ASSUME NEW k \in 1..Len(c), comps[c[k]].dev # 0, d = comps[c[k]].dev,
                   \A m \in 1..(k - 1) : comps[c[m]].dev = 0
            PROVE  FirstReason(e, d)
        <5>1. k + 1 \in 1..Len(e) /\ e[k + 1] = c[k]
          BY <1>2, <1>3
        <5>2. ASSUME NEW m \in 1..((k + 1) - 1) PROVE comps[e[m]].dev = 0
          <6>1. CASE m = 1
            BY <1>3, <3>6, <6>1
          <6>2. CASE m # 1
            <7>1. m \in 1..Len(e) /\ m - 1 \in 1..(k - 1)
              BY <1>2, <1>3, <6>2
            <7>2. e[m] = c[m - 1]
              BY <1>4, <6>2, <7>1
            <7> QED
              BY <4>3, <7>1, <7>2
          <6> QED
            BY <6>1, <6>2
        <5> QED
          BY <4>3, <5>1, <5>2 DEF FirstReason
      <4> QED
        BY <3>3, <3>4, <4>1, <4>2, <4>3 DEF FirstReason
    <3> QED
      BY <3>5, <3>6
  <2>9. comps[e[Len(e)]].who = "vyper" => Len(u) = Len(e)
    BY <1>2, <1>3, <2>3, <2>4, <2>7 DEF Matches
  <2>10. Matches(u, e)
    BY <2>5, <2>6, <2>8, <2>9 DEF Matches
  <2>11. ASSUME u[Len(u)].dev # 0 PROVE \E k \in i..n : comps[k].dev # 0
    <3>1. d # 0
      BY <2>1, <2>3, <2>11
    <3>2. CASE comps[i].dev # 0
      <4>1. i \in i..n
        BY <1>1
      <4> QED
        BY <3>2, <4>1
    <3>3. CASE comps[i].dev = 0
      <4>1. t[Len(t)].dev # 0
        BY <1>6, <3>1, <3>3
      <4>2. PICK k \in j..n : comps[k].dev # 0
        BY <1>6, <4>1 DEF Follows
      <4>3. k \in i..n
        BY <1>1
      <4> QED
        BY <4>2, <4>3
    <3> QED
      BY <3>2, <3>3
  <2> QED
    BY <1>3, <2>3, <2>10, <2>11 DEF Follows
<1> QED
  BY <1>5, <1>6, PropagatedIs DEF e, u

\* A failure of its own after one that was ignored: the trace goes on below.
LEMMA FollowsIgnored ==
  ASSUME CallsInv, NEW i \in 1..Len(comps), NEW j \in (i + 1)..Len(comps), NEW t, NEW c,
         Follows(j, t, c), comps[i].who # "vyper"
  PROVE  Follows(i, Propagated(i, t), <<i>>)
<1> DEFINE n == Len(comps)
           u == Propagated(i, t)
           e == <<i>>
<1>0. Follows(i, u, <<i>> \o c)
  BY FollowsChild
<1>1. c \in Seq(1..n) /\ t \in Seq(Frames) /\ Len(c) \in Nat \ {0} /\ Len(t) \in Nat
  BY DEF Follows
<1>2. e \in Seq(1..n) /\ Len(e) = 1 /\ e # <<>> /\ e[1] = i
  OBVIOUS
<1>3. u \in Seq(Frames) /\ (u = <<>> => Crashed(i)) /\
      (u # <<>> /\ u[Len(u)].dev # 0 => \E k \in i..n : comps[k].dev # 0)
  BY <1>0 DEF Follows
<1> HIDE DEF e
<1>4. ASSUME u # <<>> PROVE Matches(u, e)
  <2>1. PICK d \in Nat : t # <<>> /\ u = Append(t, [of |-> i, dev |-> d])
    BY <1>4, PropagatedIs
  <2> DEFINE f == [of |-> i, dev |-> d]
  <2>2. f \in Frames /\ f.of = i
    <3>1. i \in Nat
      BY DEF CallsInv, CompTypes
    <3> QED
      BY <3>1 DEF Frames
  <2> HIDE DEF f
  <2>3. Len(u) = Len(t) + 1 /\ u[Len(t) + 1] = f /\ Len(t) # 0
    BY <1>1, <2>1, <2>2, AppendProperties DEF f, Follows
  <2> HIDE DEF u
  <2>4. \A k \in 1..Len(e) : e[k] = u[Len(u) - k + 1].of
    <3> SUFFICES ASSUME NEW k \in 1..Len(e) PROVE e[k] = u[Len(u) - k + 1].of
      OBVIOUS
    <3>1. k = 1 /\ Len(u) - k + 1 = Len(t) + 1
      BY <1>1, <1>2, <2>3
    <3> QED
      BY <1>2, <2>2, <2>3, <3>1
  <2> QED
    BY <1>1, <1>2, <2>3, <2>4 DEF Matches
<1> QED
  BY <1>2, <1>3, <1>4 DEF Follows, e, u

\* Every failed computation: there is no last one for which it does not hold.
LEMMA FailuresFollow ==
  ASSUME CallsInv
  PROVE  \A i \in 1..Len(comps) : Failed(i) => Follows(i, Trace[i], Chain[i])
<1> DEFINE n == Len(comps)
           Bad == {i \in 1..n : Failed(i) /\ ~Follows(i, Trace[i], Chain[i])}
<1> SUFFICES ASSUME Bad # {} PROVE FALSE
  OBVIOUS
<1>1. n \in Nat /\ Bad \in SUBSET (0..n)
  BY DEF CallsInv, CompTypes
<1>2. PICK i \in Bad : \A k \in Bad : k <= i
  <2> HIDE DEF Bad
  <2> QED
    BY <1>1, Greatest
<1>3. i \in 1..n /\ Failed(i) /\ ~Follows(i, Trace[i], Chain[i])
  OBVIOUS
<1>4. /\ CompTyped(i) /\ CauseRight(i)
      /\ Trace[i] = TraceStep(Trace, i) /\ Chain[i] = ChainStep(Chain, i)
  BY <1>3, TraceExists, ChainExists DEF CallsInv, CompTypes, CausesRight
<1>5. comps[i].cause # 0
  BY <1>3, <1>4 DEF CauseRight, Failed
<1> DEFINE j == Last(comps[i].children)
<1>6. comps[i].children # <<>> => j \in (i + 1)..n
  BY <1>3, ChildrenInRange DEF CallsInv, Last
<1>7. comps[i].cause # i =>
        comps[i].cause = j /\ comps[i].children # <<>> /\ Failed(j)
  BY <1>4, <1>5 DEF CauseRight, Last
<1>8. CASE ~Descends(i)
  <2>1. comps[i].cause = i
    BY <1>7, <1>8 DEF Descends
  <2>2. Trace[i] = <<[of |-> i, dev |-> comps[i].dev]>> /\ Chain[i] = <<i>>
    BY <1>4, <1>8, <2>1 DEF TraceStep, ChainStep
  <2> QED
    BY <1>3, <2>2, FollowsHere
<1>9. CASE Descends(i)
  <2>1. j \in (i + 1)..n /\ Failed(j)
    BY <1>6, <1>9 DEF Descends
  <2>2. j \in 1..n /\ j > i
    BY <1>1, <1>3, <2>1
  <2>3. Follows(j, Trace[j], Chain[j])
    <3>1. j \notin Bad
      BY <1>1, <1>2, <2>2
    <3> QED
      BY <2>1, <2>2, <3>1
  <2>4. Trace[i] = Propagated(i, Trace[j])
    BY <1>4, <1>9 DEF TraceStep
  <2>5. CASE comps[i].cause = i
    <3>1. Chain[i] = <<i>> /\ comps[i].who # "vyper"
      BY <1>4, <1>9, <2>5 DEF ChainStep, Descends
    <3> HIDE DEF j
    <3> QED
      BY <1>3, <2>1, <2>3, <2>4, <3>1, FollowsIgnored
  <2>6. CASE comps[i].cause # i
    <3>1. Chain[i] = <<i>> \o Chain[j]
      BY <1>4, <1>5, <1>7, <2>6 DEF ChainStep
    <3> HIDE DEF j
    <3> QED
      BY <1>3, <2>1, <2>3, <2>4, <3>1, FollowsChild
  <2> QED
    BY <2>5, <2>6
<1> QED
  BY <1>8, <1>9

\* What the invariant says is enough for the trace of the user's call.
LEMMA CallsInvGivesTrace == CallsInv => TraceFollowsCauses
<1> SUFFICES ASSUME CallsInv, Failed(1)
             PROVE  LET frames == [k \in DOMAIN StackTrace |-> StackTrace[k].of]
                        given == {k \in DOMAIN Causes : comps[Causes[k]].dev # 0}
                    IN IF StackTrace = Crash
                       THEN \E i, j \in DOMAIN comps : i < j /\ IsText(i) /\ comps[j].dev # 0
                       ELSE /\ IsPrefix(Causes, Reverse(frames))
                            /\ comps[Last(Causes)].who = "vyper" => Len(frames) = Len(Causes)
                            /\ (\A k \in DOMAIN Causes : ~IsText(Causes[k])) /\ Len(frames) = Len(Causes) =>
                                 Last(StackTrace).dev = (IF given = {} THEN 0 ELSE comps[Causes[Min(given)]].dev)
  BY DEF TraceFollowsCauses
<1> DEFINE t == StackTrace
           c == Causes
           frames == [k \in DOMAIN t |-> t[k].of]
           given == {k \in DOMAIN c : comps[c[k]].dev # 0}
<1>1. Len(comps) \in Nat /\ DOMAIN comps = 1..Len(comps) /\ 1 \in 1..Len(comps)
  BY DEF CallsInv, CompTypes
<1>2. Follows(1, t, c)
  BY <1>1, FailuresFollow, StackTraceIs, CausesIs
<1> HIDE DEF t, c
<1>3. CASE t = Crash
  <2>1. \E i, j \in DOMAIN comps : i < j /\ IsText(i) /\ comps[j].dev # 0
    BY <1>1, <1>2, <1>3 DEF Follows, Crashed, Crash
  <2> QED
    BY <1>3, <2>1 DEF t
<1>4. CASE t # Crash
  <2>1. /\ t \in Seq(Frames) /\ c \in Seq(1..Len(comps)) /\ Matches(t, c)
        /\ Len(t) \in Nat \ {0} /\ Len(c) \in Nat \ {0} /\ DOMAIN t = 1..Len(t) /\ DOMAIN c = 1..Len(c)
    BY <1>2, <1>4 DEF Follows, Crash
  <2>2. frames \in Seq(Nat) /\ Len(frames) = Len(t) /\ \A k \in 1..Len(t) : frames[k] = t[k].of
    <3>1. \A k \in 1..Len(t) : t[k] \in Frames
      BY <2>1
    <3>2. \A k \in 1..Len(t) : t[k].of \in Nat
      BY <3>1 DEF Frames
    <3>3. frames = [k \in 1..Len(t) |-> t[k].of]
      BY <2>1
    <3>4. frames \in [1..Len(t) -> Nat]
      BY <3>2, <3>3
    <3> HIDE DEF frames
    <3>5. Len(t) \in Nat /\ \A k \in 1..Len(t) : frames[k] = t[k].of
      BY <2>1, <3>3
    <3>6. frames \in Seq(Nat) /\ Len(frames) = Len(t)
      BY <3>4, <3>5, FunctionsAreSeqs
    <3> QED
      BY <3>5, <3>6
  <2> HIDE DEF frames
  <2>3. IsPrefix(c, Reverse(frames))
    <3> DEFINE r == Reverse(frames)
    <3>a. r = [k \in 1..Len(frames) |-> frames[(Len(frames) - k) + 1]]
      BY DEF Reverse
    <3> HIDE DEF r
    <3>1. r = [k \in 1..Len(t) |-> frames[(Len(t) - k) + 1]]
      BY <2>2, <3>a
    <3>2. \A k \in 1..Len(t) : (Len(t) - k) + 1 \in 1..Len(t)
      BY <2>1
    <3>3. r \in [1..Len(t) -> Nat]
      <4>1. \A k \in 1..Len(t) : frames[k] \in Nat
        BY <2>1, <2>2 DEF Frames
      <4> QED
        BY <3>1, <3>2, <4>1
    <3>4. r \in Seq(Nat) /\ Len(r) = Len(t)
      BY <2>1, <3>3, FunctionsAreSeqs
    <3>5. \A k \in 1..Len(c) : k \in 1..Len(t) /\ c[k] = r[k]
      <4> SUFFICES ASSUME NEW k \in 1..Len(c) PROVE k \in 1..Len(t) /\ c[k] = r[k]
        OBVIOUS
      <4>0. Len(c) <= Len(t) /\ \A m \in 1..Len(c) : c[m] = t[Len(t) - m + 1].of
        BY <2>1 DEF Matches
      <4>1. k \in 1..Len(t) /\ c[k] = t[Len(t) - k + 1].of
        BY <2>1, <4>0
      <4>2. r[k] = frames[(Len(t) - k) + 1]
        BY <3>1, <4>1
      <4>3. frames[(Len(t) - k) + 1] = t[(Len(t) - k) + 1].of
        BY <2>2, <3>2, <4>1
      <4> QED
        BY <4>1, <4>2, <4>3
    <3>6. Len(c) <= Len(r) /\ c \in Seq(Nat)
      <4>1. Seq(1..Len(comps)) \subseteq Seq(Nat)
        BY <1>1, SeqMonotonic
      <4> QED
        BY <2>1, <3>4, <4>1 DEF Matches
    <3> HIDE DEF r
    <3>7. SubSeq(c, 1, Len(c)) = SubSeq(r, 1, Len(c))
      <4>1. /\ SubSeq(c, 1, Len(c)) \in Seq(Nat) /\ SubSeq(r, 1, Len(c)) \in Seq(Nat)
            /\ Len(SubSeq(c, 1, Len(c))) = Len(c) /\ Len(SubSeq(r, 1, Len(c))) = Len(c)
            /\ \A k \in 1..Len(c) : SubSeq(c, 1, Len(c))[k] = c[k] /\ SubSeq(r, 1, Len(c))[k] = r[k]
        BY <2>1, <3>4, <3>6
      <4> QED
        BY <3>5, <4>1, SeqEqual
    <3> QED
      BY <3>6, <3>7 DEF IsPrefix, r
  <2>4. comps[Last(c)].who = "vyper" => Len(frames) = Len(c)
    BY <2>1, <2>2 DEF Matches, Last
  <2>5. ASSUME \A k \in DOMAIN c : ~IsText(c[k]), Len(frames) = Len(c)
        PROVE  Last(t).dev = (IF given = {} THEN 0 ELSE comps[c[Min(given)]].dev)
    <3>1. FirstReason(c, Last(t).dev)
      BY <2>1, <2>2, <2>5 DEF Matches, Last
    <3>2. CASE Last(t).dev = 0 /\ \A k \in 1..Len(c) : comps[c[k]].dev = 0
      BY <2>1, <3>2
    <3>3. ASSUME NEW k \in 1..Len(c), comps[c[k]].dev # 0, Last(t).dev = comps[c[k]].dev,
                 \A j \in 1..(k - 1) : comps[c[j]].dev = 0
          PROVE  Last(t).dev = (IF given = {} THEN 0 ELSE comps[c[Min(given)]].dev)
      <4>1. k \in given /\ given \in SUBSET (1..Len(c))
        BY <2>1, <3>3
      <4>2. \A m \in given : k <= m
        <5> SUFFICES ASSUME NEW m \in given, ~(k <= m) PROVE FALSE
          OBVIOUS
        <5>1. m \in 1..(k - 1) /\ comps[c[m]].dev # 0
          BY <2>1
        <5> QED
          BY <3>3, <5>1
      <4> HIDE DEF given
      <4>3. Min(given) \in given /\ \A m \in given : Min(given) <= m
        BY <4>1, <4>2 DEF Min
      <4>4. Min(given) = k
        <5> DEFINE m == Min(given)
        <5>a. m \in given /\ m <= k /\ k <= m
          BY <4>1, <4>2, <4>3
        <5> HIDE DEF m
        <5>b. m \in 1..Len(c)
          BY <4>1, <5>a
        <5>1. Min(given) <= k /\ k <= Min(given) /\ k \in Int /\ Min(given) \in Int
          BY <2>1, <5>a, <5>b DEF m
        <5> QED
          BY <5>1
      <4> QED
        BY <3>3, <4>1, <4>4
    <3> QED
      BY <3>1, <3>2, <3>3 DEF FirstReason
  <2> QED
    BY <1>4, <2>3, <2>4, <2>5 DEF t, c, frames
<1> QED
  BY <1>3, <1>4

\* The stack trace of a failed call names the computations that made it fail, and
\* carries the outermost dev reason given on that way.
THEOREM TracesFollowCauses == CallsSpec => []TraceFollowsCauses
<1> QED
  BY CallsInvHolds, CallsInvGivesTrace, PTL


(***************************************************************************)
(* Sums                                                                    *)
(***************************************************************************)

\* SumOver is the value of this function at the whole domain.
SumStep(f, g, s) ==
  IF s = {} THEN 0 ELSE LET x == CHOOSE x \in s : TRUE IN f[x] + g[s \ {x}]
Sums(f) == CHOOSE g : g = [s \in SUBSET (DOMAIN f) |-> SumStep(f, g, s)]

\* The sum over a function is the value of that function.
LEMMA SumOverIs == ASSUME NEW f PROVE SumOver(f) = Sums(f)[DOMAIN f]
BY DEF SumOver, FoldFunction, FoldFunctionOnSet, MapThenFoldSet, Sums, SumStep

\* A set of subsets of a finite set has a member that is not one again without
\* some element.
LEMMA Minimal ==
  ASSUME NEW S, IsFiniteSet(S), NEW X \in SUBSET (SUBSET S), X # {}
  PROVE  \E s \in X : \A x \in s : s \ {x} \notin X
<1>1. \A s \in SUBSET S : IsFiniteSet(s) /\ Cardinality(s) \in Nat
  BY FS_Subset, FS_CardinalityType
<1> DEFINE T == {Cardinality(s) : s \in X}
<1>2. T \in SUBSET Nat /\ T # {}
  <2>1. \A s \in X : Cardinality(s) \in Nat
    BY <1>1
  <2> QED
    BY <2>1
<1>3. PICK n \in T : \A k \in T : ~(<<k, n>> \in OpToRel(<, Nat))
  <2> HIDE DEF T
  <2> QED
    BY <1>2, WFMin, NatLessThanWellFounded
<1>4. PICK s \in X : n = Cardinality(s)
  OBVIOUS
<1>5. ASSUME NEW x \in s PROVE s \ {x} \notin X
  <2>1. IsFiniteSet(s) /\ Cardinality(s) \in Nat
    BY <1>1
  <2>2. Cardinality(s \ {x}) = Cardinality(s) - 1 /\ Cardinality(s \ {x}) \in Nat
    BY <2>1, <1>1, FS_RemoveElement
  <2>3. s \ {x} \in X => <<Cardinality(s \ {x}), n>> \in OpToRel(<, Nat)
    BY <1>4, <2>1, <2>2 DEF OpToRel
  <2>4. s \ {x} \in X => Cardinality(s \ {x}) \in T
    OBVIOUS
  <2> QED
    BY <1>3, <2>3, <2>4
<1> QED
  BY <1>5

\* Numbers over a finite set, and what adds them up over its subsets, in whatever order.
Summable(f) == IsFiniteSet(DOMAIN f) /\ f \in [DOMAIN f -> Int]
AddsUp(g, f, S) ==
  /\ g \in [SUBSET S -> Int] /\ g[{}] = 0
  /\ \A s \in SUBSET S : \A x \in s : g[s] = f[x] + g[s \ {x}]

\* It is defined, on every subset of the domain.
LEMMA SumsExist ==
  ASSUME NEW f, Summable(f)
  PROVE  /\ Sums(f) \in [SUBSET (DOMAIN f) -> Int]
         /\ \A s \in SUBSET (DOMAIN f) : Sums(f)[s] = SumStep(f, Sums(f), s)
<1> DEFINE D == DOMAIN f
           S == SUBSET D
           n == Cardinality(D)
           m == [s \in S |-> Cardinality(s)]
           comb == [z \in S \X UNION {[T -> Int] : T \in SUBSET S} |-> SumStep(f, z[2], z[1])]
<1>1. IsFiniteSet(D) /\ n \in Nat /\ f \in [D -> Int]
  BY FS_CardinalityType DEF Summable
<1>2. \A s \in S : IsFiniteSet(s) /\ Cardinality(s) \in 0..n
  BY <1>1, FS_Subset, FS_CardinalityType
<1>3. m \in [S -> 0..n]
  BY <1>2
<1>4. ASSUME NEW s \in S, NEW x \in s PROVE s \ {x} \in Below(S, m, s)
  <2>1. Cardinality(s \ {x}) = Cardinality(s) - 1 /\ Cardinality(s) \in Nat /\ s \ {x} \in S
    BY <1>2, FS_RemoveElement
  <2> QED
    BY <2>1 DEF Below
<1>5. ASSUME NEW s \in S, NEW h \in [Below(S, m, s) -> Int]
      PROVE  comb[<<s, h>>] = SumStep(f, h, s) /\ SumStep(f, h, s) \in Int
  <2>1. Below(S, m, s) \in SUBSET S
    BY DEF Below
  <2>2. comb[<<s, h>>] = SumStep(f, h, s)
    <3> HIDE DEF S, m
    <3>1. h \in UNION {[T -> Int] : T \in SUBSET S}
      BY <2>1
    <3> QED
      BY <3>1
  <2>3. SumStep(f, h, s) \in Int
    <3>1. CASE s = {}
      BY <3>1 DEF SumStep
    <3>2. CASE s # {}
      <4> DEFINE x == CHOOSE x \in s : TRUE
      <4>1. x \in s
        BY <3>2
      <4> HIDE DEF x
      <4>2. s \ {x} \in Below(S, m, s)
        BY <1>4, <4>1
      <4>3. f[x] \in Int /\ h[s \ {x}] \in Int
        BY <1>1, <4>1, <4>2
      <4> QED
        BY <3>2, <4>3 DEF SumStep, x
    <3> QED
      BY <3>1, <3>2
  <2> QED
    BY <2>2, <2>3
<1>6. Builds(S, Int, n, m, comb)
  <2> HIDE DEF comb, m
  <2> QED
    BY <1>1, <1>3, <1>5 DEF Builds
<1>7. PICK g \in [S -> Int] : Solves(g, S, m, comb)
  <2> HIDE DEF S, n, m, comb
  <2> QED
    BY <1>6, RecursionExists
<1>8. ASSUME NEW s \in S PROVE g[s] = SumStep(f, g, s)
  <2> DEFINE h == [t \in Below(S, m, s) |-> g[t]]
  <2>1. \A t \in Below(S, m, s) : t \in S
    BY DEF Below
  <2>2. h \in [Below(S, m, s) -> Int]
    BY <2>1
  <2>3. g[s] = SumStep(f, h, s)
    <3> HIDE DEF comb, m, h
    <3> QED
      BY <1>5, <1>7, <2>2 DEF Solves, h
  <2>4. SumStep(f, h, s) = SumStep(f, g, s)
    <3>1. CASE s = {}
      BY <3>1 DEF SumStep
    <3>2. CASE s # {}
      <4> DEFINE x == CHOOSE x \in s : TRUE
      <4>1. x \in s
        BY <3>2
      <4> HIDE DEF x
      <4>2. h[s \ {x}] = g[s \ {x}]
        BY <1>4, <4>1
      <4> QED
        BY <3>2, <4>2 DEF SumStep, x
    <3> QED
      BY <3>1, <3>2
  <2> QED
    BY <2>3, <2>4
<1>9. g = [s \in SUBSET (DOMAIN f) |-> SumStep(f, g, s)]
  BY <1>8
<1>10. Sums(f) = [s \in SUBSET (DOMAIN f) |-> SumStep(f, Sums(f), s)]
  BY <1>9 DEF Sums
<1> DEFINE F == Sums(f)
<1>11. \A s \in S : F[s] = SumStep(f, F, s)
  BY <1>10
<1> HIDE DEF F
<1>12. F \in [S -> Int]
  <2> DEFINE Bad == {s \in S : F[s] \notin Int}
  <2>1. ASSUME Bad # {} PROVE FALSE
    <3>1. PICK s \in Bad : \A x \in s : s \ {x} \notin Bad
      <4>1. Bad \in SUBSET (SUBSET D)
        OBVIOUS
      <4> HIDE DEF Bad, D
      <4> QED
        BY <1>1, <2>1, <4>1, Minimal
    <3>2. CASE s = {}
      <4>1. s \in S /\ F[s] \notin Int
        OBVIOUS
      <4>2. F[s] = 0
        BY <1>11, <3>2, <4>1 DEF SumStep
      <4> QED
        BY <4>1, <4>2
    <3>3. CASE s # {}
      <4> DEFINE x == CHOOSE x \in s : TRUE
      <4>1. x \in s
        BY <3>3
      <4> HIDE DEF x
      <4>2. F[s] = f[x] + F[s \ {x}]
        BY <1>11, <3>3 DEF SumStep, x
      <4>3. s \ {x} \in S /\ s \ {x} \notin Bad
        BY <3>1, <4>1
      <4>4. f[x] \in Int /\ F[s \ {x}] \in Int
        BY <1>1, <4>1, <4>3
      <4> QED
        BY <4>2, <4>4
    <3> QED
      BY <3>2, <3>3
  <2>2. F = [s \in S |-> F[s]]
    BY <1>10 DEF F
  <2> QED
    BY <2>1, <2>2
<1> QED
  BY <1>11, <1>12 DEF F

\* It adds up each subset, whichever element is taken first.
LEMMA SumsAddUp ==
  ASSUME NEW f, Summable(f)
  PROVE  AddsUp(Sums(f), f, DOMAIN f)
<1> DEFINE F == Sums(f)
           S == SUBSET (DOMAIN f)
           Bad == {s \in S : \E x \in s : F[s] # f[x] + F[s \ {x}]}
<1>1. F \in [S -> Int] /\ \A s \in S : F[s] = SumStep(f, F, s)
  BY SumsExist
<1>2. f \in [DOMAIN f -> Int] /\ IsFiniteSet(DOMAIN f)
  BY DEF Summable
<1> HIDE DEF F
<1>3. F[{}] = 0
  BY <1>1 DEF SumStep
<1>4. ASSUME Bad # {} PROVE FALSE
  <2>1. PICK s \in Bad : \A x \in s : s \ {x} \notin Bad
    BY <1>2, <1>4, Minimal
  <2>2. PICK x \in s : F[s] # f[x] + F[s \ {x}]
    OBVIOUS
  <2> DEFINE y == CHOOSE y \in s : TRUE
  <2>3. y \in s /\ F[s] = f[y] + F[s \ {y}]
    BY <1>1, <2>2 DEF SumStep
  <2> HIDE DEF y
  <2>4. x # y
    BY <2>2, <2>3
  <2>5. /\ s \ {x} \notin Bad /\ s \ {y} \notin Bad /\ s \ {x} \in S /\ s \ {y} \in S
        /\ y \in s \ {x} /\ x \in s \ {y}
    BY <2>1, <2>3, <2>4
  <2>6. F[s \ {x}] = f[y] + F[(s \ {x}) \ {y}] /\ F[s \ {y}] = f[x] + F[(s \ {y}) \ {x}]
    BY <2>5
  <2>7. (s \ {x}) \ {y} = (s \ {y}) \ {x} /\ (s \ {x}) \ {y} \in S
    BY <2>5
  <2>8. f[x] \in Int /\ f[y] \in Int /\ F[(s \ {x}) \ {y}] \in Int
    BY <1>1, <1>2, <2>3, <2>7
  <2> DEFINE r == F[(s \ {x}) \ {y}]
  <2>9. F[s] = f[y] + (f[x] + r) /\ f[x] + F[s \ {x}] = f[x] + (f[y] + r)
    BY <2>3, <2>6, <2>7
  <2>10. f[x] \in Int /\ f[y] \in Int /\ r \in Int
    BY <2>8
  <2> HIDE DEF r
  <2> QED
    BY <2>2, <2>9, <2>10
<1> QED
  BY <1>1, <1>3, <1>4 DEF AddsUp, F

\* A sum does not depend on how it is added up.
LEMMA SumIs ==
  ASSUME NEW f, Summable(f), NEW S, DOMAIN f \subseteq S, NEW e, NEW g, AddsUp(g, e, S),
         \A x \in DOMAIN f : f[x] = e[x]
  PROVE  SumOver(f) = g[DOMAIN f]
<1> DEFINE F == Sums(f)
           D == DOMAIN f
           Bad == {s \in SUBSET D : F[s] # g[s]}
<1>1. AddsUp(F, f, D)
  BY SumsAddUp
<1> HIDE DEF F
<1>2. ASSUME Bad # {} PROVE FALSE
  <2>1. PICK s \in Bad : \A x \in s : s \ {x} \notin Bad
    BY <1>2, Minimal DEF Summable
  <2>2. CASE s = {}
    BY <1>1, <2>1, <2>2 DEF AddsUp
  <2>3. ASSUME NEW x \in s PROVE FALSE
    <3>1. F[s \ {x}] = g[s \ {x}]
      BY <2>1
    <3>2. F[s] = f[x] + F[s \ {x}] /\ g[s] = e[x] + g[s \ {x}]
      BY <1>1 DEF AddsUp
    <3> QED
      BY <2>1, <3>1, <3>2
  <2> QED
    BY <2>2, <2>3
<1>3. F[D] = g[D]
  BY <1>2
<1> QED
  BY <1>3, SumOverIs DEF F

\* The part of f on S.
PartOf(f, S) == [x \in S |-> f[x]]

\* A part of a sum is the value at its domain.
LEMMA PartSummable ==
  ASSUME NEW f, Summable(f), NEW S \in SUBSET (DOMAIN f)
  PROVE  Summable(PartOf(f, S)) /\ DOMAIN PartOf(f, S) = S /\ SumOver(PartOf(f, S)) = Sums(f)[S]
<1>1. PartOf(f, S) \in [S -> Int] /\ DOMAIN PartOf(f, S) = S
  BY DEF PartOf, Summable
<1>2. IsFiniteSet(S)
  BY FS_Subset DEF Summable
<1>3. Summable(PartOf(f, S))
  BY <1>1, <1>2 DEF Summable
<1>4. AddsUp(Sums(f), f, DOMAIN f)
  BY SumsAddUp
<1>5. \A x \in S : PartOf(f, S)[x] = f[x]
  BY DEF PartOf
<1> HIDE DEF PartOf
<1>6. SumOver(PartOf(f, S)) = Sums(f)[DOMAIN PartOf(f, S)]
  BY <1>1, <1>3, <1>4, <1>5, SumIs
<1> QED
  BY <1>1, <1>3, <1>6

\* A sum is an integer, and 0 if there is nothing to add.
LEMMA SumAll ==
  ASSUME NEW f, Summable(f)
  PROVE  SumOver(f) = Sums(f)[DOMAIN f] /\ SumOver(f) \in Int /\ (DOMAIN f = {} => SumOver(f) = 0)
<1>1. SumOver(f) = Sums(f)[DOMAIN f]
  BY SumOverIs
<1>2. AddsUp(Sums(f), f, DOMAIN f)
  BY SumsAddUp
<1> QED
  BY <1>1, <1>2 DEF AddsUp

\* One more number.
LEMMA SumInsert ==
  ASSUME NEW f, Summable(f), NEW x \in DOMAIN f, NEW e, Summable(e), DOMAIN e = DOMAIN f \ {x},
         \A y \in DOMAIN e : e[y] = f[y]
  PROVE  SumOver(f) = SumOver(e) + f[x]
<1>1. AddsUp(Sums(f), f, DOMAIN f)
  BY SumsAddUp
<1>2. SumOver(f) = Sums(f)[DOMAIN f] /\ SumOver(f) \in Int
  BY SumAll
<1>3. DOMAIN e \subseteq DOMAIN f
  OBVIOUS
<1>4. SumOver(e) = Sums(f)[DOMAIN e]
  BY <1>1, <1>3, SumIs
<1>5. Sums(f)[DOMAIN f] = f[x] + Sums(f)[DOMAIN f \ {x}]
  BY <1>1 DEF AddsUp
<1>6. f[x] \in Int /\ SumOver(e) \in Int
  BY SumAll DEF Summable
<1> QED
  BY <1>2, <1>4, <1>5, <1>6

\* Two parts.
LEMMA SumUnion ==
  ASSUME NEW f, Summable(f), NEW A, NEW B, DOMAIN f = A \union B, A \cap B = {}
  PROVE  SumOver(f) = SumOver(PartOf(f, A)) + SumOver(PartOf(f, B))
<1> DEFINE F == Sums(f)
           Bad == {s \in SUBSET B : F[A \union s] # F[A] + F[s]}
<1>1. AddsUp(F, f, A \union B)
  BY SumsAddUp
<1>2. IsFiniteSet(B) /\ f \in [A \union B -> Int]
  BY FS_Subset DEF Summable
<1> HIDE DEF F
<1>3. ASSUME Bad # {} PROVE FALSE
  <2>1. PICK s \in Bad : \A x \in s : s \ {x} \notin Bad
    <3>1. Bad \in SUBSET (SUBSET B)
      OBVIOUS
    <3> HIDE DEF Bad
    <3> QED
      BY <1>2, <1>3, <3>1, Minimal
  <2>2. CASE s = {}
    <3>1. A \union s = A /\ F[s] = 0 /\ F[A] \in Int
      BY <1>1, <2>2 DEF AddsUp
    <3>2. F[A \union s] # F[A] + F[s]
      OBVIOUS
    <3>3. F[A] + 0 = F[A]
      BY <3>1
    <3> QED
      BY <3>1, <3>2, <3>3
  <2>3. ASSUME NEW x \in s PROVE FALSE
    <3>1. s \ {x} \in SUBSET B /\ s \in SUBSET B /\ F[A \union s] # F[A] + F[s]
      OBVIOUS
    <3>2. F[A \union (s \ {x})] = F[A] + F[s \ {x}]
      BY <2>1, <3>1
    <3>3. F[s] = f[x] + F[s \ {x}]
      BY <1>1, <3>1 DEF AddsUp
    <3>4. F[A \union s] = f[x] + F[(A \union s) \ {x}] /\ (A \union s) \ {x} = A \union (s \ {x})
      BY <1>1, <3>1 DEF AddsUp
    <3>5. f[x] \in Int /\ F[A] \in Int /\ F[s \ {x}] \in Int
      BY <1>1, <1>2, <3>1 DEF AddsUp
    <3> DEFINE a == F[A]
               b == F[s \ {x}]
    <3>6. F[A \union s] = f[x] + (a + b) /\ F[A] + F[s] = a + (f[x] + b)
      BY <3>2, <3>3, <3>4
    <3>7. a \in Int /\ b \in Int /\ f[x] \in Int
      BY <3>5
    <3> HIDE DEF a, b
    <3> QED
      BY <3>1, <3>6, <3>7
  <2> QED
    BY <2>2, <2>3
<1>4. F[A \union B] = F[A] + F[B]
  BY <1>3
<1>5. SumOver(f) = F[A \union B]
  BY SumAll DEF F
<1>6. SumOver(PartOf(f, A)) = F[A] /\ SumOver(PartOf(f, B)) = F[B]
  BY PartSummable DEF F
<1> QED
  BY <1>4, <1>5, <1>6

\* Differences.
LEMMA SumMinus ==
  ASSUME NEW f, Summable(f), NEW e, Summable(e), DOMAIN e = DOMAIN f,
         NEW d, d = [x \in DOMAIN f |-> f[x] - e[x]]
  PROVE  Summable(d) /\ SumOver(d) = SumOver(f) - SumOver(e)
<1> DEFINE D == DOMAIN f
           F == Sums(f)
           E == Sums(e)
           G == Sums(d)
           Bad == {s \in SUBSET D : G[s] # F[s] - E[s]}
<1>1. IsFiniteSet(D) /\ f \in [D -> Int] /\ e \in [D -> Int]
  BY DEF Summable
<1>2. d \in [D -> Int] /\ \A x \in D : d[x] = f[x] - e[x]
  BY <1>1
<1>3. Summable(d) /\ DOMAIN d = D
  BY <1>1, <1>2 DEF Summable
<1>4. AddsUp(F, f, D) /\ AddsUp(E, e, D) /\ AddsUp(G, d, D)
  BY <1>3, SumsAddUp
<1> HIDE DEF F, E, G
<1>5. ASSUME Bad # {} PROVE FALSE
  <2>1. PICK s \in Bad : \A x \in s : s \ {x} \notin Bad
    <3>1. Bad \in SUBSET (SUBSET D)
      OBVIOUS
    <3> HIDE DEF Bad, D
    <3> QED
      BY <1>1, <1>5, <3>1, Minimal
  <2>2. CASE s = {}
    BY <1>4, <2>2 DEF AddsUp
  <2>3. ASSUME NEW x \in s PROVE FALSE
    <3>1. s \ {x} \in SUBSET D /\ s \in SUBSET D /\ x \in D /\ G[s] # F[s] - E[s]
      OBVIOUS
    <3> DEFINE t == s \ {x}
    <3>2. G[t] = F[t] - E[t]
      BY <2>1, <3>1
    <3>3. F[s] = f[x] + F[t] /\ E[s] = e[x] + E[t] /\ G[s] = d[x] + G[t] /\ d[x] = f[x] - e[x]
      BY <1>2, <1>4, <3>1 DEF AddsUp
    <3>4. f[x] \in Int /\ e[x] \in Int /\ F[t] \in Int /\ E[t] \in Int
      BY <1>1, <1>4, <3>1 DEF AddsUp
    <3> HIDE DEF t
    <3> QED
      BY <3>1, <3>2, <3>3, <3>4
  <2> QED
    BY <2>2, <2>3
<1>6. G[D] = F[D] - E[D]
  BY <1>5
<1>7. SumOver(f) = F[D] /\ SumOver(e) = E[D] /\ SumOver(d) = G[D]
  BY <1>3, SumAll DEF F, E, G
<1> QED
  BY <1>3, <1>6, <1>7

(***************************************************************************)
(* The meter                                                               *)
(***************************************************************************)

\* What is booked under an opcode, and what its executions cost: the last one of a
\* computation that ran out of gas is not booked.
At(d, p) == IF p \in DOMAIN d THEN d[p] ELSE 0
Booked(c, p) == At(c.used, p)
Times(c, p) == {n \in DOMAIN c.trace : c.trace[n] = p /\ ~(c.end = "burn" /\ n = Len(c.trace))}
Paid(c, p) == SumOver([n \in Times(c, p) |-> CostOf(p)])

\* The gas under a CALL that went to other computations.
Passed(c) == Booked(c, 1) - Paid(c, 1)

Ran(c, p) == \E n \in DOMAIN c.trace : c.trace[n] = p

\* A computation's own record: what is booked is what its opcodes cost, except under
\* CALL; a refund is of opcode 3; the children are noted under opcode 2, which is
\* booked unless the computation is still there or ran out of gas there.
Own(c) ==
  /\ c.trace \in Seq(0..4) /\ (c.end = "open" => c.pc \in 0..4) /\ c.gas \in Int /\ c.left \in Int
  /\ c.used \in [DOMAIN c.used -> Int] /\ DOMAIN c.used \subseteq 0..3
  /\ \A p \in DOMAIN c.used : Ran(c, p)
  /\ c.refunded \in [DOMAIN c.refunded -> Int] /\ DOMAIN c.refunded \subseteq {3}
  /\ DOMAIN c.refunded # {} => Ran(c, 3)
  /\ c.childPcs \in Seq({2}) /\ Len(c.childPcs) = Len(c.children)
  /\ c.children # <<>> \/ (c.end = "open" /\ c.pc = 2) => Ran(c, 1)
  /\ c.children # <<>> /\ 2 \notin DOMAIN c.used =>
       IF c.end = "open" THEN c.pc = 2
       ELSE c.end = "burn" /\ c.trace # <<>> /\ c.trace[Len(c.trace)] = 2
  /\ \A p \in {0, 2, 3} : Booked(c, p) = Paid(c, p)

\* What went to other computations is what the children used, and what the running one got.
Spent(i) == [k \in 1..Len(comps[i].children) |-> GasUsed(comps[i].children[k])]
Runs(j, i) == comps[j].end = "open" /\ comps[j].parent = i
Passes(i) ==
  /\ \A j \in 1..Len(comps) : Runs(j, i) => Passed(comps[i]) = SumOver(Spent(i)) + comps[j].gas
  /\ (\A j \in 1..Len(comps) : ~Runs(j, i)) => Passed(comps[i]) = SumOver(Spent(i))

GasRight == \A i \in 1..Len(comps) : Own(comps[i]) /\ Passes(i)

(***************************************************************************)
(* The tree of the computations                                            *)
(***************************************************************************)

\* They are numbered as they start, so that a computation's are in between.
Nested(i) ==
  /\ i # 1 => comps[i].parent # 0
  /\ \A j \in (comps[i].parent + 1)..(i - 1) : comps[j].parent >= comps[i].parent
  /\ i > open => comps[i].parent >= open

\* Every child that is over is listed, in that order, and one that is not is on the way
\* to the computation that executes.
Listed(i) ==
  LET c == comps[i].children
  IN /\ \A k \in 1..Len(c) : comps[c[k]].parent = i
     /\ \A k, m \in 1..Len(c) : k < m => c[k] < c[m]
     /\ \A j \in 1..Len(comps) : comps[j].parent = i /\ comps[j].end # "open" =>
          \E k \in 1..Len(c) : c[k] = j
     /\ comps[i].end = "open" /\ i # open => \E j \in 1..Len(comps) : Runs(j, i)

TreeRight == \A i \in 1..Len(comps) : Nested(i) /\ Listed(i)

\* What an opcode costs is a number.
LEMMA CostIs == \A p \in 0..4 : CostOf(p) \in Int
BY DEF CostOf, Cost

Numbers(d) == d \in [DOMAIN d -> Int]
Adds(e, d, q, n) == \A p : At(e, p) = At(d, p) + (IF p = q THEN n ELSE 0)

\* Booking something.
LEMMA AddIs ==
  ASSUME NEW d, Numbers(d), NEW q, NEW n, n \in Int
  PROVE  /\ DOMAIN Add(d, q, n) = DOMAIN d \union {q}
         /\ Add(d, q, n) \in [DOMAIN d \union {q} -> Int]
         /\ \A p : At(d, p) \in Int
         /\ Adds(Add(d, q, n), d, q, n)
<1> DEFINE e == Add(d, q, n)
<1>1. \A p : At(d, p) \in Int
  BY DEF At, Numbers
<1>2. e = [p \in DOMAIN d \union {q} |-> At(d, p) + (IF p = q THEN n ELSE 0)]
  BY DEF Add, At
<1> HIDE DEF e
<1>3. DOMAIN e = DOMAIN d \union {q} /\ \A p \in DOMAIN d \union {q} : e[p] = At(d, p) + (IF p = q THEN n ELSE 0)
  BY <1>2
<1>4. e \in [DOMAIN d \union {q} -> Int]
  BY <1>1, <1>2
<1>5. ASSUME NEW p PROVE At(e, p) = At(d, p) + (IF p = q THEN n ELSE 0)
  <2>1. CASE p \in DOMAIN d \union {q}
    BY <1>3, <2>1 DEF At
  <2>2. CASE p \notin DOMAIN d \union {q}
    BY <1>3, <2>2 DEF At
  <2> QED
    BY <2>1, <2>2
<1> QED
  BY <1>1, <1>3, <1>4, <1>5 DEF e, Adds

\* What the executions of an opcode cost is a sum.
LEMMA PaidSummable ==
  ASSUME NEW c, c.trace \in Seq(0..4), NEW p \in 0..4
  PROVE  Summable([n \in Times(c, p) |-> CostOf(p)]) /\ Paid(c, p) \in Int
<1> DEFINE f == [n \in Times(c, p) |-> CostOf(p)]
<1>1. Times(c, p) \in SUBSET (1..Len(c.trace))
  BY DEF Times
<1>2. IsFiniteSet(1..Len(c.trace))
  <2>1. Len(c.trace) \in Nat
    OBVIOUS
  <2> QED
    BY <2>1, FS_Interval
<1>3. IsFiniteSet(DOMAIN f)
  BY <1>1, <1>2, FS_Subset
<1>4. f \in [DOMAIN f -> Int]
  BY CostIs
<1>5. Summable(f)
  BY <1>3, <1>4 DEF Summable
<1> HIDE DEF f
<1> QED
  BY <1>5, SumAll DEF Paid, f

\* One more opcode in the trace.
LEMMA PaidMore ==
  ASSUME NEW c, c.trace \in Seq(0..4), c.end # "burn", NEW q \in 0..4,
         NEW d, d.trace = Append(c.trace, q), NEW p \in 0..4
  PROVE  Paid(d, p) = Paid(c, p) + (IF p = q /\ d.end # "burn" THEN CostOf(q) ELSE 0)
<1> DEFINE n == Len(c.trace)
           f == [k \in Times(c, p) |-> CostOf(p)]
           g == [k \in Times(d, p) |-> CostOf(p)]
<1>1. /\ n \in Nat /\ d.trace \in Seq(0..4) /\ Len(d.trace) = n + 1
      /\ \A k \in 1..n : d.trace[k] = c.trace[k]
      /\ d.trace[n + 1] = q
      /\ DOMAIN d.trace = 1..(n + 1) /\ DOMAIN c.trace = 1..n
  BY AppendProperties
<1>2. Summable(f) /\ Summable(g) /\ Paid(c, p) = SumOver(f) /\ Paid(d, p) = SumOver(g)
      /\ Paid(c, p) \in Int
  BY <1>1, PaidSummable DEF Paid
<1>3. Times(c, p) = {k \in 1..n : c.trace[k] = p}
  BY <1>1 DEF Times
<1>4. ASSUME NEW k PROVE k \in Times(d, p) <=> (k \in Times(c, p) \/ (k = n + 1 /\ p = q /\ d.end # "burn"))
  <2>1. k \in 1..(n + 1) => (k \in 1..n /\ k # n + 1) \/ k = n + 1
    BY <1>1
  <2>2. k \in 1..n => k \in 1..(n + 1) /\ k # n + 1
    BY <1>1
  <2>3. n + 1 \in 1..(n + 1)
    BY <1>1
  <2> QED
    BY <1>1, <1>3, <2>1, <2>2, <2>3 DEF Times
<1>5. DOMAIN f = Times(c, p) /\ DOMAIN g = Times(d, p) /\ n + 1 \notin Times(c, p)
  BY <1>1, <1>3
<1>6. CASE p = q /\ d.end # "burn"
  <2>1. n + 1 \in DOMAIN g /\ DOMAIN f = DOMAIN g \ {n + 1}
    BY <1>4, <1>5, <1>6
  <2>2. (\A k \in DOMAIN f : f[k] = g[k]) /\ g[n + 1] = CostOf(p)
    BY <1>5, <2>1
  <2> HIDE DEF f, g, n
  <2>3. SumOver(g) = SumOver(f) + g[n + 1]
    BY <1>2, <2>1, <2>2, SumInsert
  <2> QED
    BY <1>2, <1>6, <2>2, <2>3
<1>7. CASE ~(p = q /\ d.end # "burn")
  <2>1. Times(d, p) = Times(c, p)
    BY <1>4, <1>7
  <2>2. Paid(d, p) = Paid(c, p)
    BY <2>1 DEF Paid
  <2> QED
    BY <1>2, <1>7, <2>2
<1> QED
  BY <1>6, <1>7

\* What has run once has run.
LEMMA RanMore ==
  ASSUME NEW c, c.trace \in Seq(0..4), NEW q \in 0..4, NEW d, d.trace = Append(c.trace, q)
  PROVE  /\ Ran(d, q) /\ \A p : Ran(c, p) => Ran(d, p)
         /\ d.trace \in Seq(0..4) /\ d.trace # <<>> /\ d.trace[Len(d.trace)] = q
<1> DEFINE n == Len(c.trace)
<1>1. /\ n \in Nat /\ d.trace \in Seq(0..4) /\ Len(d.trace) = n + 1
      /\ \A k \in 1..n : d.trace[k] = c.trace[k]
      /\ d.trace[n + 1] = q
      /\ DOMAIN d.trace = 1..(n + 1) /\ DOMAIN c.trace = 1..n
  BY AppendProperties
<1> HIDE DEF n
<1>2. n + 1 \in 1..(n + 1) /\ \A k \in 1..n : k \in 1..(n + 1)
  BY <1>1
<1> QED
  BY <1>1, <1>2 DEF Ran

\* What is booked is a number.
LEMMA BookedIs ==
  ASSUME NEW c, Own(c), NEW p \in 0..4
  PROVE  Booked(c, p) \in Int /\ Paid(c, p) \in Int
<1>1. c.used \in [DOMAIN c.used -> Int] /\ c.trace \in Seq(0..4)
  BY DEF Own
<1>2. Booked(c, p) \in Int
  BY <1>1 DEF Booked, At
<1> QED
  BY <1>1, <1>2, PaidSummable

\* An opcode that is executed.
Executes(c, d, q, n) ==
  /\ q \in 0..3 /\ c.end = "open" /\ c.pc = q /\ n \in Int
  /\ d.trace = Append(c.trace, q) /\ d.used = Add(c.used, q, n) /\ d.gas = c.gas
  /\ d.left \in Int /\ d.childPcs = c.childPcs /\ d.children = c.children /\ d.end = "open"
  /\ d.pc \in 0..4 /\ (d.pc = 2 => q = 1) /\ (q # 1 => n = CostOf(q))
  /\ d.refunded \in [DOMAIN d.refunded -> Int] /\ DOMAIN d.refunded \subseteq {3}
  /\ DOMAIN d.refunded # {} => q = 3 \/ DOMAIN c.refunded # {}

\* An opcode that is executed and booked keeps the record of a computation right.
LEMMA OwnStep ==
  ASSUME NEW c, Own(c), NEW d, NEW q, NEW n, Executes(c, d, q, n)
  PROVE  /\ Own(d)
         /\ Passed(c) \in Int /\ Passed(d) = Passed(c) + (IF q = 1 THEN n - CostOf(1) ELSE 0)
<1>0. /\ q \in 0..3 /\ c.end = "open" /\ c.pc = q /\ n \in Int
      /\ d.trace = Append(c.trace, q) /\ d.used = Add(c.used, q, n) /\ d.gas = c.gas
      /\ d.left \in Int /\ d.childPcs = c.childPcs /\ d.children = c.children /\ d.end = "open"
      /\ d.pc \in 0..4 /\ (d.pc = 2 => q = 1) /\ (q # 1 => n = CostOf(q))
      /\ d.refunded \in [DOMAIN d.refunded -> Int] /\ DOMAIN d.refunded \subseteq {3}
      /\ DOMAIN d.refunded # {} => q = 3 \/ DOMAIN c.refunded # {}
  BY DEF Executes
<1>1. /\ c.trace \in Seq(0..4) /\ q \in 0..4 /\ q \in Int /\ c.end # "burn" /\ d.end # "burn"
      /\ c.used \in [DOMAIN c.used -> Int]
  BY <1>0 DEF Own
<1>2. /\ DOMAIN d.used = DOMAIN c.used \union {q} /\ d.used \in [DOMAIN d.used -> Int]
      /\ \A p : Booked(d, p) = Booked(c, p) + (IF p = q THEN n ELSE 0)
  <2> DEFINE u == c.used
             w == Add(u, q, n)
  <2>1. Numbers(u) /\ d.used = w
    BY <1>0, <1>1 DEF Numbers
  <2> HIDE DEF u
  <2>2. /\ DOMAIN w = DOMAIN u \union {q} /\ w \in [DOMAIN u \union {q} -> Int]
        /\ Adds(w, u, q, n)
    BY <1>0, <2>1, AddIs
  <2> HIDE DEF w
  <2>3. \A p : Booked(d, p) = At(w, p) /\ Booked(c, p) = At(u, p)
    BY <1>0, <2>1 DEF Booked, u
  <2> QED
    BY <1>0, <2>1, <2>2, <2>3 DEF u, Adds
<1>3. /\ Ran(d, q) /\ \A p : Ran(c, p) => Ran(d, p)
      /\ d.trace \in Seq(0..4)
  BY <1>0, <1>1, RanMore
<1>4. \A p \in 0..4 : Paid(d, p) = Paid(c, p) + (IF p = q THEN CostOf(q) ELSE 0)
  BY <1>0, <1>1, PaidMore
<1>5. \A p \in 0..4 : Booked(c, p) \in Int /\ Paid(c, p) \in Int /\ CostOf(p) \in Int
  BY <1>0, BookedIs, CostIs
<1>6. ASSUME NEW p \in {0, 2, 3} PROVE Booked(d, p) = Paid(d, p)
  <2>1. Booked(c, p) = Paid(c, p)
    BY <1>0 DEF Own
  <2>2. Booked(d, p) = Booked(c, p) + (IF p = q THEN n ELSE 0)
    BY <1>0, <1>2
  <2>3. Paid(d, p) = Paid(c, p) + (IF p = q THEN CostOf(q) ELSE 0)
    BY <1>0, <1>4
  <2> QED
    BY <1>0, <2>1, <2>2, <2>3
<1>7. Passed(c) \in Int /\ Passed(d) = Passed(c) + (IF q = 1 THEN n - CostOf(1) ELSE 0)
  <2>1. Booked(c, 1) \in Int /\ Paid(c, 1) \in Int /\ CostOf(1) \in Int
    BY <1>0, <1>5
  <2>2. Booked(d, 1) = Booked(c, 1) + (IF 1 = q THEN n ELSE 0)
    BY <1>0, <1>2
  <2>3. Paid(d, 1) = Paid(c, 1) + (IF 1 = q THEN CostOf(q) ELSE 0)
    BY <1>0, <1>4
  <2> DEFINE b == Booked(c, 1)
             a == Paid(c, 1)
             k == CostOf(1)
  <2>4. Passed(c) = b - a /\ Passed(d) = (b + (IF 1 = q THEN n ELSE 0)) - (a + (IF 1 = q THEN k ELSE 0))
    BY <1>0, <2>2, <2>3 DEF Passed
  <2>5. b \in Int /\ a \in Int /\ k \in Int
    BY <1>0, <2>1
  <2> HIDE DEF a, b, k
  <2>6. Passed(c) \in Int /\ Passed(d) = Passed(c) + (IF 1 = q THEN n - k ELSE 0)
    BY <1>0, <2>4, <2>5
  <2> QED
    BY <1>0, <2>6 DEF k
<1>8. DOMAIN d.used \subseteq 0..3 /\ \A p \in DOMAIN d.used : Ran(d, p)
  BY <1>0, <1>2, <1>3 DEF Own
<1>9. DOMAIN d.refunded # {} => Ran(d, 3)
  BY <1>0, <1>3 DEF Own
<1>10. d.children # <<>> \/ (d.end = "open" /\ d.pc = 2) => Ran(d, 1)
  BY <1>0, <1>3 DEF Own
<1>11. d.children # <<>> => 2 \in DOMAIN d.used
  BY <1>0, <1>2 DEF Own
<1>12. d.childPcs \in Seq({2}) /\ Len(d.childPcs) = Len(d.children) /\ d.gas \in Int
  BY <1>0 DEF Own
<1> QED
  BY <1>0, <1>2, <1>3, <1>6, <1>7, <1>8, <1>9, <1>10, <1>11, <1>12 DEF Own

\* The last opcode.
EndsAt(c, d, q) ==
  /\ c.end = "open" /\ q \in 0..4 /\ c.pc = q
  /\ d.trace = Append(c.trace, q) /\ d.used = c.used /\ d.gas = c.gas
  /\ d.left \in Int /\ d.childPcs = c.childPcs /\ d.children = c.children
  /\ d.refunded = c.refunded
  /\ (d.end \in {"ok", "revert"} /\ q = 4) \/ d.end = "burn"

\* So does its end, which passes no gas on.
LEMMA OwnEnds ==
  ASSUME NEW c, Own(c), NEW d, NEW q, EndsAt(c, d, q)
  PROVE  Own(d) /\ Passed(d) = Passed(c)
<1>0. /\ c.end = "open" /\ q \in 0..4 /\ c.pc = q
      /\ d.trace = Append(c.trace, q) /\ d.used = c.used /\ d.gas = c.gas
      /\ d.left \in Int /\ d.childPcs = c.childPcs /\ d.children = c.children
      /\ d.refunded = c.refunded
      /\ (d.end \in {"ok", "revert"} /\ q = 4) \/ d.end = "burn"
  BY DEF EndsAt
<1>1. c.trace \in Seq(0..4) /\ c.end # "burn" /\ d.end # "open"
  BY <1>0 DEF Own
<1>2. /\ \A p : Ran(c, p) => Ran(d, p)
      /\ d.trace \in Seq(0..4) /\ d.trace # <<>> /\ d.trace[Len(d.trace)] = q
  BY <1>0, <1>1, RanMore
<1>3. \A p \in 0..3 : Paid(d, p) = Paid(c, p)
  <2> SUFFICES ASSUME NEW p \in 0..3 PROVE Paid(d, p) = Paid(c, p)
    BY <1>0
  <2>0. p \in 0..4
    BY <1>0
  <2>1. Paid(d, p) = Paid(c, p) + (IF p = q /\ d.end # "burn" THEN CostOf(q) ELSE 0)
    BY <1>0, <1>1, <2>0, PaidMore
  <2>2. Paid(c, p) \in Int
    BY <1>0, <1>1, <2>0, PaidSummable
  <2>3. ~(p = q /\ d.end # "burn")
    BY <1>0
  <2> QED
    BY <1>0, <2>1, <2>2, <2>3
<1>4. \A p : Booked(d, p) = Booked(c, p)
  BY <1>0 DEF Booked
<1>5. Passed(d) = Passed(c)
  BY <1>0, <1>3, <1>4 DEF Passed
<1>6. d.children # <<>> /\ 2 \notin DOMAIN d.used =>
        d.end = "burn" /\ d.trace # <<>> /\ d.trace[Len(d.trace)] = 2
  BY <1>0, <1>2 DEF Own
<1>7. \A p \in {0, 2, 3} : Booked(d, p) = Paid(d, p)
  BY <1>0, <1>3, <1>4 DEF Own
<1>8. /\ d.gas \in Int /\ d.used \in [DOMAIN d.used -> Int] /\ DOMAIN d.used \subseteq 0..3
      /\ \A p \in DOMAIN d.used : Ran(d, p)
      /\ d.refunded \in [DOMAIN d.refunded -> Int] /\ DOMAIN d.refunded \subseteq {3}
      /\ DOMAIN d.refunded # {} => Ran(d, 3)
      /\ d.childPcs \in Seq({2}) /\ Len(d.childPcs) = Len(d.children)
      /\ d.children # <<>> => Ran(d, 1)
  BY <1>0, <1>2 DEF Own
<1> QED
  BY <1>0, <1>1, <1>2, <1>5, <1>6, <1>7, <1>8 DEF Own

\* A caller gets a child back, and gas.
TakesBack(c, d, x, n) ==
  /\ c.end = "open" /\ c.pc = 2 /\ n \in Int /\ \E S : c.children \in Seq(S) /\ x \in S
  /\ d.trace = c.trace /\ d.used = Add(c.used, 1, n) /\ d.gas = c.gas
  /\ d.left \in Int /\ d.childPcs = Append(c.childPcs, 2) /\ d.children = Append(c.children, x)
  /\ d.refunded = c.refunded /\ d.end = "open" /\ d.pc = 2

\* So does the return of gas by a child, which then was not passed on.
LEMMA OwnReturned ==
  ASSUME NEW c, Own(c), NEW d, NEW x, NEW n, TakesBack(c, d, x, n)
  PROVE  Own(d) /\ Passed(c) \in Int /\ Passed(d) = Passed(c) + n
<1>0. /\ c.end = "open" /\ c.pc = 2 /\ n \in Int
      /\ d.trace = c.trace /\ d.used = Add(c.used, 1, n) /\ d.gas = c.gas
      /\ d.left \in Int /\ d.childPcs = Append(c.childPcs, 2) /\ d.children = Append(c.children, x)
      /\ d.refunded = c.refunded /\ d.end = "open" /\ d.pc = 2
  BY DEF TakesBack
<1>s. PICK S : c.children \in Seq(S) /\ x \in S
  BY DEF TakesBack
<1>1. /\ c.used \in [DOMAIN c.used -> Int] /\ c.childPcs \in Seq({2})
      /\ Len(c.childPcs) = Len(c.children) /\ Ran(c, 1)
  BY <1>0 DEF Own
<1>2. /\ DOMAIN d.used = DOMAIN c.used \union {1} /\ d.used \in [DOMAIN d.used -> Int]
      /\ \A p : Booked(d, p) = Booked(c, p) + (IF p = 1 THEN n ELSE 0)
  <2> DEFINE u == c.used
             w == Add(u, 1, n)
  <2>1. Numbers(u) /\ d.used = w
    BY <1>0, <1>1 DEF Numbers
  <2> HIDE DEF u
  <2>i. Numbers(u) /\ n \in Int
    BY <1>0, <2>1
  <2>a. DOMAIN w = DOMAIN u \union {1}
    BY <2>i, AddIs
  <2>b. w \in [DOMAIN u \union {1} -> Int]
    BY <2>i, AddIs
  <2>2. Adds(w, u, 1, n)
    BY <2>i, AddIs
  <2> HIDE DEF w
  <2>3. \A p : Booked(d, p) = At(w, p) /\ Booked(c, p) = At(u, p)
    BY <2>1 DEF Booked, u
  <2>4. \A p : Booked(d, p) = Booked(c, p) + (IF p = 1 THEN n ELSE 0)
    BY <2>2, <2>3 DEF Adds
  <2> QED
    BY <2>1, <2>a, <2>b, <2>4 DEF u
<1>3. /\ d.childPcs \in Seq({2}) /\ Len(d.childPcs) = Len(d.children)
  BY <1>0, <1>s, <1>1, AppendProperties
<1>4. \A p : (Ran(c, p) <=> Ran(d, p)) /\ Paid(d, p) = Paid(c, p)
  BY <1>0 DEF Ran, Paid, Times
<1>5. \A p \in {0, 2, 3} : Booked(d, p) = Paid(d, p)
  <2> SUFFICES ASSUME NEW p \in {0, 2, 3} PROVE Booked(d, p) = Paid(d, p)
    OBVIOUS
  <2>0. p \in 0..4
    OBVIOUS
  <2>1. Booked(c, p) \in Int
    BY <2>0, BookedIs
  <2>2. Booked(c, p) = Paid(c, p)
    BY DEF Own
  <2> QED
    BY <1>2, <1>4, <2>1, <2>2
<1>6. Passed(c) \in Int /\ Passed(d) = Passed(c) + n
  <2>1. Booked(c, 1) \in Int /\ Paid(c, 1) \in Int
    BY BookedIs
  <2>2. Booked(d, 1) = Booked(c, 1) + n /\ Paid(d, 1) = Paid(c, 1)
    BY <1>2, <1>4
  <2> QED
    BY <1>0, <2>1, <2>2 DEF Passed
<1>7. /\ d.trace \in Seq(0..4) /\ d.gas \in Int /\ DOMAIN d.used \subseteq 0..3
      /\ \A p \in DOMAIN d.used : Ran(d, p)
      /\ d.refunded \in [DOMAIN d.refunded -> Int] /\ DOMAIN d.refunded \subseteq {3}
      /\ DOMAIN d.refunded # {} => Ran(d, 3)
      /\ Ran(d, 1)
  BY <1>0, <1>1, <1>2, <1>4 DEF Own
<1> QED
  BY <1>0, <1>2, <1>3, <1>5, <1>6, <1>7 DEF Own

\* A computation that starts.
LEMMA OwnNew ==
  ASSUME NEW who, NEW parent, NEW gas \in Int
  PROVE  LET c == NewComp(who, parent, gas)
         IN Own(c) /\ Passed(c) = 0 /\ c.gas = gas /\ c.left = gas
<1> DEFINE c == NewComp(who, parent, gas)
<1>1. /\ c.trace = <<>> /\ c.used = <<>> /\ c.refunded = <<>> /\ c.children = <<>> /\ c.childPcs = <<>>
      /\ c.pc = 0 /\ c.gas = gas /\ c.left = gas /\ c.end = "open"
  BY DEF NewComp
<1> HIDE DEF c
<1>2. DOMAIN <<>> = {} /\ Len(<<>>) = 0 /\ <<>> \in Seq(0..4) /\ <<>> \in Seq({2}) /\ <<>> \in [{} -> Int]
  OBVIOUS
<1>3. ASSUME NEW p \in 0..4 PROVE Booked(c, p) = 0 /\ Paid(c, p) = 0
  <2>1. Booked(c, p) = 0
    BY <1>1, <1>2 DEF Booked, At
  <2> DEFINE f == [n \in Times(c, p) |-> CostOf(p)]
  <2>2. Times(c, p) = {}
    BY <1>1, <1>2 DEF Times
  <2>3. Summable(f) /\ Paid(c, p) = SumOver(f) /\ DOMAIN f = {}
    BY <1>1, <1>2, <2>2, PaidSummable DEF Paid
  <2> HIDE DEF f
  <2> QED
    BY <2>1, <2>3, SumAll
<1>4. Passed(c) = 0
  BY <1>3 DEF Passed
<1>5. Own(c)
  BY <1>1, <1>2, <1>3 DEF Own
<1> QED
  BY <1>1, <1>4, <1>5 DEF c

\* What the children of a computation used is a sum.
LEMMA SpentIs ==
  ASSUME CallsInv, GasRight, NEW i \in 1..Len(comps)
  PROVE  /\ Len(comps[i].children) \in Nat /\ DOMAIN Spent(i) = 1..Len(comps[i].children)
         /\ Summable(Spent(i)) /\ SumOver(Spent(i)) \in Int
<1> DEFINE n == Len(comps[i].children)
           f == Spent(i)
<1>1. n \in Nat /\ \A k \in 1..n : comps[i].children[k] \in 1..Len(comps)
  <2>1. i \in Nat /\ Len(comps) \in Nat
    BY DEF CallsInv, CompTypes
  <2>2. n \in Nat /\ \A k \in 1..n : comps[i].children[k] \in (i + 1)..Len(comps)
    BY ChildrenInRange DEF CallsInv
  <2> QED
    BY <2>1, <2>2
<1>2. \A j \in 1..Len(comps) : GasUsed(j) \in Int
  BY DEF GasRight, Own, GasUsed
<1> HIDE DEF n
<1>3. f = [k \in 1..n |-> GasUsed(comps[i].children[k])]
  BY DEF Spent, n
<1>4. f \in [1..n -> Int] /\ DOMAIN f = 1..n
  BY <1>1, <1>2, <1>3
<1>5. IsFiniteSet(1..n)
  BY <1>1, FS_Interval
<1> HIDE DEF f
<1>6. Summable(f)
  BY <1>4, <1>5 DEF Summable
<1>7. SumOver(f) \in Int
  BY <1>6, SumAll
<1> QED
  BY <1>1, <1>4, <1>6, <1>7 DEF f, n

\* What is over stays as it is.
GasSettled == \A j \in 1..Len(comps) : comps[j].end # "open" => comps'[j] = comps[j]

\* It is the same sum while the children keep their gas.
LEMMA SpentSame ==
  ASSUME CallsInv, GasSettled, NEW i \in 1..Len(comps), comps'[i].children = comps[i].children
  PROVE  Spent(i)' = Spent(i)
<1> DEFINE c == comps[i].children
<1>1. \A k \in 1..Len(c) : c[k] \in 1..Len(comps) /\ comps[c[k]].end # "open"
  <2>1. i \in Nat /\ Len(comps) \in Nat
    BY DEF CallsInv, CompTypes
  <2>2. \A k \in 1..Len(c) : c[k] \in (i + 1)..Len(comps)
    BY ChildrenInRange DEF CallsInv
  <2>3. \A k \in 1..Len(c) : comps[c[k]].end # "open"
    BY DEF CallsInv, CausesRight, CauseRight
  <2> QED
    BY <2>1, <2>2, <2>3
<1>2. \A k \in 1..Len(c) : comps'[c[k]] = comps[c[k]]
  BY <1>1 DEF GasSettled
<1>3. Spent(i) = [k \in 1..Len(c) |-> comps[c[k]].gas - comps[c[k]].left]
  BY DEF Spent, GasUsed
<1>4. Spent(i)' = [k \in 1..Len(c) |-> comps'[c[k]].gas - comps'[c[k]].left]
  BY DEF Spent, GasUsed
<1> HIDE DEF c
<1> QED
  BY <1>2, <1>3, <1>4

\* The executing computation does something on its own.
LEMMA LocalGas ==
  ASSUME CallsInv, GasRight, open # 0, NEW c, SameNode(comps[open], c), c.gas = comps[open].gas,
         Own(c), Passed(c) = Passed(comps[open]), comps' = [comps EXCEPT ![open] = c]
  PROVE  GasRight'
<1> DEFINE N == Len(comps)
<1>1. open \in 1..N /\ comps[open].end = "open" /\ N \in Nat
  BY DEF CallsInv, CompTypes, OpenInLine
<1>2. Len(comps') = N /\ \A i \in 1..N : comps'[i] = IF i = open THEN c ELSE comps[i]
  BY LocalShape DEF CallsInv
<1>3. GasSettled
  BY <1>1, <1>2 DEF GasSettled
<1>4. \A i \in 1..N : /\ comps'[i].end = comps[i].end /\ comps'[i].parent = comps[i].parent
                      /\ comps'[i].children = comps[i].children /\ comps'[i].gas = comps[i].gas
                      /\ Own(comps'[i]) /\ Passed(comps'[i]) = Passed(comps[i])
  BY <1>1, <1>2 DEF SameNode, GasRight
<1>5. ASSUME NEW i \in 1..N PROVE Passes(i)'
  <2>1. Spent(i)' = Spent(i)
    BY <1>3, <1>4, SpentSame
  <2>2. Passes(i)
    BY DEF GasRight
  <2>3. \A j \in 1..N : Runs(j, i)' = Runs(j, i)
    BY <1>4 DEF Runs
  <2> QED
    BY <1>2, <1>4, <2>1, <2>2, <2>3 DEF Passes
<1> QED
  BY <1>2, <1>4, <1>5 DEF GasRight

\* It calls another.
LEMMA CallGas ==
  ASSUME CallsInv, GasRight, open # 0, NEW c, SameNode(comps[open], c), c.gas = comps[open].gas,
         NEW gas \in Int, Own(c), Passed(c) = Passed(comps[open]) + gas,
         NEW d, Own(d), Passed(d) = 0, d.gas = gas, d.end = "open", d.parent = open, d.children = <<>>,
         comps' = Append([comps EXCEPT ![open] = c], d)
  PROVE  GasRight'
<1> DEFINE N == Len(comps)
<1>1. open \in 1..N /\ comps[open].end = "open" /\ N \in Nat
  BY DEF CallsInv, CompTypes, OpenInLine
<1>2. /\ Len(comps') = N + 1 /\ \A i \in 1..N : comps'[i] = IF i = open THEN c ELSE comps[i]
      /\ comps'[N + 1] = d
  BY CallShape DEF CallsInv
<1>3. GasSettled
  BY <1>1, <1>2 DEF GasSettled
<1>4. \A i \in 1..N : /\ comps'[i].end = comps[i].end /\ comps'[i].parent = comps[i].parent
                      /\ comps'[i].children = comps[i].children /\ comps'[i].gas = comps[i].gas
                      /\ Own(comps'[i])
  BY <1>1, <1>2 DEF SameNode, GasRight
<1>m. PICK m \in Nat : m = N + 1
  BY <1>1
<1>5. \A i \in 1..m : i \in 1..N \/ i = m
  BY <1>1, <1>m
<1>6. m \notin 1..N /\ m \in 1..m /\ \A i \in 1..N : i \in 1..m
  BY <1>1, <1>m
<1>7. \A j \in 1..N : ~Runs(j, open)
  BY DEF CallsInv, OpenInLine, WaitsInLine, Runs
<1>8. /\ \A i, j \in 1..N : Runs(j, i)' = Runs(j, i)
      /\ \A i \in 1..m : Runs(m, i)' <=> i = open
  BY <1>2, <1>4, <1>m DEF Runs
<1>9. \A i \in 1..N : Spent(i)' = Spent(i) /\ Passes(i)
  BY <1>3, <1>4, SpentSame DEF GasRight
<1>10. ASSUME NEW i \in 1..N, i = open PROVE Passes(i)'
  <2>1. Passed(comps[i]) = SumOver(Spent(i))
    BY <1>7, <1>9, <1>10 DEF Passes
  <2>2. Passed(comps'[i]) = SumOver(Spent(i)') + gas
    BY <1>2, <1>9, <1>10, <2>1
  <2>3. \A j \in 1..m : Runs(j, i)' => j = m
    BY <1>5, <1>7, <1>8, <1>10
  <2>4. Runs(m, i)' /\ comps'[m].gas = gas /\ Len(comps') = m
    BY <1>2, <1>6, <1>8, <1>10, <1>m
  <2> QED
    BY <1>6, <2>2, <2>3, <2>4 DEF Passes
<1>11. ASSUME NEW i \in 1..N, i # open PROVE Passes(i)'
  <2>1. Passed(comps'[i]) = Passed(comps[i]) /\ SumOver(Spent(i)') = SumOver(Spent(i))
    BY <1>2, <1>9, <1>11
  <2>2. \A j \in 1..m : Runs(j, i)' => j \in 1..N /\ Runs(j, i)
    BY <1>5, <1>6, <1>8, <1>11
  <2>3. \A j \in 1..N : Runs(j, i) => Runs(j, i)' /\ j \in 1..m
    BY <1>6, <1>8
  <2>4. Passes(i) /\ Len(comps') = m /\ \A j \in 1..N : comps'[j].gas = comps[j].gas
    BY <1>2, <1>4, <1>9, <1>m
  <2> QED
    BY <2>1, <2>2, <2>3, <2>4 DEF Passes
<1>12. ASSUME NEW i, i = m PROVE Passes(i)'
  <2>1. comps'[i] = d /\ Len(comps') = m
    BY <1>2, <1>12, <1>m
  <2>2. \A j \in 1..m : ~Runs(j, i)'
    <3>1. open # m
      BY <1>1, <1>6
    <3>2. \A j \in 1..N : comps[j].parent # m
      <4> SUFFICES ASSUME NEW j \in 1..N PROVE comps[j].parent # m
        OBVIOUS
      <4>1. comps[j].parent \in 0..(j - 1)
        BY DEF CallsInv, CompTypes, CompTyped
      <4> QED
        BY <1>1, <1>m, <4>1
    <3> QED
      BY <1>4, <1>5, <1>6, <1>8, <1>12, <3>1, <3>2 DEF Runs
  <2>3. SumOver(Spent(i)') = 0
    <3>1. Spent(i)' = [k \in 1..Len(d.children) |-> GasUsed(d.children[k])']
      BY <2>1 DEF Spent
    <3>2. Len(d.children) = 0 /\ 1..0 = {}
      OBVIOUS
    <3> DEFINE f == Spent(i)'
    <3>3. DOMAIN f = {} /\ f \in [{} -> Int]
      BY <3>1, <3>2
    <3> HIDE DEF f
    <3>4. Summable(f)
      BY <3>3, FS_EmptySet DEF Summable
    <3>5. SumOver(f) = 0
      BY <3>3, <3>4, SumAll
    <3> QED
      BY <3>5 DEF f
  <2> QED
    BY <2>1, <2>2, <2>3 DEF Passes
<1>13. \A i \in 1..m : Own(comps'[i])
  BY <1>2, <1>4, <1>5, <1>m
<1>14. \A i \in 1..m : Passes(i)'
  BY <1>5, <1>10, <1>11, <1>12
<1> QED
  BY <1>2, <1>13, <1>14, <1>m DEF GasRight

\* It is over.
LEMMA OverGas ==
  ASSUME CallsInv, GasRight, open # 0, NEW c, c.parent = comps[open].parent,
         c.children = comps[open].children, c.gas = comps[open].gas, c.end # "open",
         Own(c), Passed(c) = Passed(comps[open]), Over(c)
  PROVE  GasRight'
<1> DEFINE N == Len(comps)
<1>1. /\ open \in 1..N /\ N \in Nat /\ comps[open].end = "open" /\ CompTyped(open) /\ WaitsInLine(open)
      /\ Hands(c)
  BY OverShape DEF CallsInv, CompTypes, OpenInLine
<1>p. PICK p : p = c.parent
  OBVIOUS
<1>o. PICK o : o = open
  OBVIOUS
<1>2. /\ Len(comps') = N /\ comps'[o] = c /\ o \in 1..N
      /\ \A i \in 1..N \ {o, p} : comps'[i] = comps[i]
      /\ p # 0 => /\ p \in 1..N /\ p # o /\ comps[p].end = "open" /\ comps[p].pc = 2
                  /\ comps'[p].end = "open" /\ comps'[p].parent = comps[p].parent
                  /\ comps'[p].gas = comps[p].gas
                  /\ comps'[p].children = Append(comps[p].children, o)
      /\ Runs(o, p) /\ c.parent = p
  BY <1>1, <1>p, <1>o DEF Hands, WaitsInLine, Runs, CompTyped
<1>3. GasSettled
  <2> SUFFICES ASSUME NEW j \in 1..N, comps[j].end # "open" PROVE comps'[j] = comps[j]
    BY DEF GasSettled
  <2>1. j # o /\ (p # 0 => j # p)
    BY <1>1, <1>2, <1>o
  <2>2. p = 0 => j # p
    OBVIOUS
  <2> QED
    BY <1>2, <2>1, <2>2
<1>4. ASSUME p # 0
      PROVE  /\ Own(comps'[p]) /\ Passed(comps[p]) \in Int /\ c.left \in Int
             /\ Passed(comps'[p]) = Passed(comps[p]) - c.left
  <2> DEFINE b == comps[p]
             d == comps'[p]
             m == -c.left
             S == (p + 1)..N
  <2>1. Own(b) /\ b.end = "open" /\ b.pc = 2 /\ b.left \in Int
    BY <1>2, <1>4 DEF GasRight, Own
  <2>2. c.left \in Int /\ m \in Int
    BY DEF Own
  <2>3. b.children \in Seq(S) /\ o \in S
    BY <1>1, <1>2, <1>4, <1>p, <1>o DEF CallsInv, CompTypes, CompTyped
  <2>4. /\ d.children = Append(b.children, o) /\ d.end = "open" /\ d.pc = 2
        /\ d.childPcs = Append(b.childPcs, 2)
        /\ d.trace = b.trace /\ d.refunded = b.refunded /\ d.gas = b.gas
        /\ d.left = b.left + c.left /\ d.used = Add(b.used, 1, m)
    <3>1. b.pc - 1 = 1
      BY <2>1
    <3> QED
      BY <1>1, <1>2, <1>4, <1>p, <1>o, <2>1, <3>1 DEF Hands
  <2>5. d.left \in Int
    BY <2>1, <2>2, <2>4
  <2> HIDE DEF b, d, m, S
  <2>a. TakesBack(b, d, o, m)
    BY <2>1, <2>2, <2>3, <2>4, <2>5 DEF TakesBack
  <2>6. Own(d) /\ Passed(b) \in Int /\ Passed(d) = Passed(b) + m
    BY <2>1, <2>a, OwnReturned
  <2>7. Passed(b) + m = Passed(b) - c.left
    BY <2>2, <2>6 DEF m
  <2> QED
    BY <2>2, <2>6, <2>7 DEF b, d
<1>5. ASSUME NEW i \in 1..N, i \notin {p} PROVE Spent(i)' = Spent(i) /\ Passed(comps'[i]) = Passed(comps[i]) /\ Own(comps'[i])
  <2>1. comps'[i].children = comps[i].children
    BY <1>2, <1>5, <1>o
  <2>2. Spent(i)' = Spent(i)
    BY <1>3, <2>1, SpentSame
  <2> QED
    BY <1>2, <1>5, <1>o, <2>2 DEF GasRight
<1>6. \A j \in 1..N : \A i \in 1..N : Runs(j, i)' => Runs(j, i) /\ j # o /\ i # p
  <2> SUFFICES ASSUME NEW j \in 1..N, NEW i \in 1..N, Runs(j, i)' PROVE Runs(j, i) /\ j # o /\ i # p
    OBVIOUS
  <2>1. j # o
    BY <1>2 DEF Runs
  <2>2. Runs(j, i)
    <3>1. CASE j = p
      BY <1>2, <3>1 DEF Runs
    <3>2. CASE j # p
      BY <1>2, <2>1, <3>2 DEF Runs
    <3> QED
      BY <3>1, <3>2
  <2>3. i # p
    BY <1>1, <1>2, <1>o, <2>1, <2>2 DEF Runs, WaitsInLine
  <2> QED
    BY <2>1, <2>2, <2>3
<1>7. \A j \in 1..N : \A i \in 1..N : Runs(j, i) /\ i # p => Runs(j, i)' /\ comps'[j].gas = comps[j].gas
  <2> SUFFICES ASSUME NEW j \in 1..N, NEW i \in 1..N, Runs(j, i), i # p
               PROVE  Runs(j, i)' /\ comps'[j].gas = comps[j].gas
    OBVIOUS
  <2>1. j # o
    BY <1>1, <1>2, <1>o DEF Runs
  <2>2. CASE j = p
    BY <1>2, <2>2 DEF Runs
  <2>3. CASE j # p
    BY <1>2, <2>1, <2>3 DEF Runs
  <2> QED
    BY <2>2, <2>3
<1>8. ASSUME NEW i \in 1..N, i # p PROVE Passes(i)'
  <2>1. /\ Passed(comps'[i]) = Passed(comps[i]) /\ SumOver(Spent(i)') = SumOver(Spent(i))
        /\ Passes(i) /\ Len(comps') = N
    BY <1>2, <1>5, <1>8 DEF GasRight
  <2>2. \A j \in 1..N : Runs(j, i)' => Runs(j, i) /\ comps'[j].gas = comps[j].gas
    BY <1>6, <1>7, <1>8
  <2>3. \A j \in 1..N : Runs(j, i) => Runs(j, i)'
    BY <1>7, <1>8
  <2> QED
    BY <2>1, <2>2, <2>3 DEF Passes
<1>9. ASSUME p # 0 PROVE Passes(p)'
  <2> DEFINE b == comps[p]
             n == Len(b.children)
             f == Spent(p)
             g == Spent(p)'
  <2>1. Summable(f) /\ n \in Nat /\ DOMAIN f = 1..n /\ SumOver(f) \in Int
    BY <1>2, <1>9, SpentIs
  <2>2. Passed(b) = SumOver(f) + comps[o].gas
    BY <1>2, <1>9 DEF GasRight, Passes
  <2>3. c.gas = comps[o].gas /\ c.gas \in Int /\ c.left \in Int
    BY <1>2, <1>o DEF Own
  <2> HIDE DEF f, g
  <2> DEFINE S == (p + 1)..N
             h == comps'[p].children
  <2>3a. b.children \in Seq(S) /\ o \in S /\ h = Append(b.children, o)
    <3>1. CompTyped(p)
      BY <1>2, <1>9 DEF CallsInv, CompTypes
    <3>2. p \in 0..(o - 1) /\ o \in 1..N
      BY <1>1, <1>2, <1>p, <1>o DEF Hands
    <3>3. o \in S
      BY <1>1, <1>2, <1>9, <3>2
    <3> QED
      BY <1>2, <1>9, <3>1, <3>3 DEF CompTyped
  <2> HIDE DEF S, h
  <2>4. Len(h) = n + 1 /\ (\A k \in 1..n : h[k] = b.children[k]) /\ h[n + 1] = o
    BY <2>3a, AppendProperties
  <2>5. ASSUME NEW k \in 1..n PROVE comps'[b.children[k]] = comps[b.children[k]]
    <3> DEFINE x == b.children[k]
    <3>1. x \in (p + 1)..N
      BY <1>2, <1>9, ChildrenInRange DEF CallsInv
    <3>2. comps[x].end # "open"
      BY <1>2, <1>9 DEF CallsInv, CausesRight, CauseRight
    <3> HIDE DEF x
    <3>3. x \in 1..N
      BY <1>1, <1>2, <1>9, <3>1
    <3>4. comps'[x] = comps[x]
      BY <1>3, <3>2, <3>3 DEF GasSettled
    <3> QED
      BY <3>4 DEF x
  <2>6. g = [k \in 1..(n + 1) |-> comps'[h[k]].gas - comps'[h[k]].left]
    BY <2>4 DEF Spent, GasUsed, g, h
  <2>7. f = [k \in 1..n |-> comps[b.children[k]].gas - comps[b.children[k]].left]
    BY DEF Spent, GasUsed, f
  <2>8. n + 1 \in 1..(n + 1) /\ 1..n = (1..(n + 1)) \ {n + 1} /\ n + 1 \in Nat
    BY <2>1
  <2>9. DOMAIN g = 1..(n + 1) /\ (\A k \in 1..n : g[k] = f[k]) /\ g[n + 1] = c.gas - c.left
    <3>1. \A k \in 1..n : g[k] = f[k]
      <4> SUFFICES ASSUME NEW k \in 1..n PROVE g[k] = f[k]
        OBVIOUS
      <4>1. k \in 1..(n + 1) /\ h[k] = b.children[k] /\ comps'[h[k]] = comps[b.children[k]]
        BY <2>1, <2>4, <2>5
      <4> QED
        BY <2>6, <2>7, <4>1
    <3>2. g[n + 1] = c.gas - c.left
      BY <1>2, <2>4, <2>6, <2>8
    <3> QED
      BY <2>6, <3>1, <3>2
  <2>10. Summable(g)
    <3>1. IsFiniteSet(1..(n + 1))
      BY <2>8, FS_Interval
    <3>2. \A k \in 1..(n + 1) : g[k] \in Int
      <4>1. \A k \in 1..n : f[k] \in Int
        BY <2>1 DEF Summable
      <4>2. c.gas - c.left \in Int
        BY <2>3
      <4>3. \A k \in 1..(n + 1) : k \in 1..n \/ k = n + 1
        BY <2>8
      <4> QED
        BY <2>9, <4>1, <4>2, <4>3
    <3>3. g = [k \in DOMAIN g |-> g[k]]
      BY <2>6
    <3>4. g \in [DOMAIN g -> Int]
      BY <2>9, <3>2, <3>3
    <3> QED
      BY <2>9, <3>1, <3>4 DEF Summable
  <2>11. SumOver(g) = SumOver(f) + (c.gas - c.left)
    <3>1. n + 1 \in DOMAIN g /\ DOMAIN f = DOMAIN g \ {n + 1} /\ \A k \in DOMAIN f : f[k] = g[k]
      BY <2>1, <2>8, <2>9
    <3>2. SumOver(g) = SumOver(f) + g[n + 1]
      BY <2>1, <2>10, <3>1, SumInsert
    <3> QED
      BY <2>9, <3>2
  <2>12. Passed(comps'[p]) = SumOver(g)
    <3>1. Passed(comps'[p]) = Passed(comps[p]) - c.left
      BY <1>4, <1>9
    <3>2. Passed(comps[p]) = SumOver(f) + comps[o].gas
      BY <2>2 DEF f
    <3> QED
      BY <2>1, <2>3, <2>11, <3>1, <3>2
  <2>13. \A j \in 1..N : ~Runs(j, p)'
    BY <1>2, <1>6, <1>9
  <2> QED
    BY <1>2, <2>12, <2>13 DEF Passes, g
<1>10. \A i \in 1..N : Own(comps'[i])
  BY <1>2, <1>4, <1>5
<1>11. \A i \in 1..N : Passes(i)'
  BY <1>2, <1>8, <1>9
<1> QED
  BY <1>2, <1>10, <1>11 DEF GasRight

\* The executing computation does something on its own.
LEMMA LocalTree ==
  ASSUME CallsInv, TreeRight, open # 0, NEW c, SameNode(comps[open], c),
         comps' = [comps EXCEPT ![open] = c], open' = open
  PROVE  TreeRight'
<1> DEFINE N == Len(comps)
<1>1. open \in 1..N /\ N \in Nat
  BY DEF CallsInv, CompTypes
<1>2. Len(comps') = N /\ \A i \in 1..N : comps'[i] = IF i = open THEN c ELSE comps[i]
  BY LocalShape DEF CallsInv
<1>3. \A i \in 1..N : /\ comps'[i].end = comps[i].end /\ comps'[i].parent = comps[i].parent
                      /\ comps'[i].children = comps[i].children
  BY <1>1, <1>2 DEF SameNode
<1>4. ASSUME NEW i \in 1..N PROVE Nested(i)'
  <2>1. Nested(i) /\ comps[i].parent \in 0..(i - 1)
    BY DEF TreeRight, CallsInv, CompTypes, CompTyped
  <2>2. \A j \in (comps[i].parent + 1)..(i - 1) : j \in 1..N
    BY <1>1, <2>1
  <2> QED
    BY <1>3, <2>1, <2>2 DEF Nested
<1>5. ASSUME NEW i \in 1..N PROVE Listed(i)'
  <2>1. Listed(i)
    BY DEF TreeRight
  <2>2. \A k \in 1..Len(comps[i].children) : comps[i].children[k] \in 1..N
    BY <1>1, ChildrenInRange DEF CallsInv
  <2>3. comps'[i].children = comps[i].children /\ comps'[i].end = comps[i].end /\ Len(comps') = N
    BY <1>2, <1>3
  <2>4. \A k \in 1..Len(comps'[i].children) : comps'[(comps'[i].children)[k]].parent = i
    <3>1. \A k \in 1..Len(comps[i].children) : comps[(comps[i].children)[k]].parent = i
      BY <2>1 DEF Listed
    <3> QED
      BY <1>3, <2>2, <2>3, <3>1
  <2>5. \A k, m \in 1..Len(comps'[i].children) :
          k < m => (comps'[i].children)[k] < (comps'[i].children)[m]
    BY <2>1, <2>3 DEF Listed
  <2>6. \A j \in 1..Len(comps') : comps'[j].parent = i /\ comps'[j].end # "open" =>
          \E k \in 1..Len(comps'[i].children) : (comps'[i].children)[k] = j
    BY <1>3, <2>1, <2>3 DEF Listed
  <2>7. comps'[i].end = "open" /\ i # open' => \E j \in 1..Len(comps') : Runs(j, i)'
    BY <1>3, <2>1, <2>3 DEF Listed, Runs
  <2> QED
    BY <2>4, <2>5, <2>6, <2>7 DEF Listed
<1> QED
  BY <1>2, <1>4, <1>5 DEF TreeRight

\* It calls another.
LEMMA CallTree ==
  ASSUME CallsInv, TreeRight, open # 0, NEW c, SameNode(comps[open], c),
         NEW d, d.end = "open", d.parent = open, d.children = <<>>,
         comps' = Append([comps EXCEPT ![open] = c], d), open' = Len(comps) + 1
  PROVE  TreeRight'
<1> DEFINE N == Len(comps)
<1>1. open \in 1..N /\ N \in Nat /\ comps[open].end = "open"
  BY DEF CallsInv, CompTypes, OpenInLine
<1>m. PICK m \in Nat : m = N + 1
  BY <1>1
<1>o. PICK o \in 1..N : o = open
  BY <1>1
<1>2. /\ Len(comps') = m /\ \A i \in 1..N : comps'[i] = IF i = open THEN c ELSE comps[i]
      /\ comps'[m] = d
  BY <1>m, CallShape DEF CallsInv
<1>3. \A i \in 1..N : /\ comps'[i].end = comps[i].end /\ comps'[i].parent = comps[i].parent
                      /\ comps'[i].children = comps[i].children
  BY <1>1, <1>2 DEF SameNode
<1>4. (\A i \in 1..m : i \in 1..N \/ i = m) /\ m \notin 1..N /\ m \in 1..m /\ \A i \in 1..N : i \in 1..m
  BY <1>1, <1>m
<1>5. \A i \in 1..N : comps[i].parent \in 0..(i - 1) /\ Nested(i) /\ Listed(i)
  BY DEF TreeRight, CallsInv, CompTypes, CompTyped
<1>6. ASSUME NEW i \in 1..N PROVE Nested(i)'
  <2>1. \A j \in (comps[i].parent + 1)..(i - 1) : j \in 1..N
    BY <1>1, <1>5
  <2>2. ~(i > open')
    BY <1>1
  <2> QED
    BY <1>3, <1>5, <2>1, <2>2 DEF Nested
<1>7. Nested(m)'
  <2>1. comps'[m].parent = o /\ o # 0 /\ open' = m
    BY <1>2, <1>m, <1>o
  <2>2. ASSUME NEW j \in (o + 1)..(m - 1) PROVE comps'[j].parent >= o
    <3>1. j \in 1..N /\ j > open
      BY <1>1, <1>m, <1>o
    <3>2. comps[j].parent >= open
      BY <1>5, <3>1 DEF Nested
    <3> QED
      BY <1>3, <1>o, <3>1, <3>2
  <2> QED
    BY <2>1, <2>2 DEF Nested
<1>8. ASSUME NEW i \in 1..N PROVE Listed(i)'
  <2> DEFINE e == comps[i].children
  <2>1. \A k \in 1..Len(e) : e[k] \in 1..N
    BY <1>1, ChildrenInRange DEF CallsInv
  <2>p. \A k \in 1..Len(e) : comps[e[k]].parent = i
    BY <1>5 DEF Listed
  <2>2. \A k \in 1..Len(e) : comps'[e[k]].parent = i
    BY <1>3, <2>1, <2>p
  <2>3. \A k, n \in 1..Len(e) : k < n => e[k] < e[n]
    BY <1>5 DEF Listed
  <2>a. /\ \A j \in 1..N : comps[j].parent = i /\ comps[j].end # "open" => \E k \in 1..Len(e) : e[k] = j
        /\ comps[i].end = "open" /\ i # open => \E j \in 1..N : Runs(j, i)
    BY <1>5 DEF Listed
  <2>4. ASSUME NEW j \in 1..m, comps'[j].parent = i, comps'[j].end # "open" PROVE \E k \in 1..Len(e) : e[k] = j
    <3>1. j # m
      BY <1>2, <2>4
    <3>2. j \in 1..N
      BY <1>4, <3>1
    <3>3. comps[j].parent = i /\ comps[j].end # "open"
      BY <1>3, <2>4, <3>2
    <3> QED
      BY <2>a, <3>2, <3>3
  <2>5. comps'[i].end = "open" => \E j \in 1..m : Runs(j, i)'
    <3>1. CASE i = o
      <4>1. Runs(m, i)'
        BY <1>2, <1>o, <3>1 DEF Runs
      <4> QED
        BY <1>4, <4>1
    <3>2. CASE i # o
      <4> SUFFICES ASSUME comps'[i].end = "open" PROVE \E j \in 1..m : Runs(j, i)'
        OBVIOUS
      <4>1. PICK j \in 1..N : Runs(j, i)
        BY <1>3, <1>o, <2>a, <3>2
      <4>2. Runs(j, i)' /\ j \in 1..m
        BY <1>3, <1>4, <4>1 DEF Runs
      <4> QED
        BY <4>2
    <3> QED
      BY <3>1, <3>2
  <2>6. comps'[i].children = e
    BY <1>3
  <2> HIDE DEF e
  <2>7. /\ \A k \in 1..Len(comps'[i].children) : comps'[comps'[i].children[k]].parent = i
        /\ \A k, n \in 1..Len(comps'[i].children) : k < n => comps'[i].children[k] < comps'[i].children[n]
    BY <2>2, <2>3, <2>6
  <2>8. \A j \in 1..Len(comps') : comps'[j].parent = i /\ comps'[j].end # "open" =>
          \E k \in 1..Len(comps'[i].children) : comps'[i].children[k] = j
    BY <1>2, <2>4, <2>6
  <2>9. comps'[i].end = "open" => \E j \in 1..Len(comps') : Runs(j, i)'
    BY <1>2, <2>5
  <2> QED
    BY <2>7, <2>8, <2>9 DEF Listed
<1>9. Listed(m)'
  <2>1. comps'[m].children = <<>> /\ 1..Len(<<>>) = {}
    BY <1>2
  <2>2. \A j \in 1..N : comps'[j].parent # m
    <3> SUFFICES ASSUME NEW j \in 1..N PROVE comps[j].parent # m
      BY <1>3
    <3> QED
      BY <1>1, <1>5, <1>m
  <2>3. comps'[m].parent # m
    BY <1>1, <1>2, <1>m
  <2>4. m = open'
    BY <1>m
  <2> QED
    BY <1>2, <1>4, <2>1, <2>2, <2>3, <2>4 DEF Listed
<1>10. \A i \in 1..m : Nested(i)' /\ Listed(i)'
  <2> SUFFICES ASSUME NEW i \in 1..m PROVE Nested(i)' /\ Listed(i)'
    OBVIOUS
  <2>1. CASE i \in 1..N
    BY <1>6, <1>8, <2>1
  <2>2. CASE i = m
    BY <1>7, <1>9, <2>2
  <2> QED
    BY <1>4, <2>1, <2>2
<1> QED
  BY <1>2, <1>10 DEF TreeRight

\* It is over.
LEMMA OverTree ==
  ASSUME CallsInv, TreeRight, open # 0, NEW c, c.parent = comps[open].parent,
         c.children = comps[open].children, c.end # "open", Over(c)
  PROVE  TreeRight'
<1> DEFINE N == Len(comps)
<1>1. /\ open \in 1..N /\ N \in Nat /\ comps[open].end = "open" /\ WaitsInLine(open)
      /\ Hands(c) /\ open' = c.parent
  <2>1. Hands(c)
    BY OverShape DEF CallsInv
  <2> QED
    BY <2>1 DEF CallsInv, CompTypes, OpenInLine, Over, Hands
<1>p. PICK p : p = c.parent
  OBVIOUS
<1>o. PICK o \in 1..N : o = open
  BY <1>1
<1>2. /\ Len(comps') = N /\ comps'[o] = c /\ p \in 0..(o - 1) /\ open' = p
      /\ \A i \in 1..N \ {o, p} : comps'[i] = comps[i]
      /\ p # 0 => /\ p \in 1..N /\ p # o /\ comps[p].end = "open"
                  /\ comps'[p].end = "open" /\ comps'[p].parent = comps[p].parent
                  /\ comps'[p].children = Append(comps[p].children, o)
      /\ c.parent = p /\ comps[o].parent = p
  BY <1>1, <1>p, <1>o DEF Hands, WaitsInLine
<1>3. /\ \A i \in 1..N : comps'[i].parent = comps[i].parent
      /\ \A i \in 1..N : i # p => comps'[i].children = comps[i].children
      /\ \A i \in 1..N : i # o => comps'[i].end = comps[i].end
      /\ comps'[o].end # "open"
  BY <1>1, <1>2, <1>o
<1>4. \A i \in 1..N : comps[i].parent \in 0..(i - 1) /\ Nested(i) /\ Listed(i)
  BY DEF TreeRight, CallsInv, CompTypes, CompTyped
<1>5. \A i \in 1..N : comps[i].parent \in Int
  BY <1>4
<1>6. ASSUME NEW i \in 1..N PROVE Nested(i)'
  <2>1. \A j \in (comps[i].parent + 1)..(i - 1) : j \in 1..N
    BY <1>1, <1>4
  <2>2. i > p => comps[i].parent >= p
    <3>1. CASE i > o
      <4>1. comps[i].parent >= o
        BY <1>4, <1>o, <3>1 DEF Nested
      <4> QED
        BY <1>2, <1>5, <4>1
    <3>2. CASE i = o
      BY <1>2, <3>2
    <3>3. ASSUME i < o, i > p PROVE comps[i].parent >= p
      <4>1. i \in (comps[o].parent + 1)..(o - 1)
        BY <1>1, <1>2, <3>3
      <4> QED
        BY <1>2, <1>4, <4>1 DEF Nested
    <3> QED
      BY <1>1, <3>1, <3>2, <3>3
  <2> QED
    BY <1>2, <1>3, <1>4, <2>1, <2>2 DEF Nested
<1>7. ASSUME NEW i \in 1..N, i # p PROVE Listed(i)'
  <2> DEFINE e == comps[i].children
  <2>1. \A k \in 1..Len(e) : e[k] \in 1..N
    BY <1>1, ChildrenInRange DEF CallsInv
  <2>p. \A k \in 1..Len(e) : comps[e[k]].parent = i
    BY <1>4 DEF Listed
  <2>2. \A k \in 1..Len(e) : comps'[e[k]].parent = i
    BY <1>3, <2>1, <2>p
  <2>3. \A k, n \in 1..Len(e) : k < n => e[k] < e[n]
    BY <1>4 DEF Listed
  <2>a. \A j \in 1..N : comps[j].parent = i /\ comps[j].end # "open" => \E k \in 1..Len(e) : e[k] = j
    BY <1>4 DEF Listed
  <2>4. ASSUME NEW j \in 1..N, comps'[j].parent = i, comps'[j].end # "open" PROVE \E k \in 1..Len(e) : e[k] = j
    <3>1. comps[j].parent = i /\ j # o
      BY <1>2, <1>3, <1>7, <2>4
    <3> QED
      BY <1>3, <2>a, <2>4, <3>1
  <2>5. comps'[i].end = "open" => \E j \in 1..N : Runs(j, i)'
    <3> SUFFICES ASSUME comps'[i].end = "open" PROVE \E j \in 1..N : Runs(j, i)'
      OBVIOUS
    <3>1. i # o /\ comps[i].end = "open"
      BY <1>3
    <3>2. PICK j \in 1..N : Runs(j, i)
      BY <1>4, <1>o, <3>1 DEF Listed
    <3>3. j # o
      BY <1>2, <1>7, <3>2 DEF Runs
    <3> QED
      BY <1>3, <3>2, <3>3 DEF Runs
  <2>6. comps'[i].children = e
    BY <1>3, <1>7
  <2> HIDE DEF e
  <2> QED
    BY <1>2, <2>2, <2>3, <2>4, <2>5, <2>6 DEF Listed
<1>8. ASSUME p # 0 PROVE Listed(p)'
  <2> DEFINE e == comps[p].children
             h == comps'[p].children
             n == Len(e)
  <2>0. /\ e \in Seq((p + 1)..N) /\ o \in (p + 1)..N /\ p \in 1..N /\ h = Append(e, o)
    <3>1. CompTyped(p)
      BY <1>2, <1>8 DEF CallsInv, CompTypes
    <3>2. o \in (p + 1)..N
      BY <1>1, <1>2, <1>8
    <3> QED
      BY <1>2, <1>8, <3>1, <3>2 DEF CompTyped
  <2>1. /\ n \in Nat /\ \A k \in 1..n : e[k] \in 1..N /\ comps[e[k]].end # "open" /\ comps[e[k]].parent = p
    <3>1. \A k \in 1..n : e[k] \in (p + 1)..N
      BY <2>0
    <3>2. \A k \in 1..n : comps[e[k]].end # "open"
      BY <2>0 DEF CallsInv, CausesRight, CauseRight
    <3>3. \A k \in 1..n : comps[e[k]].parent = p
      BY <1>4, <2>0 DEF Listed
    <3> QED
      BY <1>1, <2>0, <3>1, <3>2, <3>3
  <2>2. \A k \in 1..n : e[k] < o
    <3> SUFFICES ASSUME NEW k \in 1..n, ~(e[k] < o) PROVE FALSE
      OBVIOUS
    <3>1. e[k] \in 1..N /\ e[k] # o /\ comps[e[k]].parent = p
      BY <1>1, <1>o, <2>1
    <3>2. e[k] > open
      BY <1>1, <1>o, <3>1
    <3>3. comps[e[k]].parent >= open
      BY <1>4, <3>1, <3>2 DEF Nested
    <3> QED
      BY <1>1, <1>2, <1>o, <3>1, <3>3
  <2> DEFINE S == (p + 1)..N
  <2>3. Len(h) = n + 1 /\ (\A k \in 1..n : h[k] = e[k]) /\ h[n + 1] = o
    <3> HIDE DEF S, e, h
    <3>1. e \in Seq(S) /\ o \in S /\ h = Append(e, o)
      BY <2>0 DEF S
    <3> QED
      BY <3>1, AppendProperties
  <2>4. \A j, k \in 1..n : j < k => e[j] < e[k]
    BY <1>4, <2>0 DEF Listed
  <2>5. \A j \in 1..N : comps[j].parent = p /\ comps[j].end # "open" => \E k \in 1..n : e[k] = j
    BY <1>4, <2>0 DEF Listed
  <2> HIDE DEF e, n, S
  <2>6. (\A k \in 1..(n + 1) : k \in 1..n \/ k = n + 1) /\ n + 1 \in 1..(n + 1) /\ \A k \in 1..n : k \in 1..(n + 1)
    BY <2>1
  <2>7. \A k \in 1..(n + 1) : comps'[h[k]].parent = p
    <3>1. ASSUME NEW k \in 1..n PROVE comps'[h[k]].parent = p
      <4>1. h[k] = e[k] /\ e[k] \in 1..N /\ comps[e[k]].parent = p
        BY <2>1, <2>3
      <4> QED
        BY <1>3, <4>1
    <3>2. comps'[h[n + 1]].parent = p
      BY <1>2, <1>3, <2>3
    <3> QED
      BY <2>6, <3>1, <3>2
  <2>8. ASSUME NEW j \in 1..(n + 1), NEW k \in 1..(n + 1), j < k PROVE h[j] < h[k]
    <3>1. j \in 1..n
      BY <2>1, <2>8
    <3>2. CASE k \in 1..n
      BY <2>3, <2>4, <2>8, <3>1, <3>2
    <3>3. CASE k = n + 1
      BY <2>2, <2>3, <3>1, <3>3
    <3> QED
      BY <2>6, <3>2, <3>3
  <2>9. ASSUME NEW j \in 1..N, comps'[j].parent = p, comps'[j].end # "open"
        PROVE  \E k \in 1..(n + 1) : h[k] = j
    <3>1. CASE j = o
      BY <2>3, <2>6, <3>1
    <3>2. CASE j # o
      <4>1. comps[j].parent = p /\ comps[j].end # "open"
        BY <1>3, <2>9, <3>2
      <4>2. PICK k \in 1..n : e[k] = j
        BY <2>5, <4>1
      <4>3. k \in 1..(n + 1) /\ h[k] = j
        BY <2>3, <2>6, <4>2
      <4> QED
        BY <4>3
    <3> QED
      BY <3>1, <3>2
  <2> HIDE DEF h
  <2>10. h = comps'[p].children /\ open' = p
    BY <1>2 DEF h
  <2> QED
    BY <1>2, <2>3, <2>7, <2>8, <2>9, <2>10 DEF Listed
<1>9. \A i \in 1..N : Listed(i)'
  <2> SUFFICES ASSUME NEW i \in 1..N PROVE Listed(i)'
    OBVIOUS
  <2>1. CASE i = p
    <3>1. p # 0
      BY <2>1
    <3> QED
      BY <1>8, <2>1, <3>1
  <2>2. CASE i # p
    BY <1>7, <2>2
  <2> QED
    BY <2>1, <2>2
<1> QED
  BY <1>2, <1>6, <1>9 DEF TreeRight

ProfileInv == CallsInv /\ GasRight /\ TreeRight

\* The invariant holds when the call starts.
LEMMA ProfileInit == CallsInit => ProfileInv
<1> SUFFICES ASSUME CallsInit PROVE ProfileInv
  OBVIOUS
<1>1. PICK who \in Kinds \ {"unknown"} : comps = <<NewComp(who, 0, StartGas)>>
  BY DEF CallsInit
<1> DEFINE c == NewComp(who, 0, StartGas)
<1>2. c.parent = 0 /\ c.children = <<>> /\ c.end = "open"
  BY NewCompFields
<1>3. Own(c) /\ Passed(c) = 0
  BY OwnNew, CallsAssumption
<1> HIDE DEF c
<1>4. Len(comps) = 1 /\ comps[1] = c /\ open = 1
  BY <1>1 DEF c, CallsInit
<1>5. CallsInv
  BY CallsInitInv
<1>6. \A j \in 1..Len(comps) : ~Runs(j, 1)
  BY <1>2, <1>4 DEF Runs
<1>7. SumOver(Spent(1)) = 0
  <2> DEFINE f == Spent(1)
  <2>1. f = [k \in 1..Len(c.children) |-> GasUsed(c.children[k])]
    BY <1>4 DEF Spent
  <2>2. Len(c.children) = 0 /\ 1..0 = {}
    BY <1>2
  <2>3. DOMAIN f = {} /\ f \in [{} -> Int]
    BY <2>1, <2>2
  <2> HIDE DEF f
  <2>4. Summable(f)
    BY <2>3, FS_EmptySet DEF Summable
  <2>5. SumOver(f) = 0
    BY <2>3, <2>4, SumAll
  <2> QED
    BY <2>5 DEF f
<1>8. GasRight
  BY <1>3, <1>4, <1>6, <1>7 DEF GasRight, Passes
<1>9. TreeRight
  BY <1>2, <1>4 DEF TreeRight, Nested, Listed
<1> QED
  BY <1>5, <1>8, <1>9 DEF ProfileInv

\* Fetching an opcode and paying for it.
LEMMA Consumed ==
  ASSUME NEW c, IsComp(c), c.pc \in Int, NEW n, NEW d, d = ConsumeGas(Fetch(c), n)
  PROVE  /\ IsComp(d) /\ SameNode(c, d)
         /\ d.trace = Append(c.trace, c.pc) /\ d.used = Add(c.used, c.pc, n)
         /\ d.left = c.left - n /\ d.gas = c.gas /\ d.childPcs = c.childPcs
         /\ d.refunded = c.refunded /\ d.pc = c.pc + 1
<1> DEFINE f == Fetch(c)
<1>1. /\ IsComp(f) /\ SameNode(c, f)
      /\ f.trace = Append(c.trace, c.pc) /\ f.used = c.used
      /\ f.left = c.left /\ f.gas = c.gas /\ f.childPcs = c.childPcs
      /\ f.refunded = c.refunded /\ f.pc = c.pc + 1
  BY DEF IsComp, SameNode, CompFields, Fetch
<1> HIDE DEF f
<1>2. d = ConsumeGas(f, n)
  BY DEF f
<1>3. /\ IsComp(d) /\ SameNode(f, d)
      /\ d.trace = f.trace /\ d.used = Add(f.used, f.pc - 1, n)
      /\ d.left = f.left - n /\ d.gas = f.gas /\ d.childPcs = f.childPcs
      /\ d.refunded = f.refunded /\ d.pc = f.pc
  BY <1>1, <1>2 DEF IsComp, SameNode, CompFields, ConsumeGas
<1>4. f.pc - 1 = c.pc
  BY <1>1
<1> QED
  BY <1>1, <1>3, <1>4 DEF SameNode

\* The end of a computation keeps the invariant.
LEMMA ProfileOver ==
  ASSUME GasRight, TreeRight, CallsInv, NEW c, c = comps[open], open # 0,
         NEW d, Over(d), EndsAt(c, d, c.pc), d.parent = c.parent
  PROVE  GasRight' /\ TreeRight'
<1>1. open \in 1..Len(comps) /\ IsComp(c) /\ Own(c) /\ c.end = "open"
  <2>1. open \in 1..Len(comps) /\ CompTyped(open) /\ comps[open].end = "open" /\ Own(comps[open])
    BY DEF CallsInv, CompTypes, OpenInLine, GasRight
  <2> QED
    BY <2>1 DEF CompTyped
<1>2. Own(d) /\ Passed(d) = Passed(c)
  BY <1>1, OwnEnds
<1>3. /\ d.parent = comps[open].parent /\ d.children = comps[open].children /\ d.gas = comps[open].gas
      /\ d.end # "open" /\ Passed(d) = Passed(comps[open])
  BY <1>1, <1>2 DEF EndsAt
<1>4. GasRight'
  BY <1>2, <1>3, OverGas
<1>5. TreeRight'
  BY <1>3, OverTree
<1> QED
  BY <1>4, <1>5

\* Every step keeps it.
LEMMA ProfileNext ==
  ASSUME ProfileInv, CallsNext
  PROVE  ProfileInv'
<1> DEFINE c == Current
           N == Len(comps)
<1>1. open # 0 => /\ open \in 1..N /\ IsComp(c) /\ c = comps[open] /\ c.end = "open"
                  /\ Own(c) /\ c.pc \in 0..4 /\ c.left \in Int /\ CompTyped(open)
  <2> SUFFICES ASSUME open # 0
               PROVE /\ open \in 1..N /\ IsComp(c) /\ c = comps[open] /\ c.end = "open"
                     /\ Own(c) /\ c.pc \in 0..4 /\ c.left \in Int /\ CompTyped(open)
    OBVIOUS
  <2>1. open \in 1..N /\ CompTyped(open) /\ comps[open].end = "open" /\ Own(comps[open])
    BY DEF ProfileInv, CallsInv, CompTypes, OpenInLine, GasRight
  <2> QED
    BY <2>1 DEF CompTyped, Current, Own
<1>2. CallsInv'
  BY CallsNextInv DEF ProfileInv
<1>i. CallsInv /\ GasRight /\ TreeRight
  BY DEF ProfileInv
<1>3. ASSUME NEW refund \in 0..1, NEW target \in {0, 1, 3, 4}, Work(refund, target) PROVE GasRight' /\ TreeRight'
  <2> DEFINE q == c.pc
             f == ConsumeGas(Fetch(c), CostOf(q))
             d == RefundGas(f, refund)
             e == [d EXCEPT !.pc = target]
  <2>1. /\ open # 0 /\ q \in {0, 3} /\ open' = open /\ (refund = 0 \/ q = 3)
        /\ comps' = [comps EXCEPT ![open] = e]
    BY <1>3 DEF Work, Step
  <2>2. CostOf(q) \in Int /\ q \in 0..4
    BY <2>1, CostIs
  <2>3. /\ IsComp(f) /\ SameNode(c, f)
        /\ f.trace = Append(c.trace, q) /\ f.used = Add(c.used, q, CostOf(q))
        /\ f.left = c.left - CostOf(q) /\ f.gas = c.gas /\ f.childPcs = c.childPcs
        /\ f.refunded = c.refunded /\ f.pc = q + 1
    BY <1>1, <2>1, Consumed
  <2> HIDE DEF f, q
  <2>4. /\ IsComp(d) /\ SameNode(f, d)
        /\ d.trace = f.trace /\ d.used = f.used /\ d.left = f.left /\ d.gas = f.gas
        /\ d.childPcs = f.childPcs
        /\ d.refunded = IF refund = 0 THEN c.refunded ELSE Add(c.refunded, f.pc - 1, refund)
    BY <2>3 DEF IsComp, SameNode, CompFields, RefundGas
  <2> HIDE DEF d
  <2>5. /\ IsComp(e) /\ SameNode(d, e)
        /\ e.trace = d.trace /\ e.used = d.used /\ e.left = d.left /\ e.gas = d.gas
        /\ e.childPcs = d.childPcs /\ e.refunded = d.refunded /\ e.pc = target
    BY <2>4 DEF IsComp, SameNode, CompFields
  <2> HIDE DEF e
  <2>6. /\ e.refunded \in [DOMAIN e.refunded -> Int] /\ DOMAIN e.refunded \subseteq {3}
        /\ DOMAIN e.refunded # {} => q = 3 \/ DOMAIN c.refunded # {}
    <3>1. Numbers(c.refunded) /\ DOMAIN c.refunded \subseteq {3}
      BY <1>1, <2>1 DEF Own, Numbers
    <3>2. CASE refund = 0
      BY <2>4, <2>5, <3>1, <3>2 DEF Numbers
    <3>3. CASE refund # 0
      <4> DEFINE r == c.refunded
                 w == Add(r, 3, refund)
      <4>1. q = 3 /\ f.pc - 1 = 3
        BY <2>1, <2>3, <3>3
      <4>2. e.refunded = w /\ Numbers(r)
        BY <2>4, <2>5, <3>1, <3>3, <4>1
      <4> HIDE DEF r
      <4>3. refund \in Int /\ w = Add(r, 3, refund)
        OBVIOUS
      <4> HIDE DEF w
      <4>4. /\ DOMAIN Add(r, 3, refund) = DOMAIN r \union {3}
            /\ Add(r, 3, refund) \in [DOMAIN r \union {3} -> Int]
        BY <4>2, <4>3, AddIs
      <4>5. DOMAIN w = DOMAIN r \union {3} /\ w \in [DOMAIN r \union {3} -> Int]
        BY <4>3, <4>4
      <4> QED
        BY <3>1, <4>1, <4>2, <4>4, <4>5 DEF r
    <3> QED
      BY <3>2, <3>3
  <2>7. Executes(c, e, q, CostOf(q))
    BY <1>1, <2>1, <2>2, <2>3, <2>4, <2>5, <2>6 DEF Executes, SameNode, q
  <2>8. Own(e) /\ Passed(c) \in Int /\ Passed(e) = Passed(c) + (IF q = 1 THEN CostOf(q) - CostOf(1) ELSE 0)
    BY <1>1, <2>1, <2>7, OwnStep
  <2>9. Passed(e) = Passed(c)
    BY <2>1, <2>8
  <2>10. SameNode(comps[open], e) /\ e.gas = comps[open].gas /\ Passed(e) = Passed(comps[open])
    BY <1>1, <2>1, <2>3, <2>4, <2>5, <2>9 DEF SameNode
  <2> HIDE DEF c
  <2>11. GasRight'
    BY <1>i, <2>1, <2>8, <2>10, LocalGas
  <2>12. TreeRight'
    BY <1>i, <2>1, <2>10, LocalTree
  <2> QED
    BY <2>11, <2>12
<1>4. ASSUME NEW who \in Kinds, Call(who) PROVE GasRight' /\ TreeRight'
  <2> DEFINE given == (c.left - CostOf(1)) \div 2
             n == CostOf(1) + given
             d == ConsumeGas(Fetch(c), n)
             e == NewComp(who, open, given)
  <2>1. /\ open # 0 /\ c.pc = 1 /\ open' = Len(comps) + 1
        /\ comps' = Append([comps EXCEPT ![open] = d], e)
    BY <1>4 DEF Call, Step
  <2>2. CostOf(1) \in Int /\ given \in Int /\ n \in Int
    <3>1. CostOf(1) \in Int
      BY CostIs
    <3> DEFINE k == CostOf(1)
    <3>2. c.left \in Int /\ k \in Int
      BY <1>1, <2>1, <3>1
    <3> HIDE DEF k
    <3>3. (c.left - k) \div 2 \in Int /\ k + ((c.left - k) \div 2) \in Int
      BY <3>2
    <3> QED
      BY <3>1, <3>3 DEF k
  <2> HIDE DEF given
  <2>3. /\ IsComp(d) /\ SameNode(c, d)
        /\ d.trace = Append(c.trace, 1) /\ d.used = Add(c.used, 1, n)
        /\ d.left = c.left - n /\ d.gas = c.gas /\ d.childPcs = c.childPcs
        /\ d.refunded = c.refunded /\ d.pc = 2
    <3> HIDE DEF n
    <3>1. c.pc \in Int /\ c.pc + 1 = 2
      BY <2>1
    <3> QED
      BY <1>1, <2>1, <3>1, Consumed
  <2> HIDE DEF d
  <2>4. Executes(c, d, 1, n)
    <3> HIDE DEF n
    <3>1. /\ c.refunded \in [DOMAIN c.refunded -> Int] /\ DOMAIN c.refunded \subseteq {3}
      BY <1>1, <2>1 DEF Own
    <3> QED
      BY <1>1, <2>1, <2>2, <2>3, <3>1 DEF Executes, SameNode
  <2>5. Own(d) /\ Passed(c) \in Int /\ Passed(d) = Passed(c) + given
    <3>1. Own(d) /\ Passed(c) \in Int /\ Passed(d) = Passed(c) + (n - CostOf(1))
      <4> HIDE DEF n
      <4> QED
        BY <1>1, <2>1, <2>4, OwnStep
    <3>2. n - CostOf(1) = given
      BY <2>2
    <3> QED
      BY <3>1, <3>2
  <2>6. /\ e.parent = open /\ e.children = <<>> /\ e.end = "open"
        /\ Own(e) /\ Passed(e) = 0 /\ e.gas = given
    BY <2>2, NewCompFields, OwnNew
  <2>7. SameNode(comps[open], d) /\ d.gas = comps[open].gas /\ Passed(d) = Passed(comps[open]) + given
    BY <1>1, <2>1, <2>3, <2>5
  <2> HIDE DEF c, e
  <2>8. GasRight'
    BY <1>i, <2>1, <2>2, <2>5, <2>6, <2>7, CallGas
  <2>9. TreeRight'
    BY <1>i, <2>1, <2>6, <2>7, CallTree
  <2> QED
    BY <2>8, <2>9
<1>5. ASSUME NEW ignored \in BOOLEAN, Test(ignored) PROVE GasRight' /\ TreeRight'
  <2> DEFINE child == Last(c.children)
             d == ConsumeGas(Fetch(c), CostOf(2))
             pc == IF (Failed(child) /\ ~ignored) \/ c.who = "proxy" THEN 4 ELSE 3
             cause == IF Failed(child) /\ ~ignored THEN child ELSE 0
             e == [d EXCEPT !.pc = pc, !.cause = cause]
  <2>1. /\ open # 0 /\ c.pc = 2 /\ open' = open
        /\ comps' = [comps EXCEPT ![open] = e]
    BY <1>5 DEF Test, Step
  <2>2. CostOf(2) \in Int /\ pc \in {3, 4}
    BY CostIs
  <2> HIDE DEF pc, cause, child
  <2>3. /\ IsComp(d) /\ SameNode(c, d)
        /\ d.trace = Append(c.trace, 2) /\ d.used = Add(c.used, 2, CostOf(2))
        /\ d.left = c.left - CostOf(2) /\ d.gas = c.gas /\ d.childPcs = c.childPcs
        /\ d.refunded = c.refunded
    <3>1. c.pc \in Int
      BY <2>1
    <3> QED
      BY <1>1, <2>1, <3>1, Consumed
  <2> HIDE DEF d
  <2>4. /\ IsComp(e) /\ SameNode(d, e)
        /\ e.trace = d.trace /\ e.used = d.used /\ e.left = d.left /\ e.gas = d.gas
        /\ e.childPcs = d.childPcs /\ e.refunded = d.refunded /\ e.pc = pc
    BY <2>3 DEF IsComp, SameNode, CompFields
  <2> HIDE DEF e
  <2>5. Executes(c, e, 2, CostOf(2))
    <3>1. /\ c.refunded \in [DOMAIN c.refunded -> Int] /\ DOMAIN c.refunded \subseteq {3}
      BY <1>1, <2>1 DEF Own
    <3> QED
      BY <1>1, <2>1, <2>2, <2>3, <2>4, <3>1 DEF Executes, SameNode
  <2>6. Own(e) /\ Passed(c) \in Int /\ Passed(e) = Passed(c) + 0
    BY <1>1, <2>1, <2>5, OwnStep
  <2>7. SameNode(comps[open], e) /\ e.gas = comps[open].gas /\ Passed(e) = Passed(comps[open])
    BY <1>1, <2>1, <2>3, <2>4, <2>6 DEF SameNode
  <2> HIDE DEF c
  <2>8. GasRight'
    BY <1>i, <2>1, <2>6, <2>7, LocalGas
  <2>9. TreeRight'
    BY <1>i, <2>1, <2>7, LocalTree
  <2> QED
    BY <2>8, <2>9
<1>f. open # 0 => /\ IsComp(Fetch(c)) /\ SameNode(c, Fetch(c))
                  /\ Fetch(c).trace = Append(c.trace, c.pc) /\ Fetch(c).used = c.used
                  /\ Fetch(c).left = c.left /\ Fetch(c).gas = c.gas /\ Fetch(c).childPcs = c.childPcs
                  /\ Fetch(c).refunded = c.refunded
  BY <1>1 DEF IsComp, SameNode, CompFields, Fetch
<1>7. ASSUME Return PROVE GasRight' /\ TreeRight'
  <2> DEFINE d == [Fetch(c) EXCEPT !.end = "ok"]
  <2>1. open # 0 /\ c.pc = 4 /\ Over(d)
    BY <1>7 DEF Return, Step
  <2>2. EndsAt(c, d, c.pc) /\ d.parent = c.parent
    BY <1>1, <1>f, <2>1 DEF EndsAt, IsComp, CompFields, SameNode
  <2>3. c = comps[open]
    BY <1>1, <2>1
  <2> HIDE DEF c, d
  <2> QED
    BY <1>i, <2>1, <2>2, <2>3, ProfileOver
<1>8. ASSUME NEW dev \in BOOLEAN, Revert(dev) PROVE GasRight' /\ TreeRight'
  <2> DEFINE d == [Fetch(c) EXCEPT !.end = "revert", !.dev = IF dev THEN open ELSE 0,
                                   !.cause = IF @ = 0 THEN open ELSE @]
  <2>1. open # 0 /\ c.pc = 4 /\ Over(d)
    BY <1>8 DEF Revert, Step
  <2>2. EndsAt(c, d, c.pc) /\ d.parent = c.parent
    BY <1>1, <1>f, <2>1 DEF EndsAt, IsComp, CompFields, SameNode
  <2>3. c = comps[open]
    BY <1>1, <2>1
  <2> HIDE DEF c, d
  <2> QED
    BY <1>i, <2>1, <2>2, <2>3, ProfileOver
<1>9. ASSUME OutOfGas PROVE GasRight' /\ TreeRight'
  <2> DEFINE d == [Fetch(c) EXCEPT !.end = "burn", !.left = 0, !.cause = open]
  <2>1. open # 0 /\ Over(d)
    BY <1>9 DEF OutOfGas, Step
  <2>2. EndsAt(c, d, c.pc) /\ d.parent = c.parent
    BY <1>1, <1>f, <2>1 DEF EndsAt, IsComp, CompFields, SameNode
  <2>3. c = comps[open]
    BY <1>1, <2>1
  <2> HIDE DEF c, d
  <2> QED
    BY <1>i, <2>1, <2>2, <2>3, ProfileOver
<1>10. GasRight' /\ TreeRight'
  BY <1>3, <1>4, <1>5, <1>7, <1>8, <1>9 DEF CallsNext
<1> QED
  BY <1>2, <1>10 DEF ProfileInv

\* Of every computation, in any call: the meter books what its opcodes cost and what it
\* has passed on to other computations, and the computations form the tree of the calls.
THEOREM ProfileInvHolds == CallsSpec => []ProfileInv
<1>1. CallsInit => ProfileInv
  BY ProfileInit
<1>2. ProfileInv /\ [CallsNext]_callVars => ProfileInv'
  <2>1. ASSUME ProfileInv, UNCHANGED callVars PROVE ProfileInv'
    <3>1. CallsInv'
      BY <2>1 DEF callVars, ProfileInv, CallsInv, CompTypes, CompTyped, OpenInLine, WaitsInLine, CausesRight,
                CauseRight, Failed
    <3>2. comps' = comps /\ open' = open
      BY <2>1 DEF callVars
    <3>3. GasRight'
      BY <2>1, <3>2 DEF ProfileInv, GasRight, Passes, Spent, GasUsed, Runs
    <3>4. TreeRight'
      BY <2>1, <3>2 DEF ProfileInv, TreeRight, Nested, Listed, Runs
    <3> QED
      BY <3>1, <3>3, <3>4 DEF ProfileInv
  <2> QED
    BY <2>1, ProfileNext
<1> QED
  BY <1>1, <1>2, PTL DEF CallsSpec

(***************************************************************************)
(* When the call is over                                                   *)
(***************************************************************************)

\* All computations are over, and have passed on what their children used.
LEMMA AllOver ==
  ASSUME ProfileInv, open = 0
  PROVE  \A i \in 1..Len(comps) : comps[i].end # "open" /\ Passed(comps[i]) = SumOver(Spent(i))
<1> DEFINE n == Len(comps)
           Bad == {i \in 1..n : comps[i].end = "open"}
<1>1. /\ n \in Nat /\ \A i \in 1..n : comps[i].parent \in 0..(i - 1)
  BY DEF ProfileInv, CallsInv, CompTypes, CompTyped
<1>2. ASSUME Bad # {} PROVE FALSE
  <2>1. Bad \in SUBSET (0..n)
    BY <1>1
  <2>2. PICK i \in Bad : \A k \in Bad : k <= i
    <3> HIDE DEF Bad, n
    <3> QED
      BY <1>1, <1>2, <2>1, Greatest
  <2>3. i \in 1..n /\ comps[i].end = "open" /\ i # open
    BY <1>1
  <2>4. PICK j \in 1..n : Runs(j, i)
    BY <2>3 DEF ProfileInv, TreeRight, Listed
  <2>5. j \in Bad /\ comps[j].parent = i
    BY <2>4 DEF Runs
  <2>6. i < j
    BY <1>1, <2>5
  <2> QED
    BY <1>1, <2>2, <2>3, <2>5, <2>6
<1>3. \A i \in 1..n : comps[i].end # "open"
  BY <1>2
<1>4. ASSUME NEW i \in 1..n PROVE Passed(comps[i]) = SumOver(Spent(i))
  <2>1. \A j \in 1..n : ~Runs(j, i)
    BY <1>3 DEF Runs
  <2>2. Passes(i)
    BY DEF ProfileInv, GasRight
  <2> QED
    BY <2>1, <2>2 DEF Passes
<1> QED
  BY <1>3, <1>4

(***************************************************************************)
(* Recursion from a computation to its children                            *)
(***************************************************************************)

\* The values at the computations after i.
After(g, i, n) == [y \in (i + 1)..n |-> g[y]]
Steps(V, n, comb) ==
  /\ n \in Nat
  /\ \A i \in 1..n : \A h \in [(i + 1)..n -> V] : comb[<<i, h>>] \in V

\* A function defined by recursion from a computation to those after it exists.
LEMMA TreeRecursion ==
  ASSUME NEW V, NEW n, NEW comb, Steps(V, n, comb)
  PROVE  \E g \in [1..n -> V] : \A i \in 1..n : g[i] = comb[<<i, After(g, i, n)>>]
<1> DEFINE S == 1..n
           m == [i \in S |-> n - i]
<1>1. n \in Nat /\ m \in [S -> 0..n]
  BY DEF Steps
<1>2. \A i \in S : Below(S, m, i) = (i + 1)..n
  BY <1>1 DEF Below
<1>3. Builds(S, V, n, m, comb)
  <2> HIDE DEF m
  <2> QED
    BY <1>1, <1>2 DEF Builds, Steps
<1>4. PICK g \in [S -> V] : Solves(g, S, m, comb)
  <2> HIDE DEF S, m
  <2> QED
    BY <1>3, RecursionExists
<1>5. ASSUME NEW i \in S PROVE g[i] = comb[<<i, After(g, i, n)>>]
  <2> HIDE DEF m
  <2> QED
    BY <1>2, <1>4 DEF Solves, After
<1> QED
  BY <1>4, <1>5

\* GasRefund is this function.
RefundStep(f, i) ==
  IF Failed(i) THEN 0
  ELSE SumOver(comps[i].refunded)
         + SumOver([k \in DOMAIN comps[i].children |-> f[comps[i].children[k]]])

\* The refunds are the values of a recursive function.
LEMMA GasRefundIs == GasRefund = CHOOSE f : f = [i \in DOMAIN comps |-> RefundStep(f, i)]
BY DEF GasRefund, RefundStep

\* The children of a computation, each of which is a computation after it.
LEMMA ChildrenAfter ==
  ASSUME CallsInv, NEW i \in 1..Len(comps)
  PROVE  /\ Len(comps) \in Nat /\ DOMAIN comps = 1..Len(comps)
         /\ Len(comps[i].children) \in Nat /\ DOMAIN comps[i].children = 1..Len(comps[i].children)
         /\ \A k \in 1..Len(comps[i].children) :
              comps[i].children[k] \in (i + 1)..Len(comps) /\ comps[i].children[k] \in 1..Len(comps)
<1>1. Len(comps) \in Nat /\ DOMAIN comps = 1..Len(comps)
  BY DEF CallsInv, CompTypes
<1>2. comps[i].children \in Seq((i + 1)..Len(comps))
  BY DEF CallsInv, CompTypes, CompTyped
<1>3. (i + 1)..Len(comps) \subseteq 1..Len(comps)
  BY <1>1
<1> QED
  BY <1>1, <1>2, <1>3

\* Numbers for the children.
LEMMA ChildSums ==
  ASSUME CallsInv, NEW i \in 1..Len(comps), NEW h,
         \A y \in (i + 1)..Len(comps) : h[y] \in Int
  PROVE  LET f == [k \in DOMAIN comps[i].children |-> h[comps[i].children[k]]]
         IN Summable(f) /\ SumOver(f) \in Int
<1> DEFINE c == comps[i].children
           f == [k \in DOMAIN c |-> h[c[k]]]
<1>1. /\ Len(c) \in Nat /\ DOMAIN c = 1..Len(c) /\ \A k \in 1..Len(c) : c[k] \in (i + 1)..Len(comps)
  BY ChildrenAfter
<1> HIDE DEF c
<1>2. DOMAIN f = 1..Len(c) /\ f \in [1..Len(c) -> Int]
  BY <1>1
<1>3. IsFiniteSet(1..Len(c))
  BY <1>1, FS_Interval
<1>4. Summable(f)
  BY <1>2, <1>3 DEF Summable
<1>5. SumOver(f) \in Int
  <2> HIDE DEF f
  <2> QED
    BY <1>4, SumAll
<1> QED
  BY <1>4, <1>5 DEF c

\* The refunds of a computation are of opcode 3.
LEMMA RefundedSum ==
  ASSUME NEW c, Own(c)
  PROVE  SumOver(c.refunded) = At(c.refunded, 3) /\ SumOver(c.refunded) \in Int
<1> DEFINE r == c.refunded
<1>1. r \in [DOMAIN r -> Int] /\ DOMAIN r \subseteq {3}
  BY DEF Own
<1> HIDE DEF r
<1>2. IsFiniteSet(DOMAIN r)
  <2>1. IsFiniteSet({3}) /\ DOMAIN r \in SUBSET {3}
    BY <1>1, FS_Singleton
  <2> QED
    BY <2>1, FS_Subset
<1>3. Summable(r)
  BY <1>1, <1>2 DEF Summable
<1>4. SumOver(r) \in Int /\ (DOMAIN r = {} => SumOver(r) = 0)
  BY <1>3, SumAll
<1>5. CASE DOMAIN r # {}
  <2> DEFINE e == PartOf(r, {})
  <2>1. Summable(e) /\ DOMAIN e = {}
    BY <1>3, PartSummable
  <2>2. 3 \in DOMAIN r /\ DOMAIN e = DOMAIN r \ {3}
    BY <1>1, <1>5, <2>1
  <2> HIDE DEF e
  <2>3. SumOver(r) = SumOver(e) + r[3]
    BY <1>3, <2>1, <2>2, SumInsert
  <2>4. SumOver(e) = 0 /\ r[3] \in Int
    BY <1>1, <2>1, <2>2, SumAll
  <2> QED
    BY <1>4, <2>2, <2>3, <2>4 DEF r, At
<1>6. CASE DOMAIN r = {}
  BY <1>4, <1>6 DEF r, At
<1> QED
  BY <1>4, <1>5, <1>6 DEF r

\* They are numbers.
LEMMA GasRefundInt ==
  ASSUME ProfileInv
  PROVE  \A i \in 1..Len(comps) : GasRefund[i] \in Int
<1> DEFINE n == Len(comps)
           comb == [z \in (1..n) \X UNION {[T -> Int] : T \in SUBSET (1..n)} |-> RefundStep(z[2], z[1])]
<1>1. n \in Nat /\ DOMAIN comps = 1..n
  BY DEF ProfileInv, CallsInv, CompTypes
<1>2. ASSUME NEW i \in 1..n, NEW h \in [(i + 1)..n -> Int]
      PROVE  comb[<<i, h>>] = RefundStep(h, i) /\ RefundStep(h, i) \in Int
  <2>1. (i + 1)..n \in SUBSET (1..n)
    BY <1>1
  <2>2. comb[<<i, h>>] = RefundStep(h, i)
    BY <2>1
  <2>3. SumOver(comps[i].refunded) \in Int
    BY RefundedSum DEF ProfileInv, GasRight
  <2>4. SumOver([k \in DOMAIN comps[i].children |-> h[comps[i].children[k]]]) \in Int
    BY ChildSums DEF ProfileInv
  <2>5. RefundStep(h, i) \in Int
    BY <2>3, <2>4 DEF RefundStep
  <2> QED
    BY <2>2, <2>5
<1>3. Steps(Int, n, comb)
  <2> HIDE DEF comb
  <2> QED
    BY <1>1, <1>2 DEF Steps
<1>4. PICK g \in [1..n -> Int] : \A i \in 1..n : g[i] = comb[<<i, After(g, i, n)>>]
  <2> HIDE DEF comb, n
  <2> QED
    BY <1>3, TreeRecursion
<1>5. ASSUME NEW i \in 1..n PROVE g[i] = RefundStep(g, i)
  <2> DEFINE h == After(g, i, n)
  <2>1. h \in [(i + 1)..n -> Int] /\ \A y \in (i + 1)..n : h[y] = g[y]
    BY <1>1 DEF After
  <2>2. g[i] = RefundStep(h, i)
    <3> HIDE DEF comb, h
    <3>1. g[i] = comb[<<i, h>>]
      BY <1>4 DEF h
    <3> QED
      BY <1>2, <2>1, <3>1
  <2> HIDE DEF h
  <2>3. \A k \in DOMAIN comps[i].children : h[comps[i].children[k]] = g[comps[i].children[k]]
    BY <2>1, ChildrenAfter DEF ProfileInv
  <2>4. RefundStep(h, i) = RefundStep(g, i)
    BY <2>3 DEF RefundStep
  <2> QED
    BY <2>2, <2>4
<1>6. g = [i \in DOMAIN comps |-> RefundStep(g, i)]
  BY <1>1, <1>5
<1>7. GasRefund = [i \in DOMAIN comps |-> RefundStep(GasRefund, i)]
  BY <1>6, GasRefundIs
<1> DEFINE G == GasRefund
<1>8. ASSUME NEW i \in 1..n PROVE G[i] = RefundStep(G, i)
  BY <1>1, <1>7
<1> DEFINE Bad == {i \in 1..n : G[i] \notin Int}
<1>9. ASSUME Bad # {} PROVE FALSE
  <2>1. Bad \in SUBSET (0..n)
    BY <1>1
  <2>2. PICK i \in Bad : \A k \in Bad : k <= i
    <3> HIDE DEF Bad, n
    <3> QED
      BY <1>1, <1>9, <2>1, Greatest
  <2>3. i \in 1..n /\ G[i] \notin Int
    OBVIOUS
  <2>4. \A y \in (i + 1)..n : y \in 1..n /\ ~(y <= i)
    BY <1>1, <2>3
  <2>5. \A y \in (i + 1)..n : G[y] \in Int
    BY <2>2, <2>4
  <2>6. SumOver([k \in DOMAIN comps[i].children |-> G[comps[i].children[k]]]) \in Int
    <3> HIDE DEF G
    <3> QED
      BY <2>3, <2>5, ChildSums DEF ProfileInv
  <2>7. SumOver(comps[i].refunded) \in Int
    BY <2>3, RefundedSum DEF ProfileInv, GasRight
  <2>8. RefundStep(G, i) \in Int
    BY <2>6, <2>7 DEF RefundStep
  <2> QED
    BY <1>8, <2>3, <2>8
<1> QED
  BY <1>9

(***************************************************************************)
(* The net gas of a computation                                            *)
(***************************************************************************)

\* Zeros add up to nothing.
LEMMA SumZeros ==
  ASSUME NEW f, Summable(f), \A x \in DOMAIN f : f[x] = 0
  PROVE  SumOver(f) = 0
<1> DEFINE d == [x \in DOMAIN f |-> f[x] - f[x]]
<1>1. Summable(d) /\ SumOver(d) = SumOver(f) - SumOver(f)
  BY SumMinus
<1>2. d = f
  BY DEF Summable
<1>3. SumOver(f) \in Int
  BY SumAll
<1> QED
  BY <1>1, <1>2, <1>3

\* A sum over some of the opcodes is one over all of them.
Spread(f, g) == \A p \in 0..4 : g[p] = IF p \in DOMAIN f THEN f[p] ELSE 0

\* It has one summand for each opcode.
LEMMA SumOpcodes ==
  ASSUME NEW f, DOMAIN f \subseteq 0..4, f \in [DOMAIN f -> Int],
         NEW g, g \in [0..4 -> Int], Spread(f, g)
  PROVE  SumOver(f) = g[0] + g[1] + g[2] + g[3] + g[4]
<1> DEFINE D == DOMAIN f
           R == (0..4) \ D
<1>1. IsFiniteSet(0..4)
  <2>1. 0 \in Int /\ 4 \in Int
    OBVIOUS
  <2> QED
    BY <2>1, FS_Interval
<1>2. Summable(g) /\ DOMAIN g = 0..4
  BY <1>1 DEF Summable
<1>3. D \in SUBSET (0..4) /\ R \in SUBSET (0..4) /\ D \union R = 0..4 /\ D \cap R = {}
  OBVIOUS
<1>4. Summable(PartOf(g, D)) /\ Summable(PartOf(g, R))
  BY <1>2, <1>3, PartSummable
<1>5. SumOver(g) = SumOver(PartOf(g, D)) + SumOver(PartOf(g, R))
  <2> HIDE DEF D, R
  <2> QED
    BY <1>2, <1>3, SumUnion
<1>6. PartOf(g, D) = f
  <2>1. \A p \in D : g[p] = f[p]
    BY <1>3 DEF Spread
  <2> QED
    BY <2>1 DEF PartOf
<1>7. SumOver(PartOf(g, R)) = 0
  <2> DEFINE e == PartOf(g, R)
  <2>1. Summable(e) /\ DOMAIN e = R
    BY <1>4 DEF PartOf
  <2>2. \A p \in DOMAIN e : e[p] = 0
    BY <1>3 DEF PartOf, Spread
  <2> HIDE DEF e
  <2> QED
    BY <2>1, <2>2, SumZeros DEF e
<1>8. SumOver(f) = SumOver(g)
  <2>1. SumOver(f) \in Int
    BY <1>4, <1>6, SumAll
  <2> QED
    BY <1>5, <1>6, <1>7, <2>1
<1> DEFINE e(k) == PartOf(g, k..4)
<1>9. ASSUME NEW k \in 0..5
      PROVE  /\ Summable(e(k)) /\ DOMAIN e(k) = k..4 /\ SumOver(e(k)) \in Int
             /\ \A p \in k..4 : e(k)[p] = g[p]
  <2>1. k..4 \in SUBSET (0..4)
    OBVIOUS
  <2>2. Summable(e(k)) /\ DOMAIN e(k) = k..4
    BY <1>2, <2>1, PartSummable
  <2>3. \A p \in k..4 : e(k)[p] = g[p]
    BY DEF PartOf
  <2> HIDE DEF e
  <2> QED
    BY <2>2, <2>3, SumAll
<1>10. ASSUME NEW k \in 0..4 PROVE SumOver(e(k)) = SumOver(e(k + 1)) + g[k]
  <2>1. k \in 0..5 /\ k + 1 \in 0..5 /\ (k + 1)..4 = (k..4) \ {k} /\ k \in k..4
    OBVIOUS
  <2> DEFINE a == e(k)
             b == e(k + 1)
  <2>2. Summable(a) /\ DOMAIN a = k..4 /\ a[k] = g[k]
    BY <1>9, <2>1
  <2>3. Summable(b) /\ DOMAIN b = (k + 1)..4 /\ \A p \in (k + 1)..4 : b[p] = g[p]
    BY <1>9, <2>1
  <2>4. \A p \in DOMAIN b : b[p] = a[p]
    <3>1. \A p \in k..4 : a[p] = g[p]
      BY <1>9, <2>1
    <3> SUFFICES ASSUME NEW p \in DOMAIN b PROVE b[p] = a[p]
      OBVIOUS
    <3>2. p \in (k + 1)..4 /\ p \in k..4
      BY <2>1, <2>3
    <3> HIDE DEF a, b
    <3> QED
      BY <2>3, <3>1, <3>2
  <2>5. DOMAIN b = DOMAIN a \ {k} /\ k \in DOMAIN a
    BY <2>1, <2>2, <2>3
  <2> HIDE DEF a, b
  <2>6. SumOver(a) = SumOver(b) + a[k]
    BY <2>2, <2>3, <2>4, <2>5, SumInsert
  <2> QED
    BY <2>2, <2>6 DEF a, b
<1>11. SumOver(e(5)) = 0
  <2>1. DOMAIN e(5) = {} /\ Summable(e(5))
    BY <1>9
  <2> HIDE DEF e
  <2> QED
    BY <2>1, SumAll
<1>12. e(0) = g
  BY <1>2 DEF PartOf
<1> HIDE DEF e
<1>13. /\ SumOver(e(0)) = SumOver(e(1)) + g[0] /\ SumOver(e(1)) = SumOver(e(2)) + g[1]
       /\ SumOver(e(2)) = SumOver(e(3)) + g[2] /\ SumOver(e(3)) = SumOver(e(4)) + g[3]
       /\ SumOver(e(4)) = SumOver(e(5)) + g[4]
  <2>1. 0 + 1 = 1 /\ 1 + 1 = 2 /\ 2 + 1 = 3 /\ 3 + 1 = 4 /\ 4 + 1 = 5
    OBVIOUS
  <2> QED
    BY <1>10, <2>1
<1>14. g[0] \in Int /\ g[1] \in Int /\ g[2] \in Int /\ g[3] \in Int /\ g[4] \in Int
  OBVIOUS
<1> QED
  BY <1>8, <1>11, <1>12, <1>13, <1>14

\* A computation that is over and whose opcodes are known where its children are noted.
Known(i) == comps[i].children # <<>> => 2 \in DOMAIN comps[i].used

\* The gas by opcode raises a KeyError only where gas ran out right after a CALL.
LEMMA RaisesIf ==
  ASSUME ProfileInv, open = 0, NEW i \in 1..Len(comps)
  PROVE  /\ ByPcRaises(i) <=> ~Known(i)
         /\ ~Known(i) => comps[i].end = "burn" /\ Last(comps[i].trace) = 2
<1> DEFINE c == comps[i]
<1>1. Own(c) /\ c.end # "open"
  BY AllOver DEF ProfileInv, GasRight
<1>2. Len(c.children) \in Nat /\ DOMAIN c.children = 1..Len(c.children)
  BY ChildrenAfter DEF ProfileInv
<1>3. c.children # <<>> <=> Len(c.children) # 0
  <2>1. c.children \in Seq((i + 1)..Len(comps))
    BY DEF ProfileInv, CallsInv, CompTypes, CompTyped
  <2> QED
    BY <2>1, EmptySeq
<1> HIDE DEF c
<1>4. /\ DOMAIN c.childPcs = 1..Len(c.children) /\ \A k \in DOMAIN c.childPcs : c.childPcs[k] = 2
      /\ DOMAIN c.refunded \subseteq {3}
  BY <1>1, <1>2 DEF Own
<1>5. ByPcRaises(i) <=> c.children # <<>> /\ 2 \notin DOMAIN c.used
  <2>1. ByPcRaises(i) <=> \E k \in 1..Len(c.children) : 2 \notin DOMAIN c.used
    BY <1>4 DEF ByPcRaises, c
  <2>2. (\E k \in 1..Len(c.children) : 2 \notin DOMAIN c.used) <=> Len(c.children) # 0 /\ 2 \notin DOMAIN c.used
    BY <1>2
  <2> QED
    BY <1>3, <2>1, <2>2
<1>6. c.children # <<>> /\ 2 \notin DOMAIN c.used =>
        c.end = "burn" /\ c.trace # <<>> /\ c.trace[Len(c.trace)] = 2
  BY <1>1 DEF Own
<1> QED
  BY <1>5, <1>6 DEF Known, Last, c

\* What is booked and what the executions cost, of the opcodes that did not run.
LEMMA NotRan ==
  ASSUME NEW c, Own(c), NEW p \in 0..4, ~Ran(c, p)
  PROVE  p \notin DOMAIN c.used /\ Times(c, p) = {} /\ Paid(c, p) = 0
<1>1. p \notin DOMAIN c.used
  BY DEF Own
<1>2. Times(c, p) = {}
  BY DEF Times, Ran
<1>3. Summable([n \in Times(c, p) |-> CostOf(p)])
  BY PaidSummable DEF Own
<1> DEFINE f == [n \in Times(c, p) |-> CostOf(p)]
<1>4. DOMAIN f = {} /\ Summable(f)
  BY <1>2, <1>3
<1> HIDE DEF f
<1>5. SumOver(f) = 0
  BY <1>4, SumAll
<1> QED
  BY <1>1, <1>2, <1>5 DEF f, Paid

\* The executions that the gas of a computation's own opcodes is of.
PaidFor(i) ==
  {n \in DOMAIN comps[i].trace :
     /\ comps[i].trace[n] \in Located(i) \ {4}
     /\ ~(comps[i].end = "burn" /\ n = Len(comps[i].trace))}

\* An opcode that the source map knows has a line as soon as it ran.
LEMMA LocatedIs ==
  ASSUME NEW i, Own(comps[i])
  PROVE  /\ Located(i) \subseteq 0..4
         /\ \A p \in {1, 2, 3} : p \in Located(i) <=> Ran(comps[i], p)
<1> DEFINE t == comps[i].trace
           K == {k \in DOMAIN t : \E j \in 1..k : t[j] \in Mapped}
<1>1. t \in Seq(0..4) /\ DOMAIN t = 1..Len(t) /\ Len(t) \in Nat
  BY DEF Own
<1>2. Located(i) = {t[k] : k \in K}
  BY DEF Located
<1> HIDE DEF t
<1>3. Located(i) \subseteq 0..4
  BY <1>1, <1>2
<1>4. ASSUME NEW p \in {1, 2, 3} PROVE p \in Located(i) <=> Ran(comps[i], p)
  <2>1. ASSUME p \in Located(i) PROVE Ran(comps[i], p)
    BY <1>2, <2>1 DEF Ran, t
  <2>2. ASSUME Ran(comps[i], p) PROVE p \in Located(i)
    <3>1. PICK n \in DOMAIN t : t[n] = p
      BY <2>2 DEF Ran, t
    <3>2. n \in 1..n /\ t[n] \in Mapped
      BY <1>1, <3>1 DEF Mapped
    <3>3. n \in K
      BY <3>2
    <3> QED
      BY <1>2, <3>1, <3>3
  <2> QED
    BY <2>1, <2>2
<1> QED
  BY <1>3, <1>4

\* What is paid for, by opcode.
LEMMA PaidSum ==
  ASSUME NEW i, Own(comps[i])
  PROVE  LET c == comps[i]
         IN SumOver([n \in PaidFor(i) |-> CostOf(c.trace[n])])
              = (IF 0 \in Located(i) THEN Paid(c, 0) ELSE 0) + Paid(c, 1) + Paid(c, 2) + Paid(c, 3)
<1> DEFINE c == comps[i]
           t == c.trace
           P == PaidFor(i)
           f == [n \in P |-> CostOf(t[n])]
           U(k) == {n \in P : t[n] >= k}
           L == Located(i)
           here(k) == IF k \in L THEN Paid(c, k) ELSE 0
<1>1. t \in Seq(0..4) /\ DOMAIN t = 1..Len(t) /\ Len(t) \in Nat
  BY DEF Own
<1>2. \A n : n \in P <=> /\ n \in DOMAIN t /\ t[n] \in L \ {4} /\ ~(c.end = "burn" /\ n = Len(t))
  BY DEF PaidFor
<1>3. P \subseteq 1..Len(t) /\ \A n \in P : t[n] \in 0..3 /\ t[n] \in L
  <2>1. \A n \in P : n \in 1..Len(t) /\ t[n] \in L \ {4}
    BY <1>1, <1>2
  <2>2. \A n \in P : t[n] \in 0..4
    BY <1>1, <2>1
  <2> HIDE DEF P, t, L
  <2> QED
    BY <2>1, <2>2
<1>4. Summable(f) /\ DOMAIN f = P
  <2>1. P \in SUBSET (1..Len(t))
    BY <1>3
  <2>2. IsFiniteSet(1..Len(t))
    BY <1>1, FS_Interval
  <2>3. IsFiniteSet(P)
    BY <2>1, <2>2, FS_Subset
  <2>4. \A n \in P : CostOf(t[n]) \in Int
    <3>1. \A n \in P : t[n] \in 0..4
      BY <1>3
    <3> HIDE DEF P, t
    <3> QED
      BY <3>1, CostIs
  <2> HIDE DEF P, t
  <2> QED
    BY <2>3, <2>4 DEF Summable
<1> HIDE DEF f, P
<1>5. ASSUME NEW k \in 0..3
      PROVE  /\ SumOver(PartOf(f, U(k))) = SumOver(PartOf(f, U(k + 1))) + here(k)
             /\ here(k) \in Int
  <2> DEFINE T == {n \in P : t[n] = k}
             e == PartOf(f, U(k))
  <2>1. U(k) = U(k + 1) \union T /\ U(k + 1) \cap T = {}
    <3>1. \A n \in P : t[n] \in Int
      BY <1>3
    <3>2. \A n \in P : /\ t[n] >= k <=> (t[n] >= k + 1 \/ t[n] = k)
                       /\ ~(t[n] >= k + 1 /\ t[n] = k)
      BY <3>1
    <3> HIDE DEF t
    <3> QED
      BY <3>2
  <2>2. U(k) \in SUBSET P /\ U(k + 1) \in SUBSET P /\ T \in SUBSET P /\ U(k + 1) \subseteq U(k) /\ T \subseteq U(k)
    BY <2>1
  <2> HIDE DEF U, T
  <2>3. Summable(e) /\ DOMAIN e = U(k)
    BY <1>4, <2>2, PartSummable
  <2>4. PartOf(e, U(k + 1)) = PartOf(f, U(k + 1)) /\ PartOf(e, T) = PartOf(f, T)
    BY <2>2 DEF PartOf
  <2>5. SumOver(e) = SumOver(PartOf(e, U(k + 1))) + SumOver(PartOf(e, T))
    <3> HIDE DEF e
    <3> QED
      BY <2>1, <2>3, SumUnion
  <2>6. SumOver(PartOf(f, T)) = here(k) /\ here(k) \in Int
    <3>1. CASE k \in L
      <4>1. \A n : n \in T <=> n \in Times(c, k)
        <5>1. \A n : n \in T <=> n \in P /\ t[n] = k
          BY DEF T
        <5>2. \A n : n \in Times(c, k) <=> n \in DOMAIN t /\ t[n] = k /\ ~(c.end = "burn" /\ n = Len(t))
          BY DEF Times
        <5>3. k # 4
          OBVIOUS
        <5> HIDE DEF L, t
        <5> QED
          BY <1>2, <3>1, <5>1, <5>2, <5>3
      <4>2. T = Times(c, k)
        BY <4>1
      <4>3. \A n \in T : f[n] = CostOf(k)
        BY <2>2 DEF f, T
      <4>4. PartOf(f, T) = [n \in Times(c, k) |-> CostOf(k)]
        BY <4>2, <4>3 DEF PartOf
      <4>5. Paid(c, k) \in Int
        <5>1. k \in 0..4
          OBVIOUS
        <5> QED
          BY <1>1, <5>1, PaidSummable
      <4> QED
        BY <3>1, <4>4, <4>5 DEF Paid
    <3>2. CASE k \notin L
      <4>1. T = {}
        BY <1>3, <3>2 DEF T
      <4> DEFINE b == PartOf(f, T)
      <4>2. Summable(b) /\ DOMAIN b = {}
        BY <1>4, <2>2, <4>1, PartSummable
      <4> HIDE DEF b
      <4>3. SumOver(b) = 0
        BY <4>2, SumAll
      <4> QED
        BY <3>2, <4>3 DEF b
    <3> QED
      BY <3>1, <3>2
  <2> HIDE DEF here
  <2> QED
    BY <2>4, <2>5, <2>6 DEF e
<1>6. U(0) = P /\ U(4) = {}
  BY <1>3
<1> DEFINE s(k) == SumOver(PartOf(f, U(k)))
<1>7. s(0) = SumOver(f)
  <2>1. PartOf(f, P) = f
    BY <1>4 DEF PartOf, Summable
  <2> QED
    BY <1>6, <2>1
<1>8. s(4) = 0
  <2> DEFINE b == PartOf(f, {})
  <2>1. {} \in SUBSET P
    OBVIOUS
  <2>2. Summable(b) /\ DOMAIN b = {}
    BY <1>4, <2>1, PartSummable
  <2>3. SumOver(b) = 0
    <3> HIDE DEF b
    <3> QED
      BY <2>2, SumAll
  <2> QED
    BY <1>6, <2>3
<1>9. /\ s(0) = s(1) + here(0) /\ s(1) = s(2) + here(1)
      /\ s(2) = s(3) + here(2) /\ s(3) = s(4) + here(3)
      /\ here(0) \in Int /\ here(1) \in Int /\ here(2) \in Int /\ here(3) \in Int
  <2>1. /\ 0 \in 0..3 /\ 1 \in 0..3 /\ 2 \in 0..3 /\ 3 \in 0..3
        /\ 0 + 1 = 1 /\ 1 + 1 = 2 /\ 2 + 1 = 3 /\ 3 + 1 = 4
    OBVIOUS
  <2> HIDE DEF U, here
  <2> QED
    BY <1>5, <2>1
<1>10. ASSUME NEW k \in {1, 2, 3} PROVE here(k) = Paid(c, k)
  <2>1. k \notin L => ~Ran(c, k)
    BY LocatedIs
  <2>2. k \in 0..4
    OBVIOUS
  <2>3. k \notin L => Paid(c, k) = 0
    BY <2>1, <2>2, NotRan
  <2> QED
    BY <2>3
<1>11. here(1) = Paid(c, 1) /\ here(2) = Paid(c, 2) /\ here(3) = Paid(c, 3)
  BY <1>10
<1> DEFINE h0 == here(0)
<1>12. SumOver(f) = h0 + here(1) + here(2) + here(3)
  <2> HIDE DEF here, s
  <2> QED
    BY <1>7, <1>8, <1>9
<1>13. h0 = IF 0 \in L THEN Paid(c, 0) ELSE 0
  OBVIOUS
<1> QED
  BY <1>11, <1>12, <1>13 DEF f, P

\* What the children used, and their refunds.
ChildUsed(i) == [k \in DOMAIN comps[i].children |-> GasUsed(comps[i].children[k])]
ChildRefunds(i) == [k \in DOMAIN comps[i].children |-> GasRefund[comps[i].children[k]]]

\* What they used is what was passed on to them.
LEMMA ChildSumsAre ==
  ASSUME ProfileInv, open = 0, NEW i \in 1..Len(comps)
  PROVE  /\ Summable(ChildUsed(i)) /\ Summable(ChildRefunds(i))
         /\ SumOver(ChildUsed(i)) = Passed(comps[i])
         /\ SumOver(ChildUsed(i)) \in Int /\ SumOver(ChildRefunds(i)) \in Int
<1>1. ChildUsed(i) = Spent(i)
  BY ChildrenAfter DEF ProfileInv, ChildUsed, Spent
<1>2. Summable(Spent(i)) /\ SumOver(Spent(i)) \in Int
  BY SpentIs DEF ProfileInv
<1>3. Passed(comps[i]) = SumOver(Spent(i))
  BY AllOver
<1>4. \A y \in (i + 1)..Len(comps) : GasRefund[y] \in Int
  <2>1. Len(comps) \in Nat
    BY DEF ProfileInv, CallsInv, CompTypes
  <2>2. \A y \in (i + 1)..Len(comps) : y \in 1..Len(comps)
    BY <2>1
  <2> QED
    BY <2>2, GasRefundInt
<1>5. Summable(ChildRefunds(i)) /\ SumOver(ChildRefunds(i)) \in Int
  BY <1>4, ChildSums DEF ProfileInv, ChildRefunds
<1> QED
  BY <1>1, <1>2, <1>3, <1>5

\* The net gas by opcode.
LEMMA ByPcIs ==
  ASSUME ProfileInv, open = 0, NEW i \in 1..Len(comps)
  PROVE  LET c == comps[i]
         IN /\ ByPc(i, 0) = Paid(c, 0) /\ Paid(c, 0) \in Int
            /\ ByPc(i, 1) = Paid(c, 1) + SumOver(ChildUsed(i)) /\ Paid(c, 1) \in Int
            /\ ByPc(i, 2) = Paid(c, 2) - (SumOver(ChildUsed(i)) - SumOver(ChildRefunds(i))) /\ Paid(c, 2) \in Int
            /\ ByPc(i, 3) = Paid(c, 3) - SumOver(c.refunded) /\ Paid(c, 3) \in Int
            /\ ByPc(i, 4) = 0
<1> DEFINE c == comps[i]
           U == ChildUsed(i)
           R == ChildRefunds(i)
           at(p) == {k \in DOMAIN c.childPcs : c.childPcs[k] = p}
           d(p) == [k \in at(p) |-> GasUsed(c.children[k]) - GasRefund[c.children[k]]]
           own(p) == Booked(c, p) - At(c.refunded, p)
<1>1. Own(c)
  BY DEF ProfileInv, GasRight
<1>2. DOMAIN c.children = 1..Len(c.children) /\ Len(c.children) \in Nat
  BY ChildrenAfter DEF ProfileInv
<1>3. DOMAIN c.childPcs = 1..Len(c.children) /\ \A k \in DOMAIN c.childPcs : c.childPcs[k] = 2
  BY <1>1, <1>2 DEF Own
<1>4. ASSUME NEW p PROVE ByPc(i, p) = own(p) - SumOver(d(p))
  BY DEF ByPc, Booked, At
<1>5. at(2) = DOMAIN c.children
  BY <1>2, <1>3
<1>6. \A p : p # 2 => at(p) = {}
  BY <1>3
<1>7. DOMAIN c.used \subseteq 0..3 /\ DOMAIN c.refunded \subseteq {3} /\ c.used \in [DOMAIN c.used -> Int]
  BY <1>1 DEF Own
<1>8. ASSUME NEW p, p # 2 PROVE SumOver(d(p)) = 0
  <2>1. DOMAIN d(p) = {} /\ d(p) \in [{} -> Int]
    BY <1>6, <1>8
  <2> DEFINE e == d(p)
  <2>2. Summable(e) /\ DOMAIN e = {}
    BY <2>1, FS_EmptySet DEF Summable
  <2>3. SumOver(e) = 0
    <3> HIDE DEF e
    <3> QED
      BY <2>2, SumAll
  <2> QED
    BY <2>3
<1>9. SumOver(d(2)) = SumOver(U) - SumOver(R)
  <2>1. d(2) = [k \in DOMAIN U |-> U[k] - R[k]] /\ DOMAIN R = DOMAIN U
    <3>1. DOMAIN U = DOMAIN c.children /\ DOMAIN R = DOMAIN c.children
      BY DEF ChildUsed, ChildRefunds
    <3>2. \A k \in DOMAIN c.children : U[k] = GasUsed(c.children[k]) /\ R[k] = GasRefund[c.children[k]]
      BY DEF ChildUsed, ChildRefunds
    <3> HIDE DEF U, R
    <3> QED
      BY <1>5, <3>1, <3>2
  <2>2. Summable(U) /\ Summable(R)
    BY ChildSumsAre
  <2> DEFINE e == d(2)
  <2>3. e = [k \in DOMAIN U |-> U[k] - R[k]]
    BY <2>1
  <2>4. SumOver(e) = SumOver(U) - SumOver(R)
    <3> HIDE DEF e, U, R
    <3> QED
      BY <2>1, <2>2, <2>3, SumMinus
  <2> QED
    BY <2>4
<1>10. /\ Paid(c, 0) \in Int /\ Paid(c, 1) \in Int /\ Paid(c, 2) \in Int /\ Paid(c, 3) \in Int
  <2>1. c.trace \in Seq(0..4) /\ 0 \in 0..4 /\ 1 \in 0..4 /\ 2 \in 0..4 /\ 3 \in 0..4
    BY <1>1 DEF Own
  <2> QED
    BY <2>1, PaidSummable
<1>11. Booked(c, 0) = Paid(c, 0) /\ Booked(c, 2) = Paid(c, 2) /\ Booked(c, 3) = Paid(c, 3)
  BY <1>1 DEF Own
<1>12. SumOver(U) = Booked(c, 1) - Paid(c, 1) /\ SumOver(U) \in Int /\ SumOver(R) \in Int
  BY ChildSumsAre DEF Passed
<1>13. SumOver(c.refunded) = At(c.refunded, 3) /\ SumOver(c.refunded) \in Int
  BY <1>1, RefundedSum
<1>14. /\ At(c.refunded, 0) = 0 /\ At(c.refunded, 1) = 0 /\ At(c.refunded, 2) = 0
       /\ At(c.refunded, 4) = 0 /\ Booked(c, 4) = 0
  BY <1>7 DEF At, Booked
<1>15. Booked(c, 1) \in Int
  BY <1>7 DEF Booked, At
<1> HIDE DEF c, U, R, d, at
<1>16. ByPc(i, 0) = Paid(c, 0)
  <2>1. ByPc(i, 0) = Paid(c, 0) - 0 - 0
    BY <1>4, <1>8, <1>11, <1>14
  <2> QED
    BY <1>10, <2>1
<1>17. ByPc(i, 1) = Paid(c, 1) + SumOver(U)
  <2>1. ByPc(i, 1) = Booked(c, 1) - 0 - 0
    BY <1>4, <1>8, <1>14
  <2> QED
    BY <1>10, <1>12, <1>15, <2>1
<1>18. ByPc(i, 2) = Paid(c, 2) - (SumOver(U) - SumOver(R))
  <2>1. ByPc(i, 2) = Paid(c, 2) - 0 - (SumOver(U) - SumOver(R))
    BY <1>4, <1>9, <1>11, <1>14
  <2> QED
    BY <1>10, <1>12, <2>1
<1>19. ByPc(i, 3) = Paid(c, 3) - SumOver(c.refunded)
  <2>1. ByPc(i, 3) = Paid(c, 3) - SumOver(c.refunded) - 0
    BY <1>4, <1>8, <1>11, <1>13
  <2> QED
    BY <1>10, <1>13, <2>1
<1>20. ByPc(i, 4) = 0
  BY <1>4, <1>8, <1>14
<1> QED
  BY <1>10, <1>16, <1>17, <1>18, <1>19, <1>20 DEF c, U, R

\* An opcode that is not there has no gas.
LEMMA ByPcZero ==
  ASSUME ProfileInv, open = 0, NEW i \in 1..Len(comps), Known(i), NEW p \in {1, 2, 3}, p \notin Located(i)
  PROVE  ByPc(i, p) = 0
<1> DEFINE c == comps[i]
<1>1. Own(c) /\ c.end # "open" /\ 0 \in 0..4
  BY AllOver DEF ProfileInv, GasRight
<1>2. ~Ran(c, p) /\ p \in 0..4
  BY <1>1, LocatedIs
<1>3. p \notin DOMAIN c.used /\ Paid(c, p) = 0
  BY <1>1, <1>2, NotRan
<1>4. p \in {1, 2} => c.children = <<>>
  <2>1. c.children # <<>> => 2 \in DOMAIN c.used /\ Ran(c, 1)
    BY <1>1 DEF Known, Own
  <2>2. c.children # <<>> => Ran(c, 2)
    BY <1>1, <2>1 DEF Own
  <2> QED
    BY <1>2, <2>1, <2>2
<1>5. p \in {1, 2} => SumOver(ChildUsed(i)) = 0 /\ SumOver(ChildRefunds(i)) = 0
  <2> SUFFICES ASSUME p \in {1, 2} PROVE SumOver(ChildUsed(i)) = 0 /\ SumOver(ChildRefunds(i)) = 0
    OBVIOUS
  <2>1. DOMAIN ChildUsed(i) = {} /\ DOMAIN ChildRefunds(i) = {}
    BY <1>4 DEF ChildUsed, ChildRefunds
  <2> QED
    BY <2>1, ChildSumsAre, SumAll
<1>6. p = 3 => SumOver(c.refunded) = 0
  <2> SUFFICES ASSUME p = 3 PROVE SumOver(c.refunded) = 0
    OBVIOUS
  <2>1. DOMAIN c.refunded = {}
    BY <1>1, <1>2 DEF Own
  <2> QED
    BY <1>1, <2>1, RefundedSum DEF At
<1>7. CASE p = 1
  <2>1. ByPc(i, 1) = Paid(c, 1) + SumOver(ChildUsed(i))
    BY ByPcIs
  <2> QED
    BY <1>3, <1>5, <1>7, <2>1
<1>8. CASE p = 2
  <2>1. ByPc(i, 2) = Paid(c, 2) - (SumOver(ChildUsed(i)) - SumOver(ChildRefunds(i)))
    BY ByPcIs
  <2> QED
    BY <1>3, <1>5, <1>8, <2>1
<1>9. CASE p = 3
  <2>1. ByPc(i, 3) = Paid(c, 3) - SumOver(c.refunded)
    BY ByPcIs
  <2> QED
    BY <1>3, <1>6, <1>9, <2>1
<1> QED
  BY <1>7, <1>8, <1>9

\* A computation is profiled with what its own opcodes cost, less its refunds, and
\* with those of its children.
OwnGas(i) ==
  SumOver([n \in PaidFor(i) |-> CostOf(comps[i].trace[n])])
    - SumOver(comps[i].refunded) + SumOver(ChildRefunds(i))

\* The net gas by line adds up to that.
LEMMA NetGasIs ==
  ASSUME ProfileInv, open = 0, NEW i \in 1..Len(comps), Known(i)
  PROVE  NetGas(i) = OwnGas(i)
<1> DEFINE c == comps[i]
           L == Located(i)
           f == [p \in L |-> ByPc(i, p)]
           g == [p \in 0..4 |-> IF p \in L THEN ByPc(i, p) ELSE 0]
           u == SumOver(ChildUsed(i))
           r == SumOver(ChildRefunds(i))
           w == SumOver(c.refunded)
           P0 == Paid(c, 0)
           P1 == Paid(c, 1)
           P2 == Paid(c, 2)
           P3 == Paid(c, 3)
           z == IF 0 \in L THEN P0 ELSE 0
<1>1. Own(c)
  BY DEF ProfileInv, GasRight
<1>2. /\ ByPc(i, 0) = P0 /\ P0 \in Int /\ ByPc(i, 1) = P1 + u /\ P1 \in Int
      /\ ByPc(i, 2) = P2 - (u - r) /\ P2 \in Int
      /\ ByPc(i, 3) = P3 - w /\ P3 \in Int /\ ByPc(i, 4) = 0
  BY ByPcIs
<1>3. u \in Int /\ r \in Int /\ w \in Int
  BY <1>1, ChildSumsAre, RefundedSum
<1> HIDE DEF u, r, w, P0, P1, P2, P3
<1>4. /\ ByPc(i, 0) \in Int /\ ByPc(i, 1) \in Int /\ ByPc(i, 2) \in Int
      /\ ByPc(i, 3) \in Int /\ ByPc(i, 4) \in Int
  BY <1>2, <1>3
<1>5. \A p \in 0..4 : ByPc(i, p) \in Int
  BY <1>4
<1>6. L \subseteq 0..4
  BY <1>1, LocatedIs
<1> HIDE DEF L
<1>7. f \in [DOMAIN f -> Int] /\ DOMAIN f \subseteq 0..4 /\ g \in [0..4 -> Int] /\ Spread(f, g)
  BY <1>5, <1>6 DEF Spread
<1>8. g[1] = ByPc(i, 1) /\ g[2] = ByPc(i, 2) /\ g[3] = ByPc(i, 3)
  <2>1. ASSUME NEW p \in {1, 2, 3} PROVE g[p] = ByPc(i, p)
    <3>1. p \notin L => ByPc(i, p) = 0
      BY ByPcZero DEF L
    <3> QED
      BY <3>1
  <2> QED
    BY <2>1
<1>9. g[0] = z /\ g[4] = 0
  BY <1>2
<1>10. SumOver(f) = g[0] + g[1] + g[2] + g[3] + g[4]
  <2> HIDE DEF f, g
  <2> QED
    BY <1>7, SumOpcodes
<1> HIDE DEF g
<1>11. SumOver(f) = z + (P1 + u) + (P2 - (u - r)) + (P3 - w) + 0
  BY <1>2, <1>8, <1>9, <1>10
<1>12. z \in Int
  BY <1>2
<1> HIDE DEF z, f
<1>13. SumOver(f) = (z + P1 + P2 + P3) - w + r
  BY <1>2, <1>3, <1>11, <1>12
<1>14. SumOver([n \in PaidFor(i) |-> CostOf(c.trace[n])]) = z + P1 + P2 + P3
  BY <1>1, PaidSum DEF z, L, P0, P1, P2, P3
<1> QED
  BY <1>13, <1>14 DEF NetGas, OwnGas, f, L, w, r

(***************************************************************************)
(* The computations inside a computation                                   *)
(***************************************************************************)

\* Those that start after i and before anything that i does not wait for.
Inside(i) == {j \in i..Len(comps) : \A k \in (i + 1)..j : comps[k].parent >= i}

\* Everything is inside the call of the user.
LEMMA InsideFirst ==
  ASSUME ProfileInv
  PROVE  Inside(1) = 1..Len(comps)
<1>1. Len(comps) \in Nat \ {0} /\ \A i \in 1..Len(comps) : comps[i].parent \in 0..(i - 1)
  BY DEF ProfileInv, CallsInv, CompTypes, CompTyped
<1>2. \A i \in 1..Len(comps) : i # 1 => comps[i].parent # 0
  BY DEF ProfileInv, TreeRight, Nested
<1>3. \A i \in 2..Len(comps) : i \in 1..Len(comps) /\ i # 1
  BY <1>1
<1>4. \A i \in 2..Len(comps) : comps[i].parent >= 1
  BY <1>1, <1>2, <1>3
<1>5. ASSUME NEW j \in 1..Len(comps) PROVE \A k \in (1 + 1)..j : comps[k].parent >= 1
  BY <1>1, <1>4
<1> QED
  BY <1>5 DEF Inside

\* The one that called a computation is inside what the computation is inside.
LEMMA InsideParent ==
  ASSUME ProfileInv, NEW i \in 1..Len(comps), NEW j \in Inside(i), j # i
  PROVE  /\ comps[j].parent \in Inside(i) /\ comps[j].parent \in i..(j - 1)
         /\ j \in (i + 1)..Len(comps) /\ j \in 1..Len(comps)
<1>1. /\ i \in Nat /\ i >= 1 /\ j \in i..Len(comps) /\ Len(comps) \in Nat
      /\ \A k \in (i + 1)..j : comps[k].parent >= i
  BY DEF Inside, ProfileInv, CallsInv, CompTypes
<1>2. j \in (i + 1)..Len(comps) /\ j \in 1..Len(comps) /\ j \in (i + 1)..j
  BY <1>1
<1>3. comps[j].parent \in 0..(j - 1)
  BY <1>2 DEF ProfileInv, CallsInv, CompTypes, CompTyped
<1>4. comps[j].parent >= i
  BY <1>1, <1>2
<1> DEFINE p == comps[j].parent
<1>5. p \in i..(j - 1)
  BY <1>1, <1>2, <1>3, <1>4
<1> HIDE DEF p
<1>6. p \in i..Len(comps) /\ \A k \in (i + 1)..p : k \in (i + 1)..j
  BY <1>1, <1>2, <1>5
<1>7. p \in Inside(i)
  BY <1>1, <1>6 DEF Inside
<1> QED
  BY <1>2, <1>5, <1>7 DEF p

\* What is inside a child is inside the computation.
LEMMA InsideChild ==
  ASSUME ProfileInv, NEW i \in 1..Len(comps), NEW c \in 1..Len(comps), comps[c].parent = i
  PROVE  Inside(c) \subseteq Inside(i) /\ c \in Inside(c) /\ i < c
<1>1. /\ i \in Nat /\ c \in Nat /\ Len(comps) \in Nat /\ c <= Len(comps) /\ i < c
  BY DEF ProfileInv, CallsInv, CompTypes, CompTyped
<1>2. \A k \in (i + 1)..(c - 1) : comps[k].parent >= i
  BY DEF ProfileInv, TreeRight, Nested
<1>3. ASSUME NEW j \in Inside(c) PROVE j \in Inside(i)
  <2>1. j \in c..Len(comps) /\ \A k \in (c + 1)..j : comps[k].parent >= c
    BY DEF Inside
  <2>2. j \in i..Len(comps)
    BY <1>1, <2>1
  <2>3. ASSUME NEW k \in (i + 1)..j PROVE comps[k].parent >= i
    <3>1. k \in (i + 1)..(c - 1) \/ k = c \/ k \in (c + 1)..j
      BY <1>1, <2>1
    <3>2. CASE k \in (i + 1)..(c - 1)
      BY <1>2, <3>2
    <3>3. CASE k = c
      BY <1>1, <3>3
    <3>4. CASE k \in (c + 1)..j
      <4>1. comps[k].parent >= c /\ k \in 1..Len(comps)
        BY <1>1, <2>1, <3>4
      <4>2. comps[k].parent \in 0..(k - 1)
        BY <4>1 DEF ProfileInv, CallsInv, CompTypes, CompTyped
      <4> QED
        BY <1>1, <4>1, <4>2
    <3> QED
      BY <3>1, <3>2, <3>3, <3>4
  <2> QED
    BY <2>2, <2>3 DEF Inside
<1>4. c \in Inside(c)
  BY <1>1 DEF Inside
<1> QED
  BY <1>1, <1>3, <1>4

\* Everything inside a computation is inside one of its children, or is the computation.
LEMMA InsideSome ==
  ASSUME ProfileInv, NEW i \in 1..Len(comps)
  PROVE  \A j \in Inside(i) \ {i} : \E c \in 1..Len(comps) : comps[c].parent = i /\ j \in Inside(c)
<1> DEFINE n == Len(comps)
           good(j) == \E c \in 1..n : comps[c].parent = i /\ j \in Inside(c)
           Bad == {j \in Inside(i) \ {i} : ~good(j)}
           T == {n - j : j \in Bad}
<1>1. n \in Nat
  BY DEF ProfileInv, CallsInv, CompTypes
<1>2. ASSUME NEW j \in Inside(i) \ {i}
      PROVE  /\ comps[j].parent \in Inside(i) /\ comps[j].parent \in i..(j - 1)
             /\ j \in (i + 1)..n /\ j \in 1..n
  BY InsideParent
<1>3. ASSUME NEW j \in Inside(i) \ {i},
             comps[j].parent # i => good(comps[j].parent)
      PROVE  good(j)
  <2>1. CASE comps[j].parent = i
    <3>1. j \in Inside(j)
      BY <1>2, <2>1, InsideChild
    <3> QED
      BY <1>2, <2>1, <3>1
  <2>2. CASE comps[j].parent # i
    <3> DEFINE p == comps[j].parent
    <3>1. PICK c \in 1..n : comps[c].parent = i /\ p \in Inside(c)
      BY <1>3, <2>2
    <3>2. p \in c..n /\ \A k \in (c + 1)..p : comps[k].parent >= c
      BY <3>1 DEF Inside
    <3>3. j \in 1..n /\ p \in i..(j - 1) /\ c \in Nat
      BY <1>2
    <3>4. \A k \in (p + 1)..(j - 1) : comps[k].parent >= p
      BY <3>3 DEF ProfileInv, TreeRight, Nested
    <3>5. \A k \in 1..n : comps[k].parent \in Nat
      BY DEF ProfileInv, CallsInv, CompTypes, CompTyped
    <3>6. p = comps[j].parent
      OBVIOUS
    <3> HIDE DEF p, n
    <3>7. j \in c..n
      BY <1>1, <3>2, <3>3
    <3>8. ASSUME NEW k \in (c + 1)..j PROVE comps[k].parent >= c
      <4>1. p \in Int /\ c \in Int /\ j \in Int /\ p >= c /\ p < j /\ k \in 1..n
        BY <1>1, <3>2, <3>3
      <4>2. k \in (c + 1)..p \/ k \in (p + 1)..(j - 1) \/ k = j
        BY <4>1
      <4>3. CASE k \in (c + 1)..p
        BY <3>2, <4>3
      <4>4. CASE k \in (p + 1)..(j - 1)
        <5>1. comps[k].parent >= p /\ comps[k].parent \in Nat
          BY <3>4, <3>5, <4>1, <4>4
        <5> QED
          BY <4>1, <5>1
      <4>5. CASE k = j
        BY <3>6, <4>1, <4>5
      <4> QED
        BY <4>2, <4>3, <4>4, <4>5
    <3>9. j \in Inside(c)
      BY <3>7, <3>8 DEF Inside, n
    <3> QED
      BY <3>1, <3>9
  <2> QED
    BY <2>1, <2>2
<1>4. ASSUME Bad # {} PROVE FALSE
  <2>1. \A j \in Bad : j \in 1..n /\ n - j \in 0..n
    BY <1>1, <1>2
  <2>2. T \in SUBSET (0..n) /\ T # {}
    BY <1>4, <2>1
  <2>3. PICK t \in T : \A x \in T : x <= t
    <3> HIDE DEF T, n
    <3> QED
      BY <1>1, <2>2, Greatest
  <2>4. PICK j \in Bad : t = n - j
    BY <2>3
  <2>5. /\ j \in Inside(i) \ {i} /\ ~good(j)
    OBVIOUS
  <2>6. comps[j].parent # i /\ ~good(comps[j].parent)
    BY <1>3, <2>5
  <2>7. comps[j].parent \in Bad
    BY <1>2, <2>5, <2>6
  <2>8. n - comps[j].parent \in T
    BY <2>7
  <2>9. n - comps[j].parent <= n - j
    BY <2>3, <2>4, <2>8
  <2>10. comps[j].parent \in i..(j - 1) /\ j \in 1..n /\ i \in Nat
    BY <1>2, <2>5
  <2> HIDE DEF Bad, T, good
  <2> QED
    BY <1>1, <2>9, <2>10
<1> QED
  BY <1>4

\* What is inside one child is not inside another.
LEMMA InsideOne ==
  ASSUME ProfileInv, NEW i \in 1..Len(comps),
         NEW c \in 1..Len(comps), NEW d \in 1..Len(comps), comps[c].parent = i, comps[d].parent = i, c < d
  PROVE  Inside(c) \cap Inside(d) = {}
<1>1. SUFFICES ASSUME NEW j \in Inside(c), j \in Inside(d) PROVE FALSE
  OBVIOUS
<1>2. /\ c \in Nat /\ d \in Nat /\ i \in Nat /\ Len(comps) \in Nat /\ i < c
  BY InsideChild DEF ProfileInv, CallsInv, CompTypes
<1>3. j \in d..Len(comps) /\ \A k \in (c + 1)..j : comps[k].parent >= c
  BY <1>1 DEF Inside
<1>4. d \in (c + 1)..j
  BY <1>2, <1>3
<1>5. i >= c
  BY <1>3, <1>4
<1> QED
  BY <1>2, <1>5

(***************************************************************************)
(* ListsOnce of entries                                                        *)
(***************************************************************************)

\* FlattenSeq is the last value of this function.
FlatStep(s, f, k) == IF k = 1 THEN s[k] ELSE f[k - 1] \o s[k]
Flat(s) == CHOOSE f : f = [k \in 1..Len(s) |-> FlatStep(s, f, k)]

\* FlattenSeq is the last value of a recursive function.
LEMMA FlattenIs ==
  ASSUME NEW s
  PROVE  FlattenSeq(s) = IF Len(s) = 0 THEN s ELSE Flat(s)[Len(s)]
BY DEF FlattenSeq, Flat, FlatStep

\* That function is defined.
LEMMA FlatExists ==
  ASSUME NEW V, NEW s \in Seq(Seq(V))
  PROVE  /\ Flat(s) = [k \in 1..Len(s) |-> FlatStep(s, Flat(s), k)]
<1> DEFINE n == Len(s)
           S == 1..n
           W == Seq(V)
           m == [k \in S |-> k]
           comb == [z \in S \X UNION {[T -> W] : T \in SUBSET S} |-> FlatStep(s, z[2], z[1])]
<1>1. n \in Nat /\ \A k \in S : s[k] \in W
  OBVIOUS
<1>2. \A k \in S : Below(S, m, k) = 1..(k - 1)
  BY <1>1 DEF Below
<1>3. ASSUME NEW k \in S, NEW h \in [1..(k - 1) -> W]
      PROVE  comb[<<k, h>>] = FlatStep(s, h, k) /\ FlatStep(s, h, k) \in W
  <2>1. 1..(k - 1) \in SUBSET S
    BY <1>1
  <2>2. comb[<<k, h>>] = FlatStep(s, h, k)
    BY <2>1
  <2>3. k # 1 => k - 1 \in 1..(k - 1)
    BY <1>1
  <2>4. s[k] \in W /\ (k # 1 => h[k - 1] \in W)
    BY <1>1, <2>3
  <2>5. FlatStep(s, h, k) \in W
    BY <2>4, ConcatProperties DEF FlatStep
  <2> QED
    BY <2>2, <2>5
<1>4. Builds(S, W, n, m, comb)
  <2>1. m \in [S -> 0..n]
    BY <1>1
  <2> HIDE DEF comb, W, m
  <2> QED
    BY <1>1, <1>2, <1>3, <2>1 DEF Builds
<1>5. PICK g \in [S -> W] : Solves(g, S, m, comb)
  <2> HIDE DEF S, W, n, m, comb
  <2> QED
    BY <1>4, RecursionExists
<1>6. ASSUME NEW k \in S PROVE g[k] = FlatStep(s, g, k)
  <2> DEFINE h == [y \in 1..(k - 1) |-> g[y]]
  <2>1. \A y \in 1..(k - 1) : y \in S
    BY <1>1
  <2>2. h \in [1..(k - 1) -> W]
    BY <2>1
  <2>3. g[k] = FlatStep(s, h, k)
    <3> HIDE DEF comb, W, m, h
    <3> QED
      BY <1>2, <1>3, <1>5, <2>2 DEF Solves, h
  <2>4. k # 1 => k - 1 \in 1..(k - 1)
    BY <1>1
  <2>5. FlatStep(s, h, k) = FlatStep(s, g, k)
    BY <2>4 DEF FlatStep
  <2> QED
    BY <2>3, <2>5
<1>7. g = [k \in 1..Len(s) |-> FlatStep(s, g, k)]
  BY <1>6
<1> QED
  BY <1>7 DEF Flat

\* s has one entry of each member of S and no other.
Entry(j) == [of |-> j, netGas |-> NetGas(j)]
Entries == {Entry(j) : j \in 1..Len(comps)}
ListsOnce(s, S) ==
  /\ s \in Seq(Entries)
  /\ \A k \in 1..Len(s) : s[k].of \in S
  /\ \A j \in S : \E k \in 1..Len(s) : s[k].of = j
  /\ \A k, m \in 1..Len(s) : s[k].of = s[m].of => k = m

\* No entries.
LEMMA ListsNone == ListsOnce(<<>>, {})
<1>1. Len(<<>>) = 0 /\ <<>> \in Seq(Entries)
  BY EmptySeq
<1>2. 1..0 = {}
  OBVIOUS
<1> QED
  BY <1>1, <1>2 DEF ListsOnce

\* One list after another, of other computations.
LEMMA ListsBoth ==
  ASSUME NEW s, NEW S, ListsOnce(s, S), NEW t, NEW T, ListsOnce(t, T), S \cap T = {}
  PROVE  ListsOnce(s \o t, S \union T)
<1> DEFINE u == s \o t
           a == Len(s)
           b == Len(t)
<1>1. s \in Seq(Entries) /\ t \in Seq(Entries)
  BY DEF ListsOnce
<1>2. /\ u \in Seq(Entries) /\ Len(u) = a + b /\ a \in Nat /\ b \in Nat
      /\ \A k \in 1..(a + b) : u[k] = IF k <= a THEN s[k] ELSE t[k - a]
  <2>1. /\ u \in Seq(Entries) /\ Len(u) = a + b
    BY <1>1, ConcatProperties
  <2>2. \A k \in 1..(a + b) : u[k] = IF k <= a THEN s[k] ELSE t[k - a]
    BY <1>1, ConcatProperties
  <2>3. a \in Nat /\ b \in Nat
    BY <1>1, LenProperties
  <2> QED
    BY <2>1, <2>2, <2>3
<1> HIDE DEF u, a, b
<1>3. ASSUME NEW k \in 1..(a + b)
      PROVE  \/ k \in 1..a /\ u[k] = s[k] /\ u[k].of \in S
             \/ k - a \in 1..b /\ ~(k \in 1..a) /\ u[k] = t[k - a] /\ u[k].of \in T
  <2>1. k \in 1..a \/ (k - a \in 1..b /\ ~(k <= a) /\ ~(k \in 1..a))
    BY <1>2
  <2>2. CASE k \in 1..a
    <3>1. k <= a
      BY <1>2, <2>2
    <3> QED
      BY <1>2, <2>2, <3>1 DEF ListsOnce, a
  <2>3. CASE k - a \in 1..b /\ ~(k <= a) /\ ~(k \in 1..a)
    BY <1>2, <2>3 DEF ListsOnce, b
  <2> QED
    BY <2>1, <2>2, <2>3
<1>4. \A k \in 1..Len(u) : u[k].of \in S \union T
  BY <1>2, <1>3
<1>5. ASSUME NEW j \in S PROVE \E k \in 1..Len(u) : u[k].of = j
  <2>1. PICK k \in 1..a : s[k].of = j
    BY DEF ListsOnce, a
  <2>2. k \in 1..(a + b) /\ k <= a
    BY <1>2
  <2> QED
    BY <1>2, <2>1, <2>2
<1>6. ASSUME NEW j \in T PROVE \E k \in 1..Len(u) : u[k].of = j
  <2>1. PICK k \in 1..b : t[k].of = j
    BY DEF ListsOnce, b
  <2>2. k + a \in 1..(a + b) /\ ~(k + a <= a) /\ (k + a) - a = k
    BY <1>2
  <2>3. u[k + a] = t[k]
    BY <1>2, <2>2
  <2> QED
    BY <1>2, <2>1, <2>2, <2>3
<1>7. ASSUME NEW k \in 1..(a + b), NEW m \in 1..(a + b), u[k].of = u[m].of PROVE k = m
  <2>1. CASE u[k].of \in S
    <3>1. k \in 1..a /\ u[k] = s[k]
      BY <1>3, <2>1
    <3>2. m \in 1..a /\ u[m] = s[m]
      BY <1>3, <1>7, <2>1
    <3> QED
      BY <1>7, <3>1, <3>2 DEF ListsOnce, a
  <2>2. CASE u[k].of \notin S
    <3>1. k - a \in 1..b /\ u[k] = t[k - a]
      BY <1>3, <2>2
    <3>2. m - a \in 1..b /\ u[m] = t[m - a]
      BY <1>3, <1>7, <2>2
    <3>3. k - a = m - a
      BY <1>7, <3>1, <3>2 DEF ListsOnce, b
    <3> QED
      BY <1>2, <3>3
  <2> QED
    BY <2>1, <2>2
<1> QED
  BY <1>2, <1>4, <1>5, <1>6, <1>7 DEF ListsOnce, u

\* ListsOnce of disjoint sets, one after the other.
AllList(s, T) == \A k \in 1..Len(s) : ListsOnce(s[k], T[k])
Apart(T, n) == \A k, m \in 1..n : k < m => T[k] \cap T[m] = {}

\* So is their concatenation, of the union.
LEMMA ListsAll ==
  ASSUME NEW s \in Seq(Seq(Entries)), NEW T, AllList(s, T), Apart(T, Len(s))
  PROVE  ListsOnce(FlattenSeq(s), UNION {T[k] : k \in 1..Len(s)})
<1> DEFINE n == Len(s)
           F == Flat(s)
           upto(k) == UNION {T[m] : m \in 1..k}
           Good == {k \in 1..n : ListsOnce(F[k], upto(k))}
<1>1. n \in Nat /\ \A k \in 1..n : F[k] = FlatStep(s, F, k)
  <2>1. F = [k \in 1..n |-> FlatStep(s, F, k)]
    BY FlatExists
  <2>2. n \in Nat
    OBVIOUS
  <2> HIDE DEF F, n
  <2> QED
    BY <2>1, <2>2
<1>2. FlattenSeq(s) = IF n = 0 THEN s ELSE F[n]
  BY FlattenIs
<1> HIDE DEF F
<1>3. CASE n = 0
  <2>1. s = <<>> /\ UNION {T[k] : k \in 1..n} = {}
    BY <1>3, EmptySeq
  <2> QED
    BY <1>2, <1>3, <2>1, ListsNone
<1>4. CASE n # 0
  <2>1. ASSUME NEW k \in 1..n, k # 1 => k - 1 \in Good PROVE k \in Good
    <3>1. ListsOnce(s[k], T[k])
      BY DEF AllList
    <3>2. CASE k = 1
      <4>1. F[k] = s[k] /\ upto(k) = T[k]
        BY <1>1, <3>2 DEF FlatStep
      <4> QED
        BY <3>1, <4>1
    <3>3. CASE k # 1
      <4>1. F[k] = F[k - 1] \o s[k]
        BY <1>1, <3>3 DEF FlatStep
      <4>2. ListsOnce(F[k - 1], upto(k - 1))
        BY <2>1, <3>3
      <4>3. upto(k - 1) \cap T[k] = {}
        <5>1. \A m \in 1..(k - 1) : m \in 1..n /\ m < k
          BY <1>1
        <5>2. \A m \in 1..(k - 1) : T[m] \cap T[k] = {}
          BY <5>1 DEF Apart
        <5> QED
          BY <5>2
      <4>4. upto(k) = upto(k - 1) \union T[k]
        <5>1. 1..k = (1..(k - 1)) \union {k}
          BY <1>1
        <5> QED
          BY <5>1
      <4> DEFINE A == upto(k - 1)
                 a == F[k - 1]
      <4>5. ListsOnce(a, A) /\ A \cap T[k] = {}
        BY <4>2, <4>3
      <4> HIDE DEF A, a, upto
      <4>6. ListsOnce(a \o s[k], A \union T[k])
        BY <3>1, <4>5, ListsBoth
      <4> QED
        BY <4>1, <4>4, <4>6 DEF A, a
    <3> QED
      BY <3>2, <3>3
  <2> DEFINE First == {k \in 1..n : \A m \in 1..k : m \in Good}
  <2>2. 1 \in First
    <3>1. 1 \in 1..n /\ 1..1 = {1}
      BY <1>1, <1>4
    <3>2. 1 \in Good
      BY <2>1, <3>1
    <3> QED
      BY <3>1, <3>2
  <2> HIDE DEF Good
  <2>3. PICK k \in First : \A m \in First : m <= k
    <3>1. First \in SUBSET (0..n)
      <4>1. \A m \in First : m \in 1..n
        OBVIOUS
      <4>2. \A m \in 1..n : m \in 0..n
        BY <1>1
      <4> HIDE DEF First, n
      <4> QED
        BY <4>1, <4>2
    <3>2. First # {}
      BY <2>2
    <3> HIDE DEF First, n
    <3> QED
      BY <1>1, <3>1, <3>2, Greatest
  <2>4. k \in 1..n /\ k \in Good /\ \A m \in 1..k : m \in Good
    <3>1. k \in 1..n /\ \A m \in 1..k : m \in Good
      OBVIOUS
    <3>2. k \in 1..k
      BY <3>1
    <3> QED
      BY <3>1, <3>2
  <2>5. ASSUME k # n PROVE FALSE
    <3>1. k + 1 \in 1..n /\ (k + 1) - 1 = k /\ k + 1 # 1 /\ 1..(k + 1) = (1..k) \union {k + 1}
      BY <1>1, <2>4, <2>5
    <3>2. k + 1 \in Good
      BY <2>1, <2>4, <3>1
    <3>3. k + 1 \in First
      BY <2>4, <3>1, <3>2
    <3>4. k + 1 <= k
      BY <2>3, <3>3
    <3> HIDE DEF First
    <3> QED
      BY <2>4, <3>4
  <2> QED
    BY <1>2, <1>4, <2>4, <2>5 DEF Good
<1> QED
  BY <1>3, <1>4

(***************************************************************************)
(* The profile                                                             *)
(***************************************************************************)

\* Profile is a value of this function.
CachedStep(f, i) ==
  (IF IsText(i) THEN <<>> ELSE <<Entry(i)>>)
    \o FlattenSeq([k \in DOMAIN comps[i].children |-> f[comps[i].children[k]]])
Cached == CHOOSE f : f = [i \in DOMAIN comps |-> CachedStep(f, i)]

\* The profile is a value of a recursive function.
LEMMA ProfileIs == Profile = IF IsText(1) \/ Failed(1) THEN <<>> ELSE Cached[1]
BY DEF Profile, Cached, CachedStep, Entry

\* The members of a set that boa has the source of.
Sourced(S) == {j \in S : ~IsText(j)}

\* A function to lists, at the children.
ChildLists(f, i) == [k \in DOMAIN comps[i].children |-> f[comps[i].children[k]]]

\* There is one for each child.
LEMMA ChildListsAt ==
  ASSUME CallsInv, NEW i \in 1..Len(comps), NEW f
  PROVE  /\ Len(ChildLists(f, i)) = Len(comps[i].children)
         /\ \A k \in 1..Len(comps[i].children) : ChildLists(f, i)[k] = f[comps[i].children[k]]
<1> DEFINE c == comps[i].children
           g == ChildLists(f, i)
           W == {g[k] : k \in 1..Len(c)}
<1>1. Len(c) \in Nat /\ DOMAIN c = 1..Len(c)
  BY ChildrenAfter
<1>2. g = [k \in DOMAIN c |-> f[c[k]]]
  BY DEF ChildLists
<1> HIDE DEF c, g
<1>3. g \in [1..Len(c) -> W]
  BY <1>1, <1>2
<1> HIDE DEF W
<1>4. Len(g) = Len(c)
  BY <1>1, <1>3, FunctionsAreSeqs
<1> QED
  BY <1>1, <1>2, <1>4 DEF c, g

\* They are a sequence of such values.
LEMMA ChildListsAre ==
  ASSUME CallsInv, NEW i \in 1..Len(comps), NEW V, NEW f, \A y \in (i + 1)..Len(comps) : f[y] \in V
  PROVE  ChildLists(f, i) \in Seq(V)
<1> DEFINE c == comps[i].children
           g == ChildLists(f, i)
<1>1. Len(c) \in Nat /\ DOMAIN c = 1..Len(c) /\ \A k \in 1..Len(c) : c[k] \in (i + 1)..Len(comps)
  BY ChildrenAfter
<1>2. g = [k \in DOMAIN c |-> f[c[k]]]
  BY DEF ChildLists
<1> HIDE DEF c, g
<1>3. g \in [1..Len(c) -> V]
  BY <1>1, <1>2
<1>4. g \in Seq(V)
  BY <1>1, <1>3, FunctionsAreSeqs
<1> QED
  BY <1>4 DEF g

\* A concatenation of sequences over a set is one over that set.
LEMMA FlatSeq ==
  ASSUME NEW V, NEW s \in Seq(Seq(V))
  PROVE  FlattenSeq(s) \in Seq(V)
<1> DEFINE n == Len(s)
           F == Flat(s)
           Bad == {k \in 1..n : F[k] \notin Seq(V)}
           T == {n - k : k \in Bad}
<1>1. n \in Nat /\ \A k \in 1..n : s[k] \in Seq(V)
  OBVIOUS
<1>2. \A k \in 1..n : F[k] = FlatStep(s, F, k)
  <2>1. F = [k \in 1..n |-> FlatStep(s, F, k)]
    BY FlatExists
  <2> HIDE DEF F, n
  <2> QED
    BY <2>1
<1>3. FlattenSeq(s) = IF n = 0 THEN s ELSE F[n]
  BY FlattenIs
<1> HIDE DEF F
<1>4. ASSUME Bad # {} PROVE FALSE
  <2>1. \A j \in Bad : n - j \in 0..n
    BY <1>1
  <2>2. T \in SUBSET (0..n) /\ T # {}
    BY <1>4, <2>1
  <2>3. PICK t \in T : \A x \in T : x <= t
    <3> HIDE DEF T, n
    <3> QED
      BY <1>1, <2>2, Greatest
  <2>4. PICK k \in Bad : t = n - k
    BY <2>3
  <2>5. k \in 1..n /\ F[k] \notin Seq(V) /\ F[k] = FlatStep(s, F, k) /\ s[k] \in Seq(V)
    BY <1>1, <1>2
  <2>6. CASE k = 1
    BY <2>5, <2>6 DEF FlatStep
  <2>7. CASE k # 1
    <3>1. k - 1 \in 1..n /\ ~(n - (k - 1) <= n - k)
      BY <1>1, <2>5, <2>7
    <3>2. k - 1 \notin Bad
      <4> SUFFICES ASSUME k - 1 \in Bad PROVE FALSE
        OBVIOUS
      <4>1. n - (k - 1) \in T
        OBVIOUS
      <4> QED
        BY <2>3, <2>4, <3>1, <4>1
    <3>3. F[k - 1] \in Seq(V)
      BY <3>1, <3>2
    <3>4. F[k] = F[k - 1] \o s[k]
      BY <2>5, <2>7 DEF FlatStep
    <3> QED
      BY <2>5, <3>3, <3>4, ConcatProperties
  <2> QED
    BY <2>6, <2>7
<1>5. CASE n = 0
  BY <1>3, <1>5, EmptySeq
<1>6. CASE n # 0
  <2>1. n \in 1..n
    BY <1>1, <1>6
  <2> QED
    BY <1>3, <1>4, <1>6, <2>1
<1> QED
  BY <1>5, <1>6

\* The function of which the profile is a value is defined.
LEMMA CachedExists ==
  ASSUME CallsInv
  PROVE  \A i \in 1..Len(comps) : Cached[i] = CachedStep(Cached, i)
<1> DEFINE n == Len(comps)
           V == Seq(Entries)
           comb == [z \in (1..n) \X UNION {[T -> V] : T \in SUBSET (1..n)} |-> CachedStep(z[2], z[1])]
<1>1. n \in Nat /\ DOMAIN comps = 1..n
  BY DEF CallsInv, CompTypes
<1>2. ASSUME NEW i \in 1..n, NEW h \in [(i + 1)..n -> V]
      PROVE  comb[<<i, h>>] = CachedStep(h, i) /\ CachedStep(h, i) \in V
  <2>1. (i + 1)..n \in SUBSET (1..n)
    BY <1>1
  <2>2. comb[<<i, h>>] = CachedStep(h, i)
    BY <2>1
  <2>3. ChildLists(h, i) \in Seq(V)
    <3>1. \A y \in (i + 1)..n : h[y] \in V
      OBVIOUS
    <3> HIDE DEF V
    <3> QED
      BY <3>1, ChildListsAre
  <2>4. FlattenSeq(ChildLists(h, i)) \in V
    BY <2>3, FlatSeq
  <2>5. Entry(i) \in Entries
    BY DEF Entries
  <2>6. <<Entry(i)>> \in V /\ <<>> \in V
    BY <2>5, EmptySeq
  <2>7. CachedStep(h, i) \in V
    <3> HIDE DEF comb
    <3> QED
      BY <2>4, <2>6, ConcatProperties DEF CachedStep, ChildLists
  <2> QED
    BY <2>2, <2>7
<1>3. Steps(V, n, comb)
  <2> HIDE DEF comb, V
  <2> QED
    BY <1>1, <1>2 DEF Steps
<1>4. PICK g \in [1..n -> V] : \A i \in 1..n : g[i] = comb[<<i, After(g, i, n)>>]
  <2> HIDE DEF comb, n, V
  <2> QED
    BY <1>3, TreeRecursion
<1>5. ASSUME NEW i \in 1..n PROVE g[i] = CachedStep(g, i)
  <2> DEFINE h == After(g, i, n)
  <2>1. h \in [(i + 1)..n -> V] /\ \A y \in (i + 1)..n : h[y] = g[y]
    <3> HIDE DEF V
    <3> QED
      BY <1>1 DEF After
  <2>2. g[i] = CachedStep(h, i)
    <3> HIDE DEF comb, h, V
    <3>1. g[i] = comb[<<i, h>>]
      BY <1>4 DEF h
    <3> QED
      BY <1>2, <2>1, <3>1
  <2> HIDE DEF h
  <2>3. \A k \in DOMAIN comps[i].children : h[comps[i].children[k]] = g[comps[i].children[k]]
    BY <2>1, ChildrenAfter
  <2>4. CachedStep(h, i) = CachedStep(g, i)
    BY <2>3 DEF CachedStep
  <2> QED
    BY <2>2, <2>4
<1>6. g = [i \in DOMAIN comps |-> CachedStep(g, i)]
  <2> HIDE DEF V
  <2> QED
    BY <1>1, <1>5
<1>7. Cached = [i \in DOMAIN comps |-> CachedStep(Cached, i)]
  BY <1>6 DEF Cached
<1> DEFINE C == Cached
<1>8. C = [i \in DOMAIN comps |-> CachedStep(C, i)]
  BY <1>7
<1> HIDE DEF C
<1>9. \A i \in 1..n : C[i] = CachedStep(C, i)
  BY <1>1, <1>8
<1> QED
  BY <1>9 DEF C

\* What is inside a computation, by child.
LEMMA InsideByChild ==
  ASSUME ProfileInv, open = 0, NEW i \in 1..Len(comps)
  PROVE  LET c == comps[i].children
             T == [k \in 1..Len(c) |-> Sourced(Inside(c[k]))]
         IN /\ Apart(T, Len(c))
            /\ UNION {T[k] : k \in 1..Len(c)} = Sourced(Inside(i)) \ {i}
<1> DEFINE c == comps[i].children
           n == Len(c)
           T == [k \in 1..n |-> Sourced(Inside(c[k]))]
<1>1. /\ n \in Nat
      /\ \A k \in 1..n : c[k] \in 1..Len(comps)
  BY ChildrenAfter DEF ProfileInv
<1>2. Listed(i)
  BY DEF ProfileInv, TreeRight
<1>3. \A k \in 1..n : comps[c[k]].parent = i
  BY <1>2 DEF Listed
<1>4. \A k, m \in 1..n : k < m => c[k] < c[m]
  BY <1>2 DEF Listed
<1>5. \A j \in 1..Len(comps) : comps[j].parent = i /\ comps[j].end # "open" => \E k \in 1..n : c[k] = j
  BY <1>2 DEF Listed
<1>6. \A j \in 1..Len(comps) : comps[j].parent = i => \E k \in 1..n : c[k] = j
  BY <1>5, AllOver
<1> HIDE DEF c, n
<1>7. ASSUME NEW k \in 1..n, NEW m \in 1..n, k < m PROVE T[k] \cap T[m] = {}
  <2>1. /\ c[k] \in 1..Len(comps) /\ c[m] \in 1..Len(comps) /\ c[k] < c[m]
        /\ comps[c[k]].parent = i /\ comps[c[m]].parent = i
    BY <1>1, <1>3, <1>4, <1>7
  <2>2. Inside(c[k]) \cap Inside(c[m]) = {}
    BY <2>1, InsideOne
  <2> QED
    BY <2>2 DEF Sourced
<1>8. ASSUME NEW k \in 1..n PROVE Inside(c[k]) \subseteq Inside(i) \ {i}
  <2>1. c[k] \in 1..Len(comps) /\ comps[c[k]].parent = i
    BY <1>1, <1>3
  <2>2. Inside(c[k]) \subseteq Inside(i) /\ i < c[k]
    BY <2>1, InsideChild
  <2>3. i \notin Inside(c[k])
    <3>1. i \in Nat /\ c[k] \in Nat /\ Inside(c[k]) \subseteq c[k]..Len(comps)
      BY <2>1 DEF Inside
    <3> QED
      BY <2>2, <3>1
  <2> QED
    BY <2>2, <2>3
<1>9. ASSUME NEW j \in Inside(i) \ {i} PROVE \E k \in 1..n : j \in Inside(c[k])
  BY <1>6, InsideSome
<1>10. Apart(T, n)
  BY <1>7 DEF Apart
<1>11. UNION {T[k] : k \in 1..n} = Sourced(Inside(i)) \ {i}
  BY <1>8, <1>9 DEF Sourced
<1> QED
  BY <1>10, <1>11 DEF c, n

\* The profile of a computation has one entry of every computation inside it that boa
\* has the source of.
LEMMA CachedLists ==
  ASSUME ProfileInv, open = 0
  PROVE  \A i \in 1..Len(comps) : ListsOnce(Cached[i], Sourced(Inside(i)))
<1> DEFINE n == Len(comps)
           good(i) == ListsOnce(Cached[i], Sourced(Inside(i)))
           Bad == {i \in 1..n : ~good(i)}
<1>1. n \in Nat /\ CallsInv
  BY DEF ProfileInv, CallsInv, CompTypes
<1>2. ASSUME NEW i \in 1..n, \A y \in (i + 1)..n : good(y) PROVE good(i)
  <2> DEFINE c == comps[i].children
             s == ChildLists(Cached, i)
             T == [k \in 1..Len(c) |-> Sourced(Inside(c[k]))]
             U == UNION {T[k] : k \in 1..Len(c)}
             h == IF IsText(i) THEN <<>> ELSE <<Entry(i)>>
             H == IF IsText(i) THEN {} ELSE {i}
  <2>1. Cached[i] = h \o FlattenSeq(s)
    BY <1>1, CachedExists DEF CachedStep, ChildLists
  <2>2. /\ s \in Seq(Seq(Entries)) /\ Len(s) = Len(c)
        /\ \A k \in 1..Len(c) : s[k] = Cached[c[k]]
    <3> DEFINE V == Seq(Entries)
    <3>1. \A y \in (i + 1)..n : Cached[y] \in V
      BY <1>2 DEF ListsOnce
    <3> HIDE DEF V
    <3>2. ChildLists(Cached, i) \in Seq(V)
      BY <1>1, <3>1, ChildListsAre
    <3>3. /\ Len(ChildLists(Cached, i)) = Len(comps[i].children)
          /\ \A k \in 1..Len(comps[i].children) : ChildLists(Cached, i)[k] = Cached[comps[i].children[k]]
      BY <1>1, ChildListsAt
    <3> QED
      BY <3>2, <3>3 DEF V
  <2>3. Apart(T, Len(c)) /\ U = Sourced(Inside(i)) \ {i}
    BY InsideByChild
  <2>4. AllList(s, T)
    <3>1. \A k \in 1..Len(c) : c[k] \in (i + 1)..n
      BY <1>1, ChildrenAfter
    <3>2. \A k \in 1..Len(c) : good(c[k])
      BY <1>2, <3>1
    <3>3. \A k \in 1..Len(s) : k \in 1..Len(c) /\ s[k] = Cached[c[k]] /\ T[k] = Sourced(Inside(c[k]))
      BY <2>2
    <3> HIDE DEF s, T
    <3> QED
      BY <3>2, <3>3 DEF AllList
  <2>5. ListsOnce(FlattenSeq(s), U)
    <3>1. U = UNION {T[k] : k \in 1..Len(s)} /\ Apart(T, Len(s)) /\ s \in Seq(Seq(Entries))
      BY <2>2, <2>3
    <3> HIDE DEF s, T, U
    <3>2. ListsOnce(FlattenSeq(s), UNION {T[k] : k \in 1..Len(s)})
      BY <2>4, <3>1, ListsAll
    <3> QED
      BY <3>1, <3>2
  <2>6. ListsOnce(h, H)
    <3>1. CASE IsText(i)
      BY <3>1, ListsNone
    <3>2. CASE ~IsText(i)
      <4> DEFINE e == <<Entry(i)>>
      <4>1. Entry(i) \in Entries /\ Entry(i).of = i
        BY DEF Entries, Entry
      <4>2. e \in Seq(Entries) /\ Len(e) = 1 /\ e[1].of = i
        BY <4>1
      <4> HIDE DEF e
      <4>3. ListsOnce(e, {i})
        BY <4>2 DEF ListsOnce
      <4> QED
        BY <3>2, <4>3 DEF e
    <3> QED
      BY <3>1, <3>2
  <2>7. H \cap U = {} /\ H \union U = Sourced(Inside(i))
    <3>1. i \in Inside(i)
      BY <1>1 DEF Inside
    <3> QED
      BY <2>3, <3>1 DEF Sourced
  <2> DEFINE t == FlattenSeq(s)
  <2> HIDE DEF h, H, U, s, t
  <2>8. ListsOnce(h \o t, H \union U)
    BY <2>5, <2>6, <2>7, ListsBoth DEF t
  <2> QED
    BY <2>1, <2>7, <2>8 DEF t
<1> HIDE DEF good
<1>3. ASSUME Bad # {} PROVE FALSE
  <2>1. Bad \in SUBSET (0..n)
    BY <1>1
  <2>2. PICK i \in Bad : \A k \in Bad : k <= i
    <3> HIDE DEF Bad, n
    <3> QED
      BY <1>1, <1>3, <2>1, Greatest
  <2>3. i \in 1..n /\ ~good(i)
    OBVIOUS
  <2>4. \A y \in (i + 1)..n : y \in 1..n /\ ~(y <= i)
    BY <1>1, <2>3
  <2>5. \A y \in (i + 1)..n : good(y)
    BY <2>2, <2>4
  <2> QED
    BY <1>2, <2>3, <2>5
<1> QED
  BY <1>3 DEF good

\* A list has as many entries as the set it is of has members.
LEMMA ListsCount ==
  ASSUME NEW s, NEW S, ListsOnce(s, S)
  PROVE  Len(s) = Cardinality(S)
<1> DEFINE n == Len(s)
           f == [k \in 1..n |-> s[k].of]
<1>1. n \in Nat
  BY DEF ListsOnce
<1>2. f \in [1..n -> S] /\ (\A j \in S : \E k \in 1..n : f[k] = j)
      /\ \A k, m \in 1..n : f[k] = f[m] => k = m
  BY DEF ListsOnce
<1> HIDE DEF f, n
<1>3. f \in Bijection(1..n, S)
  BY <1>2 DEF Bijection, Injection, Surjection, IsInjective
<1>4. ExistsBijection(1..n, S)
  BY <1>3 DEF ExistsBijection
<1> QED
  BY <1>1, <1>4, FS_CountingElements DEF n

\* A call that is over and succeeded has the profile that the property describes.
LEMMA ProfileInvGivesOwn == ProfileInv => ProfileIsOwn
<1> SUFFICES ASSUME ProfileInv, open = 0, ~Failed(1), ~IsText(1)
             PROVE  IF ProfileRaises
                    THEN \E i \in DOMAIN comps : comps[i].end = "burn" /\ Last(comps[i].trace) = 2
                    ELSE /\ Len(Profile) = Cardinality({i \in DOMAIN comps : ~IsText(i)})
                         /\ \A k \in DOMAIN Profile :
                              LET i == Profile[k].of
                                  c == comps[i]
                                  paid == {n \in DOMAIN c.trace :
                                             /\ c.trace[n] \in Located(i) \ {4}
                                             /\ ~(c.end = "burn" /\ n = Len(c.trace))}
                              IN /\ \A m \in DOMAIN Profile : Profile[m].of = i => m = k
                                 /\ Profile[k].netGas = SumOver([n \in paid |-> CostOf(c.trace[n])])
                                      - SumOver(c.refunded)
                                      + SumOver([n \in DOMAIN c.children |-> GasRefund[c.children[n]]])
  BY DEF ProfileIsOwn
<1>1. DOMAIN comps = 1..Len(comps) /\ Len(comps) \in Nat \ {0}
  BY DEF ProfileInv, CallsInv, CompTypes
<1>2. ASSUME ProfileRaises
      PROVE  \E i \in DOMAIN comps : comps[i].end = "burn" /\ Last(comps[i].trace) = 2
  <2>1. PICK i \in DOMAIN comps : ByPcRaises(i)
    BY <1>2 DEF ProfileRaises
  <2> QED
    BY <1>1, <2>1, RaisesIf
<1>3. ASSUME ~ProfileRaises
      PROVE  /\ Len(Profile) = Cardinality({i \in DOMAIN comps : ~IsText(i)})
             /\ \A k \in DOMAIN Profile :
                  LET i == Profile[k].of
                      c == comps[i]
                      paid == {n \in DOMAIN c.trace :
                                 /\ c.trace[n] \in Located(i) \ {4}
                                 /\ ~(c.end = "burn" /\ n = Len(c.trace))}
                  IN /\ \A m \in DOMAIN Profile : Profile[m].of = i => m = k
                     /\ Profile[k].netGas = SumOver([n \in paid |-> CostOf(c.trace[n])])
                          - SumOver(c.refunded)
                          + SumOver([n \in DOMAIN c.children |-> GasRefund[c.children[n]]])
  <2> DEFINE P == Profile
             S == {i \in DOMAIN comps : ~IsText(i)}
  <2>1. P = Cached[1] /\ S = Sourced(Inside(1))
    BY <1>1, ProfileIs, InsideFirst DEF Sourced
  <2>2. ListsOnce(P, S)
    <3>1. 1 \in 1..Len(comps)
      BY <1>1
    <3> QED
      BY <2>1, <3>1, CachedLists
  <2> HIDE DEF P
  <2>3. Len(P) = Cardinality(S)
    <3> HIDE DEF S
    <3> QED
      BY <2>2, ListsCount
  <2>4. DOMAIN P = 1..Len(P) /\ \A k \in 1..Len(P) : P[k] \in Entries
    BY <2>2 DEF ListsOnce
  <2>5. ASSUME NEW k \in DOMAIN P
        PROVE  /\ P[k].of \in S /\ P[k].netGas = OwnGas(P[k].of)
               /\ \A m \in DOMAIN P : P[m].of = P[k].of => m = k
    <3>1. PICK j \in 1..Len(comps) : P[k] = Entry(j)
      BY <2>4 DEF Entries
    <3>2. P[k].of = j /\ P[k].netGas = NetGas(j)
      BY <3>1 DEF Entry
    <3>3. P[k].of \in S
      BY <2>2, <2>4 DEF ListsOnce
    <3>4. ~ByPcRaises(j)
      BY <1>1, <1>3, <3>2, <3>3 DEF ProfileRaises
    <3>5. NetGas(j) = OwnGas(j)
      BY <3>4, RaisesIf, NetGasIs
    <3>6. \A m \in DOMAIN P : P[m].of = P[k].of => m = k
      BY <2>2, <2>4 DEF ListsOnce
    <3> QED
      BY <3>2, <3>3, <3>5, <3>6
  <2>6. ASSUME NEW k \in DOMAIN P
        PROVE  LET i == P[k].of
                   c == comps[i]
                   paid == {n \in DOMAIN c.trace :
                              /\ c.trace[n] \in Located(i) \ {4}
                              /\ ~(c.end = "burn" /\ n = Len(c.trace))}
               IN /\ \A m \in DOMAIN P : P[m].of = i => m = k
                  /\ P[k].netGas = SumOver([n \in paid |-> CostOf(c.trace[n])])
                       - SumOver(c.refunded)
                       + SumOver([n \in DOMAIN c.children |-> GasRefund[c.children[n]]])
    <3> HIDE DEF S
    <3> QED
      BY <2>5 DEF OwnGas, PaidFor, ChildRefunds
  <2> QED
    BY <2>3, <2>6 DEF P, S
<1> QED
  BY <1>2, <1>3

\* A call that succeeded is profiled once for every computation that boa has the source
\* of, with what its own opcodes cost.
THEOREM ProfilesAreOwn == CallsSpec => []ProfileIsOwn
BY ProfileInvHolds, ProfileInvGivesOwn, PTL

(***************************************************************************)
(* Numbers, their powers of 2 and their digits                             *)
(***************************************************************************)

\* A nonempty set of numbers has a member that is 0 or whose predecessor is not in it.
LEMMA Least ==
  ASSUME NEW S \in SUBSET Nat, S # {}
  PROVE  \E n \in S : n = 0 \/ (n - 1 \in Nat /\ n - 1 \notin S)
<1>1. PICK n \in S : \A k \in S : ~(<<k, n>> \in OpToRel(<, Nat))
  BY WFMin, NatLessThanWellFounded
<1>2. n \in Nat
  OBVIOUS
<1>3. CASE n # 0
  <2>1. n - 1 \in Nat /\ n - 1 < n
    BY <1>2, <1>3
  <2>2. <<n - 1, n>> \in OpToRel(<, Nat)
    BY <1>2, <2>1 DEF OpToRel
  <2> QED
    BY <1>1, <2>1, <2>2
<1> QED
  BY <1>3

\* What begins at v and goes on by a step.
Goes(g, V, v, step) ==
  /\ g \in [Nat -> V] /\ g[0] = v
  /\ \A n \in Nat : g[n + 1] = step[<<n, g[n]>>]

\* There is one.
LEMMA IterationExists ==
  ASSUME NEW V, NEW v \in V, NEW step \in [Nat \X V -> V]
  PROVE  \E g : Goes(g, V, v, step)
<1> DEFINE Upto(n) == {h \in [0..n -> V] : h[0] = v /\ \A k \in 0..(n - 1) : h[k + 1] = step[<<k, h[k]>>]}
           Stuck == {n \in Nat : Upto(n) = {}}
<1>1. \A n \in Nat : Upto(n) # {}
  <2> SUFFICES ASSUME Stuck # {} PROVE FALSE
    OBVIOUS
  <2>1. Stuck \in SUBSET Nat
    OBVIOUS
  <2>2. PICK n \in Stuck : n = 0 \/ (n - 1 \in Nat /\ n - 1 \notin Stuck)
    <3> HIDE DEF Stuck
    <3> QED
      BY <2>1, Least
  <2>3. n \in Nat /\ Upto(n) = {}
    OBVIOUS
  <2>4. n # 0
    <3> DEFINE h == [i \in 0..0 |-> v]
    <3>1. h \in Upto(0)
      OBVIOUS
    <3> QED
      BY <2>3, <3>1
  <2>5. n - 1 \in Nat /\ Upto(n - 1) # {}
    BY <2>2, <2>4
  <2>6. PICK g \in [0..(n - 1) -> V] : g[0] = v /\ \A k \in 0..(n - 2) : g[k + 1] = step[<<k, g[k]>>]
    <3>1. (n - 1) - 1 = n - 2
      BY <2>3
    <3> QED
      BY <2>5, <3>1
  <2> DEFINE h == [i \in 0..n |-> IF i = n THEN step[<<n - 1, g[n - 1]>>] ELSE g[i]]
  <2>7. h \in [0..n -> V] /\ h[0] = v
    <3>1. g[n - 1] \in V /\ <<n - 1, g[n - 1]>> \in Nat \X V
      BY <2>5, <2>6
    <3>2. \A i \in 0..n : i # n => g[i] \in V
      BY <2>3, <2>6
    <3> QED
      BY <2>3, <2>4, <2>6, <3>1, <3>2
  <2>8. \A k \in 0..(n - 1) : h[k + 1] = step[<<k, h[k]>>]
    <3> TAKE k \in 0..(n - 1)
    <3>1. k \in 0..n /\ k + 1 \in 0..n /\ h[k] = g[k]
      BY <2>3
    <3>2. CASE k = n - 1
      BY <2>3, <3>1, <3>2
    <3>3. CASE k # n - 1
      <4>1. k \in 0..(n - 2) /\ k + 1 # n
        BY <2>3, <3>3
      <4> QED
        BY <2>6, <3>1, <4>1
    <3> QED
      BY <3>2, <3>3
  <2>9. h \in Upto(n)
    <3> HIDE DEF h
    <3> QED
      BY <2>7, <2>8
  <2> QED
    BY <2>3, <2>9
<1>2. ASSUME NEW n \in Nat, NEW m \in Nat, NEW h \in Upto(n), NEW g \in Upto(m), NEW k \in 0..n, k \in 0..m
      PROVE  h[k] = g[k]
  <2> DEFINE Bad == {i \in Nat : i <= n /\ i <= m /\ h[i] # g[i]}
  <2> SUFFICES ASSUME Bad # {} PROVE FALSE
    BY <1>2
  <2>1. Bad \in SUBSET Nat
    OBVIOUS
  <2>2. PICK i \in Bad : i = 0 \/ (i - 1 \in Nat /\ i - 1 \notin Bad)
    <3> HIDE DEF Bad
    <3> QED
      BY <2>1, Least
  <2>3. i \in Nat /\ i <= n /\ i <= m /\ h[i] # g[i]
    OBVIOUS
  <2>4. h[0] = v /\ g[0] = v
    OBVIOUS
  <2>5. i # 0 /\ i - 1 \in 0..(n - 1) /\ i - 1 \in 0..(m - 1) /\ (i - 1) + 1 = i /\ i - 1 <= n /\ i - 1 <= m
    BY <2>3, <2>4
  <2>6. h[i - 1] = g[i - 1]
    BY <2>2, <2>5
  <2>7. \A j \in 0..(n - 1) : h[j + 1] = step[<<j, h[j]>>]
    OBVIOUS
  <2>8. \A j \in 0..(m - 1) : g[j + 1] = step[<<j, g[j]>>]
    OBVIOUS
  <2> QED
    BY <2>3, <2>5, <2>6, <2>7, <2>8
<1> DEFINE at(n) == CHOOSE h \in Upto(n) : TRUE
           G == [n \in Nat |-> at(n)[n]]
<1>3. \A n \in Nat : at(n) \in Upto(n)
  <2> HIDE DEF Upto
  <2> QED
    BY <1>1
<1>4. \A n \in Nat : at(n) \in [0..n -> V] /\ at(n)[0] = v
  <2> HIDE DEF at
  <2> QED
    BY <1>3
<1>5. G \in [Nat -> V] /\ G[0] = v
  <2> HIDE DEF at
  <2> QED
    BY <1>4
<1>6. ASSUME NEW n \in Nat PROVE G[n + 1] = step[<<n, G[n]>>]
  <2>1. at(n + 1)[n + 1] = step[<<n, at(n + 1)[n]>>]
    <3> DEFINE h == at(n + 1)
    <3>1. h \in Upto(n + 1)
      <4>1. n + 1 \in Nat
        OBVIOUS
      <4> HIDE DEF at, Upto
      <4> QED
        BY <1>3, <4>1
    <3> HIDE DEF h
    <3>2. n \in 0..((n + 1) - 1)
      OBVIOUS
    <3>3. h[n + 1] = step[<<n, h[n]>>]
      BY <3>1, <3>2
    <3> QED
      BY <3>3 DEF h
  <2>2. at(n + 1)[n] = at(n)[n]
    <3>1. n + 1 \in Nat /\ n \in 0..(n + 1) /\ n \in 0..n
      OBVIOUS
    <3> HIDE DEF at, Upto
    <3> QED
      BY <1>2, <1>3, <3>1
  <2> HIDE DEF at
  <2> QED
    BY <2>1, <2>2
<1> HIDE DEF G
<1>7. Goes(G, V, v, step)
  BY <1>5, <1>6 DEF Goes
<1> QED
  BY <1>7

\* The powers of 2.
LEMMA PowIs ==
  /\ Pow2[0] = 1
  /\ \A n \in Nat : Pow2[n] \in Nat \ {0} /\ Pow2[n + 1] = 2 * Pow2[n]
<1> DEFINE step == [p \in Nat \X Nat |-> 2 * p[2]]
<1>1. step \in [Nat \X Nat -> Nat] /\ 1 \in Nat
  OBVIOUS
<1>2. PICK g : Goes(g, Nat, 1, step)
  <2> HIDE DEF step
  <2> QED
    BY <1>1, IterationExists
<1>3. g \in [Nat -> Nat] /\ g[0] = 1 /\ \A n \in Nat : g[n + 1] = 2 * g[n]
  <2>1. g \in [Nat -> Nat] /\ g[0] = 1 /\ \A n \in Nat : g[n + 1] = step[<<n, g[n]>>]
    <3> HIDE DEF step
    <3> QED
      BY <1>2 DEF Goes
  <2>2. \A n \in Nat : step[<<n, g[n]>>] = 2 * g[n]
    BY <2>1
  <2> HIDE DEF step
  <2> QED
    BY <2>1, <2>2
<1> DEFINE Is(f) == f = [n \in Nat |-> IF n = 0 THEN 1 ELSE 2 * f[n - 1]]
<1>4. Is(g)
  <2>1. \A n \in Nat : g[n] = IF n = 0 THEN 1 ELSE 2 * g[n - 1]
    <3> TAKE n \in Nat
    <3>1. CASE n # 0
      <4>1. n - 1 \in Nat /\ (n - 1) + 1 = n
        BY <3>1
      <4> QED
        BY <1>3, <3>1, <4>1
    <3> QED
      BY <1>3, <3>1
  <2> QED
    BY <1>3, <2>1
<1>5. Pow2 = CHOOSE f : Is(f)
  BY DEF Pow2
<1>6. Is(Pow2)
  <2> HIDE DEF Is
  <2> QED
    BY <1>4, <1>5
<1>7. \A n \in Nat : Pow2[n] = IF n = 0 THEN 1 ELSE 2 * Pow2[n - 1]
  BY <1>6
<1>8. Pow2[0] = 1 /\ \A n \in Nat : Pow2[n + 1] = 2 * Pow2[n]
  <2>1. \A n \in Nat : n + 1 \in Nat /\ n + 1 # 0 /\ (n + 1) - 1 = n
    OBVIOUS
  <2> QED
    BY <1>7, <2>1
<1> DEFINE Bad == {n \in Nat : Pow2[n] \notin Nat \ {0}}
<1>9. Bad = {}
  <2> SUFFICES ASSUME Bad # {} PROVE FALSE
    OBVIOUS
  <2>1. Bad \in SUBSET Nat
    OBVIOUS
  <2>2. PICK n \in Bad : n = 0 \/ (n - 1 \in Nat /\ n - 1 \notin Bad)
    <3> HIDE DEF Bad
    <3> QED
      BY <2>1, Least
  <2>3. n \in Nat /\ Pow2[n] \notin Nat \ {0}
    OBVIOUS
  <2>4. n # 0
    BY <1>8, <2>3
  <2>5. n - 1 \in Nat /\ Pow2[n - 1] \in Nat \ {0} /\ (n - 1) + 1 = n
    BY <2>2, <2>4
  <2>6. Pow2[n] = 2 * Pow2[n - 1]
    BY <1>8, <2>5
  <2> QED
    BY <2>3, <2>5, <2>6
<1> QED
  BY <1>8, <1>9

\* Division with a remainder, of any number.
LEMMA Divides ==
  ASSUME NEW a \in Int, NEW b \in Nat \ {0}
  PROVE  a \div b \in Int /\ a % b \in 0..(b - 1) /\ a = b * (a \div b) + (a % b)
<1>1. a \div b \in Int /\ a % b \in Int /\ 0 <= a % b /\ a % b < b
  BY SMTT(20)
<1>2. a = b * (a \div b) + (a % b)
  BY SMTT(20)
<1> QED
  BY <1>1, <1>2

\* There is only one.
LEMMA DividesOnce ==
  ASSUME NEW b \in Nat \ {0}, NEW q \in Int, NEW r \in 0..(b - 1), NEW a \in Int, a = b * q + r
  PROVE  a \div b = q /\ a % b = r
<1>1. a \div b \in Int /\ a % b \in 0..(b - 1) /\ a = b * (a \div b) + (a % b)
  BY Divides
<1> DEFINE p == a \div b
           s == a % b
<1>2. p \in Int /\ s \in 0..(b - 1) /\ b * q + r = b * p + s
  BY <1>1
<1> HIDE DEF p, s
<1>3. p = q
  <2>1. CASE p < q
    <3>1. b * p + b <= b * q
      <4>1. q - p - 1 \in Nat
        BY <1>2, <2>1
      <4>2. b * (q - p - 1) >= 0
        BY <4>1
      <4>3. b * (q - p - 1) = b * q - b * p - b
        BY <1>2
      <4>4. b * q \in Int /\ b * p \in Int
        BY <1>2
      <4> QED
        BY <4>2, <4>3, <4>4
    <3>2. b * q \in Int /\ b * p \in Int
      BY <1>2
    <3> QED
      BY <1>2, <3>1, <3>2
  <2>2. CASE q < p
    <3>1. b * q + b <= b * p
      <4>1. p - q - 1 \in Nat
        BY <1>2, <2>2
      <4>2. b * (p - q - 1) >= 0
        BY <4>1
      <4>3. b * (p - q - 1) = b * p - b * q - b
        BY <1>2
      <4>4. b * q \in Int /\ b * p \in Int
        BY <1>2
      <4> QED
        BY <4>2, <4>3, <4>4
    <3>2. b * q \in Int /\ b * p \in Int
      BY <1>2
    <3> QED
      BY <1>2, <3>1, <3>2
  <2> QED
    BY <1>2, <2>1, <2>2
<1>4. s = r
  BY <1>2, <1>3
<1> QED
  BY <1>3, <1>4 DEF p, s

\* Dividing twice.
LEMMA DividesTwice ==
  ASSUME NEW a \in Int, NEW b \in Nat \ {0}, NEW c \in Nat \ {0}
  PROVE  b * c \in Nat \ {0} /\ (a \div b) \div c = a \div (b * c)
<1> DEFINE q == a \div b
           r == a % b
           p == q \div c
           s == q % c
<1>1. q \in Int /\ r \in 0..(b - 1) /\ a = b * q + r
  BY Divides
<1>2. p \in Int /\ s \in 0..(c - 1) /\ q = c * p + s
  <2> HIDE DEF q
  <2> QED
    BY <1>1, Divides
<1>3. b * c \in Nat \ {0}
  OBVIOUS
<1> HIDE DEF q, r, p, s
<1>4. a = (b * c) * p + (b * s + r)
  BY <1>1, <1>2
<1>5. b * s + r \in 0..(b * c - 1)
  <2>1. b * s >= 0 /\ b * s \in Int
    BY <1>2
  <2>2. c - 1 - s \in Nat
    BY <1>2
  <2>3. b * (c - 1 - s) >= 0
    BY <2>2
  <2>4. b * (c - 1 - s) = b * c - b - b * s
    BY <1>2
  <2> QED
    BY <1>1, <1>3, <2>1, <2>3, <2>4
<1> DEFINE d == b * c
           t == b * s + r
<1>6. d \in Nat \ {0} /\ t \in 0..(d - 1) /\ a = d * p + t
  BY <1>3, <1>4, <1>5
<1> HIDE DEF d, t
<1>7. a \div d = p
  BY <1>2, <1>6, DividesOnce
<1> QED
  BY <1>3, <1>7 DEF d, p, q

\* Adding a multiple.
LEMMA DividesSum ==
  ASSUME NEW a \in Int, NEW b \in Nat \ {0}, NEW k \in Int
  PROVE  (b * k + a) \div b = k + (a \div b) /\ (b * k + a) % b = a % b
<1> DEFINE q == a \div b
           r == a % b
           c == b * k + a
<1>1. q \in Int /\ r \in 0..(b - 1) /\ a = b * q + r
  BY Divides
<1> HIDE DEF q, r
<1>2. c \in Int /\ c = b * (k + q) + r /\ k + q \in Int
  BY <1>1
<1> HIDE DEF c
<1>3. c \div b = k + q /\ c % b = r
  BY <1>1, <1>2, DividesOnce
<1> QED
  BY <1>3 DEF q, r, c

\* A number below the divisor.
LEMMA DividesSmall ==
  ASSUME NEW b \in Nat \ {0}, NEW a \in 0..(b - 1)
  PROVE  a \div b = 0 /\ a % b = a
<1>1. a \in Int /\ a = b * 0 + a /\ 0 \in Int
  OBVIOUS
<1> QED
  BY <1>1, DividesOnce

\* Exponents add up.
LEMMA PowSum ==
  ASSUME NEW a \in Nat, NEW b \in Nat
  PROVE  Pow2[a + b] = Pow2[a] * Pow2[b]
<1> DEFINE Bad == {n \in Nat : Pow2[a + n] # Pow2[a] * Pow2[n]}
<1> SUFFICES ASSUME Bad # {} PROVE FALSE
  OBVIOUS
<1>1. Bad \in SUBSET Nat
  OBVIOUS
<1>2. PICK n \in Bad : n = 0 \/ (n - 1 \in Nat /\ n - 1 \notin Bad)
  <2> HIDE DEF Bad
  <2> QED
    BY <1>1, Least
<1>3. n \in Nat /\ Pow2[a + n] # Pow2[a] * Pow2[n]
  OBVIOUS
<1>4. n # 0
  <2>1. a + 0 = a /\ Pow2[a] \in Nat
    BY PowIs
  <2> QED
    BY <1>3, <2>1, PowIs
<1>5. n - 1 \in Nat /\ Pow2[a + (n - 1)] = Pow2[a] * Pow2[n - 1]
  BY <1>2, <1>4
<1>6. Pow2[n] = 2 * Pow2[n - 1] /\ Pow2[n - 1] \in Nat /\ Pow2[a] \in Nat
  <2>1. (n - 1) + 1 = n
    BY <1>3
  <2> QED
    BY <1>5, <2>1, PowIs
<1>7. Pow2[a + n] = 2 * Pow2[a + (n - 1)]
  <2>1. (a + (n - 1)) + 1 = a + n /\ a + (n - 1) \in Nat
    BY <1>5
  <2> QED
    BY <2>1, PowIs
<1>8. 2 * (Pow2[a] * Pow2[n - 1]) = Pow2[a] * (2 * Pow2[n - 1])
  BY <1>6
<1> QED
  BY <1>3, <1>5, <1>6, <1>7, <1>8

\* A larger power is a multiple, at least twice as large.
LEMMA PowSplit ==
  ASSUME NEW i \in Nat, NEW n \in Nat, i < n
  PROVE  /\ n - i - 1 \in Nat /\ Pow2[n - i - 1] \in Nat \ {0}
         /\ Pow2[n] = Pow2[i] * (2 * Pow2[n - i - 1])
         /\ 2 * Pow2[i] <= Pow2[n]
<1>1. n - i - 1 \in Nat /\ n = i + ((n - i - 1) + 1) /\ (n - i - 1) + 1 \in Nat
  OBVIOUS
<1> DEFINE k == n - i - 1
<1>2. Pow2[k] \in Nat \ {0} /\ Pow2[k + 1] = 2 * Pow2[k] /\ Pow2[i] \in Nat \ {0}
  BY <1>1, PowIs
<1>3. Pow2[i + (k + 1)] = Pow2[i] * Pow2[k + 1]
  BY <1>1, PowSum
<1> DEFINE p == Pow2[i]
           q == Pow2[k]
<1>4. p \in Nat \ {0} /\ q \in Nat \ {0} /\ Pow2[n] = p * (2 * q)
  BY <1>1, <1>2, <1>3
<1> HIDE DEF p, q
<1>5. 2 * p <= p * (2 * q)
  <2>1. q - 1 \in Nat
    BY <1>4
  <2>2. p * (q - 1) >= 0 /\ p * (q - 1) = p * q - p /\ p * q \in Int /\ p * (2 * q) = 2 * (p * q)
    BY <1>4, <2>1
  <2> QED
    BY <1>4, <2>2
<1> QED
  BY <1>1, <1>2, <1>4, <1>5 DEF p, q

\* The number that the first digits are.
Reads(V, s, n) ==
  /\ V \in [0..n -> Int] /\ V[0] = 0 /\ V[n] = to_int(s)
  /\ \A i \in 1..n : V[i] = 2 * V[i - 1] + s[i]

\* to_int reads its digits one by one.
LEMMA ToIntReads ==
  ASSUME NEW n \in Nat, NEW s \in [1..n -> Int]
  PROVE  \E V : Reads(V, s, n)
<1> DEFINE step == [p \in Nat \X Int |-> IF p[1] + 1 \in 1..n THEN 2 * p[2] + s[p[1] + 1] ELSE 0]
<1>1. step \in [Nat \X Int -> Int] /\ 0 \in Int
  OBVIOUS
<1>2. PICK g : Goes(g, Int, 0, step)
  <2> HIDE DEF step
  <2> QED
    BY <1>1, IterationExists
<1>3. g \in [Nat -> Int] /\ g[0] = 0 /\ \A i \in 0..(n - 1) : g[i + 1] = 2 * g[i] + s[i + 1]
  <2>1. g \in [Nat -> Int] /\ g[0] = 0 /\ \A i \in Nat : g[i + 1] = step[<<i, g[i]>>]
    <3> HIDE DEF step
    <3> QED
      BY <1>2 DEF Goes
  <2>2. \A i \in 0..(n - 1) : step[<<i, g[i]>>] = 2 * g[i] + s[i + 1]
    BY <2>1
  <2>3. \A i \in 0..(n - 1) : i \in Nat
    OBVIOUS
  <2>4. \A i \in 0..(n - 1) : g[i + 1] = 2 * g[i] + s[i + 1]
    <3> HIDE DEF step
    <3> QED
      BY <2>1, <2>2, <2>3
  <2> QED
    BY <2>1, <2>4
<1> HIDE DEF step
<1> DEFINE v == [i \in 0..n |-> g[i]]
           Is(f) == f = [i \in 0..n |-> IF i = 0 THEN 0 ELSE 2 * f[i - 1] + s[i]]
<1>4. Len(s) = n
  BY FunctionsAreSeqs
<1>5. to_int(s) = (CHOOSE f : Is(f))[n]
  BY <1>4 DEF to_int
<1>6. Is(v)
  <2>1. \A i \in 0..n : v[i] = IF i = 0 THEN 0 ELSE 2 * v[i - 1] + s[i]
    <3> TAKE i \in 0..n
    <3>1. CASE i # 0
      <4>1. i - 1 \in 0..(n - 1) /\ (i - 1) + 1 = i /\ i - 1 \in 0..n
        BY <3>1
      <4> QED
        BY <1>3, <3>1, <4>1
    <3> QED
      BY <1>3, <3>1
  <2> QED
    BY <2>1
<1>7. PICK V : V = (CHOOSE f : Is(f))
  OBVIOUS
<1>8. Is(V)
  <2> HIDE DEF Is
  <2> QED
    BY <1>6, <1>7
<1>9. DOMAIN V = 0..n /\ \A i \in 0..n : V[i] = IF i = 0 THEN 0 ELSE 2 * V[i - 1] + s[i]
  BY <1>8
<1> DEFINE Bad == {i \in Nat : i <= n /\ V[i] \notin Int}
<1>10. Bad = {}
  <2> SUFFICES ASSUME Bad # {} PROVE FALSE
    OBVIOUS
  <2>1. Bad \in SUBSET Nat
    OBVIOUS
  <2>2. PICK i \in Bad : i = 0 \/ (i - 1 \in Nat /\ i - 1 \notin Bad)
    <3> HIDE DEF Bad
    <3> QED
      BY <2>1, Least
  <2>3. i \in 0..n /\ V[i] \notin Int
    OBVIOUS
  <2>4. i # 0
    BY <1>9, <2>3
  <2>5. i - 1 \in Nat /\ i - 1 <= n /\ V[i - 1] \in Int
    BY <2>2, <2>3, <2>4
  <2>6. V[i] = 2 * V[i - 1] + s[i] /\ s[i] \in Int
    BY <1>9, <2>3, <2>4
  <2> QED
    BY <2>3, <2>5, <2>6
<1>11. \A i \in 0..n : V[i] \in Int
  BY <1>10
<1>12. V \in [0..n -> Int]
  <2>1. V = [i \in 0..n |-> V[i]]
    BY <1>8
  <2> QED
    BY <1>11, <2>1
<1>13. V[0] = 0 /\ \A i \in 1..n : V[i] = 2 * V[i - 1] + s[i]
  <2>1. 0 \in 0..n /\ \A i \in 1..n : i \in 0..n /\ i # 0
    OBVIOUS
  <2> QED
    BY <1>9, <2>1
<1>14. V[n] = to_int(s)
  BY <1>5, <1>7
<1> QED
  BY <1>12, <1>13, <1>14 DEF Reads

\* Digit i of a number, from the lowest.
Digit(x, i) == (x \div Pow2[i]) % 2

\* What to_bytes writes are digits.
LEMMA Written ==
  ASSUME NEW n \in Nat, NEW x \in Int
  PROVE  to_bytes(x, n) \in [1..n -> 0..1] /\ \A k \in 1..n : to_bytes(x, n)[k] = Digit(x, n - k)
<1>1. \A k \in 1..n : n - k \in Nat /\ Pow2[n - k] \in Nat \ {0}
  BY PowIs
<1>2. \A k \in 1..n : x \div Pow2[n - k] \in Int
  BY <1>1, Divides
<1>3. \A a \in Int : a % 2 \in 0..1
  BY Divides
<1>4. \A k \in 1..n : (x \div Pow2[n - k]) % 2 \in 0..1
  BY <1>2, <1>3
<1>5. to_bytes(x, n) = [k \in 1..n |-> (x \div Pow2[n - k]) % 2]
  BY DEF to_bytes
<1> QED
  BY <1>4, <1>5 DEF Digit

\* A number is what its digits are read as.
LEMMA RoundTripOfInt ==
  ASSUME NEW n \in Nat, NEW x \in 0..(Pow2[n] - 1)
  PROVE  to_int(to_bytes(x, n)) = x
<1> DEFINE s == to_bytes(x, n)
<1>1. Pow2[n] \in Nat \ {0} /\ x \in Int
  BY PowIs
<1>2. s \in [1..n -> Int] /\ \A k \in 1..n : s[k] = Digit(x, n - k)
  BY <1>1, Written
<1> HIDE DEF s
<1>3. PICK V : Reads(V, s, n)
  BY <1>2, ToIntReads
<1> DEFINE Bad == {i \in Nat : i <= n /\ V[i] # x \div Pow2[n - i]}
<1>4. Bad = {}
  <2> SUFFICES ASSUME Bad # {} PROVE FALSE
    OBVIOUS
  <2>1. Bad \in SUBSET Nat
    OBVIOUS
  <2>2. PICK i \in Bad : i = 0 \/ (i - 1 \in Nat /\ i - 1 \notin Bad)
    <3> HIDE DEF Bad
    <3> QED
      BY <2>1, Least
  <2>3. i \in 0..n /\ V[i] # x \div Pow2[n - i]
    OBVIOUS
  <2>4. i # 0
    <3>1. x \div Pow2[n] = 0 /\ n - 0 = n
      BY <1>1, DividesSmall
    <3> QED
      BY <1>3, <2>3, <3>1 DEF Reads
  <2> DEFINE k == n - i
             q == x \div Pow2[k]
  <2>5. k \in Nat /\ i \in 1..n /\ i - 1 <= n /\ n - (i - 1) = k + 1
    BY <2>3, <2>4
  <2>6. V[i - 1] = x \div Pow2[k + 1]
    BY <2>2, <2>4, <2>5
  <2>7. Pow2[k] \in Nat \ {0} /\ Pow2[k + 1] = Pow2[k] * 2
    <3>1. Pow2[k] \in Nat \ {0} /\ Pow2[k + 1] = 2 * Pow2[k]
      BY <2>5, PowIs
    <3> QED
      BY <3>1
  <2>8. q \in Int /\ q \div 2 = x \div Pow2[k + 1]
    <3> DEFINE p == Pow2[k]
    <3>1. 2 \in Nat \ {0} /\ p \in Nat \ {0} /\ Pow2[k + 1] = p * 2
      BY <2>7
    <3> HIDE DEF p
    <3>2. x \div p \in Int /\ (x \div p) \div 2 = x \div (p * 2)
      BY <1>1, <3>1, Divides, DividesTwice
    <3> QED
      BY <3>1, <3>2 DEF p
  <2>9. s[i] = q % 2
    BY <1>2, <2>5 DEF Digit
  <2> HIDE DEF q
  <2>10. q = 2 * (q \div 2) + (q % 2)
    <3>1. 2 \in Nat \ {0}
      OBVIOUS
    <3> QED
      BY <2>8, <3>1, Divides
  <2>11. V[i] = 2 * V[i - 1] + s[i]
    BY <1>3, <2>5 DEF Reads
  <2>12. V[i] = q
    BY <2>6, <2>8, <2>9, <2>10, <2>11
  <2> QED
    BY <2>3, <2>12 DEF q
<1>5. V[n] = x \div Pow2[n - n]
  BY <1>4
<1>6. Pow2[n - n] = 1
  <2>1. n - n = 0
    OBVIOUS
  <2> QED
    BY <2>1, PowIs
<1>7. x \div 1 = x
  OBVIOUS
<1> QED
  BY <1>3, <1>5, <1>6, <1>7 DEF s, Reads

\* Digits are those of the number that they are read as.
LEMMA RoundTripOfDigits ==
  ASSUME NEW n \in Nat, NEW s \in [1..n -> 0..1]
  PROVE  to_int(s) \in 0..(Pow2[n] - 1) /\ to_bytes(to_int(s), n) = s
<1>1. s \in [1..n -> Int]
  OBVIOUS
<1>2. PICK V : Reads(V, s, n)
  BY <1>1, ToIntReads
<1> DEFINE x == V[n]
           Neg == {i \in Nat : i <= n /\ V[i] \notin Nat}
           Bad == {j \in Nat : j <= n /\ x \div Pow2[j] # V[n - j]}
<1>3. V \in [0..n -> Int] /\ x \in Int /\ x = to_int(s)
  BY <1>2 DEF Reads
<1>4. Neg = {}
  <2> SUFFICES ASSUME Neg # {} PROVE FALSE
    OBVIOUS
  <2>1. Neg \in SUBSET Nat
    OBVIOUS
  <2>2. PICK i \in Neg : i = 0 \/ (i - 1 \in Nat /\ i - 1 \notin Neg)
    <3> HIDE DEF Neg
    <3> QED
      BY <2>1, Least
  <2>3. i \in 0..n /\ V[i] \notin Nat
    OBVIOUS
  <2>4. i # 0
    BY <1>2, <2>3 DEF Reads
  <2>5. V[i - 1] \in Nat /\ i \in 1..n
    BY <2>2, <2>3, <2>4
  <2>6. V[i] = 2 * V[i - 1] + s[i] /\ s[i] \in 0..1
    BY <1>2, <2>5 DEF Reads
  <2> QED
    BY <2>3, <2>5, <2>6
<1>5. \A i \in 0..n : V[i] \in Nat
  BY <1>4
<1>6. \A i \in 1..n : V[i] \div 2 = V[i - 1] /\ V[i] % 2 = s[i]
  <2> TAKE i \in 1..n
  <2>1. V[i] = 2 * V[i - 1] + s[i] /\ s[i] \in 0..1 /\ V[i - 1] \in Int /\ V[i] \in Int
    <3>1. i \in 0..n /\ i - 1 \in 0..n
      OBVIOUS
    <3> QED
      BY <1>2, <3>1 DEF Reads
  <2> DEFINE v == V[i]
             q == V[i - 1]
             r == s[i]
  <2>2. 2 \in Nat \ {0} /\ r \in 0..(2 - 1) /\ q \in Int /\ v \in Int /\ v = 2 * q + r
    BY <2>1
  <2> HIDE DEF v, q, r
  <2>3. v \div 2 = q /\ v % 2 = r
    BY <2>2, DividesOnce
  <2> QED
    BY <2>3 DEF v, q, r
<1> HIDE DEF x
<1>7. Bad = {}
  <2> SUFFICES ASSUME Bad # {} PROVE FALSE
    OBVIOUS
  <2>1. Bad \in SUBSET Nat
    OBVIOUS
  <2>2. PICK j \in Bad : j = 0 \/ (j - 1 \in Nat /\ j - 1 \notin Bad)
    <3> HIDE DEF Bad
    <3> QED
      BY <2>1, Least
  <2>3. j \in 0..n /\ x \div Pow2[j] # V[n - j]
    OBVIOUS
  <2>4. j # 0
    <3>1. n - 0 = n /\ Pow2[0] = 1
      BY PowIs
    <3>2. x \div 1 = x
      BY <1>3
    <3> QED
      BY <2>3, <3>1, <3>2 DEF x
  <2>5. j - 1 \in Nat /\ j - 1 <= n /\ x \div Pow2[j - 1] = V[n - (j - 1)]
    BY <2>2, <2>3, <2>4
  <2>6. Pow2[j - 1] \in Nat \ {0} /\ Pow2[j] = Pow2[j - 1] * 2
    <3>1. (j - 1) + 1 = j
      BY <2>3
    <3>2. Pow2[j - 1] \in Nat \ {0} /\ Pow2[j] = 2 * Pow2[j - 1]
      BY <2>5, <3>1, PowIs
    <3> QED
      BY <3>2
  <2>7. (x \div Pow2[j - 1]) \div 2 = x \div Pow2[j]
    <3> DEFINE p == Pow2[j - 1]
    <3>1. 2 \in Nat \ {0} /\ p \in Nat \ {0} /\ Pow2[j] = p * 2
      BY <2>6
    <3> HIDE DEF p
    <3>2. (x \div p) \div 2 = x \div (p * 2)
      BY <1>3, <3>1, DividesTwice
    <3> QED
      BY <3>1, <3>2 DEF p
  <2>8. V[n - (j - 1)] \div 2 = V[n - j]
    <3>1. n - (j - 1) \in 1..n /\ (n - (j - 1)) - 1 = n - j
      BY <2>3, <2>4
    <3> QED
      BY <1>6, <3>1
  <2> QED
    BY <2>3, <2>5, <2>7, <2>8
<1>8. \A j \in 0..n : x \div Pow2[j] = V[n - j]
  BY <1>7
<1>9. x \in 0..(Pow2[n] - 1)
  <2>1. x \in Nat
    BY <1>5 DEF x
  <2>2. x \div Pow2[n] = 0 /\ Pow2[n] \in Nat \ {0}
    <3>1. x \div Pow2[n] = V[n - n]
      BY <1>8
    <3>2. n - n = 0 /\ V[0] = 0
      BY <1>2 DEF Reads
    <3> QED
      BY <3>1, <3>2, PowIs
  <2> DEFINE w == Pow2[n]
  <2>3. w \in Nat \ {0} /\ x \div w = 0
    BY <2>2
  <2> HIDE DEF w
  <2>4. x % w \in 0..(w - 1) /\ x = w * (x \div w) + (x % w)
    BY ONLY <1>3, <2>3, Divides, ZenonT(30)
  <2>5. x \in 0..(w - 1)
    BY ONLY <2>3, <2>4
  <2> QED
    BY <2>5 DEF w
<1>10. \A k \in 1..n : Digit(x, n - k) = s[k]
  <2> TAKE k \in 1..n
  <2>1. n - k \in 0..n /\ n - (n - k) = k
    OBVIOUS
  <2>2. x \div Pow2[n - k] = V[k]
    BY <1>8, <2>1
  <2> QED
    BY <1>6, <2>2 DEF Digit
<1>11. to_bytes(x, n) = s
  <2>1. to_bytes(x, n) \in [1..n -> 0..1] /\ \A k \in 1..n : to_bytes(x, n)[k] = s[k]
    BY <1>3, <1>10, Written
  <2> QED
    BY <2>1
<1> QED
  BY <1>3, <1>9, <1>11

\* One digit more.
LEMMA LinearStep ==
  ASSUME NEW m \in 1..2, NEW A \in Int, NEW B \in Int, NEW C \in Int, NEW a \in Int, NEW b \in Int, NEW c \in Int
  PROVE  2 * (A + B - m * C) + (a + b - m * c) = (2 * A + a) + (2 * B + b) - m * (2 * C + c)
<1>1. m = 1 \/ m = 2
  OBVIOUS
<1> QED
  BY <1>1

\* Two numbers without m times a third, and the same digit by digit.
Total(a, b, m, c) == a + b - m * c
IsTotal(d, a, b, m, c, n) ==
  /\ n \in Nat /\ m \in 1..2
  /\ a \in [1..n -> Int] /\ b \in [1..n -> Int] /\ c \in [1..n -> Int] /\ d \in [1..n -> Int]
  /\ \A k \in 1..n : d[k] = Total(a[k], b[k], m, c[k])

\* Reading is linear in the digits.
LEMMA ReadsSum ==
  ASSUME NEW d, NEW a, NEW b, NEW m, NEW c, NEW n, IsTotal(d, a, b, m, c, n)
  PROVE  to_int(d) = Total(to_int(a), to_int(b), m, to_int(c))
<1>0. /\ n \in Nat /\ m \in 1..2 /\ a \in [1..n -> Int] /\ b \in [1..n -> Int]
      /\ c \in [1..n -> Int] /\ d \in [1..n -> Int]
      /\ \A k \in 1..n : d[k] = Total(a[k], b[k], m, c[k])
  BY DEF IsTotal
<1>1. PICK A : Reads(A, a, n)
  BY <1>0, ToIntReads
<1>2. PICK B : Reads(B, b, n)
  BY <1>0, ToIntReads
<1>3. PICK C : Reads(C, c, n)
  BY <1>0, ToIntReads
<1>4. PICK D : Reads(D, d, n)
  BY <1>0, ToIntReads
<1> DEFINE Sum(i) == A[i] + B[i] - m * C[i]
           Bad == {i \in Nat : i <= n /\ D[i] # Sum(i)}
<1>5. Bad = {}
  <2> SUFFICES ASSUME Bad # {} PROVE FALSE
    OBVIOUS
  <2>1. Bad \in SUBSET Nat
    OBVIOUS
  <2>2. PICK i \in Bad : i = 0 \/ (i - 1 \in Nat /\ i - 1 \notin Bad)
    <3> HIDE DEF Bad
    <3> QED
      BY <2>1, Least
  <2>3. i \in 0..n /\ D[i] # Sum(i)
    OBVIOUS
  <2>4. i # 0
    BY <1>0, <1>1, <1>2, <1>3, <1>4, <2>3 DEF Reads
  <2>5. i \in 1..n /\ i - 1 \in 0..n /\ D[i - 1] = Sum(i - 1)
    <3> HIDE DEF Sum
    <3> QED
      BY <1>0, <2>2, <2>3, <2>4
  <2>6. A[i] = 2 * A[i - 1] + a[i] /\ A[i - 1] \in Int /\ a[i] \in Int
    BY <1>0, <1>1, <2>5 DEF Reads
  <2>7. B[i] = 2 * B[i - 1] + b[i] /\ B[i - 1] \in Int /\ b[i] \in Int
    BY <1>0, <1>2, <2>5 DEF Reads
  <2>8. C[i] = 2 * C[i - 1] + c[i] /\ C[i - 1] \in Int /\ c[i] \in Int
    BY <1>0, <1>3, <2>5 DEF Reads
  <2>9. D[i] = 2 * D[i - 1] + d[i] /\ d[i] = a[i] + b[i] - m * c[i]
    BY <1>0, <1>4, <2>5 DEF Reads, Total
  <2>10. D[i] = Sum(i)
    <3> DEFINE p == A[i - 1]
               q == B[i - 1]
               r == C[i - 1]
               t == a[i]
               u == b[i]
               w == c[i]
    <3>1. p \in Int /\ q \in Int /\ r \in Int /\ t \in Int /\ u \in Int /\ w \in Int
      BY <2>6, <2>7, <2>8
    <3>2. D[i] = 2 * (p + q - m * r) + (t + u - m * w)
      BY <2>5, <2>9
    <3>3. Sum(i) = (2 * p + t) + (2 * q + u) - m * (2 * r + w)
      BY <2>6, <2>7, <2>8
    <3> HIDE DEF p, q, r, t, u, w, Sum
    <3> QED
      BY <1>0, <3>1, <3>2, <3>3, LinearStep
  <2> QED
    BY <2>3, <2>10
<1>6. ASSUME NEW i \in 0..n PROVE D[i] = Sum(i)
  <2>1. i \in Nat /\ i <= n /\ i \notin Bad
    <3> HIDE DEF Bad
    <3> QED
      BY <1>5
  <2> HIDE DEF Sum
  <2> QED
    BY <2>1
<1>7. D[n] = A[n] + B[n] - m * C[n]
  BY <1>0, <1>6
<1> QED
  BY <1>0, <1>1, <1>2, <1>3, <1>4, <1>7 DEF Reads, Total

(***************************************************************************)
(* Arithmetic of words                                                     *)
(***************************************************************************)

EvmWord == 0..(Mod - 1)

\* The modulus is even.
LEMMA ModIs ==
  /\ Mod \in Nat \ {0} /\ Mod >= 2 /\ Mod = Pow2[Width] /\ Pow2[Width - 1] \in Nat \ {0}
  /\ Mod = 2 * Pow2[Width - 1] /\ Mod \div 2 = Pow2[Width - 1]
<1> DEFINE h == Pow2[Width - 1]
<1>1. Width - 1 \in Nat /\ (Width - 1) + 1 = Width /\ Width \in Nat
  BY WidthAssumption
<1>2. h \in Nat \ {0} /\ Pow2[Width] = 2 * h
  BY <1>1, PowIs
<1>3. Mod = 2 * h + 0
  BY <1>2 DEF Mod
<1> HIDE DEF h
<1>4. Mod \in Nat /\ 2 \in Nat \ {0} /\ h \in Int /\ 0 \in 0..(2 - 1) /\ Mod \in Int
  BY <1>2, <1>3
<1>5. Mod \div 2 = h
  BY <1>3, <1>4, DividesOnce
<1> QED
  BY <1>2, <1>3, <1>5 DEF h, Mod

\* A word is not changed by wrapping, and a truth value is a word.
LEMMA WrapIs ==
  /\ \A a \in EvmWord : a \in Int /\ Wrap(a) = a
  /\ \A a \in Int : Wrap(a) \in EvmWord
  /\ \A b \in BOOLEAN : Truth(b) \in EvmWord
<1>1. \A a \in EvmWord : a % Mod = a
  BY ModIs, DividesSmall DEF EvmWord
<1>2. \A a \in Int : a % Mod \in 0..(Mod - 1)
  BY ModIs, Divides
<1>3. \A a \in EvmWord : a \in Int
  BY ModIs DEF EvmWord
<1>4. 0 \in EvmWord /\ 1 \in EvmWord
  BY ModIs DEF EvmWord
<1>5. \A b \in BOOLEAN : Truth(b) \in EvmWord
  BY <1>4 DEF Truth
<1> QED
  BY <1>1, <1>2, <1>3, <1>5 DEF EvmWord, Wrap

\* A word read as signed.
LEMMA SignedIs ==
  ASSUME NEW a \in EvmWord
  PROVE  /\ AsSigned(a) \in -Mod..Mod /\ AsSigned(a) \in Int
         /\ a \in -Mod..Mod
  BY ModIs DEF AsSigned, EvmWord

\* The magnitude of a quotient, and the rest.
LEMMA DivisionParts ==
  ASSUME NEW x \in Int, NEW y \in Int, y # 0
  PROVE  /\ Abs(x) \in Nat /\ Abs(y) \in Nat \ {0}
         /\ Abs(x) \div Abs(y) \in Nat /\ Abs(x) % Abs(y) \in 0..(Abs(y) - 1)
         /\ Abs(x) = Abs(y) * (Abs(x) \div Abs(y)) + (Abs(x) % Abs(y))
<1>1. Abs(x) \in Nat /\ Abs(y) \in Nat \ {0}
  BY DEF Abs
<1> DEFINE a == Abs(x)
           b == Abs(y)
           d == a \div b
           r == a % b
<1>2. a \in Nat /\ b \in Nat \ {0}
  BY <1>1
<1> HIDE DEF a, b
<1>3. d \in Int /\ r \in 0..(b - 1) /\ a = b * d + r
  <2>1. a \in Int
    BY <1>2
  <2> QED
    BY <1>2, <2>1, Divides
<1> HIDE DEF d, r
<1>4. d \in Nat
  <2> SUFFICES ASSUME d < 0 PROVE FALSE
    BY <1>3
  <2>1. -d - 1 \in Nat
    BY <1>3
  <2>2. b * (-d - 1) >= 0 /\ b * (-d - 1) = -(b * d) - b /\ b * d \in Int
    BY <1>2, <1>3, <2>1
  <2> QED
    BY <1>2, <1>3, <2>2
<1> QED
  BY <1>2, <1>3, <1>4 DEF a, b, d, r

\* The sign of a product.
LEMMA Signs ==
  ASSUME NEW x \in Int, NEW y \in Int
  PROVE  /\ x < 0 /\ y < 0 => x * y > 0
         /\ x > 0 /\ y > 0 => x * y > 0
         /\ x < 0 /\ y > 0 => x * y < 0
         /\ x > 0 /\ y < 0 => x * y < 0
         /\ x = 0 => x * y = 0
  BY SMTT(20)

\* The quotient that truncates is the only one.
LEMMA QuotientIs ==
  ASSUME NEW x \in -Mod..Mod, NEW y \in Int
  PROVE  Quotient(x, y) = EvmDiv(x, y) /\ EvmDiv(x, y) \in -Mod..Mod
<1> USE ModIs
<1>0. Mod \in Nat /\ x \in Int /\ 0 \in -Mod..Mod
  OBVIOUS
<1>1. CASE y = 0
  BY <1>0, <1>1 DEF Quotient, EvmDiv
<1>2. CASE y # 0
  <2> DEFINE a == Abs(x)
             b == Abs(y)
             d == a \div b
             r == a % b
             q == EvmDiv(x, y)
  <2>1. a \in Nat /\ b \in Nat \ {0} /\ d \in Nat /\ r \in 0..(b - 1) /\ a = b * d + r
    BY <1>0, <1>2, DivisionParts
  <2>2. a <= Mod
    BY <1>0 DEF Abs
  <2>3. d <= a
    <3> HIDE DEF a, b, d, r
    <3>1. b - 1 \in Nat
      BY <2>1
    <3>2. (b - 1) * d >= 0 /\ (b - 1) * d = b * d - d /\ b * d \in Int
      BY <2>1, <3>1
    <3> QED
      BY <2>1, <3>2
  <2>4. q = IF x * y < 0 THEN -d ELSE d
    BY <1>2 DEF EvmDiv
  <2>5. a = 0 <=> x = 0
    BY <1>0 DEF Abs
  <2> HIDE DEF a, b, d, r, q
  <2>6. q \in -Mod..Mod /\ q \in Int /\ Abs(q) = d
    BY <1>0, <2>1, <2>2, <2>3, <2>4 DEF Abs
  <2>7. d # 0 => x # 0
    <3> SUFFICES ASSUME x = 0 PROVE d = 0
      OBVIOUS
    <3>1. a = 0
      BY <2>5
    <3> QED
      BY <2>1, <2>3, <3>1
  <2>8. q # 0 => (q < 0 <=> (x < 0) # (y < 0))
    <3> SUFFICES ASSUME q # 0 PROVE q < 0 <=> (x < 0) # (y < 0)
      OBVIOUS
    <3>1. d > 0 /\ x # 0
      BY <2>1, <2>4, <2>7
    <3>2. q < 0 <=> x * y < 0
      BY <2>1, <2>4, <3>1
    <3>3. x * y < 0 <=> ((x < 0 /\ y > 0) \/ (x > 0 /\ y < 0))
      <4>1. (x < 0 \/ x > 0) /\ (y < 0 \/ y > 0)
        BY <1>0, <1>2, <3>1
      <4>2. x * y \in Int
        BY <1>0
      <4> QED
        BY <1>0, <4>1, <4>2, Signs
    <3>4. ((x < 0 /\ y > 0) \/ (x > 0 /\ y < 0)) <=> ((x < 0) # (y < 0))
      BY <1>0, <1>2, <3>1
    <3> QED
      BY <3>2, <3>3, <3>4
  <2>9. ASSUME NEW e \in Nat PROVE (e * b <= a /\ a < (e + 1) * b) <=> e = d
    <3>1. ASSUME e * b <= a, a < (e + 1) * b PROVE e = d
      <4> DEFINE s == a - e * b
      <4>1. e * b \in Nat /\ (e + 1) * b = e * b + b
        BY <2>1
      <4>2. s \in 0..(b - 1) /\ a = b * e + s /\ a \in Int /\ e \in Int
        BY <2>1, <3>1, <4>1
      <4>3. b \in Nat \ {0}
        BY <2>1
      <4> HIDE DEF s, a, b
      <4>4. a \div b = e
        BY ONLY <4>2, <4>3, DividesOnce, ZenonT(30)
      <4> QED
        BY <4>4 DEF d
    <3>2. d * b <= a /\ a < (d + 1) * b
      <4>1. d * b = b * d /\ (d + 1) * b = b * d + b /\ b * d \in Nat
        BY <2>1
      <4> QED
        BY <2>1, <4>1
    <3> QED
      BY <3>1, <3>2
  <2>10. IsQuotient(q, x, y)
    <3>1. d * b <= a /\ a < (d + 1) * b
      BY <2>1, <2>9
    <3> QED
      BY <2>6, <2>8, <3>1 DEF IsQuotient, a, b
  <2>11. ASSUME NEW p \in -Mod..Mod, IsQuotient(p, x, y) PROVE p = q
    <3>1. p \in Int /\ Abs(p) \in Nat
      BY <1>0 DEF Abs
    <3>2. Abs(p) * b <= a /\ a < (Abs(p) + 1) * b
      BY <2>11 DEF IsQuotient, a, b
    <3>3. Abs(p) = d
      BY <2>9, <3>1, <3>2
    <3>4. p # 0 => (p < 0 <=> (x < 0) # (y < 0))
      BY <2>11 DEF IsQuotient
    <3> QED
      BY <2>6, <2>8, <3>1, <3>3, <3>4 DEF Abs
  <2>12. Quotient(x, y) = CHOOSE p \in -Mod..Mod : IsQuotient(p, x, y)
    BY <1>2 DEF Quotient
  <2>13. Quotient(x, y) = q
    BY <2>6, <2>10, <2>11, <2>12
  <2> QED
    BY <2>6, <2>13 DEF q
<1> QED
  BY <1>1, <1>2

\* The remainder is what the quotient leaves.
LEMMA RemainderIs ==
  ASSUME NEW x \in Int, NEW y \in Int, y # 0
  PROVE  EvmMod(x, y) = x - y * EvmDiv(x, y) /\ EvmMod(x, y) \in Int
<1> DEFINE a == Abs(x)
           b == Abs(y)
           d == a \div b
           r == a % b
           q == EvmDiv(x, y)
<1>1. a \in Nat /\ b \in Nat \ {0} /\ d \in Nat /\ r \in 0..(b - 1) /\ a = b * d + r
  BY DivisionParts
<1>2. q = (IF x * y < 0 THEN -d ELSE d) /\ EvmMod(x, y) = IF x < 0 THEN -r ELSE r
  BY DEF EvmDiv, EvmMod
<1>3. (x < 0 => a = -x) /\ (~(x < 0) => a = x) /\ (y < 0 => b = -y) /\ (~(y < 0) => b = y)
  BY DEF Abs
<1> HIDE DEF a, b, d, r, q
<1>4. b * d \in Nat
  BY <1>1
<1>5. CASE x < 0 /\ y < 0
  <2>1. q = d /\ a = -x /\ b = -y
    <3>1. ~(x * y < 0)
      <4>1. x * y > 0 /\ x * y \in Int
        BY <1>5, Signs
      <4> QED
        BY <4>1
    <3> QED
      BY <1>2, <1>3, <1>5, <3>1
  <2>2. y * q = -(b * d)
    BY <1>1, <2>1
  <2> QED
    BY <1>1, <1>2, <1>4, <1>5, <2>1, <2>2 DEF q
<1>6. CASE x < 0 /\ y > 0
  <2>1. q = -d /\ a = -x /\ b = y
    <3>1. x * y < 0
      BY <1>6, Signs
    <3> QED
      BY <1>2, <1>3, <1>6, <3>1
  <2>2. y * q = -(b * d)
    BY <1>1, <2>1
  <2> QED
    BY <1>1, <1>2, <1>4, <1>6, <2>1, <2>2 DEF q
<1>7. CASE x > 0 /\ y < 0
  <2>1. q = -d /\ a = x /\ b = -y
    <3>1. x * y < 0
      BY <1>7, Signs
    <3> QED
      BY <1>2, <1>3, <1>7, <3>1
  <2>2. y * q = b * d
    BY <1>1, <2>1
  <2> QED
    BY <1>1, <1>2, <1>4, <1>7, <2>1, <2>2 DEF q
<1>8. CASE x > 0 /\ y > 0
  <2>1. q = d /\ a = x /\ b = y
    <3>1. ~(x * y < 0)
      <4>1. x * y > 0 /\ x * y \in Int
        BY <1>8, Signs
      <4> QED
        BY <4>1
    <3> QED
      BY <1>2, <1>3, <1>8, <3>1
  <2>2. y * q = b * d
    BY <1>1, <2>1
  <2> QED
    BY <1>1, <1>2, <1>4, <1>8, <2>1, <2>2 DEF q
<1>9. CASE x = 0
  <2>1. a = 0 /\ x * y = 0
    <3>1. x * y = 0
      BY <1>9, Signs
    <3> QED
      BY <1>3, <1>9, <3>1
  <2>2. r = 0 /\ b * d = 0
    BY <1>1, <1>4, <2>1
  <2>3. d = 0
    <3> SUFFICES ASSUME d # 0 PROVE FALSE
      OBVIOUS
    <3>1. d - 1 \in Nat
      BY <1>1
    <3>2. b * (d - 1) >= 0 /\ b * (d - 1) = b * d - b
      BY <1>1, <3>1
    <3> QED
      BY <1>1, <2>2, <3>2
  <2>4. q = 0 /\ y * q = 0
    BY <1>2, <2>1, <2>3
  <2> QED
    BY <1>2, <1>9, <2>2, <2>4 DEF q
<1> QED
  BY <1>5, <1>6, <1>7, <1>8, <1>9

\* The digits of two words, combined.
Both(x, y) == [i \in 1..Width |-> to_bytes(x, Width)[i] * to_bytes(y, Width)[i]]
Either(x, y) == [i \in 1..Width |-> to_bytes(x, Width)[i] + to_bytes(y, Width)[i]
                                      - to_bytes(x, Width)[i] * to_bytes(y, Width)[i]]
Differ(x, y) == [i \in 1..Width |-> to_bytes(x, Width)[i] + to_bytes(y, Width)[i]
                                      - 2 * (to_bytes(x, Width)[i] * to_bytes(y, Width)[i])]

\* A word and its digits.
LEMMA WordIs ==
  ASSUME NEW x \in EvmWord
  PROVE  /\ to_bytes(x, Width) \in [1..Width -> 0..1] /\ to_int(to_bytes(x, Width)) = x
         /\ \A k \in 1..Width : to_bytes(x, Width)[k] = Digit(x, Width - k)
<1>1. x \in Int /\ x \in 0..(Pow2[Width] - 1) /\ Width \in Nat
  BY ModIs, WidthAssumption DEF EvmWord
<1> QED
  BY <1>1, Written, RoundTripOfInt

\* Truth values and the arithmetic of digits.
LEMMA TruthIs ==
  \A a, b \in 0..1 : /\ Truth(a + b = 2) = a * b
                     /\ Truth(a + b > 0) = a + b - a * b
                     /\ Truth(a # b) = a + b - 2 * (a * b)
                     /\ a * b \in 0..1 /\ a + b - a * b \in 0..1 /\ a + b - 2 * (a * b) \in 0..1
<1> SUFFICES ASSUME NEW a \in 0..1, NEW b \in 0..1
             PROVE  /\ Truth(a + b = 2) = a * b
                    /\ Truth(a + b > 0) = a + b - a * b
                    /\ Truth(a # b) = a + b - 2 * (a * b)
                    /\ a * b \in 0..1 /\ a + b - a * b \in 0..1 /\ a + b - 2 * (a * b) \in 0..1
  OBVIOUS
<1>1. (a = 0 \/ a = 1) /\ (b = 0 \/ b = 1)
  OBVIOUS
<1> QED
  BY <1>1 DEF Truth

\* What the operators on bits compute.
LEMMA Bitwise2Is ==
  ASSUME NEW x \in EvmWord, NEW y \in EvmWord
  PROVE  /\ Arith("and", x, y) = to_int(Both(x, y))
         /\ Arith("or", x, y) = to_int(Either(x, y))
         /\ Arith("xor", x, y) = to_int(Differ(x, y))
<1> DEFINE a == to_bytes(x, Width)
           b == to_bytes(y, Width)
<1>1. a \in [1..Width -> 0..1] /\ b \in [1..Width -> 0..1]
  BY WordIs
<1>2. \A i \in 1..Width : a[i] \in 0..1 /\ b[i] \in 0..1
  BY <1>1
<1>3. /\ Arith("and", x, y) = to_int([i \in 1..Width |-> Truth(a[i] + b[i] = 2)])
      /\ Arith("or", x, y) = to_int([i \in 1..Width |-> Truth(a[i] + b[i] > 0)])
      /\ Arith("xor", x, y) = to_int([i \in 1..Width |-> Truth(a[i] # b[i])])
  BY DEF Arith, Bitwise2
<1> HIDE DEF a, b
<1>4. /\ [i \in 1..Width |-> Truth(a[i] + b[i] = 2)] = [i \in 1..Width |-> a[i] * b[i]]
      /\ [i \in 1..Width |-> Truth(a[i] + b[i] > 0)] = [i \in 1..Width |-> a[i] + b[i] - a[i] * b[i]]
      /\ [i \in 1..Width |-> Truth(a[i] # b[i])] = [i \in 1..Width |-> a[i] + b[i] - 2 * (a[i] * b[i])]
  BY <1>2, TruthIs
<1> QED
  BY <1>3, <1>4 DEF Both, Either, Differ, a, b

\* They are words, and or and xor follow from and.
LEMMA DigitsSum ==
  ASSUME NEW x \in EvmWord, NEW y \in EvmWord
  PROVE  /\ Both(x, y) \in [1..Width -> 0..1]
         /\ to_int(Both(x, y)) \in EvmWord /\ to_int(Either(x, y)) \in EvmWord
         /\ to_int(Differ(x, y)) \in EvmWord
         /\ to_int(Either(x, y)) = x + y - to_int(Both(x, y))
         /\ to_int(Differ(x, y)) = x + y - 2 * to_int(Both(x, y))
<1> DEFINE a == to_bytes(x, Width)
           b == to_bytes(y, Width)
           c == Both(x, y)
           d == Either(x, y)
           e == Differ(x, y)
<1>1. a \in [1..Width -> 0..1] /\ b \in [1..Width -> 0..1] /\ to_int(a) = x /\ to_int(b) = y
  BY WordIs
<1>2. /\ c = [i \in 1..Width |-> a[i] * b[i]]
      /\ d = [i \in 1..Width |-> a[i] + b[i] - a[i] * b[i]]
      /\ e = [i \in 1..Width |-> a[i] + b[i] - 2 * (a[i] * b[i])]
  BY DEF Both, Either, Differ
<1> HIDE DEF a, b, c, d, e
<1>3. \A i \in 1..Width : a[i] \in 0..1 /\ b[i] \in 0..1
  BY <1>1
<1>4. /\ c \in [1..Width -> 0..1] /\ d \in [1..Width -> 0..1] /\ e \in [1..Width -> 0..1]
  <2>1. \A i \in 1..Width : /\ a[i] * b[i] \in 0..1 /\ a[i] + b[i] - a[i] * b[i] \in 0..1
                            /\ a[i] + b[i] - 2 * (a[i] * b[i]) \in 0..1
    BY <1>3, TruthIs
  <2> QED
    BY <1>2, <2>1
<1>5. PICK m \in 1..2, k \in 1..2 : m = 1 /\ k = 2
  OBVIOUS
<1>6. /\ a \in [1..Width -> Int] /\ b \in [1..Width -> Int] /\ c \in [1..Width -> Int]
      /\ d \in [1..Width -> Int] /\ e \in [1..Width -> Int] /\ Width \in Nat
  <2>1. 0..1 \subseteq Int
    OBVIOUS
  <2> QED
    BY <1>1, <1>4, <2>1, WidthAssumption
<1>7. IsTotal(d, a, b, m, c, Width) /\ IsTotal(e, a, b, k, c, Width)
  <2>1. \A i \in 1..Width : c[i] \in Int /\ m * c[i] = c[i] /\ k * c[i] = 2 * c[i]
    BY <1>4, <1>5
  <2>2. \A i \in 1..Width : d[i] = Total(a[i], b[i], m, c[i]) /\ e[i] = Total(a[i], b[i], k, c[i])
    BY <1>2, <2>1 DEF Total
  <2> QED
    BY <1>5, <1>6, <2>2 DEF IsTotal
<1>8. to_int(c) \in EvmWord /\ to_int(d) \in EvmWord /\ to_int(e) \in EvmWord
  BY <1>4, <1>6, RoundTripOfDigits, ModIs DEF EvmWord
<1>9. /\ to_int(d) = to_int(a) + to_int(b) - m * to_int(c)
       /\ to_int(e) = to_int(a) + to_int(b) - k * to_int(c)
  <2>1. to_int(d) = Total(to_int(a), to_int(b), m, to_int(c))
    BY <1>7, ReadsSum
  <2>2. to_int(e) = Total(to_int(a), to_int(b), k, to_int(c))
    BY <1>7, ReadsSum
  <2> QED
    BY <2>1, <2>2 DEF Total
<1>10. m * to_int(c) = to_int(c) /\ k * to_int(c) = 2 * to_int(c)
  BY <1>5, <1>8, ModIs DEF EvmWord
<1> QED
  BY <1>1, <1>4, <1>8, <1>9, <1>10 DEF c, d, e

\* A word is determined by its bits.
LEMMA BitAndIs ==
  ASSUME NEW x \in EvmWord, NEW y \in EvmWord
  PROVE  BitAnd(x, y) = to_int(Both(x, y))
<1> DEFINE c == Both(x, y)
           z == to_int(c)
           Is(u) == \A i \in 0..(Width - 1) : Digit(u, i) = Digit(x, i) * Digit(y, i)
<1>1. Width \in Nat /\ c \in [1..Width -> 0..1] /\ z \in EvmWord
  BY DigitsSum, WidthAssumption
<1>2. \A i \in 1..Width : c[i] = Digit(x, Width - i) * Digit(y, Width - i)
  BY WordIs DEF Both
<1> HIDE DEF c
<1>3. to_bytes(z, Width) = c
  BY <1>1, RoundTripOfDigits
<1>4. Is(z)
  <2> TAKE i \in 0..(Width - 1)
  <2>1. Width - i \in 1..Width /\ Width - (Width - i) = i
    BY <1>1
  <2>2. to_bytes(z, Width)[Width - i] = Digit(z, Width - (Width - i))
    <3> HIDE DEF z
    <3> QED
      BY <1>1, <2>1, WordIs
  <2> QED
    BY <1>2, <1>3, <2>1, <2>2
<1>5. ASSUME NEW u \in EvmWord, Is(u) PROVE u = z
  <2>1. to_bytes(u, Width) \in [1..Width -> 0..1] /\ to_int(to_bytes(u, Width)) = u
        /\ \A k \in 1..Width : to_bytes(u, Width)[k] = Digit(u, Width - k)
    BY WordIs
  <2>2. \A k \in 1..Width : to_bytes(u, Width)[k] = c[k]
    <3> TAKE k \in 1..Width
    <3>1. Width - k \in 0..(Width - 1)
      BY <1>1
    <3> QED
      BY <1>2, <1>5, <2>1, <3>1
  <2>3. to_bytes(u, Width) = c
    BY <1>1, <2>1, <2>2
  <2> QED
    BY <2>1, <2>3
<1>6. BitAnd(x, y) = CHOOSE u \in EvmWord : Is(u)
  BY DEF BitAnd, Digit, EvmWord
<1> HIDE DEF Is, z
<1>7. BitAnd(x, y) = z
  BY <1>1, <1>4, <1>5, <1>6
<1> QED
  BY <1>7 DEF z, c

\* The binary operators.
LEMMA BinopsAgree ==
  ASSUME NEW x \in EvmWord, NEW y \in EvmWord, NEW op \in Unsigned \union Signed
  PROVE  Binop(op, <<x, y>>) = ArithRef(op, x, y)
<1> DEFINE sx == AsSigned(x)
           sy == AsSigned(y)
<1>1. x \in Nat /\ y \in Nat /\ x < Mod /\ y < Mod /\ Mod \in Nat \ {0}
  BY ModIs DEF EvmWord
<1>2. /\ op \in Signed => Binop(op, <<x, y>>) = Wrap(Arith(op, sx, sy))
      /\ op \notin Signed => Binop(op, <<x, y>>) = Wrap(Arith(op, x, y))
  BY DEF Binop
<1>3. sx \in -Mod..Mod /\ sy \in -Mod..Mod /\ sx \in Int /\ sy \in Int /\ x \in -Mod..Mod /\ y \in -Mod..Mod
  BY SignedIs
<1> HIDE DEF sx, sy
<1>4. CASE op = "add"
  BY <1>2, <1>4 DEF Signed, Arith, ArithRef, Wrap
<1>5. CASE op = "mul"
  BY <1>2, <1>5 DEF Signed, Arith, ArithRef, Wrap
<1>6. CASE op = "sub"
  <2>1. Binop(op, <<x, y>>) = (x - y) % Mod /\ ArithRef(op, x, y) = (x + Mod - y) % Mod
    BY <1>2, <1>6 DEF Signed, Arith, ArithRef, Wrap
  <2> DEFINE a == x - y
  <2>2. PICK k \in Int : k = 1
    OBVIOUS
  <2>3. a \in Int /\ x + Mod - y = Mod * k + a
    BY <1>1, <2>2
  <2> HIDE DEF a
  <2>4. (Mod * k + a) % Mod = a % Mod
    BY <1>1, <2>3, DividesSum
  <2> QED
    BY <2>1, <2>3, <2>4 DEF a
<1>7. CASE op = "div"
  <2>1. Binop(op, <<x, y>>) = Wrap(EvmDiv(x, y)) /\ ArithRef(op, x, y) = Quotient(x, y)
    BY <1>2, <1>7 DEF Signed, Arith, ArithRef
  <2>2. Quotient(x, y) = EvmDiv(x, y) /\ EvmDiv(x, y) \in -Mod..Mod
    BY <1>1, <1>3, QuotientIs
  <2>3. EvmDiv(x, y) \in EvmWord
    <3>1. CASE y = 0
      BY <1>1, <3>1 DEF EvmDiv, EvmWord
    <3>2. CASE y # 0
      <4> DEFINE d == x \div y
                 r == x % y
      <4>1. Abs(x) = x /\ Abs(y) = y
        BY <1>1 DEF Abs
      <4>2. d \in Nat /\ r \in 0..(y - 1) /\ x = y * d + r
        <5>1. /\ Abs(x) \div Abs(y) \in Nat /\ Abs(x) % Abs(y) \in 0..(Abs(y) - 1)
              /\ Abs(x) = Abs(y) * (Abs(x) \div Abs(y)) + (Abs(x) % Abs(y))
          <6>1. x \in Int /\ y \in Int
            BY <1>1
          <6> QED
            BY <3>2, <6>1, DivisionParts
        <5> QED
          BY <4>1, <5>1
      <4>3. ~(x * y < 0)
        BY <1>1
      <4>4. EvmDiv(x, y) = d
        BY <3>2, <4>1, <4>3 DEF EvmDiv
      <4> HIDE DEF d, r
      <4>5. d <= x
        <5>1. y - 1 \in Nat
          BY <1>1, <3>2
        <5>2. (y - 1) * d >= 0 /\ (y - 1) * d = y * d - d /\ y * d \in Int
          BY <1>1, <4>2, <5>1
        <5> QED
          BY <1>1, <4>2, <5>2
      <4> QED
        BY <1>1, <4>2, <4>4, <4>5 DEF EvmWord
    <3> QED
      BY <3>1, <3>2
  <2> QED
    BY <2>1, <2>2, <2>3, WrapIs
<1>8. CASE op = "sdiv"
  <2>1. Binop(op, <<x, y>>) = EvmDiv(sx, sy) % Mod /\ ArithRef(op, x, y) = Quotient(sx, sy) % Mod
    BY <1>2, <1>8 DEF Signed, Arith, ArithRef, Wrap, sx, sy
  <2>2. Quotient(sx, sy) = EvmDiv(sx, sy)
    BY <1>3, QuotientIs
  <2> QED
    BY <2>1, <2>2
<1>9. CASE op = "mod"
  <2>1. Binop(op, <<x, y>>) = Wrap(EvmMod(x, y))
        /\ ArithRef(op, x, y) = IF y = 0 THEN 0 ELSE x - y * Quotient(x, y)
    BY <1>2, <1>9 DEF Signed, Arith, ArithRef
  <2>2. CASE y = 0
    <3>1. EvmMod(x, y) = 0 /\ 0 \in EvmWord
      BY <1>1, <2>2 DEF EvmMod, EvmWord
    <3> QED
      BY <2>1, <2>2, <3>1, WrapIs
  <2>3. CASE y # 0
    <3>1. EvmMod(x, y) = x - y * EvmDiv(x, y) /\ Quotient(x, y) = EvmDiv(x, y)
      BY <1>1, <1>3, <2>3, RemainderIs, QuotientIs
    <3>2. EvmMod(x, y) = x % y
      BY <1>1, <2>3 DEF EvmMod, Abs
    <3>3. x % y \in 0..(y - 1)
      BY <1>1, <2>3, Divides
    <3>4. EvmMod(x, y) \in EvmWord
      BY <1>1, <3>2, <3>3 DEF EvmWord
    <3> QED
      BY <2>1, <2>3, <3>1, <3>4, WrapIs
  <2> QED
    BY <2>2, <2>3
<1>10. CASE op = "smod"
  <2>1. Binop(op, <<x, y>>) = EvmMod(sx, sy) % Mod
        /\ ArithRef(op, x, y) = IF y = 0 THEN 0 ELSE (sx - sy * Quotient(sx, sy)) % Mod
    BY <1>2, <1>10 DEF Signed, Arith, ArithRef, Wrap, sx, sy
  <2>2. y = 0 <=> sy = 0
    BY <1>1, ModIs DEF AsSigned, sy
  <2>3. CASE y = 0
    <3>1. EvmMod(sx, sy) = 0 /\ 0 % Mod = 0
      BY <1>1, <2>2, <2>3, DividesSmall DEF EvmMod
    <3> QED
      BY <2>1, <2>3, <3>1
  <2>4. CASE y # 0
    <3>1. EvmMod(sx, sy) = sx - sy * EvmDiv(sx, sy) /\ Quotient(sx, sy) = EvmDiv(sx, sy)
      BY <1>3, <2>2, <2>4, RemainderIs, QuotientIs
    <3> QED
      BY <2>1, <2>4, <3>1
  <2> QED
    BY <2>3, <2>4
<1>11. CASE op \in {"eq", "ne", "lt", "gt", "slt", "sgt", "sle", "sge"}
  <2>1. Wrap(0) = 0 /\ Wrap(1) = 1
    BY <1>1, ModIs, WrapIs DEF EvmWord
  <2>2. CASE op = "eq"
    <3>1. Binop(op, <<x, y>>) = Wrap(Truth(x = y)) /\ ArithRef(op, x, y) = Truth(x = y)
      BY <1>2, <2>2 DEF Signed, Arith, ArithRef
    <3> QED
      BY <2>1, <3>1 DEF Truth
  <2>3. CASE op = "ne"
    <3>1. Binop(op, <<x, y>>) = Wrap(Truth(x # y)) /\ ArithRef(op, x, y) = Truth(x # y)
      BY <1>2, <2>3 DEF Signed, Arith, ArithRef
    <3> QED
      BY <2>1, <3>1 DEF Truth
  <2>4. CASE op = "lt"
    <3>1. Binop(op, <<x, y>>) = Wrap(Truth(x < y)) /\ ArithRef(op, x, y) = Truth(x < y)
      BY <1>2, <2>4 DEF Signed, Arith, ArithRef
    <3> QED
      BY <2>1, <3>1 DEF Truth
  <2>5. CASE op = "gt"
    <3>1. Binop(op, <<x, y>>) = Wrap(Truth(x > y)) /\ ArithRef(op, x, y) = Truth(x > y)
      BY <1>2, <2>5 DEF Signed, Arith, ArithRef
    <3> QED
      BY <2>1, <3>1 DEF Truth
  <2>6. CASE op = "slt"
    <3>1. Binop(op, <<x, y>>) = Wrap(Truth(sx < sy)) /\ ArithRef(op, x, y) = Truth(sx < sy)
      BY <1>2, <2>6 DEF Signed, Arith, ArithRef, sx, sy
    <3> QED
      BY <2>1, <3>1 DEF Truth
  <2>7. CASE op = "sgt"
    <3>1. Binop(op, <<x, y>>) = Wrap(Truth(sx > sy)) /\ ArithRef(op, x, y) = Truth(sx > sy)
      BY <1>2, <2>7 DEF Signed, Arith, ArithRef, sx, sy
    <3> QED
      BY <2>1, <3>1 DEF Truth
  <2>8. CASE op = "sle"
    <3>1. Binop(op, <<x, y>>) = Wrap(Truth(sx <= sy)) /\ ArithRef(op, x, y) = Truth(sx <= sy)
      BY <1>2, <2>8 DEF Signed, Arith, ArithRef, sx, sy
    <3> QED
      BY <2>1, <3>1 DEF Truth
  <2>9. CASE op = "sge"
    <3>1. Binop(op, <<x, y>>) = Wrap(Truth(sx >= sy)) /\ ArithRef(op, x, y) = Truth(sx >= sy)
      BY <1>2, <2>9 DEF Signed, Arith, ArithRef, sx, sy
    <3> QED
      BY <2>1, <3>1 DEF Truth
  <2> QED
    BY <1>11, <2>2, <2>3, <2>4, <2>5, <2>6, <2>7, <2>8, <2>9
<1>12. CASE op \in {"and", "or", "xor"}
  <2>1. op \notin Signed
    BY <1>12 DEF Signed
  <2>2. BitAnd(x, y) = to_int(Both(x, y))
    BY BitAndIs
  <2>3. CASE op = "and"
    <3>1. ArithRef(op, x, y) = BitAnd(x, y)
      BY <2>3 DEF ArithRef
    <3> QED
      BY <1>2, <2>1, <2>2, <2>3, <3>1, Bitwise2Is, DigitsSum, WrapIs
  <2>4. CASE op = "or"
    <3>1. ArithRef(op, x, y) = x + y - BitAnd(x, y)
      BY <2>4 DEF ArithRef
    <3> QED
      BY <1>2, <2>1, <2>2, <2>4, <3>1, Bitwise2Is, DigitsSum, WrapIs
  <2>5. CASE op = "xor"
    <3>1. ArithRef(op, x, y) = x + y - 2 * BitAnd(x, y)
      BY <2>5 DEF ArithRef
    <3> QED
      BY <1>2, <2>1, <2>2, <2>5, <3>1, Bitwise2Is, DigitsSum, WrapIs
  <2> QED
    BY <1>12, <2>3, <2>4, <2>5
<1> QED
  BY <1>4, <1>5, <1>6, <1>7, <1>8, <1>9, <1>10, <1>11, <1>12 DEF Unsigned, Signed

(***************************************************************************)
(* Shifts                                                                  *)
(***************************************************************************)

\* Digits that a word has make the word.
LEMMA FromDigits ==
  ASSUME NEW w \in EvmWord, NEW s, s \in [1..Width -> Int], \A k \in 1..Width : s[k] = Digit(w, Width - k)
  PROVE  to_int(s) = w
<1>1. to_bytes(w, Width) \in [1..Width -> 0..1] /\ to_int(to_bytes(w, Width)) = w
      /\ \A k \in 1..Width : to_bytes(w, Width)[k] = Digit(w, Width - k)
  BY WordIs
<1>2. \A k \in 1..Width : to_bytes(w, Width)[k] = s[k]
  BY <1>1
<1>3. to_bytes(w, Width) = s
  <2> DEFINE b == to_bytes(w, Width)
  <2>1. b \in [1..Width -> 0..1] /\ \A k \in 1..Width : b[k] = s[k]
    BY <1>1, <1>2
  <2> HIDE DEF b
  <2>2. b = [k \in 1..Width |-> b[k]] /\ s = [k \in 1..Width |-> s[k]]
    BY <2>1
  <2> QED
    BY <2>1, <2>2 DEF b
<1> QED
  BY <1>1, <1>3

\* Digits after a division, above a word, and below a multiple.
LEMMA DigitShifts ==
  ASSUME NEW a \in Int, NEW b \in Nat, NEW i \in Nat
  PROVE  /\ a \div Pow2[b] \in Int /\ Digit(a \div Pow2[b], i) = Digit(a, b + i)
         /\ a * Pow2[b] \in Int
         /\ i < b => Digit(a * Pow2[b], i) = 0
         /\ i >= b => Digit(a * Pow2[b], i) = Digit(a, i - b)
<1> DEFINE p == Pow2[b]
           q == Pow2[i]
<1>1. p \in Nat \ {0} /\ q \in Nat \ {0} /\ Pow2[b + i] = p * q
  BY PowIs, PowSum
<1> HIDE DEF p, q
<1>2. a \div p \in Int /\ (a \div p) \div q = a \div (p * q) /\ a * p \in Int
  <2>1. p \in Nat \ {0} /\ q \in Nat \ {0}
    BY <1>1
  <2>2. a \div p \in Int /\ a * p \in Int
    BY <2>1, Divides
  <2>3. (a \div p) \div q = a \div (p * q)
    BY <2>1, DividesTwice
  <2> QED
    BY <2>2, <2>3
<1>3. Digit(a \div p, i) = Digit(a, b + i)
  BY <1>1, <1>2 DEF Digit, q
<1>4. ASSUME i < b PROVE Digit(a * p, i) = 0
  <2> DEFINE r == Pow2[b - i - 1]
  <2>1. r \in Nat \ {0} /\ p = q * (2 * r)
    BY <1>4, PowSplit DEF p, q
  <2> HIDE DEF r
  <2> DEFINE m == a * r
  <2>2. m \in Int /\ a * p = q * (2 * m) + 0 /\ 2 * m \in Int
    BY <1>1, <2>1
  <2> HIDE DEF m
  <2> DEFINE n == 2 * m
             t == a * p
  <2>3. n \in Int /\ t \in Int /\ t = q * n + 0 /\ 0 \in 0..(q - 1)
    BY <1>1, <1>2, <2>2
  <2> HIDE DEF n, t
  <2>4. t \div q = n
    BY <1>1, <2>3, DividesOnce
  <2>5. n % 2 = 0
    <3>1. n = 2 * m + 0 /\ 2 \in Nat \ {0} /\ 0 \in 0..(2 - 1)
      BY <2>2 DEF n
    <3> QED
      BY <2>2, <2>3, <3>1, DividesOnce
  <2> QED
    BY <2>4, <2>5 DEF Digit, q, t
<1>5. ASSUME i >= b PROVE Digit(a * p, i) = Digit(a, i - b)
  <2> DEFINE r == Pow2[i - b]
             t == a * p
  <2>1. i - b \in Nat /\ b + (i - b) = i
    BY <1>5
  <2>2. r \in Nat \ {0} /\ q = p * r
    <3>1. Pow2[b + (i - b)] = Pow2[b] * Pow2[i - b]
      BY ONLY <2>1, b \in Nat, PowSum, ZenonT(30)
    <3>2. Pow2[i - b] \in Nat \ {0}
      BY ONLY <2>1, PowIs, ZenonT(30)
    <3> QED
      BY <2>1, <3>1, <3>2, Zenon DEF p, q
  <2>3. t \in Int /\ t = p * a + 0 /\ 0 \in 0..(p - 1)
    BY <1>1, <1>2
  <2> HIDE DEF r, t
  <2>4. t \div p = a
    BY <1>1, <2>3, DividesOnce
  <2>5. (t \div p) \div r = t \div (p * r)
    BY <1>1, <2>2, <2>3, DividesTwice
  <2> QED
    BY <2>2, <2>4, <2>5 DEF Digit, q, r, t
<1> QED
  BY <1>2, <1>3, <1>4, <1>5 DEF p

\* Wrapping keeps the digits of a word.
LEMMA DigitWrap ==
  ASSUME NEW a \in Int, NEW i \in 0..(Width - 1)
  PROVE  Digit(Wrap(a), i) = Digit(a, i)
<1>1. Width \in Nat /\ i \in Nat /\ i < Width
  BY WidthAssumption
<1> DEFINE p == Pow2[i]
           r == Pow2[Width - i - 1]
           m == a \div Mod
           b == a % Mod
<1>2. p \in Nat \ {0} /\ r \in Nat \ {0} /\ Mod = p * (2 * r) /\ Mod \in Nat \ {0}
  BY <1>1, PowIs, PowSplit, ModIs
<1>3. m \in Int /\ b \in Int /\ a = Mod * m + b
  <2>1. Mod \in Nat \ {0}
    BY ModIs
  <2>2. m \in Int /\ b \in 0..(Mod - 1) /\ a = Mod * m + b
    BY <2>1, Divides
  <2> QED
    BY <2>1, <2>2
<1> HIDE DEF p, r, m, b
<1> DEFINE n == r * m
           k == 2 * n
<1>4. n \in Int /\ k \in Int /\ a = p * k + b
  BY <1>2, <1>3
<1> HIDE DEF n
<1>5. a \div p = k + (b \div p)
  <2> HIDE DEF k
  <2>1. p \in Nat \ {0}
    BY <1>2
  <2>2. (p * k + b) \div p = k + (b \div p)
    BY <2>1, <1>3, <1>4, DividesSum
  <2> QED
    BY <1>4, <2>2
<1> DEFINE c == b \div p
<1>6. c \in Int
  BY <1>2, <1>3, Divides
<1> HIDE DEF c
<1>7. (2 * n + c) % 2 = c % 2
  <2>1. 2 \in Nat \ {0}
    OBVIOUS
  <2> QED
    BY <1>4, <1>6, <2>1, DividesSum
<1> QED
  BY <1>5, <1>7 DEF Digit, Wrap, c, p, b

\* Beyond its width, a word has no digits.
LEMMA DigitBeyond ==
  ASSUME NEW w \in EvmWord, NEW i \in Nat, i >= Width
  PROVE  Digit(w, i) = 0 /\ Mod <= Pow2[i]
<1>1. Width \in Nat /\ Mod = Pow2[Width] /\ Mod \in Nat \ {0}
  BY WidthAssumption, ModIs
<1> DEFINE p == Pow2[i]
<1>2. p \in Nat \ {0} /\ Mod <= p
  <2>1. p \in Nat \ {0}
    BY PowIs
  <2>2. CASE i = Width
    BY <1>1, <2>1, <2>2
  <2>3. CASE Width < i
    BY <1>1, <2>1, <2>3, PowSplit
  <2> QED
    BY <1>1, <2>1, <2>2, <2>3
<1> HIDE DEF p
<1>3. w \in 0..(p - 1)
  BY <1>1, <1>2 DEF EvmWord
<1>4. w \div p = 0
  BY <1>2, <1>3, DividesSmall
<1>5. 0 % 2 = 0
  OBVIOUS
<1> QED
  BY <1>2, <1>4, <1>5 DEF Digit, p

\* The digits of a word read as signed go on with the highest one.
LEMMA DigitSigned ==
  ASSUME NEW w \in EvmWord, NEW i \in Nat
  PROVE  Digit(AsSigned(w), i) = IF i < Width THEN Digit(w, i) ELSE Digit(w, Width - 1)
<1> DEFINE h == Pow2[Width - 1]
           s == AsSigned(w)
<1>1. Width \in Nat \ {0} /\ Mod \in Nat \ {0} /\ h \in Nat \ {0} /\ Mod = 2 * h /\ Mod \div 2 = h
  BY WidthAssumption, ModIs
<1>2. w \in Int /\ w \in 0..(Mod - 1) /\ s \in Int /\ s = IF w >= h THEN w - Mod ELSE w
  BY <1>1, SignedIs DEF EvmWord, AsSigned
<1> HIDE DEF s, h
<1>3. CASE w < h
  <2>1. s = w
    BY <1>1, <1>2, <1>3
  <2>2. Digit(w, Width - 1) = 0
    <3>1. w \in 0..(h - 1)
      BY <1>1, <1>2, <1>3
    <3>2. w \div h = 0
      BY <1>1, <3>1, DividesSmall
    <3>3. 0 % 2 = 0
      OBVIOUS
    <3> QED
      BY <3>2, <3>3 DEF Digit, h
  <2>3. ~(i < Width) => Digit(w, i) = 0
    BY <1>1, DigitBeyond
  <2> QED
    BY <2>1, <2>2, <2>3 DEF s
<1>4. CASE w >= h
  <2>1. s = w - Mod
    BY <1>2, <1>4
  <2>2. CASE i < Width
    <3>1. Wrap(s) = w
      <4>1. PICK k \in Int : k = 1
        OBVIOUS
      <4>2. Mod * k + s = w
        BY <1>1, <1>2, <2>1, <4>1
      <4>3. (Mod * k + s) % Mod = s % Mod
        BY <1>1, <1>2, DividesSum
      <4>4. Wrap(w) = w
        BY WrapIs
      <4> QED
        BY <4>2, <4>3, <4>4 DEF Wrap
    <3>2. i \in 0..(Width - 1)
      BY <1>1, <2>2
    <3>3. Digit(Wrap(s), i) = Digit(s, i)
      BY <1>2, <3>2, DigitWrap
    <3> QED
      BY <2>2, <3>1, <3>3 DEF s
  <2>3. CASE ~(i < Width)
    <3> DEFINE p == Pow2[i]
    <3>1. p \in Nat \ {0} /\ Mod <= p
      BY <1>1, <2>3, PowIs, DigitBeyond
    <3> HIDE DEF p
    <3> DEFINE r == p + s
    <3>2. r \in 0..(p - 1) /\ s = p * (-1) + r /\ -1 \in Int
      BY <1>1, <1>2, <1>4, <2>1, <3>1
    <3> HIDE DEF r
    <3>3. s \div p = -1
      <4>1. PICK k \in Int : k = -1
        OBVIOUS
      <4>2. s = p * k + r
        BY <3>2, <4>1
      <4> QED
        BY <1>2, <3>1, <3>2, <4>1, <4>2, DividesOnce
    <3>4. (-1) % 2 = 1 /\ 1 % 2 = 1
      <4>1. PICK k \in Int : k = -1
        OBVIOUS
      <4>2. k = 2 * k + 1 /\ 2 \in Nat \ {0} /\ 1 \in 0..(2 - 1)
        BY <4>1
      <4>3. k % 2 = 1
        BY <4>2, DividesOnce
      <4>4. 1 % 2 = 1
        OBVIOUS
      <4> QED
        BY <4>1, <4>3, <4>4
    <3>5. w \div h = 1
      <4>1. PICK k \in Int : k = 1
        OBVIOUS
      <4> DEFINE t == w - h
      <4>2. t \in 0..(h - 1) /\ w = h * k + t
        BY <1>1, <1>2, <1>4, <4>1
      <4> HIDE DEF t
      <4> QED
        BY <1>1, <1>2, <4>1, <4>2, DividesOnce
    <3>6. Digit(s, i) = 1
      BY <3>3, <3>4 DEF Digit, p
    <3>7. Digit(w, Width - 1) = 1
      BY <3>4, <3>5 DEF Digit, h
    <3> QED
      BY <2>3, <3>6, <3>7 DEF s
  <2> QED
    BY <2>2, <2>3
<1> QED
  BY <1>1, <1>2, <1>3, <1>4

\* Digits are bits.
LEMMA DigitIs ==
  ASSUME NEW a \in Int, NEW i \in Nat
  PROVE  Digit(a, i) \in 0..1
<1>1. Pow2[i] \in Nat \ {0}
  BY PowIs
<1> DEFINE b == a \div Pow2[i]
<1>2. b \in Int
  BY <1>1, Divides
<1> HIDE DEF b
<1>3. 2 \in Nat \ {0}
  OBVIOUS
<1>4. b % 2 \in 0..(2 - 1)
  BY <1>2, <1>3, Divides
<1> QED
  BY <1>4 DEF Digit, b

\* Bit i of the shifted word.
Bits(y, op, i) ==
  IF i \in 0..(Width - 1) THEN Digit(y, i)
  ELSE IF op = "sar" /\ i >= Width THEN Digit(y, Width - 1) ELSE 0

\* What a shift is, digit by digit.
LEMMA ShiftRefIs ==
  ASSUME NEW w \in EvmWord, NEW x \in EvmWord, NEW y \in EvmWord, NEW op,
         \A i \in 0..(Width - 1) : Digit(w, i) = Bits(y, op, IF op = "shl" THEN i - x ELSE i + x)
  PROVE  ShiftRef(op, x, y) = w
<1> DEFINE s == [k \in 1..Width |-> Bits(y, op, IF op = "shl" THEN Width - k - x ELSE Width - k + x)]
<1>1. ShiftRef(op, x, y) = to_int(s)
  BY DEF ShiftRef, Bits, Digit
<1>2. Width \in Nat /\ \A k \in 1..Width : Width - k \in 0..(Width - 1)
  BY WidthAssumption
<1>3. \A k \in 1..Width : s[k] = Digit(w, Width - k)
  BY <1>2
<1>4. w \in Int
  BY WrapIs
<1>5. \A k \in 1..Width : Digit(w, Width - k) \in Int
  <2>1. \A k \in 1..Width : Width - k \in Nat
    BY <1>2
  <2> QED
    BY <1>4, <2>1, DigitIs
<1>6. s \in [1..Width -> Int]
  <2>1. \A k \in 1..Width : s[k] \in Int
    BY <1>3, <1>5
  <2>2. s = [k \in 1..Width |-> s[k]]
    OBVIOUS
  <2> HIDE DEF s
  <2> QED
    BY <2>1, <2>2
<1> HIDE DEF s
<1>7. to_int(s) = w
  BY <1>3, <1>6, FromDigits
<1> QED
  BY <1>1, <1>7

\* The shifts.
LEMMA ShiftsAgree ==
  ASSUME NEW x \in EvmWord, NEW y \in EvmWord, NEW op \in Shifts
  PROVE  Shift(op, <<x, y>>) = ShiftRef(op, x, y)
<1> DEFINE p == Pow2[x]
<1>1. x \in Nat /\ y \in Int /\ p \in Nat \ {0} /\ Width \in Nat /\ y \in 0..(Mod - 1) /\ Mod \in Nat
  BY ModIs, PowIs, WidthAssumption DEF EvmWord
<1>2. \A i \in 0..(Width - 1) : i \in Nat /\ x + i \in Nat /\ i + x = x + i
  BY <1>1
<1> HIDE DEF p
<1>3. CASE op = "shr"
  <2> DEFINE w == y \div p
  <2>1. Shift(op, <<x, y>>) = w
    BY <1>3 DEF Shift, p
  <2>2. w \in EvmWord
    <3> DEFINE r == y % p
    <3>1. w \in Int /\ r \in 0..(p - 1) /\ y = p * w + r
      BY <1>1, Divides
    <3> HIDE DEF w, r
    <3>2. w >= 0
      <4> SUFFICES ASSUME w < 0 PROVE FALSE
        BY <3>1
      <4>1. -w - 1 \in Nat
        BY <3>1
      <4>2. p * (-w - 1) >= 0 /\ p * (-w - 1) = -(p * w) - p /\ p * w \in Int
        BY <1>1, <3>1, <4>1
      <4> QED
        BY <1>1, <3>1, <4>2
    <3>3. w <= y
      <4>1. p - 1 \in Nat /\ w \in Nat
        BY <1>1, <3>1, <3>2
      <4>2. (p - 1) * w >= 0 /\ (p - 1) * w = p * w - w /\ p * w \in Int
        BY <1>1, <4>1
      <4> QED
        BY <1>1, <3>1, <4>2
    <3> QED
      BY <1>1, <3>1, <3>2, <3>3 DEF EvmWord
  <2>3. \A i \in 0..(Width - 1) : Digit(w, i) = Bits(y, op, IF op = "shl" THEN i - x ELSE i + x)
    <3> TAKE i \in 0..(Width - 1)
    <3>1. Digit(w, i) = Digit(y, x + i)
      BY <1>1, <1>2, DigitShifts DEF p
    <3>2. CASE x + i < Width
      <4>1. x + i \in 0..(Width - 1)
        BY <1>1, <1>2, <3>2
      <4> HIDE DEF w
      <4> QED
        BY <1>2, <1>3, <3>1, <4>1 DEF Bits
    <3>3. CASE ~(x + i < Width)
      <4>1. x + i >= Width /\ x + i \notin 0..(Width - 1)
        BY <1>1, <1>2, <3>3
      <4>2. Digit(y, x + i) = 0
        BY <1>2, <4>1, DigitBeyond
      <4> HIDE DEF w
      <4> QED
        BY <1>2, <1>3, <3>1, <4>1, <4>2 DEF Bits
    <3> QED
      BY <3>2, <3>3
  <2> HIDE DEF w
  <2> QED
    BY <2>1, <2>2, <2>3, ShiftRefIs
<1>4. CASE op = "sar"
  <2> DEFINE s == AsSigned(y)
             a == s \div p
             w == Wrap(a)
  <2>1. Shift(op, <<x, y>>) = w
    BY <1>4 DEF Shift, p
  <2>2. s \in Int
    BY SignedIs
  <2>3. a \in Int
    <3> HIDE DEF s
    <3> QED
      BY <1>1, <2>2, Divides
  <2>4. w \in EvmWord
    <3> HIDE DEF a
    <3> QED
      BY <2>3, WrapIs
  <2>5. \A i \in 0..(Width - 1) : Digit(w, i) = Bits(y, op, IF op = "shl" THEN i - x ELSE i + x)
    <3> TAKE i \in 0..(Width - 1)
    <3>1. Digit(w, i) = Digit(a, i)
      <4> HIDE DEF a
      <4> QED
        BY <2>3, DigitWrap
    <3>2. Digit(a, i) = Digit(s, x + i)
      <4> HIDE DEF s
      <4> QED
        BY <1>1, <1>2, <2>2, DigitShifts DEF p
    <3>3. Digit(s, x + i) = IF x + i < Width THEN Digit(y, x + i) ELSE Digit(y, Width - 1)
      BY <1>2, DigitSigned
    <3> HIDE DEF w, a, s
    <3>4. CASE x + i < Width
      <4>1. x + i \in 0..(Width - 1)
        BY <1>1, <1>2, <3>4
      <4> QED
        BY <1>2, <1>4, <3>1, <3>2, <3>3, <3>4, <4>1 DEF Bits
    <3>5. CASE ~(x + i < Width)
      <4>1. x + i >= Width /\ x + i \notin 0..(Width - 1)
        BY <1>1, <1>2, <3>5
      <4> QED
        BY <1>2, <1>4, <3>1, <3>2, <3>3, <3>5, <4>1 DEF Bits
    <3> QED
      BY <3>4, <3>5
  <2> HIDE DEF w
  <2> QED
    BY <2>1, <2>4, <2>5, ShiftRefIs
<1>5. CASE op = "shl"
  <2> DEFINE a == y * p
             w == Wrap(a)
  <2>1. Shift(op, <<x, y>>) = w
    BY <1>5 DEF Shift, p
  <2>2. a \in Int
    BY <1>1
  <2>3. w \in EvmWord
    <3> HIDE DEF a
    <3> QED
      BY <2>2, WrapIs
  <2>4. \A i \in 0..(Width - 1) : Digit(w, i) = Bits(y, op, IF op = "shl" THEN i - x ELSE i + x)
    <3> TAKE i \in 0..(Width - 1)
    <3>1. Digit(w, i) = Digit(a, i)
      <4> HIDE DEF a
      <4> QED
        BY <2>2, DigitWrap
    <3>2. (i < x => Digit(a, i) = 0) /\ (i >= x => Digit(a, i) = Digit(y, i - x))
      BY <1>1, <1>2, DigitShifts DEF p
    <3> HIDE DEF w, a
    <3>3. CASE i < x
      <4>1. i - x \notin 0..(Width - 1) /\ ~(i - x >= Width)
        BY <1>1, <1>2, <3>3
      <4> QED
        BY <1>5, <3>1, <3>2, <3>3, <4>1 DEF Bits
    <3>4. CASE i >= x
      <4>1. i - x \in 0..(Width - 1)
        BY <1>1, <1>2, <3>4
      <4> QED
        BY <1>5, <3>1, <3>2, <3>4, <4>1 DEF Bits
    <3> QED
      BY <1>1, <1>2, <3>3, <3>4
  <2> HIDE DEF w
  <2> QED
    BY <2>1, <2>3, <2>4, ShiftRefIs
<1> QED
  BY <1>3, <1>4, <1>5 DEF Shifts

\* For words of any width, what fast mode computes with Python's integers and wraps
\* is what the operators of the EVM compute, for all operands.
THEOREM ArithmeticIsTheEVMs == ArithmeticAgrees
<1>1. ASSUME NEW x \in 0..(Mod - 1), NEW y \in 0..(Mod - 1)
      PROVE  /\ \A op \in Unsigned \union Signed : Binop(op, <<x, y>>) = ArithRef(op, x, y)
             /\ \A op \in Shifts : Shift(op, <<x, y>>) = ShiftRef(op, x, y)
  <2>1. x \in EvmWord /\ y \in EvmWord
    BY DEF EvmWord
  <2> QED
    BY <2>1, BinopsAgree, ShiftsAgree
<1> QED
  BY <1>1 DEF ArithmeticAgrees

\* to_bytes gives back the digits that to_int read, for any number of them, and to_int the
\* number that to_bytes wrote.
THEOREM WordsRoundTrip ==
  \A n \in Nat :
    /\ \A s \in [1..n -> Bit] : to_int(s) \in 0..(Pow2[n] - 1) /\ to_bytes(to_int(s), n) = s
    /\ \A x \in 0..(Pow2[n] - 1) : to_int(to_bytes(x, n)) = x
<1>1. Bit = 0..1
  BY DEF Bit
<1> QED
  BY <1>1, RoundTripOfInt, RoundTripOfDigits
=============================================================================

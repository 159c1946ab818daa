------------------------------ MODULE FastMem ------------------------------
(***************************************************************************)
(* boa/vm/fast_mem.py: the memory of a frame run by the IR executor.  The  *)
(* words at aligned positions are kept as integers in mem_cache; a word    *)
(* that is newer than the backing bytes is marked in needs_writeback.      *)
(*                                                                         *)
(* A memory is a record [words, len, bytes, cache, back]: len(mem_cache),  *)
(* len(_bytes) in words, and the contents of the three lists, which are    *)
(* zero, DIRTY and False where a list does not reach yet.                  *)
(*                                                                         *)
(* Two uses break the cache and are switched off or on by constants:       *)
(* an unaligned read_word, which caches what it read as if it were the     *)
(* aligned word, and an extend by nothing, which grows mem_cache and not   *)
(* the bytes.                                                              *)
(***************************************************************************)
EXTENDS Integers, FiniteSets, Sequences

CONSTANTS
  Byte, WordSize, MaxWords, ToInt(_), ToBytes(_),   \* as in Memory
  DIRTY,            \* FastMem._DIRTY: the word is not cached
  UnalignedReads,   \* are there read_words at unaligned positions?
  EmptyExtends      \* are there extends by nothing?

ASSUME FastMemAssumption ==
  /\ WordSize \in Nat \ {0} /\ MaxWords \in Nat \ {0}
  /\ 0 \in Byte
  /\ UnalignedReads \in BOOLEAN /\ EmptyExtends \in BOOLEAN

\* to_int and to_bytes are inverse to each other on words (boa/vm/utils.py).
ASSUME CodecAssumption ==
  \A s \in [1..WordSize -> Byte] : ToInt(s) # DIRTY /\ ToBytes(ToInt(s)) = s

MemSize == WordSize * MaxWords
MemPos == 0..(MemSize - 1)
WordIx == 0..(MaxWords - 1)
Bytes(n) == [1..n -> Byte]
Word == {ToInt(s) : s \in Bytes(WordSize)}

VARIABLES
  mem,          \* the memory of the running frame
  out           \* the last operation, its position and what it read or wrote

NewMem == [words |-> 0, len |-> 0,
           bytes |-> [i \in MemPos |-> 0],
           cache |-> [w \in WordIx |-> DIRTY],
           back |-> [w \in WordIx |-> FALSE]]

Ceil(n) == (n + WordSize - 1) \div WordSize

\* The words that the bytes [p, p + n) touch.
Touched(p, n) == (p \div WordSize)..(Ceil(p + n) - 1)

\* extend; eth.vm.Memory.extend ignores an extension by nothing.
Extended(m, p, n) ==
  IF Ceil(p + n) > m.words
  THEN [m EXCEPT !.words = Ceil(p + n), !.len = IF n = 0 THEN @ ELSE Ceil(p + n)]
  ELSE m

\* _writeback: the pending words go to the backing bytes.  Assigning a slice
\* behind the end of a bytearray appends it, wherever it was meant to go.
Flushed(m, p, n) ==
  LET pending == {w \in Touched(p, n) \intersect WordIx : m.back[w]}
      behind == {w \in pending : w >= m.len}
      Place(w) == IF w \in behind THEN m.len + Cardinality({x \in behind : x < w}) ELSE w
  IN [m EXCEPT
       !.bytes = [i \in MemPos |->
                   LET from == {w \in pending : Place(w) = i \div WordSize}
                   IN IF from = {} THEN @[i]
                      ELSE ToBytes(m.cache[CHOOSE w \in from : TRUE])[(i % WordSize) + 1]],
       !.len = @ + Cardinality(behind),
       !.back = [w \in WordIx |-> m.back[w] /\ w \notin pending]]

\* read_bytes and read: the slice ends where the bytes end.
Slice(m, p, n) ==
  LET end == IF p + n < m.len * WordSize THEN p + n ELSE m.len * WordSize
  IN [i \in 1..(IF end > p THEN end - p ELSE 0) |-> m.bytes[p + i - 1]]

Aligned(p) == p % WordSize = 0

\* read_word: the memory after it, and the word.
WordRead(m, p) ==
  LET w == p \div WordSize
      f == Flushed(m, p, WordSize)
      val == ToInt(Slice(f, p, WordSize))
  IN IF Aligned(p) /\ m.cache[w] # DIRTY
     THEN [mem |-> m, val |-> m.cache[w]]
     ELSE [mem |-> [f EXCEPT !.cache[w] = val], val |-> val]

\* write: pending words first, then the cached words are dropped, then the bytes.
KeepsCache(m, p, s, n) ==
  LET f == Flushed(m, p, n)
  IN [f EXCEPT !.bytes = [i \in MemPos |-> IF i \in p..(p + n - 1) THEN s[i - p + 1] ELSE @[i]]]
DropsPending(m, p, s, n) ==
  [m EXCEPT !.cache = [w \in WordIx |-> IF w \in Touched(p, n) THEN DIRTY ELSE @[w]],
            !.back = [w \in WordIx |-> @[w] /\ w \notin Touched(p, n)],
            !.bytes = [i \in MemPos |-> IF i \in p..(p + n - 1) THEN s[i - p + 1] ELSE @[i]]]
RangeWritten(m, p, s, n) ==
  LET f == Flushed(m, p, n)
  IN [f EXCEPT !.cache = [w \in WordIx |-> IF w \in Touched(p, n) THEN DIRTY ELSE @[w]],
               !.bytes = [i \in MemPos |-> IF i \in p..(p + n - 1) THEN s[i - p + 1] ELSE @[i]]]

\* write_word
WordWritten(m, p, val) ==
  IF Aligned(p)
  THEN [m EXCEPT !.cache[p \div WordSize] = val, !.back[p \div WordSize] = TRUE]
  ELSE RangeWritten(m, p, ToBytes(val), WordSize)

(***************************************************************************)
(* The uses of a memory, each of which extends it first.                   *)
(***************************************************************************)

MemInit == mem = NewMem /\ out = <<>>

\* mload
MLoad(p) ==
  LET r == WordRead(Extended(mem, p, WordSize), p)
  IN /\ Aligned(p) \/ UnalignedReads
     /\ mem' = r.mem /\ out' = <<"load", p, r.val>>

\* mstore
MStore(p, val) ==
  /\ mem' = WordWritten(Extended(mem, p, WordSize), p, val)
  /\ out' = <<"write", p, ToBytes(val)>>

\* calldatacopy, dloadbytes: eth.vm.Memory.write ignores a write of nothing
\* and refuses one behind the end.
Copy(p, s, n) ==
  LET m == Extended(mem, p, n)
  IN /\ n > 0 \/ EmptyExtends
     /\ n > 0 => p + n <= m.len * WordSize
     /\ mem' = RangeWritten(m, p, s, n)
     /\ out' = <<"write", p, s>>

\* log and the CALLs, which read a range they have extended.
ReadRange(p, n) ==
  LET m == Flushed(Extended(mem, p, n), p, n)
  IN /\ n > 0 \/ EmptyExtends
     /\ mem' = m /\ out' = <<"read", p, Slice(m, p, n)>>

MemNext ==
  \/ \E p \in 0..(MemSize - WordSize) : MLoad(p)
  \/ \E p \in 0..(MemSize - WordSize), val \in Word : MStore(p, val)
  \/ \E p \in MemPos : \E n \in 0..(MemSize - p) : ReadRange(p, n)
  \/ \E p \in MemPos : \E n \in 0..(MemSize - p) : \E s \in Bytes(n) : Copy(p, s, n)

(***************************************************************************)
(* Properties                                                              *)
(***************************************************************************)

MemType == [words: 0..MaxWords, len: 0..MaxWords, bytes: [MemPos -> Byte],
            cache: [WordIx -> Word \union {DIRTY}], back: [WordIx -> BOOLEAN]]

\* The bytes a frame's memory stands for: pending words over backing bytes.
Contents(m) ==
  [i \in MemPos |-> IF m.back[i \div WordSize]
                    THEN ToBytes(m.cache[i \div WordSize])[(i % WordSize) + 1]
                    ELSE m.bytes[i]]

\* The three lists of FastMem stay in step: mem_cache and the bytes have the same
\* length, what is pending is cached, and a cached word that is not pending is the
\* word the backing bytes hold, so that read_word and read_bytes never disagree.
CacheInStep ==
  /\ mem \in MemType /\ mem.len = mem.words
  /\ \A w \in WordIx :
       /\ w >= mem.words => mem.cache[w] = DIRTY
       /\ mem.back[w] => mem.cache[w] # DIRTY
       /\ mem.cache[w] # DIRTY /\ ~mem.back[w] =>
            ToBytes(mem.cache[w]) = [k \in 1..WordSize |-> mem.bytes[w * WordSize + k - 1]]

\* read_word and read_bytes of an aligned word return the same word, as they do in
\* the eth.vm.Memory that FastMem claims to be compatible with (fast_mem.py:6).
\* Broken by one read_word at an unaligned position.
WordsMatchBytes ==
  \A w \in 0..(mem.words - 1) :
    LET p == w * WordSize
    IN WordRead(mem, p).val = ToInt(Slice(Flushed(mem, p, WordSize), p, WordSize))

\* FastMem is "a py-evm eth.vm.Memory compatible implementation of memory": every
\* read returns what an array of bytes would, whatever was written before in
\* words or ranges, aligned or not.
EVMMemory == INSTANCE Memory WITH bytes <- Contents(mem)
ImplementsMemory == EVMMemory!Spec
=============================================================================

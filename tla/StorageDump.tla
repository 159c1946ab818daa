---------------------------- MODULE StorageDump ----------------------------
(***************************************************************************)
(* What a contract object shows of its storage (StorageVar.get in          *)
(* boa/contracts/vyper/vyper_contract.py): a mapping's keys are not in the *)
(* storage, so boa traces which slots are written and what is hashed       *)
(* (SstoreTracer and Sha3PreimageTracer in boa/vm/py_evm.py), and takes    *)
(* the slots apart again.                                                  *)
(*                                                                         *)
(* The contract has a mapping to integers at slot 1, a mapping to mappings *)
(* at slot 2, and a mapping to structs of two words at slot 3.  A slot is  *)
(* its derivation, <<1, k>> for the hash of 1 and k, and the offset from   *)
(* there: nobody but the trace can tell what a hash is the hash of.  Two   *)
(* environments, numbered in the order they were made, hold contracts at   *)
(* the same addresses.                                                     *)
(***************************************************************************)
EXTENDS Naturals, Sequences, SequencesExt

CONSTANTS
  NumEnvs,      \* the environments
  Contracts,    \* the addresses of contracts
  Keys,         \* the keys of mappings
  MaxChanges    \* bound on the operations

ASSUME DumpAssumption == NumEnvs \in Nat \ {0} /\ MaxChanges \in Nat

VARIABLES
  using,        \* the environment in use
  words,        \* the storage of each environment's contracts
  anchor,       \* what the open anchor of an environment will restore, or <<>>
  sstoreTrace,  \* the slots written, by environment and address
  sha3Trace,    \* the hashes whose preimage is known, by environment
  written,      \* slots that a transaction of the environment has written
  changes       \* operations so far

dumpVars == <<using, words, anchor, sstoreTrace, sha3Trace, written, changes>>

EnvNo == 1..NumEnvs
Depth == <<1, 2, 1>>      \* how many keys lead to a value of slots 1, 2 and 3
At(path, off) == [path |-> path, off |-> off]
KeysOf(s) == [1..Depth[s] -> Keys]
PathsOf(s) == {<<s>> \o ks : ks \in KeysOf(s)}
Slots == {At(path, 0) : path \in UNION {PathsOf(s) : s \in 1..3}} \union {At(path, 1) : path \in PathsOf(3)}
Nothing == [a \in Contracts |-> [k \in Slots |-> 0]]

DumpInit ==
  /\ using \in EnvNo
  /\ words = [e \in EnvNo |-> Nothing] /\ anchor = [e \in EnvNo |-> <<>>]
  /\ sstoreTrace = [e \in EnvNo |-> [a \in Contracts |-> {}]]
  /\ sha3Trace = [e \in EnvNo |-> {}]
  /\ written = [e \in EnvNo |-> {}] /\ changes = 0

Change == changes < MaxChanges /\ changes' = changes + 1

(***************************************************************************)
(* Tracing                                                                 *)
(***************************************************************************)

\* The opcode table is shared: each environment has put its tracers around those
\* of the earlier ones.  Hashing a nested key hashes the outer one first.
Hashes(path) == {SubSeq(path, 1, n) : n \in 2..Len(path)}

TracesNewest(a, k) ==
  sstoreTrace' = [sstoreTrace EXCEPT ![NumEnvs][a] = @ \union {k}]
Sstore(a, k) == sstoreTrace' = [e \in EnvNo |-> [sstoreTrace[e] EXCEPT ![a] = @ \union {k}]]

Sha3(path) == sha3Trace' = [e \in EnvNo |-> sha3Trace[e] \union Hashes(path)]

\* A transaction or a simulation in which a contract writes a slot; it may revert
\* or be a simulation, and the traces keep it nonetheless.
Write(a, k, value, kept) ==
  /\ Change
  /\ Sha3(k.path) /\ Sstore(a, k)
  /\ IF kept THEN /\ words' = [words EXCEPT ![using][a][k] = value]
                  /\ written' = [written EXCEPT ![using] = @ \union {<<a, k>>}]
     ELSE UNCHANGED <<words, written>>
  /\ UNCHANGED <<using, anchor>>

\* A view of a mapping's value only hashes.
Look(k) == /\ Change /\ Sha3(k.path)
           /\ UNCHANGED <<using, words, anchor, sstoreTrace, written>>

\* Env.set_storage, and boa.deal with it, write past the tracers.
SetStorage(a, k, value) ==
  /\ Change /\ words' = [words EXCEPT ![using][a][k] = value]
  /\ UNCHANGED <<using, anchor, sstoreTrace, sha3Trace, written>>

Anchor == /\ Change /\ anchor[using] = <<>>
          /\ anchor' = [anchor EXCEPT ![using] = <<words[using]>>]
          /\ UNCHANGED <<using, words, sstoreTrace, sha3Trace, written>>

\* The end of an anchor reverts the storage, and the traces not.
Unanchor == /\ anchor[using] # <<>>
            /\ words' = [words EXCEPT ![using] = anchor[using][1]]
            /\ anchor' = [anchor EXCEPT ![using] = <<>>]
            /\ UNCHANGED <<using, sstoreTrace, sha3Trace, written, changes>>

\* Env.fork_rpc: the chain has the contracts too, with storage of its own.
Fork(reset, remote) ==
  /\ Change /\ anchor[using] = <<>>
  /\ words' = [words EXCEPT ![using] = [a \in Contracts |-> [k \in Slots |-> remote]]]
  /\ written' = [written EXCEPT ![using] = {}]
  /\ IF reset THEN /\ sstoreTrace' = [sstoreTrace EXCEPT ![using] = [a \in Contracts |-> {}]]
                   /\ sha3Trace' = [sha3Trace EXCEPT ![using] = {}]
     ELSE UNCHANGED <<sstoreTrace, sha3Trace>>
  /\ UNCHANGED <<using, anchor>>

SwapEnv(e) == /\ Change /\ using' = e
              /\ UNCHANGED <<words, anchor, sstoreTrace, sha3Trace, written>>

DumpNext ==
  \/ \E a \in Contracts, k \in Slots, value \in 0..1, kept \in BOOLEAN : Write(a, k, value, kept)
  \/ \E k \in Slots : Look(k)
  \/ \E a \in Contracts, k \in Slots, value \in 0..1 : SetStorage(a, k, value)
  \/ Anchor \/ Unanchor
  \/ \E reset \in BOOLEAN, remote \in 0..1 : Fork(reset, remote)
  \/ \E e \in EnvNo : SwapEnv(e)

(***************************************************************************)
(* The dump                                                                *)
(***************************************************************************)

\* unwrap_storage_key: undo the hashes whose preimages are known.  What is left
\* first is the slot of a variable, or a hash or a sum that nothing is known of.
UnwrapsOnce(known, k) ==
  IF k.off = 0 /\ k.path \in known THEN <<At(Front(k.path), 0), Last(k.path)>> ELSE <<k>>

Unwrapped(known, k) ==
  LET unwrap[path \in {SubSeq(k.path, 1, n) : n \in DOMAIN k.path}] ==
        IF path \in known THEN Append(unwrap[Front(path)], Last(path)) ELSE <<At(path, 0)>>
  IN IF k.off = 0 THEN unwrap[k.path] ELSE <<k>>

\* StorageVar.get: the values of the mapping at slot s by their keys.  An integer
\* is left out if it is zero, a struct never.
Decoded(e, a, k, s) ==
  IF s = 3 THEN <<words[e][a][k], words[e][a][At(k.path, 1)]>> ELSE <<words[e][a][k]>>
Get(e, a, s) ==
  LET paths == [k \in sstoreTrace[e][a] |-> Unwrapped(sha3Trace[e], k)]
      mine == {k \in DOMAIN paths : Head(paths[k]) = At(<<s>>, 0) /\ Decoded(e, a, k, s) # <<0>>}
  IN [keys \in {Tail(paths[k]) : k \in mine} |->
        Decoded(e, a, CHOOSE k \in mine : Tail(paths[k]) = keys, s)]

(***************************************************************************)
(* Properties                                                              *)
(***************************************************************************)

NonZero(value) == \E n \in DOMAIN value : value[n] # 0

\* A dump tells the truth: each entry has the value that the storage holds now, and
\* every entry that is not zero is there if a transaction of the environment, since
\* it was forked last, has written its first slot, whichever environment was made
\* last, and whatever was reverted, simulated, hashed or written directly since.
\* (A struct of which only a later field was ever written is left out, and so is
\* what set_storage or the chain put where no transaction wrote.)
DumpShowsStorage ==
  \A e \in EnvNo :
    /\ \A a \in Contracts, s \in 1..3 :
         LET dump == Get(e, a, s)
         IN \A ks \in DOMAIN dump :
              ks \in KeysOf(s) /\ dump[ks] = Decoded(e, a, At(<<s>> \o ks, 0), s)
    /\ \A w \in written[e] :
         LET k == w[2]
             s == Head(k.path)
         IN k.off = 0 /\ NonZero(Decoded(e, w[1], k, s))
              => Tail(k.path) \in DOMAIN Get(e, w[1], s)
=============================================================================

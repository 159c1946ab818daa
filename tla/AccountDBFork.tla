--------------------------- MODULE AccountDBFork ---------------------------
(***************************************************************************)
(* boa/vm/fork.py: the account database of a forked environment.  It is    *)
(* py-evm's AccountDB, a set of journals over an empty trie, which asks    *)
(* the node for whatever it does not hold locally, always at the block the *)
(* fork was pinned to when it was made.                                    *)
(*                                                                         *)
(* Three kinds of state have to agree:                                     *)
(*   - py-evm's journals (accounts, storage, bytecode by hash), rolled     *)
(*     back by super().discard;                                            *)
(*   - boa's own journal _dontfetch, the storage locations whose local     *)
(*     value is authoritative;                                             *)
(*   - _account_cache, which is not journalled: discard empties it.        *)
(*                                                                         *)
(* A journal is modelled by its current value and the values saved by the  *)
(* open checkpoints, which is what recording, reverting and committing a   *)
(* journal amount to.  A bytecode stands for its own hash.                 *)
(*                                                                         *)
(* Definitions called a "variant" are deliberately wrong forms of the one  *)
(* that follows them; they show that the properties can fail.              *)
(***************************************************************************)
EXTENDS Naturals, Sequences

CONSTANTS
  Addr, Slot,   \* account addresses and storage slots
  Word, Zero,   \* slot values; Zero is what an empty local trie answers
  Balance,      \* account balances
  MaxNonce,     \* bound on nonces
  Code,         \* bytecodes; EmptyCode is b"", known to every AccountDB
  EmptyCode,
  NoAccount,    \* no entry for an account
  MaxBlock,     \* the last block of the modelled chain
  Chain,        \* the node: the state of the chain at each block
  MaxDepth      \* bound on open checkpoints

Block == 0..MaxBlock
Loc == Addr \X Slot
Account == [balance: Balance, nonce: 0..MaxNonce, code: Code]
World == [acct: [Addr -> Account], store: [Loc -> Word]]

ASSUME ConstantsAssumption ==
  /\ Zero \in Word
  /\ Balance \subseteq Nat
  /\ MaxNonce \in Nat
  /\ EmptyCode \in Code
  /\ NoAccount \notin Account
  /\ MaxBlock \in Nat
  /\ Chain \in [Block -> World]
  /\ MaxDepth \in Nat

VARIABLES
  pin,          \* _block_number, resolved once in __init__
  head,         \* the newest block of the node
  trie,         \* _journaltrie: accounts written locally
  store,        \* the account stores' journals: slots written locally
  codes,        \* _journaldb: bytecode that can be read back by its hash
  jstack,       \* [trie, store, codes] at each open checkpoint
  dontfetch,    \* _dontfetch: locations not to be asked from the node
  dstack,       \* dontfetch at each open checkpoint
  cache,        \* _account_cache
  out           \* what the last read returned

journals == <<trie, store, codes>>
vars == <<pin, head, trie, store, codes, jstack, dontfetch, dstack, cache, out>>

(***************************************************************************)
(* Helpers                                                                 *)
(***************************************************************************)

\* _block_id: the block every query names.
BlockId == pin

\* What the node answers for a query that names BlockId.
Remote == Chain[BlockId]

NoAccounts == [a \in Addr |-> NoAccount]

\* _get_account_helper: the cache first, then the journal.
AccountHelper(a) == IF cache[a] # NoAccount THEN cache[a] ELSE trie[a]

\* The account that _get_account returns; the node is asked when it is unknown.
GetAccount(a) == IF AccountHelper(a) # NoAccount THEN AccountHelper(a)
                                                ELSE Remote.acct[a]

\* _get_account also remembers the account it returns.
Remember(a) == cache' = [cache EXCEPT ![a] = GetAccount(a)]

\* py-evm's _set_account: through the cache into the journal.
SetAccount(a, acct) ==
  /\ cache' = [cache EXCEPT ![a] = acct]
  /\ trie' = [trie EXCEPT ![a] = acct]

\* A variant that takes every local value but zero for authoritative.
HaveStorageNonzero(l) == store[l] # Zero

\* _helper_have_storage: is the local value of the location authoritative?
HaveStorage(l) == l \in dontfetch

(***************************************************************************)
(* __init__: the block identifier (a number, or a name such as "safe" or   *)
(* "latest") is resolved to a block the node has; everything else is empty.*)
(***************************************************************************)
Init ==
  /\ head \in Block
  /\ pin \in 0..head
  /\ trie = NoAccounts
  /\ store = [l \in Loc |-> Zero]
  /\ codes = {}
  /\ jstack = <<>>
  /\ dontfetch = {}
  /\ dstack = <<>>
  /\ cache = NoAccounts
  /\ out = <<"error", "rpc", "no answer">>

(***************************************************************************)
(* Accounts                                                                *)
(***************************************************************************)

GetBalance(a) ==
  /\ out' = <<"balance", a, GetAccount(a).balance>>
  /\ Remember(a)
  /\ UNCHANGED <<pin, head, journals, jstack, dontfetch, dstack>>

GetNonce(a) ==
  /\ out' = <<"nonce", a, GetAccount(a).nonce>>
  /\ Remember(a)
  /\ UNCHANGED <<pin, head, journals, jstack, dontfetch, dstack>>

\* account_exists: a journalled account exists; any other one is judged by
\* what _get_account says of it.
AccountExists(a) ==
  /\ out' = <<"exists", a, \/ trie[a] # NoAccount
                           \/ GetAccount(a).balance > 0
                           \/ GetAccount(a).nonce > 0>>
  /\ IF trie[a] # NoAccount THEN UNCHANGED cache ELSE Remember(a)
  /\ UNCHANGED <<pin, head, journals, jstack, dontfetch, dstack>>

SetBalance(a, b) ==
  /\ SetAccount(a, [GetAccount(a) EXCEPT !.balance = b])
  /\ UNCHANGED <<pin, head, store, codes, jstack, dontfetch, dstack, out>>

IncrementNonce(a) ==
  /\ GetAccount(a).nonce < MaxNonce
  /\ SetAccount(a, [GetAccount(a) EXCEPT !.nonce = @ + 1])
  /\ UNCHANGED <<pin, head, store, codes, jstack, dontfetch, dstack, out>>

\* touch_account: py-evm writes the account back to the journal.  In fast mode
\* boa replaces the method by one that writes nothing, i.e. by a stutter.
TouchAccount(a) ==
  /\ SetAccount(a, GetAccount(a))
  /\ UNCHANGED <<pin, head, store, codes, jstack, dontfetch, dstack, out>>

\* A variant that stores the hash of the code only.
SetCodeHashOnly(a, c) ==
  /\ SetAccount(a, [GetAccount(a) EXCEPT !.code = c])
  /\ UNCHANGED <<pin, head, store, codes, jstack, dontfetch, dstack>>

\* py-evm's set_code, used by the EVM and by get_code.  The empty code, which
\* is never looked up, needs no entry.
SetCode(a, c) ==
  /\ codes' = codes \union ({c} \ {EmptyCode})
  /\ SetAccount(a, [GetAccount(a) EXCEPT !.code = c])
  /\ UNCHANGED <<pin, head, store, jstack, dontfetch, dstack>>

WriteCode(a, c) == SetCode(a, c) /\ UNCHANGED out

\* py-evm answers b"" for the empty hash and raises MissingBytecode when it has
\* the hash of the code but not the code.
HaveCode(a) == GetAccount(a).code = EmptyCode \/ GetAccount(a).code \in codes

GetCodeLocal(a) ==
  /\ HaveCode(a)
  /\ out' = <<"code", a, GetAccount(a).code>>
  /\ Remember(a)
  /\ UNCHANGED <<pin, head, journals, jstack, dontfetch, dstack>>

\* ... in which case get_code asks the node and stores the code it gets.
GetCodeRemote(a) ==
  /\ ~HaveCode(a)
  /\ \/ /\ out' = <<"code", a, Remote.acct[a].code>>
        /\ SetCode(a, Remote.acct[a].code)
     \/ /\ out' = <<"error", "rpc", "no answer">>
        /\ Remember(a)
        /\ UNCHANGED <<pin, head, journals, jstack, dontfetch, dstack>>

(***************************************************************************)
(* Storage                                                                 *)
(***************************************************************************)

\* A variant of set_storage that forgets to mark the location.
SetStorageUnmarked(l, w) ==
  /\ store' = [store EXCEPT ![l] = w]
  /\ UNCHANGED dontfetch

\* set_storage: write the journal, mark "don't fetch".
SetStorage(l, w) ==
  /\ store' = [store EXCEPT ![l] = w]
  /\ dontfetch' = dontfetch \union {l}

WriteStorage(l, w) ==
  /\ SetStorage(l, w)
  /\ UNCHANGED <<pin, head, trie, codes, jstack, dstack, cache, out>>

\* get_storage from the journal; an unknown slot is fetched and written.
GetStorage(l) ==
  /\ IF HaveStorage(l)
     THEN /\ out' = <<"storage", l, store[l]>>
          /\ UNCHANGED <<store, dontfetch>>
     ELSE /\ out' = <<"storage", l, Remote.store[l]>>
          /\ SetStorage(l, Remote.store[l])
  /\ UNCHANGED <<pin, head, trie, codes, jstack, dstack, cache>>

\* get_storage(from_journal=False), which the SSTORE gas rules use: boa never
\* locks changes in, so the locked changes are empty and the node is asked.
GetOriginalStorage(l) ==
  /\ out' = <<"original", l, Remote.store[l]>>
  /\ UNCHANGED <<pin, head, journals, jstack, dontfetch, dstack, cache>>

\* A query the node does not answer (RPCError, HTTPError) before anything was
\* written: possible whenever something is not held locally.
FetchFails ==
  /\ \/ \E a \in Addr : AccountHelper(a) = NoAccount
     \/ \E l \in Loc : ~HaveStorage(l)
  /\ out' = <<"error", "rpc", "no answer">>
  /\ UNCHANGED <<pin, head, journals, jstack, dontfetch, dstack, cache>>

(***************************************************************************)
(* try_prefetch_state: debug_traceCall names the accounts and the slots a  *)
(* call will touch, with their values at the pinned block; those not held  *)
(* locally are written to the journals, between a record and a commit.  An *)
(* RPC error makes the prefetch a no-op.                                   *)
(***************************************************************************)

NeedsAccount(a) == AccountHelper(a) = NoAccount

Prefetch(as, ls) ==
  LET new == {a \in as : NeedsAccount(a)}
      Fill(f) == [a \in Addr |-> IF a \in new THEN Remote.acct[a] ELSE f[a]]
      fresh == {l \in ls : ~HaveStorage(l)}
  IN  /\ trie' = Fill(trie)
      /\ cache' = Fill(cache)
      /\ codes' = codes \union ({Remote.acct[a].code : a \in new} \ {EmptyCode})
      /\ store' = [l \in Loc |-> IF l \in fresh THEN Remote.store[l] ELSE store[l]]
      /\ dontfetch' = dontfetch \union fresh
      /\ UNCHANGED <<pin, head, jstack, dstack, out>>

\* The trace holds a key that is not an address: what was written so far is
\* discarded, and discard also empties the account cache.
PrefetchInvalid ==
  /\ cache' = NoAccounts
  /\ UNCHANGED <<pin, head, journals, jstack, dontfetch, dstack, out>>

(***************************************************************************)
(* Checkpoints: each method calls its super and then the same method of    *)
(* _dontfetch.                                                             *)
(***************************************************************************)

\* A variant that does not record _dontfetch.
RecordJournalsOnly ==
  /\ Len(jstack) < MaxDepth
  /\ jstack' = Append(jstack, [trie |-> trie, store |-> store, codes |-> codes])
  /\ UNCHANGED <<pin, head, journals, dontfetch, dstack, cache, out>>

Record ==
  /\ Len(jstack) < MaxDepth
  /\ jstack' = Append(jstack, [trie |-> trie, store |-> store, codes |-> codes])
  /\ dstack' = Append(dstack, dontfetch)
  /\ UNCHANGED <<pin, head, journals, dontfetch, cache, out>>

\* Variants of discard that forget one of its three parts.
DiscardKeepsMarks(c) ==
  /\ c \in 1..Len(jstack)
  /\ trie' = jstack[c].trie /\ store' = jstack[c].store /\ codes' = jstack[c].codes
  /\ cache' = NoAccounts
  /\ jstack' = SubSeq(jstack, 1, c - 1)
  /\ dstack' = SubSeq(dstack, 1, c - 1)
  /\ UNCHANGED <<pin, head, dontfetch, out>>

DiscardKeepsCache(c) ==
  /\ c \in 1..Len(jstack)
  /\ trie' = jstack[c].trie /\ store' = jstack[c].store /\ codes' = jstack[c].codes
  /\ dontfetch' = dstack[c]
  /\ jstack' = SubSeq(jstack, 1, c - 1)
  /\ dstack' = SubSeq(dstack, 1, c - 1)
  /\ UNCHANGED <<pin, head, cache, out>>

Discard(c) ==
  /\ c \in 1..Len(jstack)
  /\ trie' = jstack[c].trie /\ store' = jstack[c].store /\ codes' = jstack[c].codes
  /\ cache' = NoAccounts
  /\ dontfetch' = dstack[c]
  /\ jstack' = SubSeq(jstack, 1, c - 1)
  /\ dstack' = SubSeq(dstack, 1, c - 1)
  /\ UNCHANGED <<pin, head, out>>

Commit(c) ==
  /\ c \in 1..Len(jstack)
  /\ jstack' = SubSeq(jstack, 1, c - 1)
  /\ dstack' = SubSeq(dstack, 1, c - 1)
  /\ UNCHANGED <<pin, head, journals, dontfetch, cache, out>>

(***************************************************************************)
(* The surroundings                                                        *)
(***************************************************************************)

\* The account cache is a bounded LRU: any entry may be gone at any time.
EvictAccount(a) ==
  /\ cache[a] # NoAccount
  /\ cache' = [cache EXCEPT ![a] = NoAccount]
  /\ UNCHANGED <<pin, head, journals, jstack, dontfetch, dstack, out>>

\* The chain grows under the fork.
NodeMines ==
  /\ head < MaxBlock
  /\ head' = head + 1
  /\ UNCHANGED <<pin, journals, jstack, dontfetch, dstack, cache, out>>

Next ==
  \/ \E a \in Addr :
       \/ GetBalance(a) \/ GetNonce(a) \/ AccountExists(a)
       \/ GetCodeLocal(a) \/ GetCodeRemote(a)
       \/ \E b \in Balance : SetBalance(a, b)
       \/ IncrementNonce(a)
       \/ \E c \in Code : WriteCode(a, c)
       \/ TouchAccount(a)
       \/ EvictAccount(a)
  \/ \E l \in Loc : \/ GetStorage(l) \/ GetOriginalStorage(l)
                    \/ \E w \in Word : WriteStorage(l, w)
  \/ FetchFails
  \/ \E as \in SUBSET Addr : \E ls \in SUBSET (as \X Slot) : Prefetch(as, ls)
  \/ PrefetchInvalid
  \/ Record
  \/ \E c \in 1..MaxDepth : Discard(c) \/ Commit(c)
  \/ NodeMines

Spec == Init /\ [][Next]_vars

(***************************************************************************)
(* The view: what the environment shows of a set of journals               *)
(***************************************************************************)

\* The state shown by journals j together with the marks in force.
ViewOf(j, marks) ==
  [acct  |-> [a \in Addr |-> IF j.trie[a] # NoAccount THEN j.trie[a]
                                                      ELSE Chain[pin].acct[a]],
   store |-> [l \in Loc |-> IF l \in marks THEN j.store[l]
                                           ELSE Chain[pin].store[l]]]

Journals == [trie |-> trie, store |-> store, codes |-> codes]
View == ViewOf(Journals, dontfetch)
SavedViews == [i \in 1..Len(jstack) |-> ViewOf(jstack[i], dstack[i])]

\* is_state_dirty: the accounts' journal holds a value.
IsStateDirty == \E a \in Addr : trie[a] # NoAccount

(***************************************************************************)
(* Properties                                                              *)
(***************************************************************************)

JournalsType == [trie: [Addr -> Account \union {NoAccount}],
                 store: [Loc -> Word],
                 codes: SUBSET Code]

\* Type correctness of the journals, their checkpoints, the marks and the cache
\* (the attributes of AccountDBFork); _dontfetch has exactly as many open
\* checkpoints as py-evm's journals.
TypeOK ==
  /\ pin \in Block /\ head \in Block /\ pin <= head
  /\ Journals \in JournalsType
  /\ jstack \in Seq(JournalsType)
  /\ dontfetch \in SUBSET Loc
  /\ dstack \in Seq(SUBSET Loc)
  /\ Len(dstack) = Len(jstack)
  /\ cache \in [Addr -> Account \union {NoAccount}]

\* The account cache is not journalled, yet whatever interleaving of reads,
\* writes, prefetches, evictions, commits and reverts has happened, an account
\* found in it is the one the journal (or the pinned block) would give.
CacheCoherent ==
  \A a \in Addr : cache[a] # NoAccount => cache[a] = View.acct[a]

\* Bytecode that differs from the chain's can be read back by its hash.
CodesComplete(j) ==
  \A a \in Addr : j.trie[a] # NoAccount =>
      j.trie[a].code \in j.codes \union {EmptyCode, Chain[pin].acct[a].code}

\* get_code answers MissingBytecode by asking the node, which is right only if
\* locally deployed code is never the one missing: not now, and not after a
\* revert to any open checkpoint.
LocalCodeNeverMissing ==
  /\ CodesComplete(Journals)
  /\ \A i \in 1..Len(jstack) : CodesComplete(jstack[i])

\* A slot that is not marked in _dontfetch holds no local value that the next
\* get_storage would overwrite by a fetch, now or after a revert to any open
\* checkpoint.
MarksMatchStorage ==
  /\ \A l \in Loc \ dontfetch : store[l] = Zero
  /\ \A i \in 1..Len(jstack) : \A l \in Loc \ dstack[i] : jstack[i].store[l] = Zero

\* Everything that is not a write or a revert is invisible: reads that fetch,
\* prefetches (complete or rolled back), evictions, commits and the
\* growth of the chain leave the view as it is.
Quiet ==
  \/ \E a \in Addr : \/ GetBalance(a) \/ GetNonce(a) \/ AccountExists(a)
                     \/ GetCodeLocal(a) \/ GetCodeRemote(a)
                     \/ TouchAccount(a) \/ EvictAccount(a)
  \/ \E l \in Loc : GetStorage(l) \/ GetOriginalStorage(l)
  \/ \E as \in SUBSET Addr : \E ls \in SUBSET (as \X Slot) : Prefetch(as, ls)
  \/ PrefetchInvalid \/ FetchFails \/ Record \/ NodeMines
  \/ \E c \in 1..MaxDepth : Commit(c)

QuietStepsKeepView == [][Quiet => View' = View]_vars

\* The lazily fetching, caching, journalling database implements an eager copy
\* of the chain at the pinned block.
Promise == INSTANCE ForkView WITH
  origin <- Chain[pin], view <- View, saved <- SavedViews, out <- out

ImplementsForkView == Promise!Spec

\* is_state_dirty ("detect if state has been written to") sees every write that
\* the user can see: a view that differs from the chain is dirty.
WritesAreDetected == View # Chain[pin] => IsStateDirty
=============================================================================

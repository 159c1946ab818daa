------------------------ MODULE AccountDBForkProofs ------------------------
(***************************************************************************)
(* Proofs about AccountDBFork, for every chain, every set of accounts,     *)
(* slots and values and every depth of checkpoints.                        *)
(***************************************************************************)
EXTENDS AccountDBFork, SequenceTheorems, TLAPS

(***************************************************************************)
(* Type correctness                                                        *)
(***************************************************************************)

\* The node's answers at a block of the chain have the types of the model.
LEMMA RemoteType ==
  ASSUME pin \in Block
  PROVE  /\ Remote = Chain[pin]
         /\ Chain[pin] \in World
         /\ \A a \in Addr : Chain[pin].acct[a] \in Account
         /\ \A l \in Loc : Chain[pin].store[l] \in Word
  BY ConstantsAssumption DEF Remote, BlockId, World

\* _get_account always returns an account.
LEMMA GetAccountType ==
  ASSUME TypeOK, NEW a \in Addr
  PROVE  GetAccount(a) \in Account
  BY RemoteType DEF TypeOK, Journals, JournalsType, GetAccount, AccountHelper

\* Cutting the checkpoint stacks keeps their types.
LEMMA CutType ==
  ASSUME NEW S, NEW s \in Seq(S), NEW c \in 1..Len(s)
  PROVE  /\ s[c] \in S
         /\ SubSeq(s, 1, c - 1) \in Seq(S)
         /\ Len(SubSeq(s, 1, c - 1)) = c - 1
         /\ \A i \in 1..(c - 1) : SubSeq(s, 1, c - 1)[i] = s[i]
<1>1. Len(s) \in Nat /\ \A i \in 1..Len(s) : s[i] \in S
  BY LenProperties, ElementOfSeq
<1>2. c - 1 \in Int /\ \A i \in 1..(c - 1) : s[i] \in S
  BY <1>1
<1>3. /\ SubSeq(s, 1, c - 1) \in Seq(S)
      /\ Len(SubSeq(s, 1, c - 1)) = IF 1 <= c - 1 THEN (c - 1) - 1 + 1 ELSE 0
      /\ \A i \in 1..((c - 1) - 1 + 1) : SubSeq(s, 1, c - 1)[i] = s[1 + i - 1]
  BY <1>2, SubSeqProperties
<1>4. QED
  BY <1>1, <1>3

\* A new AccountDBFork has the types of the model.
LEMMA InitType == Init => TypeOK
<1>1. \A S : <<>> \in Seq(S)
  BY EmptySeq
<1>2. Init => /\ Journals \in JournalsType
              /\ cache \in [Addr -> Account \union {NoAccount}]
  BY ConstantsAssumption DEF Init, Journals, JournalsType, NoAccounts
<1>3. Init => pin \in Block /\ head \in Block /\ pin <= head
  <2>1. MaxBlock \in Nat
    BY ConstantsAssumption
  <2>2. ASSUME head \in 0..MaxBlock, pin \in 0..head
        PROVE  pin \in 0..MaxBlock /\ pin <= head
    BY <2>1, <2>2
  <2>3. QED
    BY <2>2 DEF Init, Block
<1>4. QED
  BY <1>1, <1>2, <1>3, ConstantsAssumption DEF Init, TypeOK

\* Every operation of the database keeps the types.
LEMMA NextType == TypeOK /\ [Next]_vars => TypeOK'
<1> SUFFICES ASSUME TypeOK, [Next]_vars PROVE TypeOK'
  OBVIOUS
<1> USE ConstantsAssumption
<1>a. \A a \in Addr : GetAccount(a) \in Account
  BY GetAccountType
<1>b. /\ \A a \in Addr : Remote.acct[a] \in Account
      /\ \A l \in Loc : Remote.store[l] \in Word
  BY RemoteType DEF TypeOK
<1>1. ASSUME NEW a \in Addr,
             GetBalance(a) \/ GetNonce(a) \/ AccountExists(a) \/ GetCodeLocal(a)
      PROVE  TypeOK'
  BY <1>1, <1>a DEF TypeOK, Journals, journals, Remember,
     GetBalance, GetNonce, AccountExists, GetCodeLocal
<1>2. ASSUME NEW a \in Addr, NEW c \in Code, SetCode(a, c)
      PROVE  TypeOK'
  BY <1>2, <1>a, ZenonT(40) DEF TypeOK, Journals, JournalsType, SetCode, SetAccount, Account
<1>3. ASSUME NEW a \in Addr, GetCodeRemote(a)
      PROVE  TypeOK'
  <2>1. CASE SetCode(a, Remote.acct[a].code)
    BY <2>1, <1>2, <1>b DEF Account
  <2>2. CASE Remember(a) /\ UNCHANGED <<pin, head, journals, jstack, dontfetch, dstack>>
    BY <2>2, <1>a DEF TypeOK, Journals, journals, Remember
  <2>3. QED
    BY <1>3, <2>1, <2>2 DEF GetCodeRemote
<1>4. ASSUME NEW a \in Addr, NEW b \in Balance, SetBalance(a, b)
      PROVE  TypeOK'
  BY <1>4, <1>a, ZenonT(40) DEF TypeOK, Journals, JournalsType, SetBalance, SetAccount, Account
<1>5. ASSUME NEW a \in Addr, IncrementNonce(a)
      PROVE  TypeOK'
  <2>1. [GetAccount(a) EXCEPT !.nonce = @ + 1] \in Account
    BY <1>5, <1>a DEF IncrementNonce, Account
  <2>2. QED
    BY <1>5, <2>1 DEF TypeOK, Journals, JournalsType, IncrementNonce, SetAccount
<1>6. ASSUME NEW a \in Addr, NEW c \in Code, WriteCode(a, c)
      PROVE  TypeOK'
  BY <1>6, <1>2 DEF WriteCode
<1>7. ASSUME NEW a \in Addr, TouchAccount(a)
      PROVE  TypeOK'
  BY <1>7, <1>a DEF TypeOK, Journals, JournalsType, TouchAccount, SetAccount
<1>8. ASSUME NEW a \in Addr, EvictAccount(a)
      PROVE  TypeOK'
  BY <1>8 DEF TypeOK, Journals, journals, EvictAccount
<1>9. ASSUME NEW l \in Loc, GetStorage(l) \/ GetOriginalStorage(l)
      PROVE  TypeOK'
  BY <1>9, <1>b DEF TypeOK, Journals, JournalsType, journals, GetStorage,
     GetOriginalStorage, SetStorage
<1>10. ASSUME NEW l \in Loc, NEW w \in Word, WriteStorage(l, w)
       PROVE  TypeOK'
  BY <1>10 DEF TypeOK, Journals, JournalsType, WriteStorage, SetStorage
<1>11. CASE FetchFails
  BY <1>11 DEF TypeOK, Journals, journals, FetchFails
<1>12. ASSUME NEW as \in SUBSET Addr, NEW ls \in SUBSET (as \X Slot), Prefetch(as, ls)
       PROVE  TypeOK'
  <2>1. ls \subseteq Loc
    BY DEF Loc
  <2>2. trie' \in [Addr -> Account \union {NoAccount}] /\ cache' \in [Addr -> Account \union {NoAccount}]
    BY <1>12, <1>b DEF TypeOK, Journals, JournalsType, Prefetch
  <2>3. codes' \in SUBSET Code
    <3>1. \A a \in Addr : Remote.acct[a].code \in Code
      BY <1>b DEF Account
    <3>2. \A S \in SUBSET Addr : {Remote.acct[a].code : a \in S} \ {EmptyCode} \subseteq Code
      BY <3>1
    <3>3. {a \in as : NeedsAccount(a)} \in SUBSET Addr
      OBVIOUS
    <3>4. codes \in SUBSET Code
      BY DEF TypeOK, Journals, JournalsType
    <3>5. QED
      BY <1>12, <3>2, <3>3, <3>4 DEF Prefetch
  <2>4. store' \in [Loc -> Word] /\ dontfetch' \in SUBSET Loc
    BY <1>12, <1>b, <2>1 DEF TypeOK, Journals, JournalsType, Prefetch
  <2>5. UNCHANGED <<pin, head, jstack, dstack>>
    BY <1>12 DEF Prefetch
  <2>6. QED
    BY <2>2, <2>3, <2>4, <2>5 DEF TypeOK, Journals, JournalsType
<1>13. CASE PrefetchInvalid
  BY <1>13 DEF TypeOK, Journals, journals, PrefetchInvalid, NoAccounts
<1>14. CASE Record
  <2>1. [trie |-> trie, store |-> store, codes |-> codes] \in JournalsType
    BY DEF TypeOK, Journals
  <2>2. /\ jstack' \in Seq(JournalsType) /\ dstack' \in Seq(SUBSET Loc)
        /\ Len(dstack') = Len(jstack')
    BY <1>14, <2>1, AppendProperties DEF TypeOK, Record
  <2>3. QED
    BY <1>14, <2>2 DEF TypeOK, Record, Journals, journals
<1>15. ASSUME NEW c \in 1..MaxDepth, Commit(c)
       PROVE  TypeOK'
  <2>1. /\ jstack' \in Seq(JournalsType) /\ dstack' \in Seq(SUBSET Loc)
        /\ Len(dstack') = Len(jstack')
    BY <1>15, CutType DEF TypeOK, Commit
  <2>2. QED
    BY <1>15, <2>1 DEF TypeOK, Commit, Journals, journals
<1>16. ASSUME NEW c \in 1..MaxDepth, Discard(c)
       PROVE  TypeOK'
  <2>1. /\ jstack' \in Seq(JournalsType) /\ dstack' \in Seq(SUBSET Loc)
        /\ Len(dstack') = Len(jstack')
    BY <1>16, CutType DEF TypeOK, Discard
  <2>2. jstack[c] \in JournalsType /\ dstack[c] \in SUBSET Loc
    BY <1>16, CutType DEF TypeOK, Discard
  <2>3. Journals' \in JournalsType /\ dontfetch' \in SUBSET Loc
    BY <1>16, <2>2 DEF Journals, JournalsType, Discard
  <2>4. QED
    BY <1>16, <2>1, <2>3 DEF TypeOK, Discard, NoAccounts
<1>17. CASE NodeMines
  BY <1>17 DEF TypeOK, Journals, journals, NodeMines, Block
<1>18. CASE UNCHANGED vars
  BY <1>18 DEF TypeOK, Journals, vars
<1>19. QED
  BY <1>1, <1>3, <1>4, <1>5, <1>6, <1>7, <1>8, <1>9, <1>10, <1>11, <1>12,
     <1>13, <1>14, <1>15, <1>16, <1>17, <1>18 DEF Next

\* The journals, the checkpoints, the marks and the cache of AccountDBFork keep
\* their types, and _dontfetch stays in step with py-evm's checkpoints.
THEOREM TypeCorrect == Spec => []TypeOK
<1>1. Init => TypeOK
  BY InitType
<1>2. TypeOK /\ [Next]_vars => TypeOK'
  BY NextType
<1>3. QED
  BY <1>1, <1>2, PTL DEF Spec

(***************************************************************************)
(* The inductive invariant                                                 *)
(***************************************************************************)

Coherence == CacheCoherent /\ LocalCodeNeverMissing /\ MarksMatchStorage

IInv == TypeOK /\ Coherence

\* The account shown for an address.
LEMMA ViewAcct ==
  ASSUME NEW a \in Addr
  PROVE  View.acct[a] = IF trie[a] # NoAccount THEN trie[a] ELSE Chain[pin].acct[a]
  BY DEF View, ViewOf, Journals

\* With a coherent cache, _get_account returns the account of the view ...
LEMMA GetAccountIsView ==
  ASSUME CacheCoherent, NEW a \in Addr
  PROVE  GetAccount(a) = View.acct[a]
  BY ViewAcct DEF CacheCoherent, GetAccount, AccountHelper, Remote, BlockId

\* ... whose bytecode is known, empty, or the chain's.
LEMMA CodeKnown ==
  ASSUME CacheCoherent, LocalCodeNeverMissing, NEW a \in Addr
  PROVE  GetAccount(a).code \in codes \union {EmptyCode, Chain[pin].acct[a].code}
  BY GetAccountIsView, ViewAcct DEF LocalCodeNeverMissing, CodesComplete, Journals

\* Writing an account through the cache keeps the cache coherent.
LEMMA SetAccountCoherent ==
  ASSUME TypeOK, CacheCoherent, pin' = pin,
         NEW a \in Addr, NEW acct \in Account, SetAccount(a, acct)
  PROVE  CacheCoherent'
<1>1. acct # NoAccount
  BY ConstantsAssumption
<1>2. ASSUME NEW b \in Addr, cache'[b] # NoAccount
      PROVE  cache'[b] = IF trie'[b] # NoAccount THEN trie'[b] ELSE Chain[pin'].acct[b]
  <2>1. CASE b = a
    BY <2>1, <1>1 DEF SetAccount, TypeOK, Journals, JournalsType
  <2>2. CASE b # a
    BY <2>2, <1>2, ViewAcct DEF SetAccount, TypeOK, Journals, JournalsType, CacheCoherent
  <2>3. QED
    BY <2>1, <2>2
<1>3. QED
  BY <1>2 DEF CacheCoherent, View, ViewOf, Journals

\* Remembering the account that was read keeps the cache coherent.
LEMMA RememberCoherent ==
  ASSUME TypeOK, CacheCoherent, pin' = pin, trie' = trie, NEW a \in Addr, Remember(a)
  PROVE  CacheCoherent'
<1>1. ASSUME NEW b \in Addr, cache'[b] # NoAccount
      PROVE  cache'[b] = IF trie'[b] # NoAccount THEN trie'[b] ELSE Chain[pin'].acct[b]
  BY <1>1, ViewAcct, GetAccountIsView DEF Remember, TypeOK, CacheCoherent
<1>2. QED
  BY <1>1 DEF CacheCoherent, View, ViewOf, Journals

\* Steps that leave the journals' checkpoints alone have to care only for the
\* journals themselves.
LEMMA CodesFrame ==
  ASSUME LocalCodeNeverMissing, pin' = pin, jstack' = jstack, CodesComplete(Journals)'
  PROVE  LocalCodeNeverMissing'
  BY DEF LocalCodeNeverMissing, CodesComplete

\* The same for the marks of _dontfetch.
LEMMA MarksFrame ==
  ASSUME MarksMatchStorage, jstack' = jstack, dstack' = dstack,
         \A l \in Loc \ dontfetch' : store'[l] = Zero
  PROVE  MarksMatchStorage'
  BY DEF MarksMatchStorage

\* set_code: the new code can be read back.
LEMMA SetCodeCoherent ==
  ASSUME IInv, NEW a \in Addr, NEW c \in Code, SetCode(a, c)
  PROVE  Coherence'
<1> DEFINE acct == [GetAccount(a) EXCEPT !.code = c]
<1>1. acct \in Account /\ acct.code = c
  BY GetAccountType DEF IInv, Account
<1>2. SetAccount(a, acct) /\ UNCHANGED <<pin, store, jstack, dontfetch, dstack>>
      /\ codes' = codes \union ({c} \ {EmptyCode})
  BY DEF SetCode
<1> HIDE DEF acct
<1>3. CacheCoherent'
  BY <1>1, <1>2, SetAccountCoherent DEF IInv, Coherence
<1>4. ASSUME NEW b \in Addr, trie'[b] # NoAccount
      PROVE  trie'[b].code \in codes' \union {EmptyCode, Chain[pin'].acct[b].code}
  <2>1. CASE b = a
    BY <2>1, <1>1, <1>2 DEF SetAccount, IInv, TypeOK, Journals, JournalsType
  <2>2. CASE b # a
    BY <2>2, <1>4, <1>2 DEF SetAccount, IInv, Coherence, LocalCodeNeverMissing, CodesComplete,
       TypeOK, Journals, JournalsType
  <2>3. QED
    BY <2>1, <2>2
<1>5. LocalCodeNeverMissing'
  BY <1>2, <1>4, CodesFrame DEF IInv, Coherence, CodesComplete, Journals
<1>6. MarksMatchStorage'
  BY <1>2, MarksFrame DEF IInv, Coherence, MarksMatchStorage
<1>7. QED
  BY <1>3, <1>5, <1>6 DEF Coherence

\* Writing an account whose code is that of the account read (set_balance,
\* increment_nonce, touch_account).
LEMMA SameCodeCoherent ==
  ASSUME IInv, NEW a \in Addr, NEW acct \in Account, acct.code = GetAccount(a).code,
         SetAccount(a, acct), UNCHANGED <<pin, store, codes, jstack, dontfetch, dstack>>
  PROVE  Coherence'
<1>1. CacheCoherent'
  BY SetAccountCoherent DEF IInv, Coherence
<1>2. ASSUME NEW b \in Addr, trie'[b] # NoAccount
      PROVE  trie'[b].code \in codes' \union {EmptyCode, Chain[pin'].acct[b].code}
  <2>1. CASE b = a
    BY <2>1, CodeKnown DEF SetAccount, IInv, Coherence, TypeOK, Journals, JournalsType
  <2>2. CASE b # a
    BY <2>2, <1>2 DEF SetAccount, IInv, Coherence, LocalCodeNeverMissing, CodesComplete,
       TypeOK, Journals, JournalsType
  <2>3. QED
    BY <2>1, <2>2
<1>3. LocalCodeNeverMissing'
  BY <1>2, CodesFrame DEF IInv, Coherence, CodesComplete, Journals
<1>4. MarksMatchStorage'
  BY MarksFrame DEF IInv, Coherence, MarksMatchStorage
<1>5. QED
  BY <1>1, <1>3, <1>4 DEF Coherence

\* A step that changes at most the account cache, keeping it coherent, keeps
\* the rest.
LEMMA CacheOnlyCoherent ==
  ASSUME IInv, CacheCoherent', UNCHANGED <<pin, trie, store, codes, jstack, dontfetch, dstack>>
  PROVE  Coherence'
<1>1. LocalCodeNeverMissing'
  BY CodesFrame DEF IInv, Coherence, LocalCodeNeverMissing, CodesComplete, Journals
<1>2. MarksMatchStorage'
  BY MarksFrame DEF IInv, Coherence, MarksMatchStorage
<1>3. QED
  BY <1>1, <1>2 DEF Coherence

\* A step that changes at most storage and marks, keeping unmarked slots zero.
LEMMA StorageOnlyCoherent ==
  ASSUME IInv, UNCHANGED <<pin, trie, codes, jstack, dstack, cache>>,
         \A l \in Loc \ dontfetch' : store'[l] = Zero
  PROVE  Coherence'
<1>1. CacheCoherent'
  BY ViewAcct DEF IInv, Coherence, CacheCoherent, View, ViewOf, Journals
<1>2. LocalCodeNeverMissing'
  BY CodesFrame DEF IInv, Coherence, LocalCodeNeverMissing, CodesComplete, Journals
<1>3. MarksMatchStorage'
  BY MarksFrame DEF IInv, Coherence
<1>4. QED
  BY <1>1, <1>2, <1>3 DEF Coherence

\* set_storage marks what it writes.
LEMMA SetStorageUnmarkedZero ==
  ASSUME IInv, NEW l \in Loc, NEW w \in Word, SetStorage(l, w)
  PROVE  \A m \in Loc \ dontfetch' : store'[m] = Zero
  BY DEF IInv, Coherence, MarksMatchStorage, SetStorage, TypeOK, Journals, JournalsType

\* The prefetch writes only what the node says of what is not held locally.
LEMMA PrefetchCoherent ==
  ASSUME IInv, NEW as \in SUBSET Addr, NEW ls \in SUBSET (as \X Slot), Prefetch(as, ls)
  PROVE  Coherence'
<1> DEFINE new == {a \in as : NeedsAccount(a)}
           fresh == {l \in ls : ~HaveStorage(l)}
<1>1. /\ trie' = [a \in Addr |-> IF a \in new THEN Remote.acct[a] ELSE trie[a]]
      /\ cache' = [a \in Addr |-> IF a \in new THEN Remote.acct[a] ELSE cache[a]]
      /\ codes' = codes \union ({Remote.acct[a].code : a \in new} \ {EmptyCode})
      /\ store' = [l \in Loc |-> IF l \in fresh THEN Remote.store[l] ELSE store[l]]
      /\ dontfetch' = dontfetch \union fresh
      /\ UNCHANGED <<pin, jstack, dstack>>
  BY DEF Prefetch
<1>2. /\ pin \in Block /\ Remote = Chain[pin]
      /\ \A a \in Addr : Chain[pin].acct[a] \in Account
  BY RemoteType DEF IInv, TypeOK
<1>3. CacheCoherent'
  <2>1. ASSUME NEW a \in Addr, cache'[a] # NoAccount
        PROVE  cache'[a] = IF trie'[a] # NoAccount THEN trie'[a] ELSE Chain[pin'].acct[a]
    <3>1. CASE a \in new
      BY <3>1, <1>1, <1>2
    <3>2. CASE a \notin new
      BY <3>2, <1>1, <2>1, ViewAcct DEF IInv, Coherence, CacheCoherent
    <3>3. QED
      BY <3>1, <3>2
  <2>2. QED
    BY <2>1 DEF CacheCoherent, View, ViewOf, Journals
<1>4. LocalCodeNeverMissing'
  <2>1. ASSUME NEW a \in Addr, trie'[a] # NoAccount
        PROVE  trie'[a].code \in codes' \union {EmptyCode, Chain[pin'].acct[a].code}
    <3>1. CASE a \in new
      BY <3>1, <1>1, <1>2
    <3>2. CASE a \notin new
      BY <3>2, <1>1, <2>1 DEF IInv, Coherence, LocalCodeNeverMissing, CodesComplete, Journals
    <3>3. QED
      BY <3>1, <3>2
  <2>2. QED
    BY <1>1, <2>1, CodesFrame DEF IInv, Coherence, CodesComplete, Journals
<1>5. MarksMatchStorage'
  BY <1>1, MarksFrame DEF IInv, Coherence, MarksMatchStorage
<1>6. QED
  BY <1>3, <1>4, <1>5 DEF Coherence

\* record saves journals and marks that fit each other.
LEMMA RecordCoherent ==
  ASSUME IInv, Record
  PROVE  Coherence'
<1>1. /\ jstack \in Seq(JournalsType) /\ dstack \in Seq(SUBSET Loc)
      /\ Len(dstack) = Len(jstack) /\ Journals \in JournalsType /\ dontfetch \in SUBSET Loc
  BY DEF IInv, TypeOK
<1>2. jstack' = Append(jstack, Journals) /\ dstack' = Append(dstack, dontfetch)
  BY DEF Record, Journals
<1>3. /\ Len(jstack) \in Nat /\ Len(jstack') = Len(jstack) + 1
      /\ jstack'[Len(jstack) + 1] = Journals
      /\ dstack'[Len(jstack) + 1] = dontfetch
      /\ \A i \in 1..Len(jstack) : jstack'[i] = jstack[i] /\ dstack'[i] = dstack[i]
  BY <1>1, <1>2, AppendProperties, LenProperties
<1>4. UNCHANGED <<pin, trie, store, codes, dontfetch, cache>>
  BY DEF Record, journals
<1>5. CacheCoherent'
  BY <1>4, ViewAcct DEF IInv, Coherence, CacheCoherent, View, ViewOf, Journals
<1>6. \A i \in 1..Len(jstack') : i \in 1..Len(jstack) \/ i = Len(jstack) + 1
  BY <1>3
<1>7. LocalCodeNeverMissing'
  BY <1>3, <1>4, <1>6 DEF IInv, Coherence, LocalCodeNeverMissing, CodesComplete, Journals
<1>8. MarksMatchStorage'
  BY <1>3, <1>4, <1>6 DEF IInv, Coherence, MarksMatchStorage, Journals
<1>9. QED
  BY <1>5, <1>7, <1>8 DEF Coherence

\* What is left of the checkpoints after cutting them at c.
LEMMA CutStacks ==
  ASSUME TypeOK, NEW c \in 1..Len(jstack),
         jstack' = SubSeq(jstack, 1, c - 1), dstack' = SubSeq(dstack, 1, c - 1)
  PROVE  /\ Len(jstack') = c - 1 /\ Len(dstack') = c - 1
         /\ \A i \in 1..(c - 1) : /\ i \in 1..Len(jstack)
                                  /\ jstack'[i] = jstack[i] /\ dstack'[i] = dstack[i]
<1>1. /\ jstack \in Seq(JournalsType) /\ dstack \in Seq(SUBSET Loc)
      /\ Len(dstack) = Len(jstack) /\ Len(jstack) \in Nat
  BY LenProperties DEF TypeOK
<1>2. QED
  BY <1>1, CutType

\* discard restores journals and marks that fit each other, and empties the cache.
LEMMA DiscardCoherent ==
  ASSUME IInv, NEW c, Discard(c)
  PROVE  Coherence'
<1>1. c \in 1..Len(jstack)
  BY DEF Discard
<1>2. /\ trie' = jstack[c].trie /\ store' = jstack[c].store /\ codes' = jstack[c].codes
      /\ dontfetch' = dstack[c] /\ cache' = NoAccounts /\ pin' = pin
  BY DEF Discard
<1>3. /\ Len(jstack') = c - 1
      /\ \A i \in 1..(c - 1) : /\ i \in 1..Len(jstack)
                               /\ jstack'[i] = jstack[i] /\ dstack'[i] = dstack[i]
  BY <1>1, CutStacks DEF Discard, IInv
<1>4. CacheCoherent'
  BY <1>2 DEF CacheCoherent, NoAccounts
<1>5. LocalCodeNeverMissing'
  BY <1>1, <1>2, <1>3 DEF IInv, Coherence, LocalCodeNeverMissing, CodesComplete, Journals
<1>6. MarksMatchStorage'
  BY <1>1, <1>2, <1>3 DEF IInv, Coherence, MarksMatchStorage
<1>7. QED
  BY <1>4, <1>5, <1>6 DEF Coherence

\* commit forgets checkpoints and nothing else.
LEMMA CommitCoherent ==
  ASSUME IInv, NEW c, Commit(c)
  PROVE  Coherence'
<1>1. c \in 1..Len(jstack) /\ UNCHANGED <<pin, trie, store, codes, dontfetch, cache>>
  BY DEF Commit, journals
<1>2. /\ Len(jstack') = c - 1
      /\ \A i \in 1..(c - 1) : /\ i \in 1..Len(jstack)
                               /\ jstack'[i] = jstack[i] /\ dstack'[i] = dstack[i]
  BY <1>1, CutStacks DEF Commit, IInv
<1>3. CacheCoherent'
  BY <1>1, ViewAcct DEF IInv, Coherence, CacheCoherent, View, ViewOf, Journals
<1>4. LocalCodeNeverMissing'
  BY <1>1, <1>2 DEF IInv, Coherence, LocalCodeNeverMissing, CodesComplete, Journals
<1>5. MarksMatchStorage'
  BY <1>1, <1>2 DEF IInv, Coherence, MarksMatchStorage
<1>6. QED
  BY <1>3, <1>4, <1>5 DEF Coherence

\* A new AccountDBFork, with empty journals and an empty cache, is coherent.
LEMMA InitCoherent == Init => Coherence
<1> SUFFICES ASSUME Init PROVE Coherence
  OBVIOUS
<1>1. CacheCoherent
  BY DEF Init, CacheCoherent, NoAccounts
<1>2. 1..Len(jstack) = {}
  <2>1. jstack = <<>>
    BY DEF Init
  <2>2. QED
    BY <2>1
<1>3. LocalCodeNeverMissing
  BY <1>2 DEF Init, LocalCodeNeverMissing, CodesComplete, Journals, NoAccounts
<1>4. MarksMatchStorage
  BY <1>2 DEF Init, MarksMatchStorage
<1>5. QED
  BY <1>1, <1>3, <1>4 DEF Coherence

\* Every operation of the database keeps cache, codes and marks coherent.
LEMMA NextCoherent == IInv /\ [Next]_vars => Coherence'
<1> SUFFICES ASSUME IInv, [Next]_vars PROVE Coherence'
  OBVIOUS
<1>a. \A a \in Addr : GetAccount(a) \in Account
  BY GetAccountType DEF IInv
<1>b. /\ \A a \in Addr : Remote.acct[a] \in Account
      /\ \A l \in Loc : Remote.store[l] \in Word
  BY RemoteType DEF IInv, TypeOK
<1>same. ASSUME UNCHANGED <<pin, trie, cache>>
         PROVE  CacheCoherent'
  BY <1>same, ViewAcct DEF IInv, Coherence, CacheCoherent, View, ViewOf, Journals
<1>1. ASSUME NEW a \in Addr,
             GetBalance(a) \/ GetNonce(a) \/ AccountExists(a) \/ GetCodeLocal(a)
      PROVE  Coherence'
  <2>1. UNCHANGED <<pin, trie, store, codes, jstack, dontfetch, dstack>>
    BY <1>1 DEF GetBalance, GetNonce, AccountExists, GetCodeLocal, journals
  <2>2. Remember(a) \/ UNCHANGED cache
    BY <1>1 DEF GetBalance, GetNonce, AccountExists, GetCodeLocal
  <2>3. CacheCoherent'
    BY <2>1, <2>2, <1>same, RememberCoherent DEF IInv, Coherence
  <2>4. QED
    BY <2>1, <2>3, CacheOnlyCoherent
<1>2. ASSUME NEW a \in Addr, GetCodeRemote(a)
      PROVE  Coherence'
  <2>1. CASE SetCode(a, Remote.acct[a].code)
    BY <2>1, <1>b, SetCodeCoherent DEF Account
  <2>2. CASE Remember(a) /\ UNCHANGED <<pin, head, journals, jstack, dontfetch, dstack>>
    <3>1. CacheCoherent'
      BY <2>2, RememberCoherent DEF IInv, Coherence, journals
    <3>2. QED
      BY <2>2, <3>1, CacheOnlyCoherent DEF journals
  <2>3. QED
    BY <1>2, <2>1, <2>2 DEF GetCodeRemote
<1>3. ASSUME NEW a \in Addr, NEW b \in Balance, SetBalance(a, b)
      PROVE  Coherence'
  <2> DEFINE acct == [GetAccount(a) EXCEPT !.balance = b]
  <2>1. acct \in Account /\ acct.code = GetAccount(a).code
    BY <1>a DEF Account
  <2>2. SetAccount(a, acct) /\ UNCHANGED <<pin, store, codes, jstack, dontfetch, dstack>>
    BY <1>3 DEF SetBalance
  <2> HIDE DEF acct
  <2>3. QED
    BY <2>1, <2>2, SameCodeCoherent
<1>4. ASSUME NEW a \in Addr, IncrementNonce(a)
      PROVE  Coherence'
  <2> DEFINE acct == [GetAccount(a) EXCEPT !.nonce = @ + 1]
  <2>1. acct \in Account /\ acct.code = GetAccount(a).code
    BY <1>4, <1>a, ConstantsAssumption DEF IncrementNonce, Account
  <2>2. SetAccount(a, acct) /\ UNCHANGED <<pin, store, codes, jstack, dontfetch, dstack>>
    BY <1>4 DEF IncrementNonce
  <2> HIDE DEF acct
  <2>3. QED
    BY <2>1, <2>2, SameCodeCoherent
<1>5. ASSUME NEW a \in Addr, NEW c \in Code, WriteCode(a, c)
      PROVE  Coherence'
  BY <1>5, SetCodeCoherent DEF WriteCode
<1>6. ASSUME NEW a \in Addr, TouchAccount(a)
      PROVE  Coherence'
  BY <1>6, <1>a, SameCodeCoherent DEF TouchAccount
<1>7. ASSUME NEW a \in Addr, EvictAccount(a)
      PROVE  Coherence'
  <2>1. UNCHANGED <<pin, trie, store, codes, jstack, dontfetch, dstack>>
    BY <1>7 DEF EvictAccount, journals
  <2>2. \A b \in Addr : cache'[b] # NoAccount => cache'[b] = cache[b]
    BY <1>7 DEF EvictAccount, IInv, TypeOK
  <2>3. CacheCoherent'
    BY <2>1, <2>2 DEF IInv, Coherence, CacheCoherent, View, ViewOf, Journals
  <2>4. QED
    BY <2>1, <2>3, CacheOnlyCoherent
<1>8. ASSUME NEW l \in Loc, GetStorage(l)
      PROVE  Coherence'
  <2>1. UNCHANGED <<pin, trie, codes, jstack, dstack, cache>>
    BY <1>8 DEF GetStorage
  <2>2. \A m \in Loc \ dontfetch' : store'[m] = Zero
    BY <1>8, <1>b, SetStorageUnmarkedZero DEF GetStorage, IInv, Coherence, MarksMatchStorage
  <2>3. QED
    BY <2>1, <2>2, StorageOnlyCoherent
<1>9. ASSUME NEW l \in Loc, NEW w \in Word, WriteStorage(l, w)
      PROVE  Coherence'
  BY <1>9, SetStorageUnmarkedZero, StorageOnlyCoherent DEF WriteStorage
<1>10. ASSUME UNCHANGED <<pin, trie, store, codes, jstack, dontfetch, dstack, cache>>
       PROVE  Coherence'
  BY <1>10, <1>same, CacheOnlyCoherent
<1>11. ASSUME NEW l \in Loc, GetOriginalStorage(l)
       PROVE  Coherence'
  BY <1>10, <1>11 DEF GetOriginalStorage, journals
<1>12. CASE FetchFails
  BY <1>10, <1>12 DEF FetchFails, journals
<1>13. CASE PrefetchInvalid
  <2>1. CacheCoherent'
    BY <1>13 DEF PrefetchInvalid, CacheCoherent, NoAccounts
  <2>2. QED
    BY <1>13, <2>1, CacheOnlyCoherent DEF PrefetchInvalid, journals
<1>14. CASE NodeMines
  BY <1>10, <1>14 DEF NodeMines, journals
<1>15. CASE UNCHANGED vars
  BY <1>10, <1>15 DEF vars
<1>16. QED
  BY <1>1, <1>2, <1>3, <1>4, <1>5, <1>6, <1>7, <1>8, <1>9, <1>11, <1>12, <1>13, <1>14, <1>15,
     PrefetchCoherent, RecordCoherent, DiscardCoherent, CommitCoherent DEF Next

\* Types and coherence together are inductive.
LEMMA Invariance == Spec => []IInv
<1>1. Init => IInv
  BY InitType, InitCoherent DEF IInv
<1>2. IInv /\ [Next]_vars => IInv'
  BY NextType, NextCoherent DEF IInv
<1>3. QED
  BY <1>1, <1>2, PTL DEF Spec

\* Whatever sequence of reads, writes, prefetches, evictions, reverts and commits
\* has run, the unjournalled account cache agrees with the journals.
THEOREM CacheIsCoherent == Spec => []CacheCoherent
<1>1. IInv => CacheCoherent
  BY DEF IInv, Coherence
<1>2. QED
  BY <1>1, Invariance, PTL

\* get_code never replaces locally deployed code by the chain's, at any depth of
\* open checkpoints.
THEOREM LocalCodeIsNeverMissing == Spec => []LocalCodeNeverMissing
<1>1. IInv => LocalCodeNeverMissing
  BY DEF IInv, Coherence
<1>2. QED
  BY <1>1, Invariance, PTL

\* A slot without a "don't fetch" mark holds no local value, at any depth of
\* open checkpoints.
THEOREM MarksAlwaysMatch == Spec => []MarksMatchStorage
<1>1. IInv => MarksMatchStorage
  BY DEF IInv, Coherence
<1>2. QED
  BY <1>1, Invariance, PTL

(***************************************************************************)
(* The view                                                                *)
(***************************************************************************)

\* Journals, marks and block determine the view ...
LEMMA SameView ==
  ASSUME UNCHANGED <<pin, trie, store, codes, dontfetch>>
  PROVE  View' = View
  BY DEF View, ViewOf, Journals

\* ... and their checkpoints the saved views.
LEMMA SameSavedViews ==
  ASSUME UNCHANGED <<pin, jstack, dstack>>
  PROVE  SavedViews' = SavedViews
  BY DEF SavedViews, ViewOf

\* Writing an account shows at its address and nowhere else.
LEMMA SetAccountView ==
  ASSUME TypeOK, NEW a \in Addr, NEW acct \in Account, SetAccount(a, acct),
         UNCHANGED <<pin, store, dontfetch>>
  PROVE  View' = [View EXCEPT !.acct[a] = acct]
<1>1. acct # NoAccount /\ trie \in [Addr -> Account \union {NoAccount}]
  BY ConstantsAssumption DEF TypeOK, Journals, JournalsType
<1>2. trie' = [trie EXCEPT ![a] = acct]
  BY DEF SetAccount
<1> DEFINE A(t, p) == [b \in Addr |-> IF t[b] # NoAccount THEN t[b] ELSE Chain[p].acct[b]]
           S(s, d, p) == [l \in Loc |-> IF l \in d THEN s[l] ELSE Chain[p].store[l]]
<1>3. View = [acct |-> A(trie, pin), store |-> S(store, dontfetch, pin)]
  BY DEF View, ViewOf, Journals
<1>4. View' = [acct |-> A(trie', pin), store |-> S(store, dontfetch, pin)]
  BY DEF View, ViewOf, Journals
<1>5. A(trie', pin) = [A(trie, pin) EXCEPT ![a] = acct]
  BY <1>1, <1>2
<1> HIDE DEF A, S
<1>6. QED
  BY <1>3, <1>4, <1>5

\* Writing a slot shows there and nowhere else.
LEMMA SetStorageView ==
  ASSUME TypeOK, NEW l \in Loc, NEW w \in Word, SetStorage(l, w), UNCHANGED <<pin, trie>>
  PROVE  View' = [View EXCEPT !.store[l] = w]
<1>1. store \in [Loc -> Word]
  BY DEF TypeOK, Journals, JournalsType
<1>2. store' = [store EXCEPT ![l] = w] /\ dontfetch' = dontfetch \union {l}
  BY DEF SetStorage
<1> DEFINE A(t, p) == [b \in Addr |-> IF t[b] # NoAccount THEN t[b] ELSE Chain[p].acct[b]]
           S(s, d, p) == [m \in Loc |-> IF m \in d THEN s[m] ELSE Chain[p].store[m]]
<1>3. View = [acct |-> A(trie, pin), store |-> S(store, dontfetch, pin)]
  BY DEF View, ViewOf, Journals
<1>4. View' = [acct |-> A(trie, pin), store |-> S(store', dontfetch', pin)]
  BY DEF View, ViewOf, Journals
<1>5. S(store', dontfetch', pin) = [S(store, dontfetch, pin) EXCEPT ![l] = w]
  BY <1>1, <1>2
<1> HIDE DEF A, S
<1>6. QED
  BY <1>3, <1>4, <1>5

\* The view has an account at every address and a value in every slot.
LEMMA ViewType ==
  ASSUME TypeOK
  PROVE  View \in World
<1>1. trie \in [Addr -> Account \union {NoAccount}] /\ store \in [Loc -> Word]
  BY DEF TypeOK, Journals, JournalsType
<1>2. /\ \A a \in Addr : Chain[pin].acct[a] \in Account
      /\ \A l \in Loc : Chain[pin].store[l] \in Word
  BY RemoteType DEF TypeOK
<1>3. QED
  BY <1>1, <1>2 DEF View, ViewOf, Journals, World

\* Writing back what is shown changes nothing.
LEMMA WriteBack ==
  ASSUME TypeOK
  PROVE  /\ \A a \in Addr : [View EXCEPT !.acct[a] = View.acct[a]] = View
         /\ \A l \in Loc : [View EXCEPT !.store[l] = View.store[l]] = View
  BY ViewType DEF World

\* The prefetch does not show.
LEMMA PrefetchView ==
  ASSUME IInv, NEW as \in SUBSET Addr, NEW ls \in SUBSET (as \X Slot), Prefetch(as, ls)
  PROVE  View' = View
<1> DEFINE new == {a \in as : NeedsAccount(a)}
           fresh == {l \in ls : ~HaveStorage(l)}
           A(t, p) == [b \in Addr |-> IF t[b] # NoAccount THEN t[b] ELSE Chain[p].acct[b]]
           S(s, d, p) == [m \in Loc |-> IF m \in d THEN s[m] ELSE Chain[p].store[m]]
<1>1. /\ trie' = [a \in Addr |-> IF a \in new THEN Remote.acct[a] ELSE trie[a]]
      /\ store' = [l \in Loc |-> IF l \in fresh THEN Remote.store[l] ELSE store[l]]
      /\ dontfetch' = dontfetch \union fresh
      /\ pin' = pin
  BY DEF Prefetch
<1>2. Remote = Chain[pin]
  BY DEF Remote, BlockId
<1>3. \A a \in new : trie[a] = NoAccount
  BY DEF NeedsAccount, AccountHelper
<1>4. \A l \in fresh : l \notin dontfetch
  BY DEF HaveStorage
<1>5. A(trie', pin) = A(trie, pin)
  BY <1>1, <1>2, <1>3
<1>6. S(store', dontfetch', pin) = S(store, dontfetch, pin)
  BY <1>1, <1>2, <1>4
<1>7. View = [acct |-> A(trie, pin), store |-> S(store, dontfetch, pin)]
  BY DEF View, ViewOf, Journals
<1>8. View' = [acct |-> A(trie', pin), store |-> S(store', dontfetch', pin)]
  BY <1>1 DEF View, ViewOf, Journals
<1>9. QED
  BY <1>5, <1>6, <1>7, <1>8

\* Fetching missing code or a missing slot writes back what is shown.
LEMMA GetCodeRemoteView ==
  ASSUME IInv, NEW a \in Addr, GetCodeRemote(a)
  PROVE  /\ View' = View
         /\ Remote.acct[a].code = View.acct[a].code
<1>1. /\ GetAccount(a) = View.acct[a] /\ GetAccount(a) \in Account
      /\ Remote = Chain[pin]
  BY GetAccountIsView, GetAccountType DEF IInv, Coherence, Remote, BlockId
<1>2. Remote.acct[a].code = GetAccount(a).code
  BY <1>1, CodeKnown DEF GetCodeRemote, HaveCode, IInv, Coherence
<1>3. CASE SetCode(a, Remote.acct[a].code)
  <2>1. [GetAccount(a) EXCEPT !.code = Remote.acct[a].code] = GetAccount(a)
    BY <1>1, <1>2 DEF Account
  <2>2. SetAccount(a, GetAccount(a)) /\ UNCHANGED <<pin, store, dontfetch>>
    BY <1>3, <2>1 DEF SetCode
  <2>3. View' = [View EXCEPT !.acct[a] = View.acct[a]]
    BY <2>2, <1>1, SetAccountView DEF IInv
  <2>4. QED
    BY <2>3, <1>1, <1>2, WriteBack DEF IInv
<1>4. CASE UNCHANGED <<pin, head, journals, jstack, dontfetch, dstack>>
  BY <1>4, <1>1, <1>2, SameView DEF journals
<1>5. QED
  BY <1>3, <1>4 DEF GetCodeRemote

\* get_storage stores the fetched value in a slot that already shows it.
LEMMA GetStorageView ==
  ASSUME IInv, NEW l \in Loc, GetStorage(l)
  PROVE  View' = View /\ out' = <<"storage", l, View.store[l]>>
<1>1. View.store[l] = IF l \in dontfetch THEN store[l] ELSE Chain[pin].store[l]
  BY DEF View, ViewOf, Journals
<1>2. Remote = Chain[pin] /\ Chain[pin].store[l] \in Word
  BY RemoteType DEF IInv, TypeOK
<1>3. UNCHANGED <<pin, trie, codes>>
  BY DEF GetStorage
<1>4. CASE HaveStorage(l)
  BY <1>1, <1>3, <1>4, SameView DEF GetStorage, HaveStorage
<1>5. CASE ~HaveStorage(l)
  <2>1. SetStorage(l, View.store[l]) /\ out' = <<"storage", l, View.store[l]>>
    BY <1>1, <1>2, <1>5 DEF GetStorage, HaveStorage
  <2>2. View.store[l] \in Word
    BY <1>1, <1>2, <1>5 DEF HaveStorage
  <2>3. View' = [View EXCEPT !.store[l] = View.store[l]]
    BY <2>1, <2>2, <1>3, SetStorageView DEF IInv
  <2>4. QED
    BY <2>1, <2>3, WriteBack DEF IInv
<1>6. QED
  BY <1>4, <1>5

\* touch_account writes back the account that is shown.
LEMMA TouchAccountView ==
  ASSUME IInv, NEW a \in Addr, TouchAccount(a)
  PROVE  View' = View
<1>1. GetAccount(a) = View.acct[a] /\ GetAccount(a) \in Account
  BY GetAccountIsView, GetAccountType DEF IInv, Coherence
<1>2. View' = [View EXCEPT !.acct[a] = View.acct[a]]
  BY <1>1, SetAccountView DEF TouchAccount, IInv
<1>3. QED
  BY <1>2, WriteBack DEF IInv

\* No step but a write or a revert changes the view.
LEMMA QuietStep == IInv /\ Quiet => View' = View
<1> SUFFICES ASSUME IInv, Quiet PROVE View' = View
  OBVIOUS
<1>1. ASSUME NEW a \in Addr, \/ GetBalance(a) \/ GetNonce(a) \/ AccountExists(a)
                              \/ GetCodeLocal(a) \/ EvictAccount(a)
      PROVE  View' = View
  BY <1>1, SameView DEF GetBalance, GetNonce, AccountExists, GetCodeLocal, EvictAccount, journals
<1>2. ASSUME NEW l \in Loc, GetOriginalStorage(l)
      PROVE  View' = View
  BY <1>2, SameView DEF GetOriginalStorage, journals
<1>3. ASSUME PrefetchInvalid \/ FetchFails \/ Record \/ NodeMines \/ \E c \in 1..MaxDepth : Commit(c)
      PROVE  View' = View
  BY <1>3, SameView DEF PrefetchInvalid, FetchFails, Record, NodeMines, Commit, journals
<1>4. QED
  BY <1>1, <1>2, <1>3, GetCodeRemoteView, TouchAccountView, GetStorageView, PrefetchView DEF Quiet

\* Reads that fetch, prefetches (also rolled back ones), evictions, commits and
\* the growth of the chain never change what a forked environment shows.
THEOREM QuietStepsAreInvisible == Spec => QuietStepsKeepView
<1>1. IInv /\ [Next]_vars => [Quiet => View' = View]_vars
  BY QuietStep
<1>2. QED
  BY <1>1, Invariance, PTL DEF Spec, QuietStepsKeepView

(***************************************************************************)
(* Refinement                                                              *)
(***************************************************************************)

\* A new AccountDBFork shows the pinned block, as the eager copy does.
LEMMA InitRefines == Init => Promise!Init
<1> SUFFICES ASSUME Init PROVE Promise!Init
  OBVIOUS
<1>1. TypeOK
  BY InitType
<1>2. Chain[pin] \in World
  BY <1>1, RemoteType DEF TypeOK
<1>3. View = Chain[pin]
  <2>1. View = [acct |-> [a \in Addr |-> Chain[pin].acct[a]],
                store |-> [l \in Loc |-> Chain[pin].store[l]]]
    BY DEF View, ViewOf, Journals, Init, NoAccounts
  <2>2. QED
    BY <2>1, <1>2 DEF World
<1>4. SavedViews = <<>>
  <2>1. jstack = <<>>
    BY DEF Init
  <2>2. QED
    BY <2>1 DEF SavedViews
<1>5. QED
  BY <1>2, <1>3, <1>4 DEF Init, Promise!Init, Promise!World, World, Promise!Error

\* record saves the view.
LEMMA RecordRefines ==
  ASSUME IInv, Record
  PROVE  Promise!Record
<1>1. /\ jstack \in Seq(JournalsType) /\ dstack \in Seq(SUBSET Loc)
      /\ Len(dstack) = Len(jstack) /\ Journals \in JournalsType /\ dontfetch \in SUBSET Loc
  BY DEF IInv, TypeOK
<1>2. jstack' = Append(jstack, Journals) /\ dstack' = Append(dstack, dontfetch)
  BY DEF Record, Journals
<1>3. /\ Len(jstack) \in Nat /\ Len(jstack') = Len(jstack) + 1
      /\ jstack'[Len(jstack) + 1] = Journals
      /\ dstack'[Len(jstack) + 1] = dontfetch
      /\ \A i \in 1..Len(jstack) : jstack'[i] = jstack[i] /\ dstack'[i] = dstack[i]
  BY <1>1, <1>2, AppendProperties, LenProperties
<1>4. View' = View /\ pin' = pin /\ out' = out
  BY SameView DEF Record, journals
<1> DEFINE n == Len(jstack)
           new == SavedViews'
<1>5. new = [i \in 1..(n + 1) |-> ViewOf(jstack'[i], dstack'[i])]
  BY <1>3, <1>4 DEF SavedViews, ViewOf
<1>6. \A i \in 1..n : new[i] = SavedViews[i]
  BY <1>3, <1>5 DEF SavedViews
<1>7. new[n + 1] = View
  BY <1>3, <1>5 DEF View
<1>8. Append(SavedViews, View) = [i \in 1..(n + 1) |-> IF i = n + 1 THEN View ELSE SavedViews[i]]
  BY <1>3 DEF SavedViews
<1>9. new = Append(SavedViews, View)
  <2>1. new = [i \in 1..(n + 1) |-> new[i]]
    BY <1>5
  <2> HIDE DEF new, n
  <2>2. n \in Nat
    BY <1>3 DEF n
  <2>3. \A i \in 1..(n + 1) : new[i] = IF i = n + 1 THEN View ELSE SavedViews[i]
    BY <1>6, <1>7, <2>2
  <2>4. QED
    BY <2>1, <2>3, <1>8
<1>10. QED
  BY <1>4, <1>9 DEF Promise!Record

\* Cutting the checkpoints cuts the saved views at the same place.
LEMMA CutSavedViews ==
  ASSUME TypeOK, NEW c \in 1..Len(jstack), pin' = pin,
         jstack' = SubSeq(jstack, 1, c - 1), dstack' = SubSeq(dstack, 1, c - 1)
  PROVE  /\ c \in 1..Len(SavedViews)
         /\ SavedViews' = SubSeq(SavedViews, 1, c - 1)
<1>1. /\ Len(jstack') = c - 1 /\ Len(jstack) \in Nat
      /\ \A i \in 1..(c - 1) : /\ i \in 1..Len(jstack)
                               /\ jstack'[i] = jstack[i] /\ dstack'[i] = dstack[i]
  BY CutStacks, LenProperties DEF TypeOK
<1>2. SavedViews' = [i \in 1..(c - 1) |-> ViewOf(jstack[i], dstack[i])]
  BY <1>1 DEF SavedViews, ViewOf
<1>3. Len(SavedViews) = Len(jstack)
  BY <1>1 DEF SavedViews
<1>4. SubSeq(SavedViews, 1, c - 1) = [i \in 1..(c - 1) |-> SavedViews[i]]
  BY <1>1, <1>3
<1>5. QED
  BY <1>1, <1>2, <1>3, <1>4 DEF SavedViews

\* discard restores the view saved at the checkpoint.
LEMMA DiscardRefines ==
  ASSUME IInv, NEW c, Discard(c)
  PROVE  Promise!Discard
<1>1. c \in 1..Len(jstack) /\ pin' = pin /\ out' = out
  BY DEF Discard
<1>2. c \in 1..Len(SavedViews) /\ SavedViews' = SubSeq(SavedViews, 1, c - 1)
  BY <1>1, CutSavedViews DEF Discard, IInv
<1>3. View' = SavedViews[c]
  BY <1>1 DEF Discard, View, ViewOf, SavedViews, Journals
<1>4. QED
  BY <1>1, <1>2, <1>3 DEF Promise!Discard

\* commit drops saved views and keeps the current one.
LEMMA CommitRefines ==
  ASSUME IInv, NEW c, Commit(c)
  PROVE  Promise!Commit
<1>1. c \in 1..Len(jstack) /\ pin' = pin /\ out' = out /\ View' = View
  BY SameView DEF Commit, journals
<1>2. c \in 1..Len(SavedViews) /\ SavedViews' = SubSeq(SavedViews, 1, c - 1)
  BY <1>1, CutSavedViews DEF Commit, IInv
<1>3. QED
  BY <1>1, <1>2 DEF Promise!Commit

\* Every step of the database is a step of the eager copy, or shows nothing.
LEMMA NextRefines == IInv /\ [Next]_vars => [Promise!Next]_(Promise!vars)
<1> SUFFICES ASSUME IInv, [Next]_vars PROVE [Promise!Next]_(Promise!vars)
  OBVIOUS
<1> USE DEF Promise!Next
<1>a. ASSUME NEW a \in Addr
      PROVE  GetAccount(a) = View.acct[a] /\ GetAccount(a) \in Account
  BY <1>a, GetAccountIsView, GetAccountType DEF IInv, Coherence
<1>1. ASSUME NEW a \in Addr, GetBalance(a) \/ GetNonce(a) \/ GetCodeLocal(a)
      PROVE  Promise!Next
  <2>1. UNCHANGED <<pin, View, SavedViews>>
    BY <1>1, SameView, SameSavedViews DEF GetBalance, GetNonce, GetCodeLocal, journals
  <2>2. \/ out' = <<"balance", a, View.acct[a].balance>>
        \/ out' = <<"nonce", a, View.acct[a].nonce>>
        \/ out' = <<"code", a, View.acct[a].code>>
    BY <1>1, <1>a DEF GetBalance, GetNonce, GetCodeLocal
  <2>3. QED
    BY <2>1, <2>2 DEF Promise!Read
<1>2. ASSUME NEW a \in Addr, AccountExists(a)
      PROVE  Promise!Next
  <2> DEFINE b == trie[a] # NoAccount \/ GetAccount(a).balance > 0 \/ GetAccount(a).nonce > 0
  <2>1. UNCHANGED <<pin, View, SavedViews>>
    BY <1>2, SameView, SameSavedViews DEF AccountExists, journals
  <2>2. b \in BOOLEAN /\ out' = <<"exists", a, b>>
    BY <1>2 DEF AccountExists
  <2>3. Promise!Nonempty(View.acct[a]) => b
    BY <1>a DEF Promise!Nonempty
  <2> HIDE DEF b
  <2>4. QED
    BY <2>1, <2>2, <2>3 DEF Promise!Read
<1>3. ASSUME NEW a \in Addr, GetCodeRemote(a)
      PROVE  Promise!Next
  <2>1. UNCHANGED <<pin, View, SavedViews>>
    BY <1>3, GetCodeRemoteView, SameSavedViews DEF GetCodeRemote, SetCode
  <2>2. \/ out' = <<"code", a, View.acct[a].code>>
        \/ out' = Promise!Error
    BY <1>3, GetCodeRemoteView DEF GetCodeRemote, Promise!Error
  <2>3. QED
    BY <2>1, <2>2 DEF Promise!Read, Promise!Fail
<1>4. ASSUME NEW a \in Addr, NEW acct \in Account, SetAccount(a, acct),
             UNCHANGED <<pin, store, jstack, dontfetch, dstack, out>>
      PROVE  Promise!Next
  <2>1. View' = [View EXCEPT !.acct[a] = acct]
    BY <1>4, SetAccountView DEF IInv
  <2>2. UNCHANGED <<pin, SavedViews, out>>
    BY <1>4, SameSavedViews
  <2>3. QED
    BY <2>1, <2>2 DEF Promise!WriteAccount
<1>5. ASSUME NEW a \in Addr, NEW b \in Balance, SetBalance(a, b)
      PROVE  Promise!Next
  <2>1. [GetAccount(a) EXCEPT !.balance = b] \in Account
    BY <1>a DEF Account
  <2>2. QED
    BY <1>4, <1>5, <2>1 DEF SetBalance
<1>6. ASSUME NEW a \in Addr, IncrementNonce(a)
      PROVE  Promise!Next
  <2>1. [GetAccount(a) EXCEPT !.nonce = @ + 1] \in Account
    BY <1>6, <1>a, ConstantsAssumption DEF IncrementNonce, Account
  <2>2. QED
    BY <1>4, <1>6, <2>1 DEF IncrementNonce
<1>7. ASSUME NEW a \in Addr, NEW c \in Code, WriteCode(a, c)
      PROVE  Promise!Next
  <2>1. [GetAccount(a) EXCEPT !.code = c] \in Account
    BY <1>a DEF Account
  <2>2. QED
    BY <1>4, <1>7, <2>1 DEF WriteCode, SetCode
<1>8. ASSUME NEW a \in Addr, TouchAccount(a)
      PROVE  Promise!Next
  BY <1>4, <1>8, <1>a DEF TouchAccount
<1>9. ASSUME NEW a \in Addr, EvictAccount(a)
      PROVE  UNCHANGED Promise!vars
  BY <1>9, SameView, SameSavedViews DEF EvictAccount, journals, Promise!vars
<1>10. ASSUME NEW l \in Loc, GetStorage(l)
       PROVE  Promise!Next
  <2>1. UNCHANGED <<pin, View, SavedViews>> /\ out' = <<"storage", l, View.store[l]>>
    BY <1>10, GetStorageView, SameSavedViews DEF GetStorage
  <2>2. QED
    BY <2>1 DEF Promise!Read
<1>11. ASSUME NEW l \in Loc, GetOriginalStorage(l)
       PROVE  Promise!Next
  <2>1. /\ UNCHANGED <<pin, View, SavedViews>>
        /\ out' = <<"original", l, Chain[pin].store[l]>>
    BY <1>11, SameView, SameSavedViews DEF GetOriginalStorage, journals, Remote, BlockId
  <2>2. QED
    BY <2>1 DEF Promise!Read
<1>12. ASSUME NEW l \in Loc, NEW w \in Word, WriteStorage(l, w)
       PROVE  Promise!Next
  <2>1. View' = [View EXCEPT !.store[l] = w]
    BY <1>12, SetStorageView DEF IInv, WriteStorage
  <2>2. UNCHANGED <<pin, SavedViews, out>>
    BY <1>12, SameSavedViews DEF WriteStorage
  <2>3. QED
    BY <2>1, <2>2 DEF Promise!WriteStorage
<1>13. CASE FetchFails
  BY <1>13, SameView, SameSavedViews DEF FetchFails, journals, Promise!Fail, Promise!Error
<1>14. ASSUME NEW as \in SUBSET Addr, NEW ls \in SUBSET (as \X Slot), Prefetch(as, ls)
       PROVE  UNCHANGED Promise!vars
  BY <1>14, PrefetchView, SameSavedViews DEF Prefetch, Promise!vars
<1>15. CASE PrefetchInvalid
  BY <1>15, SameView, SameSavedViews DEF PrefetchInvalid, journals, Promise!vars
<1>16. CASE NodeMines
  BY <1>16, SameView, SameSavedViews DEF NodeMines, journals, Promise!vars
<1>17. CASE UNCHANGED vars
  BY <1>17, SameView, SameSavedViews DEF vars, Promise!vars
<1>18. QED
  BY <1>1, <1>2, <1>3, <1>5, <1>6, <1>7, <1>8, <1>9, <1>10, <1>11, <1>12, <1>13, <1>14, <1>15,
     <1>16, <1>17, RecordRefines, DiscardRefines, CommitRefines DEF Next

\* The lazily fetching, caching and journalling account database implements an
\* eager private copy of the chain at the pinned block.
THEOREM Refinement == Spec => ImplementsForkView
<1>1. Init => Promise!Init
  BY InitRefines
<1>2. IInv /\ [Next]_vars => [Promise!Next]_(Promise!vars)
  BY NextRefines
<1>3. QED
  BY <1>1, <1>2, Invariance, PTL DEF Spec, ImplementsForkView, Promise!Spec
=============================================================================

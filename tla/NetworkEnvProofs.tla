-------------------------- MODULE NetworkEnvProofs --------------------------
(***************************************************************************)
(* Proofs about NetworkEnv, for chains of any length, any number of        *)
(* anchors and reverts, and any node that mines what and when it likes.    *)
(***************************************************************************)
EXTENDS NetworkEnv, Integers, SequenceTheorems, TLAPS

(***************************************************************************)
(* The inductive invariant                                                 *)
(***************************************************************************)

Place == {"idle", "simulate", "eth_call", "nonce", "estimate", "send", "wait", "trace"}
OpType == [kind: Kind \union {None}, val: Value \union {None}, gas: BOOLEAN,
           seen: ContentType \union {None}, nonce: Nonce, tx: TxType \union {None}]
AnchorType == [snap: Nat \ {0}, block: 1..MaxBlock]

Types ==
  /\ chain \in Seq(BlockType) /\ Newest \in 1..MaxBlock
  /\ pool \subseteq TxType
  /\ snaps \in Seq(1..MaxBlock)
  /\ pin \in 1..MaxBlock /\ dirty \in Value \union {None}
  /\ cache \in [1..MaxBlock -> ContentType \union {None}]
  /\ anchors \in Seq(AnchorType) /\ reverts \in Nat
  /\ pc \in Place /\ op \in OpType
  /\ saved \subseteq Nonce

\* What a running operation has got so far.
Progress ==
  /\ pc # "idle" => op.kind \in Kind /\ op.val \in Value /\ result.said # "ok"
  /\ pc \in {"nonce", "estimate", "send", "wait", "trace"} => Sends
  /\ pc = "eth_call" => ~Sends
  /\ pc \in {"wait", "trace"} => op.tx = Tx
  /\ pc = "trace" => \E b \in MinedIn : chain[b].ok

\* The transaction it waits for is pending, mined, or has lost its nonce.
Sent ==
  pc \in {"wait", "trace"} =>
    op.tx \in pool \/ MinedIn # {} \/ op.nonce < Last(chain).nonce

\* Nonces are used in order: a transaction uses its own, and no block below it did.
Nonces ==
  /\ \A b \in 1..Newest : chain[b].nonce < b
  /\ \A b, c \in 1..Newest : b <= c => chain[b].nonce <= chain[c].nonce
  /\ \A b \in 1..Newest : chain[b].tx # None =>
       /\ chain[b].nonce = chain[b].tx.nonce + 1
       /\ \A c \in 1..(b - 1) : chain[c].nonce <= chain[b].tx.nonce

\* What the fork shows after a call that was reported as done.
Shown ==
  result.said = "ok" =>
    /\ result.node = "ok"
    /\ reverts = 0 /\ result.kind = "call" =>
         /\ pin <= Newest /\ dirty = None
         /\ chain[pin].tx # None /\ chain[pin].ok /\ chain[pin].tx.val = result.val

IInv == /\ Types /\ Progress /\ Sent /\ Nonces /\ AnchorsNest
        /\ CacheFollowsChain /\ RecordedIsDeployed /\ Shown

(***************************************************************************)
(* Lemmas                                                                  *)
(***************************************************************************)

\* The parts of what the node and the environment exchange.
LEMMA Parts ==
  /\ \A b \in BlockType : /\ b.val \in Value /\ b.nonce \in Nonce /\ b.tx \in TxType \union {None}
                          /\ b.ok \in BOOLEAN /\ Content(b) \in ContentType
  /\ \A t \in TxType : t.nonce \in Nonce /\ t.val \in Value /\ t.kind \in {"call", "deploy"}
  /\ \A c \in ContentType : c.val \in Value /\ c.nonce \in Nonce
                            /\ \A v \in Value : [c EXCEPT !.val = v] \in ContentType
                            /\ [c EXCEPT !.val = c.val] = c
  /\ \A v \in Value, n \in Nonce, t \in TxType \union {None}, o \in BOOLEAN :
       [val |-> v, nonce |-> n, tx |-> t, ok |-> o] \in BlockType
  BY DEF BlockType, TxType, ContentType, Content

\* None is not a transaction.
LEMMA NoTransaction == None \notin TxType
  BY NetworkAssumption DEF TxType, Nonce

\* The parts of an operation, and what becomes of it.
LEMMA Operations ==
  ASSUME NEW o \in OpType
  PROVE  /\ o.kind \in Kind \union {None} /\ o.val \in Value \union {None} /\ o.gas \in BOOLEAN
         /\ o.seen \in ContentType \union {None} /\ o.nonce \in Nonce /\ o.tx \in TxType \union {None}
         /\ \A c \in ContentType : LET p == [o EXCEPT !.seen = c]
                                   IN p \in OpType /\ p.kind = o.kind /\ p.val = o.val /\ p.tx = o.tx
         /\ \A n \in Nonce : LET p == [o EXCEPT !.nonce = n]
                             IN p \in OpType /\ p.kind = o.kind /\ p.val = o.val /\ p.tx = o.tx
         /\ \A t \in TxType : LET p == [o EXCEPT !.tx = t]
                              IN p \in OpType /\ p.kind = o.kind /\ p.val = o.val
                                 /\ p.nonce = o.nonce /\ p.tx = t
  BY DEF OpType

\* The operation that runs before any begins, and the one that Begin makes.
LEMMA NewOperations ==
  /\ NoOp \in OpType
  /\ \A kind \in Kind, val \in Value, gas \in BOOLEAN :
       LET p == [NoOp EXCEPT !.kind = kind, !.val = val, !.gas = gas]
       IN p \in OpType /\ p.kind = kind /\ p.val = val
<1>1. 0 \in Nonce
  BY NetworkAssumption DEF Nonce
<1>2. NoOp \in OpType
  BY <1>1 DEF NoOp, OpType
<1>3. ASSUME NEW kind \in Kind, NEW val \in Value, NEW gas \in BOOLEAN
      PROVE  LET p == [NoOp EXCEPT !.kind = kind, !.val = val, !.gas = gas]
             IN p \in OpType /\ p.kind = kind /\ p.val = val
  BY <1>1 DEF NoOp, OpType
<1> QED
  BY <1>2, <1>3

\* The newest block.
LEMMA TopBlock ==
  ASSUME Types
  PROVE  /\ Newest \in Nat \ {0} /\ Newest \in 1..Newest /\ Last(chain) = chain[Newest]
         /\ Last(chain) \in BlockType /\ \A b \in 1..Newest : chain[b] \in BlockType
<1>1. chain \in Seq(BlockType) /\ Newest \in 1..MaxBlock
  BY DEF Types
<1>2. Newest \in Nat \ {0} /\ Newest \in 1..Newest
  BY <1>1, NetworkAssumption
<1>3. \A b \in 1..Newest : chain[b] \in BlockType
  BY <1>1, ElementOfSeq DEF Newest
<1>4. Last(chain) = chain[Newest]
  BY DEF Last, Newest
<1> QED
  BY <1>2, <1>3, <1>4

\* A block is added.
LEMMA Longer ==
  ASSUME Types, NEW b \in BlockType, chain' = Append(chain, b)
  PROVE  /\ chain' \in Seq(BlockType) /\ Newest' = Newest + 1 /\ chain'[Newest + 1] = b
         /\ Last(chain)' = b
         /\ \A i \in 1..Newest : chain'[i] = chain[i]
         /\ 1..(Newest + 1) = 1..Newest \union {Newest + 1}
<1>1. chain \in Seq(BlockType) /\ Newest \in Nat \ {0}
  BY TopBlock DEF Types
<1>2. /\ chain' \in Seq(BlockType) /\ Len(chain') = Len(chain) + 1 /\ chain'[Len(chain) + 1] = b
      /\ \A i \in 1..Len(chain) : chain'[i] = chain[i]
  BY <1>1, AppendProperties
<1>3. Last(chain)' = b
  BY <1>2 DEF Last
<1>4. 1..(Newest + 1) = 1..Newest \union {Newest + 1}
  BY <1>1
<1> QED
  BY <1>2, <1>3, <1>4 DEF Newest

(***************************************************************************)
(* The node mines a block                                                  *)
(***************************************************************************)

\* There is room for one more block and one more nonce.
LEMMA Room ==
  ASSUME Types, Nonces, NEW b, Extend(b)
  PROVE  Newest + 1 \in 1..MaxBlock /\ Last(chain).nonce \in Nat /\ Last(chain).nonce + 1 \in Nonce
<1>1. Newest < MaxBlock
  BY TopBlock, NetworkAssumption DEF Extend
<1>2. Last(chain).nonce \in Nonce /\ Last(chain).nonce < Newest /\ Newest \in Nat \ {0}
  BY TopBlock, Parts DEF Nonces
<1> QED
  BY <1>1, <1>2, NetworkAssumption DEF Nonce

\* A new block with a proper nonce leaves everything below it as it was.
LEMMA Growth ==
  ASSUME IInv, NEW b \in BlockType, Extend(b), pool' \subseteq pool,
         b.nonce \in {Last(chain).nonce, Last(chain).nonce + 1},
         b.tx # None => b.nonce = Last(chain).nonce + 1 /\ b.tx.nonce = Last(chain).nonce,
         pc \in {"wait", "trace"} /\ op.tx \in pool =>
           op.tx \in pool' \/ op.tx = b.tx \/ op.nonce < b.nonce,
         UNCHANGED <<snaps, pin, dirty, cache, anchors, reverts, pc, op, result, saved>>
  PROVE  IInv'
<1>1. Types /\ Progress /\ Sent /\ Nonces /\ AnchorsNest
      /\ CacheFollowsChain /\ RecordedIsDeployed /\ Shown
  BY DEF IInv
<1> DEFINE n == Newest
<1>2. /\ chain' \in Seq(BlockType) /\ Newest' = n + 1 /\ chain'[n + 1] = b
      /\ Last(chain)' = b /\ 1..(n + 1) = 1..n \union {n + 1}
      /\ \A i \in 1..n : chain'[i] = chain[i]
  BY <1>1, Longer DEF Extend
<1>3. /\ n \in Nat \ {0} /\ n + 1 \in 1..MaxBlock
      /\ Last(chain) = chain[n] /\ chain[n].nonce \in Nat /\ chain[n].nonce < n
      /\ n \in 1..n /\ \A i \in 1..n : chain[i] \in BlockType /\ chain[i].nonce \in Nat
  BY <1>1, TopBlock, Room, Parts DEF Nonces, Nonce
<1> HIDE DEF n
<1>4. Types'
  BY <1>1, <1>2, <1>3 DEF Types
<1>5. MinedIn \subseteq MinedIn' /\ (op.tx = b.tx => n + 1 \in MinedIn')
  <2>1. MinedIn = {i \in 1..n : chain[i].tx = op.tx}
    BY DEF MinedIn, n
  <2>2. MinedIn' = {i \in 1..(n + 1) : chain'[i].tx = op.tx}
    BY <1>2 DEF MinedIn
  <2> QED
    BY <1>2, <1>3, <2>1, <2>2
<1>6. Progress'
  <2>1. pc = "trace" => \E i \in MinedIn' : chain'[i].ok
    <3> HAVE pc = "trace"
    <3>1. PICK i \in MinedIn : chain[i].ok
      BY <1>1 DEF Progress
    <3>2. i \in 1..n
      BY DEF MinedIn, n
    <3> QED
      BY <1>2, <1>5, <3>1, <3>2
  <2> QED
    BY <1>1, <2>1 DEF Progress, Sends, Tx
<1>7. Sent'
  <2> SUFFICES ASSUME pc \in {"wait", "trace"}
               PROVE  op.tx \in pool' \/ MinedIn' # {} \/ op.nonce < b.nonce
    BY <1>2 DEF Sent
  <2>1. CASE op.tx \in pool
    BY <1>5, <2>1
  <2>2. CASE MinedIn # {}
    BY <1>5, <2>2
  <2>3. CASE op.nonce < Last(chain).nonce
    <3>1. op \in OpType /\ op.nonce \in Nat
      BY <1>1, Operations DEF Types, Nonce
    <3>2. b.nonce \in Nat /\ chain[n].nonce \in Nat
      BY <1>3, Parts DEF Nonce
    <3>3. b.nonce >= chain[n].nonce /\ op.nonce < chain[n].nonce
      BY <1>3, <2>3, <3>2
    <3> QED
      BY <3>1, <3>2, <3>3
  <2> QED
    BY <1>1, <2>1, <2>2, <2>3 DEF Sent
<1>8. Nonces'
  <2>1. \A i \in 1..n : chain[i].nonce <= chain[n].nonce /\ chain[i].nonce < i
    BY <1>1, <1>3 DEF Nonces, n
  <2>2. b.nonce \in Nat /\ b.nonce >= chain[n].nonce /\ b.nonce <= chain[n].nonce + 1
    BY <1>3, Parts DEF Nonce
  <2>3. \A i \in 1..(n + 1) : chain'[i].nonce < i
    <3>1. b.nonce < n + 1
      BY <1>3, <2>2
    <3> QED
      BY <1>2, <2>1, <3>1
  <2>4. ASSUME NEW i \in 1..(n + 1), NEW j \in 1..(n + 1), i <= j
        PROVE  chain'[i].nonce <= chain'[j].nonce
    <3>1. CASE j \in 1..n
      <4>1. i \in 1..n
        BY <1>3, <2>4, <3>1
      <4> QED
        BY <1>1, <1>2, <2>4, <3>1, <4>1 DEF Nonces, n
    <3>2. CASE i \in 1..n /\ j = n + 1
      BY <1>2, <1>3, <2>1, <2>2, <3>2
    <3>3. CASE i = n + 1 /\ j = n + 1
      BY <1>2, <2>2, <3>3
    <3> QED
      BY <1>2, <1>3, <2>4, <3>1, <3>2, <3>3
  <2>5. ASSUME NEW i \in 1..(n + 1), chain'[i].tx # None
        PROVE  /\ chain'[i].nonce = chain'[i].tx.nonce + 1
               /\ \A j \in 1..(i - 1) : chain'[j].nonce <= chain'[i].tx.nonce
    <3>1. CASE i \in 1..n
      <4>1. \A j \in 1..(i - 1) : j \in 1..n
        BY <1>3, <3>1
      <4> QED
        BY <1>1, <1>2, <2>5, <3>1, <4>1 DEF Nonces, n
    <3>2. CASE i = n + 1
      <4>1. i - 1 = n
        BY <1>3, <3>2
      <4> QED
        BY <1>2, <1>3, <2>1, <2>5, <3>2, <4>1
    <3> QED
      BY <1>2, <3>1, <3>2
  <2> QED
    BY <1>2, <2>3, <2>4, <2>5 DEF Nonces
<1>9. AnchorsNest'
  <2>1. \A i \in 1..Len(snaps) : snaps[i] \in 1..MaxBlock
    BY <1>1, ElementOfSeq DEF Types
  <2>2. \A i, j \in 1..Len(snaps) : i <= j => snaps[i] <= snaps[j] /\ snaps[j] <= n
    BY <1>1 DEF AnchorsNest, n
  <2>3. \A i, j \in 1..Len(snaps) : i <= j => snaps[i] <= snaps[j] /\ snaps[j] <= n + 1
    BY <1>3, <2>1, <2>2
  <2> QED
    BY <1>1, <1>2, <2>3 DEF AnchorsNest
<1>10. CacheFollowsChain'
  <2> SUFFICES ASSUME reverts = 0, NEW i \in 1..MaxBlock, cache[i] # None
               PROVE  i <= n + 1 /\ cache[i] = Content(chain'[i])
    BY <1>2 DEF CacheFollowsChain, Content
  <2>1. i <= n /\ cache[i] = Content(chain[i])
    BY <1>1 DEF CacheFollowsChain, n
  <2> QED
    BY <1>2, <1>3, <2>1
<1>11. RecordedIsDeployed'
  <2> SUFFICES ASSUME reverts = 0, NEW k \in saved
               PROVE  \E i \in 1..(n + 1) : chain'[i].tx # None /\ chain'[i].ok
                         /\ chain'[i].tx.nonce = k /\ chain'[i].tx.kind = "deploy"
    BY <1>2 DEF RecordedIsDeployed
  <2>1. PICK i \in 1..n : chain[i].tx # None /\ chain[i].ok
                         /\ chain[i].tx.nonce = k /\ chain[i].tx.kind = "deploy"
    BY <1>1 DEF RecordedIsDeployed, n
  <2> QED
    BY <1>2, <2>1
<1>12. Shown'
  <2> SUFFICES ASSUME result.said = "ok"
               PROVE  /\ result.node = "ok"
                      /\ reverts = 0 /\ result.kind = "call" =>
                           /\ pin <= n + 1 /\ dirty = None
                           /\ chain'[pin].tx # None /\ chain'[pin].ok /\ chain'[pin].tx.val = result.val
    BY <1>2 DEF Shown
  <2>1. pin \in 1..MaxBlock
    BY <1>1 DEF Types
  <2>2. /\ result.node = "ok"
        /\ reverts = 0 /\ result.kind = "call" =>
             /\ pin <= n /\ dirty = None
             /\ chain[pin].tx # None /\ chain[pin].ok /\ chain[pin].tx.val = result.val
    BY <1>1 DEF Shown, n
  <2>3. pin <= n => chain'[pin] = chain[pin] /\ pin <= n + 1
    BY <1>2, <1>3, <2>1
  <2> QED
    BY <2>2, <2>3
<1> QED
  BY <1>4, <1>6, <1>7, <1>8, <1>9, <1>10, <1>11, <1>12 DEF IInv

\* A pending transaction is mined, or others' blocks are.
LEMMA MineStep ==
  ASSUME IInv, (\E tx \in pool : Mine(tx)) \/ (\E v \in Value, own \in BOOLEAN : MineForeign(v, own))
  PROVE  IInv'
<1>1. Types /\ Nonces /\ Progress
  BY DEF IInv
<1> DEFINE top == Last(chain)
<1>2. top \in BlockType /\ top.val \in Value /\ top.nonce \in Nonce
  BY <1>1, TopBlock, Parts
<1>3. pool \subseteq TxType /\ op \in OpType /\ op.nonce \in Nat
  BY <1>1, Operations DEF Types, Nonce
<1>4. pc \in {"wait", "trace"} => op.tx.nonce = op.nonce
  BY <1>1 DEF Progress, Tx
<1>5. CASE \E tx \in pool : Mine(tx)
  <2>1. PICK tx \in pool : Mine(tx)
    BY <1>5
  <2> DEFINE ok == Succeeds(tx.val, top.val)
             b == [val |-> IF ok /\ tx.kind = "call" THEN tx.val ELSE top.val,
                   nonce |-> top.nonce + 1, tx |-> tx, ok |-> ok]
  <2>2. /\ tx.nonce = top.nonce /\ Extend(b) /\ pool' = {t \in pool : t.nonce > tx.nonce}
        /\ UNCHANGED <<snaps, pin, dirty, cache, anchors, reverts, pc, op, result, saved>>
    BY <2>1 DEF Mine, fork, env
  <2>3. tx \in TxType /\ tx.val \in Value /\ tx.nonce \in Nat /\ ok \in BOOLEAN
    BY <1>3, Parts DEF Succeeds, Nonce
  <2>4. top.nonce + 1 \in Nonce /\ top.nonce \in Nat
    BY <1>1, <2>2, Room
  <2>5. b.nonce = top.nonce + 1 /\ b.tx = tx
    OBVIOUS
  <2>6. b \in BlockType
    BY <1>2, <2>3, <2>4, Parts
  <2> HIDE DEF b
  <2>7. pc \in {"wait", "trace"} /\ op.tx \in pool => op.tx \in pool' \/ op.nonce < b.nonce
    <3> SUFFICES ASSUME pc \in {"wait", "trace"}, op.tx \in pool, ~(op.tx.nonce > tx.nonce)
                 PROVE  op.nonce < b.nonce
      BY <2>2
    <3> QED
      BY <1>3, <1>4, <2>2, <2>3, <2>4, <2>5
  <2> HIDE DEF top
  <2>8. b.nonce \in {top.nonce, top.nonce + 1} /\ b.tx.nonce = top.nonce /\ pool' \subseteq pool
    BY <2>2, <2>5
  <2> QED
    BY <2>2, <2>5, <2>6, <2>7, <2>8, Growth DEF top
<1>6. CASE \E v \in Value, own \in BOOLEAN : MineForeign(v, own)
  <2>1. PICK v \in Value, own \in BOOLEAN : MineForeign(v, own)
    BY <1>6
  <2> DEFINE nonce == IF own THEN top.nonce + 1 ELSE top.nonce
             b == [val |-> v, nonce |-> nonce, tx |-> None, ok |-> TRUE]
  <2>2. /\ Extend(b) /\ pool' = {t \in pool : t.nonce >= nonce}
        /\ UNCHANGED <<snaps, pin, dirty, cache, anchors, reverts, pc, op, result, saved>>
    BY <2>1 DEF MineForeign, fork, env
  <2>3. top.nonce + 1 \in Nonce /\ top.nonce \in Nat
    BY <1>1, <2>2, Room
  <2>4. nonce \in Nonce /\ nonce \in Nat /\ nonce \in {top.nonce, top.nonce + 1}
    BY <1>2, <2>3
  <2> HIDE DEF nonce
  <2>5. b.nonce = nonce /\ b.tx = None
    OBVIOUS
  <2>6. b \in BlockType
    BY <2>4, Parts
  <2> HIDE DEF b
  <2>7. pc \in {"wait", "trace"} /\ op.tx \in pool => op.tx \in pool' \/ op.nonce < b.nonce
    <3> SUFFICES ASSUME pc \in {"wait", "trace"}, op.tx \in pool, ~(op.tx.nonce >= nonce)
                 PROVE  op.nonce < b.nonce
      BY <2>2
    <3> QED
      BY <1>3, <1>4, <2>4, <2>5
  <2> HIDE DEF top
  <2>8. b.nonce \in {top.nonce, top.nonce + 1} /\ pool' \subseteq pool
    BY <2>2, <2>4, <2>5
  <2> QED
    BY <2>2, <2>5, <2>6, <2>7, <2>8, Growth DEF top
<1> QED
  BY <1>5, <1>6

(***************************************************************************)
(* An operation takes a step                                               *)
(***************************************************************************)

\* What an operation leaves alone.
LEMMA Quiet ==
  ASSUME IInv, UNCHANGED <<chain, snaps, anchors, reverts>>,
         Types', Progress', Sent', CacheFollowsChain', RecordedIsDeployed', Shown'
  PROVE  IInv'
<1>1. Nonces' /\ AnchorsNest'
  BY DEF IInv, Nonces, AnchorsNest, Newest
<1> QED
  BY <1>1 DEF IInv

\* An operation ends and has not been done, or was no call.
LEMMA Ending ==
  ASSUME IInv, NEW said, NEW answer, End(said, answer), pool' \subseteq TxType,
         said # "ok" \/ (answer = "ok" /\ op.kind # "call"),
         UNCHANGED <<chain, snaps, pin, dirty, cache, anchors, reverts, saved>>
  PROVE  IInv'
<1>1. /\ pc' = "idle" /\ op' = NoOp
      /\ result'.said = said /\ result'.node = answer /\ result'.kind = op.kind
  BY DEF End
<1>2. Types'
  BY <1>1, NewOperations DEF IInv, Types, Place, Newest
<1>3. Progress' /\ Sent'
  BY <1>1 DEF Progress, Sent
<1>4. CacheFollowsChain' /\ RecordedIsDeployed'
  BY DEF IInv, CacheFollowsChain, RecordedIsDeployed, Newest, Content
<1>5. Shown'
  BY <1>1 DEF Shown
<1> QED
  BY <1>2, <1>3, <1>4, <1>5, Quiet

\* An operation goes on, whatever it reads or sends.
LEMMA GoingOn ==
  ASSUME IInv, pc # "idle", op' \in OpType, op'.kind = op.kind, op'.val = op.val,
         pc' \in {"simulate", "eth_call", "nonce", "estimate", "send"},
         pc' \in {"nonce", "estimate", "send"} => Sends, pc' = "eth_call" => ~Sends,
         dirty' \in Value \union {None}, cache' \in [1..MaxBlock -> ContentType \union {None}],
         CacheFollowsChain', UNCHANGED <<chain, pool, snaps, pin, anchors, reverts, result, saved>>
  PROVE  IInv'
<1>1. Types'
  BY DEF IInv, Types, Place, Newest
<1>2. Progress'
  <2>1. op.kind \in Kind /\ op.val \in Value /\ result.said # "ok"
    BY DEF IInv, Progress
  <2> QED
    BY <2>1 DEF Progress, Sends
<1>3. Sent'
  BY DEF Sent
<1>4. RecordedIsDeployed'
  BY DEF IInv, RecordedIsDeployed, Newest
<1>5. Shown'
  BY DEF IInv, Progress, Shown
<1> QED
  BY <1>1, <1>2, <1>3, <1>4, <1>5, Quiet

\* What a local execution reads.
LEMMA Reading ==
  ASSUME IInv, CanRead
  PROVE  /\ Remote \in ContentType /\ Local \in ContentType
         /\ cache' = [cache EXCEPT ![pin] = Remote] /\ UNCHANGED <<chain, reverts>> =>
              cache' \in [1..MaxBlock -> ContentType \union {None}] /\ CacheFollowsChain'
<1>1. /\ pin \in 1..MaxBlock /\ cache \in [1..MaxBlock -> ContentType \union {None}]
      /\ dirty \in Value \union {None} /\ Types
  BY DEF IInv, Types
<1>2. Remote \in ContentType
  <2>1. CASE cache[pin] # None
    BY <1>1, <2>1 DEF Remote
  <2>2. CASE cache[pin] = None
    <3>1. pin \in 1..Newest
      BY <1>1, <2>2, TopBlock, NetworkAssumption DEF CanRead
    <3>2. Content(chain[pin]) \in ContentType
      BY <1>1, <3>1, TopBlock, Parts
    <3> QED
      BY <2>2, <3>2 DEF Remote
  <2> QED
    BY <2>1, <2>2
<1>3. Local \in ContentType
  <2>1. CASE dirty # None
    <3>1. Local = [Remote EXCEPT !.val = dirty]
      BY <2>1 DEF Local
    <3> HIDE DEF Remote
    <3> QED
      BY <1>1, <1>2, <2>1, <3>1, Parts
  <2>2. CASE dirty = None
    <3>1. Local = [Remote EXCEPT !.val = Remote.val]
      BY <2>2 DEF Local
    <3> HIDE DEF Remote
    <3> QED
      BY <1>2, <3>1, Parts
  <2> QED
    BY <2>1, <2>2
<1>4. ASSUME cache' = [cache EXCEPT ![pin] = Remote], UNCHANGED <<chain, reverts>>
      PROVE  cache' \in [1..MaxBlock -> ContentType \union {None}] /\ CacheFollowsChain'
  <2>1. cache' \in [1..MaxBlock -> ContentType \union {None}]
    BY <1>1, <1>2, <1>4
  <2>2. ASSUME reverts = 0, NEW b \in 1..MaxBlock, cache'[b] # None
        PROVE  b <= Newest /\ cache'[b] = Content(chain[b])
    <3>1. CASE b = pin
      <4>1. cache'[b] = Remote
        BY <1>1, <1>4, <3>1
      <4>2. CASE cache[pin] # None
        BY <2>2, <3>1, <4>1, <4>2 DEF Remote, IInv, CacheFollowsChain
      <4>3. CASE cache[pin] = None
        BY <3>1, <4>1, <4>3 DEF Remote, CanRead
      <4> QED
        BY <4>2, <4>3
    <3>2. CASE b # pin
      <4>1. cache'[b] = cache[b]
        BY <1>1, <1>4, <3>2
      <4> QED
        BY <2>2, <4>1 DEF IInv, CacheFollowsChain
    <3> QED
      BY <3>1, <3>2
  <2> QED
    BY <1>4, <2>1, <2>2 DEF CacheFollowsChain, Newest, Content
<1> QED
  BY <1>2, <1>3, <1>4

\* An operation begins, simulates, and asks the node.
LEMMA BeginStep ==
  ASSUME IInv, NEW kind \in Kind, NEW val \in Value, NEW gas \in BOOLEAN, Begin(kind, val, gas)
  PROVE  IInv'
<1>1. /\ pc' = "simulate" /\ op' = [NoOp EXCEPT !.kind = kind, !.val = val, !.gas = gas]
      /\ IF kind = "view" THEN UNCHANGED fork ELSE pin' = Newest /\ dirty' = None
      /\ result' = NoResult
      /\ UNCHANGED <<chain, pool, snaps, cache, anchors, reverts, saved>>
  BY DEF Begin, Goto, node, env
<1>2. op' \in OpType /\ op'.kind = kind /\ op'.val = val /\ result'.said # "ok"
  <2> DEFINE p == [NoOp EXCEPT !.kind = kind, !.val = val, !.gas = gas]
  <2>1. p \in OpType /\ p.kind = kind /\ p.val = val
    BY NewOperations, Zenon
  <2>2. op' = p /\ result' = NoResult
    BY <1>1
  <2>3. NoResult.said # "ok"
    BY DEF NoResult
  <2> HIDE DEF p
  <2> QED
    BY <2>1, <2>2, <2>3
<1>3. pin' \in 1..MaxBlock /\ dirty' \in Value \union {None}
  BY <1>1 DEF IInv, Types, fork
<1>4. Types'
  BY <1>1, <1>2, <1>3 DEF IInv, Types, Place, Newest
<1>5. Progress' /\ Sent' /\ Shown'
  BY <1>1, <1>2 DEF Progress, Sent, Shown
<1>6. CacheFollowsChain' /\ RecordedIsDeployed'
  BY <1>1 DEF IInv, CacheFollowsChain, RecordedIsDeployed, Newest, Content
<1> QED
  BY <1>1, <1>4, <1>5, <1>6, Quiet

\* The local computation fills the cache with the block it runs on.
LEMMA SimulateStep ==
  ASSUME IInv, Simulate \/ DeployReverts \/ SimulateFails
  PROVE  IInv'
<1>1. CASE Simulate
  <2>1. /\ pc = "simulate" /\ CanRead /\ cache' = [cache EXCEPT ![pin] = Remote]
        /\ op' = [op EXCEPT !.seen = Local] /\ dirty' \in {op.val, dirty}
        /\ pc' = IF Sends THEN "nonce" ELSE "eth_call"
        /\ UNCHANGED <<chain, pool, snaps, pin, anchors, reverts, result, saved>>
    BY <1>1 DEF Simulate, Goto, node, env
  <2>2. Local \in ContentType
    BY <2>1, Reading
  <2>3. op \in OpType /\ op.val \in Value /\ dirty \in Value \union {None}
    BY <2>1 DEF IInv, Types, Progress
  <2>4. cache' \in [1..MaxBlock -> ContentType \union {None}] /\ CacheFollowsChain'
    BY <2>1, Reading
  <2> HIDE DEF Local
  <2>5. op' \in OpType /\ op'.kind = op.kind /\ op'.val = op.val
    BY <2>1, <2>2, <2>3, Operations
  <2> QED
    BY <2>1, <2>3, <2>4, <2>5, GoingOn
<1>2. CASE DeployReverts
  <2>1. /\ pc = "simulate" /\ CanRead /\ cache' = [cache EXCEPT ![pin] = Remote]
        /\ pc' = "idle" /\ op' = NoOp /\ result'.said = "reverted"
        /\ UNCHANGED <<chain, pool, snaps, pin, dirty, anchors, reverts, saved>>
    BY <1>2 DEF DeployReverts, End, node, fork, env
  <2>2. cache' \in [1..MaxBlock -> ContentType \union {None}] /\ CacheFollowsChain'
    BY <2>1, Reading
  <2>3. Types'
    BY <2>1, <2>2, NewOperations DEF IInv, Types, Place, Newest
  <2>4. Progress' /\ Sent' /\ Shown'
    BY <2>1 DEF Progress, Sent, Shown
  <2>5. RecordedIsDeployed'
    BY <2>1 DEF IInv, RecordedIsDeployed, Newest
  <2> QED
    BY <2>1, <2>2, <2>3, <2>4, <2>5, Quiet
<1>3. CASE SimulateFails
  <2>1. /\ End("raised", "unknown")
        /\ UNCHANGED <<chain, pool, snaps, pin, dirty, cache, anchors, reverts, saved>>
    BY <1>3 DEF SimulateFails, Raise, node, fork, env
  <2>2. pool' \subseteq TxType
    BY <2>1 DEF IInv, Types
  <2> QED
    BY <2>1, <2>2, Ending
<1> QED
  BY <1>1, <1>2, <1>3

\* eth_call, the nonce, the estimate, and a request that fails.
LEMMA AskStep ==
  ASSUME IInv, EthCall \/ GetNonce \/ EstimateGas \/ RequestFails
  PROVE  IInv'
<1>0. /\ pool \subseteq TxType /\ op \in OpType /\ dirty \in Value \union {None}
      /\ cache \in [1..MaxBlock -> ContentType \union {None}]
      /\ UNCHANGED <<cache, chain, reverts>> => CacheFollowsChain'
  BY DEF IInv, Types, CacheFollowsChain, Newest, Content
<1>1. CASE EthCall
  <2>1. /\ pc = "eth_call"
        /\ End(Verdict, "ok") \/ End("raised", "reverted")
        /\ UNCHANGED <<chain, pool, snaps, pin, dirty, cache, anchors, reverts, saved>>
    BY <1>1 DEF EthCall, node, fork, env
  <2>2. op.kind # "call"
    <3>1. ~Sends
      BY <2>1 DEF IInv, Progress
    <3> QED
      BY <3>1 DEF Sends
  <2> HIDE DEF Verdict
  <2> QED
    BY <1>0, <2>1, <2>2, Ending
<1>2. CASE GetNonce
  <2>1. /\ pc = "nonce" /\ op' = [op EXCEPT !.nonce = Last(chain).nonce]
        /\ pc' \in {"send", "estimate"}
        /\ UNCHANGED <<chain, pool, snaps, pin, dirty, cache, anchors, reverts, result, saved>>
    BY <1>2 DEF GetNonce, Goto, node, fork, env
  <2>2. Last(chain).nonce \in Nonce
    BY TopBlock, Parts DEF IInv
  <2>3. op' \in OpType /\ op'.kind = op.kind /\ op'.val = op.val
    BY <1>0, <2>1, <2>2, Operations
  <2>4. Sends
    BY <2>1 DEF IInv, Progress
  <2> QED
    BY <1>0, <2>1, <2>3, <2>4, GoingOn
<1>3. CASE EstimateGas
  <2>1. /\ pc = "estimate"
        /\ UNCHANGED <<chain, pool, snaps, pin, dirty, cache, anchors, reverts, saved>>
        /\ \/ pc' = "send" /\ UNCHANGED <<op, result>>
           \/ End("reverted", "reverted") \/ End("raised", "reverted")
    BY <1>3 DEF EstimateGas, Goto, node, fork, env
  <2>2. Sends
    BY <2>1 DEF IInv, Progress
  <2>3. CASE pc' = "send" /\ UNCHANGED <<op, result>>
    BY <1>0, <2>1, <2>2, <2>3, GoingOn
  <2>4. CASE End("reverted", "reverted")
    BY <1>0, <2>1, <2>4, Ending
  <2>5. CASE End("raised", "reverted")
    BY <1>0, <2>1, <2>5, Ending
  <2> QED
    BY <2>1, <2>3, <2>4, <2>5
<1>4. CASE RequestFails
  <2>1. /\ End("raised", "unknown")
        /\ UNCHANGED <<chain, pool, snaps, pin, dirty, cache, anchors, reverts, saved>>
    BY <1>4 DEF RequestFails, Raise, node, fork, env
  <2> QED
    BY <1>0, <2>1, Ending
<1> QED
  BY <1>1, <1>2, <1>3, <1>4

\* A transaction is in one block at most.
LEMMA MinedOnce ==
  ASSUME Types, Nonces, op.tx \in TxType, NEW b \in MinedIn, NEW c \in MinedIn
  PROVE  b = c
<1>1. /\ b \in 1..Newest /\ c \in 1..Newest /\ Newest \in Nat \ {0}
      /\ chain[b].tx = op.tx /\ chain[c].tx = op.tx
  BY TopBlock DEF MinedIn
<1>2. op.tx # None /\ op.tx.nonce \in Nat
  BY NoTransaction, Parts DEF Nonce
<1>3. chain[b].nonce = op.tx.nonce + 1 /\ chain[c].nonce = op.tx.nonce + 1
  BY <1>1, <1>2 DEF Nonces
<1>4. \A i, j \in 1..Newest : i < j /\ chain[j].tx = op.tx => chain[i].nonce <= op.tx.nonce
  <2> SUFFICES ASSUME NEW i \in 1..Newest, NEW j \in 1..Newest, i < j, chain[j].tx = op.tx
               PROVE  chain[i].nonce <= op.tx.nonce
    OBVIOUS
  <2>1. i \in 1..(j - 1)
    BY <1>1
  <2> QED
    BY <1>2, <2>1 DEF Nonces
<1>5. ~(b < c) /\ ~(c < b)
  BY <1>1, <1>2, <1>3, <1>4
<1> QED
  BY <1>1, <1>5

\* Sending: the transaction the operation waits for is the one the node has got.
LEMMA SendStep ==
  ASSUME IInv, Send
  PROVE  IInv'
<1>1. /\ pc = "send" /\ pool' \subseteq pool \union {Tx}
      /\ UNCHANGED <<chain, snaps, pin, dirty, cache, anchors, reverts, saved>>
      /\ \/ End("raised", "unknown")
         \/ /\ pool' = pool \union {Tx} /\ pc' = "wait"
            /\ op' = [op EXCEPT !.tx = Tx] /\ UNCHANGED result
  BY DEF Send, Goto, fork, env
<1>2. /\ op \in OpType /\ op.kind \in Kind /\ op.val \in Value /\ Sends /\ result.said # "ok"
  BY <1>1 DEF IInv, Types, Progress
<1>3. Tx \in TxType
  <2>1. op.nonce \in Nonce /\ op.kind \in {"call", "deploy"}
    BY <1>2, Operations DEF Sends
  <2> QED
    BY <1>2, <2>1 DEF Tx, TxType
<1>4. pool' \subseteq TxType
  BY <1>1, <1>3 DEF IInv, Types
<1>5. CASE End("raised", "unknown")
  BY <1>1, <1>4, <1>5, Ending
<1>6. CASE /\ pool' = pool \union {Tx} /\ pc' = "wait"
           /\ op' = [op EXCEPT !.tx = Tx] /\ UNCHANGED result
  <2> DEFINE t == Tx
  <2>1. t \in TxType /\ op' = [op EXCEPT !.tx = t]
    BY <1>3, <1>6
  <2> HIDE DEF t
  <2>2. /\ op' \in OpType /\ op'.kind = op.kind /\ op'.val = op.val
        /\ op'.nonce = op.nonce /\ op'.tx = t
    BY <1>2, <2>1, Operations
  <2>3. Tx' = t
    BY <2>2 DEF Tx, t
  <2>4. Types'
    BY <1>1, <1>4, <1>6, <2>2 DEF IInv, Types, Place, Newest
  <2>5. Progress'
    BY <1>2, <1>6, <2>2, <2>3 DEF Progress, Sends
  <2>6. t \in pool'
    BY <1>6 DEF t
  <2>7. Sent'
    BY <2>2, <2>6 DEF Sent
  <2>8. CacheFollowsChain' /\ RecordedIsDeployed'
    BY <1>1 DEF IInv, CacheFollowsChain, RecordedIsDeployed, Newest, Content
  <2>9. Shown'
    BY <1>2, <1>6 DEF Shown
  <2> QED
    BY <1>1, <2>4, <2>5, <2>7, <2>8, <2>9, Quiet
<1> QED
  BY <1>1, <1>5, <1>6

\* Waiting: an operation is traced only if its transaction did not revert.
LEMMA WaitStep ==
  ASSUME IInv, Wait
  PROVE  IInv'
<1>1. /\ pc = "wait"
      /\ UNCHANGED <<chain, pool, snaps, pin, dirty, cache, anchors, reverts, saved>>
      /\ \/ (\E b \in MinedIn : chain[b].ok) /\ pc' = "trace" /\ UNCHANGED <<op, result>>
         \/ End("raised", "reverted") \/ End("raised", "unknown")
  BY DEF Wait, Goto, node, fork, env
<1>2. pool' \subseteq TxType
  BY <1>1 DEF IInv, Types
<1>3. CASE End("raised", "reverted") \/ End("raised", "unknown")
  BY <1>1, <1>2, <1>3, Ending
<1>4. CASE (\E b \in MinedIn : chain[b].ok) /\ pc' = "trace" /\ UNCHANGED <<op, result>>
  <2>1. /\ op.kind \in Kind /\ op.val \in Value /\ Sends /\ result.said # "ok" /\ op.tx = Tx
    BY <1>1 DEF IInv, Progress
  <2>2. MinedIn' = MinedIn
    BY <1>1, <1>4 DEF MinedIn, Newest
  <2>3. Types'
    BY <1>1, <1>4 DEF IInv, Types, Place, Newest
  <2>4. Progress'
    BY <1>1, <1>4, <2>1, <2>2 DEF Progress, Sends, Tx
  <2>5. Sent'
    BY <1>4, <2>2 DEF Sent
  <2>6. CacheFollowsChain' /\ RecordedIsDeployed'
    BY <1>1 DEF IInv, CacheFollowsChain, RecordedIsDeployed, Newest, Content
  <2>7. Shown'
    BY <1>4, <2>1 DEF Shown
  <2> QED
    BY <1>1, <2>3, <2>4, <2>5, <2>6, <2>7, Quiet
<1> QED
  BY <1>1, <1>3, <1>4

\* The end of an operation: the fork moves to the block of the transaction, which
\* is the only one, and did not revert.
LEMMA FinishStep ==
  ASSUME IInv, Finish
  PROVE  IInv'
<1>1. PICK b \in MinedIn : pin' = b
  BY DEF Finish, ResetFork
<1>2. /\ pc = "trace" /\ dirty' = None
      /\ UNCHANGED <<chain, pool, snaps, cache, anchors, reverts>>
      /\ IF op.kind = "deploy" /\ op.seen.nonce # op.nonce
         THEN End("raised", "ok") /\ UNCHANGED saved
         ELSE /\ End(Verdict, "ok")
              /\ saved' = IF op.kind = "deploy" THEN saved \union {op.nonce} ELSE saved
  BY DEF Finish, ResetFork, node, env
<1>3. /\ op \in OpType /\ op.kind \in Kind /\ op.val \in Value /\ Sends /\ op.tx = Tx
      /\ \E c \in MinedIn : chain[c].ok
  BY <1>2 DEF IInv, Types, Progress
<1>4. /\ op.nonce \in Nonce /\ op.kind \in {"call", "deploy"}
      /\ op.tx.val = op.val /\ op.tx.nonce = op.nonce /\ op.tx.kind = op.kind
  BY <1>3, Operations DEF Sends, Tx
<1>5. op.tx \in TxType /\ op.tx # None
  <2>1. op.tx = [nonce |-> op.nonce, val |-> op.val, kind |-> op.kind]
    BY <1>3 DEF Tx
  <2>2. op.tx \in TxType
    BY <1>3, <1>4, <2>1 DEF TxType
  <2> QED
    BY <2>2, NoTransaction
<1>6. chain[b].ok /\ chain[b].tx = op.tx /\ b \in 1..Newest
  <2>1. PICK c \in MinedIn : chain[c].ok
    BY <1>3
  <2>2. b = c
    BY <1>5, MinedOnce DEF IInv
  <2> QED
    BY <2>1, <2>2 DEF MinedIn
<1>7. /\ pc' = "idle" /\ op' = NoOp /\ result'.node = "ok"
      /\ result'.kind = op.kind /\ result'.val = op.val
  BY <1>2 DEF End
<1>8. saved' = saved \/ (op.kind = "deploy" /\ saved' = saved \union {op.nonce})
  BY <1>2
<1>9. Types'
  <2>1. b \in 1..MaxBlock
    <3>1. Newest \in Nat /\ Newest \in 1..MaxBlock
      BY TopBlock DEF IInv, Types
    <3> QED
      BY <1>6, <3>1, NetworkAssumption
  <2>2. saved' \subseteq Nonce
    BY <1>4, <1>8 DEF IInv, Types
  <2> QED
    BY <1>1, <1>2, <1>7, <2>1, <2>2, NewOperations DEF IInv, Types, Place, Newest
<1>10. Progress' /\ Sent'
  BY <1>7 DEF Progress, Sent
<1>11. CacheFollowsChain'
  BY <1>2 DEF IInv, CacheFollowsChain, Newest, Content
<1>12. RecordedIsDeployed'
  <2> SUFFICES ASSUME reverts = 0, NEW n \in saved'
               PROVE  \E c \in 1..Newest : chain[c].tx # None /\ chain[c].ok
                         /\ chain[c].tx.nonce = n /\ chain[c].tx.kind = "deploy"
    BY <1>2 DEF RecordedIsDeployed, Newest
  <2>1. CASE n \in saved
    BY <2>1 DEF IInv, RecordedIsDeployed
  <2>2. CASE n = op.nonce /\ op.kind = "deploy"
    BY <1>4, <1>5, <1>6, <2>2
  <2> QED
    BY <1>8, <2>1, <2>2
<1>13. Shown'
  <2>1. Newest' = Newest /\ Newest \in Nat
    BY <1>2, TopBlock DEF IInv, Newest
  <2>2. b <= Newest
    BY <1>6, <2>1
  <2> QED
    BY <1>1, <1>2, <1>4, <1>5, <1>6, <1>7, <2>1, <2>2 DEF Shown
<1> QED
  BY <1>2, <1>9, <1>10, <1>11, <1>12, <1>13, Quiet

(***************************************************************************)
(* Anchors                                                                 *)
(***************************************************************************)

\* The beginning of a sequence.
LEMMA Beginning ==
  ASSUME NEW S, NEW s \in Seq(S), NEW k \in 0..Len(s)
  PROVE  /\ SubSeq(s, 1, k) \in Seq(S) /\ Len(SubSeq(s, 1, k)) = k
         /\ \A i \in 1..k : SubSeq(s, 1, k)[i] = s[i]
<1>1. k \in Nat /\ 1 \in Int /\ Len(s) \in Nat /\ 1..k \subseteq 1..Len(s)
  BY LenProperties
<1>2. \A i \in 1..k : s[i] \in S
  BY <1>1, ElementOfSeq
<1>3. /\ SubSeq(s, 1, k) \in Seq(S)
      /\ Len(SubSeq(s, 1, k)) = IF 1 <= k THEN k - 1 + 1 ELSE 0
      /\ \A i \in 1..(k - 1 + 1) : SubSeq(s, 1, k)[i] = s[1 + i - 1]
  BY <1>1, <1>2, SubSeqProperties
<1>4. (IF 1 <= k THEN k - 1 + 1 ELSE 0) = k /\ k - 1 + 1 = k /\ \A i \in 1..k : 1 + i - 1 = i
  BY <1>1
<1> QED
  BY <1>3, <1>4

\* A new anchor's snapshot is above the others' and of the newest block.
LEMMA EnterStep ==
  ASSUME IInv, EnterAnchor
  PROVE  IInv'
<1> DEFINE a == [snap |-> Len(snaps) + 1, block |-> pin]
           m == Len(snaps)
           k == Len(anchors)
           n == Newest
<1>1. /\ snaps' = Append(snaps, n) /\ anchors' = Append(anchors, a) /\ pc = "idle"
      /\ UNCHANGED <<chain, pool, pin, dirty, cache, reverts, pc, op, result, saved>>
  BY DEF EnterAnchor, fork
<1>2. /\ snaps \in Seq(1..MaxBlock) /\ m \in Nat /\ anchors \in Seq(AnchorType) /\ k \in Nat
      /\ n \in 1..MaxBlock /\ n \in Nat
  BY TopBlock, LenProperties DEF IInv, Types
<1>3. a \in AnchorType /\ a.snap = m + 1
  BY <1>2 DEF IInv, Types, AnchorType
<1> HIDE DEF a
<1>4. /\ snaps' \in Seq(1..MaxBlock) /\ Len(snaps') = m + 1 /\ snaps'[m + 1] = n
      /\ \A i \in 1..m : snaps'[i] = snaps[i]
  BY <1>1, <1>2, AppendProperties
<1>5. /\ anchors' \in Seq(AnchorType) /\ Len(anchors') = k + 1 /\ anchors'[k + 1] = a
      /\ \A i \in 1..k : anchors'[i] = anchors[i]
  BY <1>1, <1>2, <1>3, AppendProperties
<1>6. Newest' = n
  BY <1>1 DEF Newest
<1>7. /\ \A i \in 1..k : anchors[i].snap <= m /\ anchors[i].snap \in Nat
      /\ \A i, j \in 1..k : i < j => anchors[i].snap < anchors[j].snap
      /\ \A i, j \in 1..m : i <= j => snaps[i] <= snaps[j] /\ snaps[j] <= n
      /\ \A i \in 1..m : snaps[i] \in Nat
  <2>1. \A i \in 1..k : anchors[i] \in AnchorType
    BY <1>2, ElementOfSeq
  <2>2. \A i \in 1..m : snaps[i] \in 1..MaxBlock
    BY <1>2, ElementOfSeq
  <2> QED
    BY <2>1, <2>2, NetworkAssumption DEF IInv, AnchorsNest, AnchorType
<1> HIDE DEF m, k, n
<1>8. ASSUME NEW i \in 1..(k + 1)
      PROVE  anchors'[i].snap <= m + 1
  <2>1. CASE i \in 1..k
    <3>1. anchors'[i].snap = anchors[i].snap /\ anchors[i].snap <= m /\ anchors[i].snap \in Nat
      BY <1>5, <1>7, <2>1
    <3> QED
      BY <1>2, <3>1
  <2>2. CASE i = k + 1
    BY <1>2, <1>3, <1>5, <2>2
  <2> QED
    BY <1>2, <2>1, <2>2
<1>9. ASSUME NEW i \in 1..(k + 1), NEW j \in 1..(k + 1), i < j
      PROVE  anchors'[i].snap < anchors'[j].snap
  <2>1. i \in 1..k
    BY <1>2, <1>9
  <2>2. CASE j \in 1..k
    BY <1>5, <1>7, <1>9, <2>1, <2>2
  <2>3. CASE j = k + 1
    <3>1. anchors'[j].snap = m + 1 /\ anchors'[i].snap = anchors[i].snap
      BY <1>3, <1>5, <2>1, <2>3
    <3> QED
      BY <1>2, <1>7, <2>1, <3>1
  <2> QED
    BY <1>2, <2>2, <2>3
<1>10. ASSUME NEW i \in 1..(m + 1), NEW j \in 1..(m + 1), i <= j
       PROVE  snaps'[i] <= snaps'[j] /\ snaps'[j] <= n
  <2>1. CASE j \in 1..m
    <3>1. i \in 1..m
      BY <1>2, <1>10, <2>1
    <3> QED
      BY <1>4, <1>7, <1>10, <2>1, <3>1
  <2>2. CASE j = m + 1 /\ i \in 1..m
    <3>1. snaps[i] <= n
      BY <1>2, <1>7, <2>2
    <3> QED
      BY <1>2, <1>4, <2>2, <3>1
  <2>3. CASE j = m + 1 /\ i = m + 1
    BY <1>2, <1>4, <2>3
  <2> QED
    BY <1>2, <2>1, <2>2, <2>3
<1>11. AnchorsNest'
  BY <1>4, <1>5, <1>6, <1>8, <1>9, <1>10 DEF AnchorsNest
<1>12. Types'
  BY <1>1, <1>4, <1>5, <1>6 DEF IInv, Types
<1>13. Progress' /\ Sent'
  BY <1>1 DEF Progress, Sent
<1>14. Nonces' /\ CacheFollowsChain' /\ RecordedIsDeployed' /\ Shown'
  BY <1>1 DEF IInv, Nonces, CacheFollowsChain, RecordedIsDeployed, Shown, Newest, Content
<1> QED
  BY <1>11, <1>12, <1>13, <1>14 DEF IInv

\* Going back to the snapshot of the innermost anchor leaves a chain, and the
\* snapshots of the outer anchors.
LEMMA Reverting ==
  ASSUME IInv, anchors # <<>>, EvmRevert(Last(anchors).snap), anchors' = Front(anchors)
  PROVE  /\ chain' \in Seq(BlockType) /\ Newest' \in 1..MaxBlock /\ snaps' \in Seq(1..MaxBlock)
         /\ pool' \subseteq TxType /\ Last(anchors).block \in 1..MaxBlock
         /\ Nonces' /\ AnchorsNest'
<1> DEFINE m == Len(snaps)
           k == Len(anchors)
           n == Newest
           id == anchors[k].snap
<1>1. /\ snaps \in Seq(1..MaxBlock) /\ m \in Nat /\ anchors \in Seq(AnchorType) /\ k \in Nat \ {0}
      /\ n \in 1..MaxBlock /\ n \in Nat /\ chain \in Seq(BlockType) /\ Len(chain) = n
  BY TopBlock, LenProperties, EmptySeq DEF IInv, Types, Newest
<1>2. /\ \A i \in 1..k : anchors[i] \in AnchorType
      /\ \A i \in 1..m : snaps[i] \in 1..MaxBlock /\ snaps[i] \in Nat
  BY <1>1, ElementOfSeq, NetworkAssumption
<1>3. /\ \A i \in 1..k : anchors[i].snap <= m /\ anchors[i].snap \in Nat \ {0}
      /\ \A i, j \in 1..k : i < j => anchors[i].snap < anchors[j].snap
      /\ \A i, j \in 1..m : i <= j => snaps[i] <= snaps[j] /\ snaps[j] <= n
  BY <1>2 DEF IInv, AnchorsNest, AnchorType
<1>4. Last(anchors) = anchors[k] /\ anchors' = SubSeq(anchors, 1, k - 1)
  BY DEF Last, Front
<1>5. /\ chain' = SubSeq(chain, 1, snaps[id]) /\ snaps' = SubSeq(snaps, 1, id - 1) /\ pool' = {}
  BY <1>4 DEF EvmRevert
<1>6. k \in 1..k /\ id \in 1..m /\ id \in Nat \ {0} /\ k - 1 \in 0..k /\ id - 1 \in 0..m
  BY <1>1, <1>3
<1> DEFINE t == snaps[id]
<1> HIDE DEF id, n, m, k
<1>7. t \in 1..MaxBlock /\ t \in Nat \ {0} /\ t <= n /\ t \in 0..n
  <2>1. t \in 1..MaxBlock /\ t <= n
    BY <1>2, <1>3, <1>6
  <2> HIDE DEF t
  <2> QED
    BY <1>1, <2>1, NetworkAssumption
<1>8. Last(anchors).block \in 1..MaxBlock
  BY <1>2, <1>4, <1>6 DEF AnchorType, k
<1> HIDE DEF t
<1>9. chain' \in Seq(BlockType) /\ Newest' = t /\ \A i \in 1..t : chain'[i] = chain[i]
  BY <1>1, <1>5, <1>7, Beginning DEF Newest, t
<1>10. /\ snaps' \in Seq(1..MaxBlock) /\ Len(snaps') = id - 1
       /\ \A i \in 1..(id - 1) : snaps'[i] = snaps[i]
  BY <1>1, <1>5, <1>6, Beginning DEF m
<1>11. Len(anchors') = k - 1 /\ \A i \in 1..(k - 1) : anchors'[i] = anchors[i]
  <2> DEFINE l == k - 1
  <2>1. l \in 0..Len(anchors) /\ anchors' = SubSeq(anchors, 1, l)
    BY <1>4, <1>6 DEF k
  <2> HIDE DEF l
  <2>2. Len(anchors') = l /\ \A i \in 1..l : anchors'[i] = anchors[i]
    BY <1>1, <2>1, Beginning
  <2> QED
    BY <2>2 DEF l
<1>12. Nonces'
  <2>1. 1..t \subseteq 1..n /\ \A b \in 1..t : 1..(b - 1) \subseteq 1..t
    BY <1>1, <1>7
  <2>2. /\ \A b \in 1..n : chain[b].nonce < b
        /\ \A b, c \in 1..n : b <= c => chain[b].nonce <= chain[c].nonce
        /\ \A b \in 1..n : chain[b].tx # None =>
             /\ chain[b].nonce = chain[b].tx.nonce + 1
             /\ \A c \in 1..(b - 1) : chain[c].nonce <= chain[b].tx.nonce
    BY DEF IInv, Nonces, n
  <2>3. \A b \in 1..t : chain'[b].nonce < b
    BY <1>9, <2>1, <2>2
  <2>4. \A b, c \in 1..t : b <= c => chain'[b].nonce <= chain'[c].nonce
    BY <1>9, <2>1, <2>2
  <2>5. \A b \in 1..t : chain'[b].tx # None =>
          /\ chain'[b].nonce = chain'[b].tx.nonce + 1
          /\ \A c \in 1..(b - 1) : chain'[c].nonce <= chain'[b].tx.nonce
    BY <1>9, <2>1, <2>2
  <2> QED
    BY <1>9, <2>3, <2>4, <2>5 DEF Nonces
<1>13. AnchorsNest'
  <2>1. /\ 1..(k - 1) \subseteq 1..k /\ \A i \in 1..(k - 1) : i < k
        /\ 1..(id - 1) \subseteq 1..m /\ \A i \in 1..(id - 1) : i <= id
    BY <1>1, <1>6
  <2>2. \A i \in 1..(k - 1) : anchors'[i].snap <= id - 1
    <3> SUFFICES ASSUME NEW i \in 1..(k - 1) PROVE anchors'[i].snap <= id - 1
      OBVIOUS
    <3>1. anchors[i].snap < anchors[k].snap /\ anchors[i].snap \in Nat
      BY <1>3, <1>6, <2>1
    <3> QED
      BY <1>6, <1>11, <3>1 DEF id
  <2>3. \A i, j \in 1..(k - 1) : i < j => anchors'[i].snap < anchors'[j].snap
    BY <1>3, <1>11, <2>1
  <2>4. \A i, j \in 1..(id - 1) : i <= j => snaps'[i] <= snaps'[j] /\ snaps'[j] <= t
    BY <1>3, <1>6, <1>10, <2>1 DEF t
  <2> QED
    BY <1>9, <1>10, <1>11, <2>2, <2>3, <2>4 DEF AnchorsNest
<1> QED
  BY <1>5, <1>7, <1>8, <1>9, <1>10, <1>12, <1>13

\* Leaving an anchor, whether its requests succeed or fail.
LEMMA LeaveStep ==
  ASSUME IInv, LeaveAnchor
  PROVE  IInv'
<1>1. /\ pc = "idle" /\ anchors # <<>> /\ anchors' = Front(anchors)
      /\ reverts' = reverts + 1 /\ result' = NoResult
      /\ UNCHANGED <<cache, pc, op, saved>>
      /\ \/ /\ EvmRevert(Last(anchors).snap)
            /\ \/ pin' = Last(anchors).block /\ dirty' = None
               \/ UNCHANGED <<pin, dirty>>
         \/ UNCHANGED <<chain, pool, snaps, pin, dirty>>
  BY DEF LeaveAnchor, node, fork
<1>2. reverts' \in Nat /\ reverts' # 0
  BY <1>1 DEF IInv, Types
<1>3. Progress' /\ Sent' /\ Shown'
  BY <1>1 DEF Progress, Sent, Shown, NoResult
<1>4. CacheFollowsChain' /\ RecordedIsDeployed'
  BY <1>2 DEF CacheFollowsChain, RecordedIsDeployed
<1> DEFINE k == Len(anchors)
<1>5. /\ anchors \in Seq(AnchorType) /\ k \in Nat \ {0} /\ k - 1 \in 0..k /\ 1..(k - 1) \subseteq 1..k
      /\ anchors' = SubSeq(anchors, 1, k - 1)
  BY <1>1, LenProperties, EmptySeq DEF IInv, Types, Front
<1>6. /\ anchors' \in Seq(AnchorType) /\ Len(anchors') = k - 1
      /\ \A i \in 1..(k - 1) : anchors'[i] = anchors[i]
  BY <1>5, Beginning
<1>7. CASE EvmRevert(Last(anchors).snap)
  <2>1. /\ chain' \in Seq(BlockType) /\ Newest' \in 1..MaxBlock /\ snaps' \in Seq(1..MaxBlock)
        /\ pool' \subseteq TxType /\ Last(anchors).block \in 1..MaxBlock
        /\ Nonces' /\ AnchorsNest'
    BY <1>1, <1>7, Reverting
  <2>2. pin' \in 1..MaxBlock /\ dirty' \in Value \union {None}
    BY <1>1, <2>1 DEF IInv, Types
  <2>3. Types'
    BY <1>1, <1>2, <1>6, <2>1, <2>2 DEF IInv, Types
  <2> QED
    BY <1>3, <1>4, <2>1, <2>3 DEF IInv
<1>8. CASE UNCHANGED <<chain, pool, snaps, pin, dirty>>
  <2>1. Types'
    BY <1>1, <1>2, <1>6, <1>8 DEF IInv, Types, Newest
  <2>2. Nonces'
    BY <1>8 DEF IInv, Nonces, Newest
  <2>3. AnchorsNest'
    <3>1. /\ \A i \in 1..k : anchors[i].snap <= Len(snaps)
          /\ \A i, j \in 1..k : i < j => anchors[i].snap < anchors[j].snap
      BY DEF IInv, AnchorsNest
    <3>2. /\ \A i \in 1..(k - 1) : anchors'[i].snap <= Len(snaps)
          /\ \A i, j \in 1..(k - 1) : i < j => anchors'[i].snap < anchors'[j].snap
      BY <1>5, <1>6, <3>1
    <3>3. \A i, j \in 1..Len(snaps) : i <= j => snaps[i] <= snaps[j] /\ snaps[j] <= Newest
      BY DEF IInv, AnchorsNest
    <3> QED
      BY <1>6, <1>8, <3>2, <3>3 DEF AnchorsNest, Newest
  <2> QED
    BY <1>3, <1>4, <2>1, <2>2, <2>3 DEF IInv
<1> QED
  BY <1>1, <1>7, <1>8

(***************************************************************************)
(* Theorems                                                                *)
(***************************************************************************)

\* The invariant holds at first.
LEMMA Start ==
  Init => IInv
<1> SUFFICES ASSUME Init PROVE IInv
  OBVIOUS
<1> DEFINE b == [val |-> Initial, nonce |-> 0, tx |-> None, ok |-> TRUE]
<1>1. chain = <<b>>
  BY DEF Init
<1>2. b \in BlockType /\ b.nonce = 0 /\ b.tx = None
  BY NetworkAssumption DEF BlockType, Nonce
<1> HIDE DEF b
<1>3. chain \in Seq(BlockType) /\ Newest = 1 /\ chain[1] = b
  BY <1>1, <1>2 DEF Newest
<1>4. Types
  <2>1. 1 \in 1..MaxBlock
    BY NetworkAssumption
  <2>2. snaps \in Seq(1..MaxBlock) /\ anchors \in Seq(AnchorType)
    BY DEF Init
  <2>3. reverts \in Nat /\ dirty \in Value \union {None} /\ pool \subseteq TxType /\ saved \subseteq Nonce
    BY DEF Init
  <2>4. cache \in [1..MaxBlock -> ContentType \union {None}]
    BY DEF Init
  <2>5. pc \in Place /\ op \in OpType /\ pin \in 1..MaxBlock
    BY <2>1, NewOperations DEF Init, Place
  <2> QED
    BY <1>3, <2>1, <2>2, <2>3, <2>4, <2>5 DEF Types
<1>5. Nonces
  BY <1>2, <1>3 DEF Nonces
<1>6. Progress /\ Sent /\ AnchorsNest /\ CacheFollowsChain /\ RecordedIsDeployed /\ Shown
  BY DEF Init, Progress, Sent, AnchorsNest, CacheFollowsChain, RecordedIsDeployed, Shown, NoResult
<1> QED
  BY <1>4, <1>5, <1>6 DEF IInv

\* The invariant holds in every state.
LEMMA Invariance ==
  Spec => []IInv
<1>1. IInv /\ [Next]_vars => IInv'
  <2> SUFFICES ASSUME IInv, [Next]_vars PROVE IInv'
    OBVIOUS
  <2>1. CASE UNCHANGED vars
    <3>1. UNCHANGED <<chain, pool, snaps, pin, dirty, cache, anchors, reverts, pc, op, result, saved>>
      BY <2>1 DEF vars, node, fork, env
    <3>2. Types' /\ Progress' /\ Sent'
      BY <3>1 DEF IInv, Types, Progress, Sent, MinedIn, Sends, Tx, Newest
    <3>3. CacheFollowsChain' /\ RecordedIsDeployed' /\ Shown'
      BY <3>1 DEF IInv, CacheFollowsChain, RecordedIsDeployed, Shown, Newest, Content
    <3> QED
      BY <3>1, <3>2, <3>3, Quiet
  <2>2. CASE Next
    BY <2>2, MineStep, BeginStep, SimulateStep, AskStep, SendStep, WaitStep, FinishStep,
      EnterStep, LeaveStep DEF Next, Step
  <2> QED
    BY <2>1, <2>2
<1> QED
  BY <1>1, Start, PTL DEF Spec

\* NetworkEnv: every variable keeps its type, and a transaction that an operation
\* waits for is pending, mined, or has lost its nonce to another.
THEOREM TypeCorrect == Spec => []TypeOK
<1>1. IInv => TypeOK
  <2> SUFFICES ASSUME IInv PROVE TypeOK
    OBVIOUS
  <2>1. op.kind \in Kind \union {None} /\ op.tx \in TxType \union {None}
    BY Operations DEF IInv, Types
  <2>2. anchors \in Seq([snap: Nat, block: 1..MaxBlock])
    <3>1. AnchorType \subseteq [snap: Nat, block: 1..MaxBlock] /\ anchors \in Seq(AnchorType)
      BY DEF IInv, Types, AnchorType
    <3> QED
      BY <3>1, SeqMonotonic
  <2> QED
    BY <2>1, <2>2 DEF IInv, Types, Place, Sent, TypeOK
<1> QED
  BY <1>1, Invariance, PTL

\* Until an anchor is left, what the RPC cache holds for a block is what the block
\* holds, although the fork is made of "latest" while the node goes on mining.
THEOREM CacheAlwaysFollows == Spec => []CacheFollowsChain
<1>1. IInv => CacheFollowsChain
  BY DEF IInv
<1> QED
  BY <1>1, Invariance, PTL

\* Anchors nest: evm_revert of the inner ones never takes away the snapshot of an
\* outer one, even when leaving an inner one fails halfway.
THEOREM AnchorsAlwaysNest == Spec => []AnchorsNest
<1>1. IInv => AnchorsNest
  BY DEF IInv
<1> QED
  BY <1>1, Invariance, PTL

\* Until an anchor is left, whatever NetworkEnv.deploy records in the deployments
\* database was mined, did not revert, and is where it was expected.
THEOREM RecordsAreDeployed == Spec => []RecordedIsDeployed
<1>1. IInv => RecordedIsDeployed
  BY DEF IInv
<1> QED
  BY <1>1, Invariance, PTL

\* A call that NetworkEnv.execute_code reports as done was mined and did not
\* revert, and until an anchor is left the fork shows its block and nothing else.
THEOREM OkAlwaysMeansDone == Spec => []OkMeansDone
<1>1. IInv => OkMeansDone
  <2> SUFFICES ASSUME IInv, result.said = "ok"
               PROVE  /\ result.node = "ok"
                      /\ reverts = 0 /\ result.kind = "call" =>
                           /\ chain[pin].tx # None /\ chain[pin].ok /\ chain[pin].tx.val = result.val
                           /\ Local = Content(chain[pin])
    BY DEF OkMeansDone
  <2>1. /\ result.node = "ok"
        /\ reverts = 0 /\ result.kind = "call" =>
             /\ pin <= Newest /\ dirty = None
             /\ chain[pin].tx # None /\ chain[pin].ok /\ chain[pin].tx.val = result.val
    BY DEF IInv, Shown
  <2>2. ASSUME reverts = 0, result.kind = "call" PROVE Local = Content(chain[pin])
    <3>1. CanRead /\ pin \in 1..MaxBlock
      BY <2>1, <2>2 DEF CanRead, IInv, Types
    <3>2. Remote \in ContentType
      BY <3>1, Reading
    <3>3. Remote = Content(chain[pin])
      BY <2>2, <3>1 DEF Remote, IInv, CacheFollowsChain
    <3>4. Local = [Remote EXCEPT !.val = Remote.val]
      BY <2>1, <2>2 DEF Local
    <3> HIDE DEF Remote
    <3>5. Local = Remote
      BY <3>2, <3>4, Parts
    <3> QED
      BY <3>3, <3>5
  <2> QED
    BY <2>1, <2>2
<1> QED
  BY <1>1, Invariance, PTL
=============================================================================

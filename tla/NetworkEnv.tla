----------------------------- MODULE NetworkEnv -----------------------------
(***************************************************************************)
(* boa/network.py: an environment whose transactions go to a real node.    *)
(* Every call is first simulated on a local fork of the newest block, then *)
(* sent, awaited, and the fork is moved to the block it was mined in.      *)
(* Between any two requests the node may mine blocks, with transactions of *)
(* the environment, of other users, or of the same account from elsewhere. *)
(*                                                                         *)
(* The chain's state is one value and the nonce of the environment's       *)
(* account.  A call sets the value; a deployment leaves it alone and       *)
(* creates a contract at the address of its nonce.  Both revert if the     *)
(* value is set already, so that the outcome depends on the state.         *)
(***************************************************************************)
EXTENDS Naturals, Sequences, SequencesExt

CONSTANTS
  Value,        \* what the chain's state can be
  Initial,      \* the value in the first block
  MaxBlock,     \* bound on the length of the chain
  MaxAnchored,  \* the same inside an anchor
  MaxAnchor,    \* bound on nested anchors
  MaxRevert,    \* bound on the anchors that are left
  None

ASSUME NetworkAssumption ==
  /\ Initial \in Value
  /\ MaxBlock \in Nat \ {0} /\ MaxAnchored \in 1..MaxBlock /\ MaxAnchor \in Nat /\ MaxRevert \in Nat
  /\ None \notin Value \union [nonce: Nat, val: Value, kind: {"call", "deploy"}]

Kind == {"call", "deploy", "simulate", "view"}

VARIABLES
  chain,        \* node: the blocks, [val, nonce, tx, ok]; tx is None or as in pool
  pool,         \* node: the environment's pending transactions, [nonce, val, kind]
  snaps,        \* node: block numbers of the open evm_snapshots
  pin,          \* the block the fork is pinned to
  cache,        \* CachingRPC: what was read, by block number
  dirty,        \* the fork's own write, by a simulated call (None: no write)
  anchors,      \* [snap, block] of the open anchors
  reverts,      \* how many anchors have been left
  pc,           \* where the running operation is
  op,           \* the running operation
  result,       \* the last one's outcome for the caller, and for the node
  saved         \* the deployments database: addresses, i.e. nonces

node == <<chain, pool, snaps>>
fork == <<pin, dirty>>
env == <<anchors, reverts>>
vars == <<node, fork, cache, env, pc, op, result, saved>>

Content(b) == [val |-> b.val, nonce |-> b.nonce]
Newest == Len(chain)
NoOp == [kind |-> None, val |-> None, gas |-> FALSE, seen |-> None, nonce |-> 0, tx |-> None]
NoResult == [kind |-> None, val |-> None, said |-> "raised", node |-> "unknown"]

Init ==
  /\ chain = <<[val |-> Initial, nonce |-> 0, tx |-> None, ok |-> TRUE]>>
  /\ pool = {} /\ snaps = <<>>
  /\ pin = 1 /\ dirty = None
  /\ cache = [b \in 1..MaxBlock |-> None]
  /\ anchors = <<>> /\ reverts = 0
  /\ pc = "idle" /\ op = NoOp
  /\ result = NoResult
  /\ saved = {}

(***************************************************************************)
(* The node                                                                *)
(***************************************************************************)

Extend(b) ==
  /\ Newest < (IF anchors = <<>> THEN MaxBlock ELSE MaxAnchored)
  /\ chain' = Append(chain, b)

\* Does an operation that would set val succeed on a state with value v?
Succeeds(val, v) == v # val

Mine(tx) ==
  LET top == Last(chain)
      ok == Succeeds(tx.val, top.val)
  IN  /\ tx \in pool /\ tx.nonce = top.nonce
      /\ Extend([val |-> IF ok /\ tx.kind = "call" THEN tx.val ELSE top.val,
                 nonce |-> top.nonce + 1, tx |-> tx, ok |-> ok])
      /\ pool' = {t \in pool : t.nonce > tx.nonce}
      /\ UNCHANGED <<snaps, fork, cache, env, pc, op, result, saved>>

\* A block of others, or with a transaction the account sent from elsewhere.
MineForeign(v, own) ==
  LET top == Last(chain)
      nonce == IF own THEN top.nonce + 1 ELSE top.nonce
  IN  /\ Extend([val |-> v, nonce |-> nonce, tx |-> None, ok |-> TRUE])
      /\ pool' = {t \in pool : t.nonce >= nonce}
      /\ UNCHANGED <<snaps, fork, cache, env, pc, op, result, saved>>

(***************************************************************************)
(* Helpers                                                                 *)
(***************************************************************************)

Goto(where) == pc' = where

\* The running operation ends: what its caller sees, and what the node said.
End(said, answer) ==
  /\ pc' = "idle" /\ op' = NoOp
  /\ result' = [kind |-> op.kind, val |-> op.val, said |-> said, node |-> answer]

\* A request fails (RPCError, HTTPError), or the operation raises.
Raise == End("raised", "unknown") /\ UNCHANGED <<node, fork, cache, env, saved>>

\* Reading whatever the newest block holds.
RemoteLatest == Content(Last(chain))

\* What the RPC cache, or else the node, says of the pinned block.
Remote == IF cache[pin] # None THEN cache[pin] ELSE Content(chain[pin])

\* The state a local execution sees.
Local == [Remote EXCEPT !.val = IF dirty # None THEN dirty ELSE @]

CanRead == cache[pin] # None \/ pin <= Newest

\* Is the operation a transaction, and not a mere eth_call?
Sends == op.kind \in {"call", "deploy"}

(***************************************************************************)
(* execute_code and deploy                                                 *)
(***************************************************************************)

\* _reset_fork to "latest", unless the call is a view.
Begin(kind, val, gas) ==
  /\ pc = "idle"
  /\ Goto("simulate")
  /\ op' = [NoOp EXCEPT !.kind = kind, !.val = val, !.gas = gas]
  /\ IF kind = "view" THEN UNCHANGED fork ELSE pin' = Newest /\ dirty' = None
  /\ result' = NoResult
  /\ UNCHANGED <<node, cache, env, saved>>

\* super().execute_code or super().deploy: the local computation.  A call is
\* sent whatever its outcome, and leaves its effect on the fork.
Simulate ==
  /\ pc = "simulate"
  /\ CanRead
  /\ Succeeds(op.val, Local.val) \/ op.kind # "deploy"
  /\ cache' = [cache EXCEPT ![pin] = Remote]
  /\ op' = [op EXCEPT !.seen = Local]
  /\ dirty' = IF op.kind = "call" /\ Succeeds(op.val, Local.val) THEN op.val ELSE dirty
  /\ Goto(IF Sends THEN "nonce" ELSE "eth_call")
  /\ UNCHANGED <<node, pin, env, result, saved>>

\* A deployment that fails locally is not sent.
DeployReverts ==
  /\ pc = "simulate"
  /\ CanRead
  /\ ~Succeeds(op.val, Local.val) /\ op.kind = "deploy"
  /\ cache' = [cache EXCEPT ![pin] = Remote]
  /\ End("reverted", "unknown")
  /\ UNCHANGED <<node, fork, env, saved>>

\* The fork is pinned to a block the node no longer has.
SimulateFails ==
  /\ pc = "simulate"
  /\ ~CanRead
  /\ Raise

\* Did the local computation fail?
IsError == ~Succeeds(op.val, op.seen.val)

\* What the caller gets is the local computation.
Verdict == IF IsError THEN "reverted" ELSE "ok"

\* eth_call on the newest block, which raises if the call reverts there.
EthCall ==
  /\ pc = "eth_call"
  /\ IF Succeeds(op.val, Last(chain).val)
     THEN End(Verdict, "ok")
     ELSE End("raised", "reverted")
  /\ UNCHANGED <<node, fork, cache, env, saved>>

\* _send_txn: the nonce of the newest block.
GetNonce ==
  /\ pc = "nonce"
  /\ op' = [op EXCEPT !.nonce = Last(chain).nonce]
  /\ Goto(IF op.gas THEN "send" ELSE "estimate")
  /\ UNCHANGED <<node, fork, cache, env, result, saved>>

\* What the pending block of the node may hold: the newest block, with or without
\* the environment's pending transaction.
Pending ==
  LET top == Last(chain).val
  IN  {top} \union {t.val : t \in {u \in pool : u.kind = "call" /\ Succeeds(u.val, top)}}

\* eth_estimateGas on the pending block fails when the transaction would revert.
\* execute_code then returns the local computation, which must be an error too;
\* deploy raises.
EstimateGas ==
  /\ pc = "estimate"
  /\ \E v \in Pending :
       IF Succeeds(op.val, v)
       THEN Goto("send") /\ UNCHANGED <<op, result>>
       ELSE End(IF op.kind = "call" /\ IsError THEN "reverted" ELSE "raised", "reverted")
  /\ UNCHANGED <<node, fork, cache, env, saved>>

Tx == [nonce |-> op.nonce, val |-> op.val, kind |-> op.kind]

\* Waiting for a transaction the node has refused.
SendIgnoresError ==
  /\ pc = "send"
  /\ pool' = IF op.nonce < Last(chain).nonce \/ \E t \in pool : t.nonce = op.nonce
             THEN pool ELSE pool \union {Tx}
  /\ Goto("wait") /\ op' = [op EXCEPT !.tx = Tx] /\ UNCHANGED result
  /\ UNCHANGED <<chain, snaps, fork, cache, env, saved>>

\* eth_sendRawTransaction.  The node refuses a nonce that is used or taken; its
\* consent may be lost on the way back.
Send ==
  /\ pc = "send"
  /\ IF op.nonce < Last(chain).nonce \/ \E t \in pool : t.nonce = op.nonce
     THEN End("raised", "unknown") /\ UNCHANGED pool
     ELSE /\ pool' = pool \union {Tx}
          /\ \/ Goto("wait") /\ op' = [op EXCEPT !.tx = Tx] /\ UNCHANGED result
             \/ End("raised", "unknown")
  /\ UNCHANGED <<chain, snaps, fork, cache, env, saved>>

\* The block that holds the transaction, if it is mined.
MinedIn == {b \in 1..Newest : chain[b].tx = op.tx}

\* Taking any receipt for success.
WaitIgnoresStatus ==
  /\ pc = "wait"
  /\ \/ MinedIn # {} /\ Goto("trace") /\ UNCHANGED <<op, result>>
     \/ MinedIn = {} /\ End("raised", "unknown")
  /\ UNCHANGED <<node, fork, cache, env, saved>>

\* Polling for ever.
WaitForever ==
  /\ pc = "wait"
  /\ \/ \E b \in MinedIn : chain[b].ok /\ Goto("trace") /\ UNCHANGED <<op, result>>
     \/ \E b \in MinedIn : ~chain[b].ok /\ End("raised", "reverted")
  /\ UNCHANGED <<node, fork, cache, env, saved>>

\* wait_for_tx_receipt: the receipt, or the time-out; a failed transaction raises.
Wait ==
  /\ pc = "wait"
  /\ \/ \E b \in MinedIn : chain[b].ok /\ Goto("trace") /\ UNCHANGED <<op, result>>
     \/ \E b \in MinedIn : ~chain[b].ok /\ End("raised", "reverted")
     \/ MinedIn = {} /\ End("raised", "unknown")
  /\ UNCHANGED <<node, fork, cache, env, saved>>

\* Staying on the block the simulation ran on.
ResetForkPartly == dirty' = None /\ UNCHANGED pin

\* _reset_fork to the block of the receipt.
ResetFork == dirty' = None /\ \E b \in MinedIn : pin' = b

\* debug_traceTransaction, the reset of the fork, and the end of execute_code or
\* deploy.  A contract whose address is not the expected one is not recorded.
Finish ==
  /\ pc = "trace"
  /\ ResetFork
  /\ IF op.kind = "deploy" /\ op.seen.nonce # op.nonce
     THEN End("raised", "ok") /\ UNCHANGED saved
     ELSE /\ End(Verdict, "ok")
          /\ saved' = IF op.kind = "deploy" THEN saved \union {op.nonce} ELSE saved
  /\ UNCHANGED <<node, cache, env>>

\* Any request of an operation may fail.
RequestFails ==
  /\ pc # "idle"
  /\ Raise

(***************************************************************************)
(* anchor: a snapshot of the node, and the number of the forked block      *)
(***************************************************************************)

EnterAnchor ==
  /\ pc = "idle"
  /\ Len(anchors) < MaxAnchor /\ Newest <= MaxAnchored
  /\ snaps' = Append(snaps, Newest)
  /\ anchors' = Append(anchors, [snap |-> Len(snaps) + 1, block |-> pin])
  /\ UNCHANGED <<chain, pool, fork, cache, reverts, pc, op, result, saved>>

\* evm_revert to the outermost snapshot.
EvmRevertFirst(id) ==
  /\ chain' = SubSeq(chain, 1, snaps[1])
  /\ snaps' = <<>>
  /\ pool' = {}

\* evm_revert, which drops later snapshots and the pending transactions too.
EvmRevert(id) ==
  /\ chain' = SubSeq(chain, 1, snaps[id])
  /\ snaps' = SubSeq(snaps, 1, id - 1)
  /\ pool' = {}

\* evm_revert and _reset_fork; either request may fail.
LeaveAnchor ==
  /\ pc = "idle" /\ anchors # <<>>
  /\ reverts < MaxRevert
  /\ \/ EvmRevert(Last(anchors).snap) /\ pin' = Last(anchors).block /\ dirty' = None
     \/ EvmRevert(Last(anchors).snap) /\ UNCHANGED fork
     \/ UNCHANGED <<node, fork>>
  /\ anchors' = Front(anchors)
  /\ reverts' = reverts + 1
  /\ result' = NoResult
  /\ UNCHANGED <<cache, pc, op, saved>>

\* The next thing a running operation does.
Step ==
  \/ Simulate \/ DeployReverts \/ SimulateFails \/ EthCall \/ GetNonce
  \/ EstimateGas \/ Send \/ Wait \/ Finish

Next ==
  \/ \E tx \in pool : Mine(tx)
  \/ \E v \in Value, own \in BOOLEAN : MineForeign(v, own)
  \/ \E kind \in Kind, v \in Value, gas \in BOOLEAN : Begin(kind, v, gas)
  \/ Step \/ RequestFails
  \/ EnterAnchor \/ LeaveAnchor

\* A running operation goes on; the node need not mine anything.
Spec == Init /\ [][Next]_vars /\ WF_vars(Step)

(***************************************************************************)
(* Properties                                                              *)
(***************************************************************************)

Nonce == 0..MaxBlock
TxType == [nonce: Nonce, val: Value, kind: {"call", "deploy"}]
BlockType == [val: Value, nonce: Nonce, tx: TxType \union {None}, ok: BOOLEAN]
ContentType == [val: Value, nonce: Nonce]

\* Type correctness; a transaction the environment waits for is pending, mined,
\* or has lost its nonce to another one.
TypeOK ==
  /\ chain \in Seq(BlockType) /\ Newest \in 1..MaxBlock
  /\ pool \subseteq TxType
  /\ snaps \in Seq(1..MaxBlock)
  /\ pin \in 1..MaxBlock /\ dirty \in Value \union {None}
  /\ cache \in [1..MaxBlock -> ContentType \union {None}]
  /\ anchors \in Seq([snap: Nat, block: 1..MaxBlock])
  /\ pc \in {"idle", "simulate", "eth_call", "nonce", "estimate", "send", "wait", "trace"}
  /\ op.kind \in Kind \union {None} /\ op.tx \in TxType \union {None}
  /\ saved \subseteq Nonce
  /\ pc \in {"wait", "trace"} =>
       op.tx \in pool \/ MinedIn # {} \/ op.nonce < Last(chain).nonce

\* On a chain that only grows, what CachingRPC holds for a block number is what
\* that block holds, although blocks are named "latest" when the fork is made and
\* mined while the fork is in use.
CacheFollowsChain ==
  reverts = 0 => \A b \in 1..MaxBlock : cache[b] # None =>
                   b <= Newest /\ cache[b] = Content(chain[b])

\* A call that execute_code reports as done was mined and did not revert, and the
\* fork now shows its effect and nothing that was only simulated.
OkMeansDone ==
  result.said = "ok" =>
    /\ result.node = "ok"
    /\ reverts = 0 /\ result.kind = "call" =>
         /\ chain[pin].tx # None /\ chain[pin].ok /\ chain[pin].tx.val = result.val
         /\ Local = Content(chain[pin])

\* The deployments database holds no contract that is not on the chain.
RecordedIsDeployed ==
  reverts = 0 => \A n \in saved :
    \E b \in 1..Newest : chain[b].tx # None /\ chain[b].ok
                          /\ chain[b].tx.nonce = n /\ chain[b].tx.kind = "deploy"

\* Every open anchor still has its snapshot, with the chain it was taken of, even
\* if inner anchors could not be left properly.
AnchorsNest ==
  /\ \A i \in 1..Len(anchors) : anchors[i].snap <= Len(snaps)
  /\ \A i, j \in 1..Len(anchors) : i < j => anchors[i].snap < anchors[j].snap
  /\ \A i, j \in 1..Len(snaps) : i <= j => snaps[i] <= snaps[j] /\ snaps[j] <= Newest

\* Every operation ends, mined or not: nothing waits for ever for a receipt.
OperationsEnd == pc # "idle" ~> pc = "idle"
=============================================================================

------------------------------ MODULE Explorer ------------------------------
(***************************************************************************)
(* boa/verifiers.py and boa/explorer.py: contracts are verified on block   *)
(* explorers, and ABIs fetched from them.                                  *)
(*                                                                         *)
(* The client is sequential.  It submits a verification to the current     *)
(* verifier (_verifier), which set_verifier may replace for a while, and   *)
(* later waits for the result: _wait_until polls with growing pauses until *)
(* the deadline.  The explorers work at their own pace.  Time is counted   *)
(* down: what is left until the deadline, and until the next poll.         *)
(***************************************************************************)
EXTENDS Naturals, Sequences

CONSTANTS
  WaitFor,      \* the time that _wait_until waits
  Backoff,      \* the first pause
  NumRetries,   \* Etherscan.num_retries
  MaxOps        \* bound on the client's operations

ASSUME ExplorerAssumption ==
  /\ WaitFor \in Nat \ {0} /\ Backoff \in Nat \ {0} /\ NumRetries \in Nat \ {0}
  /\ MaxOps \in Nat

VARIABLES
  current,      \* _verifier
  outer,        \* what the open set_verifier contexts will restore
  chain,        \* Etherscan.chain_id
  jobs,         \* the verification at each explorer: [st, left, chain]
  result,       \* the VerificationResult: who was asked
  loop,         \* the running loop: [pc, left, pause, sleep, asked, tries]
  ops           \* operations so far

explorerVars == <<current, outer, chain, jobs, result, loop, ops>>

Verifier == {"blockscout", "etherscan"}
Chain == 1..2
Idle == [pc |-> "idle", left |-> 0, pause |-> Backoff, sleep |-> 0, asked |-> 0, tries |-> NumRetries]
Looping(pc) == [Idle EXCEPT !.pc = pc, !.left = WaitFor]
Quiet == loop.pc \in {"idle", "done", "verified", "failed", "timeout"}
End(how) == loop' = [loop EXCEPT !.pc = how]

ExplorerInit ==
  /\ current = "blockscout" /\ outer = <<>> /\ chain = 1
  /\ jobs = [v \in Verifier |-> [st |-> "absent", left |-> 0, chain |-> 0]]
  /\ result = "none" /\ loop = Idle /\ ops = 0

Operation == Quiet /\ ops < MaxOps /\ ops' = ops + 1

(***************************************************************************)
(* The verifiers                                                           *)
(***************************************************************************)

\* set_verifier is an Open context: what was current comes back at its end.
SetVerifier(v) ==
  /\ Operation /\ outer = <<>>
  /\ outer' = <<current>> /\ current' = v
  /\ UNCHANGED <<chain, jobs, result, loop>>

LeaveVerifier ==
  /\ Quiet /\ outer # <<>>
  /\ current' = outer[1] /\ outer' = <<>>
  /\ UNCHANGED <<chain, jobs, result, loop, ops>>

\* A contract that Blockscout has verified stays verified there.
Submitted(v) ==
  /\ jobs' = IF jobs[v].st = "verified" THEN jobs
             ELSE [jobs EXCEPT ![v] = [st |-> "pending", left |-> 0, chain |-> chain]]
  /\ result' = v

\* verify with Blockscout posts once; with Etherscan it has to wait until the
\* explorer has found the contract.
Verify ==
  /\ Operation
  /\ \/ current = "blockscout" /\ Submitted(current) /\ loop' = [Idle EXCEPT !.pc = "done"]
     \/ current = "blockscout" /\ loop' = [Idle EXCEPT !.pc = "failed"] /\ UNCHANGED <<jobs, result>>
     \/ current = "etherscan" /\ loop' = Looping("create") /\ UNCHANGED <<jobs, result>>
  /\ UNCHANGED <<current, outer, chain>>

\* VerificationResult.wait_for_verification, also from verify(wait=True).
Wait ==
  /\ Operation /\ result # "none"
  /\ loop' = Looping("status")
  /\ UNCHANGED <<current, outer, chain, jobs, result>>

\* One turn of the loop of _wait_until: the predicate, and if it is false a pause.
Turn == loop.sleep = 0 /\ loop.left > 0
Again == \E d \in 0..1 :      \* the request may take some time itself
  loop' = [loop EXCEPT !.sleep = loop.pause, !.pause = @ + 1, !.asked = loop.left, !.left = @ - d]

\* verification_created: a guid, "Unable to locate ContractCode", or a failure,
\* also for a contract that is verified already.
PollCreate ==
  /\ loop.pc = "create" /\ Turn
  /\ \/ jobs["etherscan"].st # "verified" /\ Submitted("etherscan") /\ End("done")
     \/ (Again \/ End("failed")) /\ UNCHANGED <<jobs, result>>
  /\ UNCHANGED <<current, outer, chain, ops>>

\* Whom a VerificationResult asks: its own verifier.
AsksCurrent(r) == current
Asked(r) == r

\* is_verified: what it may return.  Blockscout may answer with one of the
\* retry_http_codes at any time; Etherscan does not know the guid of another chain.
IsVerified(v) ==
  IF v = "blockscout" THEN {jobs[v].st = "verified", FALSE}
  ELSE IF jobs[v].chain = chain /\ jobs[v].st # "rejected" THEN {jobs[v].st = "verified"} ELSE {}

\* Asking either explorer may also raise, whatever the verdict: raise_for_status.
PollStatus ==
  /\ loop.pc = "status" /\ Turn
  /\ \/ \E yes \in IsVerified(Asked(result)) : IF yes THEN End("verified") ELSE Again
     \/ End("failed")
  /\ UNCHANGED <<current, outer, chain, jobs, result, ops>>

\* while datetime.now() < timeout
TimeIsUp == loop.sleep = 0 /\ loop.left = 0

TimeOutWait ==
  /\ loop.pc \in {"create", "status"} /\ TimeIsUp
  /\ End(IF loop.pc = "create" THEN "failed" ELSE "timeout")
  /\ UNCHANGED <<current, outer, chain, jobs, result, ops>>

(***************************************************************************)
(* Fetching an ABI                                                         *)
(***************************************************************************)

\* from_etherscan sets the chain of the shared Etherscan object.
FromEtherscan(c) ==
  /\ Operation
  /\ chain' = c /\ loop' = [Idle EXCEPT !.pc = "source"]
  /\ UNCHANGED <<current, outer, jobs, result>>

\* _fetch: a rate limited answer is retried after a pause, num_retries times.
RetriesForEver == loop.tries
TriesLeft == loop.tries - 1

RateLimited == loop' = [loop EXCEPT !.sleep = Backoff + NumRetries - loop.tries, !.tries = TriesLeft,
                                    !.pc = IF TriesLeft = 0 THEN "failed" ELSE @]

\* fetch_abi: first the source code, for the address behind a proxy, then the ABI.
Fetch ==
  /\ loop.pc \in {"source", "abi"} /\ loop.sleep = 0
  /\ \/ loop.pc = "source" /\ loop' = [Idle EXCEPT !.pc = "abi"]
     \/ loop.pc = "abi" /\ End("done")
     \/ RateLimited
     \/ End("failed")
  /\ UNCHANGED <<current, outer, chain, jobs, result, ops>>

(***************************************************************************)
(* Time and the explorers                                                  *)
(***************************************************************************)

Tick ==
  /\ ~Quiet /\ loop.sleep > 0
  /\ loop' = [loop EXCEPT !.sleep = @ - 1, !.left = IF @ > 0 THEN @ - 1 ELSE 0]
  /\ UNCHANGED <<current, outer, chain, jobs, result, ops>>

\* An explorer decides; left is the time that a running wait had left.
Decide(v, st) ==
  /\ jobs[v].st = "pending"
  /\ jobs' = [jobs EXCEPT ![v].st = st,
                          ![v].left = CASE loop.pc = "status" -> loop.left
                                        [] loop.pc = "timeout" -> 0
                                        [] OTHER -> WaitFor + 1]
  /\ UNCHANGED <<current, outer, chain, result, loop, ops>>

Client == PollCreate \/ PollStatus \/ TimeOutWait \/ Fetch

ExplorerNext ==
  \/ \E v \in Verifier : SetVerifier(v)
  \/ LeaveVerifier \/ Verify \/ Wait
  \/ PollCreate \/ PollStatus \/ TimeOutWait
  \/ \E c \in Chain : FromEtherscan(c)
  \/ Fetch \/ Tick
  \/ \E v \in Verifier, st \in {"verified", "rejected"} : Decide(v, st)

\* The client's loops run on, requests are answered, and time passes.
ExplorerFairness == WF_explorerVars(Client) /\ WF_explorerVars(Tick)

(***************************************************************************)
(* Properties                                                              *)
(***************************************************************************)

\* The end of wait_for_verification is honest.  "Contract verified!" is said only
\* when the explorer that was given the contract has verified it, whatever
\* set_verifier did since.  A timeout comes after a poll that was too early: the
\* verdict, if there is one, came later, and that poll and the pause after it
\* reached the deadline.
WaitIsHonest ==
  /\ loop.pc = "verified" => jobs[result].st = "verified"
  /\ loop.pc = "timeout" => loop.asked \in 1..loop.pause
  /\ loop.pc = "timeout" /\ result = "etherscan" /\ jobs[result].st = "verified" =>
       jobs[result].left <= loop.asked

\* Every verification, wait and fetch ends, however long the explorers are
\* pending, unavailable or rate limiting.
ExplorerCallsEnd == ~Quiet ~> Quiet
=============================================================================

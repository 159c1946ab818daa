--------------------------- MODULE PollingProofs ---------------------------
(***************************************************************************)
(* Proofs about the two clients that poll: JupyterBridge, for any accounts,*)
(* buffer and bodies and any number of calls and runs, and Explorer, for   *)
(* any waiting times and any number of operations.                         *)
(***************************************************************************)
EXTENDS JupyterBridge, Explorer, Integers, SequenceTheorems, FiniteSetTheorems,
        WellFoundedInduction, TLAPS

BridgeSpec == BridgeInit /\ [][BridgeNext]_bridgeVars
ExplorerSpec == ExplorerInit /\ [][ExplorerNext]_explorerVars

(***************************************************************************)
(* The explorers                                                           *)
(***************************************************************************)

Quietly == {"idle", "done", "verified", "failed", "timeout"}
Loop == [pc: Quietly \union {"create", "status", "source", "abi"},
         left: Nat, pause: Nat, sleep: Nat, asked: Nat, tries: Nat]
Job == [st: {"absent", "pending", "verified", "rejected"}, left: Nat, chain: Nat]

ExplorerTypes ==
  /\ current \in Verifier /\ outer \in {<<>>} \union {<<v>> : v \in Verifier}
  /\ chain \in Nat /\ jobs \in [Verifier -> Job] /\ result \in Verifier \union {"none"}
  /\ loop \in Loop

\* A fetch has a try left.
Trying == loop.pc \in {"source", "abi"} => loop.tries > 0 /\ loop.tries <= NumRetries

\* Since the last poll, at asked, no more time has gone than the pause and the request took.
Timed ==
  loop.pc \in {"create", "status"} =>
    \/ loop.asked = 0 /\ loop.left = WaitFor /\ loop.sleep = 0
    \/ loop.asked > 0 /\ loop.left <= loop.asked /\ loop.asked + loop.sleep <= loop.left + loop.pause

\* A poll that did not end the wait for etherscan was before the verdict.
Early ==
  loop.pc = "status" =>
    /\ result \in Verifier
    /\ loop.asked > 0 /\ result = "etherscan" /\ jobs[result].st = "verified" =>
         jobs[result].left <= loop.asked

ExplorerIInv == ExplorerTypes /\ Trying /\ Timed /\ Early /\ WaitIsHonest

\* What the updates of a job and of the loop do, field by field.
LEMMA JobParts ==
  \A j \in Job : j.st \in {"absent", "pending", "verified", "rejected"} /\ j.left \in Nat /\ j.chain \in Nat
  BY DEF Job

LEMMA LoopParts ==
  \A l \in Loop :
    /\ l.pc \in Quietly \union {"create", "status", "source", "abi"}
    /\ l.left \in Nat /\ l.pause \in Nat /\ l.sleep \in Nat /\ l.asked \in Nat /\ l.tries \in Nat
  BY DEF Loop

\* Ending a loop leaves its counters alone.
LEMMA Ending ==
  ASSUME loop \in Loop, NEW how \in Quietly, End(how)
  PROVE  /\ loop' \in Loop /\ loop'.pc = how /\ loop'.left = loop.left /\ loop'.pause = loop.pause
         /\ loop'.sleep = loop.sleep /\ loop'.asked = loop.asked /\ loop'.tries = loop.tries
  BY DEF End, Loop

\* A loop that has not begun.
LEMMA Beginning ==
  ASSUME NEW pc \in Quietly \union {"source", "abi"}
  PROVE  LET l == [Idle EXCEPT !.pc = pc]
         IN l \in Loop /\ l.pc = pc /\ l.tries = NumRetries
  BY ExplorerAssumption DEF Idle, Loop

LEMMA Waiting ==
  ASSUME NEW pc \in {"create", "status"}
  PROVE  LET l == Looping(pc)
         IN l \in Loop /\ l.pc = pc /\ l.left = WaitFor /\ l.asked = 0 /\ l.sleep = 0
<1> DEFINE b == [Idle EXCEPT !.pc = pc]
<1>1. Looping(pc) = [b EXCEPT !.left = WaitFor]
  BY DEF Looping
<1>2. b = [pc |-> pc, left |-> 0, pause |-> Backoff, sleep |-> 0, asked |-> 0, tries |-> NumRetries]
  BY DEF Idle
<1> HIDE DEF b
<1>3. [b EXCEPT !.left = WaitFor]
        = [pc |-> pc, left |-> WaitFor, pause |-> Backoff, sleep |-> 0, asked |-> 0, tries |-> NumRetries]
  BY <1>2
<1> QED
  BY <1>1, <1>3, ExplorerAssumption DEF Loop

\* A turn of _wait_until whose predicate is false.
LEMMA Pausing ==
  ASSUME loop \in Loop, loop.left > 0, Again
  PROVE  /\ loop' \in Loop /\ loop'.pc = loop.pc /\ loop'.sleep = loop.pause
         /\ loop'.pause = loop.pause + 1 /\ loop'.asked = loop.left
         /\ loop'.left \in {loop.left, loop.left - 1}
<1> PICK d \in 0..1 : loop' = [loop EXCEPT !.sleep = loop.pause, !.pause = @ + 1,
                                           !.asked = loop.left, !.left = @ - d]
  BY DEF Again
<1>1. [loop EXCEPT !.sleep = loop.pause, !.pause = @ + 1, !.asked = loop.left, !.left = @ - d]
        = [[[[loop EXCEPT !.sleep = loop.pause] EXCEPT !.pause = @ + 1]
             EXCEPT !.asked = loop.left] EXCEPT !.left = @ - d]
  OBVIOUS
<1>2. loop = [pc |-> loop.pc, left |-> loop.left, pause |-> loop.pause, sleep |-> loop.sleep,
              asked |-> loop.asked, tries |-> loop.tries]
  BY DEF Loop
<1>3. loop' = [pc |-> loop.pc, left |-> loop.left - d, pause |-> loop.pause + 1, sleep |-> loop.pause,
               asked |-> loop.left, tries |-> loop.tries]
  BY <1>1, <1>2
<1>4. loop.left - d \in Nat /\ loop.left - d \in {loop.left, loop.left - 1} /\ loop.pause + 1 \in Nat
  BY LoopParts
<1> QED
  BY <1>3, <1>4, LoopParts DEF Loop

\* Submitting a contract: its explorer has it pending.
LEMMA Submitting ==
  ASSUME ExplorerTypes, NEW v \in Verifier, Submitted(v)
  PROVE  jobs' \in [Verifier -> Job] /\ result' \in Verifier
  BY DEF ExplorerTypes, Submitted, Job

\* A client that has nothing to do keeps the invariant, if it has not just ended a wait.
LEMMA Resting ==
  ASSUME ExplorerTypes', loop'.pc \in {"idle", "done", "failed"}
  PROVE  ExplorerIInv'
  BY DEF ExplorerIInv, Trying, Timed, Early, WaitIsHonest

\* The steps that leave the loop, the jobs and the result alone.
LEMMA Switching ==
  ASSUME ExplorerIInv, ExplorerTypes', UNCHANGED <<jobs, result, loop>>
  PROVE  ExplorerIInv'
  BY DEF ExplorerIInv, Trying, Timed, Early, WaitIsHonest

\* The explorers' invariant is inductive.
LEMMA ExplorerInitially == ExplorerInit => ExplorerIInv
<1> SUFFICES ASSUME ExplorerInit PROVE ExplorerIInv
  OBVIOUS
<1>1. loop \in Loop /\ loop.pc = "idle"
  BY ExplorerAssumption DEF ExplorerInit, Idle, Loop, Quietly
<1>2. jobs \in [Verifier -> Job]
  BY DEF ExplorerInit, Job
<1>3. ExplorerTypes
  BY <1>1, <1>2 DEF ExplorerInit, ExplorerTypes, Verifier
<1> QED
  BY <1>1, <1>3 DEF ExplorerIInv, Trying, Timed, Early, WaitIsHonest

LEMMA ExplorerInductive == ExplorerIInv /\ [ExplorerNext]_explorerVars => ExplorerIInv'
<1> SUFFICES ASSUME ExplorerIInv, [ExplorerNext]_explorerVars PROVE ExplorerIInv'
  OBVIOUS
<1> USE DEF ExplorerIInv
<1>0. loop \in Loop /\ ExplorerTypes
  BY DEF ExplorerTypes
<1>1. CASE UNCHANGED explorerVars
  BY <1>1 DEF explorerVars, ExplorerTypes, Trying, Timed, Early, WaitIsHonest
<1>2. ASSUME NEW v \in Verifier, SetVerifier(v) PROVE ExplorerIInv'
  <2>1. ExplorerTypes'
    BY <1>2 DEF SetVerifier, ExplorerTypes
  <2> QED
    BY <1>2, <2>1, Switching DEF SetVerifier
<1>3. CASE LeaveVerifier
  <2>1. ExplorerTypes'
    BY <1>3 DEF LeaveVerifier, ExplorerTypes
  <2> QED
    BY <1>3, <2>1, Switching DEF LeaveVerifier
<1>4. CASE Verify
  <2>1. CASE Submitted(current) /\ loop' = [Idle EXCEPT !.pc = "done"]
    <3>1. loop' \in Loop /\ loop'.pc = "done"
      BY <2>1, Beginning DEF Quietly
    <3>2. ExplorerTypes'
      BY <1>4, <2>1, <3>1, Submitting DEF Verify, ExplorerTypes
    <3> QED
      BY <3>1, <3>2, Resting
  <2>2. CASE loop' = [Idle EXCEPT !.pc = "failed"] /\ UNCHANGED <<jobs, result>>
    <3>1. loop' \in Loop /\ loop'.pc = "failed"
      BY <2>2, Beginning DEF Quietly
    <3>2. ExplorerTypes'
      BY <1>4, <2>2, <3>1 DEF Verify, ExplorerTypes
    <3> QED
      BY <3>1, <3>2, Resting
  <2>3. CASE loop' = Looping("create") /\ UNCHANGED <<jobs, result>>
    <3>1. /\ loop' \in Loop /\ loop'.pc = "create"
          /\ loop'.left = WaitFor /\ loop'.asked = 0 /\ loop'.sleep = 0
      BY <2>3, Waiting
    <3>2. ExplorerTypes'
      BY <1>4, <2>3, <3>1 DEF Verify, ExplorerTypes
    <3> QED
      BY <3>1, <3>2 DEF Trying, Timed, Early, WaitIsHonest
  <2> QED
    BY <1>4, <2>1, <2>2, <2>3 DEF Verify
<1>5. CASE Wait
  <2>1. /\ loop' \in Loop /\ loop'.pc = "status"
        /\ loop'.left = WaitFor /\ loop'.asked = 0 /\ loop'.sleep = 0
    BY <1>5, Waiting DEF Wait
  <2>2. ExplorerTypes' /\ result' \in Verifier
    BY <1>5, <2>1 DEF Wait, ExplorerTypes
  <2> QED
    BY <2>1, <2>2 DEF Trying, Timed, Early, WaitIsHonest
<1>6. CASE PollCreate
  <2>1. CASE Submitted("etherscan") /\ End("done")
    <3>1. loop' \in Loop /\ loop'.pc = "done"
      BY <1>0, <2>1, Ending DEF Quietly
    <3>2. ExplorerTypes'
      BY <1>6, <2>1, <3>1, Submitting DEF PollCreate, ExplorerTypes, Verifier
    <3> QED
      BY <3>1, <3>2, Resting
  <2>2. CASE Again /\ UNCHANGED <<jobs, result>>
    <3>1. loop.left > 0 /\ loop.sleep = 0 /\ loop.pc = "create"
      BY <1>6, <1>0, LoopParts DEF PollCreate, Turn
    <3>2. /\ loop' \in Loop /\ loop'.pc = "create" /\ loop'.sleep = loop.pause
          /\ loop'.pause = loop.pause + 1 /\ loop'.asked = loop.left
          /\ loop'.left \in {loop.left, loop.left - 1}
      BY <1>0, <2>2, <3>1, Pausing
    <3>3. ExplorerTypes'
      BY <1>6, <2>2, <3>2 DEF PollCreate, ExplorerTypes
    <3>4. Timed'
      BY <3>1, <3>2, <1>0, LoopParts DEF Timed
    <3> QED
      BY <3>2, <3>3, <3>4 DEF Trying, Early, WaitIsHonest
  <2>3. CASE End("failed") /\ UNCHANGED <<jobs, result>>
    <3>1. loop' \in Loop /\ loop'.pc = "failed"
      BY <1>0, <2>3, Ending DEF Quietly
    <3>2. ExplorerTypes'
      BY <1>6, <2>3, <3>1 DEF PollCreate, ExplorerTypes
    <3> QED
      BY <3>1, <3>2, Resting
  <2> QED
    BY <1>6, <2>1, <2>2, <2>3 DEF PollCreate
<1>7. CASE PollStatus
  <2>0. /\ loop.left > 0 /\ loop.sleep = 0 /\ loop.pc = "status" /\ result \in Verifier
        /\ UNCHANGED <<current, outer, chain, jobs, result>>
    BY <1>7, <1>0, LoopParts DEF PollStatus, Turn, Early
  <2>1. ASSUME TRUE \in IsVerified(result), End("verified") PROVE ExplorerIInv'
    <3>1. loop' \in Loop /\ loop'.pc = "verified"
      BY <1>0, <2>1, Ending DEF Quietly
    <3>2. jobs[result].st = "verified"
      BY <2>1 DEF IsVerified
    <3>3. ExplorerTypes'
      BY <2>0, <3>1 DEF ExplorerTypes
    <3> QED
      BY <2>0, <3>1, <3>2, <3>3 DEF Trying, Timed, Early, WaitIsHonest
  <2>2. ASSUME FALSE \in IsVerified(result), Again PROVE ExplorerIInv'
    <3>1. /\ loop' \in Loop /\ loop'.pc = "status" /\ loop'.sleep = loop.pause
          /\ loop'.pause = loop.pause + 1 /\ loop'.asked = loop.left
          /\ loop'.left \in {loop.left, loop.left - 1}
      BY <1>0, <2>0, <2>2, Pausing
    <3>2. ExplorerTypes'
      BY <2>0, <3>1 DEF ExplorerTypes
    <3>3. Timed'
      BY <3>1, <2>0, <1>0, LoopParts DEF Timed
    <3>4. result = "etherscan" => jobs[result].st # "verified"
      BY <2>2 DEF IsVerified
    <3> QED
      BY <2>0, <3>1, <3>2, <3>3, <3>4 DEF Trying, Early, WaitIsHonest
  <2>3. CASE End("failed")
    <3>1. loop' \in Loop /\ loop'.pc = "failed"
      BY <1>0, <2>3, Ending DEF Quietly
    <3>2. ExplorerTypes'
      BY <2>0, <3>1 DEF ExplorerTypes
    <3> QED
      BY <3>1, <3>2, Resting
  <2>4. \A yes \in IsVerified(result) : yes \in BOOLEAN
    BY DEF IsVerified
  <2> QED
    BY <1>7, <2>1, <2>2, <2>3, <2>4 DEF PollStatus, Asked
<1>8. CASE TimeOutWait
  <2>0. /\ loop.left = 0 /\ loop.sleep = 0 /\ loop.pc \in {"create", "status"}
        /\ UNCHANGED <<current, outer, chain, jobs, result>>
    BY <1>8 DEF TimeOutWait, TimeIsUp
  <2>1. CASE End("failed")
    <3>1. loop' \in Loop /\ loop'.pc = "failed"
      BY <1>0, <2>1, Ending DEF Quietly
    <3>2. ExplorerTypes'
      BY <2>0, <3>1 DEF ExplorerTypes
    <3> QED
      BY <3>1, <3>2, Resting
  <2>2. CASE loop.pc = "status" /\ End("timeout")
    <3>1. loop' \in Loop /\ loop'.pc = "timeout" /\ loop'.pause = loop.pause /\ loop'.asked = loop.asked
      BY <1>0, <2>2, Ending DEF Quietly
    <3>2. loop.asked > 0 /\ loop.asked <= loop.pause
      BY <1>0, <2>0, <2>2, LoopParts, ExplorerAssumption DEF Timed
    <3>3. ExplorerTypes'
      BY <2>0, <3>1 DEF ExplorerTypes
    <3>4. loop.asked \in 1..loop.pause
      BY <1>0, <3>2, LoopParts
    <3> QED
      BY <2>0, <2>2, <3>1, <3>2, <3>3, <3>4 DEF Trying, Timed, Early, WaitIsHonest
  <2> QED
    BY <1>8, <2>0, <2>1, <2>2 DEF TimeOutWait
<1>9. ASSUME NEW c \in Chain, FromEtherscan(c) PROVE ExplorerIInv'
  <2>1. loop' \in Loop /\ loop'.pc = "source" /\ loop'.tries = NumRetries
    BY <1>9, Beginning DEF FromEtherscan
  <2>2. ExplorerTypes'
    BY <1>9, <2>1 DEF FromEtherscan, ExplorerTypes, Chain
  <2> QED
    BY <2>1, <2>2, ExplorerAssumption DEF Trying, Timed, Early, WaitIsHonest
<1>10. CASE Fetch
  <2>0. loop.pc \in {"source", "abi"} /\ UNCHANGED <<current, outer, chain, jobs, result>>
    BY <1>10 DEF Fetch
  <2>1. CASE loop' = [Idle EXCEPT !.pc = "abi"]
    <3>1. loop' \in Loop /\ loop'.pc = "abi" /\ loop'.tries = NumRetries
      BY <2>1, Beginning
    <3>2. ExplorerTypes'
      BY <2>0, <3>1 DEF ExplorerTypes
    <3> QED
      BY <3>1, <3>2, ExplorerAssumption DEF Trying, Timed, Early, WaitIsHonest
  <2>2. ASSUME NEW how \in {"done", "failed"}, End(how) PROVE ExplorerIInv'
    <3>1. loop' \in Loop /\ loop'.pc = how
      BY <1>0, <2>2, Ending DEF Quietly
    <3>2. ExplorerTypes'
      BY <2>0, <3>1 DEF ExplorerTypes
    <3> QED
      BY <3>1, <3>2, Resting
  <2>3. CASE RateLimited
    <3> DEFINE pause == Backoff + NumRetries - loop.tries
               pc == IF loop.tries - 1 = 0 THEN "failed" ELSE loop.pc
               slept == [loop EXCEPT !.sleep = pause]
               tried == [slept EXCEPT !.tries = loop.tries - 1]
    <3>1. loop.tries > 0 /\ loop.tries <= NumRetries
      BY <2>0 DEF Trying
    <3>2. pause \in Nat /\ loop.tries - 1 \in Nat
      BY <1>0, <3>1, LoopParts, ExplorerAssumption
    <3>3. loop' = [tried EXCEPT !.pc = pc]
      BY <2>3 DEF RateLimited, TriesLeft
    <3> HIDE DEF pause
    <3>4. slept \in Loop /\ slept.pc = loop.pc
      BY <1>0, <3>2 DEF Loop
    <3> HIDE DEF slept
    <3>5. tried \in Loop /\ tried.tries = loop.tries - 1
      BY <3>2, <3>4 DEF Loop
    <3> HIDE DEF tried
    <3>6. pc \in {"failed", "source", "abi"} /\ (pc # "failed" => loop.tries - 1 # 0)
      BY <2>0
    <3> HIDE DEF pc
    <3>7. loop' \in Loop /\ loop'.pc = pc /\ loop'.tries = loop.tries - 1
      BY <3>3, <3>5, <3>6 DEF Loop, Quietly
    <3>8. ExplorerTypes'
      BY <2>0, <3>7 DEF ExplorerTypes
    <3>9. Trying'
      BY <1>0, <3>1, <3>2, <3>6, <3>7, LoopParts, ExplorerAssumption DEF Trying
    <3> QED
      BY <3>6, <3>7, <3>8, <3>9 DEF Timed, Early, WaitIsHonest
  <2> QED
    BY <1>10, <2>1, <2>2, <2>3 DEF Fetch
<1>11. CASE Tick
  <2> DEFINE left == IF loop.left > 0 THEN loop.left - 1 ELSE 0
             slept == [loop EXCEPT !.sleep = loop.sleep - 1]
  <2>0. loop.sleep > 0 /\ UNCHANGED <<current, outer, chain, jobs, result>>
    BY <1>11 DEF Tick
  <2>1. loop' = [slept EXCEPT !.left = left]
    BY <1>11 DEF Tick
  <2>2. left \in Nat /\ loop.sleep - 1 \in Nat /\ left <= loop.left /\ left >= loop.left - 1
    BY <1>0, <2>0, LoopParts
  <2> HIDE DEF left
  <2>3. /\ slept \in Loop /\ slept.pc = loop.pc /\ slept.sleep = loop.sleep - 1
        /\ slept.pause = loop.pause /\ slept.asked = loop.asked /\ slept.tries = loop.tries
    BY <1>0, <2>2 DEF Loop
  <2> HIDE DEF slept
  <2>4. /\ loop' \in Loop /\ loop'.pc = loop.pc /\ loop'.sleep = loop.sleep - 1
        /\ loop'.pause = loop.pause /\ loop'.asked = loop.asked /\ loop'.left = left
        /\ loop'.tries = loop.tries
    BY <2>1, <2>2, <2>3 DEF Loop
  <2>5. ExplorerTypes'
    BY <2>0, <2>4 DEF ExplorerTypes
  <2>6. Timed'
    BY <1>0, <2>0, <2>2, <2>4, LoopParts DEF Timed
  <2>7. Trying' /\ Early' /\ WaitIsHonest'
    BY <2>0, <2>4 DEF Trying, Early, WaitIsHonest
  <2> QED
    BY <2>5, <2>6, <2>7
<1>12. ASSUME NEW v \in Verifier, NEW st \in {"verified", "rejected"}, Decide(v, st)
       PROVE  ExplorerIInv'
  <2> DEFINE left == CASE loop.pc = "status" -> loop.left [] loop.pc = "timeout" -> 0 [] OTHER -> WaitFor + 1
             decided == [jobs[v] EXCEPT !.st = st]
             job == [decided EXCEPT !.left = left]
  <2>0. jobs[v].st = "pending" /\ UNCHANGED <<current, outer, chain, result, loop>>
    BY <1>12 DEF Decide
  <2>1. left \in Nat
    BY <1>0, LoopParts, ExplorerAssumption
  <2>2. jobs' = [jobs EXCEPT ![v] = job]
    BY <1>12, <1>0 DEF Decide, ExplorerTypes
  <2>3. jobs[v] \in Job /\ jobs \in [Verifier -> Job]
    BY DEF ExplorerTypes
  <2>4. /\ loop.pc = "status" => left = loop.left
        /\ loop.pc = "timeout" => left = 0
    OBVIOUS
  <2> HIDE DEF left
  <2>5. decided \in Job /\ decided.st = st
    BY <2>3 DEF Job
  <2> HIDE DEF decided
  <2>6. job \in Job /\ job.st = st /\ job.left = left
    BY <2>1, <2>5 DEF Job
  <2> HIDE DEF job
  <2>7. ExplorerTypes'
    BY <2>0, <2>2, <2>3, <2>6 DEF ExplorerTypes
  <2>8. Trying' /\ Timed'
    BY <2>0 DEF Trying, Timed
  <2>9. \A u \in Verifier : jobs'[u] = IF u = v THEN job ELSE jobs[u]
    BY <2>2, <2>3
  <2>10. Early'
    BY <1>0, <2>0, <2>4, <2>6, <2>9, LoopParts DEF Early, Timed
  <2>11. WaitIsHonest'
    <3>1. loop'.pc = "verified" => jobs'[result'].st = "verified"
      BY <2>0, <2>2, <2>3 DEF WaitIsHonest
    <3>2. loop'.pc = "timeout" => loop'.asked \in 1..loop'.pause
      BY <2>0 DEF WaitIsHonest
    <3>3. loop'.pc = "timeout" /\ result' = "etherscan" /\ jobs'[result'].st = "verified" =>
            jobs'[result'].left <= loop'.asked
      BY <1>0, <2>0, <2>4, <2>6, <2>9, <3>2, LoopParts DEF WaitIsHonest, Verifier
    <3> QED
      BY <3>1, <3>2, <3>3 DEF WaitIsHonest
  <2> QED
    BY <2>7, <2>8, <2>10, <2>11
<1> QED
  BY <1>1, <1>2, <1>3, <1>4, <1>5, <1>6, <1>7, <1>8, <1>9, <1>10, <1>11, <1>12 DEF ExplorerNext

\* The end of a wait for a verification is honest, whatever set_verifier and the
\* explorers do meanwhile (VerificationResult.wait_for_verification, _wait_until).
THEOREM WaitsAreHonest == ExplorerSpec => []WaitIsHonest
<1>1. ExplorerIInv => WaitIsHonest
  BY DEF ExplorerIInv
<1> QED
  BY <1>1, ExplorerInitially, ExplorerInductive, PTL DEF ExplorerSpec

(***************************************************************************)
(* The bridge                                                              *)
(***************************************************************************)

Val == Nat \union Account \union {DefaultAccount}
Answers == [run: Nat, ok: BOOLEAN, val: Val]
Memories == [linked: BOOLEAN, buf: [1..BufLen -> Nat],
             kind: {"accounts", "send", "receipt"}, arg: Val]
Runs == [token: Nat, pc: {"ask", "post", "copy", "end"}, late: BOOLEAN, len: Nat, ans: Answers]
Plans == {<<>>, <<"accounts">>, <<"accounts", "send", "receipt">>, <<"send", "receipt">>, <<"receipt">>}

BridgeTypes ==
  /\ todo \in Plans /\ address \in Val /\ given \in Val
  /\ calls \in Nat /\ call \in {Nobody, calls}
  /\ memory \in Seq(Memories) /\ Len(memory) = calls
  /\ runs \in Seq(Runs) /\ got \in Seq(Answers)

\* The kernel waits for the call that its operation has come to, and only its memory is linked.
Current ==
  /\ call # Nobody => todo # <<>> /\ memory[call].kind = Head(todo)
  /\ todo = <<"receipt">> => got # <<>>
  /\ \A t \in 1..calls : memory[t].linked => t = call

\* What a run knows at each of its steps.
Browsing ==
  \A r \in 1..Len(runs) :
    /\ runs[r].token \in 1..calls
    /\ runs[r].pc = "ask" => ~runs[r].ans.ok
    /\ runs[r].pc = "copy" => runs[r].len > 0
    /\ runs[r].ans.ok => runs[r].ans.run = r

\* In a memory there is only what runs of its own call have posted.
Wrote(rs, r, t) == r \in 1..Len(rs) /\ rs[r].token = t /\ rs[r].len > 0
Authored ==
  \A t \in 1..calls : \A i \in 1..BufLen :
    memory[t].buf[i] # NUL => Wrote(runs, memory[t].buf[i], t)

\* The wallet has named account a in call t.
NamedIn(rs, ms, a, t) ==
  \E r \in 1..Len(rs) : /\ rs[r].ans = Answer(r, TRUE, a)
                        /\ rs[r].token = t /\ ms[t].kind = "accounts"

\* Before a transaction is sent, the address is one that the last call returned.
Named == todo = <<"send", "receipt">> /\ call = Nobody => NamedIn(runs, memory, address, calls)

\* Two runs of call t have posted.
Mixed(rs, t) == \E q, r \in 1..Len(rs) : q # r /\ Wrote(rs, q, t) /\ Wrote(rs, r, t)

\* An answer to call t is from a run of its own.
OwnAnswer(rs, a, t) ==
  a.ok => \/ a.run \in 1..Len(rs) /\ rs[a.run].token = t
          \/ Mixed(rs, t)
Owned == \A k \in 1..Len(got) : OwnAnswer(runs, got[k], TokenOf(k))

BridgeIInv ==
  /\ BridgeTypes /\ Current /\ Browsing /\ Authored /\ Named /\ Owned
  /\ ReplaysAreIgnored /\ SendersAreCurrent

(***************************************************************************)
(* Lemmas about sets, sequences and records                                *)
(***************************************************************************)

\* Sets of more than one element.
LEMMA MoreThanOne ==
  ASSUME NEW S, IsFiniteSet(S)
  PROVE  Cardinality(S) > 1 <=> \E q, r \in S : q # r
<1>1. Cardinality(S) \in Nat
  BY FS_CardinalityType
<1>2. ASSUME Cardinality(S) > 1 PROVE \E q, r \in S : q # r
  <2>1. S # {} /\ ~\E x : S = {x}
    BY <1>2, FS_EmptySet, FS_Singleton
  <2> QED
    BY <2>1
<1>3. ASSUME NEW q \in S, NEW r \in S, q # r PROVE Cardinality(S) > 1
  <2>1. Cardinality(S) # 0 /\ Cardinality(S) # 1
    BY <1>3, FS_EmptySet, FS_Singleton
  <2> QED
    BY <1>1, <2>1
<1> QED
  BY <1>2, <1>3

\* A nonempty set of natural numbers has a least element.
LEMMA Least ==
  ASSUME NEW S \in SUBSET Nat, S # {}
  PROVE  \E n \in S : \A m \in S : n <= m
<1>1. PICK n \in S : \A m \in S : ~(<<m, n>> \in OpToRel(<, Nat))
  BY WFMin, NatLessThanWellFounded
<1>2. \A m \in S : ~(m < n)
  BY <1>1 DEF OpToRel
<1> QED
  BY <1>2

\* The steps of an operation that remain after the first.
LEMMA PlanTails ==
  \A p \in Plans \ {<<>>} :
    /\ Head(p) \in {"accounts", "send", "receipt"} /\ Tail(p) \in Plans
    /\ Tail(p) = <<"send", "receipt">> => Head(p) = "accounts"
    /\ Head(p) = "receipt" => p = <<"receipt">>
    /\ Head(p) = "send" => p = <<"send", "receipt">>
<1>1. Head(<<"accounts">>) = "accounts" /\ Tail(<<"accounts">>) = <<>>
  OBVIOUS
<1>2. /\ Head(<<"accounts", "send", "receipt">>) = "accounts"
      /\ Tail(<<"accounts", "send", "receipt">>) = <<"send", "receipt">>
  OBVIOUS
<1>3. Head(<<"send", "receipt">>) = "send" /\ Tail(<<"send", "receipt">>) = <<"receipt">>
  OBVIOUS
<1>4. Head(<<"receipt">>) = "receipt" /\ Tail(<<"receipt">>) = <<>>
  OBVIOUS
<1>5. <<"receipt">> # <<"send", "receipt">> /\ <<>> # <<"send", "receipt">>
  OBVIOUS
<1> QED
  BY <1>1, <1>2, <1>3, <1>4, <1>5 DEF Plans

\* Answers, memories and runs by their fields.
LEMMA AnswerParts ==
  /\ \A a \in Answers : a.run \in Nat /\ a.ok \in BOOLEAN /\ a.val \in Val
                        /\ a = Answer(a.run, a.ok, a.val)
  /\ \A r \in Nat, ok \in BOOLEAN, v \in Val :
       LET a == Answer(r, ok, v)
       IN a \in Answers /\ a.run = r /\ a.ok = ok /\ a.val = v
  BY DEF Answers, Answer

LEMMA OkAnswers ==
  \A a \in Answers : a.ok => a = Answer(a.run, TRUE, a.val)
  BY DEF Answers, Answer

LEMMA OkAnswer ==
  \A r \in Nat, v \in Val : LET a == Answer(r, TRUE, v) IN a \in Answers /\ a.run = r /\ a.ok /\ a.val = v
  BY DEF Answers, Answer

\* What unlinking does to a memory.
LEMMA Emptied ==
  ASSUME NEW m \in Memories, NEW no, NEW b
  PROVE  [[m EXCEPT !.linked = no] EXCEPT !.buf = b]
           = [linked |-> no, buf |-> b, kind |-> m.kind, arg |-> m.arg]
<1> DEFINE a == [m EXCEPT !.linked = no]
<1>1. a = [linked |-> no, buf |-> m.buf, kind |-> m.kind, arg |-> m.arg]
  BY DEF Memories
<1> HIDE DEF a
<1>2. [a EXCEPT !.buf = b] = [linked |-> no, buf |-> b, kind |-> m.kind, arg |-> m.arg]
  BY <1>1
<1> QED
  BY <1>2 DEF a

LEMMA MemoryParts ==
  \A m \in Memories : /\ m.linked \in BOOLEAN /\ m.buf \in [1..BufLen -> Nat]
                      /\ m.kind \in {"accounts", "send", "receipt"} /\ m.arg \in Val
  BY DEF Memories

LEMMA RunParts ==
  \A r \in Runs : /\ r.token \in Nat /\ r.pc \in {"ask", "post", "copy", "end"}
                  /\ r.late \in BOOLEAN /\ r.len \in Nat /\ r.ans \in Answers
  BY DEF Runs

\* The elements of the sequences of a state.
LEMMA Elements ==
  ASSUME BridgeTypes
  PROVE  /\ DOMAIN memory = 1..calls /\ \A t \in 1..calls : memory[t] \in Memories
         /\ Len(runs) \in Nat /\ DOMAIN runs = 1..Len(runs) /\ \A r \in 1..Len(runs) : runs[r] \in Runs
         /\ Len(got) \in Nat /\ DOMAIN got = 1..Len(got) /\ \A k \in 1..Len(got) : got[k] \in Answers
<1>1. DOMAIN memory = 1..calls /\ \A t \in 1..calls : memory[t] \in Memories
  BY LenProperties, ElementOfSeq DEF BridgeTypes
<1>2. Len(runs) \in Nat /\ DOMAIN runs = 1..Len(runs) /\ \A r \in 1..Len(runs) : runs[r] \in Runs
  BY LenProperties, ElementOfSeq DEF BridgeTypes
<1>3. Len(got) \in Nat /\ DOMAIN got = 1..Len(got) /\ \A k \in 1..Len(got) : got[k] \in Answers
  BY LenProperties, ElementOfSeq DEF BridgeTypes
<1> QED
  BY <1>1, <1>2, <1>3

\* Unlinking a memory, in the finally clause of _javascript_call.
LEMMA Unlinking ==
  ASSUME BridgeTypes, NEW t \in 1..calls, NEW ok
  PROVE  LET u == Unlinked(memory, t, ok)
         IN /\ u \in Seq(Memories) /\ Len(u) = calls
            /\ \A s \in 1..calls : u[s].kind = memory[s].kind /\ u[s].arg = memory[s].arg
            /\ ~u[t].linked /\ u[t].buf = Empty
            /\ \A s \in 1..calls : s # t => u[s] = memory[s]
<1> DEFINE m == memory[t]
           n == [linked |-> FALSE, buf |-> Empty, kind |-> m.kind, arg |-> m.arg]
           u == Unlinked(memory, t, ok)
<1>1. m \in Memories /\ DOMAIN memory = 1..calls
  BY Elements
<1>2. memory \in [1..calls -> Memories]
  BY LenProperties DEF BridgeTypes
<1>3. Empty \in [1..BufLen -> Nat]
  BY DEF Empty, NUL
<1>4. n \in Memories
  BY <1>1, <1>3 DEF Memories
<1>5. u = [memory EXCEPT ![t] = n]
  <2>1. u = [[memory EXCEPT ![t].linked = FALSE] EXCEPT ![t].buf = Empty]
    BY DEF Unlinked
  <2>2. [memory EXCEPT ![t].linked = FALSE] = [memory EXCEPT ![t] = [m EXCEPT !.linked = FALSE]]
    BY <1>2
  <2> DEFINE a == [m EXCEPT !.linked = FALSE]
             w == [memory EXCEPT ![t] = a]
  <2>3. [a EXCEPT !.buf = Empty] = n
    BY <1>1, Emptied
  <2>4. w[t] = a /\ w = [memory EXCEPT ![t] = a]
    BY <1>2
  <2> HIDE DEF a
  <2>6. [w EXCEPT ![t].buf = Empty] = [memory EXCEPT ![t] = [a EXCEPT !.buf = Empty]]
    BY <1>2, <2>4
  <2> QED
    BY <2>1, <2>2, <2>3, <2>6 DEF a
<1> HIDE DEF u, m
<1>6. u \in Seq(Memories) /\ Len(u) = calls
  BY <1>4, <1>5, ExceptSeq DEF BridgeTypes
<1>7. u[t] = n /\ \A s \in 1..calls : s # t => u[s] = memory[s]
  BY <1>2, <1>5
<1> QED
  BY <1>6, <1>7 DEF u, m

\* What the kernel reads: nonempty cells of the buffer.
LEMMA Reading ==
  ASSUME BridgeTypes, call # Nobody, NEW i \in DOMAIN Message
  PROVE  \E j \in 1..BufLen : Message[i] = Buffer[j] /\ Buffer[j] # NUL
<1>1. Buffer \in [1..BufLen -> Nat] /\ BufLen \in Nat
  <2>1. call \in 1..calls
    BY DEF BridgeTypes, Nobody
  <2> QED
    BY <2>1, Elements, MemoryParts, BridgeAssumption DEF Buffer
<1> DEFINE P(k) == /\ \A c \in 1..k : Buffer[c] # NUL
                   /\ k = BufLen \/ Buffer[k + 1] = NUL
           n == CHOOSE k \in 0..BufLen : P(k)
<1>2. \E k \in 0..BufLen : P(k)
  <2> DEFINE Z == {c \in 1..BufLen : Buffer[c] = NUL}
  <2>1. CASE Z = {}
    <3>1. P(BufLen)
      BY <2>1
    <3> QED
      BY <1>1, <3>1
  <2>2. CASE Z # {}
    <3>0. Z \in SUBSET Nat
      BY <1>1
    <3> HIDE DEF Z
    <3>1. PICK z \in Z : \A c \in Z : z <= c
      BY <3>0, <2>2, Least
    <3> USE DEF Z
    <3>2. z - 1 \in 0..BufLen /\ (z - 1) + 1 = z
      BY <1>1
    <3>3. ASSUME NEW c \in 1..(z - 1) PROVE Buffer[c] # NUL
      BY <1>1, <3>1, <3>2
    <3>4. P(z - 1)
      BY <3>2, <3>3
    <3> QED
      BY <3>2, <3>4
  <2> QED
    BY <2>1, <2>2
<1>3. n \in 0..BufLen /\ P(n)
  BY <1>2
<1>4. Message = SubSeq(Buffer, 1, n)
  BY DEF Message
<1> HIDE DEF n
<1>5. \A c \in 1..n : Buffer[c] \in Nat
  BY <1>1, <1>3
<1>6. n \in Int /\ 1 \in Int
  BY <1>1, <1>3
<1> DEFINE b == Buffer
           s == SubSeq(b, 1, n)
<1>7. \A c \in 1..n : b[c] \in Nat
  BY <1>5
<1> HIDE DEF b
<1>8. s \in Seq(Nat) /\ Len(s) = (IF 1 <= n THEN n - 1 + 1 ELSE 0)
      /\ \A c \in 1..(n - 1 + 1) : s[c] = b[1 + c - 1]
  BY <1>6, <1>7, SubSeqProperties
<1>9. i \in 1..n
  <2>1. DOMAIN s = 1..Len(s)
    BY <1>8, LenProperties
  <2> QED
    BY <1>1, <1>3, <1>4, <1>6, <1>8, <2>1 DEF b
<1>10. Message[i] = Buffer[i]
  BY <1>4, <1>6, <1>8, <1>9 DEF b
<1> QED
  BY <1>1, <1>3, <1>9, <1>10

\* What a call may return: the answer of a run of its own, or of several.
LEMMA Returning ==
  ASSUME BridgeIInv, call # Nobody, NEW a \in Parsed(Message)
  PROVE  /\ a \in Answers /\ OwnAnswer(runs, a, call)
         /\ a.ok => \E r \in 1..Len(runs) : runs[r].ans = Answer(r, TRUE, a.val) /\ runs[r].token = call
<1> DEFINE s == Message
           authors == {s[i] : i \in DOMAIN s}
           whole == {r \in authors : authors = {r} /\ Len(s) = runs[r].len}
<1>0. call \in 1..calls
  BY DEF BridgeIInv, BridgeTypes, Nobody
<1>1. \A r \in authors : Wrote(runs, r, call)
  <2> SUFFICES ASSUME NEW i \in DOMAIN s PROVE Wrote(runs, s[i], call)
    OBVIOUS
  <2>1. PICK j \in 1..BufLen : s[i] = Buffer[j] /\ Buffer[j] # NUL
    BY Reading DEF BridgeIInv
  <2> QED
    BY <1>0, <2>1 DEF Buffer, BridgeIInv, Authored
<1>2. \A r \in authors : /\ r \in 1..Len(runs) /\ runs[r].token = call /\ runs[r].ans \in Answers
                         /\ runs[r].ans.ok => runs[r].ans.run = r
                                              /\ runs[r].ans = Answer(r, TRUE, runs[r].ans.val)
  <2> SUFFICES ASSUME NEW r \in authors
               PROVE  /\ r \in 1..Len(runs) /\ runs[r].token = call /\ runs[r].ans \in Answers
                      /\ runs[r].ans.ok => runs[r].ans.run = r
                                           /\ runs[r].ans = Answer(r, TRUE, runs[r].ans.val)
    OBVIOUS
  <2> HIDE DEF authors
  <2>1. r \in 1..Len(runs) /\ runs[r].token = call
    BY <1>1 DEF Wrote
  <2>2. runs[r].ans \in Answers
    BY <2>1, Elements, RunParts DEF BridgeIInv
  <2>3. runs[r].ans.ok => runs[r].ans.run = r
    BY <2>1 DEF BridgeIInv, Browsing
  <2>4. runs[r].ans.ok => runs[r].ans = Answer(runs[r].ans.run, TRUE, runs[r].ans.val)
    BY <2>2, OkAnswers
  <2> QED
    BY <2>1, <2>2, <2>3, <2>4
<1>3. ASSUME NEW r \in authors, a = runs[r].ans
      PROVE  /\ a \in Answers /\ OwnAnswer(runs, a, call)
             /\ a.ok => \E q \in 1..Len(runs) : runs[q].ans = Answer(q, TRUE, a.val) /\ runs[q].token = call
  <2> HIDE DEF authors
  <2> QED
    BY <1>2, <1>3 DEF OwnAnswer
<1>4. ASSUME a = Answer(NUL, FALSE, 0)
      PROVE  a \in Answers /\ ~a.ok
  <2>1. NUL \in Nat /\ FALSE \in BOOLEAN /\ 0 \in Val
    BY DEF NUL, Val
  <2> QED
    BY <1>4, <2>1, AnswerParts
<1>5. ASSUME Cardinality(authors) > 1, NEW r \in authors, runs[r].ans.ok, a = Answer(NUL, TRUE, runs[r].ans.val)
      PROVE  /\ a \in Answers /\ OwnAnswer(runs, a, call)
             /\ a.ok => \E q \in 1..Len(runs) : runs[q].ans = Answer(q, TRUE, a.val) /\ runs[q].token = call
  <2> HIDE DEF authors
  <2>1. runs[r].ans.val \in Val /\ NUL \in Nat /\ TRUE \in BOOLEAN
    <3>1. runs[r].ans \in Answers
      BY <1>2
    <3> QED
      BY <3>1, AnswerParts DEF NUL
  <2>2. a \in Answers /\ a.val = runs[r].ans.val
    BY <1>5, <2>1, OkAnswer
  <2>3. IsFiniteSet(authors)
    <3>1. authors \subseteq 1..Len(runs) /\ Len(runs) \in Int /\ 1 \in Int
      BY <1>1, Elements DEF BridgeIInv, Wrote
    <3>2. IsFiniteSet(1..Len(runs))
      BY <3>1, FS_Interval
    <3> QED
      BY <3>1, <3>2, FS_Subset
  <2>4. PICK p, q \in authors : p # q
    BY <1>5, <2>3, MoreThanOne
  <2>5. Mixed(runs, call)
    BY <1>1, <1>2, <2>4 DEF Mixed
  <2> QED
    BY <1>2, <1>5, <2>2, <2>5 DEF OwnAnswer
<1>6. \/ \E r \in authors : a = runs[r].ans
      \/ a = Answer(NUL, FALSE, 0)
      \/ Cardinality(authors) > 1 /\ \E r \in authors : runs[r].ans.ok /\ a = Answer(NUL, TRUE, runs[r].ans.val)
  BY DEF Parsed
<1> HIDE DEF authors
<1> QED
  BY <1>3, <1>4, <1>5, <1>6 DEF OwnAnswer

(***************************************************************************)
(* What is never taken back                                                *)
(***************************************************************************)

\* Runs keep their tokens, what they posted and what the wallet answered; memories
\* keep what they were made for.
RunsGoOn ==
  /\ Len(runs) <= Len(runs')
  /\ \A r \in 1..Len(runs) :
       /\ runs'[r].token = runs[r].token
       /\ runs[r].len > 0 => runs'[r].len > 0
       /\ runs[r].ans.ok => runs'[r].ans = runs[r].ans
MemoriesGoOn ==
  /\ calls <= calls'
  /\ \A t \in 1..calls : memory'[t].kind = memory[t].kind /\ memory'[t].arg = memory[t].arg

\* So what was posted, named and answered stays so.
LEMMA Lasting ==
  ASSUME BridgeIInv, BridgeTypes', RunsGoOn, MemoriesGoOn
  PROVE  /\ \A r, t : Wrote(runs, r, t) => Wrote(runs', r, t)
         /\ \A a, t : NamedIn(runs, memory, a, t) => NamedIn(runs', memory', a, t)
         /\ \A a, t : OwnAnswer(runs, a, t) => OwnAnswer(runs', a, t)
         /\ \A t \in 1..calls : memory[t].kind = "send" => NamedIn(runs', memory', memory'[t].arg, t - 1)
<1>1. Len(runs) \in Nat /\ Len(runs') \in Nat
  BY Elements, LenProperties DEF BridgeIInv, BridgeTypes
<1>2. ASSUME NEW r, NEW t, Wrote(runs, r, t) PROVE Wrote(runs', r, t)
  BY <1>1, <1>2 DEF Wrote, RunsGoOn
<1>3. ASSUME NEW a, NEW t, NamedIn(runs, memory, a, t) PROVE NamedIn(runs', memory', a, t)
  <2>1. PICK r \in 1..Len(runs) :
          runs[r].ans = Answer(r, TRUE, a) /\ runs[r].token = t /\ memory[t].kind = "accounts"
    BY <1>3 DEF NamedIn
  <2>2. runs[r].token = t /\ memory[t].kind = "accounts" /\ runs[r].ans.ok
    BY <2>1 DEF Answer
  <2>3. runs'[r].token = t /\ runs'[r].ans = runs[r].ans /\ r \in 1..Len(runs') /\ t \in 1..calls
    BY <1>1, <2>2 DEF RunsGoOn, BridgeIInv, Browsing
  <2>4. memory'[t].kind = "accounts"
    BY <2>2, <2>3 DEF MemoriesGoOn
  <2> QED
    BY <2>1, <2>3, <2>4 DEF NamedIn
<1>4. ASSUME NEW a, NEW t, OwnAnswer(runs, a, t) PROVE OwnAnswer(runs', a, t)
  <2>1. Mixed(runs, t) => Mixed(runs', t)
    <3>1. ASSUME NEW q \in 1..Len(runs), NEW r \in 1..Len(runs), q # r, Wrote(runs, q, t), Wrote(runs, r, t)
          PROVE  Mixed(runs', t)
      <4>1. Wrote(runs', q, t) /\ Wrote(runs', r, t)
        BY <1>2, <3>1
      <4>2. q \in 1..Len(runs') /\ r \in 1..Len(runs')
        BY <1>1 DEF RunsGoOn
      <4> QED
        BY <3>1, <4>1, <4>2 DEF Mixed
    <3> QED
      BY <3>1 DEF Mixed
  <2>2. a.run \in 1..Len(runs) /\ runs[a.run].token = t =>
          a.run \in 1..Len(runs') /\ runs'[a.run].token = t
    BY <1>1 DEF RunsGoOn
  <2> QED
    BY <1>4, <2>1, <2>2 DEF OwnAnswer
<1>5. ASSUME NEW t \in 1..calls, memory[t].kind = "send" PROVE NamedIn(runs', memory', memory'[t].arg, t - 1)
  <2>1. DOMAIN memory = 1..calls /\ DOMAIN runs = 1..Len(runs)
    BY Elements DEF BridgeIInv
  <2>2. NamedIn(runs, memory, memory[t].arg, t - 1)
    BY <1>5, <2>1 DEF BridgeIInv, SendersAreCurrent, NamedIn
  <2>3. memory'[t].arg = memory[t].arg
    BY DEF MemoriesGoOn
  <2>4. NamedIn(runs', memory', memory[t].arg, t - 1)
    BY <1>3, <2>2
  <2> QED
    BY <2>3, <2>4 DEF NamedIn
<1> QED
  BY <1>2, <1>3, <1>4, <1>5

\* Senders, from the memories in turn, after a step.
LEMMA Senders ==
  ASSUME BridgeTypes',
         \A t \in 1..calls' : memory'[t].kind = "send" => NamedIn(runs', memory', memory'[t].arg, t - 1)
  PROVE  SendersAreCurrent'
<1>1. DOMAIN memory' = 1..calls' /\ DOMAIN runs' = 1..Len(runs')
  BY LenProperties DEF BridgeTypes
<1> QED
  BY <1>1 DEF SendersAreCurrent, NamedIn

(***************************************************************************)
(* The steps of the browser and the server                                 *)
(***************************************************************************)

\* What a step of run r may do: new is the run then.
Legal(r, new) ==
  /\ new \in Runs /\ new.token = runs[r].token /\ new.late = runs[r].late
  /\ runs[r].len > 0 => new.len > 0
  /\ runs[r].ans.ok => new.ans = runs[r].ans
  /\ new.pc # "ask" /\ (new.pc = "copy" => new.len > 0)
  /\ new.ans.ok => new.ans.run = r

\* A step of run r, which may write its own cells into the memory of its call.
LEMMA Running ==
  ASSUME BridgeIInv, NEW r \in 1..Len(runs), NEW new, Legal(r, new),
         runs' = [runs EXCEPT ![r] = new],
         UNCHANGED <<todo, given, address, call, calls, got>>,
         memory' \in Seq(Memories), Len(memory') = calls,
         \A t \in 1..calls : memory'[t].linked = memory[t].linked /\ memory'[t].kind = memory[t].kind
                             /\ memory'[t].arg = memory[t].arg,
         \A t \in 1..calls : \A i \in 1..BufLen :
           \/ memory'[t].buf[i] \in {memory[t].buf[i], NUL}
           \/ memory'[t].buf[i] = r /\ t = runs[r].token /\ new.len > 0
  PROVE  BridgeIInv'
<1>0. BridgeTypes /\ Len(runs) \in Nat /\ DOMAIN runs = 1..Len(runs)
  BY Elements DEF BridgeIInv
<1>1. BridgeTypes'
  <2>1. runs' \in Seq(Runs)
    BY <1>0, ExceptSeq DEF Legal, BridgeTypes
  <2> QED
    BY <1>0, <2>1 DEF BridgeTypes
<1>2. Len(runs') = Len(runs) /\ runs'[r] = new /\ \A q \in 1..Len(runs) : q # r => runs'[q] = runs[q]
  <2>1. new \in Runs /\ runs \in Seq(Runs)
    BY <1>0 DEF Legal, BridgeTypes
  <2>2. Len(runs') = Len(runs)
    BY <2>1, ExceptSeq
  <2>3. runs \in [1..Len(runs) -> Runs]
    BY <2>1, LenProperties
  <2> QED
    BY <2>2, <2>3
<1>3. RunsGoOn /\ MemoriesGoOn
  <2>1. calls <= calls'
    BY <1>0 DEF BridgeTypes
  <2>2. Len(runs) <= Len(runs')
    BY <1>0, <1>2
  <2>3. \A q \in 1..Len(runs) :
          /\ runs'[q].token = runs[q].token
          /\ runs[q].len > 0 => runs'[q].len > 0
          /\ runs[q].ans.ok => runs'[q].ans = runs[q].ans
    BY <1>2 DEF Legal
  <2> QED
    BY <2>1, <2>2, <2>3 DEF RunsGoOn, MemoriesGoOn
<1>4. Current'
  <2>1. call # Nobody => todo # <<>> /\ memory'[call].kind = Head(todo)
    <3>1. call # Nobody => call \in 1..calls
      BY <1>0 DEF BridgeTypes, Nobody
    <3> QED
      BY <3>1 DEF BridgeIInv, Current
  <2>2. \A t \in 1..calls : memory'[t].linked => t = call
    BY DEF BridgeIInv, Current
  <2>3. todo = <<"receipt">> => got # <<>>
    BY DEF BridgeIInv, Current
  <2> QED
    BY <2>1, <2>2, <2>3 DEF Current
<1>5. Browsing'
  BY <1>2 DEF BridgeIInv, Browsing, Legal
<1>6. Authored'
  <2> SUFFICES ASSUME NEW t \in 1..calls, NEW i \in 1..BufLen, memory'[t].buf[i] # NUL
               PROVE  Wrote(runs', memory'[t].buf[i], t)
    BY DEF Authored, Wrote
  <2>1. CASE memory'[t].buf[i] = memory[t].buf[i]
    <3>1. Wrote(runs, memory[t].buf[i], t)
      BY <2>1 DEF BridgeIInv, Authored
    <3>2. Wrote(runs', memory[t].buf[i], t)
      <4> DEFINE q == memory[t].buf[i]
      <4>1. Wrote(runs, q, t)
        BY <3>1
      <4> HIDE DEF q
      <4>2. q \in 1..Len(runs') /\ runs'[q].token = t /\ runs'[q].len > 0
        BY <1>2, <1>3, <4>1 DEF Wrote, RunsGoOn
      <4> QED
        BY <2>1, <4>2 DEF Wrote, q
    <3> QED
      BY <2>1, <3>2 DEF Wrote
  <2>2. CASE memory'[t].buf[i] = r /\ t = runs[r].token /\ new.len > 0
    BY <1>2, <2>2 DEF Wrote, Legal
  <2> QED
    BY <2>1, <2>2
<1>7. Named'
  <2>1. NamedIn(runs, memory, address, calls) => NamedIn(runs', memory', address, calls)
    BY <1>1, <1>3, Lasting
  <2> QED
    BY <2>1 DEF BridgeIInv, Named
<1>8. Owned'
  <2> SUFFICES ASSUME NEW k \in 1..Len(got) PROVE OwnAnswer(runs', got'[k], TokenOf(k)')
    BY DEF Owned
  <2>1. OwnAnswer(runs, got[k], TokenOf(k))
    BY DEF BridgeIInv, Owned
  <2>2. TokenOf(k)' = TokenOf(k) /\ got' = got
    BY DEF TokenOf
  <2> QED
    BY <1>1, <1>3, <2>1, <2>2, Lasting
<1>9. ReplaysAreIgnored'
  <2>1. DOMAIN runs' = 1..Len(runs)
    BY <1>1, <1>2, LenProperties DEF BridgeTypes
  <2> QED
    BY <1>0, <1>2, <2>1 DEF BridgeIInv, ReplaysAreIgnored, Legal
<1>10. SendersAreCurrent'
  <2>1. \A t \in 1..calls : memory'[t].kind = "send" => NamedIn(runs', memory', memory'[t].arg, t - 1)
    BY <1>1, <1>3, Lasting
  <2> QED
    BY <1>1, <2>1, Senders
<1> QED
  BY <1>1, <1>4, <1>5, <1>6, <1>7, <1>8, <1>9, <1>10 DEF BridgeIInv

\* A step of run r that leaves the memories alone.
LEMMA RunningOn ==
  ASSUME BridgeIInv, NEW r \in 1..Len(runs), NEW new, Legal(r, new),
         runs' = [runs EXCEPT ![r] = new],
         UNCHANGED <<todo, given, address, call, calls, got, memory>>
  PROVE  BridgeIInv'
<1>1. memory' \in Seq(Memories) /\ Len(memory') = calls
  BY DEF BridgeIInv, BridgeTypes
<1> QED
  BY <1>1, Running

\* The updates of a run.
Posting(x, a) == [x EXCEPT !.pc = "post", !.ans = a]
BeingCopied(x, n) == [x EXCEPT !.pc = "copy", !.len = n]
Finished(x) == [x EXCEPT !.pc = "end"]

\* What they do, field by field.
LEMMA RunPosting ==
  ASSUME NEW x \in Runs, NEW a \in Answers
  PROVE  /\ Posting(x, a) \in Runs /\ Posting(x, a).token = x.token /\ Posting(x, a).late = x.late
         /\ Posting(x, a).len = x.len /\ Posting(x, a).pc = "post" /\ Posting(x, a).ans = a
<1> DEFINE z == [x EXCEPT !.pc = "post"]
           y == [z EXCEPT !.ans = a]
<1>1. Posting(x, a) = y
  BY DEF Posting
<1>2. z \in Runs /\ z.token = x.token /\ z.late = x.late /\ z.len = x.len /\ z.pc = "post"
  BY DEF Runs
<1> HIDE DEF z
<1>3. y \in Runs /\ y.token = z.token /\ y.late = z.late /\ y.len = z.len /\ y.pc = z.pc /\ y.ans = a
  BY <1>2 DEF Runs
<1> QED
  BY <1>1, <1>2, <1>3

LEMMA RunBeingCopied ==
  ASSUME NEW x \in Runs, NEW n \in Nat
  PROVE  /\ BeingCopied(x, n) \in Runs /\ BeingCopied(x, n).token = x.token
         /\ BeingCopied(x, n).late = x.late /\ BeingCopied(x, n).len = n
         /\ BeingCopied(x, n).pc = "copy" /\ BeingCopied(x, n).ans = x.ans
<1> DEFINE z == [x EXCEPT !.pc = "copy"]
           y == [z EXCEPT !.len = n]
<1>1. BeingCopied(x, n) = y
  BY DEF BeingCopied
<1>2. z \in Runs /\ z.token = x.token /\ z.late = x.late /\ z.ans = x.ans /\ z.pc = "copy"
  BY DEF Runs
<1> HIDE DEF z
<1>3. y \in Runs /\ y.token = z.token /\ y.late = z.late /\ y.ans = z.ans /\ y.pc = z.pc /\ y.len = n
  BY <1>2 DEF Runs
<1> QED
  BY <1>1, <1>2, <1>3

LEMMA RunFinished ==
  ASSUME NEW x \in Runs
  PROVE  /\ Finished(x) \in Runs /\ Finished(x).token = x.token /\ Finished(x).late = x.late
         /\ Finished(x).len = x.len /\ Finished(x).pc = "end" /\ Finished(x).ans = x.ans
  BY DEF Finished, Runs

\* The server copies cells of a body: nothing else changes.
LEMMA Copying ==
  ASSUME BridgeIInv, NEW r \in 1..Len(runs), NEW n, NEW S, Copied(r, n, S)
  PROVE  /\ memory' \in Seq(Memories) /\ Len(memory') = calls
         /\ \A t \in 1..calls : memory'[t].linked = memory[t].linked /\ memory'[t].kind = memory[t].kind
                                /\ memory'[t].arg = memory[t].arg
         /\ \A t \in 1..calls : \A i \in 1..BufLen :
              \/ memory'[t].buf[i] \in {memory[t].buf[i], NUL}
              \/ memory'[t].buf[i] = r /\ t = runs[r].token
<1> DEFINE u == runs[r].token
           m == memory[u]
           b == [i \in 1..BufLen |-> IF i \notin S THEN m.buf[i] ELSE IF i <= n THEN r ELSE NUL]
           w == [m EXCEPT !.buf = b]
<1>0. /\ BridgeTypes /\ u \in 1..calls /\ m \in Memories
      /\ memory \in [1..calls -> Memories] /\ Len(runs) \in Nat
  <2>1. BridgeTypes /\ u \in 1..calls
    BY DEF BridgeIInv, Browsing
  <2> QED
    BY <2>1, Elements, LenProperties DEF BridgeTypes
<1>1. memory' = [memory EXCEPT ![u] = w]
  BY <1>0 DEF Copied
<1>2. b \in [1..BufLen -> Nat]
  <2>1. m.buf \in [1..BufLen -> Nat] /\ r \in Nat /\ NUL \in Nat
    BY <1>0, MemoryParts DEF NUL
  <2> HIDE DEF m
  <2> QED
    BY <2>1
<1>3. \A i \in 1..BufLen : b[i] \in {m.buf[i], NUL, r}
  OBVIOUS
<1> HIDE DEF b, m
<1>4. w \in Memories /\ w.linked = m.linked /\ w.kind = m.kind /\ w.arg = m.arg /\ w.buf = b
  BY <1>0, <1>2 DEF Memories
<1> HIDE DEF w
<1>5. memory' \in Seq(Memories) /\ Len(memory') = calls
  BY <1>0, <1>1, <1>4, ExceptSeq DEF BridgeTypes
<1>6. memory'[u] = w /\ \A t \in 1..calls : t # u => memory'[t] = memory[t]
  BY <1>0, <1>1
<1>7. \A t \in 1..calls : memory'[t].linked = memory[t].linked /\ memory'[t].kind = memory[t].kind
                          /\ memory'[t].arg = memory[t].arg
  BY <1>4, <1>6 DEF m
<1>8. ASSUME NEW t \in 1..calls, NEW i \in 1..BufLen
      PROVE  \/ memory'[t].buf[i] \in {memory[t].buf[i], NUL}
             \/ memory'[t].buf[i] = r /\ t = u
  BY <1>3, <1>4, <1>6 DEF m
<1> QED
  BY <1>5, <1>7, <1>8

(***************************************************************************)
(* The steps of the kernel                                                 *)
(***************************************************************************)

\* The call ends with an answer of its own; one about the accounts gives the address.
LEMMA Ended ==
  ASSUME BridgeIInv, call # Nobody, NEW a \in Answers, EndCall(a),
         UNCHANGED <<given, runs>>, address' \in Val, OwnAnswer(runs, a, call),
         a.ok /\ Head(todo) = "accounts" =>
           address' = a.val /\ \E r \in 1..Len(runs) : runs[r].ans = Answer(r, TRUE, a.val)
                                                       /\ runs[r].token = call
  PROVE  BridgeIInv'
<1> DEFINE u == Unlinked(memory, call, a.ok)
<1>0. /\ BridgeTypes /\ call \in 1..calls /\ call = calls /\ todo \in Plans \ {<<>>}
      /\ Len(got) \in Nat /\ calls \in Nat
  <2>1. BridgeTypes
    BY DEF BridgeIInv
  <2>2. call \in 1..calls /\ call = calls /\ calls \in Nat
    BY <2>1 DEF BridgeTypes, Nobody
  <2>3. todo # <<>> /\ todo \in Plans
    BY <2>1 DEF BridgeIInv, Current, BridgeTypes
  <2> QED
    BY <2>1, <2>2, <2>3, Elements
<1>1. /\ memory' = u /\ call' = Nobody /\ got' = Append(got, a) /\ calls' = calls
      /\ todo' = IF a.ok THEN Tail(todo) ELSE <<>>
  BY DEF EndCall
<1>2. /\ memory' \in Seq(Memories) /\ Len(memory') = calls
      /\ \A s \in 1..calls : memory'[s].kind = memory[s].kind /\ memory'[s].arg = memory[s].arg
      /\ ~memory'[call].linked /\ memory'[call].buf = Empty
      /\ \A s \in 1..calls : s # call => memory'[s] = memory[s]
  <2> HIDE DEF u
  <2> QED
    BY <1>0, <1>1, Unlinking DEF u
<1>3. /\ got' \in Seq(Answers) /\ got' # <<>> /\ Len(got') = Len(got) + 1
      /\ got'[Len(got) + 1] = a /\ \A k \in 1..Len(got) : got'[k] = got[k]
  BY <1>0, <1>1, AppendProperties DEF BridgeTypes
<1>4. /\ todo' \in Plans
      /\ todo' = <<"send", "receipt">> => a.ok /\ Head(todo) = "accounts"
  <2>1. <<>> \in Plans /\ <<>> # <<"send", "receipt">>
    BY DEF Plans
  <2> QED
    BY <1>0, <1>1, <2>1, PlanTails
<1>5. BridgeTypes'
  BY <1>0, <1>1, <1>2, <1>3, <1>4 DEF BridgeTypes
<1>6. RunsGoOn /\ MemoriesGoOn
  BY <1>0, <1>1, <1>2 DEF RunsGoOn, MemoriesGoOn, BridgeTypes
<1>7. Current'
  <2>1. ASSUME NEW t \in 1..calls, memory'[t].linked PROVE FALSE
    <3>1. t # call
      BY <1>2, <2>1
    <3>2. memory[t].linked
      BY <1>2, <2>1, <3>1
    <3> QED
      BY <3>1, <3>2 DEF BridgeIInv, Current
  <2> QED
    BY <1>1, <1>3, <2>1 DEF Current
<1>8. Browsing'
  BY <1>1 DEF BridgeIInv, Browsing
<1>9. Authored'
  <2> SUFFICES ASSUME NEW t \in 1..calls, NEW i \in 1..BufLen, memory'[t].buf[i] # NUL
               PROVE  Wrote(runs', memory'[t].buf[i], t)
    BY <1>1 DEF Authored
  <2>1. t # call
    BY <1>2 DEF Empty, NUL
  <2>2. memory'[t] = memory[t]
    BY <1>2, <2>1
  <2> QED
    BY <2>2 DEF BridgeIInv, Authored
<1>10. Named'
  <2> SUFFICES ASSUME todo' = <<"send", "receipt">> PROVE NamedIn(runs', memory', address', calls')
    BY DEF Named
  <2>1. a.ok /\ Head(todo) = "accounts"
    BY <1>4
  <2>2. PICK r \in 1..Len(runs) : runs[r].ans = Answer(r, TRUE, a.val) /\ runs[r].token = call
    BY <2>1
  <2>3. memory'[call].kind = "accounts"
    BY <1>0, <1>2, <2>1 DEF BridgeIInv, Current
  <2> QED
    BY <1>0, <1>1, <2>1, <2>2, <2>3 DEF NamedIn
<1>11. Owned'
  <2> SUFFICES ASSUME NEW k \in 1..Len(got') PROVE OwnAnswer(runs', got'[k], TokenOf(k)')
    BY DEF Owned
  <2>1. CASE k = Len(got) + 1
    <3>1. TokenOf(k)' = call
      BY <1>0, <1>1, <1>3, <2>1 DEF TokenOf
    <3> QED
      BY <1>3, <2>1, <3>1
  <2>2. CASE k \in 1..Len(got)
    <3>1. TokenOf(k)' = TokenOf(k)
      BY <1>0, <1>1, <1>3, <2>2 DEF TokenOf, Nobody
    <3> QED
      BY <1>3, <2>2, <3>1 DEF BridgeIInv, Owned
  <2> QED
    BY <1>0, <1>3, <2>1, <2>2
<1>12. ReplaysAreIgnored'
  BY DEF BridgeIInv, ReplaysAreIgnored
<1>13. SendersAreCurrent'
  BY <1>1, <1>2, <1>5, <1>6, Lasting, Senders
<1> QED
  BY <1>5, <1>7, <1>8, <1>9, <1>10, <1>11, <1>12, <1>13 DEF BridgeIInv

(***************************************************************************)
(* The bridge's invariant                                                  *)
(***************************************************************************)

\* It holds before the first call.
LEMMA BridgeInitially == BridgeInit => BridgeIInv
<1> SUFFICES ASSUME BridgeInit PROVE BridgeIInv
  OBVIOUS
<1>1. memory = <<>> /\ runs = <<>> /\ got = <<>> /\ todo = <<>> /\ calls = 0 /\ call = Nobody
  BY DEF BridgeInit
<1>2. <<>> \in Seq(Memories) /\ <<>> \in Seq(Runs) /\ <<>> \in Seq(Answers) /\ Len(<<>>) = 0
  BY EmptySeq
<1>3. BridgeTypes
  BY <1>1, <1>2 DEF BridgeInit, BridgeTypes, Val, Any, Plans
<1>4. DOMAIN memory = {} /\ DOMAIN runs = {}
  BY <1>1
<1>5. todo # <<"receipt">> /\ todo # <<"send", "receipt">>
  BY <1>1
<1> QED
  BY <1>1, <1>2, <1>3, <1>4, <1>5 DEF BridgeIInv, Current, Browsing, Authored, Named, Owned,
     ReplaysAreIgnored, SendersAreCurrent

\* The kernel begins an operation.
LEMMA Begun ==
  ASSUME BridgeIInv, NEW op \in {"update", "execute"}, Begin(op)
  PROVE  BridgeIInv'
<1>0. todo = <<>> /\ todo' = Plan(op) /\ got' = <<>>
      /\ UNCHANGED <<given, address, call, calls, memory, runs>>
  BY DEF Begin
<1>1. /\ todo' \in Plans /\ todo' # <<>> /\ todo' # <<"receipt">> /\ todo' # <<"send", "receipt">>
  BY <1>0 DEF Plan, Plans
<1>2. <<>> \in Seq(Answers) /\ Len(<<>>) = 0
  BY EmptySeq
<1>3. BridgeTypes'
  BY <1>0, <1>1, <1>2 DEF BridgeIInv, BridgeTypes
<1>4. call = Nobody
  BY <1>0 DEF BridgeIInv, Current
<1>5. Current' /\ Named'
  BY <1>0, <1>1, <1>4 DEF BridgeIInv, Current, Named
<1>6. Browsing' /\ Authored' /\ ReplaysAreIgnored' /\ SendersAreCurrent'
  BY <1>0 DEF BridgeIInv, Browsing, Authored, ReplaysAreIgnored, SendersAreCurrent
<1>7. Owned'
  BY <1>0, <1>2 DEF Owned
<1> QED
  BY <1>3, <1>5, <1>6, <1>7 DEF BridgeIInv

\* The kernel makes a memory of its own and displays the snippet.
LEMMA Displayed ==
  ASSUME BridgeIInv, Display
  PROVE  BridgeIInv'
<1> DEFINE t == calls + 1
           kind == Head(todo)
           arg == CASE kind = "send" -> address [] kind = "receipt" -> got[Len(got)].val [] OTHER -> 0
           yes == TRUE
           new == [linked |-> yes, buf |-> Empty, kind |-> kind, arg |-> arg]
<1>0. /\ BridgeTypes /\ todo \in Plans \ {<<>>} /\ call = Nobody /\ calls \in Nat
      /\ DOMAIN memory = 1..calls /\ Len(runs) \in Nat
  <2>1. BridgeTypes
    BY DEF BridgeIInv
  <2> QED
    BY <2>1, Elements DEF Display, BridgeTypes
<1>1. /\ call' = t /\ memory' = Append(memory, new) /\ calls' = t
      /\ UNCHANGED <<todo, given, address, runs, got>>
  <2>1. t \notin DOMAIN memory
    BY <1>0
  <2> QED
    BY <2>1 DEF Display, FreshToken
<1>2. arg \in Val
  <2>1. address \in Val /\ 0 \in Val
    BY <1>0 DEF BridgeTypes, Val
  <2>2. kind = "receipt" => got[Len(got)].val \in Val
    <3>1. kind = "receipt" => got # <<>>
      BY <1>0, PlanTails DEF BridgeIInv, Current
    <3>2. kind = "receipt" => Len(got) \in 1..Len(got)
      BY <1>0, <3>1, EmptySeq DEF BridgeTypes
    <3>3. kind = "receipt" => got[Len(got)] \in Answers
      BY <1>0, <3>2, Elements
    <3> QED
      BY <3>3, AnswerParts
  <2> QED
    BY <2>1, <2>2
<1>3. kind \in {"accounts", "send", "receipt"} /\ Empty \in [1..BufLen -> Nat] /\ yes \in BOOLEAN
  BY <1>0, PlanTails DEF Empty, NUL
<1>4. kind = "send" => arg = address
  OBVIOUS
<1> HIDE DEF arg, kind, yes
<1>5. new \in Memories /\ new.kind = kind /\ new.arg = arg /\ new.buf = Empty
  BY <1>2, <1>3 DEF Memories
<1> HIDE DEF new
<1>6. /\ memory' \in Seq(Memories) /\ Len(memory') = t /\ memory'[t] = new
      /\ \A s \in 1..calls : memory'[s] = memory[s]
  BY <1>0, <1>1, <1>5, AppendProperties DEF BridgeTypes
<1>7. t \in Nat /\ t > calls /\ t # Nobody /\ \A s \in 1..t : s = t \/ s \in 1..calls
  BY <1>0 DEF Nobody
<1>8. BridgeTypes'
  BY <1>0, <1>1, <1>6, <1>7 DEF BridgeTypes
<1>9. RunsGoOn /\ MemoriesGoOn
  BY <1>0, <1>1, <1>6, <1>7 DEF RunsGoOn, MemoriesGoOn
<1>10. Current'
  <2>1. \A s \in 1..t : memory'[s].linked => s = t
    <3> SUFFICES ASSUME NEW s \in 1..calls, memory[s].linked PROVE FALSE
      BY <1>6, <1>7
    <3> QED
      BY <1>0 DEF BridgeIInv, Current, Nobody
  <2>2. memory'[t].kind = Head(todo) /\ todo # <<>>
    BY <1>0, <1>5, <1>6 DEF kind
  <2>3. todo = <<"receipt">> => got # <<>>
    BY DEF BridgeIInv, Current
  <2> QED
    BY <1>1, <2>1, <2>2, <2>3 DEF Current
<1>11. Browsing'
  BY <1>0, <1>1 DEF BridgeIInv, Browsing
<1>12. Authored'
  <2> SUFFICES ASSUME NEW s \in 1..t, NEW i \in 1..BufLen, memory'[s].buf[i] # NUL
               PROVE  Wrote(runs', memory'[s].buf[i], s)
    BY <1>1 DEF Authored
  <2>1. s \in 1..calls /\ memory'[s] = memory[s]
    BY <1>5, <1>6, <1>7 DEF Empty
  <2> QED
    BY <1>1, <2>1 DEF BridgeIInv, Authored
<1>13. Named'
  BY <1>1, <1>7 DEF Named
<1>14. Owned'
  <2>1. \A k \in 1..Len(got) : TokenOf(k)' = TokenOf(k)
    <3>1. Len(got) \in Nat
      BY <1>0, Elements
    <3> QED
      BY <1>0, <1>1, <1>7, <3>1 DEF TokenOf
  <2> QED
    BY <1>1, <2>1 DEF BridgeIInv, Owned
<1>15. ReplaysAreIgnored'
  BY <1>1 DEF BridgeIInv, ReplaysAreIgnored
<1>16. SendersAreCurrent'
  <2> SUFFICES ASSUME NEW s \in 1..t, memory'[s].kind = "send"
               PROVE  NamedIn(runs', memory', memory'[s].arg, s - 1)
    BY <1>1, <1>8, Senders
  <2>1. CASE s \in 1..calls
    BY <1>6, <1>8, <1>9, <2>1, Lasting
  <2>2. CASE s = t
    <3>1. kind = "send" /\ memory'[s].arg = address /\ s - 1 = calls
      BY <1>0, <1>4, <1>5, <1>6, <2>2
    <3>2. NamedIn(runs, memory, address, calls)
      BY <1>0, <3>1, PlanTails DEF BridgeIInv, Named, kind
    <3> QED
      BY <1>8, <1>9, <3>1, <3>2, Lasting
  <2> QED
    BY <1>7, <2>1, <2>2
<1> QED
  BY <1>8, <1>10, <1>11, <1>12, <1>13, <1>14, <1>15, <1>16 DEF BridgeIInv

\* The kernel finds an answer.
LEMMA Woken ==
  ASSUME BridgeIInv, Wake
  PROVE  BridgeIInv'
<1>1. PICK b \in Parsed(Message) : EndCall(Checked(b)) /\ Addressed(Checked(b))
  BY DEF Wake
<1> DEFINE a == Checked(b)
<1>2. call # Nobody /\ BridgeTypes
  BY DEF Wake, BridgeIInv
<1>3. /\ b \in Answers /\ OwnAnswer(runs, b, call)
      /\ b.ok => \E r \in 1..Len(runs) : runs[r].ans = Answer(r, TRUE, b.val) /\ runs[r].token = call
  BY <1>2, Returning
<1>4. a = b \/ (a \in Answers /\ ~a.ok)
  <2>1. b.run \in Nat /\ FALSE \in BOOLEAN /\ 0 \in Val
    BY <1>3, AnswerParts DEF Val
  <2>2. Answer(b.run, FALSE, 0) \in Answers /\ ~Answer(b.run, FALSE, 0).ok
    BY <2>1, AnswerParts
  <2> QED
    BY <2>2 DEF Checked
<1> HIDE DEF a
<1>5. /\ a \in Answers /\ OwnAnswer(runs, a, call)
      /\ a.ok => \E r \in 1..Len(runs) : runs[r].ans = Answer(r, TRUE, a.val) /\ runs[r].token = call
  BY <1>3, <1>4 DEF OwnAnswer
<1>6. EndCall(a) /\ address' = IF Head(todo) = "accounts" /\ a.ok THEN a.val ELSE address
  BY <1>1 DEF Addressed, a
<1>7. a.val \in Val /\ address \in Val
  BY <1>2, <1>5, AnswerParts DEF BridgeTypes
<1>8. address' \in Val /\ (a.ok /\ Head(todo) = "accounts" => address' = a.val)
  BY <1>6, <1>7
<1>9. UNCHANGED <<given, runs>>
  BY <1>6 DEF EndCall
<1> QED
  BY <1>2, <1>5, <1>6, <1>8, <1>9, Ended

\* The deadline passes.
LEMMA TimedOut ==
  ASSUME BridgeIInv, TimeOut
  PROVE  BridgeIInv'
<1> DEFINE a == Answer(NUL, FALSE, 0)
<1>1. a \in Answers /\ ~a.ok
  <2>1. NUL \in Nat /\ FALSE \in BOOLEAN /\ 0 \in Val
    BY DEF NUL, Val
  <2> QED
    BY <2>1, AnswerParts
<1>2. call # Nobody /\ EndCall(a) /\ UNCHANGED address /\ address \in Val
  BY DEF TimeOut, BridgeIInv, BridgeTypes
<1> HIDE DEF a
<1>3. UNCHANGED <<given, runs>>
  BY <1>2 DEF EndCall
<1> QED
  BY <1>1, <1>2, <1>3, Ended DEF OwnAnswer

\* The page shows a snippet whose memory the server still knows.
LEMMA Replayed ==
  ASSUME BridgeIInv, NEW t, Replay(t)
  PROVE  BridgeIInv'
<1> DEFINE late == t # call
           a == Answer(NUL, FALSE, 0)
           new == [token |-> t, pc |-> "ask", late |-> late, len |-> 0, ans |-> a]
<1>0. /\ BridgeTypes /\ DOMAIN memory = 1..calls /\ calls \in Nat
      /\ Len(runs) \in Nat /\ DOMAIN runs = 1..Len(runs)
  BY Elements DEF BridgeIInv, BridgeTypes
<1>1. /\ t \in 1..calls /\ memory[t].linked /\ runs' = Append(runs, new)
      /\ UNCHANGED <<todo, given, address, call, calls, memory, got>>
  BY <1>0 DEF Replay
<1>2. late = FALSE /\ late \in BOOLEAN
  BY <1>1 DEF BridgeIInv, Current
<1>3. a \in Answers /\ ~a.ok
  <2>1. NUL \in Nat /\ FALSE \in BOOLEAN /\ 0 \in Val
    BY DEF NUL, Val
  <2> QED
    BY <2>1, AnswerParts
<1> HIDE DEF late, a
<1>4. new \in Runs /\ new.token = t /\ new.pc = "ask" /\ new.late = late /\ new.ans = a
  BY <1>0, <1>1, <1>2, <1>3 DEF Runs
<1> HIDE DEF new
<1>5. /\ runs' \in Seq(Runs) /\ Len(runs') = Len(runs) + 1 /\ runs'[Len(runs) + 1] = new
      /\ \A r \in 1..Len(runs) : runs'[r] = runs[r]
  BY <1>0, <1>1, <1>4, AppendProperties DEF BridgeTypes
<1>6. \A r \in 1..Len(runs') : r = Len(runs) + 1 \/ r \in 1..Len(runs)
  BY <1>0, <1>5
<1>7. BridgeTypes'
  BY <1>0, <1>1, <1>5 DEF BridgeTypes
<1>8. RunsGoOn /\ MemoriesGoOn
  BY <1>0, <1>1, <1>5 DEF RunsGoOn, MemoriesGoOn
<1>9. Current'
  BY <1>1 DEF BridgeIInv, Current
<1>10. Browsing'
  <2>1. \A r \in 1..Len(runs) :
          /\ runs'[r].token \in 1..calls'
          /\ runs'[r].pc = "ask" => ~runs'[r].ans.ok
          /\ runs'[r].pc = "copy" => runs'[r].len > 0
          /\ runs'[r].ans.ok => runs'[r].ans.run = r
    BY <1>1, <1>5 DEF BridgeIInv, Browsing
  <2>2. new.token \in 1..calls' /\ ~new.ans.ok /\ new.pc # "copy"
    BY <1>1, <1>3, <1>4
  <2> QED
    BY <1>5, <1>6, <2>1, <2>2 DEF Browsing
<1>11. Authored'
  <2> SUFFICES ASSUME NEW s \in 1..calls, NEW i \in 1..BufLen, memory[s].buf[i] # NUL
               PROVE  Wrote(runs', memory[s].buf[i], s)
    BY <1>1 DEF Authored
  <2>1. Wrote(runs, memory[s].buf[i], s)
    BY DEF BridgeIInv, Authored
  <2> QED
    BY <1>7, <1>8, <2>1, Lasting
<1>12. Named'
  <2>1. NamedIn(runs, memory, address, calls) => NamedIn(runs', memory', address, calls)
    BY <1>7, <1>8, Lasting
  <2> QED
    BY <1>1, <2>1 DEF BridgeIInv, Named
<1>13. Owned'
  <2> SUFFICES ASSUME NEW k \in 1..Len(got) PROVE OwnAnswer(runs', got[k], TokenOf(k)')
    BY <1>1 DEF Owned
  <2>1. OwnAnswer(runs, got[k], TokenOf(k))
    BY DEF BridgeIInv, Owned
  <2>2. TokenOf(k)' = TokenOf(k)
    BY <1>1 DEF TokenOf
  <2> QED
    BY <1>7, <1>8, <2>1, <2>2, Lasting
<1>14. ReplaysAreIgnored'
  <2>1. DOMAIN runs' = 1..Len(runs')
    BY <1>5, LenProperties
  <2>2. \A r \in 1..Len(runs) : ~runs[r].late
    BY <1>0 DEF BridgeIInv, ReplaysAreIgnored
  <2> QED
    BY <1>2, <1>4, <1>5, <1>6, <2>1, <2>2 DEF ReplaysAreIgnored
<1>15. SendersAreCurrent'
  BY <1>1, <1>7, <1>8, Lasting, Senders
<1> QED
  BY <1>7, <1>9, <1>10, <1>11, <1>12, <1>13, <1>14, <1>15 DEF BridgeIInv

\* The wallet or the chain answers a run that asks.
LEMMA Replied ==
  ASSUME BridgeIInv, NEW r \in 1..Len(runs), runs[r].pc = "ask",
         NEW a \in Answers, a.ok => a.run = r, Reply(r, a),
         UNCHANGED <<todo, given, address, call, calls, got, memory>>
  PROVE  BridgeIInv'
<1> DEFINE x == runs[r]
           new == Posting(x, a)
<1>1. x \in Runs /\ runs \in [1..Len(runs) -> Runs] /\ ~x.ans.ok
  BY Elements, LenProperties DEF BridgeIInv, BridgeTypes, Browsing
<1>2. runs' = [runs EXCEPT ![r] = new]
  BY <1>1 DEF Reply, Posting
<1>3. /\ new \in Runs /\ new.token = x.token /\ new.late = x.late /\ new.len = x.len
      /\ new.pc = "post" /\ new.ans = a
  BY <1>1, RunPosting
<1> HIDE DEF new
<1>4. Legal(r, new)
  BY <1>1, <1>3 DEF Legal
<1> QED
  BY <1>2, <1>4, RunningOn

\* The server is done with a run.
LEMMA PostDone ==
  ASSUME BridgeIInv, NEW r \in 1..Len(runs), runs' = [runs EXCEPT ![r].pc = "end"]
  PROVE  /\ runs' = [runs EXCEPT ![r] = Finished(runs[r])]
         /\ Legal(r, Finished(runs[r])) /\ Finished(runs[r]).len = runs[r].len
<1>1. runs[r] \in Runs /\ runs \in [1..Len(runs) -> Runs]
  BY Elements, LenProperties DEF BridgeIInv, BridgeTypes
<1>2. runs' = [runs EXCEPT ![r] = Finished(runs[r])]
  BY <1>1 DEF Finished
<1> DEFINE new == Finished(runs[r])
<1>3. /\ new \in Runs /\ new.token = runs[r].token /\ new.late = runs[r].late
      /\ new.len = runs[r].len /\ new.pc = "end" /\ new.ans = runs[r].ans
  BY <1>1, RunFinished
<1> HIDE DEF new
<1>4. runs[r].ans.ok => runs[r].ans.run = r
  BY DEF BridgeIInv, Browsing
<1>5. Legal(r, new)
  BY <1>3, <1>4 DEF Legal
<1> QED
  BY <1>2, <1>3, <1>5 DEF new

\* The server copies the first part of a body.
LEMMA Posted ==
  ASSUME BridgeIInv, NEW r \in 1..Len(runs), NEW n \in BodyLen, NEW S, Post(r, n, S)
  PROVE  BridgeIInv'
<1> DEFINE x == runs[r]
           new == BeingCopied(x, n)
<1>1. x \in Runs /\ runs \in [1..Len(runs) -> Runs] /\ n \in Nat /\ n > 0
  BY Elements, LenProperties, BridgeAssumption DEF BridgeIInv, BridgeTypes
<1>2. runs' = [runs EXCEPT ![r] = new]
  BY <1>1 DEF Post, BeingCopied
<1>3. /\ new \in Runs /\ new.token = x.token /\ new.late = x.late /\ new.len = n
      /\ new.pc = "copy" /\ new.ans = x.ans
  BY <1>1, RunBeingCopied
<1> HIDE DEF new
<1>4. x.ans.ok => x.ans.run = r
  BY DEF BridgeIInv, Browsing
<1>5. Legal(r, new)
  BY <1>1, <1>3, <1>4 DEF Legal
<1>6. Copied(r, n, S) /\ UNCHANGED <<todo, given, address, call, calls, got>>
  BY DEF Post
<1>7. /\ memory' \in Seq(Memories) /\ Len(memory') = calls
      /\ \A t \in 1..calls : memory'[t].linked = memory[t].linked /\ memory'[t].kind = memory[t].kind
                             /\ memory'[t].arg = memory[t].arg
      /\ \A t \in 1..calls : \A i \in 1..BufLen :
           \/ memory'[t].buf[i] \in {memory[t].buf[i], NUL}
           \/ memory'[t].buf[i] = r /\ t = runs[r].token /\ new.len > 0
  BY <1>1, <1>3, <1>6, Copying
<1> QED
  BY <1>2, <1>5, <1>6, <1>7, Running

\* The server copies the rest, if the memory is still there.
LEMMA PostEnded ==
  ASSUME BridgeIInv, NEW r \in 1..Len(runs), PostEnds(r)
  PROVE  BridgeIInv'
<1> DEFINE new == Finished(runs[r])
<1>1. /\ runs[r].pc = "copy" /\ runs' = [runs EXCEPT ![r].pc = "end"]
      /\ UNCHANGED <<todo, given, address, call, calls, got>>
      /\ UNCHANGED memory \/ Copied(r, runs[r].len, 1..(runs[r].len + 1))
  BY DEF PostEnds
<1>2. runs' = [runs EXCEPT ![r] = new] /\ Legal(r, new) /\ new.len = runs[r].len
  BY <1>1, PostDone
<1> HIDE DEF new
<1>3. CASE UNCHANGED memory
  BY <1>1, <1>2, <1>3, RunningOn
<1>4. ASSUME Copied(r, runs[r].len, 1..(runs[r].len + 1)) PROVE BridgeIInv'
  <2>1. new.len > 0
    BY <1>1, <1>2 DEF BridgeIInv, Browsing
  <2>2. /\ memory' \in Seq(Memories) /\ Len(memory') = calls
        /\ \A t \in 1..calls : memory'[t].linked = memory[t].linked /\ memory'[t].kind = memory[t].kind
                               /\ memory'[t].arg = memory[t].arg
        /\ \A t \in 1..calls : \A i \in 1..BufLen :
             \/ memory'[t].buf[i] \in {memory[t].buf[i], NUL}
             \/ memory'[t].buf[i] = r /\ t = runs[r].token /\ new.len > 0
    BY <1>4, <2>1, Copying
  <2> QED
    BY <1>1, <1>2, <2>2, Running
<1> QED
  BY <1>1, <1>3, <1>4

\* Every step keeps the invariant.
LEMMA BridgeInductive == BridgeIInv /\ [BridgeNext]_bridgeVars => BridgeIInv'
<1> SUFFICES ASSUME BridgeIInv, [BridgeNext]_bridgeVars PROVE BridgeIInv'
  OBVIOUS
<1>0. /\ DOMAIN memory = 1..calls /\ DOMAIN runs = 1..Len(runs) /\ Len(runs) \in Nat
      /\ \A t \in 1..calls : memory[t] \in Memories
  BY Elements DEF BridgeIInv
<1>1. CASE UNCHANGED <<todo, given, address, call, calls, memory, runs, got>>
  BY <1>1 DEF BridgeIInv, BridgeTypes, Current, Browsing, Authored, Named, Owned,
     ReplaysAreIgnored, SendersAreCurrent, TokenOf
<1>2. ASSUME NEW op \in {"update", "execute"}, Begin(op) PROVE BridgeIInv'
  BY <1>2, Begun
<1>3. CASE Display
  BY <1>3, Displayed
<1>4. CASE Wake
  BY <1>4, Woken
<1>5. CASE TimeOut
  BY <1>5, TimedOut
<1>6. ASSUME NEW t \in Token, Replay(t) PROVE BridgeIInv'
  BY <1>6, Replayed
<1>7. ASSUME NEW r \in DOMAIN runs
      PROVE  /\ \A v \in Val : Answer(r, TRUE, v) \in Answers /\ Answer(r, TRUE, v).run = r
             /\ Answer(r, FALSE, 0) \in Answers /\ Answer(r, FALSE, 0).run = r
  <2>1. r \in Nat /\ FALSE \in BOOLEAN /\ 0 \in Val
    BY <1>0, <1>7 DEF Val
  <2>2. Answer(r, FALSE, 0) \in Answers /\ Answer(r, FALSE, 0).run = r
    BY <2>1, AnswerParts, ZenonT(30)
  <2>3. \A v \in Val : Answer(r, TRUE, v) \in Answers /\ Answer(r, TRUE, v).run = r
    BY <2>1, OkAnswer
  <2> QED
    BY <2>2, <2>3
<1>8. ASSUME NEW r \in DOMAIN runs, AskWallet(r) PROVE BridgeIInv'
  <2>1. /\ runs[r].pc = "ask" /\ r \in 1..Len(runs)
        /\ UNCHANGED <<todo, given, address, call, calls, got, memory>>
    BY <1>0, <1>8 DEF AskWallet
  <2>2. \/ Reply(r, Answer(r, FALSE, 0))
        \/ \E v \in Val : Reply(r, Answer(r, TRUE, v))
    <3>1. Account \subseteq Val /\ r \in Val
      BY <1>0 DEF Val
    <3>2. \/ Reply(r, Answer(r, FALSE, 0))
          \/ \E a \in Account : Reply(r, Answer(r, TRUE, a))
          \/ Reply(r, Answer(r, TRUE, r))
      BY <1>8, Zenon DEF AskWallet
    <3> QED
      BY <3>1, <3>2, Zenon
  <2> QED
    BY <1>7, <2>1, <2>2, Replied
<1>9. ASSUME NEW r \in DOMAIN runs, AskReceipt(r) PROVE BridgeIInv'
  <2>1. /\ runs[r].pc = "ask" /\ r \in 1..Len(runs)
        /\ UNCHANGED <<todo, given, address, call, calls, got, memory>>
    BY <1>0, <1>9 DEF AskReceipt
  <2>2. memory[runs[r].token].arg \in Val
    BY <1>0, <2>1, MemoryParts DEF BridgeIInv, Browsing
  <2>3. \/ Reply(r, Answer(r, FALSE, 0))
        \/ \E v \in Val : Reply(r, Answer(r, TRUE, v))
    BY <1>9, <2>2 DEF AskReceipt
  <2> QED
    BY <1>7, <2>1, <2>3, Replied
<1>10. ASSUME NEW r \in DOMAIN runs, PostRefused(r) PROVE BridgeIInv'
  <2>1. /\ r \in 1..Len(runs) /\ runs' = [runs EXCEPT ![r].pc = "end"]
        /\ UNCHANGED <<todo, given, address, call, calls, got, memory>>
    BY <1>0, <1>10 DEF PostRefused
  <2>2. runs' = [runs EXCEPT ![r] = Finished(runs[r])] /\ Legal(r, Finished(runs[r]))
    BY <2>1, PostDone
  <2> QED
    BY <2>1, <2>2, RunningOn
<1>11. ASSUME NEW r \in DOMAIN runs, PostEnds(r) PROVE BridgeIInv'
  BY <1>0, <1>11, PostEnded
<1>12. ASSUME NEW r \in DOMAIN runs, NEW n \in BodyLen, NEW S \in SUBSET (1..BufLen), Post(r, n, S)
       PROVE  BridgeIInv'
  BY <1>0, <1>12, Posted
<1>13. ASSUME NEW r \in sent, Mine(r) PROVE BridgeIInv'
  BY <1>1, <1>13 DEF Mine
<1> QED
  BY <1>1, <1>2, <1>3, <1>4, <1>5, <1>6, <1>8, <1>9, <1>10, <1>11, <1>12, <1>13
     DEF BridgeNext, bridgeVars

\* An invariant of the bridge.
LEMMA BridgeInvariance == BridgeSpec => []BridgeIInv
  BY BridgeInitially, BridgeInductive, PTL DEF BridgeSpec

\* _javascript_call returns answers of its own call: a late answer to a call that
\* timed out is in nobody's memory.
THEOREM AnswersAreAlwaysOwn == BridgeSpec => []AnswersAreOwn
<1>1. BridgeIInv => AnswersAreOwn
  <2> SUFFICES ASSUME BridgeIInv, NEW k \in DOMAIN got, got[k].ok,
                      ~(got[k].run # NUL /\ runs[got[k].run].token = TokenOf(k))
               PROVE  Cardinality({r \in DOMAIN runs : runs[r].token = TokenOf(k) /\ runs[r].len > 0}) > 1
    BY DEF AnswersAreOwn
  <2> DEFINE S == {r \in DOMAIN runs : runs[r].token = TokenOf(k) /\ runs[r].len > 0}
  <2>1. DOMAIN got = 1..Len(got) /\ DOMAIN runs = 1..Len(runs) /\ Len(runs) \in Nat
    BY Elements DEF BridgeIInv
  <2>2. OwnAnswer(runs, got[k], TokenOf(k))
    BY <2>1 DEF BridgeIInv, Owned
  <2>3. Mixed(runs, TokenOf(k))
    BY <2>1, <2>2 DEF OwnAnswer, NUL
  <2>4. \E q, r \in S : q # r
    BY <2>1, <2>3 DEF Mixed, Wrote
  <2>5. IsFiniteSet(S)
    <3>1. Len(runs) \in Int /\ 1 \in Int
      BY <2>1
    <3>2. IsFiniteSet(1..Len(runs)) /\ S \subseteq 1..Len(runs)
      BY <2>1, <3>1, FS_Interval
    <3> HIDE DEF S
    <3> QED
      BY <3>2, FS_Subset
  <2> HIDE DEF S
  <2>6. Cardinality(S) > 1
    BY <2>4, <2>5, MoreThanOne
  <2> QED
    BY <2>6 DEF S
<1> QED
  BY <1>1, BridgeInvariance, PTL

\* A snippet that is shown again after its call has ended finds no memory, and
\* never reaches the wallet (handleCallback in jupyter.js, CallbackHandler).
THEOREM ReplaysAreAlwaysIgnored == BridgeSpec => []ReplaysAreIgnored
<1>1. BridgeIInv => ReplaysAreIgnored
  BY DEF BridgeIInv
<1> QED
  BY <1>1, BridgeInvariance, PTL

\* BrowserEnv sends from an account that the wallet named in the same operation.
THEOREM SendersAreAlwaysCurrent == BridgeSpec => []SendersAreCurrent
<1>1. BridgeIInv => SendersAreCurrent
  BY DEF BridgeIInv
<1> QED
  BY <1>1, BridgeInvariance, PTL
=============================================================================

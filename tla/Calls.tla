------------------------------- MODULE Calls -------------------------------
(***************************************************************************)
(* A call of a contract's function, the calls inside it, and what boa      *)
(* tells of them afterwards: the stack trace of an error                   *)
(* (boa/contracts/base_evm_contract.py, boa/contracts/vyper/               *)
(* vyper_contract.py) and the gas profile (boa/profiling.py, with the      *)
(* meter of boa/vm/gas_meters.py).                                         *)
(*                                                                         *)
(* The object that boa has for a computation's address is a VyperContract  *)
(* ("vyper"), a VyperContract that stands for a minimal proxy ("proxy"),   *)
(* an ABIContract ("abi"), or there is none ("unknown").  All run the      *)
(* same code: 0 the dispatcher, 1 a CALL, 2 the test of its result, 3 other*)
(* work, 4 RETURN or REVERT, which costs no gas.  The source map knows 1,  *)
(* 2 and 3.  Computation 1 is the call that the user made.                 *)
(***************************************************************************)
EXTENDS Integers, Sequences, SequencesExt

CONSTANTS
  StartGas,     \* the gas of the user's call
  MaxComps,     \* bound on the computations
  MaxSteps      \* bound on the opcodes executed

ASSUME CallsAssumption == StartGas \in Nat /\ MaxComps \in Nat /\ MaxSteps \in Nat

VARIABLES
  comps,        \* the computations, in the order they started
  open,         \* the one that executes, 0 when the call is over
  steps         \* opcodes executed

callVars == <<comps, open, steps>>

Mapped == {1, 2, 3}
Cost == <<2, 1, 1>>       \* of 1, 2 and 3
CostOf(p) == IF p \in DOMAIN Cost THEN Cost[p] ELSE 1
Kinds == {"vyper", "proxy", "abi", "unknown"}

\* titanoboa_computation, with its TracingCodeStream and ProfilingGasMeter
NewComp(who, parent, gas) ==
  [who |-> who, parent |-> parent, gas |-> gas, left |-> gas,
   pc |-> 0, trace |-> <<>>, used |-> <<>>, refunded |-> <<>>,
   children |-> <<>>, childPcs |-> <<>>,
   end |-> "open", cause |-> 0, dev |-> 0]

CallsInit ==
  /\ comps \in {<<NewComp(who, 0, StartGas)>> : who \in Kinds \ {"unknown"}}
  /\ open = 1 /\ steps = 0

Failed(i) == comps[i].end \in {"revert", "burn"}

\* d[pc] += n, after setdefault(pc, 0)
Add(d, pc, n) ==
  [p \in DOMAIN d \union {pc} |->
     (IF p \in DOMAIN d THEN d[p] ELSE 0) + (IF p = pc THEN n ELSE 0)]

(***************************************************************************)
(* Execution                                                               *)
(***************************************************************************)

\* The code stream notes an opcode in its trace and moves on.
Fetch(c) == [c EXCEPT !.trace = Append(@, c.pc), !.pc = @ + 1]

\* consume_gas books under the opcode, which is at program_counter - 1.
ConsumeGas(c, n) == [c EXCEPT !.left = @ - n, !.used = Add(@, c.pc - 1, n)]

\* return_gas, of what a child has left
KeepsBooked(c, n) == [c EXCEPT !.left = @ + n]
ReturnGas(c, n) == [c EXCEPT !.left = @ + n, !.used = Add(@, c.pc - 1, -n)]

RefundGas(c, n) == IF n = 0 THEN c ELSE [c EXCEPT !.refunded = Add(@, c.pc - 1, n)]

Step == open # 0 /\ steps < MaxSteps /\ steps' = steps + 1
Current == comps[open]

\* An opcode of the dispatcher or of the other work, and where it jumps to.
Work(refund, target) ==
  LET c == Current
  IN /\ Step /\ c.pc \in {0, 3} /\ c.left > CostOf(c.pc)
     /\ target \in (IF c.pc = 0 THEN {1, 3} ELSE {0, 1, 4})
     /\ c.who = "proxy" => c.pc = 0 /\ target = 1
     /\ refund = 0 \/ c.pc = 3
     /\ comps' = [comps EXCEPT ![open] =
          [RefundGas(ConsumeGas(Fetch(c), CostOf(c.pc)), refund) EXCEPT !.pc = target]]
     /\ UNCHANGED open

\* CALL gives a part of the gas to a new computation.
Call(who) ==
  LET c == Current
      given == (c.left - CostOf(1)) \div 2
  IN /\ Step /\ c.pc = 1 /\ given > 0 /\ Len(comps) < MaxComps
     /\ comps' = Append([comps EXCEPT ![open] = ConsumeGas(Fetch(c), CostOf(1) + given)],
                        NewComp(who, open, given))
     /\ open' = Len(comps) + 1

\* The caller tests the result of the call: a failure makes it revert, or is
\* ignored (raw_call with revert_on_failure=False).
Test(ignored) ==
  LET c == Current
      child == Last(c.children)
  IN /\ Step /\ c.pc = 2 /\ c.left > CostOf(2)
     /\ ignored => Failed(child) /\ c.who # "proxy"
     /\ comps' = [comps EXCEPT ![open] =
          [ConsumeGas(Fetch(c), CostOf(2)) EXCEPT
             !.pc = IF (Failed(child) /\ ~ignored) \/ c.who = "proxy" THEN 4 ELSE 3,
             !.cause = IF Failed(child) /\ ~ignored THEN child ELSE 0]]
     /\ UNCHANGED open

\* add_child_computation
AddChild(c, child) == [c EXCEPT !.children = Append(@, child), !.childPcs = Append(@, c.pc)]

\* A computation is over: its caller gets it as a child, and gets back the gas that
\* is left, unless the error burns it.
Over(c) ==
  /\ open' = c.parent
  /\ comps' = IF c.parent = 0 THEN [comps EXCEPT ![open] = c]
              ELSE [comps EXCEPT ![open] = c,
                      ![c.parent] = ReturnGas(AddChild(comps[c.parent], open), c.left)]

Return ==
  /\ Step /\ Current.pc = 4 /\ Current.cause = 0
  /\ Over([Fetch(Current) EXCEPT !.end = "ok"])

\* The source of the REVERT, or of the failing call, may carry a dev reason.
Revert(dev) ==
  /\ Step /\ Current.pc = 4
  /\ dev => Current.who \in {"vyper", "proxy"}
  /\ Current.who = "proxy" => Current.cause # 0
  /\ Over([Fetch(Current) EXCEPT !.end = "revert", !.dev = IF dev THEN open ELSE 0,
                                 !.cause = IF @ = 0 THEN open ELSE @])

\* consume_gas raises before anything is booked, and the error takes all gas.
OutOfGas ==
  /\ Step /\ Current.pc # 4
  /\ Over([Fetch(Current) EXCEPT !.end = "burn", !.left = 0, !.cause = open])

CallsNext ==
  \/ \E refund \in 0..1, target \in {0, 1, 3, 4} : Work(refund, target)
  \/ \E who \in Kinds : Call(who)
  \/ \E ignored \in BOOLEAN : Test(ignored)
  \/ Return
  \/ \E dev \in BOOLEAN : Revert(dev)
  \/ OutOfGas

(***************************************************************************)
(* The stack trace of a failed call                                        *)
(***************************************************************************)

IsText(i) == comps[i].who \in {"abi", "unknown"}

\* VyperContract.stack_trace goes on to the last child if the compiler's error is
\* that a call or a creation failed, or if it is a minimal proxy;
\* ABIContract.stack_trace and _trace_for_unknown_contract always go on.
AlwaysDescends(i) == comps[i].children # <<>> /\ Failed(Last(comps[i].children))
Descends(i) ==
  /\ comps[i].who = "vyper" => comps[i].cause # i
  /\ comps[i].children # <<>> /\ Failed(Last(comps[i].children))

\* No trace: a frame of text cannot be given a dev reason (AttributeError).
Crash == <<>>

\* _handle_child_trace: a frame without a dev reason takes that of its child.
Propagated(i, below) ==
  LET dev == comps[i].dev
      childDev == IF IsText(Last(below).of) THEN 0 ELSE Last(below).dev
  IN IF below = Crash \/ (childDev # 0 /\ IsText(i)) THEN Crash
     ELSE Append(below, [of |-> i, dev |-> IF dev = 0 THEN childDev ELSE dev])

StackTrace ==
  LET trace[i \in DOMAIN comps] ==
        IF Descends(i) THEN Propagated(i, trace[Last(comps[i].children)])
        ELSE <<[of |-> i, dev |-> comps[i].dev]>>
  IN trace[1]

(***************************************************************************)
(* The gas profile of a successful call                                    *)
(***************************************************************************)

\* get_gas_used and get_gas_refund of a computation
GasUsed(i) == comps[i].gas - comps[i].left
SumOver(d) == FoldFunction(+, 0, d)
GasRefund ==
  LET refund[i \in DOMAIN comps] ==
        IF Failed(i) THEN 0
        ELSE SumOver(comps[i].refunded)
               + SumOver([k \in DOMAIN comps[i].children |-> refund[comps[i].children[k]]])
  IN refund

\* _SingleComputation.by_pc: the net gas of each opcode, adjusted for the children
\* under the opcode after the CALL, which must be known by then.
ByPcRaises(i) ==
  \E k \in DOMAIN comps[i].childPcs :
    comps[i].childPcs[k] \notin DOMAIN comps[i].used \union DOMAIN comps[i].refunded
ByPc(i, p) ==
  LET c == comps[i]
      at == {k \in DOMAIN c.childPcs : c.childPcs[k] = p}
  IN (IF p \in DOMAIN c.used THEN c.used[p] ELSE 0)
       - (IF p \in DOMAIN c.refunded THEN c.refunded[p] ELSE 0)
       - SumOver([k \in at |-> GasUsed(c.children[k]) - GasRefund[c.children[k]]])

\* _SingleComputation.by_line: an opcode belongs to the line of the last opcode
\* before it that the source map knows, if there is one, and counts once.
Located(i) ==
  {comps[i].trace[k] : k \in {k \in DOMAIN comps[i].trace :
                                \E j \in 1..k : comps[i].trace[j] \in Mapped}}
NetGas(i) == SumOver([p \in Located(i) |-> ByPc(i, p)])

\* cache_gas_used_for_computation: a call of a VyperContract that succeeded is
\* profiled, and with it the calls inside it, through whatever contracts.
Profile ==
  LET cached[i \in DOMAIN comps] ==
        (IF IsText(i) THEN <<>> ELSE <<[of |-> i, netGas |-> NetGas(i)]>>)
          \o FlattenSeq([k \in DOMAIN comps[i].children |-> cached[comps[i].children[k]]])
  IN IF IsText(1) \/ Failed(1) THEN <<>> ELSE cached[1]
ProfileRaises == \E i \in DOMAIN comps : ~IsText(i) /\ ByPcRaises(i)

(***************************************************************************)
(* Properties                                                              *)
(***************************************************************************)

\* The computations whose failure made the user's call fail, outermost first.
Causes ==
  LET chain[i \in DOMAIN comps] ==
        IF comps[i].cause \in {0, i} THEN <<i>> ELSE <<i>> \o chain[comps[i].cause]
  IN chain[1]

\* The trace of a failed call names the computations that made it fail, from the
\* outermost to the one where the error arose, and no call whose failure was
\* ignored, unless boa has no source of the innermost one; and the dev reason that
\* boa.reverts compares is the outermost one given on that way.  It is lost, with
\* an AttributeError, only if a contract without source called one that has it.
TraceFollowsCauses ==
  open = 0 /\ Failed(1) =>
    LET frames == [k \in DOMAIN StackTrace |-> StackTrace[k].of]
        given == {k \in DOMAIN Causes : comps[Causes[k]].dev # 0}
    IN IF StackTrace = Crash
       THEN \E i, j \in DOMAIN comps : i < j /\ IsText(i) /\ comps[j].dev # 0
       ELSE /\ IsPrefix(Causes, Reverse(frames))
            /\ comps[Last(Causes)].who = "vyper" => Len(frames) = Len(Causes)
            /\ (\A k \in DOMAIN Causes : ~IsText(Causes[k])) /\ Len(frames) = Len(Causes) =>
                 Last(StackTrace).dev = (IF given = {} THEN 0 ELSE comps[Causes[Min(given)]].dev)

\* Every computation of a contract with source inside a successful call is
\* profiled once, with the gas of its own opcodes from the first one the source
\* map knows, less its own refunds: what its children used is not counted again,
\* but their refunds, which its meter never saw, are added.  Nothing is cached,
\* with a KeyError, only if gas ran out right after a CALL.
ProfileIsOwn ==
  open = 0 /\ ~Failed(1) /\ ~IsText(1) =>
    IF ProfileRaises
    THEN \E i \in DOMAIN comps : comps[i].end = "burn" /\ Last(comps[i].trace) = 2
    ELSE /\ Len(Profile) = Cardinality({i \in DOMAIN comps : ~IsText(i)})
         /\ \A k \in DOMAIN Profile :
              LET i == Profile[k].of
                  c == comps[i]
                  paid == {n \in DOMAIN c.trace :
                             /\ c.trace[n] \in Located(i) \ {4}
                             /\ ~(c.end = "burn" /\ n = Len(c.trace))}
              IN /\ \A m \in DOMAIN Profile : Profile[m].of = i => m = k
                 /\ Profile[k].netGas = SumOver([n \in paid |-> CostOf(c.trace[n])])
                                        - SumOver(c.refunded)
                                        + SumOver([n \in DOMAIN c.children |-> GasRefund[c.children[n]]])
=============================================================================

----------------------------- MODULE IRExecutor -----------------------------
(***************************************************************************)
(* boa/contracts/vyper/ir_executor.py: fast mode runs a contract's vyper   *)
(* IR as Python instead of its bytecode.  An IR tree is analysed (names    *)
(* are resolved to slots, because `with` and `repeat` may shadow), and the *)
(* analysed tree compiled to one Python function for the contract and one  *)
(* per label.                                                              *)
(*                                                                         *)
(* Py is what the generated Python does, Ref what the IR means: lexically  *)
(* scoped variables, arithmetic of EVM words, flat memory.  Arguments are  *)
(* evaluated from the last to the first in both.                           *)
(*                                                                         *)
(* A node is a record [op, name, val, args].  Names are sequences: the     *)
(* Python name of variable x in slot s is x_s, or just x in slot 0.        *)
(***************************************************************************)
EXTENDS Arithmetic, FiniteSets, TLC

CONSTANTS
  MemWords,     \* words of memory
  Calldata,     \* the message data, a sequence of bytes
  Code,         \* the bytecode of the contract, immutables last
  ImmSize,      \* immutables_size
  Programs      \* the programs to run: [main, labels]

VARIABLES
  prog,         \* the IR tree
  static,       \* VM.msg.is_static
  code,         \* the analysed tree, once compiled
  py,           \* the outcome of the generated Python
  ref           \* the outcome the IR stands for

vars == <<prog, static, code, py, ref>>

Node(op, name, val, args) == [op |-> op, name |-> name, val |-> val, args |-> args]
None == Node("none", <<>>, 0, <<>>)

F == INSTANCE FastMem WITH
       Byte <- Bit, WordSize <- Width, MaxWords <- MemWords,
       ToInt <- to_int, ToBytes <- LAMBDA n : to_bytes(n, Width), DIRTY <- -1,
       UnalignedReads <- FALSE, EmptyExtends <- FALSE, mem <- py, out <- ref

(***************************************************************************)
(* Analysis                                                                *)
(***************************************************************************)

\* _get_local_pyname: a shadowed name gets a suffix.
IgnoresShadowing(name, slot) == name
OutName(name, slot) == IF slot > 0 THEN Append(name, slot) ELSE name

\* The slots inside a node that binds name: CompileContext.variables.
Bind(slots, next, name) == (name :> next) @@ slots

RECURSIVE Analyze(_, _, _)
Analyze(n, slots, next) ==
  LET outer(k) == [i \in 1..k |-> Analyze(n.args[i], slots, next)]
      last == Len(n.args)
  IN CASE n.op \in {"var", "set"} ->
            [n EXCEPT !.name = OutName(n.name, slots[n.name]), !.args = outer(last)]
       [] n.op \in {"with", "repeat"} ->
            [n EXCEPT !.name = OutName(n.name, next),
                      !.args = Append(outer(last - 1),
                        Analyze(n.args[last], Bind(slots, next, n.name), next + 1))]
       [] OTHER -> [n EXCEPT !.args = outer(last)]

\* A label gets a frame of its own, with its parameters in the first slots.
AnalyzeLabel(l) ==
  LET k == Len(l.params)
      slots == [x \in {l.params[i] : i \in 1..k} |->
                  CHOOSE s \in 0..(k - 1) : l.params[s + 1] = x]
  IN [params |-> [i \in 1..k |-> OutName(l.params[i], i - 1)],
      body |-> Analyze(l.body, slots, k)]

(***************************************************************************)
(* Single instructions                                                     *)
(***************************************************************************)

\* An opcode without an executor of its own goes to py-evm: the arguments are
\* pushed in reverse, and the opcode pops them.
Opcode(op, v) ==
  LET stack == [i \in 1..Len(v) |-> v[Len(v) + 1 - i]]
      top == stack[Len(stack)]
      second == stack[Len(stack) - 1]
  IN IF top < Width THEN to_bytes(second, Width)[top + 1] ELSE 0

\* A slice of bytes, padded on the right with zeros up to n.
Padded(s, p, n) == [i \in 1..n |-> IF p + i \in 1..Len(s) THEN s[p + i] ELSE 0]

(***************************************************************************)
(* The generated Python.  Its state: the local variables, memory, storage, *)
(* logs, the value of the last expression, and how control left it:        *)
(* "crash" is a Python exception that the EVM does not know.               *)
(***************************************************************************)

Stop(st, sig) == [st EXCEPT !.sig = sig]
Value(st, v) == [st EXCEPT !.val = v]

\* VM.memory_read_bytes: needs_writeback is indexed word by word.
ReadPy(st, p, n) ==
  IF \E w \in F!Touched(p, n) : w >= st.mem.words THEN Stop(st, "crash")
  ELSE LET m == F!Flushed(st.mem, p, n)
       IN [st EXCEPT !.mem = m, !.data = F!Slice(m, p, n)]

WritePy(st, p, s, n) ==
  [st EXCEPT !.mem = F!RangeWritten(F!Extended(@, p, n), p, s, n)]

\* Data: the message's, and the immutables at the end of the code.
CalldataSize(st) == Value(st, Len(Calldata))
CalldataLoad(v, st) == Value(st, to_int(Padded(Calldata, v[1], Width)))
CalldataCopy(v, st) == WritePy(st, v[1], Padded(Calldata, v[2], v[3]), v[3])
InCode(ptr) == ptr - ImmSize + Len(Code)
DLoad(v, st) == Value(st, to_int(Padded(Code, InCode(v[1]), Width)))
DLoadBytes(v, st) == WritePy(st, v[1], Padded(Code, InCode(v[2]), v[3]), v[3])

MLoadPy(v, st) ==
  LET r == F!WordRead(F!Extended(st.mem, v[1], Width), v[1])
  IN Value([st EXCEPT !.mem = r.mem], r.val)

MStorePy(v, st) == [st EXCEPT !.mem = F!WordWritten(F!Extended(@, v[1], Width), v[1], v[2])]

\* The tracing hooks that the code of SSTORE and of sha3_64 calls do not exist.
SLoad(v, st) == Value(st, st.sto[v[1]])
SStore(st) == Stop(st, IF static THEN "fail" ELSE "crash")
Sha3_64(st) == Stop(st, "crash")

\* A log is taken in a static call too.
Log(v, st) ==
  LET r == ReadPy([st EXCEPT !.mem = F!Extended(@, v[1], v[2])], v[1], v[2])
  IN [r EXCEPT !.logs = Append(@, <<v[3], r.data>>)]

AssertTrue(v, st) == IF v[1] = 0 THEN Stop(st, "revert") ELSE st

\* RETURN and REVERT: the memory is read without being extended.
Finish(sig, v, st) ==
  LET r == ReadPy(st, v[1], v[2])
  IN IF r.sig = "crash" THEN r ELSE [r EXCEPT !.output = r.data, !.sig = sig]

OpPy(op, v, st) ==
  CASE op \in Unsigned \union Signed -> Value(st, Binop(op, v))
    [] op \in Shifts -> Value(st, Shift(op, v))
    [] op = "byte" -> Value(st, Opcode(op, v))
    [] op = "iszero" -> Value(st, Truth(v[1] = 0))
    [] op = "ceil32" -> Value(st, ceil32(v[1], Width))
    [] op = "select" -> Value(st, IF v[1] # 0 THEN v[2] ELSE v[3])
    [] op = "calldatasize" -> CalldataSize(st)
    [] op = "calldataload" -> CalldataLoad(v, st)
    [] op = "calldatacopy" -> CalldataCopy(v, st)
    [] op = "dload" -> DLoad(v, st)
    [] op = "dloadbytes" -> DLoadBytes(v, st)
    [] op = "mload" -> MLoadPy(v, st)
    [] op = "mstore" -> MStorePy(v, st)
    [] op = "sload" -> SLoad(v, st)
    [] op = "sstore" -> SStore(st)
    [] op = "sha3_64" -> Sha3_64(st)
    [] op = "log" -> Log(v, st)
    [] op = "assert" -> AssertTrue(v, st)
    [] op = "stop" -> Stop(st, "halt")
    [] op = "return" -> Finish("halt", v, st)
    [] op = "revert" -> Finish("revert", v, st)
    [] op \in {"pass", "cleanup_repeat"} -> st

RECURSIVE Py(_, _, _)
RECURSIVE PyArgs(_, _, _)
RECURSIVE PySeq(_, _, _)
RECURSIVE PyLoop(_, _, _, _, _)
RECURSIVE PyCall(_, _, _)

\* _compile_args: the last argument first.
PyArgs(ns, st, labels) ==
  IF ns = <<>> THEN [st EXCEPT !.vs = <<>>]
  ELSE LET later == PyArgs(Tail(ns), st, labels)
           first == Py(Head(ns), later, labels)
       IN [first EXCEPT !.vs = <<first.val>> \o later.vs]

PySeq(ns, st, labels) ==
  IF ns = <<>> THEN st ELSE PySeq(Tail(ns), Py(Head(ns), st, labels), labels)

\* for i in range(start, end)
PyLoop(n, i, end, st, labels) ==
  IF i >= end \/ st.sig # "ok" THEN st
  ELSE LET b == Py(n.args[3], [st EXCEPT !.vars = (n.name :> i) @@ @], labels)
       IN IF b.sig = "break" THEN Stop(b, "ok")
          ELSE PyLoop(n, i + 1, end, IF b.sig = "continue" THEN Stop(b, "ok") ELSE b, labels)

\* A call of the Python function of a label: locals of its own.
PyCall(n, st, labels) ==
  LET a == PyArgs(n.args, st, labels)
      l == labels[n.name]
      r == Py(l.body, [a EXCEPT !.vars = [x \in {l.params[i] : i \in DOMAIN l.params} |->
                          a.vs[CHOOSE i \in DOMAIN l.params : l.params[i] = x]]], labels)
  IN IF a.sig # "ok" THEN a
     ELSE [r EXCEPT !.vars = a.vars, !.sig = IF @ = "exit" THEN "ok" ELSE @]

\* A variable is a local of the Python function.
PySet(n, st, labels) ==
  LET v == Py(n.args[1], st, labels)
  IN IF v.sig # "ok" THEN v ELSE [v EXCEPT !.vars = (n.name :> v.val) @@ @]

PyWith(n, st, labels) == Py(n.args[2], PySet(n, st, labels), labels)

PyIf(n, st, labels) ==
  LET t == Py(n.args[1], st, labels)
  IN IF t.sig # "ok" THEN t
     ELSE IF t.val # 0 THEN Py(n.args[2], t, labels)
     ELSE IF Len(n.args) = 3 THEN Py(n.args[3], t, labels) ELSE t

\* `assert rounds <= bound` is Python's.
PyRepeat(n, st, labels) ==
  LET start == Py(n.args[1], st, labels)
      rounds == Py(n.args[2], start, labels)
  IN IF rounds.sig # "ok" THEN rounds
     ELSE IF rounds.val > n.val THEN Stop(rounds, "crash")
     ELSE PyLoop(n, start.val, start.val + rounds.val, rounds, labels)

\* `return`, or `return label(...)`.
PyExitTo(n, st, labels) ==
  IF n.name = <<>> THEN Stop(st, "exit")
  ELSE LET r == PyCall(n, st, labels)
       IN IF r.sig = "ok" THEN Stop(r, "exit") ELSE r

Py(n, st, labels) ==
  IF st.sig # "ok" THEN st
  ELSE CASE n.op = "int" -> Value(st, Wrap(n.val))
         [] n.op = "var" -> Value(st, st.vars[n.name])
         [] n.op = "with" -> PyWith(n, st, labels)
         [] n.op = "set" -> PySet(n, st, labels)
         [] n.op = "seq" -> PySeq(n.args, st, labels)
         [] n.op = "if" -> PyIf(n, st, labels)
         [] n.op = "repeat" -> PyRepeat(n, st, labels)
         [] n.op \in {"break", "continue"} -> Stop(st, n.op)
         [] n.op = "goto" -> PyCall(n, st, labels)
         [] n.op = "exit_to" -> PyExitTo(n, st, labels)
         [] OTHER -> LET a == PyArgs(n.args, st, labels)
                     IN IF a.sig # "ok" THEN a ELSE OpPy(n.op, a.vs, a)

(***************************************************************************)
(* What the IR means                                                       *)
(***************************************************************************)

RangeRef(st, p, n) == [i \in 1..n |-> st.mem[p + i - 1]]
WriteRef(st, p, s, n) ==
  [st EXCEPT !.mem = [i \in DOMAIN @ |-> IF i \in p..(p + n - 1) THEN s[i - p + 1] ELSE @[i]]]

Immutables == SubSeq(Code, Len(Code) - ImmSize + 1, Len(Code))

OpRef(op, v, st) ==
  CASE op \in Unsigned \union Signed -> Value(st, ArithRef(op, v[1], v[2]))
    [] op \in Shifts -> Value(st, ShiftRef(op, v[1], v[2]))
    [] op = "byte" -> Value(st, IF v[1] < Width THEN (v[2] \div Pow2[Width - 1 - v[1]]) % 2 ELSE 0)
    [] op = "iszero" -> Value(st, Truth(v[1] = 0))
    [] op = "ceil32" -> Value(st, Width * F!Ceil(v[1]))
    [] op = "select" -> Value(st, IF v[1] = 0 THEN v[3] ELSE v[2])
    [] op = "calldatasize" -> Value(st, Len(Calldata))
    [] op = "calldataload" -> Value(st, to_int(Padded(Calldata, v[1], Width)))
    [] op = "calldatacopy" -> WriteRef(st, v[1], Padded(Calldata, v[2], v[3]), v[3])
    [] op = "dload" -> Value(st, to_int(Padded(Immutables, v[1], Width)))
    [] op = "dloadbytes" -> WriteRef(st, v[1], Padded(Immutables, v[2], v[3]), v[3])
    [] op = "mload" -> Value(st, to_int(RangeRef(st, v[1], Width)))
    [] op = "mstore" -> WriteRef(st, v[1], to_bytes(v[2], Width), Width)
    [] op = "sload" -> Value(st, st.sto[v[1]])
    [] op = "sstore" -> IF static THEN Stop(st, "fail") ELSE [st EXCEPT !.sto[v[1]] = v[2]]
    [] op = "sha3_64" -> Value(st, 0)
    [] op = "log" -> IF static THEN Stop(st, "fail")
                     ELSE [st EXCEPT !.logs = Append(@, <<v[3], RangeRef(st, v[1], v[2])>>)]
    [] op = "assert" -> IF v[1] = 0 THEN Stop(st, "revert") ELSE st
    [] op = "stop" -> Stop(st, "halt")
    [] op = "return" -> [st EXCEPT !.output = RangeRef(st, v[1], v[2]), !.sig = "halt"]
    [] op = "revert" -> [st EXCEPT !.output = RangeRef(st, v[1], v[2]), !.sig = "revert"]
    [] op \in {"pass", "cleanup_repeat"} -> st

\* The variables are a stack of bindings; the last one of a name counts.
Innermost(env, name) ==
  CHOOSE i \in DOMAIN env : env[i][1] = name /\ \A j \in DOMAIN env : env[j][1] = name => j <= i
Push(st, name, v) == [st EXCEPT !.vars = Append(@, <<name, v>>)]
Pop(st) == [st EXCEPT !.vars = SubSeq(@, 1, Len(@) - 1)]

RECURSIVE Ref(_, _, _)
RECURSIVE RefArgs(_, _, _)
RECURSIVE RefSeq(_, _, _)
RECURSIVE RefLoop(_, _, _, _, _)
RECURSIVE RefJump(_, _, _)

RefArgs(ns, st, labels) ==
  IF ns = <<>> THEN [st EXCEPT !.vs = <<>>]
  ELSE LET later == RefArgs(Tail(ns), st, labels)
           first == Ref(Head(ns), later, labels)
       IN [first EXCEPT !.vs = <<first.val>> \o later.vs]

RefSeq(ns, st, labels) ==
  IF ns = <<>> THEN st ELSE RefSeq(Tail(ns), Ref(Head(ns), st, labels), labels)

RefLoop(n, i, left, st, labels) ==
  IF left = 0 \/ st.sig # "ok" THEN st
  ELSE LET b == Pop(Ref(n.args[3], Push(st, n.name, i), labels))
       IN CASE b.sig = "break" -> Stop(b, "ok")
            [] b.sig = "continue" -> RefLoop(n, i + 1, left - 1, Stop(b, "ok"), labels)
            [] OTHER -> RefLoop(n, i + 1, left - 1, b, labels)

\* A jump to a label; control comes back only through the return pc.
RefJump(n, st, labels) ==
  LET a == RefArgs(n.args, st, labels)
      l == labels[n.name]
      r == Ref(l.body, [a EXCEPT !.vars = [i \in DOMAIN l.params |-> <<l.params[i], a.vs[i]>>]], labels)
  IN IF a.sig # "ok" THEN a ELSE [r EXCEPT !.vars = a.vars]

Ref(n, st, labels) ==
  IF st.sig # "ok" THEN st
  ELSE CASE n.op = "int" -> Value(st, n.val % Mod)
         [] n.op = "var" -> Value(st, st.vars[Innermost(st.vars, n.name)][2])
         [] n.op = "set" ->
              LET v == Ref(n.args[1], st, labels)
              IN [v EXCEPT !.vars[Innermost(v.vars, n.name)] = <<n.name, v.val>>]
         [] n.op = "with" ->
              LET v == Ref(n.args[1], st, labels)
              IN IF v.sig # "ok" THEN v
                 ELSE Pop(Ref(n.args[2], Push(v, n.name, v.val), labels))
         [] n.op = "seq" -> RefSeq(n.args, st, labels)
         [] n.op = "if" ->
              LET t == Ref(n.args[1], st, labels)
              IN CASE t.val # 0 -> Ref(n.args[2], t, labels)
                   [] t.val = 0 /\ Len(n.args) = 3 -> Ref(n.args[3], t, labels)
                   [] OTHER -> t
         [] n.op = "repeat" ->
              LET start == Ref(n.args[1], st, labels)
                  rounds == Ref(n.args[2], start, labels)
              IN IF rounds.sig = "ok" /\ rounds.val > n.val THEN Stop(rounds, "revert")
                 ELSE RefLoop(n, start.val, rounds.val, rounds, labels)
         [] n.op \in {"break", "continue"} -> Stop(st, n.op)
         [] n.op = "goto" ->
              LET r == RefJump(n, st, labels) IN IF r.sig = "exit" THEN Stop(r, "ok") ELSE r
         [] n.op = "exit_to" -> IF n.name = <<>> THEN Stop(st, "exit")
                                ELSE RefJump(n, st, labels)
         [] OTHER -> LET a == RefArgs(n.args, st, labels)
                     IN IF a.sig # "ok" THEN a ELSE OpRef(n.op, a.vs, a)

(***************************************************************************)
(* Compilation and execution                                               *)
(***************************************************************************)

Start(vs, mem) == [vars |-> vs, mem |-> mem, sto |-> [s \in 0..(Mod - 1) |-> 0], logs |-> <<>>,
                   val |-> 0, vs |-> <<>>, data |-> <<>>, output |-> <<>>, sig |-> "ok"]

Init ==
  /\ prog \in Programs /\ static \in BOOLEAN
  /\ code = None /\ py = None /\ ref = None

\* executor_from_ir
Compile ==
  /\ code = None
  /\ code' = [main |-> Analyze(prog.main, <<>>, 0),
              labels |-> [l \in DOMAIN prog.labels |-> AnalyzeLabel(prog.labels[l])]]
  /\ UNCHANGED <<prog, static, py, ref>>

\* IRExecutor.exec, with a new memory.
Exec ==
  /\ code # None /\ py = None
  /\ py' = Py(code.main, Start(<<>>, F!NewMem), code.labels)
  /\ ref' = Ref(prog.main, Start(<<>>, [i \in F!MemPos |-> 0]), prog.labels)
  /\ UNCHANGED <<prog, static, code>>

Next == Compile \/ Exec

(***************************************************************************)
(* Properties                                                              *)
(***************************************************************************)

\* What an execution shows: how it ended, its output, and, unless it is undone,
\* the storage and the logs.
Shown(st) == [sig |-> IF st.sig = "ok" THEN "halt" ELSE st.sig, output |-> st.output,
              effects |-> IF st.sig \in {"ok", "halt"} THEN <<st.sto, st.logs>> ELSE <<>>]

\* Fast mode is faithful: unless the generated Python fails with an exception of
\* its own, an execution shows what the IR means, whatever is shadowed, assigned
\* in a loop or passed to a subroutine, for all operands of the arithmetic, and
\* for words and ranges of memory in any order.  (A log in a static call is let
\* through: _LogN lacks the _is_static of SStore.)
ExecutorAgrees ==
  py # None /\ py.sig # "crash" /\ ~(static /\ py.logs # <<>>) => Shown(py) = Shown(ref)
=============================================================================

---------------------------- MODULE MCExecution ----------------------------
(***************************************************************************)
(* Instances of the IR executor and of its memory for TLC.  A behaviour    *)
(* either compiles and runs one of the programs below, or uses one memory, *)
(* operation by operation.                                                 *)
(***************************************************************************)
EXTENDS FastMem, IRExecutor

CONSTANTS dirty, RunPrograms

BigEndian(s) == to_int(s)
Digits(n) == to_bytes(n, WordSize)

X == <<"x">>
Y == <<"y">>
Lit(n) == Node("int", <<>>, n, <<>>)
Var(x) == Node("var", x, 0, <<>>)
Op(op, args) == Node(op, <<>>, 0, args)
With(x, v, body) == Node("with", x, 0, <<v, body>>)
Assign(x, v) == Node("set", x, 0, <<v>>)
Repeat(x, start, rounds, bound, body) == Node("repeat", x, bound, <<start, rounds, body>>)
Goto(l, args) == Node("goto", l, 0, args)
ExitTo(l, args) == Node("exit_to", l, 0, args)
Do(ns) == Op("seq", ns)
Show(e) == Do(<<Op("mstore", <<Lit(0), e>>), Op("return", <<Lit(0), Lit(Width)>>)>>)
Main(n) == [main |-> n, labels |-> <<>>]

\* Evaluated by TLC for the width of the run; ExecutionProofs proves it for every width.
ASSUME OperatorsAgree == ArithmeticAgrees

Words3 == {Lit(n) : n \in 0..(Mod - 1)}
Two == {Op(op, <<a, b>>) : op \in Unsigned \union Signed \union {"byte"}, a \in Words3, b \in Words3}
ShiftTwo == {Op(op, <<Lit(bits), a>>) : op \in Shifts, bits \in 0..(Width + 1), a \in Words3}
Others == {Op(op, <<a>>) : op \in {"iszero", "calldataload", "dload", "ceil32"}, a \in {Lit(n) : n \in 0..4}}
          \union {Op("select", <<Lit(c), Lit(3), Op("calldatasize", <<>>)>>) : c \in 0..1}
          \union {Lit(-1)}
Operators == {Main(Show(e)) : e \in Two \union ShiftTwo \union Others}

\* An operand that assigns, to see the order of evaluation.
Assigning(x, n) == Do(<<Assign(x, Lit(n)), Var(x)>>)
Operand(x) == {Var(x), Assigning(x, 2)}
Step(x, y) == {Op("break", <<>>), Op("continue", <<>>), Op("cleanup_repeat", <<>>),
               Assign(x, Op("add", <<Var(x), Var(y)>>)),
               Op("assert", <<Var(y)>>),
               With(x, Op("add", <<Var(x), Lit(1)>>), Assign(y, Var(x)))}
Scopes == {Main(With(X, Lit(1), With(y, Op("add", <<a, b>>),
             Do(<<s, Show(Op("sub", <<c, Var(X)>>))>>)))) :
             y \in {X, Y}, a \in Operand(X), b \in Operand(X), c \in Operand(X),
             s \in {Assign(X, Lit(3)), With(X, Lit(5), Assign(X, Lit(4)))}}
Loops == {Main(With(X, Lit(1), Do(<<
             Repeat(y, Lit(start), Lit(rounds), 2,
               Do(<<Op("if", <<Var(y), s>>), Assign(X, Op("add", <<Var(X), Lit(2)>>)), t>>)),
             Show(Var(X))>>))) :
             y \in {X, Y}, start \in 0..1, rounds \in 0..3,
             s \in Step(X, X), t \in {Op("pass", <<>>), Op("break", <<>>)}}
NestedLoops == {Main(With(X, Lit(0), Do(<<
             Repeat(Y, Lit(0), Lit(2), 2, Repeat(y, Lit(1), Lit(2), 2,
               Do(<<Op("if", <<Op("eq", <<Var(Y), Lit(1)>>), s, Assign(X, Op("add", <<Var(X), Var(y)>>))>>)>>))),
             Show(Var(X))>>))) : y \in {X, Y}, s \in Step(X, Y)}

Sub == <<"f">>
Cleanup == <<"g">>
Calls == {[main |-> With(X, Lit(1), Do(<<Goto(Sub, <<a, b>>), Show(Op("add", <<Op("mload", <<Lit(0)>>), Var(X)>>))>>)),
           labels |-> (Sub :> [params |-> <<X, y>>, body |-> Do(<<s, Op("mstore", <<Lit(0), Var(X)>>), e>>)])
                   @@ (Cleanup :> [params |-> <<Y>>, body |-> Do(<<Op("mstore", <<Lit(0), Var(Y)>>), ExitTo(<<>>, <<>>)>>)])] :
          y \in {Y}, a \in Operand(X), b \in Operand(X),
          s \in {Op("pass", <<>>), Assign(X, Var(Y)), With(X, Lit(4), Assign(Y, Var(X))),
                 Repeat(X, Lit(0), Var(X), 4, ExitTo(<<>>, <<>>)),
                 Op("if", <<Var(X), ExitTo(Cleanup, <<Op("sub", <<Var(Y), Var(X)>>)>>)>>)},
          e \in {ExitTo(<<>>, <<>>), ExitTo(Cleanup, <<Assigning(X, 3)>>), Op("stop", <<>>)}}

MemOp == {Op("mstore", <<Lit(p), Lit(v)>>) : p \in {0, 1, Width}, v \in {1, 6}}
         \union {Op("mstore", <<Lit(Width), Op("mload", <<Lit(p)>>)>>) : p \in {0, Width}}
         \union {Op("calldatacopy", <<Lit(1), Lit(0), Lit(3)>>), Op("dloadbytes", <<Lit(2), Lit(1), Lit(2)>>)}
Memories == {Main(Do(<<a, b, c, e>>)) : a \in MemOp, b \in MemOp, c \in MemOp,
              e \in {Op(op, <<Lit(p), Lit(n)>>) : op \in {"return", "revert"}, p \in 0..1, n \in {0, 5}}}
Effects == {Main(Do(<<a, b, Op("stop", <<>>)>>)) :
              a \in MemOp, b \in {Op("sstore", <<Lit(1), Lit(2)>>), Op("sha3_64", <<Lit(0), Lit(1)>>),
                                  Op("log", <<Lit(0), Lit(4), Op("sload", <<Lit(1)>>)>>)}}

MCPrograms == IF RunPrograms
              THEN Operators \union Scopes \union Loops \union NestedLoops \union Calls
                   \union Memories \union Effects
              ELSE {}

MCCalldata == <<1, 0, 1, 1>>
MCCode == <<0, 1, 1, 1, 0, 1>>

allVars == <<mem, out, vars>>

MCInit == /\ MemInit
          /\ \/ Init
             \/ prog = None /\ static = FALSE /\ code = None /\ py = None /\ ref = None

MCNext == \/ prog # None /\ Next /\ UNCHANGED <<mem, out>>
          \/ prog = None /\ MemNext /\ UNCHANGED vars

Spec == MCInit /\ [][MCNext]_allVars
=============================================================================

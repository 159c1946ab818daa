----------------------------- MODULE Arithmetic -----------------------------
(***************************************************************************)
(* boa/contracts/vyper/ir_executor.py: the binary operators and the shifts *)
(* of fast mode.  They are vyper's functions on Python's integers, which   *)
(* have no width, with the arguments read as signed and the result wrapped *)
(* where an EVM word needs it.                                             *)
(***************************************************************************)
EXTENDS Words

CONSTANT Width      \* bits of a word, in place of 256

ASSUME WidthAssumption == Width \in Nat \ {0}

Mod == Pow2[Width]

(***************************************************************************)
(* As the generated Python does it                                         *)
(***************************************************************************)

Wrap(x) == x % Mod
AsSigned(x) == IF x >= Mod \div 2 THEN x - Mod ELSE x
Abs(x) == IF x < 0 THEN -x ELSE x
Truth(b) == IF b THEN 1 ELSE 0

EvmDiv(x, y) == IF y = 0 THEN 0
                ELSE IF x * y < 0 THEN -(Abs(x) \div Abs(y)) ELSE Abs(x) \div Abs(y)
EvmMod(x, y) == IF y = 0 THEN 0
                ELSE IF x < 0 THEN -(Abs(x) % Abs(y)) ELSE Abs(x) % Abs(y)

Bitwise2(x, y, keep(_, _)) ==
  to_int([i \in 1..Width |-> Truth(keep(to_bytes(x, Width)[i], to_bytes(y, Width)[i]))])

Unsigned == {"add", "sub", "mul", "div", "mod", "eq", "ne", "lt", "gt", "and", "or", "xor"}
Signed == {"sdiv", "smod", "slt", "sgt", "sle", "sge"}

\* vyper.ir.optimizer.arith, of Python's integers.
Arith(op, x, y) ==
  CASE op = "add" -> x + y
    [] op = "sub" -> x - y
    [] op = "mul" -> x * y
    [] op \in {"div", "sdiv"} -> EvmDiv(x, y)
    [] op \in {"mod", "smod"} -> EvmMod(x, y)
    [] op = "eq" -> Truth(x = y)
    [] op = "ne" -> Truth(x # y)
    [] op \in {"lt", "slt"} -> Truth(x < y)
    [] op \in {"gt", "sgt"} -> Truth(x > y)
    [] op = "sle" -> Truth(x <= y)
    [] op = "sge" -> Truth(x >= y)
    [] op = "and" -> Bitwise2(x, y, LAMBDA a, b : a + b = 2)
    [] op = "or" -> Bitwise2(x, y, LAMBDA a, b : a + b > 0)
    [] op = "xor" -> Bitwise2(x, y, LAMBDA a, b : a # b)

Binop(op, v) == IF op \in Signed THEN Wrap(Arith(op, AsSigned(v[1]), AsSigned(v[2])))
                ELSE Wrap(Arith(op, v[1], v[2]))

Shifts == {"shr", "sar", "shl"}

\* The operand order of shifts is the EVM's: bits, value.
Shift(op, v) ==
  CASE op = "shr" -> v[2] \div Pow2[v[1]]
    [] op = "sar" -> Wrap(AsSigned(v[2]) \div Pow2[v[1]])
    [] op = "shl" -> Wrap(v[2] * Pow2[v[1]])

(***************************************************************************)
(* What the EVM's operators are                                            *)
(***************************************************************************)

\* Division and remainder of the EVM truncate towards zero.
IsQuotient(q, x, y) ==
  /\ Abs(q) * Abs(y) <= Abs(x) /\ Abs(x) < (Abs(q) + 1) * Abs(y)
  /\ q # 0 => (q < 0 <=> (x < 0) # (y < 0))

Quotient(x, y) == IF y = 0 THEN 0 ELSE CHOOSE q \in -Mod..Mod : IsQuotient(q, x, y)

BitAnd(x, y) == CHOOSE z \in 0..(Mod - 1) : \A i \in 0..(Width - 1) :
  (z \div Pow2[i]) % 2 = ((x \div Pow2[i]) % 2) * ((y \div Pow2[i]) % 2)

ArithRef(op, x, y) ==
  LET sx == AsSigned(x)
      sy == AsSigned(y)
  IN CASE op = "add" -> (x + y) % Mod
       [] op = "sub" -> (x + Mod - y) % Mod
       [] op = "mul" -> (x * y) % Mod
       [] op = "div" -> Quotient(x, y)
       [] op = "sdiv" -> Quotient(sx, sy) % Mod
       [] op = "mod" -> IF y = 0 THEN 0 ELSE x - y * Quotient(x, y)
       [] op = "smod" -> IF y = 0 THEN 0 ELSE (sx - sy * Quotient(sx, sy)) % Mod
       [] op = "eq" -> Truth(x = y)
       [] op = "ne" -> Truth(x # y)
       [] op = "lt" -> Truth(x < y)
       [] op = "gt" -> Truth(x > y)
       [] op = "slt" -> Truth(sx < sy)
       [] op = "sgt" -> Truth(sx > sy)
       [] op = "sle" -> Truth(sx <= sy)
       [] op = "sge" -> Truth(sx >= sy)
       [] op = "and" -> BitAnd(x, y)
       [] op = "or" -> x + y - BitAnd(x, y)
       [] op = "xor" -> x + y - 2 * BitAnd(x, y)

\* Bit i of the shifted value, counted from the lowest.
ShiftRef(op, bits, x) ==
  LET bit(i) == IF i \in 0..(Width - 1) THEN (x \div Pow2[i]) % 2
                ELSE IF op = "sar" /\ i >= Width THEN (x \div Pow2[Width - 1]) % 2 ELSE 0
      shifted(i) == IF op = "shl" THEN bit(i - bits) ELSE bit(i + bits)
  IN to_int([k \in 1..Width |-> shifted(Width - k)])

(***************************************************************************)
(* Property                                                                *)
(***************************************************************************)

\* Arithmetic without a width, wrapped, is that of EVM words: for all operands,
\* division and remainder by zero, of negative numbers and of the least number by
\* -1, comparisons on both sides of the sign bit, and shifts by more bits than a
\* word has.
ArithmeticAgrees ==
  \A x, y \in 0..(Mod - 1) :
    /\ \A op \in Unsigned \union Signed : Binop(op, <<x, y>>) = ArithRef(op, x, y)
    /\ \A op \in Shifts : Shift(op, <<x, y>>) = ShiftRef(op, x, y)
=============================================================================

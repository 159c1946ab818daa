----------------------------- MODULE Overloads -----------------------------
(***************************************************************************)
(* From a Python call to calldata: the functions of an ABIContract, which  *)
(* may be overloaded (boa/contracts/abi/abi_contract.py), and those of a   *)
(* VyperContract, with default arguments (boa/contracts/vyper/             *)
(* vyper_contract.py).                                                     *)
(*                                                                         *)
(* A parameter has a name and a type, "u" (0..3) or "i" (-2..1); both are  *)
(* encoded in a word 0..3.  A function is the sequence of its parameters;  *)
(* its selector is determined by their types.                              *)
(***************************************************************************)
EXTENDS Integers, Sequences, FiniteSets

CONSTANT Name   \* names of parameters and keywords

ASSUME OverloadsAssumption == IsFiniteSet(Name)

VARIABLES
  functions,    \* the contract's functions of one name: ABI overloads, or one of Vyper
  vyper,        \* is it a VyperContract?
  required,     \* its parameters without a default
  args, kwargs, \* the call's arguments: a sequence, and a function of names
  picked,       \* disambiguate_signature: a set of one signature, or of none
  sent          \* what became of the call

overloadVars == <<functions, vyper, required, args, kwargs, picked, sent>>

Param == [name : Name, type : {"u", "i"}]
Distinct(f) == \A j, k \in DOMAIN f : f[j].name = f[k].name => j = k
Function == {f \in {<<>>} \union [1..1 -> Param] \union [1..2 -> Param] : Distinct(f)}
Types(f) == [k \in DOMAIN f |-> f[k].type]

Value == {-1, 1, 3}       \* passed: one for each type alone, one for both
Values(type) == IF type = "u" THEN 0..3 ELSE -2..1
Encode(v) == v % 4
Decode(type, w) == IF type = "i" /\ w > 1 THEN w - 4 ELSE w

\* is_abi_encodable, of a tuple: as many values as types, each in range
Encodable(types, values) ==
  Len(types) = Len(values) /\ \A k \in DOMAIN types : values[k] \in Values(types[k])

OverloadsInit ==
  /\ vyper \in BOOLEAN
  /\ functions \in {fs \in SUBSET Function : Cardinality(fs) \in 1..2}
  /\ \A f, g \in functions : Types(f) = Types(g) => f = g
  /\ vyper => Cardinality(functions) = 1
  /\ required \in (IF vyper THEN 0..2 ELSE {0})
  /\ vyper => \A f \in functions : required <= Len(f)
  /\ args \in {<<>>} \union [1..1 -> Value] \union [1..2 -> Value]
  /\ kwargs \in UNION {[names -> Value] : names \in SUBSET Name}
  /\ picked \in {{}} \union (IF vyper THEN {} ELSE {{Types(f)} : f \in functions})
  /\ sent = [outcome |-> "none"]

Raise(why) == [outcome |-> why]
Calldata(types, values) ==
  [outcome |-> "sent", selector |-> types, words |-> [k \in DOMAIN types |-> Encode(values[k])]]

(***************************************************************************)
(* ABIFunction and ABIOverload                                             *)
(***************************************************************************)

Counts(f) == Len(args) + Cardinality(DOMAIN kwargs) = Len(f)

\* _merge_kwargs: the arguments in the order of the parameters.
NamesFit(f) == \A k \in Len(args) + 1..Len(f) : f[k].name \in DOMAIN kwargs
InOrderGiven(f) ==
  [k \in DOMAIN f |-> IF k <= Len(args) THEN args[k]
                      ELSE kwargs[CHOOSE n \in DOMAIN kwargs : TRUE]]
MergeKwargs(f) == [k \in DOMAIN f |-> IF k <= Len(args) THEN args[k] ELSE kwargs[f[k].name]]

\* is_encodable raises a TypeError if a name is missing.
IsEncodable(f) == Counts(f) /\ Encodable(Types(f), MergeKwargs(f))
MissesName(f) == Counts(f) /\ ~NamesFit(f)

\* prepare_calldata
Prepare(f) ==
  IF ~Counts(f) \/ ~NamesFit(f) THEN Raise("TypeError")
  ELSE IF ~Encodable(Types(f), MergeKwargs(f)) THEN Raise("EncodeError")
  ELSE Calldata(Types(f), MergeKwargs(f))

\* ABIOverload.create: one function is called as it is, and takes a signature for
\* one keyword too many; _pick_overload chooses among several by what can be
\* encoded, or by the signature.
PickOverload ==
  LET matches == {f \in functions : IF picked = {} THEN IsEncodable(f) ELSE Types(f) \in picked}
  IN IF Cardinality(functions) = 1
     THEN IF picked = {} THEN Prepare(CHOOSE f \in functions : TRUE) ELSE Raise("TypeError")
     ELSE IF picked = {} /\ \E f \in functions : MissesName(f) THEN Raise("TypeError")
     ELSE IF matches = {} THEN Raise("no match")
     ELSE IF Cardinality(matches) > 1 THEN Raise("ambiguous")
     ELSE Prepare(CHOOSE f \in matches : TRUE)

(***************************************************************************)
(* VyperFunction                                                           *)
(***************************************************************************)

\* _validate_and_count and args_abi_type: keywords count as defaults given, but
\* their values are not encoded.
PrepareVyper ==
  LET f == CHOOSE f \in functions : TRUE
      defaults == Cardinality(DOMAIN kwargs) + Len(args) - required
      given == IF required + defaults > Len(f) THEN Len(f) ELSE required + defaults
      types == SubSeq(Types(f), 1, given)
  IN IF Len(args) \notin required..Len(f) THEN Raise("bad args")
     ELSE IF ~Encodable(types, args) THEN Raise("EncodeError")
     ELSE Calldata(types, args)

Send ==
  /\ sent.outcome = "none"
  /\ sent' = IF vyper THEN PrepareVyper ELSE PickOverload
  /\ UNCHANGED <<functions, vyper, required, args, kwargs, picked>>

(***************************************************************************)
(* Properties                                                              *)
(***************************************************************************)

\* The calldata that leaves is what the caller meant: the contract has exactly one
\* function for its selector, which reads every positional argument at its
\* position and every keyword under its name, with the value passed; of several
\* overloads it is the only one that could take them, or the one asked for.  A
\* VyperContract's function ignores a keyword, and only if all its parameters are
\* given by position.  A call that one overload alone could take is refused only
\* because another one with as many parameters has other names.
ArgumentsArrive ==
  LET Receives(f, k) == Decode(f[k].type, sent.words[k])
      Takes(f) == Counts(f) /\ NamesFit(f) /\ Encodable(Types(f), MergeKwargs(f))
      chosen == {f \in functions : IF vyper THEN SubSeq(Types(f), 1, Len(sent.words)) = sent.selector
                                   ELSE Types(f) = sent.selector}
  IN /\ sent.outcome = "sent" =>
          /\ Cardinality(chosen) = 1
          /\ \A f \in chosen :
               /\ \A k \in DOMAIN args : Receives(f, k) = args[k]
               /\ vyper => Len(sent.words) = Len(args) /\ (kwargs # <<>> => Len(args) = Len(f))
               /\ ~vyper => \A n \in DOMAIN kwargs :
                              \E k \in DOMAIN f : f[k].name = n /\ Receives(f, k) = kwargs[n]
               /\ ~vyper /\ picked = {} => \A g \in functions \ {f} : ~Takes(g)
     /\ sent.outcome \notin {"none", "sent"} /\ ~vyper /\ picked = {} =>
          \/ Cardinality({f \in functions : Takes(f)}) # 1
          \/ \E g \in functions : Counts(g) /\ ~NamesFit(g)
=============================================================================

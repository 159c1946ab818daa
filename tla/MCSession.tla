----------------------------- MODULE MCSession -----------------------------
(***************************************************************************)
(* Contract objects, the environments they live in, and the tools around   *)
(* them, for TLC: a behaviour is of a session with its contexts, of one    *)
(* call and its inner calls, of one preparation of calldata, of a few      *)
(* deals, of writes to storage that is then shown, or of loads of sources. *)
(***************************************************************************)
EXTENDS Session, Calls, Dealer, Overloads, StorageDump, Compiling

CONSTANT Topics   \* which of the topics below to check

VARIABLE topic

allVars == <<sessionVars, callVars, dealerVars, overloadVars, dumpVars, compilingVars, topic>>

\* What a topic does not use stays idle.
NoCall == comps = <<>> /\ open = 1 /\ steps = 0
NoDeal == sto = <<>> /\ token = <<>> /\ dealt = [outcome |-> "none"] /\ deals = 0
NoSend == /\ functions = {} /\ vyper = FALSE /\ required = 0 /\ args = <<>> /\ kwargs = <<>>
          /\ picked = {} /\ sent = [outcome |-> "none"]
NoDump == using = 1 /\ DumpInit
NoLoad == cached = <<>> /\ CompilingInit

Init == /\ topic \in Topics /\ SessionInit
        /\ IF topic = "call" THEN CallsInit ELSE NoCall
        /\ IF topic = "deal" THEN DealerInit ELSE NoDeal
        /\ IF topic = "send" THEN OverloadsInit ELSE NoSend
        /\ IF topic = "dump" THEN DumpInit ELSE NoDump
        /\ IF topic = "load" THEN CompilingInit ELSE NoLoad

Next ==
  \/ topic = "session" /\ SessionNext
     /\ UNCHANGED <<callVars, overloadVars, dealerVars, dumpVars, compilingVars, topic>>
  \/ topic = "call" /\ CallsNext
     /\ UNCHANGED <<sessionVars, overloadVars, dealerVars, dumpVars, compilingVars, topic>>
  \/ topic = "send" /\ Send
     /\ UNCHANGED <<sessionVars, callVars, dealerVars, dumpVars, compilingVars, topic>>
  \/ topic = "deal" /\ DealerNext
     /\ UNCHANGED <<sessionVars, callVars, overloadVars, dumpVars, compilingVars, topic>>
  \/ topic = "dump" /\ DumpNext
     /\ UNCHANGED <<sessionVars, callVars, overloadVars, dealerVars, compilingVars, topic>>
  \/ topic = "load" /\ CompilingNext
     /\ UNCHANGED <<sessionVars, callVars, overloadVars, dealerVars, dumpVars, topic>>

Spec == Init /\ [][Next]_allVars
=============================================================================

--------------------------- MODULE SessionProofs ---------------------------
(***************************************************************************)
(* Proofs about what users of an environment see, each for any constants:  *)
(* Session (environments and senders, any nesting of with blocks), Dealer  *)
(* (words of any size), Overloads (any names), StorageDump (environments,  *)
(* contracts and keys) and Compiling (names), with any number of           *)
(* operations.                                                             *)
(***************************************************************************)
EXTENDS Session, Dealer, Overloads, StorageDump, Compiling, Integers, SequenceTheorems, FiniteSetTheorems, TLAPS

SessionSpec == SessionInit /\ [][SessionNext]_sessionVars

(***************************************************************************)
(* The inductive invariant                                                 *)
(***************************************************************************)

Code == {None, "A", "B", "U", "proxy", "proxyA", "proxyB"}
Direct == {None, "A", "B"}
Chain == [code: [Addr -> Code], sto: {0, 1}]
Object == [code: Direct, by: Env]
Meter == {"GasMeter", "NoGasMeter"}
Sender == Account \union {CHOOSE a \in Account : TRUE}
Frame == [kind: {"anchor", "env", "sender", "meter"}, env: Env, vm: {0, 1}, chain: Chain,
          time: {0, 1}, limit: {0, 1}, eoa: Sender, meter: Meter]

SessionTypes ==
  /\ current \in Env
  /\ db \in [Env -> Chain] /\ time \in [Env -> {0, 1}] /\ limit \in {0, 1}
  /\ vm \in [Env -> {0, 1}] /\ journal \in [Env -> SUBSET [id: Nat, chain: Chain]]
  /\ eoa \in [Env -> Sender] /\ meter \in [Env -> Meter]
  /\ contracts \in [Env -> [Addr -> Object]]
  /\ stack \in Seq(Frame)

\* A deployment takes address 1, and nothing else does.
FirstIsDirect == \A e \in Env : db[e].code[1] \in Direct

\* What another environment's execution put into a registry is an object.
ForeignIsObject ==
  \A e \in Env, x \in Addr : contracts[e][x].by # e => contracts[e][x].code # None

\* Everything on chain c is on chain d too.
Kept(c, d) == \A x \in Addr : c.code[x] # None => d.code[x] = c.code[x]

\* Is c an anchor whose vm its environment still has?
Live(c) == c.kind = "anchor" /\ c.vm = vm[c.env]

\* What a live anchor found is still there, and within what inner ones found.
Restorable ==
  /\ \A i \in 1..Len(stack) : stack[i].vm <= vm[stack[i].env]
  /\ \A i \in 1..Len(stack) : Live(stack[i]) => Kept(stack[i].chain, db[stack[i].env])
  /\ \A i, j \in 1..Len(stack) :
       i < j /\ stack[i].env = stack[j].env /\ Live(stack[i]) /\ Live(stack[j]) =>
         Kept(stack[i].chain, stack[j].chain)

\* The open checkpoints of the vms are those of the live anchors.
Aligned ==
  /\ \A e \in Env : \A p \in journal[e] :
       /\ p.id \in 1..Len(stack) /\ Live(stack[p.id])
       /\ stack[p.id].env = e /\ stack[p.id].chain = p.chain
  /\ \A i \in 1..Len(stack) : Live(stack[i]) => \E p \in journal[stack[i].env] : p.id = i

IInv == SessionTypes /\ FirstIsDirect /\ ForeignIsObject /\ Restorable /\ Aligned /\ RegistryIsCurrent

(***************************************************************************)
(* Lemmas                                                                  *)
(***************************************************************************)

\* Chains by their fields.
LEMMA ChainParts ==
  /\ \A c \in Chain : c = [code |-> c.code, sto |-> c.sto]
                      /\ c.code \in [Addr -> Code] /\ c.sto \in {0, 1}
  /\ \A f \in [Addr -> Code], s \in {0, 1} : [code |-> f, sto |-> s] \in Chain
  BY DEF Chain

\* What Put does to a chain.
LEMMA CodePut ==
  ASSUME NEW c \in Chain, NEW x \in Addr, NEW v \in Code
  PROVE  /\ [c EXCEPT !.code[x] = v] \in Chain
         /\ [c EXCEPT !.code[x] = v].code = [c.code EXCEPT ![x] = v]
<1>1. [c EXCEPT !.code[x] = v] = [c EXCEPT !.code = [c.code EXCEPT ![x] = v]]
  BY DEF Chain
<1> DEFINE f == [c.code EXCEPT ![x] = v]
<1>2. f \in [Addr -> Code]
  BY ChainParts
<1> HIDE DEF f
<1>3. [c EXCEPT !.code = f] = [code |-> f, sto |-> c.sto]
  BY DEF Chain
<1>4. [c EXCEPT !.code = f] \in Chain /\ [c EXCEPT !.code = f].code = f
  <2> DEFINE d == [code |-> f, sto |-> c.sto]
  <2>1. c.sto \in {0, 1}
    BY ChainParts
  <2>2. d \in Chain /\ d.code = f
    BY <1>2, <2>1, ChainParts
  <2> HIDE DEF d
  <2> QED
    BY <1>3, <2>2 DEF d
<1>5. [c EXCEPT !.code[x] = v] = [c EXCEPT !.code = f]
  BY <1>1 DEF f
<1>6. [c EXCEPT !.code[x] = v] \in Chain /\ [c EXCEPT !.code[x] = v].code = f
  BY <1>4, <1>5
<1> QED
  BY <1>6 DEF f

\* What storing does to a chain.
LEMMA StoPut ==
  ASSUME NEW c \in Chain
  PROVE  [c EXCEPT !.sto = 1 - c.sto] \in Chain /\ [c EXCEPT !.sto = 1 - c.sto].code = c.code
  BY DEF Chain

\* The chain of one environment changes.
LEMMA ChainOf ==
  ASSUME NEW d \in [Env -> Chain], NEW e \in Env
  PROVE  /\ \A x \in Addr : \A v : [d EXCEPT ![e].code[x] = v] = [d EXCEPT ![e] = [d[e] EXCEPT !.code[x] = v]]
         /\ [d EXCEPT ![e].sto = 1 - @] = [d EXCEPT ![e] = [d[e] EXCEPT !.sto = 1 - d[e].sto]]
<1>1. ASSUME NEW x \in Addr, NEW v
      PROVE  [d EXCEPT ![e].code[x] = v] = [d EXCEPT ![e] = [d[e] EXCEPT !.code[x] = v]]
  OBVIOUS
<1>2. [d EXCEPT ![e].sto = 1 - @] = [d EXCEPT ![e] = [d[e] EXCEPT !.sto = 1 - d[e].sto]]
  OBVIOUS
<1> QED
  BY <1>1, <1>2

\* A fresh chain has no contracts.
LEMMA FreshChain ==
  Fresh \in Chain /\ Fresh.code = [x \in Addr |-> None]
  BY DEF Fresh, Chain, Code

\* The names of codes are distinct.
LEMMA CodeNames ==
  /\ None \notin Known /\ "U" \notin Known /\ "proxy" \notin Known
  /\ Behind("A") = "A" /\ Behind("B") = "B" /\ Behind("proxyA") = "A" /\ Behind("proxyB") = "B"
  /\ Proxy("A") = "proxyA" /\ Proxy("B") = "proxyB" /\ Proxy(None) = "proxy"
  BY DEF None, Known, Behind, Proxy

\* What is kept is kept for longer.
LEMMA KeptTransitive ==
  \A b, c, d : Kept(b, c) /\ Kept(c, d) => Kept(b, d)
  BY DEF Kept

\* A block by its parts.
LEMMA FrameParts ==
  \A i \in 1..Len(stack) : stack \in Seq(Frame) =>
    stack[i] \in Frame /\ stack[i].env \in Env /\ stack[i].chain \in Chain /\ stack[i].vm \in {0, 1}
<1> SUFFICES ASSUME NEW i \in 1..Len(stack), stack \in Seq(Frame)
             PROVE  stack[i] \in Frame /\ stack[i].env \in Env /\ stack[i].chain \in Chain
                    /\ stack[i].vm \in {0, 1}
  OBVIOUS
<1>1. stack[i] \in Frame
  BY ElementOfSeq
<1> QED
  BY <1>1 DEF Frame

\* An operation that removes no contract leaves every anchor able to end.
LEMMA OperationKeeps ==
  ASSUME IInv, db' \in [Env -> Chain], \A e \in Env : Kept(db[e], db'[e]),
         UNCHANGED <<vm, journal, stack>>
  PROVE  Restorable' /\ Aligned'
<1>1. \A i \in 1..Len(stack) : Live(stack[i]) => Kept(stack[i].chain, db'[stack[i].env])
  BY FrameParts, KeptTransitive DEF IInv, SessionTypes, Restorable
<1>2. Restorable'
  BY <1>1 DEF IInv, Restorable, Live
<1>3. Aligned'
  BY DEF IInv, Aligned, Live
<1> QED
  BY <1>2, <1>3

\* Changing the chain of an environment, code by code.
LEMMA PutIn ==
  ASSUME SessionTypes, NEW e \in Env, NEW x \in Addr, NEW v \in Code,
         db[e].code[x] = None, Put(e, x, v)
  PROVE  /\ db' \in [Env -> Chain] /\ \A d \in Env : Kept(db[d], db'[d])
         /\ \A d \in Env, y \in Addr :
              db'[d].code[y] = IF d = e /\ y = x THEN v ELSE db[d].code[y]
<1> DEFINE c == [db[e] EXCEPT !.code[x] = v]
<1>1. db[e] \in Chain /\ db \in [Env -> Chain]
  BY DEF SessionTypes
<1>2. c \in Chain /\ c.code = [db[e].code EXCEPT ![x] = v]
  BY <1>1, CodePut
<1>3. db' = [db EXCEPT ![e] = c]
  <2>1. [db EXCEPT ![e].code[x] = v] = [db EXCEPT ![e] = c]
    BY <1>1, ChainOf
  <2> QED
    BY <2>1 DEF Put
<1> HIDE DEF c
<1>4. db' \in [Env -> Chain] /\ db'[e] = c /\ \A d \in Env \ {e} : db'[d] = db[d]
  BY <1>1, <1>2, <1>3
<1>5. \A d \in Env, y \in Addr :
        db'[d].code[y] = IF d = e /\ y = x THEN v ELSE db[d].code[y]
  <2>1. db[e].code \in [Addr -> Code]
    BY <1>1, ChainParts
  <2> QED
    BY <1>2, <1>4, <2>1
<1>6. \A d \in Env : Kept(db[d], db'[d])
  BY <1>5 DEF Kept
<1> QED
  BY <1>4, <1>5, <1>6

\* What an execution of e registers, in the current environment and in e.
LEMMA Registered ==
  ASSUME SessionTypes, NEW e \in Env, NEW x \in Addr, NEW v \in Direct, NEW b \in Env,
         RegisterAt(e, x, v, b)
  PROVE  /\ contracts' \in [Env -> [Addr -> Object]]
         /\ \A d \in Env, y \in Addr :
              contracts'[d][y] = IF y = x /\ d = e THEN [code |-> v, by |-> b]
                                 ELSE IF y = x /\ d = current THEN [code |-> v, by |-> e]
                                 ELSE contracts[d][y]
<1> DEFINE own == [code |-> v, by |-> b]
           foreign == [code |-> v, by |-> e]
<1>1. own \in Object /\ foreign \in Object
  BY DEF Object
<1>2. /\ contracts' = [contracts EXCEPT ![current][x] = foreign, ![e][x] = own]
      /\ contracts \in [Env -> [Addr -> Object]] /\ current \in Env
  BY DEF SessionTypes, RegisterAt
<1> HIDE DEF own, foreign
<1>3. /\ contracts' \in [Env -> [Addr -> Object]]
      /\ \A d \in Env, y \in Addr :
           contracts'[d][y] = IF y = x /\ d = e THEN own
                              ELSE IF y = x /\ d = current THEN foreign
                              ELSE contracts[d][y]
  BY <1>1, <1>2
<1> QED
  BY <1>3 DEF own, foreign

\* The same at the address itself.
LEMMA RegisteredThere ==
  ASSUME SessionTypes, NEW e \in Env, NEW x \in Addr, NEW v \in Direct, NEW b \in Env,
         RegisterAt(e, x, v, b)
  PROVE  contracts'[e][x].code = v /\ contracts'[e][x].by = b
<1> DEFINE own == [code |-> v, by |-> b]
           there == [code |-> v, by |-> e]
<1>1. /\ contracts' = [contracts EXCEPT ![current][x] = there, ![e][x] = own]
      /\ contracts \in [Env -> [Addr -> Object]] /\ current \in Env
      /\ own.code = v /\ own.by = b
  BY DEF SessionTypes, RegisterAt
<1> HIDE DEF own, there
<1>2. contracts'[e][x] = own
  BY <1>1
<1> QED
  BY <1>1, <1>2

(***************************************************************************)
(* Operations                                                              *)
(***************************************************************************)

\* What a creation has to show: at one address of one environment there may be new
\* code, and if boa knows it, then it is registered for what it is there, or a
\* foreign object is.
LEMMA NewCode ==
  ASSUME IInv, NEW e \in Env, NEW x \in Addr, NEW new \in Code, NEW done \in BOOLEAN,
         db[e].code[x] = None,
         IF done THEN Put(e, x, new) ELSE UNCHANGED db,
         x = 1 => new \in Direct,
         \/ UNCHANGED contracts
         \/ \E v \in Direct \ {None}, b \in Env : RegisterAt(e, x, v, b),
         done /\ new \in Known =>
           contracts'[e][x].code = Behind(new) \/ contracts'[e][x].by # e,
         UNCHANGED <<current, time, vm, journal, limit, eoa, meter, stack>>
  PROVE  IInv'
<1>1. SessionTypes /\ FirstIsDirect /\ ForeignIsObject /\ RegistryIsCurrent
  BY DEF IInv
<1>2. /\ db' \in [Env -> Chain] /\ \A d \in Env : Kept(db[d], db'[d])
      /\ \A d \in Env, y \in Addr :
           db'[d].code[y] = IF done /\ d = e /\ y = x THEN new ELSE db[d].code[y]
  <2>1. CASE done
    BY <1>1, <2>1, PutIn
  <2>2. CASE ~done
    BY <1>1, <2>2 DEF SessionTypes, Kept
  <2> QED
    BY <2>1, <2>2
<1>3. /\ contracts' \in [Env -> [Addr -> Object]]
      /\ \A d \in Env, y \in Addr :
           ~(d = e /\ y = x) => contracts'[d][y] = contracts[d][y] \/ contracts'[d][y].by # d
      /\ \A d \in Env, y \in Addr :
           contracts'[d][y] = contracts[d][y] \/ contracts'[d][y].code # None
  <2>1. CASE UNCHANGED contracts
    BY <1>1, <2>1 DEF SessionTypes
  <2>2. CASE \E v \in Direct \ {None}, b \in Env : RegisterAt(e, x, v, b)
    <3>1. PICK v \in Direct \ {None}, b \in Env : RegisterAt(e, x, v, b)
      BY <2>2
    <3>2. /\ contracts' \in [Env -> [Addr -> Object]]
          /\ \A d \in Env, y \in Addr :
               contracts'[d][y] = IF y = x /\ d = e THEN [code |-> v, by |-> b]
                                  ELSE IF y = x /\ d = current THEN [code |-> v, by |-> e]
                                  ELSE contracts[d][y]
      BY <1>1, <3>1, Registered
    <3> QED
      BY <3>2
  <2> QED
    BY <2>1, <2>2
<1>4. SessionTypes'
  BY <1>1, <1>2, <1>3 DEF SessionTypes
<1>5. FirstIsDirect'
  BY <1>1, <1>2 DEF FirstIsDirect, Addr
<1>6. ForeignIsObject'
  BY <1>1, <1>3 DEF ForeignIsObject
<1>7. RegistryIsCurrent'
  <2> SUFFICES ASSUME NEW d \in Env, NEW y \in Addr, db'[d].code[y] \in Known
               PROVE  contracts'[d][y].code = Behind(db'[d].code[y]) \/ contracts'[d][y].by # d
    BY DEF RegistryIsCurrent
  <2>1. CASE d = e /\ y = x
    <3>1. done /\ db'[d].code[y] = new
      BY <1>2, <2>1, CodeNames
    <3> QED
      BY <2>1, <3>1
  <2>2. CASE ~(d = e /\ y = x)
    <3>1. db'[d].code[y] = db[d].code[y]
      BY <1>2, <2>2
    <3> QED
      BY <1>1, <1>3, <2>2, <3>1 DEF RegistryIsCurrent
  <2> QED
    BY <2>1, <2>2
<1>8. Restorable' /\ Aligned'
  BY <1>2, OperationKeeps
<1> QED
  BY <1>4, <1>5, <1>6, <1>7, <1>8 DEF IInv

\* Deploy registers what it puts on the chain.
LEMMA DeployStep ==
  ASSUME IInv, NEW e \in Env, NEW code \in {"A", "B"}, NEW works \in BOOLEAN, Deploy(e, code, works)
  PROVE  IInv'
<1>1. /\ db[e].code[1] = None /\ IF works THEN Put(e, 1, code) ELSE UNCHANGED db
      /\ UNCHANGED <<current, time, vm, journal, limit, eoa, meter, stack>>
  BY DEF Deploy
<1>2. code \in Code /\ code \in Direct \ {None} /\ 1 \in Addr /\ Behind(code) = code
  BY CodeNames DEF Code, Direct, Addr, None
<1>3. SessionTypes
  BY DEF IInv
<1>4. CASE code = "A"
  <2>1. RegisterAt(e, 1, code, e)
    BY <1>4 DEF Deploy
  <2>2. contracts'[e][1].code = code
    BY <1>2, <1>3, <2>1, RegisteredThere
  <2> QED
    BY <1>1, <1>2, <2>1, <2>2, NewCode
<1>5. CASE code = "B" /\ works
  <2> DEFINE object == [code |-> code, by |-> e]
  <2>1. contracts' = [contracts EXCEPT ![e][1] = object] /\ object \in Object
    BY <1>2, <1>5 DEF Deploy, Object
  <2>2. object.code = code /\ object.by = e
    OBVIOUS
  <2> HIDE DEF object
  <2>3. /\ contracts' \in [Env -> [Addr -> Object]]
        /\ \A d \in Env, y \in Addr :
             contracts'[d][y] = IF d = e /\ y = 1 THEN object ELSE contracts[d][y]
    BY <1>2, <1>3, <2>1 DEF SessionTypes
  <2>4. /\ db' \in [Env -> Chain] /\ \A d \in Env : Kept(db[d], db'[d])
        /\ \A d \in Env, y \in Addr :
             db'[d].code[y] = IF d = e /\ y = 1 THEN code ELSE db[d].code[y]
    BY <1>1, <1>2, <1>3, <1>5, PutIn
  <2>5. SessionTypes'
    BY <1>1, <1>3, <2>3, <2>4 DEF SessionTypes
  <2>6. FirstIsDirect'
    BY <1>2, <2>4 DEF IInv, FirstIsDirect
  <2>7. ForeignIsObject'
    <3>1. \A d \in Env, y \in Addr :
            \/ contracts'[d][y].by = contracts[d][y].by /\ contracts'[d][y].code = contracts[d][y].code
            \/ contracts'[d][y].code = code
      BY <2>2, <2>3
    <3> QED
      BY <1>2, <3>1 DEF IInv, ForeignIsObject
  <2>8. RegistryIsCurrent'
    <3> SUFFICES ASSUME NEW d \in Env, NEW y \in Addr, db'[d].code[y] \in Known
                 PROVE  contracts'[d][y].code = Behind(db'[d].code[y]) \/ contracts'[d][y].by # d
      BY DEF RegistryIsCurrent
    <3>1. CASE d = e /\ y = 1
      <4>1. db'[d].code[y] = code /\ contracts'[d][y] = object
        BY <2>3, <2>4, <3>1
      <4> QED
        BY <1>2, <2>2, <4>1
    <3>2. CASE ~(d = e /\ y = 1)
      <4>1. db'[d].code[y] = db[d].code[y] /\ contracts'[d][y] = contracts[d][y]
        BY <2>3, <2>4, <3>2
      <4> QED
        BY <4>1 DEF IInv, RegistryIsCurrent
    <3> QED
      BY <3>1, <3>2
  <2>9. Restorable' /\ Aligned'
    BY <1>1, <2>4, OperationKeeps
  <2> QED
    BY <2>5, <2>6, <2>7, <2>8, <2>9 DEF IInv
<1>6. CASE code = "B" /\ ~works
  <2>1. UNCHANGED contracts
    BY <1>6 DEF Deploy
  <2> QED
    BY <1>1, <1>2, <1>6, <2>1, NewCode
<1> QED
  BY <1>4, <1>5, <1>6

\* A factory's child that boa knows is registered for what it is, even when the
\* address once was another's; what is registered in vain is not on the chain.
LEMMA CreateStep ==
  ASSUME IInv, NEW e \in Env, NEW code \in {"A", "U", "proxy"}, NEW works \in BOOLEAN,
         NEW kept \in BOOLEAN, Create(e, code, works, kept)
  PROVE  IInv'
<1> DEFINE proxied == contracts[e][1]
           new == IF code = "proxy" THEN Proxy(db[e].code[1]) ELSE code
           done == works /\ kept
<1>1. /\ db[e].code[2] = None /\ IF done THEN Put(e, 2, new) ELSE UNCHANGED db
      /\ UNCHANGED <<current, time, vm, journal, limit, eoa, meter, stack>>
  BY DEF Create
<1>2. /\ SessionTypes /\ db[e].code[1] \in Direct /\ proxied.code \in Direct /\ proxied.by \in Env
      /\ db[e].code[1] \in Known => proxied.code = Behind(db[e].code[1]) \/ proxied.by # e
      /\ proxied.by # e => proxied.code # None
  <2>1. SessionTypes /\ FirstIsDirect /\ ForeignIsObject /\ RegistryIsCurrent /\ 1 \in Addr
    BY DEF IInv, Addr
  <2>2. proxied \in Object
    BY <2>1 DEF SessionTypes
  <2> QED
    BY <2>1, <2>2 DEF FirstIsDirect, ForeignIsObject, RegistryIsCurrent, Object
<1>3. new \in Code /\ 2 \in Addr /\ done \in BOOLEAN
  BY <1>2, CodeNames DEF Code, Direct, Addr
<1>4. CASE code = "A"
  <2>1. RegisterAt(e, 2, code, e) /\ code \in Direct \ {None} /\ new = code /\ Behind(code) = code
    BY <1>4, CodeNames DEF Create, Direct, None
  <2>2. contracts'[e][2].code = code
    BY <1>2, <1>3, <2>1, RegisteredThere
  <2> HIDE DEF new, done
  <2> QED
    BY <1>1, <1>3, <2>1, <2>2, NewCode
<1>5. CASE code = "U"
  <2>1. UNCHANGED contracts /\ new = "U"
    BY <1>5 DEF Create
  <2>2. new \notin Known
    BY <2>1, CodeNames
  <2> HIDE DEF new, done
  <2> QED
    BY <1>1, <1>3, <2>1, <2>2, NewCode
<1>6. CASE code = "proxy"
  <2>1. new = Proxy(db[e].code[1])
    BY <1>6
  <2>2. new \in Known => /\ proxied.code = Behind(new) \/ proxied.by # e
                         /\ proxied.code # None
    <3>1. CASE db[e].code[1] = None
      BY <2>1, <3>1, CodeNames
    <3>2. CASE db[e].code[1] = "A"
      BY <1>2, <2>1, <3>2, CodeNames DEF Known, None
    <3>3. CASE db[e].code[1] = "B"
      BY <1>2, <2>1, <3>3, CodeNames DEF Known, None
    <3> QED
      BY <1>2, <3>1, <3>2, <3>3 DEF Direct
  <2>3. CASE works /\ proxied.code # None
    <3>1. RegisterAt(e, 2, proxied.code, proxied.by)
      BY <1>6, <2>3 DEF Create
    <3>2. contracts'[e][2].code = proxied.code /\ contracts'[e][2].by = proxied.by
      BY <1>2, <1>3, <3>1, RegisteredThere
    <3> HIDE DEF new, done, proxied
    <3> QED
      BY <1>1, <1>2, <1>3, <2>2, <2>3, <3>1, <3>2, NewCode
  <2>4. CASE ~(works /\ proxied.code # None)
    <3>1. UNCHANGED contracts
      BY <1>6, <2>4 DEF Create
    <3>2. ~(done /\ new \in Known)
      BY <2>2, <2>4
    <3> HIDE DEF new, done, proxied
    <3> QED
      BY <1>1, <1>3, <3>1, <3>2, NewCode
  <2> QED
    BY <2>3, <2>4
<1> QED
  BY <1>4, <1>5, <1>6

\* Storing, time travel, another limit, gas meter or environment change no code.
LEMMA OtherSteps ==
  ASSUME IInv, NEW e \in Env,
         Store(e) \/ TimeTravel(e) \/ SetLimit \/ SetEnv(e) \/ \E m \in Meter : SetMeter(e, m)
  PROVE  IInv'
<1>1. /\ db \in [Env -> Chain] /\ db[e] \in Chain /\ time \in [Env -> {0, 1}] /\ limit \in {0, 1}
      /\ meter \in [Env -> Meter] /\ current \in Env
  BY DEF IInv, SessionTypes
<1>2. db' \in [Env -> Chain] /\ \A d \in Env : db'[d].code = db[d].code
  <2>1. CASE Store(e)
    <3> DEFINE c == [db[e] EXCEPT !.sto = 1 - db[e].sto]
    <3>1. c \in Chain /\ c.code = db[e].code
      BY <1>1, StoPut
    <3>2. db' = [db EXCEPT ![e] = c]
      <4>1. [db EXCEPT ![e].sto = 1 - @] = [db EXCEPT ![e] = c]
        BY <1>1, ChainOf
      <4> QED
        BY <2>1, <4>1 DEF Store
    <3> HIDE DEF c
    <3> QED
      BY <1>1, <3>1, <3>2
  <2>2. CASE UNCHANGED db
    BY <1>1, <2>2
  <2> QED
    BY <2>1, <2>2 DEF TimeTravel, SetLimit, SetEnv, SetMeter
<1>3. time' \in [Env -> {0, 1}] /\ limit' \in {0, 1} /\ meter' \in [Env -> Meter] /\ current' \in Env
  BY <1>1 DEF Store, TimeTravel, SetLimit, SetEnv, SetMeter
<1>4. UNCHANGED <<vm, journal, eoa, contracts, stack>>
  BY DEF Store, TimeTravel, SetLimit, SetEnv, SetMeter
<1>5. \A d \in Env : Kept(db[d], db'[d])
  BY <1>2 DEF Kept
<1>6. Restorable' /\ Aligned'
  BY <1>2, <1>4, <1>5, OperationKeeps
<1>7. SessionTypes' /\ FirstIsDirect' /\ ForeignIsObject' /\ RegistryIsCurrent'
  BY <1>2, <1>3, <1>4 DEF IInv, SessionTypes, FirstIsDirect, ForeignIsObject, RegistryIsCurrent
<1> QED
  BY <1>6, <1>7 DEF IInv

\* fork_rpc forgets every contract, and no anchor entered before can bring one back.
LEMMA ForkStep ==
  ASSUME IInv, NEW e \in Env, ForkRpc(e)
  PROVE  IInv'
<1>1. /\ vm[e] = 0 /\ vm' = [vm EXCEPT ![e] = 1] /\ db' = [db EXCEPT ![e] = Fresh]
      /\ journal' = [journal EXCEPT ![e] = {}] /\ time' = [time EXCEPT ![e] = 1]
      /\ meter' = [meter EXCEPT ![e] = "GasMeter"]
      /\ UNCHANGED <<current, limit, eoa, contracts, stack>>
  BY DEF ForkRpc
<1>2. db' \in [Env -> Chain] /\ db'[e] = Fresh /\ \A d \in Env \ {e} : db'[d] = db[d]
  BY <1>1, FreshChain DEF IInv, SessionTypes
<1>3. vm' \in [Env -> {0, 1}] /\ vm'[e] = 1 /\ \A d \in Env \ {e} : vm'[d] = vm[d]
  BY <1>1 DEF IInv, SessionTypes
<1>4. /\ journal' \in [Env -> SUBSET [id: Nat, chain: Chain]] /\ journal'[e] = {}
      /\ \A d \in Env \ {e} : journal'[d] = journal[d]
  BY <1>1 DEF IInv, SessionTypes
<1>5. SessionTypes'
  BY <1>1, <1>2, <1>3, <1>4 DEF IInv, SessionTypes, Meter
<1>6. FirstIsDirect'
  BY <1>2, FreshChain DEF IInv, FirstIsDirect, Addr, Direct
<1>7. RegistryIsCurrent' /\ ForeignIsObject'
  <2>1. ASSUME NEW d \in Env, NEW x \in Addr, db'[d].code[x] \in Known
        PROVE  contracts'[d][x].code = Behind(db'[d].code[x]) \/ contracts'[d][x].by # d
    <3>1. d # e
      BY <1>2, <2>1, FreshChain, CodeNames
    <3> QED
      BY <1>1, <1>2, <2>1, <3>1 DEF IInv, RegistryIsCurrent
  <2> QED
    BY <1>1, <2>1 DEF IInv, ForeignIsObject, RegistryIsCurrent
<1>8. ASSUME NEW i \in 1..Len(stack)
      PROVE  /\ stack[i].vm <= vm'[stack[i].env]
             /\ Live(stack[i])' => stack[i].env # e /\ Live(stack[i])
             /\ stack[i].env # e /\ Live(stack[i]) => Live(stack[i])'
  <2>1. stack[i].vm <= vm[stack[i].env] /\ stack[i].env \in Env /\ stack[i].vm \in {0, 1}
    BY FrameParts DEF IInv, SessionTypes, Restorable
  <2> QED
    BY <1>1, <1>3, <2>1 DEF Live
<1>9. Restorable'
  <2>1. \A i \in 1..Len(stack') : stack'[i].vm <= vm'[stack'[i].env]
    BY <1>1, <1>8
  <2>2. ASSUME NEW i \in 1..Len(stack'), Live(stack[i])'
        PROVE  Kept(stack[i].chain, db'[stack[i].env])
    <3>1. stack[i].env # e /\ Live(stack[i]) /\ i \in 1..Len(stack) /\ stack[i].env \in Env
      BY <1>1, <1>8, <2>2, FrameParts DEF IInv, SessionTypes
    <3> QED
      BY <1>2, <3>1 DEF IInv, Restorable
  <2>3. ASSUME NEW i \in 1..Len(stack'), NEW j \in 1..Len(stack'),
               i < j, stack[i].env = stack[j].env, Live(stack[i])', Live(stack[j])'
        PROVE  Kept(stack[i].chain, stack[j].chain)
    <3>1. Live(stack[i]) /\ Live(stack[j]) /\ i \in 1..Len(stack) /\ j \in 1..Len(stack)
      BY <1>1, <1>8, <2>3
    <3> QED
      BY <2>3, <3>1 DEF IInv, Restorable
  <2> QED
    BY <1>1, <2>1, <2>2, <2>3 DEF Restorable, Live
<1>10. Aligned'
  <2>1. ASSUME NEW d \in Env, NEW p \in journal'[d]
        PROVE  /\ p.id \in 1..Len(stack) /\ Live(stack[p.id])'
               /\ stack[p.id].env = d /\ stack[p.id].chain = p.chain
    <3>1. d # e /\ p \in journal[d]
      BY <1>4, <2>1
    <3>2. /\ p.id \in 1..Len(stack) /\ Live(stack[p.id])
          /\ stack[p.id].env = d /\ stack[p.id].chain = p.chain
      BY <3>1 DEF IInv, Aligned
    <3> QED
      BY <1>8, <3>1, <3>2
  <2>2. ASSUME NEW i \in 1..Len(stack), Live(stack[i])'
        PROVE  \E p \in journal'[stack[i].env] : p.id = i
    <3>1. stack[i].env # e /\ Live(stack[i]) /\ stack[i].env \in Env
      BY <1>8, <2>2, FrameParts DEF IInv, SessionTypes
    <3>2. journal'[stack[i].env] = journal[stack[i].env]
      BY <1>4, <3>1
    <3> QED
      BY <3>1, <3>2 DEF IInv, Aligned
  <2> QED
    BY <1>1, <2>1, <2>2 DEF Aligned, Live
<1> QED
  BY <1>5, <1>6, <1>7, <1>9, <1>10 DEF IInv

(***************************************************************************)
(* Blocks                                                                  *)
(***************************************************************************)

\* What a block saves.
LEMMA BlockParts ==
  /\ Block \in Frame /\ Block.vm = 0 /\ Block.kind = "env"
  /\ \A e \in Env : [Block EXCEPT !.env = e] \in Frame
  /\ \A e \in Env, a \in Sender :
       [Block EXCEPT !.kind = "sender", !.env = e, !.eoa = a] \in Frame
  /\ \A e \in Env, m \in Meter :
       [Block EXCEPT !.kind = "meter", !.env = e, !.meter = m] \in Frame
  /\ \A e \in Env, v \in {0, 1}, c \in Chain, t \in {0, 1}, l \in {0, 1} :
       [Block EXCEPT !.kind = "anchor", !.env = e, !.vm = v, !.chain = c, !.time = t, !.limit = l] \in Frame
<1>1. Block \in Frame /\ Block.vm = 0 /\ Block.kind = "env"
  BY FreshChain, SessionAssumption DEF Block, Frame, Sender, Meter
<1>2. ASSUME NEW e \in Env PROVE [Block EXCEPT !.env = e] \in Frame
  BY <1>1 DEF Frame
<1>3. ASSUME NEW e \in Env, NEW a \in Sender
      PROVE  [Block EXCEPT !.kind = "sender", !.env = e, !.eoa = a] \in Frame
  BY <1>1 DEF Frame
<1>4. ASSUME NEW e \in Env, NEW m \in Meter
      PROVE  [Block EXCEPT !.kind = "meter", !.env = e, !.meter = m] \in Frame
  BY <1>1 DEF Frame
<1>5. ASSUME NEW e \in Env, NEW v \in {0, 1}, NEW c \in Chain, NEW t \in {0, 1}, NEW l \in {0, 1}
      PROVE  [Block EXCEPT !.kind = "anchor", !.env = e, !.vm = v, !.chain = c, !.time = t, !.limit = l]
             \in Frame
  <2>1. [Block EXCEPT !.kind = "anchor", !.env = e, !.vm = v] \in Frame
    BY <1>1 DEF Frame
  <2> DEFINE b == [Block EXCEPT !.kind = "anchor", !.env = e, !.vm = v]
  <2>2. b \in Frame
    BY <2>1
  <2>3. [Block EXCEPT !.kind = "anchor", !.env = e, !.vm = v, !.chain = c, !.time = t, !.limit = l]
        = [b EXCEPT !.chain = c, !.time = t, !.limit = l]
    OBVIOUS
  <2> HIDE DEF b
  <2>4. [b EXCEPT !.chain = c, !.time = t, !.limit = l] \in Frame
    BY <2>2 DEF Frame
  <2> QED
    BY <2>3, <2>4
<1> QED
  BY <1>1, <1>2, <1>3, <1>4, <1>5

\* Entering a block: an anchor finds the present chain, and its checkpoint is that.
LEMMA EnterBlock ==
  ASSUME IInv, NEW c \in Frame, Enter(c), current' \in Env, eoa' \in [Env -> Sender],
         meter' \in [Env -> Meter],
         \/ c.kind # "anchor" /\ c.vm = 0 /\ UNCHANGED journal
         \/ /\ c.kind = "anchor" /\ c.vm = vm[c.env] /\ c.chain = db[c.env]
            /\ journal' = [journal EXCEPT ![c.env] = @ \union {[id |-> Len(stack) + 1, chain |-> c.chain]}]
  PROVE  IInv'
<1> DEFINE n == Len(stack)
<1>1. stack' = Append(stack, c) /\ UNCHANGED <<db, time, vm, limit, contracts>>
  BY DEF Enter
<1>2. stack \in Seq(Frame) /\ n \in Nat /\ c.env \in Env /\ c.chain \in Chain /\ c.vm \in {0, 1}
  BY LenProperties DEF IInv, SessionTypes, Frame
<1>3. /\ stack' \in Seq(Frame) /\ Len(stack') = n + 1 /\ stack'[n + 1] = c
      /\ \A i \in 1..n : stack'[i] = stack[i]
  BY <1>1, <1>2, AppendProperties
<1> DEFINE p0 == [id |-> n + 1, chain |-> c.chain]
<1>4. p0 \in [id: Nat, chain: Chain] /\ p0.id = n + 1 /\ p0.chain = c.chain
  BY <1>2
<1>5. \/ c.kind # "anchor" /\ c.vm = 0 /\ UNCHANGED journal
      \/ /\ c.kind = "anchor" /\ c.vm = vm[c.env] /\ c.chain = db[c.env]
         /\ journal' = [journal EXCEPT ![c.env] = @ \union {p0}]
  OBVIOUS
<1> HIDE DEF n, p0
<1>6. /\ journal' \in [Env -> SUBSET [id: Nat, chain: Chain]]
      /\ \A e \in Env : journal'[e] = IF c.kind = "anchor" /\ e = c.env THEN journal[e] \union {p0}
                                      ELSE journal[e]
  <2>1. journal \in [Env -> SUBSET [id: Nat, chain: Chain]]
    BY DEF IInv, SessionTypes
  <2> DEFINE more == journal[c.env] \union {p0}
  <2>2. more \in SUBSET [id: Nat, chain: Chain]
    BY <1>2, <1>4, <2>1
  <2>3. CASE c.kind # "anchor"
    BY <1>5, <2>1, <2>3
  <2>4. CASE c.kind = "anchor"
    <3>1. journal' = [journal EXCEPT ![c.env] = more]
      BY <1>5, <2>4
    <3> HIDE DEF more
    <3>2. /\ journal' \in [Env -> SUBSET [id: Nat, chain: Chain]]
          /\ \A e \in Env : journal'[e] = IF e = c.env THEN more ELSE journal[e]
      BY <1>2, <2>1, <2>2, <3>1
    <3> QED
      BY <2>4, <3>2 DEF more
  <2> QED
    BY <2>3, <2>4
<1>7. SessionTypes'
  BY <1>1, <1>3, <1>6 DEF IInv, SessionTypes
<1>8. FirstIsDirect' /\ ForeignIsObject' /\ RegistryIsCurrent'
  BY <1>1 DEF IInv, FirstIsDirect, ForeignIsObject, RegistryIsCurrent
<1>9. \A i \in 1..(n + 1) : \/ i = n + 1 /\ stack'[i] = c
                            \/ i \in 1..n /\ stack'[i] = stack[i]
  BY <1>2, <1>3
<1>10. /\ \A i \in 1..n : stack[i].vm <= vm[stack[i].env]
       /\ \A i \in 1..n : Live(stack[i]) => Kept(stack[i].chain, db[stack[i].env])
       /\ \A i, j \in 1..n : i < j /\ stack[i].env = stack[j].env /\ Live(stack[i]) /\ Live(stack[j]) =>
            Kept(stack[i].chain, stack[j].chain)
  BY DEF IInv, Restorable, n
<1>11. \A i \in 1..(n + 1) : stack'[i].vm <= vm[stack'[i].env]
  <2>1. c.vm <= vm[c.env]
    <3>1. vm[c.env] \in {0, 1} /\ (c.vm = 0 \/ c.vm = vm[c.env])
      BY <1>2, <1>5 DEF IInv, SessionTypes
    <3> QED
      BY <3>1
  <2> QED
    BY <1>9, <1>10, <2>1
<1>12. Live(c) => c.chain = db[c.env]
  BY <1>5 DEF Live
<1>13. \A i \in 1..(n + 1) : Live(stack'[i]) => Kept(stack'[i].chain, db[stack'[i].env])
  <2>1. Live(c) => Kept(c.chain, db[c.env])
    BY <1>12 DEF Kept
  <2> QED
    BY <1>9, <1>10, <2>1
<1>14. ASSUME NEW i \in 1..(n + 1), NEW j \in 1..(n + 1), i < j,
              stack'[i].env = stack'[j].env, Live(stack'[i]), Live(stack'[j])
       PROVE  Kept(stack'[i].chain, stack'[j].chain)
  <2>1. i \in 1..n /\ stack'[i] = stack[i]
    BY <1>2, <1>9, <1>14
  <2>2. CASE j \in 1..n /\ stack'[j] = stack[j]
    BY <1>10, <1>14, <2>1, <2>2
  <2>3. CASE stack'[j] = c
    BY <1>10, <1>12, <1>14, <2>1, <2>3
  <2> QED
    BY <1>9, <2>2, <2>3
<1>15. Restorable'
  BY <1>1, <1>3, <1>11, <1>13, <1>14 DEF Restorable, Live
<1>16. Aligned'
  <2>1. ASSUME NEW e \in Env, NEW p \in journal'[e]
        PROVE  /\ p.id \in 1..(n + 1) /\ Live(stack'[p.id])
               /\ stack'[p.id].env = e /\ stack'[p.id].chain = p.chain
    <3>1. CASE p \in journal[e]
      <4>1. /\ p.id \in 1..n /\ Live(stack[p.id])
            /\ stack[p.id].env = e /\ stack[p.id].chain = p.chain
        BY <3>1 DEF IInv, Aligned, n
      <4> QED
        BY <1>2, <1>3, <4>1
    <3>2. CASE p = p0 /\ c.kind = "anchor" /\ e = c.env
      <4>1. p.id = n + 1 /\ stack'[p.id] = c /\ p.chain = c.chain
        BY <1>3, <1>4, <3>2
      <4>2. Live(c)
        BY <1>5, <3>2 DEF Live
      <4> QED
        BY <1>2, <3>2, <4>1, <4>2
    <3> QED
      BY <1>6, <2>1, <3>1, <3>2
  <2>2. ASSUME NEW i \in 1..(n + 1), Live(stack'[i])
        PROVE  \E p \in journal'[stack'[i].env] : p.id = i
    <3>1. CASE i = n + 1 /\ stack'[i] = c
      <4>1. c.kind = "anchor"
        BY <2>2, <3>1 DEF Live
      <4>2. p0 \in journal'[c.env]
        BY <1>2, <1>6, <4>1
      <4> QED
        BY <1>4, <3>1, <4>2
    <3>2. CASE i \in 1..n /\ stack'[i] = stack[i]
      <4>1. /\ \E p \in journal[stack[i].env] : p.id = i
            /\ stack[i].env \in Env
        BY <2>2, <3>2, FrameParts DEF IInv, SessionTypes, Aligned, n
      <4> QED
        BY <1>6, <3>2, <4>1
    <3> QED
      BY <1>9, <3>1, <3>2
  <2>3. \A e \in Env : \A p \in journal'[e] :
          /\ p.id \in 1..Len(stack') /\ Live(stack'[p.id])
          /\ stack'[p.id].env = e /\ stack'[p.id].chain = p.chain
    BY <1>3, <2>1
  <2>4. \A i \in 1..Len(stack') : Live(stack'[i]) => \E p \in journal'[stack'[i].env] : p.id = i
    BY <1>3, <2>2
  <2> QED
    BY <1>1, <2>3, <2>4 DEF Aligned, Live
<1> QED
  BY <1>7, <1>8, <1>15, <1>16 DEF IInv

\* Each block enters in one of the two ways.
LEMMA EnterStep ==
  ASSUME IInv, NEW e \in Env,
         EnterAnchor(e) \/ EnterEnv(e) \/ (\E a \in Account : EnterSender(e, a))
         \/ (\E m \in Meter : EnterMeter(e, m))
  PROVE  IInv'
<1>1. /\ current \in Env /\ db[e] \in Chain /\ time[e] \in {0, 1} /\ limit \in {0, 1}
      /\ vm[e] \in {0, 1} /\ eoa \in [Env -> Sender] /\ meter \in [Env -> Meter]
  BY DEF IInv, SessionTypes
<1>2. CASE EnterAnchor(e)
  <2> DEFINE c == [Block EXCEPT !.kind = "anchor", !.env = e, !.vm = vm[e], !.chain = db[e],
                                !.time = time[e], !.limit = limit]
  <2>1. c \in Frame
    BY <1>1, BlockParts
  <2>2. c.kind = "anchor" /\ c.env = e /\ c.vm = vm[e] /\ c.chain = db[e]
    BY DEF Block
  <2>3. /\ Enter(c) /\ UNCHANGED <<current, eoa, meter>>
        /\ journal' = [journal EXCEPT ![e] = @ \union {[id |-> Len(stack) + 1, chain |-> db[e]]}]
    BY <1>2 DEF EnterAnchor
  <2> HIDE DEF c
  <2> QED
    BY <1>1, <2>1, <2>2, <2>3, EnterBlock
<1>3. CASE EnterEnv(e)
  <2> DEFINE c == [Block EXCEPT !.env = current]
  <2>1. c \in Frame
    BY <1>1, BlockParts
  <2>2. c.kind # "anchor" /\ c.vm = 0
    BY DEF Block
  <2>3. Enter(c) /\ current' = e /\ UNCHANGED <<journal, eoa, meter>>
    BY <1>3 DEF EnterEnv
  <2> HIDE DEF c
  <2> QED
    BY <1>1, <2>1, <2>2, <2>3, EnterBlock
<1>4. ASSUME NEW a \in Account, EnterSender(e, a) PROVE IInv'
  <2> DEFINE c == [Block EXCEPT !.kind = "sender", !.env = e, !.eoa = eoa[e]]
  <2>1. c \in Frame
    BY <1>1, BlockParts
  <2>2. c.kind # "anchor" /\ c.vm = 0
    BY DEF Block
  <2>3. Enter(c) /\ eoa' = [eoa EXCEPT ![e] = a] /\ UNCHANGED <<current, journal, meter>>
    BY <1>4 DEF EnterSender
  <2>4. eoa' \in [Env -> Sender]
    BY <1>1, <2>3 DEF Sender
  <2> HIDE DEF c
  <2> QED
    BY <1>1, <2>1, <2>2, <2>3, <2>4, EnterBlock
<1>5. ASSUME NEW m \in Meter, EnterMeter(e, m) PROVE IInv'
  <2> DEFINE c == [Block EXCEPT !.kind = "meter", !.env = e, !.meter = meter[e]]
  <2>1. c \in Frame
    BY <1>1, BlockParts
  <2>2. c.kind # "anchor" /\ c.vm = 0
    BY DEF Block
  <2>3. Enter(c) /\ meter' = [meter EXCEPT ![e] = m] /\ UNCHANGED <<current, journal, eoa>>
    BY <1>5 DEF EnterMeter
  <2>4. meter' \in [Env -> Meter]
    BY <1>1, <2>3
  <2> HIDE DEF c
  <2> QED
    BY <1>1, <2>1, <2>2, <2>3, <2>4, EnterBlock
<1> QED
  BY <1>2, <1>3, <1>4, <1>5

\* The stack after a block ends, and the frame it ends with.
LEMMA Popped ==
  ASSUME stack \in Seq(Frame), stack # <<>>, stack' = SubSeq(stack, 1, Len(stack) - 1)
  PROVE  /\ Len(stack) \in Nat \ {0} /\ stack[Len(stack)] \in Frame
         /\ stack' \in Seq(Frame) /\ Len(stack') = Len(stack) - 1
         /\ \A i \in 1..(Len(stack) - 1) : stack'[i] = stack[i]
<1>1. Len(stack) \in Nat \ {0}
  BY EmptySeq, LenProperties
<1>2. stack[Len(stack)] \in Frame
  BY <1>1, ElementOfSeq
<1>3. \A i \in 1..(Len(stack) - 1) : stack[i] \in Frame
  BY <1>1, ElementOfSeq
<1> DEFINE k == Len(stack) - 1
<1>4. k \in Nat /\ 1 \in Int /\ stack' = SubSeq(stack, 1, k)
  BY <1>1
<1> HIDE DEF k
<1>5. /\ stack' \in Seq(Frame)
      /\ Len(stack') = IF 1 <= k THEN k - 1 + 1 ELSE 0
      /\ \A i \in 1..(k - 1 + 1) : stack'[i] = stack[1 + i - 1]
  <2>1. \A i \in 1..k : stack[i] \in Frame
    BY <1>3 DEF k
  <2> QED
    BY <1>4, <2>1, SubSeqProperties
<1>6. (IF 1 <= k THEN k - 1 + 1 ELSE 0) = k /\ k - 1 + 1 = k /\ \A i \in 1..k : 1 + i - 1 = i
  BY <1>4
<1>7. Len(stack') = k /\ \A i \in 1..k : stack'[i] = stack[i]
  BY <1>5, <1>6
<1> QED
  BY <1>1, <1>2, <1>5, <1>7 DEF k

\* What leaving an anchor does: it goes back to its checkpoint, which is there if
\* its vm is, and otherwise it fails.
LEMMA Revert ==
  ASSUME IInv, LeaveAnchor
  PROVE  LET n == Len(stack)  c == stack[n]
         IN /\ n \in Nat \ {0} /\ c \in Frame /\ c.kind = "anchor"
            /\ stack' = SubSeq(stack, 1, n - 1) /\ UNCHANGED <<current, vm, eoa, meter, contracts>>
            /\ limit' = c.limit /\ time' = Unpatched(c)
            /\ failed' = (c.vm # vm[c.env])
            /\ db' = IF Live(c) THEN [db EXCEPT ![c.env] = c.chain] ELSE db
            /\ journal' = IF Live(c) THEN [journal EXCEPT ![c.env] = {o \in @ : o.id < n}] ELSE journal
<1> DEFINE n == Len(stack)
           c == stack[n]
<1>1. /\ stack # <<>> /\ stack' = SubSeq(stack, 1, n - 1) /\ c.kind = "anchor"
      /\ UNCHANGED <<current, vm, eoa, meter, contracts>>
      /\ limit' = c.limit /\ time' = Unpatched(c) /\ RevertTo(c.env, n)
  BY DEF LeaveAnchor, Leave
<1>2. n \in Nat \ {0} /\ c \in Frame /\ c.env \in Env
  BY <1>1, Popped, FrameParts DEF IInv, SessionTypes, Frame
<1>3. n \in 1..n
  BY <1>2
<1>4. /\ \A p \in journal[c.env] : p.id = n => Live(c) /\ p.chain = c.chain
      /\ Live(c) => \E p \in journal[c.env] : p.id = n
  BY <1>2, <1>3 DEF IInv, Aligned
<1>5. Live(c) <=> c.vm = vm[c.env]
  BY <1>1 DEF Live
<1> HIDE DEF n, c
<1>6. CASE Live(c)
  <2>1. PICK p \in journal[c.env] :
          /\ p.id = n /\ db' = [db EXCEPT ![c.env] = p.chain]
          /\ journal' = [journal EXCEPT ![c.env] = {o \in @ : o.id < n}] /\ failed' = FALSE
    BY <1>1, <1>4, <1>6 DEF RevertTo
  <2>2. p.chain = c.chain
    BY <1>4, <2>1
  <2> QED
    BY <1>1, <1>2, <1>5, <1>6, <2>1, <2>2 DEF n, c
<1>7. CASE ~Live(c)
  <2>1. failed' = TRUE /\ UNCHANGED <<db, journal>>
    BY <1>1, <1>4, <1>7 DEF RevertTo
  <2> QED
    BY <1>1, <1>2, <1>5, <1>7, <2>1 DEF n, c
<1> QED
  BY <1>6, <1>7

\* Leaving a block: what an anchor brings back is within the chain it leaves, and
\* the outer anchors' checkpoints stay.
LEMMA LeaveBlock ==
  ASSUME IInv, NEW n, n = Len(stack), NEW c, c = stack[n], stack # <<>>,
         stack' = SubSeq(stack, 1, n - 1), UNCHANGED <<vm, contracts>>,
         current' \in Env, eoa' \in [Env -> Sender], meter' \in [Env -> Meter],
         time' \in [Env -> {0, 1}], limit' \in {0, 1},
         db' = IF Live(c) THEN [db EXCEPT ![c.env] = c.chain] ELSE db,
         journal' = IF Live(c) THEN [journal EXCEPT ![c.env] = {o \in @ : o.id < n}] ELSE journal
  PROVE  IInv'
<1>1. /\ n \in Nat \ {0} /\ c \in Frame /\ c.env \in Env /\ c.chain \in Chain
      /\ stack' \in Seq(Frame) /\ Len(stack') = n - 1
      /\ \A i \in 1..(n - 1) : stack'[i] = stack[i]
  <2>1. stack \in Seq(Frame)
    BY DEF IInv, SessionTypes
  <2> QED
    BY <2>1, Popped DEF Frame
<1>2. /\ \A i \in 1..n : stack[i].vm <= vm[stack[i].env] /\ stack[i].env \in Env
      /\ \A i \in 1..n : Live(stack[i]) => Kept(stack[i].chain, db[stack[i].env])
      /\ \A i, j \in 1..n : i < j /\ stack[i].env = stack[j].env /\ Live(stack[i]) /\ Live(stack[j]) =>
           Kept(stack[i].chain, stack[j].chain)
  BY FrameParts DEF IInv, Restorable, SessionTypes
<1>3. /\ \A e \in Env : \A p \in journal[e] :
           /\ p.id \in 1..n /\ Live(stack[p.id])
           /\ stack[p.id].env = e /\ stack[p.id].chain = p.chain
      /\ \A i \in 1..n : Live(stack[i]) => \E p \in journal[stack[i].env] : p.id = i
  BY DEF IInv, Aligned
<1>4. n \in 1..n /\ 1..(n - 1) \subseteq 1..n /\ \A i \in 1..(n - 1) : i < n
  BY <1>1
<1>5. Live(c) => Kept(c.chain, db[c.env])
  BY <1>2, <1>4
<1>6. db' \in [Env -> Chain] /\ \A e \in Env : db'[e] = IF Live(c) /\ e = c.env THEN c.chain ELSE db[e]
  BY <1>1 DEF IInv, SessionTypes
<1>7. /\ journal' \in [Env -> SUBSET [id: Nat, chain: Chain]]
      /\ \A e \in Env : journal'[e] = IF Live(c) /\ e = c.env THEN {o \in journal[e] : o.id < n}
                                      ELSE journal[e]
  <2>1. journal \in [Env -> SUBSET [id: Nat, chain: Chain]]
    BY DEF IInv, SessionTypes
  <2> DEFINE rest == {o \in journal[c.env] : o.id < n}
  <2>2. rest \in SUBSET [id: Nat, chain: Chain]
    BY <1>1, <2>1
  <2>3. journal' = IF Live(c) THEN [journal EXCEPT ![c.env] = rest] ELSE journal
    OBVIOUS
  <2> HIDE DEF rest
  <2>4. /\ journal' \in [Env -> SUBSET [id: Nat, chain: Chain]]
        /\ \A e \in Env : journal'[e] = IF Live(c) /\ e = c.env THEN rest ELSE journal[e]
    BY <1>1, <2>1, <2>2, <2>3
  <2> QED
    BY <2>4 DEF rest
<1>8. SessionTypes'
  BY <1>1, <1>6, <1>7 DEF IInv, SessionTypes
<1>9. \A e \in Env, x \in Addr : db'[e].code[x] # None => db'[e].code[x] = db[e].code[x]
  BY <1>5, <1>6 DEF Kept
<1>10. FirstIsDirect'
  <2> SUFFICES ASSUME NEW e \in Env PROVE db'[e].code[1] \in Direct
    BY DEF FirstIsDirect
  <2>1. db'[e].code[1] = None \/ db'[e].code[1] = db[e].code[1]
    BY <1>9 DEF Addr
  <2> QED
    BY <2>1 DEF IInv, FirstIsDirect, Direct
<1>11. RegistryIsCurrent' /\ ForeignIsObject'
  <2>1. ASSUME NEW e \in Env, NEW x \in Addr, db'[e].code[x] \in Known
        PROVE  contracts[e][x].code = Behind(db'[e].code[x]) \/ contracts[e][x].by # e
    <3>1. db'[e].code[x] = db[e].code[x]
      BY <1>9, <2>1, CodeNames
    <3> QED
      BY <2>1, <3>1 DEF IInv, RegistryIsCurrent
  <2> QED
    BY <2>1 DEF IInv, RegistryIsCurrent, ForeignIsObject
<1>12. ASSUME NEW i \in 1..(n - 1), Live(stack[i])
       PROVE  Kept(stack[i].chain, db'[stack[i].env])
  <2>1. stack[i].env \in Env
    BY <1>2, <1>4
  <2>2. CASE Live(c) /\ stack[i].env = c.env
    BY <1>2, <1>4, <1>6, <1>12, <2>1, <2>2
  <2>3. CASE ~(Live(c) /\ stack[i].env = c.env)
    BY <1>2, <1>4, <1>6, <1>12, <2>1, <2>3
  <2> QED
    BY <2>2, <2>3
<1>13. Restorable'
  <2> DEFINE m == n - 1
  <2>1. \A i \in 1..m : stack'[i].vm <= vm'[stack'[i].env]
    BY <1>1, <1>2, <1>4
  <2>2. \A i \in 1..m : Live(stack'[i]) => Kept(stack'[i].chain, db'[stack'[i].env])
    BY <1>1, <1>12
  <2>3. \A i, j \in 1..m :
          i < j /\ stack'[i].env = stack'[j].env /\ Live(stack'[i]) /\ Live(stack'[j]) =>
            Kept(stack'[i].chain, stack'[j].chain)
    BY <1>1, <1>2, <1>4
  <2>4. Len(stack') = m /\ vm' = vm
    BY <1>1
  <2> HIDE DEF m
  <2>5. \A i \in 1..m : Live(stack[i])' <=> Live(stack'[i])
    BY <2>4 DEF Live
  <2> QED
    BY <2>1, <2>2, <2>3, <2>4, <2>5, ZenonT(40) DEF Restorable
<1>14. Aligned'
  <2>1. ASSUME NEW e \in Env, NEW p \in journal'[e]
        PROVE  /\ p.id \in 1..(n - 1) /\ Live(stack'[p.id])
               /\ stack'[p.id].env = e /\ stack'[p.id].chain = p.chain
    <3>1. p \in journal[e]
      BY <1>7, <2>1
    <3>2. /\ p.id \in 1..n /\ Live(stack[p.id])
          /\ stack[p.id].env = e /\ stack[p.id].chain = p.chain
      BY <1>3, <3>1
    <3>3. p.id # n
      <4>1. SUFFICES ASSUME p.id = n PROVE FALSE
        OBVIOUS
      <4>2. Live(c) /\ c.env = e
        BY <3>2, <4>1
      <4>3. p.id < n
        BY <1>7, <2>1, <4>2
      <4> QED
        BY <1>1, <4>1, <4>3
    <3>4. p.id \in 1..(n - 1)
      BY <1>1, <3>2, <3>3
    <3> QED
      BY <1>1, <3>2, <3>4
  <2>2. ASSUME NEW i \in 1..(n - 1), Live(stack'[i])
        PROVE  \E p \in journal'[stack'[i].env] : p.id = i
    <3>1. stack'[i] = stack[i] /\ i \in 1..n /\ i < n /\ stack[i].env \in Env
      BY <1>1, <1>2, <1>4
    <3>2. PICK p \in journal[stack[i].env] : p.id = i
      BY <1>3, <2>2, <3>1
    <3>3. p \in journal'[stack[i].env]
      BY <1>7, <3>1, <3>2
    <3> QED
      BY <3>1, <3>2, <3>3
  <2>3. \A e \in Env : \A p \in journal'[e] :
          /\ p.id \in 1..Len(stack') /\ Live(stack'[p.id])
          /\ stack'[p.id].env = e /\ stack'[p.id].chain = p.chain
    BY <1>1, <2>1
  <2>4. \A i \in 1..Len(stack') : Live(stack'[i]) => \E p \in journal'[stack'[i].env] : p.id = i
    BY <1>1, <2>2
  <2> QED
    BY <2>3, <2>4 DEF Aligned, Live
<1> QED
  BY <1>8, <1>10, <1>11, <1>13, <1>14 DEF IInv

\* Each block's end is such a one.
LEMMA LeaveStep ==
  ASSUME IInv, LeaveAnchor \/ LeaveEnv \/ LeaveSender \/ LeaveMeter
  PROVE  IInv'
<1> DEFINE n == Len(stack)
           c == stack[n]
<1>1. /\ stack # <<>> /\ stack' = SubSeq(stack, 1, n - 1) /\ UNCHANGED <<vm, contracts>>
      /\ c.kind \in {"anchor", "env", "sender", "meter"}
  BY DEF LeaveAnchor, LeaveEnv, LeaveSender, LeaveMeter, Leave
<1>2. /\ c.env \in Env /\ c.eoa \in Sender /\ c.meter \in Meter
      /\ c.time \in {0, 1} /\ c.limit \in {0, 1}
  <2>1. c \in Frame
    BY <1>1, Popped DEF IInv, SessionTypes
  <2> QED
    BY <2>1 DEF Frame
<1>3. /\ current \in Env /\ time \in [Env -> {0, 1}] /\ limit \in {0, 1}
      /\ eoa \in [Env -> Sender] /\ meter \in [Env -> Meter]
  BY DEF IInv, SessionTypes
<1>4. CASE LeaveAnchor
  <2>1. /\ UNCHANGED <<current, eoa, meter>> /\ limit' = c.limit /\ time' = Unpatched(c)
        /\ db' = IF Live(c) THEN [db EXCEPT ![c.env] = c.chain] ELSE db
        /\ journal' = IF Live(c) THEN [journal EXCEPT ![c.env] = {o \in @ : o.id < n}] ELSE journal
    BY <1>4, Revert
  <2> HIDE DEF n, c
  <2>2. time' \in [Env -> {0, 1}]
    BY <1>2, <1>3, <2>1 DEF Unpatched
  <2> QED
    BY <1>1, <1>2, <1>3, <2>1, <2>2, LeaveBlock DEF n, c
<1>5. CASE LeaveEnv \/ LeaveSender \/ LeaveMeter
  <2>1. /\ c.kind # "anchor" /\ UNCHANGED <<db, time, journal, limit>>
        /\ current' = current \/ current' = c.env
        /\ eoa' = eoa \/ eoa' = [eoa EXCEPT ![c.env] = c.eoa]
        /\ meter' = meter \/ meter' = [meter EXCEPT ![c.env] = c.meter]
    BY <1>5 DEF LeaveEnv, LeaveSender, LeaveMeter, Leave
  <2> HIDE DEF n, c
  <2>2. current' \in Env /\ eoa' \in [Env -> Sender] /\ meter' \in [Env -> Meter]
    BY <1>2, <1>3, <2>1
  <2>3. ~Live(c)
    BY <2>1 DEF Live
  <2> QED
    BY <1>1, <1>3, <2>1, <2>2, <2>3, LeaveBlock DEF n, c
<1> QED
  BY <1>4, <1>5

(***************************************************************************)
(* Theorems                                                                *)
(***************************************************************************)

\* The invariant holds in every state of a session.
LEMMA Invariance ==
  SessionSpec => []IInv
<1>1. SessionInit => IInv
  <2> SUFFICES ASSUME SessionInit PROVE IInv
    OBVIOUS
  <2>1. stack = <<>> /\ Len(stack) = 0
    BY DEF SessionInit
  <2>2. /\ current \in Env /\ db \in [Env -> Chain] /\ time \in [Env -> {0, 1}] /\ limit \in {0, 1}
        /\ vm \in [Env -> {0, 1}] /\ journal \in [Env -> SUBSET [id: Nat, chain: Chain]]
        /\ eoa \in [Env -> Sender] /\ meter \in [Env -> Meter] /\ stack \in Seq(Frame)
    BY FreshChain, SessionAssumption DEF SessionInit, Sender, Meter
  <2>3. contracts = [e \in Env |-> [x \in Addr |-> [code |-> None, by |-> e]]]
    BY DEF SessionInit
  <2>4. \A e \in Env : [code |-> None, by |-> e] \in Object
    BY DEF Object, Direct
  <2>5. contracts \in [Env -> [Addr -> Object]] /\ ForeignIsObject
    BY <2>3, <2>4 DEF ForeignIsObject
  <2>6. SessionTypes
    BY <2>2, <2>5 DEF SessionTypes
  <2>7. \A e \in Env, x \in Addr : db[e].code[x] = None
    BY FreshChain DEF SessionInit
  <2>8. FirstIsDirect
    BY <2>7 DEF FirstIsDirect, Direct, Addr
  <2>9. RegistryIsCurrent
    BY <2>7, CodeNames DEF RegistryIsCurrent
  <2>10. Restorable
    BY <2>1 DEF Restorable
  <2>11. Aligned
    <3>1. \A e \in Env : journal[e] = {}
      BY DEF SessionInit
    <3> QED
      BY <2>1, <3>1 DEF Aligned
  <2> QED
    BY <2>5, <2>6, <2>8, <2>9, <2>10, <2>11 DEF IInv
<1>2. IInv /\ [SessionNext]_sessionVars => IInv'
  <2> SUFFICES ASSUME IInv, [SessionNext]_sessionVars PROVE IInv'
    OBVIOUS
  <2>1. CASE UNCHANGED sessionVars
    BY <2>1 DEF sessionVars, IInv, SessionTypes, FirstIsDirect, ForeignIsObject, Restorable,
      Aligned, Live, RegistryIsCurrent
  <2>2. CASE LeaveAnchor \/ LeaveEnv \/ LeaveSender \/ LeaveMeter
    BY <2>2, LeaveStep
  <2>3. CASE SetLimit
    BY <2>3, OtherSteps, SessionAssumption
  <2>4. ASSUME NEW e \in Env,
               \/ \E code \in {"A", "B"}, works \in BOOLEAN : Deploy(e, code, works)
               \/ \E code \in {"A", "U", "proxy"}, works, kept \in BOOLEAN : Create(e, code, works, kept)
               \/ Store(e) \/ TimeTravel(e) \/ ForkRpc(e) \/ SetEnv(e)
               \/ EnterAnchor(e) \/ EnterEnv(e)
               \/ \E a \in Account : EnterSender(e, a)
               \/ \E m \in Meter : SetMeter(e, m) \/ EnterMeter(e, m)
        PROVE  IInv'
    BY <2>4, DeployStep, CreateStep, OtherSteps, ForkStep, EnterStep
  <2> QED
    BY <2>1, <2>2, <2>3, <2>4 DEF SessionNext, Meter
<1> QED
  BY <1>1, <1>2, PTL DEF SessionSpec

\* The object that Env.lookup_contract finds for code that boa knows was made for
\* that code, in every environment and whatever anchors, simulations, reverts,
\* failed creations, proxies and forks came before; or it was put there by an
\* execution of another environment that created a contract while this one was
\* current (the one exception).
THEOREM RegistryStaysCurrent == SessionSpec => []RegistryIsCurrent
<1>1. IInv => RegistryIsCurrent
  BY DEF IInv
<1> QED
  BY <1>1, Invariance, PTL

\* Leaving an Env.anchor finds its checkpoint and brings back the chain and the
\* time that entering it found, however deep anchors of however many environments
\* are nested; or, if fork_rpc gave its environment another vm, it finds none,
\* fails, and leaves the fork alone.
THEOREM AnchorsAlwaysRestore == SessionSpec => AnchorsRestore
<1> DEFINE A == LET c == stack[Len(stack)]
                IN  Len(stack') < Len(stack) /\ c.kind = "anchor" =>
                      /\ limit' = c.limit
                      /\ failed' <=> vm[c.env] # c.vm
                      /\ db' = IF failed' THEN db ELSE [db EXCEPT ![c.env] = c.chain]
                      /\ time' = IF failed' THEN time ELSE [time EXCEPT ![c.env] = c.time]
<1>1. IInv /\ [SessionNext]_sessionVars => [A]_sessionVars
  <2> DEFINE c == stack[Len(stack)]
  <2> SUFFICES ASSUME IInv, SessionNext, Len(stack') < Len(stack), c.kind = "anchor"
               PROVE  /\ limit' = c.limit
                      /\ failed' <=> vm[c.env] # c.vm
                      /\ db' = IF failed' THEN db ELSE [db EXCEPT ![c.env] = c.chain]
                      /\ time' = IF failed' THEN time ELSE [time EXCEPT ![c.env] = c.time]
    OBVIOUS
  <2>1. Len(stack) \in Nat /\ stack \in Seq(Frame)
    BY LenProperties DEF IInv, SessionTypes
  <2>2. LeaveAnchor
    <3>1. UNCHANGED stack \/ (\E b : Enter(b)) \/ (\E kind : kind # "anchor" /\ Leave(kind)) \/ LeaveAnchor
      BY DEF SessionNext, Deploy, Create, Store, TimeTravel, SetLimit, ForkRpc, SetMeter, SetEnv,
        EnterAnchor, EnterEnv, EnterSender, EnterMeter, LeaveEnv, LeaveSender, LeaveMeter
    <3>2. ~UNCHANGED stack
      BY <2>1
    <3>3. ASSUME NEW b, Enter(b) PROVE FALSE
      <4>1. stack' = Append(stack, b)
        BY <3>3 DEF Enter
      <4>2. Len(stack') = Len(stack) + 1
        BY <2>1, <4>1
      <4> QED
        BY <2>1, <4>2
    <3>4. ASSUME NEW kind, kind # "anchor", Leave(kind) PROVE FALSE
      BY <3>4 DEF Leave
    <3> QED
      BY <3>1, <3>2, <3>3, <3>4
  <2>3. /\ limit' = c.limit /\ time' = Unpatched(c) /\ failed' = (c.vm # vm[c.env])
        /\ db' = IF Live(c) THEN [db EXCEPT ![c.env] = c.chain] ELSE db
    BY <2>2, Revert
  <2> HIDE DEF c
  <2> QED
    BY <2>3 DEF Unpatched, Live
<1> QED
  BY <1>1, Invariance, PTL DEF SessionSpec, AnchorsRestore

(***************************************************************************)
(* Dealer: storage slots and what view functions make of them              *)
(***************************************************************************)

DealerSpec == DealerInit /\ [][DealerNext]_dealerVars

Storage == [Slot -> 0..(Word - 1)]
Functions == {<<"balance", kind>> : kind \in BalanceKinds}
             \union {<<"supply", kind>> : kind \in SupplyKinds \ {"missing"}}

\* What each function returns.
LEMMA Results ==
  ASSUME NEW s
  PROVE  /\ View(<<"balance", "plain">>, s).result = s[1]
         /\ View(<<"balance", "after other">>, s).result = s[1]
         /\ View(<<"balance", "packed">>, s).result = s[1] % 2
         /\ View(<<"balance", "scaled">>, s).result = (2 * s[1]) % Word
         /\ View(<<"balance", "pooled">>, s).result = (s[1] + s[2]) % Word
         /\ View(<<"supply", "plain">>, s).result = s[3]
         /\ View(<<"supply", "after balance">>, s).result = s[3]
         /\ View(<<"supply", "sum">>, s).result = (s[1] + s[2]) % Word
  BY DEF View

\* What each function loads.
LEMMA LoadsOf ==
  ASSUME NEW s
  PROVE  /\ View(<<"balance", "plain">>, s).loads = <<1>>
         /\ View(<<"balance", "after other">>, s).loads = <<2, 3, 1>>
         /\ View(<<"balance", "packed">>, s).loads = <<1>>
         /\ View(<<"balance", "scaled">>, s).loads = <<1>>
         /\ View(<<"balance", "pooled">>, s).loads = <<2, 1>>
         /\ View(<<"supply", "plain">>, s).loads = <<3>>
         /\ View(<<"supply", "after balance">>, s).loads = <<1, 2, 3>>
         /\ View(<<"supply", "sum">>, s).loads = <<1, 2>>
  BY DEF View

\* The functions, one by one.
LEMMA FunctionCases ==
  ASSUME NEW f \in Functions
  PROVE  /\ f[2] # "missing"
         /\ \/ f = <<"balance", "plain">> \/ f = <<"balance", "after other">>
            \/ f = <<"balance", "packed">> \/ f = <<"balance", "scaled">>
            \/ f = <<"balance", "pooled">> \/ f = <<"supply", "plain">>
            \/ f = <<"supply", "after balance">> \/ f = <<"supply", "sum">>
<1>1. ASSUME NEW kind \in BalanceKinds, f = <<"balance", kind>>
      PROVE  /\ f[2] # "missing"
             /\ \/ f = <<"balance", "plain">> \/ f = <<"balance", "after other">>
                \/ f = <<"balance", "packed">> \/ f = <<"balance", "scaled">>
                \/ f = <<"balance", "pooled">>
  <2>1. f[2] = kind
    BY <1>1
  <2>2. kind # "missing"
    BY DEF BalanceKinds
  <2>3. kind \in {"plain", "after other", "packed", "scaled", "pooled"}
    BY DEF BalanceKinds
  <2> QED
    BY <1>1, <2>1, <2>2, <2>3, Zenon
<1>2. ASSUME NEW kind \in SupplyKinds \ {"missing"}, f = <<"supply", kind>>
      PROVE  /\ f[2] # "missing"
             /\ \/ f = <<"supply", "plain">> \/ f = <<"supply", "after balance">>
                \/ f = <<"supply", "sum">>
  <2>1. f[2] = kind
    BY <1>2
  <2>2. kind \in {"plain", "after balance", "sum"} /\ kind # "missing"
    BY DEF SupplyKinds
  <2> QED
    BY <1>2, <2>1, <2>2, Zenon
<1>3. \/ \E kind \in BalanceKinds : f = <<"balance", kind>>
      \/ \E kind \in SupplyKinds \ {"missing"} : f = <<"supply", kind>>
  BY DEF Functions
<1> QED
  BY <1>1, <1>2, <1>3, Zenon

\* The loads are slots.
LEMMA Loads ==
  ASSUME NEW s, NEW f \in Functions
  PROVE  \E n \in 1..3 : /\ DOMAIN View(f, s).loads = 1..n
                         /\ \A k \in 1..n : View(f, s).loads[k] \in Slot
<1> DEFINE l == View(f, s).loads
<1>1. l \in {<<1>>, <<3>>, <<2, 1>>, <<1, 2>>, <<2, 3, 1>>, <<1, 2, 3>>}
  BY FunctionCases, LoadsOf, Zenon
<1> HIDE DEF l
<1>2. /\ l \in {<<1>>, <<3>>} => DOMAIN l = 1..1 /\ l[1] \in Slot
      /\ l \in {<<2, 1>>, <<1, 2>>} => DOMAIN l = 1..2 /\ \A k \in 1..2 : l[k] \in Slot
      /\ l \in {<<2, 3, 1>>, <<1, 2, 3>>} => DOMAIN l = 1..3 /\ \A k \in 1..3 : l[k] \in Slot
  BY DEF Slot
<1> QED
  BY <1>1, <1>2 DEF l

\* An update leaves the storage as it was, or puts one value into a slot that
\* held the result.
LEMMA Updated ==
  ASSUME NEW f \in Functions, NEW s, NEW mk
  PROVE  LET r == UpdateStorageSlot(f, s, mk)
         IN \/ r.sto = s /\ r.outcome \in {"no slot", "no word"}
            \/ \E slot \in Slot :
                 LET after == [s EXCEPT ![slot] = mk[s[slot]]]
                 IN /\ Found(f, s, slot) /\ mk[s[slot]] \in 0..(Word - 1)
                    /\ r.sto = after
                    /\ r.outcome = IF View(f, after).result = mk[s[slot]] THEN "done" ELSE "weird"
<1> DEFINE slots == View(f, s).loads
           hits == {k \in DOMAIN slots : Found(f, s, slots[k])}
           best == CHOOSE k \in hits : \A j \in hits : k <= j
           slot == slots[best]
           value == mk[s[slot]]
           after == [s EXCEPT ![slot] = value]
           r == UpdateStorageSlot(f, s, mk)
<1>1. f[2] # "missing"
  BY FunctionCases
<1>2. CASE hits = {}
  <2>1. r = [sto |-> s, outcome |-> "no slot"]
    BY <1>1, <1>2 DEF UpdateStorageSlot
  <2> HIDE DEF r
  <2>2. r.sto = s /\ r.outcome = "no slot"
    BY <2>1
  <2> QED
    BY <2>2 DEF r
<1>3. CASE hits # {}
  <2>1. best \in hits
    <3>1. hits \subseteq 1..3
      BY Loads
    <3>2. \E k \in hits : \A j \in hits : k <= j
      <4> HIDE DEF hits
      <4>1. CASE 1 \in hits
        BY <3>1, <4>1
      <4>2. CASE 1 \notin hits /\ 2 \in hits
        BY <3>1, <4>2
      <4>3. CASE 1 \notin hits /\ 2 \notin hits
        <5>1. \A j \in hits : j = 3
          BY <3>1, <4>3
        <5> QED
          BY <1>3, <5>1
      <4> QED
        BY <4>1, <4>2, <4>3
    <3> QED
      BY <3>2
  <2>2. slot \in Slot /\ Found(f, s, slot) /\ best \in DOMAIN slots
    BY <2>1, Loads
  <2>3. r = IF value \notin 0..(Word - 1) THEN [sto |-> s, outcome |-> "no word"]
            ELSE IF View(f, after).result # value THEN [sto |-> after, outcome |-> "weird"]
            ELSE [sto |-> after, outcome |-> "done"]
    BY <1>1, <1>3 DEF UpdateStorageSlot
  <2> HIDE DEF best, slots, r, after, slot
  <2>4. CASE value \notin 0..(Word - 1)
    <3>1. r.sto = s /\ r.outcome = "no word"
      BY <2>3, <2>4
    <3> QED
      BY <3>1 DEF r
  <2>5. CASE value \in 0..(Word - 1)
    <3>1. /\ r.sto = after
          /\ r.outcome = IF View(f, after).result = value THEN "done" ELSE "weird"
      BY <2>3, <2>5
    <3> QED
      BY <2>2, <2>5, <3>1 DEF slot, slots, after, r
  <2> QED
    BY <2>4, <2>5 DEF r
<1> QED
  BY <1>2, <1>3

\* A sum of two words wraps at most once.
LEMMA Wraps ==
  ASSUME NEW x \in 0..(2 * Word - 1)
  PROVE  x % Word = IF x < Word THEN x ELSE x - Word
<1>1. CASE x < Word
  BY <1>1, DealerAssumption, SMTT(20)
<1>2. CASE x >= Word
  BY <1>2, DealerAssumption, SMTT(20)
<1> QED
  BY <1>1, <1>2, DealerAssumption

\* The poison is another word.
LEMMA Poison ==
  ASSUME NEW x \in 0..(Word - 1)
  PROVE  (x + 1) % Word \in 0..(Word - 1) /\ (x + 1) % Word # x
<1>1. x + 1 \in 0..(2 * Word - 1) /\ x \in Int /\ Word \in Int /\ Word > 1
  BY DealerAssumption
<1>2. (x + 1) % Word = IF x + 1 < Word THEN x + 1 ELSE x + 1 - Word
  BY <1>1, Wraps
<1> QED
  BY <1>1, <1>2

\* A slot that holds the result and passes the poison test is the one the function
\* reads; one of two that it adds up passes only if the other one holds 0, and one
\* that it scales never does.
LEMMA FoundSlot ==
  ASSUME NEW s \in Storage, NEW slot \in Slot, NEW f, Found(f, s, slot)
  PROVE  /\ f \in {<<"balance", "plain">>, <<"balance", "after other">>, <<"balance", "packed">>}
              => slot = 1
         /\ f # <<"balance", "scaled">>
         /\ f = <<"balance", "pooled">> => slot \in {1, 2} /\ s[3 - slot] = 0
         /\ f \in {<<"supply", "plain">>, <<"supply", "after balance">>} => slot = 3
<1> DEFINE x == s[slot]
           y == (x + 1) % Word
           t == [s EXCEPT ![slot] = y]
<1>1. x = View(f, s).result /\ y = View(f, t).result
  BY DEF Found
<1>2. x \in 0..(Word - 1) /\ y \in 0..(Word - 1) /\ y # x
  BY Poison DEF Storage
<1>3. t \in Storage /\ t[slot] = y /\ \A z \in Slot \ {slot} : t[z] = s[z]
  BY <1>2 DEF Storage
<1>4. 1 \in Slot /\ 2 \in Slot /\ 3 \in Slot /\ slot \in {1, 2, 3}
  BY DEF Slot
<1>5. \A z \in Slot : s[z] \in 0..(Word - 1)
  BY DEF Storage
<1>6. Word \in Int /\ Word > 1
  BY DealerAssumption
<1>7. y = IF x + 1 < Word THEN x + 1 ELSE 0
  BY <1>2, <1>6, Wraps
<1> HIDE DEF y, t
<1>8. ASSUME f \in {<<"balance", "plain">>, <<"balance", "after other">>}
      PROVE  slot = 1
  <2>1. View(f, s).result = s[1] /\ View(f, t).result = t[1]
    BY <1>8, Results
  <2>2. slot = 1
    BY <1>1, <1>2, <1>3, <1>4, <2>1
  <2> QED
    BY <2>2
<1>9. ASSUME f = <<"balance", "packed">>
      PROVE  slot = 1
  <2>1. View(f, s).result = s[1] % 2 /\ View(f, t).result = t[1] % 2
    BY <1>9, Results
  <2>2. slot = 1
    BY <1>1, <1>2, <1>3, <1>4, <2>1
  <2> QED
    BY <2>2
<1>10. ASSUME f = <<"balance", "scaled">>
      PROVE  FALSE
  <2>1. View(f, s).result = (2 * s[1]) % Word /\ View(f, t).result = (2 * t[1]) % Word
    BY <1>10, Results
  <2>2. slot = 1
    BY <1>1, <1>2, <1>3, <1>4, <2>1
  <2>3. x = (2 * x) % Word /\ y = (2 * y) % Word
    BY <1>1, <1>3, <2>1, <2>2
  <2>4. \A z \in 0..(Word - 1) : (2 * z) % Word = z => z = 0
    <3> SUFFICES ASSUME NEW z \in 0..(Word - 1), (2 * z) % Word = z PROVE z = 0
      OBVIOUS
    <3>1. (2 * z) % Word = IF 2 * z < Word THEN 2 * z ELSE 2 * z - Word
      BY <1>6, Wraps
    <3> QED
      BY <1>6, <3>1
  <2>5. FALSE
    BY <1>2, <2>3, <2>4
  <2> QED
    BY <2>5
<1>11. ASSUME f = <<"balance", "pooled">>
      PROVE  slot \in {1, 2} /\ s[3 - slot] = 0
  <2>1. View(f, s).result = (s[1] + s[2]) % Word /\ View(f, t).result = (t[1] + t[2]) % Word
    BY <1>11, Results
  <2>2. slot \in {1, 2}
    BY <1>1, <1>2, <1>3, <1>4, <2>1
  <2>3. x = (x + s[3 - slot]) % Word /\ 3 - slot \in Slot
    BY <1>1, <1>4, <1>5, <2>1, <2>2
  <2> DEFINE o == s[3 - slot]
  <2>4. o \in 0..(Word - 1)
    BY <1>5, <2>3
  <2> HIDE DEF o, x
  <2>5. (x + o) % Word = IF x + o < Word THEN x + o ELSE x + o - Word
    BY <1>2, <1>6, <2>4, Wraps
  <2>6. o = 0
    BY <1>2, <1>6, <2>3, <2>4, <2>5 DEF o
  <2> QED
    BY <2>2, <2>6 DEF o
<1>12. ASSUME f \in {<<"supply", "plain">>, <<"supply", "after balance">>}
      PROVE  slot = 3
  <2>1. View(f, s).result = s[3] /\ View(f, t).result = t[3]
    BY <1>12, Results
  <2>2. slot = 3
    BY <1>1, <1>2, <1>3, <1>4, <2>1
  <2> QED
    BY <2>2
<1> QED
  BY <1>8, <1>9, <1>10, <1>11, <1>12

\* The views and the two updates of a deal, by the kinds of the token.
Balance(kind, s) == View(<<"balance", kind>>, s).result
Supply(kind, s) == View(<<"supply", kind>>, s).result
SetBalance(kind, s, amount) ==
  UpdateStorageSlot(<<"balance", kind>>, s, [old \in 0..(Word - 1) |-> amount])
MoveSupply(kind, s, delta) ==
  UpdateStorageSlot(<<"supply", kind>>, s, [supply \in 0..(Word - 1) |-> supply + delta])

\* What update_storage_slot does for a balance.
LEMMA BalanceUpdate ==
  ASSUME NEW kind \in BalanceKinds, NEW s \in Storage, NEW amount
  PROVE  LET r == SetBalance(kind, s, amount)
         IN /\ r.sto \in Storage /\ r.sto[3] = s[3] /\ (kind # "pooled" => r.sto[2] = s[2])
            /\ r.outcome \in {"no slot", "no word", "weird", "done"}
            /\ r.outcome = "done" => Balance(kind, r.sto) = amount
            /\ r.sto # s => Balance(kind, r.sto) = amount \/ (r.outcome = "weird" /\ kind = "packed")
<1> DEFINE f == <<"balance", kind>>
           mk == [old \in 0..(Word - 1) |-> amount]
           r == UpdateStorageSlot(f, s, mk)
<1>1. f \in Functions
  BY DEF Functions
<1>2. \A z \in Slot : s[z] \in 0..(Word - 1) /\ mk[s[z]] = amount
  BY DEF Storage
<1>3. 1 \in Slot /\ 2 \in Slot /\ 3 \in Slot
  BY DEF Slot
<1> HIDE DEF mk, f
<1>4. \/ r.sto = s /\ r.outcome \in {"no slot", "no word"}
      \/ \E slot \in Slot :
           LET after == [s EXCEPT ![slot] = amount]
           IN /\ Found(f, s, slot) /\ amount \in 0..(Word - 1) /\ r.sto = after
              /\ r.outcome = IF View(f, after).result = amount THEN "done" ELSE "weird"
  <2>1. CASE r.sto = s /\ r.outcome \in {"no slot", "no word"}
    BY <2>1
  <2>2. ASSUME NEW slot \in Slot, Found(f, s, slot), mk[s[slot]] \in 0..(Word - 1),
               r.sto = [s EXCEPT ![slot] = mk[s[slot]]],
               r.outcome = IF View(f, [s EXCEPT ![slot] = mk[s[slot]]]).result = mk[s[slot]]
                           THEN "done" ELSE "weird"
        PROVE  \E x \in Slot :
                 LET after == [s EXCEPT ![x] = amount]
                 IN /\ Found(f, s, x) /\ amount \in 0..(Word - 1) /\ r.sto = after
                    /\ r.outcome = IF View(f, after).result = amount THEN "done" ELSE "weird"
    BY <1>2, <2>2, Zenon
  <2> QED
    BY <1>1, <2>1, <2>2, Updated, Zenon
<1> HIDE DEF r
<1>5. CASE r.sto = s /\ r.outcome \in {"no slot", "no word"}
  BY <1>5 DEF r, mk, f, SetBalance
<1>6. ASSUME NEW slot \in Slot, Found(f, s, slot), amount \in 0..(Word - 1),
             r.sto = [s EXCEPT ![slot] = amount],
             r.outcome = IF View(f, r.sto).result = amount THEN "done" ELSE "weird"
      PROVE  /\ r.sto \in Storage /\ r.sto[3] = s[3] /\ (kind # "pooled" => r.sto[2] = s[2])
             /\ kind # "packed" => View(f, r.sto).result = amount
  <2> DEFINE after == r.sto
  <2>1. after \in Storage /\ after[slot] = amount /\ \A z \in Slot \ {slot} : after[z] = s[z]
    BY <1>6 DEF Storage
  <2> HIDE DEF after
  <2>2. CASE kind \in {"plain", "after other", "packed"}
    <3>1. slot = 1
      BY <1>6, <2>2, FoundSlot DEF f
    <3>2. kind # "packed" => View(f, after).result = after[1]
      BY <2>2, Results DEF f
    <3> QED
      BY <1>3, <2>1, <3>1, <3>2 DEF after
  <2>3. CASE kind = "pooled"
    <3>1. slot \in {1, 2} /\ s[3 - slot] = 0
      BY <1>6, <2>3, FoundSlot DEF f
    <3>2. View(f, after).result = (after[1] + after[2]) % Word
      BY <2>3, Results DEF f
    <3>3. /\ after[3] = s[3]
          /\ (after[1] = amount /\ after[2] = 0) \/ (after[1] = 0 /\ after[2] = amount)
      <4>1. CASE slot = 1
        BY <1>3, <2>1, <3>1, <4>1
      <4>2. CASE slot = 2
        BY <1>3, <2>1, <3>1, <4>2
      <4> QED
        BY <3>1, <4>1, <4>2
    <3>4. amount % Word = amount /\ amount \in Nat /\ amount + 0 = amount /\ 0 + amount = amount
      BY <1>6, DealerAssumption, Wraps
    <3> QED
      BY <2>1, <2>3, <3>2, <3>3, <3>4 DEF after
  <2>4. kind # "scaled"
    BY <1>6, FoundSlot DEF f
  <2> QED
    BY <2>2, <2>3, <2>4 DEF BalanceKinds
<1>7. ASSUME NEW slot \in Slot, Found(f, s, slot), amount \in 0..(Word - 1),
             r.sto = [s EXCEPT ![slot] = amount],
             r.outcome = IF View(f, r.sto).result = amount THEN "done" ELSE "weird"
      PROVE  /\ r.sto \in Storage /\ r.sto[3] = s[3] /\ (kind # "pooled" => r.sto[2] = s[2])
             /\ r.outcome \in {"no slot", "no word", "weird", "done"}
             /\ r.outcome = "done" => View(f, r.sto).result = amount
             /\ View(f, r.sto).result = amount \/ (r.outcome = "weird" /\ kind = "packed")
  <2>1. /\ r.sto \in Storage /\ r.sto[3] = s[3] /\ (kind # "pooled" => r.sto[2] = s[2])
        /\ kind # "packed" => View(f, r.sto).result = amount
    BY <1>6, <1>7
  <2> QED
    BY <1>7, <2>1
<1>8. CASE \E slot \in Slot :
             /\ Found(f, s, slot) /\ amount \in 0..(Word - 1)
             /\ r.sto = [s EXCEPT ![slot] = amount]
             /\ r.outcome = IF View(f, r.sto).result = amount THEN "done" ELSE "weird"
  <2>1. /\ r.sto \in Storage /\ r.sto[3] = s[3] /\ (kind # "pooled" => r.sto[2] = s[2])
        /\ r.outcome \in {"no slot", "no word", "weird", "done"}
        /\ r.outcome = "done" => View(f, r.sto).result = amount
        /\ View(f, r.sto).result = amount \/ (r.outcome = "weird" /\ kind = "packed")
    BY <1>7, <1>8
  <2> QED
    BY <2>1 DEF r, mk, f, SetBalance, Balance
<1> QED
  BY <1>4, <1>5, <1>8

\* What update_storage_slot does for a supply that is kept in a slot of its own, or
\* not at all.
LEMMA SupplyUpdate ==
  ASSUME NEW kind \in SupplyKinds, NEW s \in Storage, NEW delta \in Int
  PROVE  LET r == MoveSupply(kind, s, delta)
         IN /\ r.sto \in Storage
            /\ kind # "sum" =>
                 \/ r.sto = s /\ r.outcome \in {"no function", "no slot", "no word"}
                 \/ /\ r.outcome = "done" /\ kind # "missing"
                    /\ r.sto[1] = s[1] /\ r.sto[2] = s[2] /\ r.sto[3] = s[3] + delta
                    /\ Supply(kind, s) = s[3] /\ Supply(kind, r.sto) = s[3] + delta
<1> DEFINE f == <<"supply", kind>>
           mk == [supply \in 0..(Word - 1) |-> supply + delta]
           r == UpdateStorageSlot(f, s, mk)
<1>1. \A z \in Slot : s[z] \in 0..(Word - 1) /\ mk[s[z]] = s[z] + delta
  BY DEF Storage
<1>2. 1 \in Slot /\ 2 \in Slot /\ 3 \in Slot
  BY DEF Slot
<1>3. CASE kind = "missing"
  <2>1. r = [sto |-> s, outcome |-> "no function"]
    BY <1>3 DEF UpdateStorageSlot
  <2> HIDE DEF r
  <2>2. r.sto = s /\ r.outcome = "no function"
    BY <2>1
  <2> QED
    BY <1>3, <2>2 DEF r, MoveSupply
<1>4. CASE kind # "missing"
  <2>1. f \in Functions
    BY <1>4 DEF Functions
  <2> HIDE DEF mk, f
  <2>2. \/ r.sto = s /\ r.outcome \in {"no slot", "no word"}
        \/ \E slot \in Slot :
             /\ Found(f, s, slot) /\ mk[s[slot]] \in 0..(Word - 1)
             /\ r.sto = [s EXCEPT ![slot] = mk[s[slot]]]
             /\ r.outcome = IF View(f, r.sto).result = mk[s[slot]] THEN "done" ELSE "weird"
    <3>1. CASE r.sto = s /\ r.outcome \in {"no slot", "no word"}
      BY <3>1
    <3>2. ASSUME NEW slot \in Slot, Found(f, s, slot), mk[s[slot]] \in 0..(Word - 1),
                 r.sto = [s EXCEPT ![slot] = mk[s[slot]]],
                 r.outcome = IF View(f, [s EXCEPT ![slot] = mk[s[slot]]]).result = mk[s[slot]]
                             THEN "done" ELSE "weird"
          PROVE  \E x \in Slot :
                   /\ Found(f, s, x) /\ mk[s[x]] \in 0..(Word - 1)
                   /\ r.sto = [s EXCEPT ![x] = mk[s[x]]]
                   /\ r.outcome = IF View(f, r.sto).result = mk[s[x]] THEN "done" ELSE "weird"
      BY <3>2, Zenon
    <3> QED
      BY <2>1, <3>1, <3>2, Updated, Zenon
  <2> HIDE DEF r
  <2>3. CASE r.sto = s /\ r.outcome \in {"no slot", "no word"}
    BY <2>3 DEF r, mk, f, MoveSupply
  <2>4. ASSUME NEW slot \in Slot, Found(f, s, slot), mk[s[slot]] \in 0..(Word - 1),
               r.sto = [s EXCEPT ![slot] = mk[s[slot]]],
               r.outcome = IF View(f, r.sto).result = mk[s[slot]] THEN "done" ELSE "weird"
        PROVE  /\ r.sto \in Storage
               /\ kind # "sum" =>
                    /\ r.outcome = "done"
                    /\ r.sto[1] = s[1] /\ r.sto[2] = s[2] /\ r.sto[3] = s[3] + delta
                    /\ View(f, s).result = s[3] /\ View(f, r.sto).result = s[3] + delta
    <3> DEFINE after == r.sto
    <3>1. after \in Storage /\ after[slot] = mk[s[slot]] /\ \A z \in Slot \ {slot} : after[z] = s[z]
      BY <2>4 DEF Storage
    <3> HIDE DEF after
    <3>2. CASE kind \in {"plain", "after balance"}
      <4>1. slot = 3
        BY <2>4, <3>2, FoundSlot DEF f
      <4>2. View(f, after).result = after[3] /\ View(f, s).result = s[3]
        BY <3>2, Results DEF f
      <4>3. after[1] = s[1] /\ after[2] = s[2] /\ after[3] = s[3] + delta /\ mk[s[slot]] = after[3]
        BY <1>1, <1>2, <3>1, <4>1
      <4> QED
        BY <2>4, <3>1, <4>2, <4>3 DEF after
    <3> QED
      BY <1>4, <3>1, <3>2 DEF SupplyKinds, after
  <2>5. CASE \E slot \in Slot :
               /\ Found(f, s, slot) /\ mk[s[slot]] \in 0..(Word - 1)
               /\ r.sto = [s EXCEPT ![slot] = mk[s[slot]]]
               /\ r.outcome = IF View(f, r.sto).result = mk[s[slot]] THEN "done" ELSE "weird"
    <3>1. /\ r.sto \in Storage
          /\ kind # "sum" =>
               /\ r.outcome = "done"
               /\ r.sto[1] = s[1] /\ r.sto[2] = s[2] /\ r.sto[3] = s[3] + delta
               /\ View(f, s).result = s[3] /\ View(f, r.sto).result = s[3] + delta
      BY <2>4, <2>5
    <3> QED
      BY <1>4, <3>1 DEF r, mk, f, MoveSupply, Supply
  <2> QED
    BY <2>2, <2>3, <2>5
<1> QED
  BY <1>3, <1>4

\* A balance is an integer, and what slot 3 holds makes no difference to it.
LEMMA BalanceReads ==
  ASSUME NEW kind \in BalanceKinds, NEW s \in Storage, NEW t \in Storage
  PROVE  /\ Balance(kind, s) \in Int
         /\ s[1] = t[1] /\ s[2] = t[2] => Balance(kind, s) = Balance(kind, t)
<1> DEFINE v(u) == View(<<"balance", kind>>, u).result
<1>1. s[1] \in Int /\ s[2] \in Int /\ Word \in Nat \ {0}
  BY DealerAssumption DEF Storage, Slot
<1>2. s[1] % 2 \in Int /\ (2 * s[1]) % Word \in Int /\ (s[1] + s[2]) % Word \in Int
  BY <1>1, SMTT(20)
<1>3. \/ v(s) = s[1] /\ v(t) = t[1]
      \/ v(s) = s[1] % 2 /\ v(t) = t[1] % 2
      \/ v(s) = (2 * s[1]) % Word /\ v(t) = (2 * t[1]) % Word
      \/ v(s) = (s[1] + s[2]) % Word /\ v(t) = (t[1] + t[2]) % Word
  <2>1. kind \in {"plain", "after other", "packed", "scaled", "pooled"}
    BY DEF BalanceKinds
  <2> QED
    BY <2>1, Results, Zenon
<1> HIDE DEF v
<1>4. v(s) \in Int /\ (s[1] = t[1] /\ s[2] = t[2] => v(s) = v(t))
  BY <1>1, <1>2, <1>3, Zenon
<1> QED
  BY <1>4 DEF v, Balance

\* Words stay words, and a token computes its views as it always did.
DealerTypes ==
  /\ sto \in Storage
  /\ token \in [balance : BalanceKinds, supply : SupplyKinds]

\* One deal.
LEMMA DealStep ==
  ASSUME DealerTypes, NEW amount \in 0..Word, NEW adjust \in BOOLEAN, Deal(amount, adjust)
  PROVE  DealerTypes' /\ DealIsHonest'
<1> DEFINE b == token.balance
           u == token.supply
           B(x) == Balance(b, x)
           S(x) == Supply(u, x)
           first == SetBalance(b, sto, amount)
           delta == amount - B(sto)
           second == MoveSupply(u, first.sto, delta)
           last == IF first.outcome = "done" /\ adjust THEN second ELSE first
           out == IF first.outcome # "done" THEN "no balance" ELSE last.outcome
<1>1. b \in BalanceKinds /\ u \in SupplyKinds /\ sto \in Storage
  BY DEF DealerTypes
<1>2. /\ first.sto \in Storage /\ first.sto[3] = sto[3] /\ (b # "pooled" => first.sto[2] = sto[2])
      /\ first.outcome \in {"no slot", "no word", "weird", "done"}
      /\ first.outcome = "done" => B(first.sto) = amount
      /\ first.sto # sto => B(first.sto) = amount \/ (first.outcome = "weird" /\ b = "packed")
  BY <1>1, BalanceUpdate
<1>3. B(sto) \in Int /\ sto[3] \in Int /\ delta \in Int
  BY <1>1, BalanceReads, DealerAssumption DEF Storage, Slot
<1>4. /\ second.sto \in Storage
      /\ u # "sum" =>
           \/ second.sto = first.sto /\ second.outcome \in {"no function", "no slot", "no word"}
           \/ /\ second.outcome = "done" /\ u # "missing"
              /\ second.sto[1] = first.sto[1] /\ second.sto[2] = first.sto[2]
              /\ second.sto[3] = first.sto[3] + delta
              /\ S(first.sto) = first.sto[3] /\ S(second.sto) = first.sto[3] + delta
  <2>1. first.sto \in Storage /\ delta \in Int
    BY <1>2, <1>3
  <2> HIDE DEF first, delta, b, u
  <2> DEFINE t == first.sto
             r == MoveSupply(u, t, delta)
  <2> HIDE DEF t
  <2>2. t \in Storage
    BY <2>1 DEF t
  <2>3. /\ r.sto \in Storage
        /\ u # "sum" =>
             \/ r.sto = t /\ r.outcome \in {"no function", "no slot", "no word"}
             \/ /\ r.outcome = "done" /\ u # "missing"
                /\ r.sto[1] = t[1] /\ r.sto[2] = t[2] /\ r.sto[3] = t[3] + delta
                /\ Supply(u, t) = t[3] /\ Supply(u, r.sto) = t[3] + delta
    <3>1. u \in SupplyKinds /\ t \in Storage /\ delta \in Int
      BY <1>1, <2>1, <2>2
    <3> HIDE DEF u, delta
    <3> QED
      BY <3>1, SupplyUpdate
  <2> QED
    BY <2>3 DEF t
<1>5. \A x \in Storage : x[1] = first.sto[1] /\ x[2] = first.sto[2] => B(x) = B(first.sto)
  BY <1>1, <1>2, BalanceReads
<1>6. /\ sto' = last.sto /\ token' = token
      /\ dealt' = [before |-> sto, amount |-> amount, adjust |-> adjust, outcome |-> out]
  BY DEF Deal, Balance, SetBalance, MoveSupply
<1>7. S(sto) = sto[3] \/ u \in {"sum", "missing"}
  <2>1. u \in {"plain", "after balance", "sum", "missing"}
    BY <1>1 DEF SupplyKinds
  <2>2. u = "plain" => S(sto) = sto[3]
    BY Results DEF Supply
  <2>3. u = "after balance" => S(sto) = sto[3]
    BY Results DEF Supply
  <2> QED
    BY <2>1, <2>2, <2>3
<1> HIDE DEF first, second, delta, B, S, b, u, last, out
<1>8. /\ dealt'.before = sto /\ dealt'.amount = amount /\ dealt'.adjust = adjust /\ dealt'.outcome = out
  BY <1>6
<1>9. last.sto \in Storage
  BY <1>2, <1>4 DEF last
<1>10. DealerTypes'
  <2>1. sto' \in Storage
    BY <1>6, <1>9
  <2> QED
    BY <1>6, <2>1 DEF DealerTypes
<1> DEFINE Honest ==
      /\ out = "done" /\ ~(adjust /\ u = "sum") =>
           /\ B(sto') = amount
           /\ sto'[3] = IF adjust THEN sto[3] + delta ELSE sto[3]
           /\ adjust => S(sto') = S(sto) + delta
           /\ b # "pooled" => sto'[2] = sto[2]
      /\ out \notin {"done", "none"} /\ u # "sum" =>
           /\ sto'[3] = sto[3]
           /\ b # "pooled" => sto'[2] = sto[2]
           /\ sto' # sto => B(sto') = amount \/ (out = "no balance" /\ b = "packed")
<1>15. Honest
  <2>1. CASE first.outcome # "done"
    <3>1. out = "no balance" /\ sto' = first.sto
      BY <1>6, <2>1 DEF out, last
    <3> QED
      BY <1>2, <2>1, <3>1
  <2>2. CASE first.outcome = "done" /\ ~adjust
    <3>1. out = "done" /\ sto' = first.sto
      BY <1>6, <2>2 DEF out, last
    <3> QED
      BY <1>2, <2>2, <3>1
  <2>3. CASE first.outcome = "done" /\ adjust /\ u # "sum"
    <3>1. out = second.outcome /\ sto' = second.sto
      BY <1>6, <2>3 DEF out, last
    <3>2. CASE second.sto = first.sto /\ second.outcome \in {"no function", "no slot", "no word"}
      BY <1>2, <2>3, <3>1, <3>2
    <3>3. CASE /\ second.outcome = "done" /\ u # "missing"
               /\ second.sto[1] = first.sto[1] /\ second.sto[2] = first.sto[2]
               /\ second.sto[3] = first.sto[3] + delta
               /\ S(first.sto) = first.sto[3] /\ S(second.sto) = first.sto[3] + delta
      <4>1. B(sto') = amount
        BY <1>2, <1>4, <1>5, <2>3, <3>1, <3>3
      <4>2. sto'[3] = sto[3] + delta /\ (b # "pooled" => sto'[2] = sto[2]) /\ S(sto') = sto[3] + delta
        BY <1>2, <3>1, <3>3
      <4>3. S(sto) = sto[3]
        BY <1>7, <2>3, <3>3, <3>1
      <4> QED
        BY <2>3, <3>1, <3>3, <4>1, <4>2, <4>3
    <3> QED
      BY <1>4, <2>3, <3>2, <3>3
  <2>4. CASE first.outcome = "done" /\ adjust /\ u = "sum"
    BY <2>4
  <2> QED
    BY <1>2, <2>1, <2>2, <2>3, <2>4
<1>16. DealIsHonest'
  <2>1. token'.balance = b /\ token'.supply = u
    BY <1>6 DEF b, u
  <2>2. amount - B(sto) = delta /\ sto[3] + delta = sto[3] + amount - B(sto)
        /\ S(sto) + delta = S(sto) + amount - B(sto)
    BY DEF delta
  <2> QED
    BY <1>8, <1>15, <2>1, <2>2 DEF DealIsHonest, B, S, Balance, Supply
<1> QED
  BY <1>10, <1>16

\* DealIsHonest: every deal, of whatever amount and token, does what it says, or fails
\* and leaves at most the new balance behind.
THEOREM DealsAreHonest == DealerSpec => []DealIsHonest
<1>1. DealerInit => DealerTypes /\ DealIsHonest
  BY DEF DealerInit, DealerTypes, DealIsHonest, Storage
<1>2. DealerTypes /\ DealIsHonest /\ [DealerNext]_dealerVars => DealerTypes' /\ DealIsHonest'
  <2>1. CASE DealerNext
    BY <2>1, DealStep DEF DealerNext
  <2>2. CASE UNCHANGED dealerVars
    BY <2>2 DEF dealerVars, DealerTypes, DealIsHonest
  <2> QED
    BY <2>1, <2>2
<1> QED
  BY <1>1, <1>2, PTL DEF DealerSpec

(***************************************************************************)
(* Overloads                                                               *)
(***************************************************************************)

OverloadsSpec == OverloadsInit /\ [][Send]_overloadVars

\* A contract with one function or two, which their types tell apart, and a call.
Contract ==
  /\ vyper \in BOOLEAN
  /\ functions \subseteq Function /\ IsFiniteSet(functions) /\ Cardinality(functions) \in 1..2
  /\ \A f, g \in functions : Types(f) = Types(g) => f = g
  /\ vyper => Cardinality(functions) = 1
  /\ required \in Nat
  /\ args \in Seq(Value)
  /\ kwargs \in [DOMAIN kwargs -> Value] /\ IsFiniteSet(DOMAIN kwargs)

\* A tuple is a sequence.
LEMMA Tuples ==
  ASSUME NEW n \in Nat, NEW S, NEW s \in [1..n -> S]
  PROVE  s \in Seq(S) /\ Len(s) = n /\ DOMAIN s = 1..n
  OBVIOUS

\* A function is the sequence of its parameters, of different names.
LEMMA FunctionParts ==
  ASSUME NEW f \in Function
  PROVE  /\ Len(f) \in 0..2 /\ DOMAIN f = 1..Len(f) /\ f \in [1..Len(f) -> Param]
         /\ \A k \in 1..Len(f) : f[k] \in Param /\ f[k].name \in Name /\ f[k].type \in {"u", "i"}
         /\ \A j, k \in 1..Len(f) : f[j].name = f[k].name => j = k
<1>1. f \in {<<>>} \union [1..1 -> Param] \union [1..2 -> Param] /\ Distinct(f)
  BY DEF Function
<1>2. Len(f) \in 0..2 /\ DOMAIN f = 1..Len(f) /\ f \in [1..Len(f) -> Param]
  <2>1. PICK n \in 0..2 : f \in [1..n -> Param]
    <3>1. <<>> \in [1..0 -> Param]
      OBVIOUS
    <3>2. f \in [1..0 -> Param] \/ f \in [1..1 -> Param] \/ f \in [1..2 -> Param]
      BY <1>1, <3>1, Zenon
    <3>3. 0 \in 0..2 /\ 1 \in 0..2 /\ 2 \in 0..2
      OBVIOUS
    <3> QED
      BY <3>2, <3>3, Zenon
  <2>2. Len(f) = n /\ DOMAIN f = 1..n
    BY <2>1, Tuples
  <2> QED
    BY <2>1, <2>2
<1>3. \A k \in 1..Len(f) : f[k] \in Param
  BY <1>2
<1>4. \A p \in Param : p.name \in Name /\ p.type \in {"u", "i"}
  BY DEF Param
<1> QED
  BY <1>1, <1>2, <1>3, <1>4 DEF Distinct

\* The types of a function.
LEMMA TypesOf ==
  ASSUME NEW f \in Function
  PROVE  /\ Types(f) \in Seq({"u", "i"}) /\ Len(Types(f)) = Len(f) /\ DOMAIN Types(f) = 1..Len(f)
         /\ \A k \in 1..Len(f) : Types(f)[k] = f[k].type
<1>1. Types(f) \in [1..Len(f) -> {"u", "i"}] /\ Len(f) \in Nat
  BY FunctionParts DEF Types
<1>2. Types(f) \in Seq({"u", "i"}) /\ Len(Types(f)) = Len(f) /\ DOMAIN Types(f) = 1..Len(f)
  BY <1>1, Tuples
<1> QED
  BY <1>2, FunctionParts DEF Types

\* Finitely many names make finitely many functions.
LEMMA FinitelyManyFunctions == IsFiniteSet(Function)
<1>1. IsFiniteSet(Param)
  <2> DEFINE kinds == {"u", "i"}
             h == [p \in Name \X kinds |-> [name |-> p[1], type |-> p[2]]]
  <2>1. IsFiniteSet(kinds)
    <3>1. kinds = {"u"} \union {"i"}
      OBVIOUS
    <3>2. IsFiniteSet({"u"}) /\ IsFiniteSet({"i"})
      BY FS_Singleton
    <3> QED
      BY <3>1, <3>2, FS_Union
  <2>2. h \in Surjection(Name \X kinds, Param)
    <3>1. h \in [Name \X kinds -> Param]
      BY DEF Param
    <3>2. \A q \in Param : \E p \in Name \X kinds : h[p] = q
      <4> TAKE q \in Param
      <4>1. <<q.name, q.type>> \in Name \X kinds /\ q = [name |-> q.name, type |-> q.type]
        BY DEF Param
      <4> QED
        BY <4>1
    <3> QED
      BY <3>1, <3>2 DEF Surjection
  <2>3. IsFiniteSet(Name \X kinds)
    BY <2>1, OverloadsAssumption, FS_Product
  <2> QED
    BY <2>2, <2>3, FS_Surjection
<1>2. IsFiniteSet([1..1 -> Param])
  <2> DEFINE h == [p \in Param |-> <<p>>]
  <2>1. h \in Surjection(Param, [1..1 -> Param])
    <3>1. h \in [Param -> [1..1 -> Param]]
      OBVIOUS
    <3>2. \A q \in [1..1 -> Param] : q[1] \in Param /\ h[q[1]] = q
      OBVIOUS
    <3> QED
      BY <3>1, <3>2 DEF Surjection
  <2> QED
    BY <1>1, <2>1, FS_Surjection
<1>3. IsFiniteSet([1..2 -> Param])
  <2> DEFINE h == [p \in Param \X Param |-> <<p[1], p[2]>>]
  <2>1. h \in Surjection(Param \X Param, [1..2 -> Param])
    <3>1. h \in [Param \X Param -> [1..2 -> Param]]
      OBVIOUS
    <3>2. \A q \in [1..2 -> Param] : <<q[1], q[2]>> \in Param \X Param /\ h[<<q[1], q[2]>>] = q
      OBVIOUS
    <3> QED
      BY <3>1, <3>2 DEF Surjection
  <2>2. IsFiniteSet(Param \X Param)
    BY <1>1, FS_Product
  <2> QED
    BY <2>1, <2>2, FS_Surjection
<1>4. IsFiniteSet({<<>>} \union [1..1 -> Param] \union [1..2 -> Param])
  <2>1. IsFiniteSet({<<>>})
    BY FS_Singleton
  <2>2. IsFiniteSet({<<>>} \union [1..1 -> Param])
    BY <1>2, <2>1, FS_Union
  <2> QED
    BY <1>3, <2>2, FS_Union
<1>5. Function \subseteq {<<>>} \union [1..1 -> Param] \union [1..2 -> Param]
  BY DEF Function
<1> QED
  BY <1>4, <1>5, FS_Subset

\* Initially.
LEMMA InitialContract == OverloadsInit => Contract
<1> SUFFICES ASSUME OverloadsInit PROVE Contract
  OBVIOUS
<1>1. /\ vyper \in BOOLEAN /\ functions \subseteq Function /\ Cardinality(functions) \in 1..2
      /\ \A f, g \in functions : Types(f) = Types(g) => f = g
      /\ vyper => Cardinality(functions) = 1
      /\ args \in {<<>>} \union [1..1 -> Value] \union [1..2 -> Value]
      /\ kwargs \in UNION {[names -> Value] : names \in SUBSET Name}
      /\ required \in (IF vyper THEN 0..2 ELSE {0})
  BY DEF OverloadsInit
<1>2. IsFiniteSet(functions)
  BY <1>1, FinitelyManyFunctions, FS_Subset
<1>3. args \in Seq(Value)
  <2>1. CASE args = <<>>
    BY <2>1
  <2>2. CASE args \in [1..1 -> Value]
    BY <2>2, Tuples
  <2>3. CASE args \in [1..2 -> Value]
    BY <2>3, Tuples
  <2> QED
    BY <1>1, <2>1, <2>2, <2>3
<1>4. kwargs \in [DOMAIN kwargs -> Value] /\ IsFiniteSet(DOMAIN kwargs)
  <2>1. PICK names \in SUBSET Name : kwargs \in [names -> Value]
    BY <1>1
  <2>2. names = DOMAIN kwargs /\ IsFiniteSet(names)
    BY <2>1, OverloadsAssumption, FS_Subset
  <2> QED
    BY <2>1, <2>2
<1>5. required \in Nat
  BY <1>1
<1> QED
  BY <1>1, <1>2, <1>3, <1>4, <1>5 DEF Contract

\* A value that its type can hold survives the encoding.
LEMMA RoundTrip ==
  ASSUME NEW type \in {"u", "i"}, NEW v \in Values(type)
  PROVE  Decode(type, Encode(v)) = v
<1>1. CASE type = "u"
  <2>1. v \in 0..3
    BY <1>1 DEF Values
  <2>2. v % 4 = v
    BY <2>1
  <2> QED
    BY <1>1, <2>2 DEF Decode, Encode
<1>2. CASE type = "i"
  <2>1. v \in -2..1
    BY <1>2 DEF Values
  <2>2. v % 4 = IF v < 0 THEN v + 4 ELSE v
    BY <2>1
  <2> QED
    BY <1>2, <2>1, <2>2 DEF Decode, Encode
<1> QED
  BY <1>1, <1>2

\* The keywords are the names of the parameters that get no positional argument.
LEMMA KeywordsAreNames ==
  ASSUME Contract, NEW f \in functions, Counts(f), NamesFit(f), NEW n \in DOMAIN kwargs
  PROVE  \E k \in (Len(args) + 1)..Len(f) : f[k].name = n
<1> DEFINE l == Len(args) + 1
           m == Len(f)
           S == l..m
           T == DOMAIN kwargs
           h == [k \in S |-> f[k].name]
<1>1. f \in Function /\ l \in Nat \ {0} /\ m \in Nat /\ IsFiniteSet(T)
  BY FunctionParts DEF Contract
<1>2. Cardinality(T) \in Nat /\ Len(args) + Cardinality(T) = m
  BY <1>1, FS_CardinalityType DEF Counts
<1>3. Cardinality(S) = Cardinality(T)
  <2>1. Cardinality(S) = IF l > m THEN 0 ELSE m - l + 1
    <3>1. l \in Int /\ m \in Int
      BY <1>1
    <3> HIDE DEF l, m
    <3> QED
      BY <3>1, FS_Interval
  <2> HIDE DEF S, T, m
  <2> QED
    BY <1>1, <1>2, <2>1
<1>4. h \in Injection(S, T)
  <2>1. \A k \in S : h[k] \in T
    BY DEF NamesFit
  <2>2. \A j, k \in S : h[j] = h[k] => j = k
    BY <1>1, FunctionParts
  <2> HIDE DEF S, T
  <2> QED
    BY <2>1, <2>2 DEF Injection, IsInjective
<1>5. h \in Surjection(S, T)
  BY <1>1, <1>3, <1>4, FS_Injection
<1> QED
  BY <1>5 DEF Surjection

(***************************************************************************)
(* What calldata means                                                     *)
(***************************************************************************)

CanTake(f) == Counts(f) /\ NamesFit(f) /\ Encodable(Types(f), MergeKwargs(f))
Reads(f, k, c) == Decode(f[k].type, c.words[k])
Chosen(c) == {f \in functions : IF vyper THEN SubSeq(Types(f), 1, Len(c.words)) = c.selector
                                ELSE Types(f) = c.selector}

\* ArgumentsArrive, of an outcome c.
Arrives(c) ==
  /\ c.outcome = "sent" =>
       /\ Cardinality(Chosen(c)) = 1
       /\ \A f \in Chosen(c) :
            /\ \A k \in DOMAIN args : Reads(f, k, c) = args[k]
            /\ vyper => Len(c.words) = Len(args) /\ (kwargs # <<>> => Len(args) = Len(f))
            /\ ~vyper => \A n \in DOMAIN kwargs :
                           \E k \in DOMAIN f : f[k].name = n /\ Reads(f, k, c) = kwargs[n]
            /\ ~vyper /\ picked = {} => \A g \in functions \ {f} : ~CanTake(g)
  /\ c.outcome \notin {"none", "sent"} /\ ~vyper /\ picked = {} =>
       \/ Cardinality({f \in functions : CanTake(f)}) # 1
       \/ \E g \in functions : Counts(g) /\ ~NamesFit(g)

\* The parts of calldata.
LEMMA CalldataParts ==
  ASSUME NEW types, NEW values
  PROVE  LET c == Calldata(types, values)
         IN /\ c.outcome = "sent" /\ c.selector = types /\ DOMAIN c.words = DOMAIN types
            /\ \A k \in DOMAIN types : c.words[k] = Encode(values[k])
  BY DEF Calldata

\* Merged arguments arrive.
LEMMA MergedArrive ==
  ASSUME Contract, NEW f \in functions, CanTake(f), NEW c, c = Calldata(Types(f), MergeKwargs(f))
  PROVE  /\ \A k \in DOMAIN args : Reads(f, k, c) = args[k]
         /\ \A n \in DOMAIN kwargs :
              \E k \in DOMAIN f : f[k].name = n /\ Reads(f, k, c) = kwargs[n]
<1> DEFINE l == Len(args)
           m == Len(f)
           v == MergeKwargs(f)
<1>1. /\ f \in Function /\ l \in Nat /\ m \in Nat /\ DOMAIN args = 1..l /\ DOMAIN f = 1..m
  BY FunctionParts, LenProperties DEF Contract
<1>2. \A k \in 1..m : Reads(f, k, c) = v[k]
  <2> TAKE k \in 1..m
  <2>1. /\ DOMAIN Types(f) = 1..m /\ Types(f)[k] = f[k].type /\ f[k].type \in {"u", "i"}
    BY <1>1, TypesOf, FunctionParts
  <2>2. c.words[k] = Encode(v[k]) /\ v[k] \in Values(f[k].type)
    BY <2>1, CalldataParts DEF CanTake, Encodable
  <2> QED
    BY <2>1, <2>2, RoundTrip DEF Reads
<1>3. l <= m
  BY <1>1, FS_CardinalityType DEF CanTake, Counts, Contract
<1>4. \A k \in 1..m : v[k] = IF k <= l THEN args[k] ELSE kwargs[f[k].name]
  BY <1>1 DEF MergeKwargs
<1>5. \A k \in 1..l : Reads(f, k, c) = args[k]
  <2> HIDE DEF l, m, v
  <2> QED
    BY <1>1, <1>2, <1>3, <1>4
<1>6. ASSUME NEW n \in DOMAIN kwargs
      PROVE  \E k \in 1..m : f[k].name = n /\ Reads(f, k, c) = kwargs[n]
  <2>1. PICK k \in (l + 1)..m : f[k].name = n
    BY KeywordsAreNames DEF CanTake
  <2> HIDE DEF l, m, v
  <2>2. k \in 1..m /\ ~(k <= l)
    BY <1>1, <2>1
  <2> QED
    BY <1>2, <1>4, <2>1, <2>2
<1> QED
  BY <1>1, <1>5, <1>6

\* The selector of an overload is its own.
LEMMA ChosenByTypes ==
  ASSUME Contract, ~vyper, NEW f \in functions, NEW c, c.selector = Types(f)
  PROVE  Chosen(c) = {f} /\ Cardinality(Chosen(c)) = 1
<1>1. Chosen(c) = {f}
  BY DEF Chosen, Contract
<1> QED
  BY <1>1, FS_Singleton

\* What prepare_calldata sends, and when it does.
LEMMA Prepared ==
  ASSUME NEW f
  PROVE  /\ CanTake(f) => Prepare(f) = Calldata(Types(f), MergeKwargs(f))
         /\ ~CanTake(f) => Prepare(f).outcome \in {"TypeError", "EncodeError"}
<1>1. CASE ~Counts(f) \/ ~NamesFit(f)
  <2>1. ~CanTake(f) /\ Prepare(f) = Raise("TypeError")
    BY <1>1 DEF CanTake, Prepare
  <2> QED
    BY <2>1 DEF Raise
<1>2. CASE Counts(f) /\ NamesFit(f) /\ ~Encodable(Types(f), MergeKwargs(f))
  <2>1. ~CanTake(f) /\ Prepare(f) = Raise("EncodeError")
    BY <1>2 DEF CanTake, Prepare
  <2> QED
    BY <2>1 DEF Raise
<1>3. CASE CanTake(f)
  BY <1>3 DEF CanTake, Prepare
<1> QED
  BY <1>1, <1>2, <1>3 DEF CanTake

\* What is sent to one function, the only one that could take the arguments or the
\* one that was asked for, arrives.
LEMMA PreparedArrives ==
  ASSUME Contract, ~vyper, NEW f \in functions,
         picked = {} => \A g \in functions \ {f} : ~CanTake(g),
         ~CanTake(f) /\ picked = {} => \/ Cardinality({g \in functions : CanTake(g)}) # 1
                                      \/ \E g \in functions : Counts(g) /\ ~NamesFit(g)
  PROVE  Arrives(Prepare(f))
<1> DEFINE c == Prepare(f)
<1>1. CASE CanTake(f)
  <2>1. c = Calldata(Types(f), MergeKwargs(f))
    BY <1>1, Prepared
  <2> HIDE DEF c
  <2>2. c.outcome = "sent" /\ c.selector = Types(f)
    BY <2>1, CalldataParts
  <2>3. Chosen(c) = {f} /\ Cardinality(Chosen(c)) = 1
    BY <2>2, ChosenByTypes
  <2>4. /\ \A k \in DOMAIN args : Reads(f, k, c) = args[k]
        /\ \A n \in DOMAIN kwargs :
             \E k \in DOMAIN f : f[k].name = n /\ Reads(f, k, c) = kwargs[n]
    BY <1>1, <2>1, MergedArrive
  <2>5. Arrives(c)
    BY <2>2, <2>3, <2>4 DEF Arrives
  <2> QED
    BY <2>5 DEF c
<1>2. CASE ~CanTake(f)
  <2>1. c.outcome # "sent"
    BY <1>2, Prepared
  <2> HIDE DEF c
  <2>2. Arrives(c)
    BY <1>2, <2>1 DEF Arrives
  <2> QED
    BY <2>2 DEF c
<1> QED
  BY <1>1, <1>2

\* A refusal of an overload leaves nothing to arrive.
LEMMA RefusedArrives ==
  ASSUME ~vyper, NEW why, why # "sent",
         picked = {} => \/ Cardinality({g \in functions : CanTake(g)}) # 1
                        \/ \E g \in functions : Counts(g) /\ ~NamesFit(g)
  PROVE  Arrives(Raise(why))
<1> DEFINE c == Raise(why)
<1>1. c.outcome # "sent"
  BY DEF Raise
<1> HIDE DEF c
<1>2. Arrives(c)
  BY <1>1 DEF Arrives
<1> QED
  BY <1>2 DEF c

\* ABIOverload: the one function, or the one among several.
LEMMA OverloadArrives ==
  ASSUME Contract, ~vyper
  PROVE  Arrives(PickOverload)
<1> DEFINE matches == {f \in functions : IF picked = {} THEN IsEncodable(f) ELSE Types(f) \in picked}
           takers == {f \in functions : CanTake(f)}
<1>1. IsFiniteSet(functions) /\ Cardinality(functions) \in 1..2
  BY DEF Contract
<1>2. CASE Cardinality(functions) = 1
  <2>1. PICK f : functions = {f}
    BY <1>1, <1>2, FS_Singleton
  <2>2. (CHOOSE g \in functions : TRUE) = f
    BY <2>1
  <2>3. CASE picked = {}
    <3>1. PickOverload = Prepare(f)
      BY <1>2, <2>2, <2>3 DEF PickOverload
    <3>2. ~CanTake(f) => Cardinality(takers) # 1
      <4>1. ~CanTake(f) => takers = {}
        BY <2>1
      <4> QED
        BY <4>1, FS_EmptySet
    <3> QED
      BY <2>1, <3>1, <3>2, PreparedArrives
  <2>4. CASE picked # {}
    <3>1. PickOverload = Raise("TypeError")
      BY <1>2, <2>4 DEF PickOverload
    <3> QED
      BY <2>4, <3>1, RefusedArrives
  <2> QED
    BY <2>3, <2>4
<1>3. CASE Cardinality(functions) # 1
  <2>1. IsFiniteSet(matches) /\ Cardinality(matches) \in Nat
    BY <1>1, FS_Subset, FS_CardinalityType
  <2>2. CASE picked = {} /\ \E f \in functions : MissesName(f)
    <3>1. PickOverload = Raise("TypeError")
      BY <1>3, <2>2 DEF PickOverload
    <3> QED
      BY <2>2, <3>1, RefusedArrives DEF MissesName
  <2>3. CASE ~(picked = {} /\ \E f \in functions : MissesName(f))
    <3>1. picked = {} => matches = takers
      BY <2>3 DEF MissesName, IsEncodable, CanTake
    <3>2. CASE matches = {}
      <4>1. PickOverload = Raise("no match")
        BY <1>3, <2>3, <3>2 DEF PickOverload
      <4>2. Cardinality(matches) # 1
        BY <3>2, FS_EmptySet
      <4> QED
        BY <3>1, <4>1, <4>2, RefusedArrives
    <3>3. CASE matches # {} /\ Cardinality(matches) > 1
      <4>1. PickOverload = Raise("ambiguous")
        BY <1>3, <2>3, <3>3 DEF PickOverload
      <4>2. Cardinality(matches) # 1
        BY <2>1, <3>3
      <4> QED
        BY <3>1, <4>1, <4>2, RefusedArrives
    <3>4. CASE matches # {} /\ ~(Cardinality(matches) > 1)
      <4>1. PickOverload = Prepare(CHOOSE f \in matches : TRUE)
        BY <1>3, <2>3, <3>4 DEF PickOverload
      <4>2. Cardinality(matches) = 1
        <5>1. Cardinality(matches) # 0
          BY <2>1, <3>4, FS_EmptySet
        <5> HIDE DEF matches
        <5> QED
          BY <2>1, <3>4, <5>1
      <4>3. PICK f : matches = {f}
        BY <2>1, <4>2, FS_Singleton
      <4>4. (CHOOSE g \in matches : TRUE) = f /\ f \in functions
        BY <4>3
      <4>5. picked = {} => CanTake(f) /\ \A g \in functions \ {f} : ~CanTake(g)
        BY <3>1, <4>3
      <4> QED
        BY <4>1, <4>4, <4>5, PreparedArrives
    <3> QED
      BY <3>2, <3>3, <3>4
  <2> QED
    BY <2>2, <2>3
<1> QED
  BY <1>2, <1>3

\* A VyperContract's function takes its positional arguments, and a keyword only
\* when it has no parameter left for it.
LEMMA VyperArrives ==
  ASSUME Contract, vyper
  PROVE  Arrives(PrepareVyper)
<1> DEFINE f == CHOOSE f \in functions : TRUE
<1>1. functions = {f}
  <2>1. PICK g : functions = {g}
    BY FS_Singleton DEF Contract
  <2> QED
    BY <2>1
<1>2. f \in Function
  BY <1>1 DEF Contract
<1> DEFINE a == Len(args)
           w == Cardinality(DOMAIN kwargs)
           m == Len(f)
           defaults == w + a - required
           given == IF required + defaults > m THEN m ELSE required + defaults
           types == SubSeq(Types(f), 1, given)
           c == PrepareVyper
<1>3. /\ a \in Nat /\ w \in Nat /\ m \in Nat /\ required \in Nat /\ DOMAIN args = 1..a
      /\ kwargs # <<>> => w # 0
  <2>1. a \in Nat /\ w \in Nat /\ m \in Nat /\ required \in Nat /\ DOMAIN args = 1..a
    BY <1>2, FunctionParts, LenProperties, FS_CardinalityType DEF Contract
  <2>2. w = 0 => DOMAIN kwargs = {}
    BY FS_EmptySet DEF Contract
  <2>3. DOMAIN kwargs = {} => kwargs = <<>>
    BY DEF Contract
  <2> QED
    BY <2>1, <2>2, <2>3
<1>4. c = IF a \notin required..m THEN Raise("bad args")
          ELSE IF ~Encodable(types, args) THEN Raise("EncodeError")
          ELSE Calldata(types, args)
  BY DEF PrepareVyper
<1> HIDE DEF f
<1>5. given \in 0..m /\ (given = a => a = m \/ w = 0)
  <2> HIDE DEF a, w, m
  <2> QED
    BY <1>3
<1> HIDE DEF given
<1>6. /\ Len(types) = given /\ DOMAIN types = 1..given
      /\ \A k \in 1..given : types[k] = f[k].type /\ types[k] \in {"u", "i"}
  <2> DEFINE t == Types(f)
  <2>0. given \in Int /\ given >= 0 /\ 1 \in Int /\ 1..given \subseteq 1..m
    <3>1. m \in Nat
      BY <1>3
    <3>2. given \in 0..m
      BY <1>5
    <3>3. given \in Int /\ given >= 0 /\ given <= m
      BY <3>1, <3>2
    <3>4. \A k \in 1..given : k \in 1..m
      BY <3>1, <3>3
    <3> QED
      BY <3>3, <3>4
  <2>1. /\ t \in Seq({"u", "i"}) /\ Len(t) = m
        /\ \A k \in 1..m : t[k] = f[k].type /\ f[k].type \in {"u", "i"}
    BY <1>2, TypesOf, FunctionParts
  <2> HIDE DEF t, m
  <2>2. /\ Len(SubSeq(t, 1, given)) = given /\ DOMAIN SubSeq(t, 1, given) = 1..given
        /\ \A k \in 1..given : SubSeq(t, 1, given)[k] = t[k]
    <3>2. \A k \in 1..given : t[k] \in {"u", "i"}
      BY <2>0, <2>1
    <3>3. /\ SubSeq(t, 1, given) \in Seq({"u", "i"})
          /\ Len(SubSeq(t, 1, given)) = IF 1 <= given THEN given - 1 + 1 ELSE 0
          /\ \A k \in 1..(given - 1 + 1) : SubSeq(t, 1, given)[k] = t[1 + k - 1]
      BY <2>0, <3>2, SubSeqProperties
    <3>4. \A k \in 1..given : 1 + k - 1 = k
      OBVIOUS
    <3>5. Len(SubSeq(t, 1, given)) = given /\ given - 1 + 1 = given
      BY <2>0, <3>3
    <3> QED
      BY <3>3, <3>4, <3>5, LenProperties
  <2> QED
    BY <2>0, <2>1, <2>2 DEF t
<1> HIDE DEF c, types, given, a, w, m
<1>7. CASE a \in required..m /\ Encodable(types, args)
  <2>1. c = Calldata(types, args)
    BY <1>4, <1>7
  <2>2. given = a /\ \A k \in 1..given : args[k] \in Values(types[k])
    BY <1>6, <1>7 DEF Encodable, a
  <2>3. /\ c.outcome = "sent" /\ c.selector = types /\ DOMAIN c.words = 1..given
        /\ \A k \in 1..given : c.words[k] = Encode(args[k])
    BY <1>6, <2>1, CalldataParts
  <2>4. Len(c.words) = given
    <3>1. c.words = [k \in 1..given |-> Encode(args[k])]
      BY <1>6, <2>1 DEF Calldata
    <3> QED
      BY <1>3, <1>5, <3>1
  <2>5. Chosen(c) = {f}
    BY <1>1, <2>3, <2>4 DEF Chosen, types
  <2>6. \A k \in 1..a : Reads(f, k, c) = args[k]
    BY <1>6, <2>2, <2>3, RoundTrip DEF Reads
  <2>7. kwargs # <<>> => a = m
    BY <1>3, <1>5, <2>2
  <2>8. Arrives(c)
    BY <1>3, <2>2, <2>3, <2>4, <2>5, <2>6, <2>7, FS_Singleton DEF Arrives, a, m
  <2> QED
    BY <2>8 DEF c
<1>8. CASE ~(a \in required..m /\ Encodable(types, args))
  <2>1. c = Raise("bad args") \/ c = Raise("EncodeError")
    <3>1. CASE a \notin required..m
      BY <1>4, <3>1
    <3>2. CASE a \in required..m /\ ~Encodable(types, args)
      BY <1>4, <3>2
    <3> QED
      BY <1>8, <3>1, <3>2
  <2>2. Raise("bad args").outcome # "sent" /\ Raise("EncodeError").outcome # "sent"
    BY DEF Raise
  <2>3. Arrives(c)
    BY <2>1, <2>2 DEF Arrives
  <2> QED
    BY <2>3 DEF c
<1> QED
  BY <1>7, <1>8

\* ArgumentsArrive: whatever the functions, their names and the call, calldata that is
\* sent means what the caller said, and a call that one overload alone could take is
\* sent to it.
THEOREM ArgumentsAlwaysArrive == OverloadsSpec => []ArgumentsArrive
<1>1. ArgumentsArrive <=> Arrives(sent)
  BY DEF ArgumentsArrive, Arrives, Chosen, Reads, CanTake
<1>2. OverloadsInit => Contract /\ ArgumentsArrive
  <2>1. OverloadsInit => sent.outcome = "none"
    BY DEF OverloadsInit
  <2> QED
    BY <1>1, <2>1, InitialContract DEF Arrives
<1>3. Contract /\ ArgumentsArrive /\ [Send]_overloadVars => Contract' /\ ArgumentsArrive'
  <2> SUFFICES ASSUME Contract, ArgumentsArrive, [Send]_overloadVars
               PROVE  Contract' /\ ArgumentsArrive'
    OBVIOUS
  <2>1. UNCHANGED <<functions, vyper, required, args, kwargs, picked>>
    BY DEF Send, overloadVars
  <2>2. Contract'
    BY <2>1 DEF Contract
  <2>3. Arrives(sent')
    <3>1. CASE Send
      <4>1. sent' = IF vyper THEN PrepareVyper ELSE PickOverload
        BY <3>1 DEF Send
      <4> QED
        BY <4>1, VyperArrives, OverloadArrives DEF Contract
    <3>2. CASE UNCHANGED overloadVars
      BY <1>1, <3>2 DEF overloadVars
    <3> QED
      BY <3>1, <3>2
  <2>4. ArgumentsArrive' <=> Arrives(sent')
    BY <2>1 DEF ArgumentsArrive, Arrives, Chosen, Reads, CanTake, Counts, NamesFit, MergeKwargs
  <2> QED
    BY <2>2, <2>3, <2>4
<1> QED
  BY <1>2, <1>3, PTL DEF OverloadsSpec

(***************************************************************************)
(* Short sequences                                                         *)
(***************************************************************************)

\* A sequence of length one, two or three, in its elements.
LEMMA ShortSequences ==
  ASSUME NEW S, NEW t \in Seq(S)
  PROVE  /\ Len(t) = 1 => t = <<t[1]>>
         /\ Len(t) = 2 => t = <<t[1], t[2]>>
         /\ Len(t) = 3 => t = <<t[1], t[2], t[3]>>
<1>1. \A i \in 1 .. Len(t) : t[i] \in S
  BY ElementOfSeq
<1>2. ASSUME Len(t) = 1 PROVE t = <<t[1]>>
  <2> DEFINE u == <<t[1]>>
  <2>1. u \in Seq(S) /\ Len(u) = Len(t) /\ \A i \in 1 .. Len(t) : t[i] = u[i]
    BY <1>1, <1>2
  <2> HIDE DEF u
  <2>2. t = u
    BY <2>1, SeqEqual
  <2> QED
    BY <2>2 DEF u
<1>3. ASSUME Len(t) = 2 PROVE t = <<t[1], t[2]>>
  <2> DEFINE u == <<t[1], t[2]>>
  <2>1. u \in Seq(S) /\ Len(u) = Len(t) /\ \A i \in 1 .. Len(t) : t[i] = u[i]
    BY <1>1, <1>3
  <2> HIDE DEF u
  <2>2. t = u
    BY <2>1, SeqEqual
  <2> QED
    BY <2>2 DEF u
<1>4. ASSUME Len(t) = 3 PROVE t = <<t[1], t[2], t[3]>>
  <2> DEFINE u == <<t[1], t[2], t[3]>>
  <2>1. u \in Seq(S) /\ Len(u) = Len(t) /\ \A i \in 1 .. Len(t) : t[i] = u[i]
    BY <1>1, <1>4
  <2> HIDE DEF u
  <2>2. t = u
    BY <2>1, SeqEqual
  <2> QED
    BY <2>2 DEF u
<1> QED
  BY <1>2, <1>3, <1>4

\* The parts of a sequence that is made from another one and an element, or from two.
AppendTo(s, x) == Append(s, x)

Appendable(S, s, x) == s \in Seq(S) /\ x \in S

LEMMA AppendedParts ==
  ASSUME NEW S, NEW s, NEW x, Appendable(S, s, x)
  PROVE  /\ AppendTo(s, x) \in Seq(S) /\ Len(AppendTo(s, x)) = Len(s) + 1 /\ AppendTo(s, x)[Len(s) + 1] = x
         /\ \A i \in 1 .. Len(s) : AppendTo(s, x)[i] = s[i]
BY AppendProperties DEF AppendTo, Appendable

LEMMA JoinedParts ==
  ASSUME NEW S, NEW s \in Seq(S), NEW r \in Seq(S)
  PROVE  /\ s \o r \in Seq(S) /\ Len(s \o r) = Len(s) + Len(r)
         /\ \A i \in 1 .. Len(s) + Len(r) : (s \o r)[i] = IF i <= Len(s) THEN s[i] ELSE r[i - Len(s)]
BY ConcatProperties

\* Appending to them.
LEMMA ShortAppends ==
  /\ \A a, x : Append(<<a>>, x) = <<a, x>>
  /\ \A a, b, x : Append(<<a, b>>, x) = <<a, b, x>>
<1>1. ASSUME NEW a, NEW x PROVE Append(<<a>>, x) = <<a, x>>
  <2> DEFINE S == {a, x}
             s == <<a>>
             t == AppendTo(s, x)
  <2>1. s \in Seq(S) /\ Len(s) = 1 /\ s[1] = a /\ x \in S
    OBVIOUS
  <2> HIDE DEF s, S
  <2>2. t \in Seq(S) /\ Len(t) = 2 /\ t[1] = a /\ t[2] = x
    <3>1. /\ t \in Seq(S) /\ Len(t) = Len(s) + 1 /\ t[Len(s) + 1] = x
          /\ \A i \in 1 .. Len(s) : t[i] = s[i]
      <4>1. Appendable(S, s, x)
        BY <2>1 DEF Appendable
      <4> QED
        BY <4>1, AppendedParts
    <3> HIDE DEF t
    <3> QED
      BY <2>1, <3>1
  <2> HIDE DEF t
  <2>3. t = <<a, x>>
    BY <2>2, ShortSequences
  <2> QED
    BY <2>3 DEF s, t, AppendTo
<1>2. ASSUME NEW a, NEW b, NEW x PROVE Append(<<a, b>>, x) = <<a, b, x>>
  <2> DEFINE S == {a, b, x}
             s == <<a, b>>
             t == AppendTo(s, x)
  <2>1. s \in Seq(S) /\ Len(s) = 2 /\ s[1] = a /\ s[2] = b /\ x \in S
    OBVIOUS
  <2> HIDE DEF s, S
  <2>2. t \in Seq(S) /\ Len(t) = 3 /\ t[1] = a /\ t[2] = b /\ t[3] = x
    <3>1. /\ t \in Seq(S) /\ Len(t) = Len(s) + 1 /\ t[Len(s) + 1] = x
          /\ \A i \in 1 .. Len(s) : t[i] = s[i]
      <4>1. Appendable(S, s, x)
        BY <2>1 DEF Appendable
      <4> QED
        BY <4>1, AppendedParts
    <3> HIDE DEF t
    <3> QED
      BY <2>1, <3>1
  <2> HIDE DEF t
  <2>3. t = <<a, b, x>>
    BY <2>2, ShortSequences
  <2> QED
    BY <2>3 DEF s, t, AppendTo
<1> QED
  BY <1>1, <1>2

\* Putting a value before them.
LEMMA ShortConcats ==
  /\ \A a, x : <<a>> \o <<x>> = <<a, x>>
  /\ \A a, x, y : <<a>> \o <<x, y>> = <<a, x, y>>
<1>1. ASSUME NEW a, NEW x PROVE <<a>> \o <<x>> = <<a, x>>
  <2> DEFINE S == {a, x}
             s == <<a>>
             r == <<x>>
             t == s \o r
  <2>1. s \in Seq(S) /\ r \in Seq(S) /\ Len(s) = 1 /\ Len(r) = 1 /\ s[1] = a /\ r[1] = x
    OBVIOUS
  <2> HIDE DEF s, r, S
  <2>2. t \in Seq(S) /\ Len(t) = 2 /\ t[1] = a /\ t[2] = x
    <3>1. /\ t \in Seq(S) /\ Len(t) = Len(s) + Len(r)
          /\ \A i \in 1 .. Len(s) + Len(r) : t[i] = IF i <= Len(s) THEN s[i] ELSE r[i - Len(s)]
      BY <2>1, JoinedParts, Zenon
    <3> HIDE DEF t
    <3> QED
      BY <2>1, <3>1
  <2> HIDE DEF t
  <2>3. t = <<a, x>>
    BY <2>2, ShortSequences
  <2> QED
    BY <2>3 DEF s, r, t
<1>2. ASSUME NEW a, NEW x, NEW y PROVE <<a>> \o <<x, y>> = <<a, x, y>>
  <2> DEFINE S == {a, x, y}
             s == <<a>>
             r == <<x, y>>
             t == s \o r
  <2>1. /\ s \in Seq(S) /\ r \in Seq(S) /\ Len(s) = 1 /\ Len(r) = 2
        /\ s[1] = a /\ r[1] = x /\ r[2] = y
    OBVIOUS
  <2> HIDE DEF s, r, S
  <2>2. t \in Seq(S) /\ Len(t) = 3 /\ t[1] = a /\ t[2] = x /\ t[3] = y
    <3>1. /\ t \in Seq(S) /\ Len(t) = Len(s) + Len(r)
          /\ \A i \in 1 .. Len(s) + Len(r) : t[i] = IF i <= Len(s) THEN s[i] ELSE r[i - Len(s)]
      BY <2>1, JoinedParts, Zenon
    <3> HIDE DEF t
    <3> QED
      BY <2>1, <3>1
  <2> HIDE DEF t
  <2>3. t = <<a, x, y>>
    BY <2>2, ShortSequences
  <2> QED
    BY <2>3 DEF s, r, t
<1> QED
  BY <1>1, <1>2

\* The prefixes of a pair.
LEMMA PairPrefixes ==
  ASSUME NEW a, NEW b
  PROVE  /\ SubSeq(<<a, b>>, 1, 1) = <<a>> /\ SubSeq(<<a, b>>, 1, 2) = <<a, b>>
         /\ Front(<<a, b>>) = <<a>> /\ Last(<<a, b>>) = b
<1> DEFINE p == <<a, b>>
           t(n) == SubSeq(p, 1, n)
<1>1. p \in Seq({a, b}) /\ Len(p) = 2 /\ p[1] = a /\ p[2] = b
  OBVIOUS
<1> HIDE DEF p
<1>2. t(1) \in Seq({a, b}) /\ Len(t(1)) = 1 /\ t(1)[1] = a
  BY <1>1, SubSeqProperties
<1>3. t(2) \in Seq({a, b}) /\ Len(t(2)) = 2 /\ t(2)[1] = a /\ t(2)[2] = b
  BY <1>1, SubSeqProperties
<1>4. Front(p) = t(1) /\ Last(p) = b
  BY <1>1 DEF Front, Last
<1> HIDE DEF t
<1>5. t(1) = <<a>> /\ t(2) = <<a, b>>
  BY <1>2, <1>3, ShortSequences
<1> QED
  BY <1>4, <1>5 DEF p, t

\* The prefixes of a triple.
LEMMA TriplePrefixes ==
  ASSUME NEW a, NEW b, NEW c
  PROVE  /\ SubSeq(<<a, b, c>>, 1, 1) = <<a>> /\ SubSeq(<<a, b, c>>, 1, 2) = <<a, b>>
         /\ SubSeq(<<a, b, c>>, 1, 3) = <<a, b, c>>
         /\ Front(<<a, b, c>>) = <<a, b>> /\ Last(<<a, b, c>>) = c
<1> DEFINE p == <<a, b, c>>
           t(n) == SubSeq(p, 1, n)
<1>1. p \in Seq({a, b, c}) /\ Len(p) = 3 /\ p[1] = a /\ p[2] = b /\ p[3] = c
  OBVIOUS
<1> HIDE DEF p
<1>2. t(1) \in Seq({a, b, c}) /\ Len(t(1)) = 1 /\ t(1)[1] = a
  BY <1>1, SubSeqProperties
<1>3. t(2) \in Seq({a, b, c}) /\ Len(t(2)) = 2 /\ t(2)[1] = a /\ t(2)[2] = b
  BY <1>1, SubSeqProperties
<1>4. t(3) \in Seq({a, b, c}) /\ Len(t(3)) = 3 /\ t(3)[1] = a /\ t(3)[2] = b /\ t(3)[3] = c
  BY <1>1, SubSeqProperties
<1>5. Front(p) = t(2) /\ Last(p) = c
  BY <1>1 DEF Front, Last
<1> HIDE DEF t
<1>6. t(1) = <<a>> /\ t(2) = <<a, b>> /\ t(3) = <<a, b, c>>
  BY <1>2, <1>3, <1>4, ShortSequences
<1> QED
  BY <1>5, <1>6 DEF p, t

(***************************************************************************)
(* StorageDump: the slots and their derivations                            *)
(***************************************************************************)

DumpSpec == DumpInit /\ [][DumpNext]_dumpVars

\* Everything that is ever hashed.
AllHashes == UNION {Hashes(k.path) : k \in Slots}

\* A path is the mapping's slot and one key, or two.
LEMMA PathShapes ==
  ASSUME NEW s \in 1 .. 3, NEW ks \in KeysOf(s)
  PROVE  /\ s # 2 => ks = <<ks[1]>> /\ <<s>> \o ks = <<s, ks[1]>>
         /\ s = 2 => ks = <<ks[1], ks[2]>> /\ <<s>> \o ks = <<s, ks[1], ks[2]>>
<1>1. (s # 2 => Depth[s] = 1) /\ (s = 2 => Depth[s] = 2)
  BY DEF Depth
<1>2. CASE s # 2
  <2>1. ks \in [1 .. 1 -> Keys]
    BY <1>1, <1>2 DEF KeysOf
  <2>2. ks = <<ks[1]>>
    BY <2>1
  <2> QED
    BY <1>2, <2>2, ShortConcats
<1>3. CASE s = 2
  <2>1. ks \in [1 .. 2 -> Keys]
    BY <1>1, <1>3 DEF KeysOf
  <2>2. ks = <<ks[1], ks[2]>>
    BY <2>1
  <2> QED
    BY <1>3, <2>2, ShortConcats
<1> QED
  BY <1>2, <1>3

\* It starts with the slot, and goes on with the keys.
LEMMA PathParts ==
  ASSUME NEW s \in 1 .. 3, NEW ks \in KeysOf(s)
  PROVE  Head(<<s>> \o ks) = s /\ Tail(<<s>> \o ks) = ks
<1>1. \A a, x, y : Head(<<a, x>>) = a /\ Head(<<a, x, y>>) = a
  OBVIOUS
<1>2. \A a, x, y : Tail(<<a, x>>) = <<x>> /\ Tail(<<a, x, y>>) = <<x, y>>
  OBVIOUS
<1>3. CASE s # 2
  <2>1. <<s>> \o ks = <<s, ks[1]>> /\ ks = <<ks[1]>>
    BY <1>3, PathShapes
  <2> QED
    BY <2>1, <1>1, <1>2, Zenon
<1>4. CASE s = 2
  <2>1. <<s>> \o ks = <<s, ks[1], ks[2]>> /\ ks = <<ks[1], ks[2]>>
    BY <1>4, PathShapes
  <2>2. Head(<<s, ks[1], ks[2]>>) = s /\ Tail(<<s, ks[1], ks[2]>>) = <<ks[1], ks[2]>>
    BY <1>1, <1>2
  <2> QED
    BY <2>1, <2>2, Zenon
<1> QED
  BY <1>3, <1>4

\* A slot is where a path leads, or the word after it in a struct.
LEMMA SlotShapes ==
  ASSUME NEW k \in Slots
  PROVE  \E s \in 1 .. 3 : \E ks \in KeysOf(s) :
           k = At(<<s>> \o ks, 0) \/ k = At(<<s>> \o ks, 1)
<1>1. k \in {At(path, 0) : path \in UNION {PathsOf(s) : s \in 1 .. 3}} \/ k \in {At(path, 1) : path \in PathsOf(3)}
  BY DEF Slots
<1>2. CASE k \in {At(path, 0) : path \in UNION {PathsOf(s) : s \in 1 .. 3}}
  <2>1. PICK s \in 1 .. 3 : \E path \in PathsOf(s) : k = At(path, 0)
    BY <1>2
  <2> QED
    BY <2>1 DEF PathsOf
<1>3. CASE k \in {At(path, 1) : path \in PathsOf(3)}
  <2>1. PICK path \in PathsOf(3) : k = At(path, 1)
    BY <1>3
  <2>2. PICK ks \in KeysOf(3) : path = <<3>> \o ks
    BY <2>1 DEF PathsOf
  <2>3. 3 \in 1 .. 3
    OBVIOUS
  <2> QED
    BY <2>1, <2>2, <2>3, Zenon
<1> QED
  BY <1>1, <1>2, <1>3

\* What is hashed on the way there.
LEMMA HashesOfPath ==
  ASSUME NEW a, NEW x, NEW y
  PROVE  /\ Hashes(<<a, x>>) = {<<a, x>>}
         /\ Hashes(<<a, x, y>>) = {<<a, x>>, <<a, x, y>>}
<1>1. Hashes(<<a, x>>) = {SubSeq(<<a, x>>, 1, n) : n \in {2}}
  BY DEF Hashes
<1>2. Hashes(<<a, x, y>>) = {SubSeq(<<a, x, y>>, 1, n) : n \in {2, 3}}
  BY DEF Hashes
<1>3. {SubSeq(<<a, x>>, 1, n) : n \in {2}} = {SubSeq(<<a, x>>, 1, 2)}
  OBVIOUS
<1>4. {SubSeq(<<a, x, y>>, 1, n) : n \in {2, 3}} = {SubSeq(<<a, x, y>>, 1, 2), SubSeq(<<a, x, y>>, 1, 3)}
  OBVIOUS
<1>5. SubSeq(<<a, x>>, 1, 2) = <<a, x>>
  BY PairPrefixes
<1>6. SubSeq(<<a, x, y>>, 1, 2) = <<a, x>> /\ SubSeq(<<a, x, y>>, 1, 3) = <<a, x, y>>
  BY TriplePrefixes
<1> QED
  BY <1>1, <1>2, <1>3, <1>4, <1>5, <1>6, Zenon

\* A mapping's own slot is not the hash of anything.
LEMMA SlotsAreNotHashed == \A a : <<a>> \notin AllHashes
<1> TAKE a
<1> SUFFICES ASSUME NEW k \in Slots PROVE <<a>> \notin Hashes(k.path)
  BY DEF AllHashes
<1>1. \A path, off : At(path, off).path = path
  BY DEF At
<1>2. PICK s \in 1 .. 3 : \E ks \in KeysOf(s) : k = At(<<s>> \o ks, 0) \/ k = At(<<s>> \o ks, 1)
  BY SlotShapes
<1>3. PICK ks \in KeysOf(s) : k = At(<<s>> \o ks, 0) \/ k = At(<<s>> \o ks, 1)
  BY <1>2
<1>4. k.path = <<s>> \o ks
  BY <1>1, <1>3
<1>5. \A b, x, y : <<a>> # <<b, x>> /\ <<a>> # <<b, x, y>>
  OBVIOUS
<1>6. k.path = <<s, ks[1]>> \/ k.path = <<s, ks[1], ks[2]>>
  BY <1>4, PathShapes
<1>7. CASE k.path = <<s, ks[1]>>
  <2>1. Hashes(k.path) = {<<s, ks[1]>>}
    BY <1>7, HashesOfPath
  <2> QED
    BY <2>1, <1>5
<1>8. CASE k.path = <<s, ks[1], ks[2]>>
  <2>1. Hashes(k.path) = {<<s, ks[1]>>, <<s, ks[1], ks[2]>>}
    <3>1. Hashes(<<s, ks[1], ks[2]>>) = {<<s, ks[1]>>, <<s, ks[1], ks[2]>>}
      BY HashesOfPath
    <3> QED
      BY <1>8, <3>1, Zenon
  <2> QED
    BY <2>1, <1>5
<1> QED
  BY <1>6, <1>7, <1>8

(***************************************************************************)
(* Undoing the hashes                                                      *)
(***************************************************************************)

PrefixesOf(path) == {SubSeq(path, 1, n) : n \in DOMAIN path}
UnwrapStep(known, D, u) ==
  [path \in D |-> IF path \in known THEN Append(u[Front(path)], Last(path)) ELSE <<At(path, 0)>>]

\* The recursion in Unwrapped.
LEMMA UnwrappedIs ==
  ASSUME NEW known, NEW k, k.off = 0
  PROVE  Unwrapped(known, k) = (CHOOSE u : u = UnwrapStep(known, PrefixesOf(k.path), u))[k.path]
BY DEF Unwrapped, UnwrapStep, PrefixesOf

\* One hash.
LEMMA UnwrapsPair ==
  ASSUME NEW known, NEW a, NEW x, <<a>> \notin known, <<a, x>> \in known
  PROVE  Unwrapped(known, At(<<a, x>>, 0)) = <<At(<<a>>, 0), x>>
<1> DEFINE o == <<a>>
           p == <<a, x>>
           D == PrefixesOf(p)
           slot == At(o, 0)
           w == [path \in D |-> IF path = o THEN <<slot>> ELSE <<slot, x>>]
           un == CHOOSE u : u = UnwrapStep(known, D, u)
<1>1. D = {o, p}
  <2>1. DOMAIN p = {1, 2}
    OBVIOUS
  <2>2. D = {SubSeq(p, 1, 1), SubSeq(p, 1, 2)}
    BY <2>1 DEF PrefixesOf
  <2> QED
    BY <2>2, PairPrefixes
<1>2. o # p /\ o \notin known /\ p \in known
  OBVIOUS
<1>3. Front(p) = o /\ Last(p) = x
  BY PairPrefixes
<1>4. \A z : Append(<<z>>, x) = <<z, x>>
  BY ShortAppends
<1>5. Unwrapped(known, At(p, 0)) = un[p]
  <2>1. At(p, 0).path = p /\ At(p, 0).off = 0
    BY DEF At
  <2> HIDE DEF p
  <2> QED
    BY <2>1, UnwrappedIs
<1> HIDE DEF o, p, D, slot, un
<1>6. \A u : /\ UnwrapStep(known, D, u)[o] = <<slot>>
             /\ UnwrapStep(known, D, u)[p] = Append(u[o], x)
  BY <1>1, <1>2, <1>3 DEF UnwrapStep, slot
<1>7. w = UnwrapStep(known, D, w)
  <2>1. w[o] = <<slot>> /\ w[p] = <<slot, x>>
    BY <1>1, <1>2
  <2>2. \A path \in D : w[path] = UnwrapStep(known, D, w)[path]
    <3> HIDE DEF w
    <3> QED
      BY <2>1, <1>1, <1>4, <1>6
  <2>3. w = [path \in D |-> w[path]] /\ UnwrapStep(known, D, w) = [path \in D |-> UnwrapStep(known, D, w)[path]]
    <3>1. UnwrapStep(known, D, w) = [path \in D |-> UnwrapStep(known, D, w)[path]]
      <4> HIDE DEF w
      <4> QED
        BY DEF UnwrapStep
    <3> QED
      BY <3>1
  <2> HIDE DEF w
  <2> QED
    BY <2>2, <2>3
<1> HIDE DEF w
<1>8. un = UnwrapStep(known, D, un)
  BY <1>7 DEF un
<1>9. un[o] = <<slot>> /\ un[p] = Append(un[o], x)
  BY <1>6, <1>8
<1>10. un[p] = <<slot, x>>
  BY <1>9, <1>4
<1> QED
  BY <1>5, <1>10 DEF slot, p, o

\* Two hashes.
LEMMA UnwrapsTriple ==
  ASSUME NEW known, NEW a, NEW x, NEW y,
         <<a>> \notin known, <<a, x>> \in known, <<a, x, y>> \in known
  PROVE  Unwrapped(known, At(<<a, x, y>>, 0)) = <<At(<<a>>, 0), x, y>>
<1> DEFINE o == <<a>>
           p == <<a, x>>
           q == <<a, x, y>>
           D == PrefixesOf(q)
           slot == At(o, 0)
           w == [path \in D |-> IF path = o THEN <<slot>> ELSE IF path = p THEN <<slot, x>> ELSE <<slot, x, y>>]
           un == CHOOSE u : u = UnwrapStep(known, D, u)
<1>1. D = {o, p, q}
  <2>1. DOMAIN q = {1, 2, 3}
    OBVIOUS
  <2>2. D = {SubSeq(q, 1, 1), SubSeq(q, 1, 2), SubSeq(q, 1, 3)}
    BY <2>1 DEF PrefixesOf
  <2> QED
    BY <2>2, TriplePrefixes
<1>2. o # p /\ o # q /\ p # q /\ o \notin known /\ p \in known /\ q \in known
  OBVIOUS
<1>3. Front(p) = o /\ Last(p) = x /\ Front(q) = p /\ Last(q) = y
  BY PairPrefixes, TriplePrefixes
<1>4. (\A z : Append(<<z>>, x) = <<z, x>>) /\ \A z : Append(<<z, x>>, y) = <<z, x, y>>
  BY ShortAppends
<1>5. Unwrapped(known, At(q, 0)) = un[q]
  <2>1. At(q, 0).path = q /\ At(q, 0).off = 0
    BY DEF At
  <2> HIDE DEF q
  <2> QED
    BY <2>1, UnwrappedIs
<1> HIDE DEF o, p, q, D, slot, un
<1>6. \A u : /\ UnwrapStep(known, D, u)[o] = <<slot>>
             /\ UnwrapStep(known, D, u)[p] = Append(u[o], x)
             /\ UnwrapStep(known, D, u)[q] = Append(u[p], y)
  BY <1>1, <1>2, <1>3 DEF UnwrapStep, slot
<1>7. w = UnwrapStep(known, D, w)
  <2>1. w[o] = <<slot>> /\ w[p] = <<slot, x>> /\ w[q] = <<slot, x, y>>
    BY <1>1, <1>2
  <2>2. \A path \in D : w[path] = UnwrapStep(known, D, w)[path]
    <3> HIDE DEF w
    <3> QED
      BY <2>1, <1>1, <1>4, <1>6
  <2>3. w = [path \in D |-> w[path]] /\ UnwrapStep(known, D, w) = [path \in D |-> UnwrapStep(known, D, w)[path]]
    <3>1. UnwrapStep(known, D, w) = [path \in D |-> UnwrapStep(known, D, w)[path]]
      <4> HIDE DEF w
      <4> QED
        BY DEF UnwrapStep
    <3> QED
      BY <3>1
  <2> HIDE DEF w
  <2> QED
    BY <2>2, <2>3
<1> HIDE DEF w
<1>8. un = UnwrapStep(known, D, un)
  BY <1>7 DEF un
<1>9. un[o] = <<slot>> /\ un[p] = Append(un[o], x) /\ un[q] = Append(un[p], y)
  BY <1>6, <1>8
<1>10. un[q] = <<slot, x, y>>
  BY <1>9, <1>4
<1> QED
  BY <1>5, <1>10 DEF slot, q, o

\* The key of a known slot is what it is derived from.
LEMMA UnwrapsSlot ==
  ASSUME NEW known, known \subseteq AllHashes, NEW s \in 1 .. 3, NEW ks \in KeysOf(s),
         Hashes(<<s>> \o ks) \subseteq known
  PROVE  LET whence == Unwrapped(known, At(<<s>> \o ks, 0))
         IN Head(whence) = At(<<s>>, 0) /\ Tail(whence) = ks
<1>1. <<s>> \notin known
  BY SlotsAreNotHashed
<1> DEFINE slot == At(<<s>>, 0)
<1>2. CASE s # 2
  <2> DEFINE x == ks[1]
  <2>1. <<s>> \o ks = <<s, x>> /\ ks = <<x>>
    BY <1>2, PathShapes
  <2> HIDE DEF x, slot
  <2>2. <<s, x>> \in known
    <3>1. Hashes(<<s, x>>) = {<<s, x>>}
      BY HashesOfPath
    <3> QED
      BY <2>1, <3>1
  <2>3. Unwrapped(known, At(<<s, x>>, 0)) = <<slot, x>>
    BY <2>2, <1>1, UnwrapsPair DEF slot
  <2>4. Head(<<slot, x>>) = slot /\ Tail(<<slot, x>>) = <<x>>
    OBVIOUS
  <2> QED
    BY <2>1, <2>3, <2>4, Zenon DEF slot
<1>3. CASE s = 2
  <2> DEFINE x == ks[1]
             y == ks[2]
  <2>1. <<s>> \o ks = <<s, x, y>> /\ ks = <<x, y>>
    BY <1>3, PathShapes
  <2> HIDE DEF x, y, slot
  <2>2. <<s, x>> \in known /\ <<s, x, y>> \in known
    <3>1. Hashes(<<s, x, y>>) = {<<s, x>>, <<s, x, y>>}
      BY HashesOfPath
    <3> QED
      BY <2>1, <3>1
  <2>3. Unwrapped(known, At(<<s, x, y>>, 0)) = <<slot, x, y>>
    BY <2>2, <1>1, UnwrapsTriple DEF slot
  <2>4. Head(<<slot, x, y>>) = slot /\ Tail(<<slot, x, y>>) = <<x, y>>
    OBVIOUS
  <2> QED
    BY <2>1, <2>3, <2>4, Zenon DEF slot
<1> QED
  BY <1>2, <1>3

IsKnown(known, s, ks, k) ==
  /\ known \subseteq AllHashes /\ Hashes(k.path) \subseteq known
  /\ s \in 1 .. 3 /\ ks \in KeysOf(s) /\ k = At(<<s>> \o ks, 0)

LEMMA UnwrapsKnown ==
  ASSUME NEW known, NEW s, NEW ks, NEW k, IsKnown(known, s, ks, k)
  PROVE  /\ k.path = <<s>> \o ks
         /\ Head(Unwrapped(known, k)) = At(<<s>>, 0) /\ Tail(Unwrapped(known, k)) = ks
<1>1. \A path : At(path, 0).path = path
  BY DEF At
<1>2. k.path = <<s>> \o ks /\ known \subseteq AllHashes /\ s \in 1 .. 3 /\ ks \in KeysOf(s)
  BY <1>1 DEF IsKnown
<1>3. Hashes(<<s>> \o ks) \subseteq known
  BY <1>2 DEF IsKnown
<1>4. Head(Unwrapped(known, At(<<s>> \o ks, 0))) = At(<<s>>, 0) /\ Tail(Unwrapped(known, At(<<s>> \o ks, 0))) = ks
  BY <1>2, <1>3, UnwrapsSlot
<1> QED
  BY <1>2, <1>4 DEF IsKnown

\* The second word of a struct is nobody's.
LEMMA UnwrapsOffset ==
  ASSUME NEW known, NEW path, NEW s
  PROVE  Head(Unwrapped(known, At(path, 1))) # At(<<s>>, 0)
<1> DEFINE k == At(path, 1)
<1>1. k.off = 1 /\ At(<<s>>, 0).off = 0
  BY DEF At
<1> HIDE DEF k
<1>2. Unwrapped(known, k) = <<k>>
  BY <1>1 DEF Unwrapped
<1>3. Head(<<k>>) = k
  OBVIOUS
<1> QED
  BY <1>1, <1>2, <1>3 DEF k

(***************************************************************************)
(* The inductive invariant of StorageDump                                  *)
(***************************************************************************)

DumpTypes ==
  /\ using \in EnvNo
  /\ sstoreTrace \in [EnvNo -> [Contracts -> SUBSET Slots]]
  /\ sha3Trace \in [EnvNo -> SUBSET AllHashes]
  /\ written \in [EnvNo -> SUBSET (Contracts \X Slots)]

\* Of every slot that was seen written all hashes were seen too.
TracedAreHashed ==
  \A e \in EnvNo, a \in Contracts : \A k \in sstoreTrace[e][a] : Hashes(k.path) \subseteq sha3Trace[e]

\* Every slot that a transaction has written was seen written.
WrittenAreTraced == \A e \in EnvNo : \A w \in written[e] : w[2] \in sstoreTrace[e][w[1]]

DumpInv == DumpTypes /\ TracedAreHashed /\ WrittenAreTraced

\* A step that leaves the traces alone.
LEMMA TracesKept ==
  ASSUME DumpInv, UNCHANGED <<sstoreTrace, sha3Trace, written>>, using' \in EnvNo
  PROVE  DumpInv'
BY DEF DumpInv, DumpTypes, TracedAreHashed, WrittenAreTraced

\* The invariant holds at first and is kept by every step.
LEMMA DumpStarts == DumpInit => DumpInv
<1> SUFFICES ASSUME DumpInit PROVE DumpInv
  OBVIOUS
<1>1. DumpTypes
  BY DEF DumpInit, DumpTypes
<1>2. TracedAreHashed
  BY DEF DumpInit, TracedAreHashed
<1>3. WrittenAreTraced
  BY DEF DumpInit, WrittenAreTraced
<1> QED
  BY <1>1, <1>2, <1>3 DEF DumpInv

LEMMA DumpStep == DumpInv /\ [DumpNext]_dumpVars => DumpInv'
<1> SUFFICES ASSUME DumpInv, [DumpNext]_dumpVars
             PROVE  DumpInv'
  OBVIOUS
<1> USE DEF DumpInv
<1>1. ASSUME NEW a \in Contracts, NEW k \in Slots, NEW value \in 0 .. 1, NEW kept \in BOOLEAN,
             Write(a, k, value, kept)
      PROVE  DumpInv'
  <2>1. /\ \A e \in EnvNo : /\ sha3Trace'[e] = sha3Trace[e] \union Hashes(k.path)
                            /\ \A b \in Contracts : sstoreTrace'[e][b] = IF b = a THEN sstoreTrace[e][b] \union {k}
                                                                        ELSE sstoreTrace[e][b]
        /\ \A e \in EnvNo : written'[e] = written[e] \/ written'[e] = written[e] \union {<<a, k>>}
    BY <1>1 DEF Write, Sha3, Sstore, DumpTypes
  <2>2. Hashes(k.path) \subseteq AllHashes
    BY DEF AllHashes
  <2>3. DumpTypes'
    <3>1. using' \in EnvNo
      BY <1>1 DEF Write, DumpTypes
    <3>2. sstoreTrace' \in [EnvNo -> [Contracts -> SUBSET Slots]]
      BY <1>1 DEF Write, Sstore, DumpTypes
    <3>3. sha3Trace' \in [EnvNo -> SUBSET AllHashes]
      BY <1>1, <2>2 DEF Write, Sha3, DumpTypes
    <3>4. written' \in [EnvNo -> SUBSET (Contracts \X Slots)]
      BY <1>1 DEF Write, DumpTypes
    <3> QED
      BY <3>1, <3>2, <3>3, <3>4 DEF DumpTypes
  <2>4. TracedAreHashed'
    <3> SUFFICES ASSUME NEW e \in EnvNo, NEW b \in Contracts, NEW z \in sstoreTrace'[e][b]
                 PROVE  Hashes(z.path) \subseteq sha3Trace'[e]
      BY DEF TracedAreHashed
    <3>1. sha3Trace'[e] = sha3Trace[e] \union Hashes(k.path)
      BY <2>1
    <3>2. z = k \/ z \in sstoreTrace[e][b]
      <4>1. sstoreTrace'[e][b] = IF b = a THEN sstoreTrace[e][b] \union {k} ELSE sstoreTrace[e][b]
        BY <2>1
      <4> QED
        BY <4>1
    <3>3. CASE z \in sstoreTrace[e][b]
      BY <3>1, <3>3 DEF TracedAreHashed
    <3>4. CASE z = k
      BY <3>1, <3>4
    <3> QED
      BY <3>2, <3>3, <3>4
  <2>5. WrittenAreTraced'
    <3> SUFFICES ASSUME NEW e \in EnvNo, NEW w \in written'[e] PROVE w[2] \in sstoreTrace'[e][w[1]]
      BY DEF WrittenAreTraced
    <3>1. CASE w \in written[e]
      <4>1. w[1] \in Contracts /\ w[2] \in sstoreTrace[e][w[1]]
        BY <3>1 DEF DumpTypes, WrittenAreTraced
      <4> QED
        BY <4>1, <2>1
    <3>2. CASE w = <<a, k>>
      BY <3>2, <2>1
    <3> QED
      BY <3>1, <3>2, <2>1
  <2> QED
    BY <2>3, <2>4, <2>5
<1>2. ASSUME NEW k \in Slots, Look(k)
      PROVE  DumpInv'
  <2>1. Hashes(k.path) \subseteq AllHashes
    BY DEF AllHashes
  <2>2. /\ sha3Trace' \in [EnvNo -> SUBSET AllHashes]
        /\ \A e \in EnvNo : sha3Trace[e] \subseteq sha3Trace'[e]
        /\ UNCHANGED <<using, sstoreTrace, written>>
    BY <1>2, <2>1 DEF Look, Sha3, DumpTypes
  <2>3. DumpTypes' /\ WrittenAreTraced'
    BY <2>2 DEF DumpTypes, WrittenAreTraced
  <2>4. TracedAreHashed'
    BY <2>2 DEF TracedAreHashed
  <2> QED
    BY <2>3, <2>4
<1>3. ASSUME NEW reset \in BOOLEAN, NEW remote \in 0 .. 1, Fork(reset, remote)
      PROVE  DumpInv'
  <2>1. written' = [written EXCEPT ![using] = {}] /\ using' = using
    BY <1>3 DEF Fork
  <2>2. \A e \in EnvNo : written'[e] = IF e = using THEN {} ELSE written[e]
    BY <2>1 DEF DumpTypes
  <2>3. written' \in [EnvNo -> SUBSET (Contracts \X Slots)] /\ using' \in EnvNo
    BY <2>1 DEF DumpTypes
  <2>4. CASE reset
    <3>1. /\ sstoreTrace' = [sstoreTrace EXCEPT ![using] = [a \in Contracts |-> {}]]
          /\ sha3Trace' = [sha3Trace EXCEPT ![using] = {}]
      BY <1>3, <2>4 DEF Fork
    <3>2. DumpTypes'
      BY <2>3, <3>1 DEF DumpTypes
    <3>3. \A e \in EnvNo : IF e = using THEN sstoreTrace'[e] = [a \in Contracts |-> {}]
                           ELSE sstoreTrace'[e] = sstoreTrace[e] /\ sha3Trace'[e] = sha3Trace[e]
      BY <3>1 DEF DumpTypes
    <3>4. TracedAreHashed'
      BY <3>3 DEF TracedAreHashed
    <3>5. WrittenAreTraced'
      BY <3>3, <2>2 DEF WrittenAreTraced
    <3> QED
      BY <3>2, <3>4, <3>5
  <2>5. CASE ~ reset
    <3>1. UNCHANGED <<sstoreTrace, sha3Trace>>
      BY <1>3, <2>5 DEF Fork
    <3>2. WrittenAreTraced'
      BY <3>1, <2>2 DEF WrittenAreTraced
    <3> QED
      BY <3>1, <3>2, <2>3 DEF DumpTypes, TracedAreHashed
  <2> QED
    BY <2>4, <2>5
<1>4. ASSUME NEW a \in Contracts, NEW k \in Slots, NEW value \in 0 .. 1, SetStorage(a, k, value)
      PROVE  DumpInv'
  BY <1>4, TracesKept DEF SetStorage, DumpTypes
<1>5. CASE Anchor
  BY <1>5, TracesKept DEF Anchor, DumpTypes
<1>6. CASE Unanchor
  BY <1>6, TracesKept DEF Unanchor, DumpTypes
<1>7. ASSUME NEW e \in EnvNo, SwapEnv(e)
      PROVE  DumpInv'
  BY <1>7, TracesKept DEF SwapEnv
<1>8. CASE UNCHANGED dumpVars
  BY <1>8, TracesKept DEF dumpVars, DumpTypes
<1> QED
  BY <1>1, <1>2, <1>3, <1>4, <1>5, <1>6, <1>7, <1>8 DEF DumpNext

(***************************************************************************)
(* StorageDump: a dump tells the truth                                     *)
(***************************************************************************)

\* The keys of a traced slot are those it is derived from, and the second word of a
\* struct belongs to no mapping.
LEMMA TracedSlots ==
  ASSUME DumpInv, NEW e \in EnvNo, NEW a \in Contracts, NEW k \in sstoreTrace[e][a],
         NEW s \in 1 .. 3, Head(Unwrapped(sha3Trace[e], k)) = At(<<s>>, 0)
  PROVE  LET keys == Tail(Unwrapped(sha3Trace[e], k))
         IN keys \in KeysOf(s) /\ k = At(<<s>> \o keys, 0)
<1>1. k \in Slots /\ sha3Trace[e] \subseteq AllHashes /\ Hashes(k.path) \subseteq sha3Trace[e]
  BY DEF DumpInv, DumpTypes, TracedAreHashed
<1>2. PICK z \in 1 .. 3 : \E ks \in KeysOf(z) : k = At(<<z>> \o ks, 0) \/ k = At(<<z>> \o ks, 1)
  BY <1>1, SlotShapes
<1>3. PICK ks \in KeysOf(z) : k = At(<<z>> \o ks, 0) \/ k = At(<<z>> \o ks, 1)
  BY <1>2
<1>4. k # At(<<z>> \o ks, 1)
  BY UnwrapsOffset
<1>5. k = At(<<z>> \o ks, 0)
  BY <1>3, <1>4
<1>7. Head(Unwrapped(sha3Trace[e], k)) = At(<<z>>, 0) /\ Tail(Unwrapped(sha3Trace[e], k)) = ks
  <2>1. IsKnown(sha3Trace[e], z, ks, k)
    BY <1>1, <1>5 DEF IsKnown
  <2> QED
    BY <2>1, UnwrapsKnown, Zenon
<1>8. \A x, y : At(<<x>>, 0) = At(<<y>>, 0) => x = y
  <2> TAKE x, y
  <2>1. At(<<x>>, 0).path = <<x>> /\ At(<<y>>, 0).path = <<y>>
    BY DEF At
  <2>2. <<x>> = <<y>> => x = y
    OBVIOUS
  <2> QED
    BY <2>1, <2>2
<1>9. z = s
  BY <1>7, <1>8
<1> QED
  BY <1>5, <1>7, <1>9

\* A slot that a transaction has written is found under its keys.
LEMMA TracedKeys ==
  ASSUME DumpInv, NEW e \in EnvNo, NEW a \in Contracts, NEW k \in sstoreTrace[e][a], k.off = 0
  PROVE  /\ Head(k.path) \in 1 .. 3
         /\ Head(Unwrapped(sha3Trace[e], k)) = At(<<Head(k.path)>>, 0)
         /\ Tail(Unwrapped(sha3Trace[e], k)) = Tail(k.path)
<1>1. k \in Slots /\ sha3Trace[e] \subseteq AllHashes /\ Hashes(k.path) \subseteq sha3Trace[e]
  BY DEF DumpInv, DumpTypes, TracedAreHashed
<1>2. PICK z \in 1 .. 3 : \E ks \in KeysOf(z) : k = At(<<z>> \o ks, 0) \/ k = At(<<z>> \o ks, 1)
  BY <1>1, SlotShapes
<1>3. PICK ks \in KeysOf(z) : k = At(<<z>> \o ks, 0) \/ k = At(<<z>> \o ks, 1)
  BY <1>2
<1>4. \A path : At(path, 1).off = 1 /\ At(path, 0).path = path
  BY DEF At
<1>5. k = At(<<z>> \o ks, 0) /\ k.path = <<z>> \o ks
  <2> DEFINE path == <<z>> \o ks
  <2> HIDE DEF path
  <2>1. k = At(path, 0) \/ k = At(path, 1)
    BY <1>3 DEF path
  <2>2. k # At(path, 1)
    BY <1>4
  <2>3. k = At(path, 0) /\ k.path = path
    BY <2>1, <2>2, <1>4
  <2> QED
    BY <2>3 DEF path
<1>6. Head(Unwrapped(sha3Trace[e], k)) = At(<<z>>, 0) /\ Tail(Unwrapped(sha3Trace[e], k)) = ks
  <2>1. IsKnown(sha3Trace[e], z, ks, k)
    BY <1>1, <1>5 DEF IsKnown
  <2> QED
    BY <2>1, UnwrapsKnown, Zenon
<1>7. Head(k.path) = z /\ Tail(k.path) = ks
  BY <1>5, PathParts
<1> QED
  BY <1>6, <1>7

\* A dump has an entry for each slot that is found to be the mapping's, and no others.
LEMMA DumpEntries ==
  ASSUME NEW e, NEW a, NEW s
  PROVE  LET mine == {k \in sstoreTrace[e][a] :
                        Head(Unwrapped(sha3Trace[e], k)) = At(<<s>>, 0) /\ Decoded(e, a, k, s) # <<0>>}
         IN /\ \A k \in mine : Tail(Unwrapped(sha3Trace[e], k)) \in DOMAIN Get(e, a, s)
            /\ \A ks \in DOMAIN Get(e, a, s) : \E k \in mine :
                 Tail(Unwrapped(sha3Trace[e], k)) = ks /\ Get(e, a, s)[ks] = Decoded(e, a, k, s)
<1> DEFINE paths == [k \in sstoreTrace[e][a] |-> Unwrapped(sha3Trace[e], k)]
           mine == {k \in DOMAIN paths : Head(paths[k]) = At(<<s>>, 0) /\ Decoded(e, a, k, s) # <<0>>}
           chosen(keys) == CHOOSE k \in mine : Tail(paths[k]) = keys
<1>1. Get(e, a, s) = [keys \in {Tail(paths[k]) : k \in mine} |-> Decoded(e, a, chosen(keys), s)]
  BY DEF Get
<1>2. DOMAIN paths = sstoreTrace[e][a] /\ \A k \in sstoreTrace[e][a] : paths[k] = Unwrapped(sha3Trace[e], k)
  OBVIOUS
<1> HIDE DEF paths
<1>3. mine = {k \in sstoreTrace[e][a] :
                Head(Unwrapped(sha3Trace[e], k)) = At(<<s>>, 0) /\ Decoded(e, a, k, s) # <<0>>}
  BY <1>2
<1>4. \A k \in mine : paths[k] = Unwrapped(sha3Trace[e], k)
  BY <1>2
<1> HIDE DEF mine
<1>5. \A ks \in {Tail(paths[k]) : k \in mine} : chosen(ks) \in mine /\ Tail(paths[chosen(ks)]) = ks
  OBVIOUS
<1> HIDE DEF chosen
<1>6. /\ \A k \in mine : Tail(paths[k]) \in DOMAIN Get(e, a, s)
      /\ \A ks \in DOMAIN Get(e, a, s) : \E k \in mine :
           Tail(paths[k]) = ks /\ Get(e, a, s)[ks] = Decoded(e, a, k, s)
  BY <1>1, <1>5
<1> QED
  BY <1>3, <1>4, <1>6

\* What a dump holds: the invariant is all that it needs.
LEMMA DumpIsTrue == DumpInv => DumpShowsStorage
<1> SUFFICES ASSUME DumpInv, NEW e \in EnvNo
             PROVE  /\ \A a \in Contracts, s \in 1 .. 3 :
                         LET dump == Get(e, a, s)
                         IN \A ks \in DOMAIN dump :
                              ks \in KeysOf(s) /\ dump[ks] = Decoded(e, a, At(<<s>> \o ks, 0), s)
                    /\ \A w \in written[e] :
                         LET k == w[2]
                             s == Head(k.path)
                         IN k.off = 0 /\ NonZero(Decoded(e, w[1], k, s))
                              => Tail(k.path) \in DOMAIN Get(e, w[1], s)
  BY DEF DumpShowsStorage
<1>1. ASSUME NEW a \in Contracts, NEW s \in 1 .. 3, NEW ks \in DOMAIN Get(e, a, s)
      PROVE  ks \in KeysOf(s) /\ Get(e, a, s)[ks] = Decoded(e, a, At(<<s>> \o ks, 0), s)
  <2>1. PICK k \in sstoreTrace[e][a] :
          /\ Head(Unwrapped(sha3Trace[e], k)) = At(<<s>>, 0)
          /\ Tail(Unwrapped(sha3Trace[e], k)) = ks /\ Get(e, a, s)[ks] = Decoded(e, a, k, s)
    BY <1>1, DumpEntries
  <2>2. ks \in KeysOf(s) /\ k = At(<<s>> \o ks, 0)
    BY <2>1, TracedSlots
  <2> QED
    BY <2>1, <2>2
<1>2. ASSUME NEW w \in written[e], w[2].off = 0, NonZero(Decoded(e, w[1], w[2], Head(w[2].path)))
      PROVE  Tail(w[2].path) \in DOMAIN Get(e, w[1], Head(w[2].path))
  <2> DEFINE a == w[1]
             k == w[2]
             s == Head(k.path)
  <2>1. a \in Contracts /\ k \in sstoreTrace[e][a]
    BY DEF DumpInv, DumpTypes, WrittenAreTraced
  <2>2. Head(Unwrapped(sha3Trace[e], k)) = At(<<s>>, 0) /\ Tail(Unwrapped(sha3Trace[e], k)) = Tail(k.path)
    BY <2>1, <1>2, TracedKeys
  <2>3. Decoded(e, a, k, s) # <<0>>
    BY <1>2 DEF NonZero
  <2> HIDE DEF a, k, s
  <2>4. Tail(Unwrapped(sha3Trace[e], k)) \in DOMAIN Get(e, a, s)
    BY <2>1, <2>2, <2>3, DumpEntries
  <2> QED
    BY <2>2, <2>4 DEF a, k, s
<1> QED
  BY <1>1, <1>2

\* Every entry of a dump has the value that the storage holds, and nothing is missing
\* that a transaction has written, for any environments, contracts and keys: the
\* inductive invariant is that the tracers know all hashes of every slot they know.
THEOREM DumpsAreTrue == DumpSpec => []DumpShowsStorage
BY DumpStarts, DumpStep, DumpIsTrue, PTL DEF DumpSpec

(***************************************************************************)
(* Compiling: meanings and fingerprints, as functions of the versions      *)
(***************************************************************************)

CompilingSpec == CompilingInit /\ [][CompilingNext]_compilingVars

\* The versions that the files of a load have.
Versions == [File -> {0, 1}]
Now == [f \in File |-> TextOf(f)]
Src(f, v) == <<IF f = "c2" THEN "c" ELSE f, v[f]>>

\* What the files mean.
NoImports == [k \in {} |-> 0]
MeaningLeaf(f, v) == <<Src(f, v), NoImports>>
MeaningMiddle(f, v) == <<Src(f, v), IF v[f] = 1 THEN <<MeaningLeaf("n", v)>> ELSE NoImports>>
MeaningTop(f, v) ==
  <<Src(f, v), IF v[f] = 0 THEN <<MeaningMiddle("m", v)>>
               ELSE <<MeaningMiddle("m", v), MeaningMiddle("i", v)>>>>
MeaningVvm(f, v) == <<Src(f, v), IF v[f] = 1 THEN <<MeaningMiddle("i", v)>> ELSE NoImports>>
MeaningOf(f, v) ==
  IF f = "n" THEN MeaningLeaf(f, v) ELSE IF f = "v" THEN MeaningVvm(f, v)
  ELSE IF f \in {"m", "i"} THEN MeaningMiddle(f, v) ELSE MeaningTop(f, v)

\* Their fingerprints.
PrintLeaf(f, v) == <<Src(f, v)>>
PrintMiddle(f, v) == IF v[f] = 1 THEN <<PrintLeaf("n", v), Src(f, v)>> ELSE <<Src(f, v)>>
PrintTop(f, v) ==
  IF v[f] = 0 THEN <<PrintMiddle("m", v), Src(f, v)>>
  ELSE <<PrintMiddle("m", v), Src("i", v), Src(f, v)>>
PrintVvm(f, v) == IF v[f] = 1 THEN <<Src("i", v), Src(f, v)>> ELSE <<Src(f, v)>>
PrintOf(f, v) ==
  IF f = "n" THEN PrintLeaf(f, v) ELSE IF f = "v" THEN PrintVvm(f, v)
  ELSE IF f \in {"m", "i"} THEN PrintMiddle(f, v) ELSE PrintTop(f, v)

\* Those that depend on what the interface imports.
BlindOf(f, v) == f \in {"c", "c2", "v"} /\ v[f] = 1 /\ v["i"] = 1

\* The versions are those of the texts.
FilesTypes == text \in [Dir -> [File -> {0, 1}]] /\ searchPath \in Dir

\* So they are versions, and determine the sources.
LEMMA VersionsNow ==
  ASSUME FilesTypes
  PROVE  Now \in Versions /\ \A f \in File : TextOf(f) = Now[f] /\ Source(f) = Src(f, Now)
<1>1. \A f \in File : TextOf(f) \in {0, 1}
  BY DEF FilesTypes, TextOf, Dir
<1>2. Now \in Versions /\ \A f \in File : TextOf(f) = Now[f]
  BY <1>1 DEF Now, Versions
<1> QED
  BY <1>2 DEF Source, Src

\* Which files a file imports.
LEMMA ImportsOf ==
  ASSUME FilesTypes
  PROVE  \A f \in File :
           Imports(f, TextOf(f)) = IF f = "n" THEN <<>>
                                   ELSE IF f = "v" THEN (IF Now[f] = 1 THEN <<"i">> ELSE <<>>)
                                   ELSE IF f \in {"m", "i"} THEN (IF Now[f] = 1 THEN <<"n">> ELSE <<>>)
                                   ELSE IF Now[f] = 0 THEN <<"m">> ELSE <<"m", "i">>
<1> TAKE f \in File
<1>1. TextOf(f) = Now[f] /\ Now[f] \in {0, 1}
  BY VersionsNow DEF Versions
<1>2. f \in {"c", "c2", "m", "i", "n", "v"}
  BY DEF File
<1> QED
  BY <1>1, <1>2 DEF Imports

\* A way to compute the meanings, from the meanings of the imports.
MeaningStep(g) ==
  [f \in File |-> <<Source(f), [k \in DOMAIN Imports(f, TextOf(f)) |-> g[Imports(f, TextOf(f))[k]]]>>]

\* The meaning of a file is MeaningOf its version and its imports'.
LEMMA Meanings ==
  ASSUME FilesTypes
  PROVE  \A f \in File : Meaning[f] = MeaningOf(f, Now)
<1> DEFINE w == [f \in File |-> MeaningOf(f, Now)]
           I(f) == Imports(f, TextOf(f))
<1>1. /\ \A f \in {"n"} : f \in File /\ I(f) = <<>>
      /\ \A f \in {"v"} : f \in File /\ I(f) = IF Now[f] = 1 THEN <<"i">> ELSE <<>>
      /\ \A f \in {"m", "i"} : f \in File /\ I(f) = IF Now[f] = 1 THEN <<"n">> ELSE <<>>
      /\ \A f \in {"c", "c2"} : f \in File /\ I(f) = IF Now[f] = 0 THEN <<"m">> ELSE <<"m", "i">>
      /\ \A f \in File : f \in {"n"} \/ f \in {"v"} \/ f \in {"m", "i"} \/ f \in {"c", "c2"}
  BY ImportsOf DEF File
<1> HIDE DEF I
<1>2. ASSUME NEW g
      PROVE  \A f \in {"n"} :
               <<Src(f, Now), [k \in DOMAIN I(f) |-> g[I(f)[k]]]>> = MeaningLeaf(f, Now)
  <2> TAKE f \in {"n"}
  <2>1. DOMAIN I(f) = {}
    BY <1>1
  <2>2. [k \in DOMAIN I(f) |-> g[I(f)[k]]] = NoImports
    BY <2>1 DEF NoImports
  <2> QED
    BY <2>2 DEF MeaningLeaf
<1>3. ASSUME NEW g, g["n"] = MeaningLeaf("n", Now)
      PROVE  \A f \in {"m", "i"} :
               <<Src(f, Now), [k \in DOMAIN I(f) |-> g[I(f)[k]]]>> = MeaningMiddle(f, Now)
  <2> TAKE f \in {"m", "i"}
  <2>1. CASE Now[f] = 1
    BY <1>1, <1>3, <2>1 DEF MeaningMiddle
  <2>2. CASE Now[f] # 1
    <3>1. DOMAIN I(f) = {}
      BY <1>1, <2>2
    <3>2. [k \in DOMAIN I(f) |-> g[I(f)[k]]] = NoImports
      BY <3>1 DEF NoImports
    <3> QED
      BY <3>2, <2>2 DEF MeaningMiddle
  <2> QED
    BY <2>1, <2>2
<1>4. ASSUME NEW g, \A f \in {"m", "i"} : g[f] = MeaningMiddle(f, Now)
      PROVE  \A f \in {"c", "c2"} :
               <<Src(f, Now), [k \in DOMAIN I(f) |-> g[I(f)[k]]]>> = MeaningTop(f, Now)
  BY <1>1, <1>4 DEF MeaningTop
<1>13. ASSUME NEW g, g["i"] = MeaningMiddle("i", Now)
       PROVE  \A f \in {"v"} :
                <<Src(f, Now), [k \in DOMAIN I(f) |-> g[I(f)[k]]]>> = MeaningVvm(f, Now)
  <2> TAKE f \in {"v"}
  <2>1. CASE Now[f] = 1
    BY <1>1, <1>13, <2>1 DEF MeaningVvm
  <2>2. CASE Now[f] # 1
    <3>1. DOMAIN I(f) = {}
      BY <1>1, <2>2
    <3>2. [k \in DOMAIN I(f) |-> g[I(f)[k]]] = NoImports
      BY <3>1 DEF NoImports
    <3> QED
      BY <3>2, <2>2 DEF MeaningVvm
  <2> QED
    BY <2>1, <2>2
<1>5. \A f \in File : Source(f) = Src(f, Now)
  BY VersionsNow
<1>6. /\ w["n"] = MeaningLeaf("n", Now) /\ w["v"] = MeaningVvm("v", Now)
      /\ \A f \in {"m", "i"} : w[f] = MeaningMiddle(f, Now)
      /\ \A f \in {"c", "c2"} : w[f] = MeaningTop(f, Now)
  BY DEF File, MeaningOf
<1>7. w = MeaningStep(w)
  <2>1. \A f \in File : w[f] = <<Source(f), [k \in DOMAIN I(f) |-> w[I(f)[k]]]>>
    <3> HIDE DEF w
    <3> QED
      BY <1>1, <1>2, <1>3, <1>4, <1>5, <1>6, <1>13
  <2>2. MeaningStep(w) = [f \in File |-> <<Source(f), [k \in DOMAIN I(f) |-> w[I(f)[k]]]>>]
    BY DEF MeaningStep, I
  <2>3. w = [f \in File |-> w[f]]
    OBVIOUS
  <2> QED
    BY <2>1, <2>2, <2>3
<1>8. Meaning = MeaningStep(Meaning)
  BY <1>7 DEF Meaning, MeaningStep
<1>9. \A f \in File : Meaning[f] = <<Src(f, Now), [k \in DOMAIN I(f) |-> Meaning[I(f)[k]]]>>
  BY <1>8, <1>5 DEF MeaningStep, I
<1>10. Meaning["n"] = MeaningLeaf("n", Now)
  BY <1>9, <1>1, <1>2
<1>11. \A f \in {"m", "i"} : Meaning[f] = MeaningMiddle(f, Now)
  BY <1>9, <1>1, <1>3, <1>10
<1>12. \A f \in {"c", "c2"} : Meaning[f] = MeaningTop(f, Now)
  BY <1>9, <1>1, <1>4, <1>11
<1>14. Meaning["v"] = MeaningVvm("v", Now)
  BY <1>9, <1>1, <1>11, <1>13
<1> QED
  BY <1>1, <1>10, <1>11, <1>12, <1>14 DEF MeaningOf

\* A file's digest comes after those of its imports.
LEMMA Appended ==
  /\ \A x : Append(NoImports, x) = <<x>>
  /\ \A a, x : Append(<<a>>, x) = <<a, x>>
  /\ \A a, b, x : Append(<<a, b>>, x) = <<a, b, x>>
<1>1. NoImports = <<>>
  <2>1. NoImports \in [1 .. 0 -> {0}]
    BY DEF NoImports
  <2>2. NoImports \in Seq({0}) /\ Len(NoImports) = 0
    BY <2>1, IsASeq
  <2> QED
    BY <2>2, EmptySeq
<1>2. \A x : Append(<<>>, x) = <<x>>
  OBVIOUS
<1> QED
  BY <1>1, <1>2, ShortAppends

\* A way to compute the fingerprints, from those of the imports.
Part(g, h) == IF g \in Interface THEN Sha256(g) ELSE h[g]
PrintStep(h) ==
  [f \in File |-> Append([k \in DOMAIN Imports(f, TextOf(f)) |-> Part(Imports(f, TextOf(f))[k], h)],
                         Sha256(f))]

\* The fingerprint of a file is PrintOf its version and its imports'.
LEMMA Fingerprints ==
  ASSUME FilesTypes
  PROVE  \A f \in File : Fingerprint[f] = PrintOf(f, Now)
<1> DEFINE w == [f \in File |-> PrintOf(f, Now)]
           I(f) == Imports(f, TextOf(f))
<1>1. /\ \A f \in {"n"} : f \in File /\ I(f) = <<>>
      /\ \A f \in {"v"} : f \in File /\ I(f) = IF Now[f] = 1 THEN <<"i">> ELSE <<>>
      /\ \A f \in {"m", "i"} : f \in File /\ I(f) = IF Now[f] = 1 THEN <<"n">> ELSE <<>>
      /\ \A f \in {"c", "c2"} : f \in File /\ I(f) = IF Now[f] = 0 THEN <<"m">> ELSE <<"m", "i">>
      /\ \A f \in File : f \in {"n"} \/ f \in {"v"} \/ f \in {"m", "i"} \/ f \in {"c", "c2"}
  BY ImportsOf DEF File
<1> HIDE DEF I
<1>2. \A f \in File : Sha256(f) = Src(f, Now)
  BY VersionsNow DEF Sha256
<1>3. \A h : Part("n", h) = h["n"] /\ Part("m", h) = h["m"] /\ Part("i", h) = Src("i", Now)
  BY <1>1, <1>2 DEF Part, Interface
<1>4. ASSUME NEW h, NEW f \in File, DOMAIN I(f) = {}
      PROVE  Append([k \in DOMAIN I(f) |-> Part(I(f)[k], h)], Src(f, Now)) = <<Src(f, Now)>>
  <2>1. [k \in DOMAIN I(f) |-> Part(I(f)[k], h)] = NoImports
    BY <1>4 DEF NoImports
  <2> QED
    BY <2>1, Appended
<1>5. ASSUME NEW h
      PROVE  \A f \in {"n"} :
               Append([k \in DOMAIN I(f) |-> Part(I(f)[k], h)], Src(f, Now)) = PrintLeaf(f, Now)
  <2> TAKE f \in {"n"}
  <2>1. DOMAIN I(f) = {} /\ f \in File
    BY <1>1
  <2> QED
    BY <2>1, <1>4 DEF PrintLeaf
<1>15. ASSUME NEW h
       PROVE  \A f \in {"v"} :
                Append([k \in DOMAIN I(f) |-> Part(I(f)[k], h)], Src(f, Now)) = PrintVvm(f, Now)
  <2> TAKE f \in {"v"}
  <2>1. CASE Now[f] = 1
    <3>1. [k \in DOMAIN I(f) |-> Part(I(f)[k], h)] = <<Part("i", h)>>
      BY <1>1, <2>1
    <3> QED
      BY <3>1, <1>3, <2>1, Appended DEF PrintVvm
  <2>2. CASE Now[f] # 1
    <3>1. DOMAIN I(f) = {} /\ f \in File
      BY <1>1, <2>2
    <3> QED
      BY <3>1, <2>2, <1>4 DEF PrintVvm
  <2> QED
    BY <2>1, <2>2
<1>6. ASSUME NEW h, h["n"] = PrintLeaf("n", Now)
      PROVE  \A f \in {"m", "i"} :
               Append([k \in DOMAIN I(f) |-> Part(I(f)[k], h)], Src(f, Now)) = PrintMiddle(f, Now)
  <2> TAKE f \in {"m", "i"}
  <2>1. CASE Now[f] = 1
    <3>1. [k \in DOMAIN I(f) |-> Part(I(f)[k], h)] = <<Part("n", h)>>
      BY <1>1, <2>1
    <3>2. Part("n", h) = PrintLeaf("n", Now)
      BY <1>3, <1>6
    <3> QED
      BY <3>1, <3>2, <2>1, Appended DEF PrintMiddle
  <2>2. CASE Now[f] # 1
    <3>1. DOMAIN I(f) = {} /\ f \in File
      BY <1>1, <2>2
    <3> QED
      BY <3>1, <2>2, <1>4 DEF PrintMiddle
  <2> QED
    BY <2>1, <2>2
<1>7. ASSUME NEW h, \A f \in {"m", "i"} : h[f] = PrintMiddle(f, Now)
      PROVE  \A f \in {"c", "c2"} :
               Append([k \in DOMAIN I(f) |-> Part(I(f)[k], h)], Src(f, Now)) = PrintTop(f, Now)
  <2> TAKE f \in {"c", "c2"}
  <2>1. Part("m", h) = PrintMiddle("m", Now) /\ Part("i", h) = Src("i", Now)
    BY <1>3, <1>7
  <2>2. CASE Now[f] = 0
    <3>1. [k \in DOMAIN I(f) |-> Part(I(f)[k], h)] = <<Part("m", h)>>
      BY <1>1, <2>2
    <3> QED
      BY <3>1, <2>1, <2>2, Appended DEF PrintTop
  <2>3. CASE Now[f] # 0
    <3>1. [k \in DOMAIN I(f) |-> Part(I(f)[k], h)] = <<Part("m", h), Part("i", h)>>
      BY <1>1, <2>3
    <3> QED
      BY <3>1, <2>1, <2>3, Appended DEF PrintTop
  <2> QED
    BY <2>2, <2>3
<1>8. /\ w["n"] = PrintLeaf("n", Now) /\ w["v"] = PrintVvm("v", Now)
      /\ \A f \in {"m", "i"} : w[f] = PrintMiddle(f, Now)
      /\ \A f \in {"c", "c2"} : w[f] = PrintTop(f, Now)
  BY DEF File, PrintOf
<1>9. w = PrintStep(w)
  <2>1. \A f \in File : w[f] = Append([k \in DOMAIN I(f) |-> Part(I(f)[k], w)], Sha256(f))
    <3> DEFINE P(f) == Append([k \in DOMAIN I(f) |-> Part(I(f)[k], w)], Src(f, Now))
    <3> HIDE DEF w
    <3>1. P("n") = PrintLeaf("n", Now) /\ P("v") = PrintVvm("v", Now)
      BY <1>5, <1>15
    <3>2. \A f \in {"m", "i"} : P(f) = PrintMiddle(f, Now)
      BY <1>6, <1>8
    <3>3. \A f \in {"c", "c2"} : P(f) = PrintTop(f, Now)
      BY <1>7, <1>8
    <3>4. \A f \in File : P(f) = Append([k \in DOMAIN I(f) |-> Part(I(f)[k], w)], Sha256(f))
      BY <1>2
    <3> HIDE DEF P
    <3>5. \A f \in File : w[f] = P(f)
      BY <1>1, <1>8, <3>1, <3>2, <3>3
    <3> QED
      BY <3>4, <3>5
  <2>2. PrintStep(w) = [f \in File |-> Append([k \in DOMAIN I(f) |-> Part(I(f)[k], w)], Sha256(f))]
    BY DEF PrintStep, I
  <2>3. w = [f \in File |-> w[f]]
    OBVIOUS
  <2> QED
    BY <2>1, <2>2, <2>3
<1>10. Fingerprint = PrintStep(Fingerprint)
  BY <1>9 DEF Fingerprint, PrintStep, Part
<1>11. \A f \in File :
         Fingerprint[f] = Append([k \in DOMAIN I(f) |-> Part(I(f)[k], Fingerprint)], Src(f, Now))
  BY <1>10, <1>2 DEF PrintStep, I
<1>12. Fingerprint["n"] = PrintLeaf("n", Now) /\ Fingerprint["v"] = PrintVvm("v", Now)
  BY <1>11, <1>1, <1>5, <1>15
<1>13. \A f \in {"m", "i"} : Fingerprint[f] = PrintMiddle(f, Now)
  BY <1>11, <1>1, <1>6, <1>12
<1>14. \A f \in {"c", "c2"} : Fingerprint[f] = PrintTop(f, Now)
  BY <1>11, <1>1, <1>7, <1>13
<1> QED
  BY <1>1, <1>12, <1>13, <1>14 DEF PrintOf

\* Does it depend on what an interface imports, seen from its imports?
BlindStep(b) ==
  [f \in File |-> \E k \in DOMAIN Imports(f, TextOf(f)) :
     LET g == Imports(f, TextOf(f))[k]
     IN b[g] \/ (g \in Interface /\ Imports(g, TextOf(g)) # <<>>)]

\* Only contracts may be blind to what the interface imports.
LEMMA Blinds ==
  ASSUME FilesTypes
  PROVE  \A f \in File : Blind[f] = BlindOf(f, Now)
<1> DEFINE w == [f \in File |-> BlindOf(f, Now)]
           I(f) == Imports(f, TextOf(f))
           Seen(f, b) == \E k \in DOMAIN I(f) : b[I(f)[k]] \/ (I(f)[k] \in Interface /\ I(I(f)[k]) # <<>>)
<1>1. /\ \A f \in {"n"} : f \in File /\ I(f) = <<>>
      /\ \A f \in {"v"} : f \in File /\ I(f) = IF Now[f] = 1 THEN <<"i">> ELSE <<>>
      /\ \A f \in {"m", "i"} : f \in File /\ I(f) = IF Now[f] = 1 THEN <<"n">> ELSE <<>>
      /\ \A f \in {"c", "c2"} : f \in File /\ I(f) = IF Now[f] = 0 THEN <<"m">> ELSE <<"m", "i">>
      /\ \A f \in File : f \in {"n"} \/ f \in {"v"} \/ f \in {"m", "i"} \/ f \in {"c", "c2"}
  BY ImportsOf DEF File
<1>2. \A f \in File : Now[f] \in {0, 1}
  BY VersionsNow DEF Versions
<1> HIDE DEF I
<1>3. \A b : Seen("n", b) = FALSE
  BY <1>1
<1>14. ASSUME NEW b, b["i"] = FALSE
       PROVE  Seen("v", b) = (Now["v"] = 1 /\ Now["i"] = 1)
  <2>1. I("i") # <<>> <=> Now["i"] = 1
    BY <1>1
  <2>2. CASE Now["v"] = 1
    <3>1. DOMAIN I("v") = {1} /\ I("v")[1] = "i"
      BY <1>1, <2>2
    <3>2. Seen("v", b) = (I("i") # <<>>)
      BY <3>1, <1>14 DEF Interface
    <3> QED
      BY <3>2, <2>1, <2>2
  <2>3. CASE Now["v"] # 1
    <3>1. Seen("v", b) = FALSE
      BY <1>1, <2>3
    <3>2. (Now["v"] = 1 /\ Now["i"] = 1) = FALSE
      BY <2>3
    <3> HIDE DEF Seen
    <3> QED
      BY <3>1, <3>2, Zenon
  <2> QED
    BY <2>2, <2>3
<1>4. ASSUME NEW b, b["n"] = FALSE
      PROVE  \A f \in {"m", "i"} : Seen(f, b) = FALSE
  BY <1>1, <1>4 DEF Interface
<1>5. ASSUME NEW b, b["m"] = FALSE, b["i"] = FALSE
      PROVE  \A f \in {"c", "c2"} : Seen(f, b) = (Now[f] = 1 /\ Now["i"] = 1)
  <2> TAKE f \in {"c", "c2"}
  <2>1. I("i") # <<>> <=> Now["i"] = 1
    BY <1>1
  <2>2. CASE Now[f] = 0
    <3>1. \A k \in DOMAIN I(f) : I(f)[k] = "m"
      BY <1>1, <2>2
    <3>2. Seen(f, b) = FALSE
      BY <3>1, <1>5 DEF Interface
    <3>3. (Now[f] = 1 /\ Now["i"] = 1) = FALSE
      BY <2>2
    <3> HIDE DEF Seen
    <3> QED
      BY <3>2, <3>3, Zenon
  <2>3. CASE Now[f] = 1
    <3>1. I(f) = <<"m", "i">>
      BY <1>1, <2>3
    <3>2. DOMAIN I(f) = {1, 2} /\ I(f)[1] = "m" /\ I(f)[2] = "i"
      BY <3>1
    <3>3. Seen(f, b) = (I("i") # <<>>)
      BY <3>2, <1>5 DEF Interface
    <3> QED
      BY <3>3, <2>1, <2>3
  <2> QED
    BY <2>2, <2>3, <1>1, <1>2
<1> HIDE DEF Seen
<1>6. /\ \A f \in {"n", "m", "i"} : w[f] = FALSE
      /\ \A f \in {"c", "c2", "v"} : w[f] = (Now[f] = 1 /\ Now["i"] = 1)
  BY DEF File, BlindOf
<1>7. \A b : BlindStep(b) = [f \in File |-> Seen(f, b)]
  BY DEF BlindStep, Seen, I
<1>8. w = BlindStep(w)
  <2>1. \A f \in File : w[f] = Seen(f, w)
    <3> HIDE DEF w
    <3> QED
      BY <1>1, <1>3, <1>4, <1>5, <1>6, <1>14
  <2>2. w = [f \in File |-> w[f]]
    OBVIOUS
  <2> QED
    BY <2>1, <2>2, <1>7
<1>9. Blind = BlindStep(Blind)
  BY <1>8 DEF Blind, BlindStep
<1>10. \A f \in File : Blind[f] = Seen(f, Blind)
  BY <1>9, <1>7
<1>11. Blind["n"] = FALSE
  BY <1>10, <1>1, <1>3
<1>12. \A f \in {"m", "i"} : Blind[f] = FALSE
  BY <1>10, <1>1, <1>4, <1>11
<1>13. \A f \in {"c", "c2"} : Blind[f] = (Now[f] = 1 /\ Now["i"] = 1)
  BY <1>10, <1>1, <1>5, <1>12
<1>15. Blind["v"] = (Now["v"] = 1 /\ Now["i"] = 1)
  BY <1>10, <1>1, <1>12, <1>14
<1> QED
  BY <1>1, <1>11, <1>12, <1>13, <1>15 DEF BlindOf

\* What vyper loads.
Loadable == {"c", "c2", "m"}

\* Files with the same fingerprint have the same version, and mean the same unless
\* one is blind to a change.
LEMMA PrintsTellApart ==
  ASSUME NEW v \in Versions, NEW w \in Versions, NEW f \in Loadable,
         PrintOf(f, v) = PrintOf(f, w)
  PROVE  v[f] = w[f] /\ (~BlindOf(f, w) => MeaningOf(f, v) = MeaningOf(f, w))
<1>1. \A g \in File : v[g] \in {0, 1} /\ w[g] \in {0, 1}
  BY DEF Versions
<1>2. \A g \in File : Src(g, v) = Src(g, w) <=> v[g] = w[g]
  BY DEF Src
<1>3. {"c", "c2", "m", "i", "n", "v"} = File /\ f \in {"m", "c", "c2"}
  BY DEF File, Loadable
<1>4. \A g \in {"n"} : v[g] = w[g] => MeaningLeaf(g, v) = MeaningLeaf(g, w)
  BY <1>2, <1>3 DEF MeaningLeaf
<1>5. \A g \in {"n"} : PrintLeaf(g, v) = PrintLeaf(g, w) => v[g] = w[g]
  BY <1>2, <1>3 DEF PrintLeaf
<1>6. \A g \in {"m", "i"} :
        PrintMiddle(g, v) = PrintMiddle(g, w) => v[g] = w[g] /\ MeaningMiddle(g, v) = MeaningMiddle(g, w)
  <2> TAKE g \in {"m", "i"}
  <2> HAVE PrintMiddle(g, v) = PrintMiddle(g, w)
  <2>1. v[g] = w[g]
    BY <1>1, <1>2, <1>3 DEF PrintMiddle
  <2>2. Src(g, v) = Src(g, w)
    BY <2>1, <1>2, <1>3
  <2>3. v[g] = 1 => PrintLeaf("n", v) = PrintLeaf("n", w)
    BY <2>1 DEF PrintMiddle
  <2>4. v[g] = 1 => MeaningLeaf("n", v) = MeaningLeaf("n", w)
    BY <2>3, <1>4, <1>5
  <2> QED
    BY <2>1, <2>2, <2>4 DEF MeaningMiddle
<1>8. CASE f = "m"
  BY <1>8, <1>6 DEF PrintOf, MeaningOf
<1>9. CASE f \in {"c", "c2"}
  <2>1. PrintTop(f, v) = PrintTop(f, w)
    BY <1>9 DEF PrintOf
  <2>2. v[f] = w[f]
    BY <2>1, <1>1, <1>2, <1>3 DEF PrintTop
  <2>3. Src(f, v) = Src(f, w)
    BY <2>2, <1>2, <1>3
  <2>4. PrintMiddle("m", v) = PrintMiddle("m", w)
    BY <2>1, <2>2 DEF PrintTop
  <2>5. MeaningMiddle("m", v) = MeaningMiddle("m", w)
    BY <2>4, <1>6
  <2>6. v[f] # 0 /\ ~BlindOf(f, w) => MeaningMiddle("i", v) = MeaningMiddle("i", w)
    <3> HAVE v[f] # 0 /\ ~BlindOf(f, w)
    <3>1. w["i"] = 0
      BY <2>2, <1>1, <1>3, <1>9 DEF BlindOf
    <3>2. Src("i", v) = Src("i", w)
      BY <2>1, <2>2 DEF PrintTop
    <3>3. v["i"] = 0
      BY <3>1, <3>2, <1>2, <1>3
    <3> QED
      BY <3>1, <3>2, <3>3 DEF MeaningMiddle
  <2>7. ~BlindOf(f, w) => MeaningTop(f, v) = MeaningTop(f, w)
    BY <2>2, <2>3, <2>5, <2>6 DEF MeaningTop
  <2> QED
    BY <2>2, <2>7, <1>9 DEF MeaningOf
<1> QED
  BY <1>3, <1>8, <1>9

(***************************************************************************)
(* Compiling: loads are fresh                                              *)
(***************************************************************************)

CompilerArgs == {"default", "optimised"}
DeployerClasses == {"VyperDeployer", "Other"}

\* The keys and the entries of both compilers, for the versions of the files then.
VyperKey(f, v, name, opts, class) == <<name, f, PrintOf(f, v), opts, class>>
VyperEntry(f, v, opts, b) == [of |-> MeaningOf(f, v), file |-> f, args |-> opts, sourceMap |-> b]
VvmKey(t) == <<"v", t>>
VvmEntry(v, old) == [old |-> old, of |-> MeaningOf("v", v)]

\* What an entry may be: the compiler's output for the versions that its key was made
\* from, which nobody remembers.
IsVvmEntry(key, entry) ==
  \E v \in Versions, old \in BOOLEAN : key = VvmKey(v["v"]) /\ entry = VvmEntry(v, old)
IsVyperEntry(key, entry) ==
  \E f \in Loadable, v \in Versions, name \in Names \union Loadable, opts \in CompilerArgs,
     class \in DeployerClasses, b \in BOOLEAN :
    key = VyperKey(f, v, name, opts, class) /\ entry = VyperEntry(f, v, opts, b)
EntriesRight == \A key \in DOMAIN cached : IsVvmEntry(key, cached[key]) \/ IsVyperEntry(key, cached[key])

CompilingInv ==
  FilesTypes /\ deployerClass \in DeployerClasses /\ EntriesRight /\ LoadsAreFresh

\* The keys of the two compilers differ.
LEMMA KeysDiffer ==
  ASSUME NEW f, NEW v, NEW name, NEW opts, NEW class, NEW t
  PROVE  VyperKey(f, v, name, opts, class) # VvmKey(t)
BY DEF VyperKey, VvmKey

\* What is found under a key of vvm's was compiled from the same source, and whatever
\* it imported then.
LEMMA VvmFinds ==
  ASSUME NEW t, NEW entry, IsVvmEntry(VvmKey(t), entry) \/ IsVyperEntry(VvmKey(t), entry)
  PROVE  \E v \in Versions, old \in BOOLEAN : v["v"] = t /\ entry = VvmEntry(v, old)
<1>1. ~ IsVyperEntry(VvmKey(t), entry)
  BY KeysDiffer DEF IsVyperEntry
<1>2. \A u : VvmKey(u) = VvmKey(t) => u = t
  BY DEF VvmKey
<1> QED
  BY <1>1, <1>2 DEF IsVvmEntry

\* What is found under a key of vyper's has the meaning that is wanted, unless the
\* file is blind to a change.
LEMMA VyperFinds ==
  ASSUME NEW f \in Loadable, NEW w \in Versions, NEW name, NEW opts, NEW class, NEW key, NEW entry,
         key = VyperKey(f, w, name, opts, class),
         IsVvmEntry(key, entry) \/ IsVyperEntry(key, entry)
  PROVE  \E v \in Versions, b \in BOOLEAN :
           /\ entry = VyperEntry(f, v, opts, b) /\ v[f] = w[f]
           /\ ~ BlindOf(f, w) => MeaningOf(f, v) = MeaningOf(f, w)
<1>1. ~ IsVvmEntry(key, entry)
  BY KeysDiffer DEF IsVvmEntry
<1>2. PICK g \in Loadable, v \in Versions, n \in Names \union Loadable, a \in CompilerArgs,
           c \in DeployerClasses, b \in BOOLEAN :
        key = VyperKey(g, v, n, a, c) /\ entry = VyperEntry(g, v, a, b)
  BY <1>1 DEF IsVyperEntry
<1>3. g = f /\ PrintOf(f, v) = PrintOf(f, w) /\ a = opts
  BY <1>2 DEF VyperKey
<1>4. entry = VyperEntry(f, v, opts, b)
  BY <1>2, <1>3
<1>6. v[f] = w[f] /\ (~ BlindOf(f, w) => MeaningOf(f, v) = MeaningOf(f, w))
  BY <1>3, PrintsTellApart
<1> QED
  BY <1>4, <1>6

\* An entry with its source map or not, and one whose imports are another's.
Mapped(entry, b) == [entry EXCEPT !.sourceMap = b]
Meant(entry, other) == [entry EXCEPT !.of = <<@[1], other.of[2]>>]

\* A meaning is a file's source and its imports' meanings.
LEMMA MeaningParts ==
  ASSUME NEW f, NEW v, NEW w, v[f] = w[f]
  PROVE  <<MeaningOf(f, v)[1], MeaningOf(f, w)[2]>> = MeaningOf(f, w)
<1>1. Src(f, v) = Src(f, w)
  BY DEF Src
<1>2. \A u : MeaningOf(f, u)[1] = Src(f, u)
  BY DEF MeaningOf, MeaningLeaf, MeaningVvm, MeaningMiddle, MeaningTop
<1>3. \E rest : MeaningOf(f, w) = <<Src(f, w), rest>>
  BY DEF MeaningOf, MeaningLeaf, MeaningVvm, MeaningMiddle, MeaningTop
<1> QED
  BY <1>1, <1>2, <1>3

LEMMA EntryMapped ==
  ASSUME NEW f, NEW v, NEW opts, NEW b, NEW c
  PROVE  Mapped(VyperEntry(f, v, opts, b), c) = VyperEntry(f, v, opts, c)
BY DEF VyperEntry, Mapped

LEMMA EntryMeant ==
  ASSUME NEW f, NEW v, NEW w, NEW opts, NEW b, v[f] = w[f]
  PROVE  Meant(VyperEntry(f, v, opts, b), VyperEntry(f, w, opts, b)) = VyperEntry(f, w, opts, b)
<1>1. VyperEntry(f, w, opts, b).of = MeaningOf(f, w) /\ VyperEntry(f, v, opts, b).of = MeaningOf(f, v)
  BY DEF VyperEntry
<1>2. Meant(VyperEntry(f, v, opts, b), VyperEntry(f, w, opts, b))
        = [VyperEntry(f, v, opts, b) EXCEPT !.of = <<MeaningOf(f, v)[1], MeaningOf(f, w)[2]>>]
  BY <1>1 DEF Meant
<1>3. [VyperEntry(f, v, opts, b) EXCEPT !.of = MeaningOf(f, w)] = VyperEntry(f, w, opts, b)
  BY DEF VyperEntry
<1>4. <<MeaningOf(f, v)[1], MeaningOf(f, w)[2]>> = MeaningOf(f, w)
  BY MeaningParts
<1> QED
  BY <1>2, <1>3, <1>4

\* The conditions of a load that CompilerData makes, and what it leaves.
LEMMA CompilerDataStep ==
  ASSUME CompilingInv, deployerClass' = deployerClass,
         NEW f \in Loadable, NEW name \in Names \union Loadable, NEW opts \in CompilerArgs,
         CompilerData(f, name, opts)
  PROVE  EntriesRight' /\ LoadsAreFresh'
<1> DEFINE artefact == VyperEntry(f, Now, opts, TRUE)
           key == VyperKey(f, Now, name, opts, deployerClass)
           got == IF caching THEN Lookup(key, artefact) ELSE artefact
<1>1. f \in File /\ Now \in Versions /\ deployerClass \in DeployerClasses /\ EntriesRight
  BY VersionsNow DEF CompilingInv, Loadable, File
<1>2. /\ Meaning[f] = MeaningOf(f, Now)
      /\ Fingerprint[f] = PrintOf(f, Now)
      /\ Blind[f] = BlindOf(f, Now)
  BY <1>1, Meanings, Fingerprints, Blinds DEF CompilingInv
<1>3. artefact = [of |-> Meaning[f], file |-> f, args |-> opts, sourceMap |-> TRUE]
  BY <1>2 DEF VyperEntry
<1>4. key = CacheKey(f, name, opts)
  BY <1>2 DEF VyperKey, CacheKey
<1>5. /\ IF ~caching THEN UNCHANGED cached
         ELSE IF got.sourceMap THEN Stored(key, artefact) ELSE Forget(key)
      /\ loaded' = [outcome |-> "vyper", want |-> artefact, blind |-> BlindOf(f, Now),
                    got |-> [got EXCEPT !.sourceMap = TRUE]]
  BY <1>2, <1>3, <1>4 DEF CompilerData
<1>6. IsVyperEntry(key, artefact)
  BY <1>1 DEF IsVyperEntry
<1>7. \E v \in Versions, b \in BOOLEAN :
        /\ got = VyperEntry(f, v, opts, b) /\ v[f] = Now[f]
        /\ ~ BlindOf(f, Now) => MeaningOf(f, v) = MeaningOf(f, Now)
  <2>1. CASE caching /\ key \in DOMAIN cached
    <3>1. got = cached[key]
      BY <2>1 DEF Lookup
    <3>2. IsVvmEntry(key, got) \/ IsVyperEntry(key, got)
      BY <3>1, <2>1, <1>1 DEF EntriesRight
    <3> HIDE DEF got, artefact
    <3> QED
      BY <3>2, <1>1, VyperFinds
  <2>2. CASE ~ (caching /\ key \in DOMAIN cached)
    BY <2>2, <1>1 DEF Lookup
  <2> QED
    BY <2>1, <2>2
<1> HIDE DEF artefact, key, got
<1>8. EntriesRight'
  <2>1. CASE UNCHANGED cached
    BY <2>1, <1>1 DEF EntriesRight
  <2>2. CASE Stored(key, artefact)
    BY <2>2, <1>1, <1>6 DEF EntriesRight, Stored
  <2>3. CASE Forget(key)
    BY <2>3, <1>1 DEF EntriesRight, Forget
  <2> QED
    BY <1>5, <2>1, <2>2, <2>3
<1>9. LoadsAreFresh'
  <2>1. PICK v \in Versions, b \in BOOLEAN :
          /\ got = VyperEntry(f, v, opts, b) /\ v[f] = Now[f]
          /\ ~ BlindOf(f, Now) => MeaningOf(f, v) = MeaningOf(f, Now)
    BY <1>7
  <2>2. Mapped(got, TRUE) = VyperEntry(f, v, opts, TRUE)
    <3>1. \A c : Mapped(VyperEntry(f, v, opts, b), c) = VyperEntry(f, v, opts, c)
      BY EntryMapped
    <3>2. Mapped(VyperEntry(f, v, opts, b), TRUE) = VyperEntry(f, v, opts, TRUE)
      BY <3>1, Zenon
    <3> QED
      BY <2>1, <3>2
  <2>3. loaded' = [outcome |-> "vyper", want |-> artefact, blind |-> BlindOf(f, Now),
                   got |-> VyperEntry(f, v, opts, TRUE)]
    BY <1>5, <2>2 DEF Mapped
  <2>4. CASE BlindOf(f, Now)
    <3>1. Meant(VyperEntry(f, v, opts, TRUE), artefact) = artefact
      <4>1. v[f] = Now[f]
        BY <2>1
      <4>2. \A w, c : v[f] = w[f] =>
              Meant(VyperEntry(f, v, opts, c), VyperEntry(f, w, opts, c)) = VyperEntry(f, w, opts, c)
        BY EntryMeant
      <4> QED
        BY <4>1, <4>2, Zenon DEF artefact
    <3> QED
      BY <3>1, <2>3, <2>4 DEF LoadsAreFresh, Meant
  <2>5. CASE ~ BlindOf(f, Now)
    <3>1. VyperEntry(f, v, opts, TRUE) = artefact
      BY <2>1, <2>5 DEF VyperEntry, artefact
    <3> QED
      BY <3>1, <2>3, <2>5 DEF LoadsAreFresh
  <2> QED
    BY <2>4, <2>5
<1> QED
  BY <1>8, <1>9

\* The same of a load that vvm makes: if the file imports nothing, its text is all.
LEMMA VvmStep ==
  ASSUME CompilingInv, Vvm("v")
  PROVE  EntriesRight' /\ LoadsAreFresh'
<1> DEFINE t == Now["v"]
           output == VvmEntry(Now, FALSE)
           key == VvmKey(t)
           got == IF caching THEN Lookup(key, output) ELSE output
           result == IF got.old THEN output ELSE got
<1>1. "v" \in File /\ t \in {0, 1} /\ Now \in Versions /\ EntriesRight
  BY VersionsNow DEF CompilingInv, File, Versions
<1>2. /\ Source("v") = key /\ Meaning["v"] = MeaningOf("v", Now)
      /\ (Imports("v", TextOf("v")) # <<>>) = (t = 1)
  <2>1. Source("v") = key /\ Meaning["v"] = MeaningOf("v", Now)
    BY <1>1, VersionsNow, Meanings DEF CompilingInv, Src, VvmKey
  <2>2. Imports("v", TextOf("v")) = IF t = 1 THEN <<"i">> ELSE <<>>
    BY <1>1, ImportsOf DEF CompilingInv
  <2> QED
    BY <2>1, <2>2
<1>3. /\ IF ~caching THEN UNCHANGED cached
         ELSE cached' = [k \in DOMAIN cached \union {key} |->
                           IF k = key /\ (k \notin DOMAIN cached \/ got.old) THEN output ELSE cached[k]]
      /\ loaded' = [outcome |-> "vvm", want |-> output, blind |-> t = 1, got |-> result]
  BY <1>2 DEF Vvm, VvmEntry
<1>4. IsVvmEntry(key, output)
  BY <1>1 DEF IsVvmEntry
<1>5. \E v \in Versions, old \in BOOLEAN : v["v"] = t /\ got = VvmEntry(v, old)
  <2>1. CASE caching /\ key \in DOMAIN cached
    <3>1. got = cached[key]
      BY <2>1 DEF Lookup
    <3>2. IsVvmEntry(key, got) \/ IsVyperEntry(key, got)
      BY <3>1, <2>1, <1>1 DEF EntriesRight
    <3> HIDE DEF got, output, t
    <3> QED
      BY <3>2, VvmFinds DEF key
  <2>2. CASE ~ (caching /\ key \in DOMAIN cached)
    BY <2>2, <1>1 DEF Lookup
  <2> QED
    BY <2>1, <2>2
<1>6. \E v \in Versions : v["v"] = t /\ result = VvmEntry(v, FALSE)
  <2>1. PICK v \in Versions, old \in BOOLEAN : v["v"] = t /\ got = VvmEntry(v, old)
    BY <1>5
  <2>2. got.old = old
    <3> HIDE DEF got
    <3> QED
      BY <2>1 DEF VvmEntry
  <2>3. CASE old = TRUE
    BY <1>1, <2>2, <2>3
  <2>4. CASE old = FALSE
    <3> HIDE DEF got
    <3> QED
      BY <2>1, <2>2, <2>4
  <2> QED
    BY <2>3, <2>4
<1> HIDE DEF output, key, got, result
<1>7. EntriesRight'
  BY <1>1, <1>3, <1>4 DEF EntriesRight
<1>8. LoadsAreFresh'
  <2>1. PICK v \in Versions : v["v"] = t /\ result = VvmEntry(v, FALSE)
    BY <1>6
  <2>2. CASE t = 1
    <3>1. <<MeaningOf("v", v)[1], MeaningOf("v", Now)[2]>> = MeaningOf("v", Now)
      BY <2>1, MeaningParts
    <3>2. [result EXCEPT !.of = <<@[1], output.of[2]>>] = output
      <4>1. \A u : VvmEntry(u, FALSE).of = MeaningOf("v", u)
        BY DEF VvmEntry
      <4>2. [VvmEntry(v, FALSE) EXCEPT !.of = MeaningOf("v", Now)] = VvmEntry(Now, FALSE)
        <5>1. \A a, b, c : [[old |-> a, of |-> b] EXCEPT !.of = c] = [old |-> a, of |-> c]
          OBVIOUS
        <5> QED
          BY <5>1, Zenon DEF VvmEntry
      <4>3. result.of = MeaningOf("v", v) /\ output.of = MeaningOf("v", Now)
        BY <2>1, <4>1 DEF output
      <4>4. [result EXCEPT !.of = <<@[1], output.of[2]>>] = [result EXCEPT !.of = MeaningOf("v", Now)]
        BY <3>1, <4>3
      <4> QED
        BY <2>1, <4>2, <4>4 DEF output
    <3> QED
      BY <1>3, <2>2, <3>2 DEF LoadsAreFresh
  <2>3. CASE t # 1
    <3>1. MeaningOf("v", v) = MeaningOf("v", Now)
      BY <2>1, <2>3 DEF MeaningOf, MeaningVvm, Src
    <3>2. result = output
      BY <2>1, <3>1 DEF output, VvmEntry
    <3> QED
      BY <1>3, <2>3, <3>2 DEF LoadsAreFresh
  <2> QED
    BY <2>2, <2>3
<1> QED
  BY <1>7, <1>8

\* Every step keeps the entries right and returns what is fresh.
LEMMA CompilingStep == CompilingInv /\ [CompilingNext]_compilingVars => CompilingInv'
<1> SUFFICES ASSUME CompilingInv, [CompilingNext]_compilingVars
             PROVE  CompilingInv'
  OBVIOUS
<1>1. ASSUME NEW f \in {"c", "c2", "m", "v"}, NEW name \in Names \union {f},
             NEW opts \in CompilerArgs, LoadsPartial(f, name, opts)
      PROVE  CompilingInv'
  <2>1. UNCHANGED <<text, searchPath, deployerClass>>
    BY <1>1 DEF LoadsPartial
  <2>2. FilesTypes' /\ (deployerClass \in DeployerClasses)'
    BY <2>1 DEF CompilingInv, FilesTypes
  <2>3. CASE f = "v"
    <3>1. Vvm("v")
      BY <1>1, <2>3 DEF LoadsPartial
    <3> QED
      BY <3>1, <2>2, VvmStep DEF CompilingInv
  <2>4. CASE f # "v"
    <3>1. CompilerData(f, name, opts) /\ f \in Loadable /\ name \in Names \union Loadable
      BY <1>1, <2>4 DEF LoadsPartial, Loadable
    <3> QED
      BY <3>1, <2>1, <2>2, CompilerDataStep DEF CompilingInv
  <2> QED
    BY <2>3, <2>4
<1>2. ASSUME NEW f \in {"c", "c2", "m", "v"}, NEW name \in Names, NEW opts \in CompilerArgs,
             Load(f, name, opts)
      PROVE  CompilingInv'
  BY <1>1, <1>2 DEF Load
<1>3. ASSUME NEW f \in {"c", "c2", "m", "v"}, Import(f)
      PROVE  CompilingInv'
  BY <1>1, <1>3 DEF Import, CompilerArgs, Loadable
<1>4. ASSUME UNCHANGED <<cached, loaded>>, FilesTypes', deployerClass' \in DeployerClasses
      PROVE  CompilingInv'
  BY <1>4 DEF CompilingInv, EntriesRight, LoadsAreFresh
<1>5. ASSUME NEW d \in Dir, NEW f \in File, Edit(d, f)
      PROVE  CompilingInv'
  <2>1. FilesTypes'
    BY <1>5 DEF Edit, CompilingInv, FilesTypes
  <2> QED
    BY <2>1, <1>4, <1>5 DEF Edit, CompilingInv
<1>6. ASSUME NEW d \in Dir, SetSearchPaths(d)
      PROVE  CompilingInv'
  BY <1>4, <1>6 DEF SetSearchPaths, CompilingInv, FilesTypes
<1>7. ASSUME NEW on \in BOOLEAN, SetCacheDir(on)
      PROVE  CompilingInv'
  BY <1>4, <1>7 DEF SetCacheDir, CompilingInv, FilesTypes
<1>8. ASSUME NEW class \in DeployerClasses, SetDeployerClass(class)
      PROVE  CompilingInv'
  BY <1>4, <1>8 DEF SetDeployerClass, CompilingInv, FilesTypes
<1>9. CASE UNCHANGED compilingVars
  BY <1>4, <1>9 DEF compilingVars, CompilingInv, FilesTypes
<1> QED
  BY <1>2, <1>3, <1>5, <1>6, <1>7, <1>8, <1>9 DEF CompilingNext, CompilerArgs, DeployerClasses

\* Every load gives what the files as they are compile to, or, if an interface of the
\* contract imports something or a contract for vvm anything, its own file as it is
\* with what it imports as it may have been: the inductive invariant is that each
\* entry is right for versions that its key may have been made from.
THEOREM LoadsAreAlwaysFresh == CompilingSpec => []LoadsAreFresh
<1>1. CompilingInit => CompilingInv
  <2> SUFFICES ASSUME CompilingInit PROVE CompilingInv
    OBVIOUS
  <2>1. FilesTypes /\ deployerClass \in DeployerClasses /\ LoadsAreFresh
    BY DEF CompilingInit, FilesTypes, Dir, DeployerClasses, LoadsAreFresh
  <2>2. CASE cached = <<>>
    BY <2>1, <2>2 DEF CompilingInv, EntriesRight
  <2>3. CASE cached = OldEntries
    <3>1. "c" \in File /\ Now \in Versions
      BY <2>1, VersionsNow DEF File
    <3>2. /\ Meaning["c"] = MeaningOf("c", Now)
          /\ \A name : CacheKey("c", name, "default") = VyperKey("c", Now, name, "default", deployerClass)
      BY <2>1, <3>1, Meanings, Fingerprints DEF VyperKey, CacheKey
    <3>4. /\ Source("v") = VvmKey(0) /\ Now["v"] = 0 /\ Meaning["v"] = MeaningOf("v", Now)
      <4>1. "v" \in File /\ TextOf("v") = 0
        BY DEF CompilingInit, TextOf, File, Dir, Shared
      <4> QED
        BY <2>1, <4>1, VersionsNow, Meanings DEF Source, VvmKey
    <3>3. ASSUME NEW key \in DOMAIN cached
          PROVE  IsVvmEntry(key, cached[key]) \/ IsVyperEntry(key, cached[key])
      <4>1. CASE key = VvmKey(0)
        <5>1. cached[key] = VvmEntry(Now, TRUE)
          BY <2>3, <4>1, <3>4 DEF OldEntries, VvmEntry
        <5> QED
          BY <4>1, <5>1, <3>1, <3>4 DEF IsVvmEntry
      <4>2. CASE \E name \in Names : key = CacheKey("c", name, "default")
        <5>1. PICK name \in Names : key = VyperKey("c", Now, name, "default", deployerClass)
          BY <4>2, <3>2
        <5>2. key # VvmKey(0)
          BY <5>1, KeysDiffer
        <5>3. cached[key] = VyperEntry("c", Now, "default", FALSE)
          BY <2>3, <5>2, <3>2, <3>4 DEF OldEntries, VyperEntry
        <5>4. "c" \in Loadable /\ "default" \in CompilerArgs
          BY DEF Loadable, CompilerArgs
        <5> QED
          BY <5>1, <5>3, <5>4, <3>1, <2>1 DEF IsVyperEntry
      <4> QED
        BY <2>3, <3>4, <4>1, <4>2 DEF OldEntries
    <3> QED
      BY <3>3, <2>1 DEF CompilingInv, EntriesRight
  <2> QED
    BY <2>2, <2>3 DEF CompilingInit
<1>2. CompilingInv => LoadsAreFresh
  BY DEF CompilingInv
<1> QED
  BY <1>1, <1>2, CompilingStep, PTL DEF CompilingSpec
=============================================================================

------------------------------ MODULE Session ------------------------------
(***************************************************************************)
(* A session with boa: environments (boa/environment.py), the context      *)
(* managers that change one for the length of a with block, and what an    *)
(* execution leaves behind in Python (boa/vm/py_evm.py).                   *)
(*                                                                         *)
(* The state of the chain is journaled and comes back when an anchor ends. *)
(* The registry of contract objects and the gas meter are not: they        *)
(* outlive what they speak of.  An object belongs to one environment and   *)
(* its calls run there, whatever boa.env is by then.                       *)
(*                                                                         *)
(* Address 1 is the next one a deployment gets, address 2 the next one a   *)
(* factory gets.  Both are determined by nonces or given, so that they can *)
(* be used again after an anchor or a failure.  Code "A" and "B" is known  *)
(* to boa, "U" is not; "A" is a blueprint of every environment; a proxy's  *)
(* code names what it was made to stand for.                               *)
(***************************************************************************)
EXTENDS Naturals, Sequences

CONSTANTS
  Env,          \* the environments
  Home,         \* the one that boa starts with
  Account,      \* senders
  MaxDepth,     \* bound on the nesting of with blocks
  MaxOps        \* bound on the other operations

ASSUME SessionAssumption == Home \in Env /\ MaxDepth \in Nat /\ MaxOps \in Nat

VARIABLES
  current,      \* boa.env and Env._singleton
  db,           \* the chain of each Env: [code, sto]
  time,         \* its block's time, which its vm's VMPatcher sets
  vm,           \* how often its vm was replaced by a fork
  journal,      \* the open checkpoints of its vm: [id, chain]
  limit,        \* the code size limit: VMPatcher's, but a variable of py-evm's module
  eoa, meter,   \* its sender and its computation class's gas meter
  contracts,    \* its registry: which code an address's object was made for, and
                \* which environment's execution put it there
  stack,        \* the open with blocks, innermost last
  failed,       \* did the revert of the last anchor left find no checkpoint?
  ops           \* operations so far

sessionVars == <<current, db, time, vm, journal, limit, eoa, meter, contracts, stack, failed, ops>>

Addr == {1, 2}
None == "none"
Fresh == [code |-> [x \in Addr |-> None], sto |-> 0]
Proxy(code) == CASE code = "A" -> "proxyA" [] code = "B" -> "proxyB" [] OTHER -> "proxy"
Behind(code) == CASE code = "proxyA" -> "A" [] code = "proxyB" -> "B" [] OTHER -> code
Known == {"A", "B", "proxyA", "proxyB"}

SessionInit ==
  /\ current = Home /\ limit = 0
  /\ db = [e \in Env |-> Fresh] /\ time = [e \in Env |-> 0]
  /\ vm = [e \in Env |-> 0] /\ journal = [e \in Env |-> {}]
  /\ eoa = [e \in Env |-> CHOOSE a \in Account : TRUE]
  /\ meter = [e \in Env |-> "GasMeter"]
  /\ contracts = [e \in Env |-> [x \in Addr |-> [code |-> None, by |-> e]]]
  /\ stack = <<>> /\ failed = FALSE /\ ops = 0

Operation == ops < MaxOps /\ ops' = ops + 1

Put(e, x, code) == db' = [db EXCEPT ![e].code[x] = code]

(***************************************************************************)
(* Executions in environment e                                             *)
(***************************************************************************)

\* deployer.at() in an execution of e: the new object belongs to the current
\* environment and enters its registry, and then that of e.  An object for a
\* proxy is as good as the one for what it proxies.
KeepsFirst(e, x, code, by) ==
  contracts' = [contracts EXCEPT ![current][x] = IF @.code = None THEN [code |-> code, by |-> e] ELSE @,
                                 ![e][x] = IF @.code = None THEN [code |-> code, by |-> by] ELSE @]
RegisterAt(e, x, code, by) ==
  contracts' = [contracts EXCEPT ![current][x] = [code |-> code, by |-> e],
                                 ![e][x] = [code |-> code, by |-> by]]

\* Env.deploy from VyperContract(env=e), registered in e if the constructor
\* succeeds; the initcode of "A" is also a blueprint's, and apply_create_message
\* does not ask whether it failed.
Deploy(e, code, works) ==
  /\ Operation /\ db[e].code[1] = None
  /\ IF works THEN Put(e, 1, code) ELSE UNCHANGED db
  /\ CASE code = "A" -> RegisterAt(e, 1, code, e)
       [] code # "A" /\ works -> contracts' = [contracts EXCEPT ![e][1] = [code |-> code, by |-> e]]
       [] OTHER -> UNCHANGED contracts
  /\ UNCHANGED <<current, time, vm, journal, limit, eoa, meter, stack, failed>>

\* A call in which a factory creates a contract, and which takes effect only if
\* kept: the call may revert after it, or be a simulation.  apply_create_message
\* registers a blueprint's child even if its creation failed, and a minimal proxy
\* if the address it proxies is registered.
Create(e, code, works, kept) ==
  LET proxied == contracts[e][1]
      new == IF code = "proxy" THEN Proxy(db[e].code[1]) ELSE code
  IN /\ Operation /\ db[e].code[2] = None
     /\ IF works /\ kept THEN Put(e, 2, new) ELSE UNCHANGED db
     /\ CASE code = "A" -> RegisterAt(e, 2, code, e)
          [] code = "proxy" /\ works /\ proxied.code # None ->
               RegisterAt(e, 2, proxied.code, proxied.by)
          [] OTHER -> UNCHANGED contracts
     /\ UNCHANGED <<current, time, vm, journal, limit, eoa, meter, stack, failed>>

\* A call that stores; one that reverts or is simulated changes nothing.
Store(e) ==
  /\ Operation /\ \E x \in Addr : db[e].code[x] # None
  /\ db' = [db EXCEPT ![e].sto = 1 - @]
  /\ UNCHANGED <<current, time, vm, journal, limit, eoa, meter, contracts, stack, failed>>

(***************************************************************************)
(* Other operations of an environment                                      *)
(***************************************************************************)

\* Env.time_travel
TimeTravel(e) ==
  /\ Operation /\ time[e] = 0 /\ time' = [time EXCEPT ![e] = 1]
  /\ UNCHANGED <<current, db, vm, journal, limit, eoa, meter, contracts, stack, failed>>

\* env.evm.patch.code_size_limit = ..., of whichever environment.
SetLimit ==
  /\ Operation /\ limit' = 1 - limit
  /\ UNCHANGED <<current, db, time, vm, journal, eoa, meter, contracts, stack, failed>>

\* Env.fork_rpc: a new vm with a patcher, journals and a computation class of its
\* own, and the forked chain's time.
ForkRpc(e) ==
  /\ Operation /\ vm[e] = 0
  /\ vm' = [vm EXCEPT ![e] = 1]
  /\ db' = [db EXCEPT ![e] = Fresh] /\ journal' = [journal EXCEPT ![e] = {}]
  /\ time' = [time EXCEPT ![e] = 1]
  /\ meter' = [meter EXCEPT ![e] = "GasMeter"]
  /\ UNCHANGED <<current, limit, eoa, contracts, stack, failed>>

\* Env.set_gas_meter_class, enable_gas_profiling, disable_gas_metering
SetMeter(e, m) ==
  /\ Operation /\ meter' = [meter EXCEPT ![e] = m]
  /\ UNCHANGED <<current, db, time, vm, journal, limit, eoa, contracts, stack, failed>>

\* boa.set_env, boa.fork and the like as plain calls: Open acts at once, and nobody
\* ever calls its __exit__.
SetEnv(e) ==
  /\ Operation /\ current' = e
  /\ UNCHANGED <<db, time, vm, journal, limit, eoa, meter, contracts, stack, failed>>

(***************************************************************************)
(* Contexts: what they save, what they set, and what they restore          *)
(***************************************************************************)

\* What a block keeps: its environment, and what it saves there.
Block == [kind |-> "env", env |-> Home, vm |-> 0, chain |-> Fresh, time |-> 0, limit |-> 0,
          eoa |-> CHOOSE a \in Account : TRUE, meter |-> "GasMeter"]

Enter(block) ==
  /\ Len(stack) < MaxDepth /\ stack' = Append(stack, block)
  /\ UNCHANGED <<db, time, vm, limit, contracts, failed, ops>>

Leave(kind) ==
  /\ stack # <<>> /\ stack[Len(stack)].kind = kind
  /\ stack' = SubSeq(stack, 1, Len(stack) - 1)
  /\ UNCHANGED <<vm, contracts, ops>>

\* set_env and swap_env: Open saves boa.env, not the new one.
EnterEnv(e) ==
  /\ Enter([Block EXCEPT !.env = current]) /\ current' = e
  /\ UNCHANGED <<journal, eoa, meter>>
LeaveEnv ==
  /\ Leave("env") /\ current' = stack[Len(stack)].env
  /\ UNCHANGED <<db, time, journal, limit, eoa, meter, failed>>

\* Env.sender and prank
EnterSender(e, a) ==
  /\ Enter([Block EXCEPT !.kind = "sender", !.env = e, !.eoa = eoa[e]])
  /\ eoa' = [eoa EXCEPT ![e] = a] /\ UNCHANGED <<current, journal, meter>>
LeaveSender ==
  /\ Leave("sender")
  /\ LET c == stack[Len(stack)] IN eoa' = [eoa EXCEPT ![c.env] = c.eoa]
  /\ UNCHANGED <<current, db, time, journal, limit, meter, failed>>

\* Env.gas_meter_class
EnterMeter(e, m) ==
  /\ Enter([Block EXCEPT !.kind = "meter", !.env = e, !.meter = meter[e]])
  /\ meter' = [meter EXCEPT ![e] = m] /\ UNCHANGED <<current, journal, eoa>>
LeaveMeter ==
  /\ Leave("meter")
  /\ LET c == stack[Len(stack)] IN meter' = [meter EXCEPT ![c.env] = c.meter]
  /\ UNCHANGED <<current, db, time, journal, limit, eoa, failed>>

\* Env._anchor: a checkpoint in the vm's journals, whose number no other open one
\* has, and within it VMPatcher.anchor, which saves the patched values.  (The
\* chain is not kept in Python: it is here for the properties.)
EnterAnchor(e) ==
  /\ Enter([Block EXCEPT !.kind = "anchor", !.env = e, !.vm = vm[e], !.chain = db[e],
                         !.time = time[e], !.limit = limit])
  /\ journal' = [journal EXCEPT ![e] = @ \union {[id |-> Len(stack) + 1, chain |-> db[e]]}]
  /\ UNCHANGED <<current, eoa, meter>>

\* VMPatcher.anchor, if it were to end on whatever patcher env.evm has by then.
UnpatchedNow(c) == [time EXCEPT ![c.env] = c.time]

\* VMPatcher.anchor ends on the patcher that it began on, which writes to its own
\* vm, also when the environment has another one by then.
Unpatched(c) == IF c.vm = vm[c.env] THEN [time EXCEPT ![c.env] = c.time] ELSE time

\* PyEVM.revert goes back to a checkpoint of the present vm and drops the later
\* ones, or raises.
RevertTo(e, id) ==
  \/ \E p \in journal[e] :
       /\ p.id = id /\ db' = [db EXCEPT ![e] = p.chain]
       /\ journal' = [journal EXCEPT ![e] = {o \in @ : o.id < id}] /\ failed' = FALSE
  \/ /\ \A p \in journal[e] : p.id # id
     /\ failed' = TRUE /\ UNCHANGED <<db, journal>>

LeaveAnchor ==
  LET c == stack[Len(stack)]
  IN /\ Leave("anchor")
     /\ time' = Unpatched(c) /\ limit' = c.limit
     /\ RevertTo(c.env, Len(stack))
     /\ UNCHANGED <<current, eoa, meter>>

SessionNext ==
  \/ \E e \in Env :
       \/ \E code \in {"A", "B"}, works \in BOOLEAN : Deploy(e, code, works)
       \/ \E code \in {"A", "U", "proxy"}, works, kept \in BOOLEAN : Create(e, code, works, kept)
       \/ Store(e) \/ TimeTravel(e) \/ ForkRpc(e) \/ SetEnv(e)
       \/ EnterAnchor(e) \/ EnterEnv(e)
       \/ \E a \in Account : EnterSender(e, a)
       \/ \E m \in {"GasMeter", "NoGasMeter"} : SetMeter(e, m) \/ EnterMeter(e, m)
  \/ SetLimit
  \/ LeaveAnchor \/ LeaveEnv \/ LeaveSender \/ LeaveMeter

(***************************************************************************)
(* Properties                                                              *)
(***************************************************************************)

\* The registry keeps up with the chain: the object that lookup_contract finds
\* for code that boa knows (deployed, made from a blueprint, or a proxy of a
\* contract) was made for that code, although addresses are used again after
\* anchors, simulations, reverts, failed creations and forks, and entries are
\* never removed.  The exception: when an execution of another environment
\* creates a contract while this one is current, the object enters this one's
\* registry, and may hide what is at the address here, also for later proxies of
\* it.  (Of code that boa does not know, a stale object may be found.)
RegistryIsCurrent ==
  \A e \in Env, x \in Addr :
    db[e].code[x] \in Known =>
      contracts[e][x].code = Behind(db[e].code[x]) \/ contracts[e][x].by # e

\* Leaving an anchor gives back the chain and the time that entering it found and
\* touches no other environment's, however deep anchors of the same or of several
\* environments are nested, among other blocks, and what was deployed or stored;
\* or, if its environment was forked inside, it fails and leaves the fork, its
\* chain and its time alone.  The code size limit comes back in any case, for all.
AnchorsRestore ==
  [][LET c == stack[Len(stack)]
     IN  Len(stack') < Len(stack) /\ c.kind = "anchor" =>
           /\ limit' = c.limit
           /\ failed' <=> vm[c.env] # c.vm
           /\ db' = IF failed' THEN db ELSE [db EXCEPT ![c.env] = c.chain]
           /\ time' = IF failed' THEN time ELSE [time EXCEPT ![c.env] = c.time]]_sessionVars
=============================================================================

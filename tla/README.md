# Titanoboa in TLA+

Titanoboa (`boa`) is a Vyper interpreter, test harness and deployment tool. It
runs contracts in a local EVM (py-evm), optionally on a *fork* of a live chain,
or sends them to a real node after simulating them locally. This directory
models the parts of it where state is kept in several places that have to agree,
checks the models with TLC, and proves the safety of most of them with TLAPS.

## 1. Inventory

| Component (source under `src/boa/`) | State | Operations | What is hard |
|---|---|---|---|
| Forked account database (`vm/fork.py`: `AccountDBFork`) | py-evm's journals of accounts, storage and bytecode; boa's journal `_dontfetch`; `_account_cache`, not journalled; the pinned block | reads that fetch, writes, `record`/`discard`/`commit`, `try_prefetch_state` | three kinds of state with three disciplines must roll back together; the chain grows meanwhile; requests fail halfway |
| RPC cache (`vm/fork.py`: `CachingRPC`, `util/sqlitedb.py`) | a memory layer per object, one sqlite file shared by processes, a queue of expiry updates, `_loaded` and `_GLOBAL` per process | `fetch`, `fetch_multi`, open and sweep, flush | processes interleave between a check and a read; lock contention, kills, late refreshes |
| Anchors (`environment.py`: `_anchor`, `vm/py_evm.py`: `VMPatcher`, `test/plugin.py`) | the EVM's checkpoints, saved patch values, `_stack`, `_task_list` | `anchor`, fixture set-up and finalizers, test calls | pytest finalises out of order, checkpoints revert only inside out |
| Compilation cache (`util/disk_cache.py`) | a directory shared by all jobs, without a lock | `caching_lookup`, `gc`, `invalidate` | every file-system call of one job interleaves with the others'; kills leave partial files |
| Loading and compiling (`interpret.py`, `precompile.py`) | source files, `_search_path`, `_disk_cache`, `sys.modules` | `load`, `loads`, `import`, `set_cache_dir` | the cache's key must tell apart all that compiles to something else |
| Network environment (`network.py`, `rpc.py`) | the fork, the anchors, the deployments database; on the other side the node's chain and pool | `execute_code`, `deploy`, `_send_txn`, `anchor`, `_reset_fork` | the node mines between any two requests, refuses, loses answers; time-outs |
| Environment (`environment.py`, `__init__.py`, `util/open_ctx.py`) | the `env` singleton, the sender, the gas meter, registered contracts | `swap_env`, `set_env`, `prank`, `gas_meter_class`, `anchor`, `fork` | contexts nest in any order, with forks and other environments inside |
| EVM wrapper (`vm/py_evm.py`, `vm/gas_meters.py`) | the opcode table (shared by all environments), sstore and sha3 traces, the registry of contracts | deploy, call, creations, tracing | none of it is journalled, the chain's state is |
| Contract objects (`contracts/`) | the contracts' bytecode and ABI | calls, overloads, stack traces, storage dumps | failures ignored by the caller; keyword arguments; keys that exist only as hashes |
| Profiling and coverage (`profiling.py`, `coverage.py`) | the gas an opcode used, cached profiles | booking, `by_pc`, `by_line` | gas lent to children and refunds must count once |
| Fast memory (`vm/fast_mem.py`) | bytes, a cache of words, write-back flags | word and byte reads and writes | two copies of the memory; unaligned accesses over cached words |
| IR executor (`contracts/vyper/ir_executor.py`) | the analysed IR, the Python source made from it | `analyze`, `compile`, `exec` | shadowing, reassignment, evaluation order, words in Python's unbounded integers |
| Jupyter bridge (`integrations/jupyter/`) | a shared-memory block per request | a kernel that polls, a server that writes, a browser that answers | answers after the time-out, half-written answers, reloads |
| Token dealing (`dealer.py`) | the token's storage | `deal` | which slot is it; two updates, the second may fail |
| Explorer, verifiers (`explorer.py`, `verifiers.py`) | the current verifier, the results | requests with retries, polling with back-off | a verdict races the deadline; the verifier changes in between |
| Deployments database (`deployments.py`) | a sqlite file | insert, query | – |
| Hypothesis strategies, debugger, IPython magic | – | data generation and user interface | – |

How they interact: an `Env` owns a `PyEVM`, whose account database is either
py-evm's own or an `AccountDBFork`; the latter asks the node through a
`CachingRPC`, whose rows live in a `SqliteCache`. `Env.anchor` wraps the
database's `record` and `discard` and the `VMPatcher`; the pytest plugin enters
and leaves anchors. A `NetworkEnv` is an `Env` that re-creates its fork around
every transaction and asks the same node directly; a `BrowserEnv` asks the wallet
over the Jupyter bridge. Compilation, on the way to every contract, goes through the
`DiskCache`. A contract's call runs in py-evm or, in fast mode, in the IR
executor on a `FastMem`; what it leaves in the registry, the traces and the gas meter feeds
error reports, dumps and profiles. `PROJECT.json` lists the components one
by one, with their status, and the hazards at the lines where they bite.

## 2. Modules

| Module | Models | Checked through |
|---|---|---|
| `ForkView` | the promise of a forked environment: an eager private copy of one block | `MCAccountDBFork` |
| `AccountDBFork` | `AccountDBFork`, with py-evm's `AccountDB` and the node around it | `MCAccountDBFork`; proved in `AccountDBForkProofs` |
| `CachingRPC` | `CachingRPC` and `SqliteCache` in several processes | `MCCachingRPC`; proved in `CachingRPCProofs` |
| `Anchors` | `Env._anchor`, `VMPatcher.anchor` and the pytest plugin | `MCTestRuns`; proved in `AnchorsProofs` |
| `DiskCache` | `DiskCache` in several jobs | `MCTestRuns`; proved in `DiskCacheProofs` |
| `NetworkEnv` | `NetworkEnv` against a concurrent node | `MCNetworkEnv`; proved in `NetworkEnvProofs` |
| `Memory` | the promise of a memory: an array of bytes | `MCExecution` |
| `FastMem` | `FastMem` and the opcodes that use it | `MCExecution`; proved in `ExecutionProofs` |
| `Words` | conversions between bytes and words (`vm/utils.py`) | `MCExecution`; proved in `ExecutionProofs` |
| `Arithmetic` | the operators and shifts of fast mode, beside the EVM's | `MCExecution`; proved in `ExecutionProofs` |
| `IRExecutor` | the translation of IR to Python, beside an interpreter of the IR | `MCExecution` |
| `JupyterBridge` | the kernel, the server and the browser | `MCPolling`; proved in `PollingProofs` |
| `Explorer` | verifiers and ABI requests against slow explorers | `MCPolling`; proved in `PollingProofs` |
| `Session` | environments, their contexts, and the registry of contracts | `MCSession`; proved in `SessionProofs` |
| `Calls` | a call with its children: gas, stack trace, profile | `MCSession`; proved in `ExecutionProofs` |
| `Overloads` | from a Python call to calldata | `MCSession`; proved in `SessionProofs` |
| `Dealer` | `boa.deal` | `MCSession`; proved in `SessionProofs` |
| `StorageDump` | the storage tracers and `StorageVar.get` | `MCSession`; proved in `SessionProofs` |
| `Compiling` | the cache key and the ways to load a contract | `MCSession`; proved in `SessionProofs` |

`MC<Module>` gives the modules their small instances, the `.cfg` files the bounds.
`MCExecution`, `MCPolling` and `MCSession` hold several modules that share no state;
a behaviour is chosen at the start to be of one of them (`RunPrograms` and the
absence of a program, `Sides`, `Topics`), so that the components are checked side by side and
not interleaved. A definition described as a variant, or placed before the definition
it resembles with a comment naming a mistake, is a deliberately wrong form of it:
substituted for it, it makes TLC find the property it is paired with violated
(`mutants` in `PROJECT.json`).

### ForkView and AccountDBFork

`ForkView` has a `view` (accounts and storage), a stack of `saved` views, and `out`,
the answer of the last read. It knows no laziness. `AccountDBFork` has what the
Python object has: `trie`, `store` and `codes` for py-evm's journals, `jstack` for
their checkpoints, `dontfetch` and `dstack` for boa's own journal, `cache`
for `_account_cache`, and `pin` for `_block_number`. A journal is its current value
and the values at the open checkpoints. Every method of the class is an action, as
are the py-evm methods that write (`set_balance`, `increment_nonce`, `set_code`,
`touch_account`), evictions from the bounded cache, failing requests, and the
growth of the node's chain. The refinement mapping `Promise` computes the view: a journalled
account, else the pinned block's; a marked slot's local value, else the pinned
block's. `out` is mapped to itself, so that every answer is compared.

One answer is left open in `ForkView`: whether an *empty* account exists.
`account_exists` says yes for an empty account that was written locally and no for
one that was only read; the EVM does not distinguish the two (EIP-161).

Code is its own hash; `codes` are the hashes whose code can be read back. A
prefetch is one action: between its `record` and its `commit` nothing else runs, and
its rollback is the action `PrefetchInvalid`.

### CachingRPC

One action per access to the file or to the node; in between, a process runs alone.
`call` holds the local variables of `fetch` or `fetch_multi`. `Locked`,
`Blocked` and `Release` are the three outcomes of `acquire_write_lock`. `Exit` stands
for a clean end (with the flush of `__del__`) and for a kill at any point. `fetch`
first checks and then reads, as the code does, and a sweep of another process in
between lets a `KeyError` escape (`LookupFails`). A query names a pinned block,
hence an answer that does not change; chains answer differently. `lastUse` is not kept by the code:
it records when a row was last read or stored, for `UnusedRowsGo`.

### Anchors

An anchor is a checkpoint id plus the patched values saved in the generator's frame.
What a fixture or a test does is a mark left in the state and in the patched values,
which is enough to see whether the effect is present or undone. `Work` is one iteration of
`_work_task_list`. Finalizers come in any order, as pytest issue 12135 has it, and
fixtures may be set up again while anchors of earlier ones are still deferred.

### DiskCache and Compiling

`DiskCache` has one action per system call: the two halves of the walk, `stat`, `unlink`, `rmdir`,
`mkdir`, `open`, `write`, `rename`. A file is the key it was made for, whether it is
written to the end, and whether it is older than the time to live. `Restart` is a kill,
followed at worst by a process with the same ids. `Age` excludes the unfinished file of
a job that is writing it: the time to live is a week, and no compiler call lasts that long.

`Compiling` is about what the keys of that cache stand for. A few source files import
each other; their versions, the search path, the cache and the deployer's class change at
any time between loads. What a file compiles to (`Meaning`) is its own text
and that of everything below it; the key is what `get_module_fingerprint` and
`compiler_data` put together, and for a contract that vvm compiles, which has imports too, its
text and version. `Blind` says of a load whether something it depends on is outside its key.
Entries of older versions of boa may be in the cache at the start.

### NetworkEnv

One action per request. The chain's state is one value and the account's nonce; an
operation reverts if the value is set already, so that the outcome depends on the
state it meets. Between requests the node mines pending transactions (`Mine`) and
other blocks (`MineForeign`), also ones that consume the account's nonce. Any
request may fail (`RequestFails`), and a transaction may be accepted while its answer
is lost (`Send`). The gas is estimated on the pending block, which may or may not hold what
waits (`Pending`). `cache` is what `CachingRPC` holds by block number, which survives
`_reset_fork`. `result` keeps what the caller was told beside what the node said.
Anchors nest; leaving one takes blocks back with `evm_revert`. Two receipts never
compete: a nonce is mined once.

### Memory, FastMem and Words

`Memory` is an array of bytes with a last operation. `FastMem` has the three lists of
the Python object (`bytes`, `cache`, `back`) and the uses that the opcodes and the IR
executor make of it, each of which extends the memory first. The refinement mapping
`Contents` lays the pending words over the bytes. `UnalignedReads` and
`EmptyExtends` say which accesses are made: boa's own IR reads words at
aligned positions only, and extends by nothing only where it then writes nothing.

### Arithmetic and IRExecutor

`Arithmetic` has each operator twice: as the executors call it, with Python's integers (`Binop`, `Shift`),
and as the EVM defines it (`ArithRef`, `ShiftRef`), where a quotient is the number that fits between two
multiples and `and` and the shifts speak of single bits. That they agree (`ArithmeticAgrees`) is a statement without
states: TLC evaluates it as an assumption of `MCExecution`, for words of three bits, and `ExecutionProofs` proves it for all.

`Analyze` resolves names to slots and `Py` does what the generated Python does, with Python's
integers and function calls; `Ref` is the IR's meaning, with lexical scopes and
words modulo `2^Width`. Both run each of the programs of `MCExecution`, the first
on the memory of `FastMem` and the second on plain bytes. The programs are
generated systematically around each construct: all binary operators on all words, shadowing
and reassignment, loops with `break`, `continue` and `cleanup_repeat`, labels with
parameters and exits, memory accesses and effects, each in static calls too.

### JupyterBridge and Explorer

In `JupyterBridge` the kernel, the server and the browser run concurrently. A
`_javascript_call` displays a snippet and polls a shared memory; the snippet may be run again
by a reload at any time; the server's copy of an answer may be seen half done. A cell of the memory
names the run that wrote it, so that the mixture of two answers shows. In `Explorer` the
client polls with growing pauses until its deadline while the explorers work at their own pace,
and the current verifier changes inside `set_verifier`.

### Session, Calls, Overloads, Dealer, StorageDump

`Session` has two environments and the contexts that change one for the length of a
`with` block (`anchor`, `swap_env`, `prank`, `gas_meter_class`), in any nesting, with
deployments, creations by contracts, time travel, forks, changes of the gas meter and of the patched code size
limit in between. A contract belongs to its environment, and executes there also when another is current:
`deployer.at()` then makes the object for what it creates in the current environment and registers it there,
and `apply_create_message` registers it once more where the execution is (`RegisterAt`). An anchor is a checkpoint in the journals
of a vm (`journal`), found by its number when it is reverted (`RevertTo`), and inside it a
`VMPatcher.anchor`, which puts values back on the patcher it began on (`Unpatched`). A fork gives the environment a new vm
with no checkpoints. The code size limit is a variable of a module of py-evm and common to all environments. The chain
comes back at the end of an anchor and the registry of contracts does not; addresses are used again.

`Calls` executes a small contract opcode by opcode: calls nest, fail, run out of gas, and
their failures are ignored or passed on. `StackTrace` and `Profile` are what boa computes
afterwards from the computations; the properties compare them with what happened.

`Overloads` decides in one step what is sent, for each set of overloads and each list of
arguments; `Dealer` does one `deal` per step, on tokens with several ways to compute
`balanceOf` and `totalSupply`. `StorageDump` keeps a slot as the derivation of its hash: only what was
traced can be taken apart. The opcode table is shared, so that an environment's
tracers see what the others do.

## 3. Runs

| Run | Expected | Shows |
|---|---|---|
| `fork` | pass | `TypeOK`, `CacheCoherent`, `LocalCodeNeverMissing`, `MarksMatchStorage`, `QuietStepsKeepView`, and `ImplementsForkView`: the lazy database is indistinguishable from the eager copy |
| `fork_dirty` | violation of `WritesAreDetected` | finding 1 |
| `rpc_cache` | pass | two processes on one file: `AnswersAreRight`, `UnusedRowsGo`, `CallsEnd` |
| `rpc_cache_chains` | violation of `OneFilePerChain` | finding 2 |
| `test_runs` | pass | `NoCheckpointLost`, `LiveFixturesKept`, `TestsLeaveNoTrace`, `EverythingUnwinds` (Anchors); `TypeOK`, `ReadsAreComplete` and `LookupsEnd` with two jobs, kills and collections (DiskCache) |
| `anchors_dynamic` | violation of `NoCheckpointLost` | finding 3 |
| `network` | pass | `CacheFollowsChain`, `OkMeansDone`, `RecordedIsDeployed`, `AnchorsNest`, `OperationsEnd` |
| `execution` | pass | `ExecutorAgrees`: generated Python and IR do the same; `Arithmetic`'s operators are the EVM's on all words; `CacheInStep` and `ImplementsMemory`: the fast memory is a memory |
| `fast_mem` | violation of `WordsMatchBytes` | finding 4 |
| `polling` | pass | `AnswersAreOwn`, `ReplaysAreIgnored`, `SendersAreCurrent`, `BridgeCallsEnd` (Jupyter); `WaitIsHonest`, `ExplorerCallsEnd` (explorers) |
| `session` | pass | `AnchorsRestore`, `RegistryIsCurrent` (Session); `TraceFollowsCauses`, `ProfileIsOwn` (Calls); `ArgumentsArrive` (Overloads); `DealIsHonest` (Dealer); `DumpShowsStorage` (StorageDump); `LoadsAreFresh` (Compiling) |
| `loads_stale` | violation of `DependenciesAreSeen` | finding 5 |

What the properties do not say:
- `UnusedRowsGo` bounds how long a row may stay, not how soon it may go: a late refresh may set back the
  date of a newer row (`sqlitedb.py:149`).
- `RegistryIsCurrent` leaves out entries that an execution of another environment put into the current one's registry.
- `CacheFollowsChain` is limited to histories without an `evm_revert`: what the cache keeps of blocks that were
  taken back is not covered by any property.
- `OkMeansDone` speaks of operations that return. One that raises may have been executed, or be executed later.
- `RecordedIsDeployed` says that what is recorded was deployed, not that what was deployed is recorded.
- `AnchorsNest` compares the numbers of blocks.
- `ReplaysAreIgnored` is about snippets shown again after their call; during the call a reload may ask the wallet
  twice.
- `SendersAreCurrent` is about the default sender; a `sender=` that the caller supplies is sent as it is.

Bounds.
- `fork`: one account with one slot, because every operation touches one
  account or slot and the journals are pointwise; two values, two codes, two blocks that
  differ in everything, and checkpoints two deep, so that a revert can cross an inner
  checkpoint or a commit. (Balances are held at one value there: the nonce plays the part of a
  changing account field, and the theorems below have no bounds.)
- `rpc_cache`: two processes, two queries, a life of one time unit and two units of time, so
  that rows expire, are refreshed and are swept while the other process is in any of
  its steps; one retry.
- `test_runs`: two isolated fixtures and one that ignores isolation, six anchors, two nested; for the cache, which
  the processes of a parallel test run share, two jobs, two keys in two directories, two mishaps.
- `network`: three blocks, two nested anchors, operations inside them, one block taken back.
- `execution`: words of three bits for programs (eight values and both signs; the operators are
  checked on all of them). For the memory alone, two words of two bytes of one bit: a word access touches at
  most two words, and an unaligned one both.
- `polling`: four calls, which is one whole operation of three calls and one more; three runs of
  snippets, so that a call can be answered twice and an earlier one late; answers that fit the
  memory and answers that do not. Explorers: three time units, pauses that grow past the deadline,
  three retries, four operations.
- `session`: two environments, contexts two deep and three operations, which is enough to deploy, let a
  factory create, fork, and use an address again, inside and outside of each context and while either environment is current; three computations
  of at most thirteen opcodes, so that a call's failing child can have a child of its own and the call
  goes on after it; words below four and two deals; two parameters of two types; three changes of
  storage over two environments; two loads and three edits.

Fairness. A call that runs goes on running: weak fairness of `Step` for each process
(`CachingRPC`), job (`DiskCache`) and for the environment's operation
(`NetworkEnv`), of `Kernel` for the notebook's kernel and of the client and the clock in
`Explorer`. In Python this is the interpreter executing the next statement, and in
the polling loops a bounded retry or time-out that ends. Nothing is
assumed of the node, the browser, the explorers, other users' calls, or pytest. That an
operation ends (`CallsEnd`, `LookupsEnd`, `OperationsEnd`, `BridgeCallsEnd`, `ExplorerCallsEnd`)
is therefore due to bounded retries and time-outs alone.
Deadlock checking is on except in `execution`, `fast_mem`, `polling`, `session` and `loads_stale`, where a
behaviour is over when the program, the calls or the operations are.

### Findings

1. `is_state_dirty` (`vm/py_evm.py:447`) looks at the accounts' journal; storage
   written by `set_storage` lies in another one, and the write goes unnoticed when
   `boa.fork` is about to replace the environment.
2. `SqliteCache.create` (`util/sqlitedb.py:187`) opens one file per process, named after the
   first chain; `docs/explain/caching.md` promises one per chain id. Since keys do not name
   the chain, two chains then share rows.
3. A fixture requested by a running test (`request.getfixturevalue`) gets an anchor inside
   the test's; it is reverted with the test's, and the finalizer's revert fails.
4. `FastMem.read_word` (`vm/fast_mem.py:38`) caches what it reads at an unaligned position
   under the index of the aligned word, which is then read back instead of the word that is
   there; line 6 of the file calls it compatible with py-evm's memory.
5. `get_module_fingerprint` (`interpret.py:127`) takes of an imported interface its own text only. When what
   the interface imports changes, the contract comes from the cache as it was; lines 112-113
   call it a fingerprint "which changes if any of its dependencies change".

Two more disagreements have no run of their own; the properties of the `session` run name them instead.

- `Env._anchor` (`environment.py:182`) reverts the vm that the environment has when the block ends. If
  it was forked inside, the checkpoint is unknown there: the revert raises, and the fork stays (`AnchorsRestore`
  says that it fails in exactly this case). `docs/api/env/env.md:42` promises that an anchor "reverts to the snapshot on exit".
- `StorageVar.get` (`vyper_contract.py:445`) leaves out what is falsy, and a struct, decoded to a
  dictionary, never is: entries of zeros are shown (`DumpShowsStorage` allows them), though the comment above says
  that a value is set "only if value is nonzero".

### Other observations

What the code does beside these, where we know of no document that says otherwise. The models follow the
code in each case, and the properties name the exception.

- *Network*: the verdict on a call is the local simulation's, not the node's (`network.py:388`).
- *Disk cache*: between `mkdir` (line 68) and `open` (line 79) another job's `gc` may prune the empty
  directory, and the lookup raises after the compilation.
- *Session*: failed, simulated and reverted creations leave entries in the registry
  (`py_evm.py:291-294`), so that an object may be found for code that boa does not know; a factory of another environment, called
  under the current one, puts the object for what it creates also into the current registry, over what is at that
  address there (`base_evm_contract.py:33`, `vyper_contract.py:587`), and the object belongs to the current environment; the gas meter's
  class is lost on a fork (`py_evm.py:399-408`).
- *Fork*: the account database's class is an attribute of a class of py-evm (`py_evm.py:395`), so that
  `is_forked` of one environment speaks of all (442).
- *Calls*: a dev reason below a contract without source is an `AttributeError`, since frames of text
  cannot carry one (`base_evm_contract.py:146`); the trace goes on into ignored failures where
  there is no source; a profile raises `KeyError` if gas runs out right after a CALL
  (`profiling.py:134`), and subtracts refunds of children that its meter never saw (107-115).
- *Dealing*: a failed search for the supply leaves the new balance; a token that computes its
  supply from balances may have a balance taken for it.
- *Overloads*: a keyword that one overload does not know is a `TypeError`, even if another takes it;
  a Vyper function ignores keywords if every parameter is given by position.
- *RPC cache*: a refresh that is written late may set back the expiry date of a row that another process has
  stored since (`sqlitedb.py:149`); the row is then asked for again earlier than need be.
- *Dumps*: an entry of a mapping to structs is missing if its first field was never written.
- *Compiling*: what a contract for `vvm` imports is not in its key (`interpret.py:348`; no document promises more of it),
  so that it may be stale, like what an interface imports (finding 5).
- *Jupyter*: the kernel gives up after 180 s (`constants.py:4`), though the receipt may take 240 s
  (`network.py:78`); after a reload two answers may mix.
- *IR executor*: `_trace_sstore` and `_trace_sha3_preimage` (671, 688) do not exist; `LogN` (708-736) has no
  check for static calls; a `repeat` past its bound is an `AssertionError` (801); `return` and `revert` read memory
  without extending it. `extend` by nothing makes `FastMem`'s lists disagree (`fast_mem.py:24-30`), which is
  why `EmptyExtends` is `FALSE`.

## 4. Proofs

Every safety property that a passing run checks is a theorem too, except `ExecutorAgrees` of the run `execution`: for all values of the constants and without the bounds of the runs.
Each proof module states its inductive invariant
(`IInv`, or a conjunction of its own for each component in `ExecutionProofs`, `PollingProofs` and `SessionProofs`), which TLC checked on the
run's instance before it was proved, proves that it holds at first, that every action keeps it, and that
it implies the properties. The layout is one lemma per operation, and one step per action.
What follows says why each invariant is more than its properties.

- **`AccountDBForkProofs`**: `TypeCorrect`, `CacheIsCoherent`, `LocalCodeIsNeverMissing`,
  `MarksAlwaysMatch`, the action property `QuietStepsAreInvisible` (nothing but a write or a revert
  changes what is shown) and the refinement `Refinement`: `Spec => ImplementsForkView`. `IInv` is
  `TypeOK /\ Coherence`, where `Coherence` is the conjunction of the three safety invariants. They need
  each other and the checkpoints: after `discard`, marks and journals must fit because they did so when
  recorded, which is why `MarksMatchStorage` and `LocalCodeNeverMissing` speak of every open
  checkpoint; the refinement of a read needs `CacheCoherent`, that of `get_code` needs
  `LocalCodeNeverMissing`. `Len(dstack) = Len(jstack)`, part of `TypeOK`, is what makes the saved views well defined.
- **`CachingRPCProofs`**: `TypeCorrect`, `AnswersAreAlwaysRight`, and the action property
  `UnusedRowsAreSwept`. The latter needs that every row and every queued refresh is dated at most a
  life after the last use of its row, whoever made it (`RowDates`, `QueueDates`). That answers are right needs that rows, memory layers and the local variables
  of every call in progress are (`Right`), and that a write lock belongs to the process that works on that file
  (`LocksAreHeld`). It is proved under `OneChainEach`: a process connects to one chain only. Without it the code does not keep
  what the theorem says, as the run `rpc_cache_chains` shows (finding 2); the run `rpc_cache` satisfies it.
- **`AnchorsProofs`**: `TypeCorrect`, `NoCheckpointIsLost`, `FixturesAreKept`, `TestsAreUndone`,
  `AllUnwinds`. The EVM's checkpoints are those of the open anchors in the order they were
  entered (`Aligned`, `Ordered`); each fixture's anchor belongs to one live fixture or is a task
  (`Owned`), and tasks are worked off down to one that is still needed (`WorkedOff`). Then a checkpoint is always
  innermost when it is reverted. What a live fixture did survives because all anchors inside
  its own would put it back (`Kept`), and a test's marks vanish because no fixture's anchor would put them back (`NoTrace`).
  It is proved for `~Dynamic`: no fixture is requested inside a running test, where the code fails (finding 3).
- **`DiskCacheProofs`**: `TypeCorrect`, `ReadsAreAlwaysComplete`. A file under an entry's
  name is whole because one that is about to be renamed is (`RenamedAreWhole`), also after a kill and a restart
  with the same ids, and because a file holds what its name says (`FilesAreNamed`).
- **`NetworkEnvProofs`**: `TypeCorrect`, `CacheAlwaysFollows`, `AnchorsAlwaysNest`,
  `RecordsAreDeployed`, `OkAlwaysMeansDone`. The step that needs most is the end of an operation: that the receipt
  is of the transaction sent, and that no other transaction took its place, follows from the order of nonces along the chain
  (`Nonces`), and from the transaction being pending, mined, or out of reach (`Sent`). The assumption on the constants that
  `None` is neither a value nor a transaction only says that nothing is confused with "nothing".
- **`ExecutionProofs`** is about `FastMem`, `Arithmetic` and `Calls`. Of `FastMem`: `CacheStaysInStep`, and the refinement `FastMemIsMemory`: `MemSpec =>
  ImplementsMemory`, for words and memories of any size. Most of it is about positions: which words a
  range of bytes touches (`Touching`), rounding to whole words, and that a word's bytes decode to the word
  (`Codec`). It is proved for `UnalignedReads = FALSE` and `EmptyExtends = FALSE`, which are the accesses that boa makes; an unaligned
  read breaks both properties (finding 4), an empty extension makes the lists disagree.
  Of `Arithmetic`: `ArithmeticIsTheEVMs`, for words of any width (at least one bit, `WidthAssumption`). A quotient that truncates is
  unique (`QuotientIs`), and so is the number with given bits (`BitAndIs`, `RoundTripOfInt`), so what the EVM determines is what Python computes. The powers of two are a
  recursive function, as the prover knows nothing of `^`. `WordsRoundTrip` proves of boa's own conversions, with bits for digits, what
  the theorems about `FastMem` assume of them (`CodecAssumption`, which leaves the coding of a word open). Of `Calls`, for any gas and any tree of calls:
  - `TracesFollowCauses`: those that are not over wait for each other in a line, of which the last executes (`OpenInLine`), and what made a
    computation fail is an error of its own or the failure of its *last* child (`CausesRight`). Then the trace and the chain of causes
    go down the same children (`Follows`).
  - `ProfilesAreOwn`: of every computation, at any moment, what is booked under an opcode is what its executions cost (`Own`), except
    under `CALL`, where it is also what the children used and what the running one was given (`Passes`); and the
    computations are numbered so that those inside one are in between (`Nested`, `Listed`). When the call is over, what was passed on
    under the `CALL` and what `by_pc` takes away under the opcode after it cancel (`NetGasIs`), and the entries of the
    children, one list after the other, name everything inside the computation once (`CachedLists`).
  - The trace, the refunds, the profile and every sum in it are recursive functions of the finished tree. That they exist
    is one lemma (`RecursionExists`), with a set of numbers in the place of the operator that the library's theorems on recursion take; what they
    compute is proved of a greatest, or a minimal, counterexample (`Greatest`, `Minimal`), as children start after the call that they are in.
    Sums over functions are shown not to depend on the order in which `CHOOSE` takes the elements (`SumsAddUp`).
- **`SessionProofs`**: `RegistryStaysCurrent` and the action property `AnchorsAlwaysRestore`. The registry is not
  journalled, so that the end of an anchor may bring back a chain that it has to fit. What every open
  anchor will restore is therefore part of the invariant (`Restorable`): unless its environment was forked
  meanwhile, the contracts that were there are still there, at the same addresses, and those that an outer anchor saved are
  among those of an inner one. The open checkpoints of the vms are those of the anchors whose vm is still
  there (`Aligned`), so that a revert finds its own checkpoint or, after a fork, none. Entries that another environment's execution
  made are objects (`ForeignIsObject`). Of the components beside `Session`:
  - `DealsAreHonest` (`Dealer`), for words of any size: the slot that a probe finds is one that the view reads (`FoundSlot`), so
    what is written there is what it then returns, by cases of how the token computes its views (`BalanceUpdate`,
    `SupplyUpdate`); that another slot could hold the same value is what the probe with a changed word excludes.
  - `ArgumentsAlwaysArrive` (`Overloads`): encoding the merged arguments and reading them in the order of the function's
    parameters gives them back (`RoundTrip`, `MergedArrive`), separately for `ABIContract` (`OverloadArrives`) and
    `VyperContract` (`VyperArrives`). It assumes that there are finitely many names (`OverloadsAssumption`), as a contract's ABI is a finite list: the
    code that picks an overload counts those that match.
  - `DumpsAreTrue` (`StorageDump`): whoever knows that a slot was written knows every hash on the way to it
    (`TracedAreHashed`), whichever environment was made last, and every slot that a transaction wrote since the last fork is known
    (`WrittenAreTraced`). Then undoing the hashes ends exactly at the mapping and the keys that the slot comes from
    (`UnwrapsSlot`). Paths have at most three parts, so that the recursion is unfolded (`UnwrapsPair`, `UnwrapsTriple`) and needs no induction.
  - `LoadsAreAlwaysFresh` (`Compiling`): an entry of the cache is what the compiler gives for the versions of the files that
    its key was made from, which nobody remembers (`EntriesRight`); and files with equal fingerprints mean the same, unless what changed is behind an
    interface or imported by a contract for vvm (`PrintsTellApart`). The recursive functions along the imports are unfolded into closed forms
    (`Meanings`, `Fingerprints`, `Blinds`), as the imports of the model are at most three deep.
- **`PollingProofs`**: of `JupyterBridge` `AnswersAreAlwaysOwn`, `ReplaysAreAlwaysIgnored`,
  `SendersAreAlwaysCurrent`; of `Explorer` `WaitsAreHonest`. Only the memory of the call that the kernel waits for
  is linked (`Current`), and a cell in it names a run of that call which has posted (`Authored`): a late
  answer goes to a memory that nobody reads. That the wallet named the sender is carried from the answer to the
  display by `Named`. In `Explorer`, the time since the last poll is bounded by the pause and the
  request (`Timed`), and a poll that did not end the wait came before the verdict (`Early`).

The specifications are those of the runs where the module has one (`Spec`, fairness included and not
needed). `MemSpec`, `CallsSpec`, `SessionSpec`, `DealerSpec`, `OverloadsSpec`, `DumpSpec`, `CompilingSpec`, `BridgeSpec`, `ExplorerSpec` and `DiskSpec` are the components' own `Init` and `Next`; the runs combine several
of these that share no state.

Only model-checked:
- liveness (`CallsEnd`, `LookupsEnd`, `OperationsEnd`, `BridgeCallsEnd`, `ExplorerCallsEnd`): it needs fairness and `ENABLED`,
  which the prover does not support;
- `ExecutorAgrees`: `IRExecutor` uses recursive operators on trees, which the prover does not take. Its
  memory (`FastMemIsMemory`) and its operators (`ArithmeticIsTheEVMs`) are proved; names, control flow and effects are not.

## 5. What is not modelled

- `AccountDBFork`: the removal of accounts at the end of a transaction (boa never runs
  py-evm's finalisation, so nothing is removed), and the encoding of the node's
  answers as hexadecimal strings.
- `CachingRPC`: the variant without a file (`cache_dir=None`), which is `mem` alone;
  `SqliteCache.__delitem__`, which is never called; debug mode.
- `Anchors`: profiling hooks. A fork inside an anchor is in `Session`.
- `DiskCache`: `gc(force=True)`.
- `NetworkEnv`: the registry of accounts, fees, capability detection, and what
  `evm_revert` does to `CachingRPC`: entries of blocks that were taken back stay in
  the cache, as `docs/explain/caching.md` warns; `CacheFollowsChain` and
  `OkMeansDone` are stated for chains that only grow.
- `Session`: `VyperContract.stomp`, which replaces the code of an address and, inside an anchor, leaves its object in the
  registry afterwards (`vyper_contract.py:102-120`); raw precompiles; the account
  accessors, which pass through to py-evm.
- `JupyterBridge`: colab's `eval_js`, `eth_signTypedData`, `set_chain_id`; a `sender=` that the caller supplies
  (`network.py:329`), which is sent unchecked; and the requests between the accounts and the sending (fork reset, fees, nonce,
  gas), each of which is one more call like those modelled, and makes the operation fail if it fails.
- `Explorer`: the explorers' formats.
- `Compiling`: `load_abi`, `load_vyi` and the parsing in `from_etherscan`; `precompile.py`, which registers
  functions with the Vyper compiler.
- Contract objects: decoding of values and events, `call_trace.py`, formatting, and `eval` and `inject`,
  which compile more source and run it like any other call.
- `deployments.py` beyond which deployments are recorded: inserts and queries of one table.
- `coverage.py` and the tables of `profiling.py`: reports.
- `test/strategies.py`, `debugger.py`, `ipython.py`: data generation and user interface.

## 6. Plan

What is left to prove is `ExecutorAgrees`: with `Py`, `Ref` and their companions as recursive functions of a finite set of trees, the
lemmas that the proofs about `Calls` use for recursion (`RecursionExists`, `Greatest`) apply to it too. What is left to model is listed above.

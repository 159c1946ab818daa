------------------------------ MODULE Anchors ------------------------------
(***************************************************************************)
(* Test isolation: Env.anchor (boa/environment.py) over the EVM's          *)
(* checkpoints and VMPatcher.anchor (boa/vm/py_evm.py), as used by `with`  *)
(* statements and by the pytest plugin (boa/test/plugin.py).               *)
(*                                                                         *)
(* The plugin enters an anchor before a fixture is set up and leaves it    *)
(* when the fixture is finalised.  pytest finalises fixtures out of order  *)
(* (pytest issue 12135), but checkpoints can only be reverted from the     *)
(* inside out, so the plugin keeps the anchors in _stack and defers, in    *)
(* _task_list, those that are not innermost.                               *)
(*                                                                         *)
(* What runs between two anchors is abstracted to marks: a fixture or a    *)
(* test leaves its mark in the EVM state and in the patched values (block  *)
(* number, timestamp, ...).                                                *)
(***************************************************************************)
EXTENDS Naturals, Sequences, SequencesExt

CONSTANTS
  Fixture,      \* fixtures; each may be set up and finalised many times
  Ignored,      \* those marked ignore_isolation
  Test,         \* the mark of a running test
  Dynamic,      \* may a test set up fixtures itself (request.getfixturevalue)?
  MaxId,        \* bound on the number of anchors entered
  MaxWith       \* bound on nested anchors inside a test

ASSUME AnchorsAssumption ==
  /\ Ignored \subseteq Fixture
  /\ Test \notin Fixture
  /\ Dynamic \in BOOLEAN
  /\ MaxId \in Nat /\ MaxWith \in Nat

Mark == Fixture \union {Test}

VARIABLES
  state,        \* marks in the EVM state
  patch,        \* marks in the values of VMPatcher
  snaps,        \* the EVM's open checkpoints: [id, state]
  id,           \* counter for checkpoints and tasks
  stack,        \* _stack: the fixtures' anchors, oldest first
  tasks,        \* _task_list: ids of anchors whose fixture is finalised
  live,         \* [Fixture -> id of its anchor, 0 if it is not set up]
  withs,        \* anchors of `with` statements, of the running test first
  working,      \* is _work_task_list running?
  error         \* has a revert failed ("No checkpoint ... was found")?

vars == <<state, patch, snaps, id, stack, tasks, live, withs, working, error>>

NotSetUp == 0
Live == {f \in Fixture : live[f] # NotSetUp}

Init ==
  /\ state = {} /\ patch = {}
  /\ snaps = <<>> /\ id = 1
  /\ stack = <<>> /\ tasks = {}
  /\ live = [f \in Fixture |-> NotSetUp]
  /\ withs = <<>>
  /\ working = FALSE
  /\ error = FALSE

(***************************************************************************)
(* Env._anchor                                                             *)
(***************************************************************************)

\* __enter__: a checkpoint of the EVM; the patched values saved in the context.
Enter ==
  /\ id <= MaxId
  /\ id' = id + 1
  /\ snaps' = Append(snaps, [id |-> id, state |-> state])

Context == [id |-> id, patch |-> patch]

\* An exit that forgets the patched values.
ExitKeepsPatch(ctx) ==
  /\ patch' = patch
  /\ LET at == {i \in 1..Len(snaps) : snaps[i].id = ctx.id}
     IN  \/ \E i \in at : /\ state' = snaps[i].state
                          /\ snaps' = SubSeq(snaps, 1, i - 1)
                          /\ UNCHANGED error
         \/ at = {} /\ error' = TRUE /\ UNCHANGED <<state, snaps>>

\* __exit__: the patched values are put back, then the EVM is reverted, which
\* drops all later checkpoints too and fails if this one is gone.
Exit(ctx) ==
  /\ patch' = ctx.patch
  /\ LET at == {i \in 1..Len(snaps) : snaps[i].id = ctx.id}
     IN  \/ \E i \in at : /\ state' = snaps[i].state
                          /\ snaps' = SubSeq(snaps, 1, i - 1)
                          /\ UNCHANGED error
         \/ at = {} /\ error' = TRUE /\ UNCHANGED <<state, snaps>>

Leave(mark) ==
  /\ state' = state \union {mark}
  /\ patch' = patch \union {mark}

Idle == ~working /\ ~error

(***************************************************************************)
(* The plugin                                                              *)
(***************************************************************************)

\* pytest_fixture_setup, and then the fixture itself.
SetUp(f) ==
  /\ Idle
  /\ f \notin Live \union Ignored
  /\ withs = <<>> \/ Dynamic
  /\ Enter
  /\ stack' = Append(stack, Context)
  /\ live' = [live EXCEPT ![f] = id]
  /\ Leave(f)
  /\ UNCHANGED <<tasks, withs, working, error>>

\* A fixture under ignore_isolation runs without an anchor and leaves its mark
\* in whatever anchor is open.
SetUpIgnored(f) ==
  /\ Idle
  /\ f \in Ignored
  /\ withs = <<>> \/ Dynamic
  /\ Leave(f)
  /\ UNCHANGED <<snaps, id, stack, tasks, live, withs, working, error>>

\* Leaving the anchor of a finalised fixture at once, without deferring.
FinalizeAtOnce(f) ==
  /\ Idle
  /\ f \in Live
  /\ withs = <<>>
  /\ \E ctx \in ToSet(stack) : ctx.id = live[f] /\ Exit(ctx)
                               /\ stack' = SelectSeq(stack, LAMBDA c : c.id # ctx.id)
  /\ live' = [live EXCEPT ![f] = NotSetUp]
  /\ UNCHANGED <<id, tasks, withs, working>>

\* finalize(): called by pytest once no test runs, in any order.
Finalize(f) ==
  /\ Idle
  /\ f \in Live
  /\ withs = <<>>
  /\ tasks' = tasks \union {live[f]}
  /\ live' = [live EXCEPT ![f] = NotSetUp]
  /\ working' = TRUE
  /\ UNCHANGED <<state, patch, snaps, id, stack, withs, error>>

\* Leaving only the anchor of the fixture that was finalised last.
MoreWorkNever == FALSE

MoreWork == stack # <<>> /\ Last(stack).id \in tasks

\* An iteration of _work_task_list: the innermost anchor is left if its fixture
\* is finalised.  An exception ends the loop.
Work ==
  /\ working
  /\ MoreWork
  /\ stack' = Front(stack)
  /\ tasks' = tasks \ {Last(stack).id}
  /\ Exit(Last(stack))
  /\ working' = ~error'
  /\ UNCHANGED <<id, live, withs>>

WorkDone ==
  /\ working
  /\ ~MoreWork
  /\ working' = FALSE
  /\ UNCHANGED <<state, patch, snaps, id, stack, tasks, live, withs, error>>

(***************************************************************************)
(* Tests: pytest_runtest_call, the hypothesis wrapper and `with` statements*)
(* in the test itself all enter an anchor and leave it, innermost first.   *)
(***************************************************************************)

EnterWith ==
  /\ Idle
  /\ Len(withs) < MaxWith
  /\ Enter
  /\ withs' = Append(withs, Context)
  /\ UNCHANGED <<state, patch, stack, tasks, live, working, error>>

RunTest ==
  /\ Idle
  /\ withs # <<>>
  /\ Leave(Test)
  /\ UNCHANGED <<snaps, id, stack, tasks, live, withs, working, error>>

ExitWith ==
  /\ Idle
  /\ withs # <<>>
  /\ withs' = Front(withs)
  /\ Exit(Last(withs))
  /\ UNCHANGED <<id, stack, tasks, live, working>>

Next ==
  \/ \E f \in Fixture : SetUp(f) \/ SetUpIgnored(f) \/ Finalize(f)
  \/ Work \/ WorkDone
  \/ EnterWith \/ RunTest \/ ExitWith

Spec == Init /\ [][Next]_vars

(***************************************************************************)
(* Properties                                                              *)
(***************************************************************************)

ContextType == [id: 1..MaxId, patch: SUBSET Mark]

\* Type correctness of the anchors' bookkeeping (_stack, _task_list, the open
\* checkpoints); each task, and each fixture that is set up, has its anchor in
\* _stack.
AnchorTypes ==
  /\ state \in SUBSET Mark /\ patch \in SUBSET Mark
  /\ snaps \in Seq([id: 1..MaxId, state: SUBSET Mark])
  /\ id \in 1..(MaxId + 1)
  /\ stack \in Seq(ContextType) /\ withs \in Seq(ContextType)
  /\ tasks \subseteq {stack[i].id : i \in 1..Len(stack)}
  /\ live \in [Fixture -> {NotSetUp} \union {stack[i].id : i \in 1..Len(stack)}]
  /\ working \in BOOLEAN /\ error \in BOOLEAN

\* However pytest orders its finalizers, no anchor is left after its checkpoint
\* is gone (the failure test_fixture_order.py is about).
NoCheckpointLost == ~error

\* A fixture that is still set up keeps the effect of its set-up, on the state
\* and on the patched values: no other fixture's or test's anchor, when left,
\* reverts across it.
LiveFixturesKept == \A f \in Live : f \in state /\ f \in patch

\* When a test is over its changes are gone, from the state and from the
\* patched values.
TestsLeaveNoTrace == withs = <<>> => Test \notin state /\ Test \notin patch

\* Deferred anchors are not forgotten: when no fixture is set up any more, all
\* anchors have been left, and what the isolated fixtures did is undone.
EverythingUnwinds ==
  Idle /\ Live = {} /\ withs = <<>> =>
    /\ stack = <<>> /\ snaps = <<>> /\ tasks = {}
    /\ state \subseteq Ignored /\ patch \subseteq Ignored
=============================================================================

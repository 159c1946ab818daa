---------------------------- MODULE AnchorsProofs ----------------------------
(***************************************************************************)
(* Proofs about Anchors, for any fixtures, any number of anchors and any   *)
(* nesting of `with` statements, as long as tests set up no fixtures       *)
(* themselves (with them a checkpoint can be lost: NoCheckpointLost fails  *)
(* when Dynamic).                                                          *)
(***************************************************************************)
EXTENDS Anchors, SequenceTheorems, TLAPS

(***************************************************************************)
(* The inductive invariant                                                 *)
(***************************************************************************)

Snapshot == [id: 1..MaxId, state: SUBSET Mark]

Types ==
  /\ state \in SUBSET Mark /\ patch \in SUBSET Mark
  /\ snaps \in Seq(Snapshot)
  /\ id \in 1..(MaxId + 1)
  /\ stack \in Seq(ContextType) /\ withs \in Seq(ContextType)
  /\ tasks \subseteq 1..MaxId
  /\ live \in [Fixture -> 0..MaxId]
  /\ working \in BOOLEAN /\ error \in BOOLEAN

\* The open anchors, outermost first: those of fixtures, then the running test's.
Depth == Len(stack) + Len(withs)
Anchor(i) == IF i <= Len(stack) THEN stack[i] ELSE withs[i - Len(stack)]

\* The EVM has one checkpoint per open anchor, in the same order ...
Aligned ==
  /\ Len(snaps) = Depth
  /\ \A i \in 1..Depth : snaps[i].id = Anchor(i).id

\* ... which is the order they were entered in.
Ordered ==
  \A i \in 1..Depth : /\ snaps[i].id < id
                      /\ \A j \in 1..Depth : i < j => snaps[i].id < snaps[j].id

\* A fixture's anchor is that of one fixture that is set up, or it is a task.
Owned ==
  /\ tasks \subseteq {stack[k].id : k \in 1..Len(stack)}
  /\ \A f \in Live : live[f] \in {stack[k].id : k \in 1..Len(stack)} \ tasks
  /\ \A f, g \in Live : live[f] = live[g] => f = g
  /\ \A k \in 1..Len(stack) : stack[k].id \in tasks \/ \E f \in Live : live[f] = stack[k].id

\* Tasks are worked off while no test runs, down to an anchor that is still needed.
WorkedOff ==
  /\ ~error
  /\ working => withs = <<>>
  /\ ~working => ~MoreWork

\* A fixture's mark is there, and all anchors inside its own would put it back.
Kept ==
  \A f \in Live, k \in 1..Len(stack) :
    stack[k].id = live[f] =>
      /\ f \in state /\ f \in patch
      /\ \A i \in 1..Depth : k < i => f \in snaps[i].state /\ f \in Anchor(i).patch

\* No fixture's anchor, nor the running test's first one, would put a test's mark back.
NoTrace ==
  /\ TestsLeaveNoTrace
  /\ \A i \in 1..Depth : i <= Len(stack) + 1 => /\ Test \notin snaps[i].state
                                               /\ Test \notin Anchor(i).patch

\* The outermost anchor puts back what only ignored fixtures have changed.
Outermost ==
  /\ Depth = 0 => state \subseteq Ignored /\ patch \subseteq Ignored
  /\ Depth > 0 => snaps[1].state \subseteq Ignored /\ Anchor(1).patch \subseteq Ignored

Nested == Aligned /\ Ordered /\ Owned
Marked == Kept /\ NoTrace /\ Outermost
IInv == Types /\ Nested /\ WorkedOff /\ Marked

(***************************************************************************)
(* What entering and leaving an anchor do                                  *)
(***************************************************************************)

\* An anchor and its checkpoint are now innermost ...
Pushed ==
  /\ id <= MaxId /\ id' = id + 1
  /\ Depth' = Depth + 1 /\ Len(snaps') = Len(snaps) + 1
  /\ snaps'[Depth'] = [id |-> id, state |-> state]
  /\ Anchor(Depth)' = [id |-> id, patch |-> patch]
  /\ \A i \in 1..Depth : snaps'[i] = snaps[i] /\ Anchor(i)' = Anchor(i)

\* ... or have been left, and the state is back to what it was.
Popped ==
  /\ Depth > 0 /\ UNCHANGED <<id, error>>
  /\ Depth' = Depth - 1 /\ Len(snaps') = Len(snaps) - 1
  /\ state' = snaps[Depth].state /\ patch' = Anchor(Depth).patch
  /\ \A i \in 1..Depth - 1 : snaps'[i] = snaps[i] /\ Anchor(i)' = Anchor(i)

\* A sequence without its last element.
LEMMA Ends ==
  ASSUME NEW S, NEW s \in Seq(S), s # <<>>
  PROVE  /\ Len(s) \in Nat \ {0} /\ Last(s) = s[Len(s)] /\ Last(s) \in S
         /\ Front(s) \in Seq(S) /\ Len(Front(s)) = Len(s) - 1
         /\ \A i \in 1..Len(s) - 1 : Front(s)[i] = s[i]
<1>1. Len(s) \in Nat \ {0}
  BY EmptySeq, LenProperties
<1>2. Last(s) = s[Len(s)] /\ Last(s) \in S
  BY <1>1, ElementOfSeq DEF Last
<1>3. Front(s) = SubSeq(s, 1, Len(s) - 1)
  BY DEF Front
<1>4. /\ Front(s) \in Seq(S) /\ Len(Front(s)) = Len(s) - 1
      /\ \A i \in 1..Len(s) - 1 : Front(s)[i] = s[i]
  <2> DEFINE n == Len(s) - 1
  <2>0. \A x \in Nat \ {0} : x - 1 \in Nat /\ (1 <= x - 1 \/ x - 1 = 0)
    OBVIOUS
  <2>1. n \in Nat /\ (1 <= n \/ n = 0)
    BY <1>1, <2>0
  <2>2. \A i \in 1..n : s[i] \in S
    BY <1>1, ElementOfSeq
  <2>3. /\ SubSeq(s, 1, n) \in Seq(S) /\ Len(SubSeq(s, 1, n)) = IF 1 <= n THEN n - 1 + 1 ELSE 0
        /\ \A i \in 1..n - 1 + 1 : SubSeq(s, 1, n)[i] = s[1 + i - 1]
    <3> HIDE DEF n
    <3>1. QED
      BY <2>1, <2>2, SubSeqProperties
  <2>4. n - 1 + 1 = n /\ \A i \in 1..n : 1 + i - 1 = i
    BY <2>1
  <2>5. QED
    BY <1>3, <2>1, <2>3, <2>4
<1>5. QED
  BY <1>1, <1>2, <1>4

\* A fixture that is set up, and a `with` statement, enter an anchor.
LEMMA EnterPushes ==
  ASSUME Types, Aligned,
         \/ withs = <<>> /\ UNCHANGED withs /\ stack' = Append(stack, Context)
         \/ UNCHANGED stack /\ withs' = Append(withs, Context),
         Enter
  PROVE  /\ Pushed
         /\ snaps' \in Seq(Snapshot) /\ id' \in 1..(MaxId + 1)
         /\ stack' \in Seq(ContextType) /\ withs' \in Seq(ContextType)
<1> DEFINE snap == [id |-> id, state |-> state]
<1>1. /\ id \in 1..MaxId /\ id' = id + 1 /\ snaps' = Append(snaps, snap)
      /\ snap \in Snapshot /\ Context \in ContextType
  BY AnchorsAssumption DEF Enter, Types, Snapshot, Context, ContextType
<1>0. id <= MaxId /\ id' = id + 1 /\ id' \in 1..(MaxId + 1)
  BY <1>1, AnchorsAssumption
<1> HIDE DEF snap
<1>2. /\ Len(stack) \in Nat /\ Len(withs) \in Nat /\ Len(snaps) = Depth /\ Depth \in Nat
      /\ withs = <<>> => Len(withs) = 0
  BY LenProperties, EmptySeq DEF Types, Aligned, Depth
<1>3. /\ snaps' \in Seq(Snapshot) /\ Len(snaps') = Len(snaps) + 1
      /\ snaps'[Depth + 1] = snap /\ \A i \in 1..Depth : snaps'[i] = snaps[i]
  <2>1. snaps \in Seq(Snapshot)
    BY DEF Types
  <2>2. /\ snaps' \in Seq(Snapshot) /\ Len(snaps') = Len(snaps) + 1
        /\ snaps'[Len(snaps) + 1] = snap /\ \A i \in 1..Len(snaps) : snaps'[i] = snaps[i]
    BY <1>1, <2>1, AppendProperties
  <2>3. QED
    BY <1>2, <2>2
<1>4. CASE withs = <<>> /\ UNCHANGED withs /\ stack' = Append(stack, Context)
  <2>1. /\ stack' \in Seq(ContextType) /\ Len(stack') = Len(stack) + 1
        /\ stack'[Len(stack) + 1] = Context
        /\ \A i \in 1..Len(stack) : stack'[i] = stack[i]
    BY <1>1, <1>4, AppendProperties DEF Types
  <2>2. Depth = Len(stack) /\ Depth' = Depth + 1 /\ Depth' = Len(stack')
    BY <1>2, <1>4, <2>1 DEF Depth
  <2>3. Anchor(Depth)' = Context
    BY <1>2, <2>1, <2>2 DEF Anchor
  <2>4. \A i \in 1..Depth : Anchor(i)' = Anchor(i)
    <3>1. \A i \in 1..Depth : i \in 1..Len(stack) /\ i <= Len(stack')
      BY <1>2, <2>1, <2>2
    <3>2. QED
      BY <2>1, <3>1 DEF Anchor
  <2>5. QED
    <3>1. snaps'[Depth'] = snap
      BY <1>3, <2>2
    <3>2. withs' \in Seq(ContextType)
      BY <1>4 DEF Types
    <3>3. QED
      BY <1>0, <1>3, <2>1, <2>2, <2>3, <2>4, <3>1, <3>2 DEF Pushed, snap, Context
<1>5. CASE UNCHANGED stack /\ withs' = Append(withs, Context)
  <2>1. /\ withs' \in Seq(ContextType) /\ Len(withs') = Len(withs) + 1
        /\ withs'[Len(withs) + 1] = Context
        /\ \A i \in 1..Len(withs) : withs'[i] = withs[i]
    BY <1>1, <1>5, AppendProperties DEF Types
  <2>2. Depth' = Depth + 1 /\ Depth' = Len(stack) + Len(withs')
    BY <1>2, <1>5, <2>1 DEF Depth
  <2>3. Anchor(Depth)' = Context
    <3>1. ~(Depth' <= Len(stack')) /\ Depth' - Len(stack') = Len(withs) + 1
      BY <1>2, <1>5, <2>1, <2>2
    <3>2. QED
      BY <2>1, <3>1 DEF Anchor
  <2>4. \A i \in 1..Depth : Anchor(i)' = Anchor(i)
    <3>1. ASSUME NEW i \in 1..Depth, ~(i <= Len(stack))
          PROVE  i - Len(stack) \in 1..Len(withs)
      BY <1>2, <3>1 DEF Depth
    <3>2. QED
      BY <1>5, <2>1, <3>1 DEF Anchor
  <2>5. QED
    <3>1. snaps'[Depth'] = snap
      BY <1>3, <2>2
    <3>2. stack' \in Seq(ContextType)
      BY <1>5 DEF Types
    <3>3. QED
      BY <1>0, <1>3, <2>1, <2>2, <2>3, <2>4, <3>1, <3>2 DEF Pushed, snap, Context
<1>6. QED
  BY <1>4, <1>5

\* Leaving the innermost anchor finds its checkpoint, the innermost one.
LEMMA ExitPops ==
  ASSUME Types, Aligned, Ordered, NEW ctx \in ContextType, Exit(ctx),
         \/ /\ stack # <<>> /\ withs = <<>> /\ UNCHANGED withs
            /\ ctx = Last(stack) /\ stack' = Front(stack)
         \/ /\ withs # <<>> /\ UNCHANGED stack
            /\ ctx = Last(withs) /\ withs' = Front(withs),
         UNCHANGED id
  PROVE  /\ Popped
         /\ snaps' \in Seq(Snapshot) /\ state' \in SUBSET Mark /\ patch' \in SUBSET Mark
         /\ stack' \in Seq(ContextType) /\ withs' \in Seq(ContextType)
<1>1. /\ Len(stack) \in Nat /\ Len(withs) \in Nat /\ Len(snaps) = Depth /\ Depth \in Nat
      /\ withs = <<>> => Len(withs) = 0
  BY LenProperties, EmptySeq DEF Types, Aligned, Depth
<1>2. /\ Depth > 0 /\ Depth' = Depth - 1 /\ ctx = Anchor(Depth)
      /\ stack' \in Seq(ContextType) /\ withs' \in Seq(ContextType)
      /\ \A i \in 1..Depth - 1 : Anchor(i)' = Anchor(i)
  <2>1. CASE /\ stack # <<>> /\ withs = <<>> /\ UNCHANGED withs
             /\ ctx = Last(stack) /\ stack' = Front(stack)
    <3>1. /\ stack' \in Seq(ContextType) /\ Len(stack) > 0 /\ Len(stack') = Len(stack) - 1
          /\ ctx = stack[Len(stack)] /\ \A i \in 1..Len(stack) - 1 : stack'[i] = stack[i]
      BY <2>1, Ends DEF Types
    <3>2. QED
      BY <1>1, <2>1, <3>1 DEF Depth, Anchor, Types
  <2>2. CASE /\ withs # <<>> /\ UNCHANGED stack
             /\ ctx = Last(withs) /\ withs' = Front(withs)
    <3>1. /\ withs' \in Seq(ContextType) /\ Len(withs) > 0 /\ Len(withs') = Len(withs) - 1
          /\ ctx = withs[Len(withs)] /\ \A i \in 1..Len(withs) - 1 : withs'[i] = withs[i]
      BY <2>2, Ends DEF Types
    <3>2. Depth > 0 /\ Depth' = Depth - 1 /\ ctx = Anchor(Depth)
      BY <1>1, <2>2, <3>1 DEF Depth, Anchor, Types
    <3>3. \A i \in 1..Depth - 1 : Anchor(i)' = Anchor(i)
      <4>1. ASSUME NEW i \in 1..Depth - 1, ~(i <= Len(stack))
            PROVE  i - Len(stack) \in 1..Len(withs) - 1
        BY <1>1, <4>1 DEF Depth
      <4>2. QED
        BY <2>2, <3>1, <4>1 DEF Anchor
    <3>4. QED
      BY <2>2, <3>1, <3>2, <3>3 DEF Types
  <2>3. QED
    BY <2>1, <2>2
<1>3. {i \in 1..Len(snaps) : snaps[i].id = ctx.id} = {Depth}
  <2>0. \A i \in 1..Depth : snaps[i].id \in Nat
    <3>1. \A i \in 1..Len(snaps) : snaps[i] \in Snapshot
      BY ElementOfSeq DEF Types
    <3>2. \A s \in Snapshot : s.id \in Nat
      BY AnchorsAssumption DEF Snapshot
    <3>3. QED
      BY <1>1, <3>1, <3>2
  <2>1. ASSUME NEW i \in 1..Depth, snaps[i].id = snaps[Depth].id
        PROVE  i = Depth
    BY <1>1, <1>2, <2>0, <2>1 DEF Ordered
  <2>2. snaps[Depth].id = ctx.id /\ Depth \in 1..Depth
    BY <1>1, <1>2 DEF Aligned
  <2>3. QED
    BY <1>1, <2>1, <2>2
<1>4. /\ state' = snaps[Depth].state /\ snaps' = SubSeq(snaps, 1, Depth - 1)
      /\ patch' = ctx.patch /\ UNCHANGED error
  BY <1>3 DEF Exit
<1>5. Front(snaps) = SubSeq(snaps, 1, Depth - 1) /\ snaps # <<>>
  BY <1>1, <1>2, EmptySeq DEF Front
<1>6. /\ snaps' \in Seq(Snapshot) /\ Len(snaps') = Len(snaps) - 1
      /\ snaps[Depth] \in Snapshot
      /\ \A i \in 1..Depth - 1 : snaps'[i] = snaps[i]
  BY <1>1, <1>4, <1>5, Ends DEF Types
<1>7. QED
  BY <1>2, <1>4, <1>6 DEF Popped, Snapshot, ContextType

\* Numbers of anchors, and the ids of checkpoints.
LEMMA Counts ==
  ASSUME Types, Aligned
  PROVE  /\ Len(stack) \in Nat /\ Len(withs) \in Nat /\ Len(snaps) = Depth /\ Depth \in Nat
         /\ Depth = Len(stack) + Len(withs) /\ id \in Nat
         /\ stack = <<>> <=> Len(stack) = 0
         /\ withs = <<>> <=> Len(withs) = 0
         /\ snaps = <<>> <=> Depth = 0
         /\ \A i \in 1..Depth : snaps[i].id \in Nat \ {0} /\ snaps[i].id = Anchor(i).id
         /\ \A i \in 1..Len(stack) : i \in 1..Depth /\ Anchor(i) = stack[i]
<1>1. /\ Len(stack) \in Nat /\ Len(withs) \in Nat /\ Len(snaps) = Depth /\ Depth \in Nat
      /\ Depth = Len(stack) + Len(withs) /\ id \in Nat
  BY AnchorsAssumption, LenProperties DEF Types, Aligned, Depth
<1>2. /\ stack = <<>> <=> Len(stack) = 0
      /\ withs = <<>> <=> Len(withs) = 0
      /\ snaps = <<>> <=> Depth = 0
  BY <1>1, EmptySeq DEF Types
<1>3. \A i \in 1..Len(snaps) : snaps[i] \in Snapshot
  BY ElementOfSeq DEF Types
<1>4. \A s \in Snapshot : s.id \in Nat \ {0}
  BY AnchorsAssumption DEF Snapshot
<1>5. \A i \in 1..Len(stack) : i \in 1..Depth /\ i <= Len(stack)
  BY <1>1
<1>6. QED
  BY <1>1, <1>2, <1>3, <1>4, <1>5 DEF Aligned, Anchor

\* An anchor entered keeps the order, and one that is left too.
LEMMA StaysNested ==
  ASSUME Types, Aligned, Ordered, Pushed \/ Popped
  PROVE  Aligned' /\ Ordered'
<1>1. Depth \in Nat /\ Len(snaps) = Depth /\ id \in Nat
      /\ \A i \in 1..Depth : snaps[i].id \in Nat
  BY Counts
<1>2. CASE Pushed
  <2>1. Depth' = Depth + 1 /\ Len(snaps') = Depth' /\ id' = id + 1
        /\ snaps'[Depth'].id = id /\ Anchor(Depth)'.id = id
    BY <1>1, <1>2 DEF Pushed
  <2>2. ASSUME NEW i \in 1..Depth'
        PROVE  i \in 1..Depth \/ i = Depth'
    BY <1>1, <2>1
  <2>3. ASSUME NEW i \in 1..Depth
        PROVE  snaps'[i].id = snaps[i].id /\ Anchor(i)'.id = snaps[i].id /\ snaps[i].id < id
    BY <1>2 DEF Pushed, Aligned, Ordered
  <2>4. Aligned'
    BY <2>1, <2>2, <2>3 DEF Aligned
  <2>5. Ordered'
    <3> SUFFICES ASSUME NEW i \in 1..Depth', NEW j \in 1..Depth'
                 PROVE  snaps'[i].id < id' /\ (i < j => snaps'[i].id < snaps'[j].id)
      BY DEF Ordered
    <3>1. CASE i \in 1..Depth /\ j \in 1..Depth
      BY <1>1, <2>1, <2>3, <3>1 DEF Ordered
    <3>2. CASE i \in 1..Depth /\ j = Depth'
      BY <1>1, <2>1, <2>3, <3>2
    <3>3. CASE i = Depth'
      BY <1>1, <2>1, <3>3
    <3>4. QED
      BY <2>2, <3>1, <3>2, <3>3
  <2>6. QED
    BY <2>4, <2>5
<1>3. CASE Popped
  <2>1. Depth' = Depth - 1 /\ Len(snaps') = Depth' /\ id' = id
    BY <1>1, <1>3 DEF Popped
  <2>2. ASSUME NEW i \in 1..Depth'
        PROVE  i \in 1..Depth - 1 /\ i \in 1..Depth
    BY <1>1, <2>1
  <2>3. ASSUME NEW i \in 1..Depth - 1
        PROVE  snaps'[i] = snaps[i] /\ Anchor(i)' = Anchor(i)
    BY <1>3 DEF Popped
  <2>4. Aligned'
    BY <2>1, <2>2, <2>3 DEF Aligned
  <2>5. Ordered'
    BY <2>1, <2>2, <2>3 DEF Ordered
  <2>6. QED
    BY <2>4, <2>5
<1>4. QED
  BY <1>2, <1>3

\* Nothing has been set up at first.
LEMMA InitInvariant == Init => IInv
<1> SUFFICES ASSUME Init PROVE IInv
  OBVIOUS
<1>1. /\ \A S : <<>> \in Seq(S)
      /\ Len(stack) = 0 /\ Len(withs) = 0 /\ Len(snaps) = 0 /\ Depth = 0
  BY EmptySeq DEF Init, Depth
<1>2. Types
  <2>1. 1 \in 1..(MaxId + 1) /\ 0 \in 0..MaxId
    BY AnchorsAssumption
  <2>2. QED
    BY <1>1, <2>1 DEF Init, Types, NotSetUp
<1>3. Live = {}
  BY DEF Init, Live, NotSetUp
<1>4. Nested
  BY <1>1, <1>3 DEF Init, Nested, Aligned, Ordered, Owned
<1>5. WorkedOff
  BY DEF Init, WorkedOff, MoreWork
<1>6. Marked
  BY <1>1, <1>3 DEF Init, Marked, Kept, NoTrace, TestsLeaveNoTrace, Outermost
<1>7. QED
  BY <1>2, <1>4, <1>5, <1>6 DEF IInv

\* Setting a fixture up, inside all other anchors.
LEMMA SetUpInv ==
  ASSUME ~Dynamic, IInv, NEW f \in Fixture, SetUp(f)
  PROVE  IInv'
<1> USE DEF IInv, Nested, Marked
<1>1. /\ withs = <<>> /\ UNCHANGED <<tasks, withs, working, error>>
      /\ ~working /\ ~error /\ f \notin Live /\ f \notin Ignored
      /\ Enter /\ stack' = Append(stack, Context)
      /\ live' = [live EXCEPT ![f] = id]
      /\ state' = state \union {f} /\ patch' = patch \union {f}
  BY DEF SetUp, Idle, Leave
<1>2. /\ Pushed /\ snaps' \in Seq(Snapshot) /\ id' \in 1..(MaxId + 1)
      /\ stack' \in Seq(ContextType) /\ withs' \in Seq(ContextType)
  BY <1>1, EnterPushes
<1>3. id \in 1..MaxId /\ id # 0
  BY <1>2, AnchorsAssumption DEF Pushed, Types
<1>4. Types'
  BY <1>1, <1>2, <1>3 DEF Types, Mark
<1>5. Aligned' /\ Ordered'
  BY <1>2, StaysNested
<1>6. /\ Depth \in Nat /\ Len(stack) = Depth /\ Len(stack') = Depth' /\ Depth' = Depth + 1
      /\ \A i \in 1..Depth : Anchor(i) = stack[i] /\ snaps[i].id = stack[i].id
                             /\ stack[i].id < id /\ stack[i].id \in Nat
  <2>1. Len(withs) = 0 /\ Len(stack) = Depth /\ Depth \in Nat /\ id \in Nat
    BY <1>1, Counts
  <2>2. Len(stack') = Len(stack) + 1
    BY <1>1, <1>3, AppendProperties DEF Types, Context
  <2>3. \A i \in 1..Depth : Anchor(i) = stack[i] /\ snaps[i].id = Anchor(i).id
                            /\ snaps[i].id < id /\ snaps[i].id \in Nat
    BY <2>1, Counts DEF Ordered
  <2>4. QED
    BY <1>2, <2>1, <2>2, <2>3 DEF Pushed
<1>7. stack'[Depth'].id = id /\ \A i \in 1..Depth : stack'[i] = stack[i]
  <2>1. Context \in ContextType /\ stack \in Seq(ContextType)
    BY <1>3 DEF Types, Context, ContextType
  <2>2. QED
    BY <1>1, <1>6, <2>1, AppendProperties DEF Context
<1>8. \A i \in 1..Depth' : i \in 1..Depth \/ i = Depth'
  BY <1>6
<1>9. /\ \A g \in Fixture : live'[g] = IF g = f THEN id ELSE live[g]
      /\ Live' = Live \union {f}
  BY <1>1, <1>3 DEF Types, Live, NotSetUp
<1>10. \A g \in Live : live[g] # id
  BY <1>6 DEF Owned
<1>11. Owned'
  <2>1. tasks' \subseteq {stack'[k].id : k \in 1..Len(stack')}
    BY <1>1, <1>6, <1>7 DEF Owned
  <2>2. \A g \in Live' : live'[g] \in {stack'[k].id : k \in 1..Len(stack')} \ tasks'
    <3>1. id \notin tasks
      BY <1>6 DEF Owned
    <3>2. id \in {stack'[k].id : k \in 1..Len(stack')}
      BY <1>6, <1>7
    <3>3. \A g \in Live : live[g] \in {stack'[k].id : k \in 1..Len(stack')} \ tasks
      BY <1>6, <1>7 DEF Owned
    <3>4. QED
      BY <1>1, <1>9, <3>1, <3>2, <3>3 DEF Live
  <2>3. \A g, h \in Live' : live'[g] = live'[h] => g = h
    BY <1>9, <1>10 DEF Owned, Live
  <2>4. \A k \in 1..Len(stack') : stack'[k].id \in tasks' \/ \E g \in Live' : live'[g] = stack'[k].id
    <3>1. \A g \in Live : g \in Fixture /\ live'[g] = live[g]
      BY <1>1, <1>9 DEF Live
    <3>2. QED
      BY <1>1, <1>6, <1>7, <1>8, <1>9, <3>1 DEF Owned
  <2>5. QED
    BY <2>1, <2>2, <2>3, <2>4 DEF Owned
<1>12. WorkedOff'
  <2>1. stack' # <<>> /\ Last(stack').id = id
    BY <1>4, <1>5, <1>6, <1>7, EmptySeq DEF Last
  <2>2. id \notin tasks
    BY <1>6 DEF Owned
  <2>3. ~MoreWork'
    BY <1>1, <2>1, <2>2 DEF MoreWork
  <2>4. ~error' /\ withs' = <<>>
    BY <1>1
  <2>5. QED
    BY <2>3, <2>4 DEF WorkedOff
<1>13. /\ snaps'[Depth'].state = state /\ Anchor(Depth)'.patch = patch
       /\ \A i \in 1..Depth : snaps'[i] = snaps[i] /\ Anchor(i)' = Anchor(i)
       /\ state \subseteq state' /\ patch \subseteq patch' /\ f \in state' /\ f \in patch'
  BY <1>1, <1>2 DEF Pushed
<1>14. Kept'
  <2> SUFFICES ASSUME NEW g \in Live', NEW k \in 1..Len(stack'), stack'[k].id = live'[g]
               PROVE  /\ g \in state' /\ g \in patch'
                      /\ \A i \in 1..Depth' : k < i => g \in snaps'[i].state
                                                       /\ g \in Anchor(i)'.patch
    BY DEF Kept
  <2>1. CASE k = Depth'
    <3>1. g = f
      BY <2>1, <1>7, <1>9, <1>10 DEF Live
    <3>2. \A i \in 1..Depth' : ~(k < i)
      BY <2>1, <1>6
    <3>3. QED
      BY <1>13, <3>1, <3>2
  <2>2. CASE k \in 1..Depth
    <3>1. stack[k].id = live'[g] /\ live'[g] # id
      BY <2>2, <1>6, <1>7
    <3>2. g \in Live /\ live[g] = stack[k].id
      BY <1>9, <3>1 DEF Live
    <3>3. /\ g \in state /\ g \in patch
          /\ \A i \in 1..Depth : k < i => g \in snaps[i].state /\ g \in Anchor(i).patch
      BY <1>6, <2>2, <3>2 DEF Kept
    <3>4. QED
      BY <1>8, <1>13, <3>3
  <2>3. QED
    BY <1>6, <1>8, <2>1, <2>2
<1>15. NoTrace'
  <2>1. /\ Test \notin state /\ Test \notin patch
        /\ \A i \in 1..Depth : Test \notin snaps[i].state /\ Test \notin Anchor(i).patch
    BY <1>1, <1>6 DEF NoTrace, TestsLeaveNoTrace
  <2>2. Test \notin state' /\ Test \notin patch'
    BY <1>1, <2>1, AnchorsAssumption
  <2>3. \A i \in 1..Depth' : Test \notin snaps'[i].state /\ Test \notin Anchor(i)'.patch
    BY <1>8, <1>13, <2>1
  <2>4. QED
    BY <2>2, <2>3 DEF NoTrace, TestsLeaveNoTrace
<1>16. Outermost'
  <2>1. Depth' > 0 /\ ~(Depth' = 0)
    BY <1>6
  <2>2. CASE Depth = 0
    <3>1. Depth' = 1 /\ state \subseteq Ignored /\ patch \subseteq Ignored
      BY <2>2, <1>6 DEF Outermost
    <3>2. QED
      BY <1>13, <2>1, <3>1 DEF Outermost
  <2>3. CASE Depth > 0
    <3>1. 1 \in 1..Depth
      BY <2>3, <1>6
    <3>2. QED
      BY <1>13, <2>1, <2>3, <3>1 DEF Outermost
  <2>4. QED
    BY <1>6, <2>2, <2>3
<1>17. QED
  BY <1>4, <1>5, <1>11, <1>12, <1>14, <1>15, <1>16

\* What an anchor that is left puts back: the marks that were there when it was entered.
LEMMA LeavingKeeps ==
  ASSUME Types, Nested, Marked, Popped, Nested',
         Len(stack') \in 0..Len(stack), Len(stack') < Depth,
         \A k \in 1..Len(stack') : stack'[k] = stack[k],
         live' = live,
         withs' = <<>> => Depth <= Len(stack) + 1
  PROVE  Marked'
<1> USE DEF Nested, Marked
<1>1. /\ Depth \in Nat /\ Depth > 0 /\ Depth' = Depth - 1 /\ Len(stack) \in Nat
      /\ state' = snaps[Depth].state /\ patch' = Anchor(Depth).patch
      /\ \A i \in 1..Depth - 1 : snaps'[i] = snaps[i] /\ Anchor(i)' = Anchor(i)
  BY Counts DEF Popped
<1>2. Depth \in 1..Depth /\ \A i \in 1..Depth' : i \in 1..Depth /\ i \in 1..Depth - 1
  BY <1>1
<1>3. Kept'
  <2> SUFFICES ASSUME NEW g \in Live', NEW k \in 1..Len(stack'), stack'[k].id = live'[g]
               PROVE  /\ g \in state' /\ g \in patch'
                      /\ \A i \in 1..Depth' : k < i => g \in snaps'[i].state
                                                       /\ g \in Anchor(i)'.patch
    BY DEF Kept
  <2>1. g \in Live /\ k \in 1..Len(stack) /\ stack[k].id = live[g] /\ k < Depth
    BY <1>1 DEF Live
  <2>2. \A i \in 1..Depth : k < i => g \in snaps[i].state /\ g \in Anchor(i).patch
    BY <2>1 DEF Kept
  <2>3. QED
    BY <1>1, <1>2, <2>1, <2>2
<1>4. NoTrace'
  <2>1. withs' = <<>> => Test \notin state' /\ Test \notin patch'
    BY <1>1, <1>2 DEF NoTrace
  <2>2. ASSUME NEW i \in 1..Depth', i <= Len(stack') + 1
        PROVE  Test \notin snaps'[i].state /\ Test \notin Anchor(i)'.patch
    <3>1. i \in 1..Depth /\ i <= Len(stack) + 1
      BY <1>1, <1>2, <2>2
    <3>2. QED
      BY <1>1, <1>2, <3>1 DEF NoTrace
  <2>3. QED
    BY <2>1, <2>2 DEF NoTrace, TestsLeaveNoTrace
<1>5. Outermost'
  <2>1. CASE Depth = 1
    BY <1>1, <2>1 DEF Outermost
  <2>2. CASE Depth > 1
    <3>1. 1 \in 1..Depth - 1 /\ Depth' > 0 /\ ~(Depth' = 0)
      BY <1>1, <2>2
    <3>2. QED
      BY <1>1, <3>1 DEF Outermost
  <2>3. QED
    BY <1>1, <2>1, <2>2
<1>6. QED
  BY <1>3, <1>4, <1>5

\* Leaving the anchor of a finalised fixture, the innermost one.
LEMMA WorkInv ==
  ASSUME IInv, Work
  PROVE  IInv'
<1> USE DEF IInv
<1> DEFINE ctx == Last(stack)
<1>1. /\ working /\ ~error /\ withs = <<>> /\ stack # <<>> /\ ctx.id \in tasks
      /\ stack' = Front(stack) /\ tasks' = tasks \ {ctx.id} /\ Exit(ctx)
      /\ working' = ~error' /\ UNCHANGED <<id, live, withs>>
  BY DEF Work, MoreWork, WorkedOff
<1>2. /\ Depth \in Nat /\ Depth > 0 /\ Len(stack) = Depth /\ ctx \in ContextType
      /\ ctx = stack[Depth] /\ stack' \in Seq(ContextType) /\ Len(stack') = Depth - 1
      /\ \A i \in 1..Depth - 1 : stack'[i] = stack[i]
  <2>1. Len(withs) = 0 /\ Len(stack) = Depth /\ Depth \in Nat
    BY <1>1, Counts DEF Nested
  <2>2. stack \in Seq(ContextType)
    BY DEF Types
  <2>3. /\ Len(stack) \in Nat \ {0} /\ ctx = stack[Len(stack)] /\ ctx \in ContextType
        /\ Front(stack) \in Seq(ContextType) /\ Len(Front(stack)) = Len(stack) - 1
        /\ \A i \in 1..Len(stack) - 1 : Front(stack)[i] = stack[i]
    BY <1>1, <2>2, Ends
  <2>4. QED
    BY <1>1, <2>1, <2>3
<1>3. /\ Popped /\ snaps' \in Seq(Snapshot) /\ state' \in SUBSET Mark /\ patch' \in SUBSET Mark
  BY <1>1, <1>2, ExitPops DEF Nested
<1>4. ~error' /\ working' = TRUE
  BY <1>1, <1>3 DEF Popped
<1>5. Types'
  <2>1. working' \in BOOLEAN /\ error' \in BOOLEAN
    BY <1>3, <1>4 DEF Popped, Types
  <2>2. QED
    BY <1>1, <1>2, <1>3, <2>1 DEF Types
<1>6. Aligned' /\ Ordered'
  BY <1>3, StaysNested DEF Nested
<1>7. \A i \in 1..Depth - 1 : stack[i].id # ctx.id
  <2>1. \A i \in 1..Depth : snaps[i].id = stack[i].id /\ stack[i].id \in Nat
    BY <1>2, Counts DEF Nested
  <2>2. QED
    BY <1>2, <2>1 DEF Nested, Ordered
<1>8. Owned'
  <2>1. \A x \in {stack[k].id : k \in 1..Len(stack)} :
          x # ctx.id => x \in {stack'[k].id : k \in 1..Len(stack')}
    BY <1>2
  <2>2. tasks' \subseteq {stack'[k].id : k \in 1..Len(stack')}
    BY <1>1, <2>1 DEF Nested, Owned
  <2>3. Live' = Live /\ live' = live
    BY <1>1 DEF Live
  <2>4. \A f \in Live : live[f] \in {stack'[k].id : k \in 1..Len(stack')} \ tasks'
    BY <1>1, <2>1 DEF Nested, Owned
  <2>5. \A k \in 1..Len(stack') : stack'[k].id \in tasks' \/ \E f \in Live : live[f] = stack'[k].id
    <3> SUFFICES ASSUME NEW k \in 1..Len(stack')
                 PROVE  stack'[k].id \in tasks' \/ \E f \in Live : live[f] = stack'[k].id
      OBVIOUS
    <3>1. k \in 1..Depth - 1 /\ k \in 1..Len(stack)
      BY <1>2
    <3>2. stack'[k] = stack[k] /\ stack[k].id # ctx.id
      BY <1>2, <1>7, <3>1
    <3>3. QED
      BY <1>1, <3>1, <3>2 DEF Nested, Owned
  <2>6. QED
    BY <2>2, <2>3, <2>4, <2>5 DEF Nested, Owned
<1>9. WorkedOff'
  BY <1>1, <1>4 DEF WorkedOff
<1>10. Marked'
  BY <1>1, <1>2, <1>3, <1>6, <1>8, LeavingKeeps DEF Nested
<1>11. QED
  BY <1>5, <1>6, <1>8, <1>9, <1>10 DEF Nested

\* Leaving the innermost anchor of a test.
LEMMA ExitWithInv ==
  ASSUME IInv, ExitWith
  PROVE  IInv'
<1> USE DEF IInv
<1> DEFINE ctx == Last(withs)
<1>1. /\ ~working /\ ~error /\ withs # <<>> /\ withs' = Front(withs) /\ Exit(ctx)
      /\ UNCHANGED <<id, stack, tasks, live, working>>
  BY DEF ExitWith, Idle
<1>2. /\ Len(withs) \in Nat \ {0} /\ ctx \in ContextType
      /\ withs' \in Seq(ContextType) /\ Len(withs') = Len(withs) - 1
  BY <1>1, Ends DEF Types
<1>3. /\ Popped /\ snaps' \in Seq(Snapshot) /\ state' \in SUBSET Mark /\ patch' \in SUBSET Mark
  BY <1>1, <1>2, ExitPops DEF Nested
<1>4. Types'
  BY <1>1, <1>2, <1>3 DEF Types, Popped
<1>5. Aligned' /\ Ordered'
  BY <1>3, StaysNested DEF Nested
<1>6. Owned'
  BY <1>1 DEF Nested, Owned, Live
<1>7. WorkedOff'
  <2>1. ~error'
    BY <1>1, <1>3 DEF Popped
  <2>2. MoreWork' = MoreWork
    BY <1>1 DEF MoreWork
  <2>3. QED
    BY <1>1, <2>1, <2>2 DEF WorkedOff
<1>8. withs' = <<>> => Depth <= Len(stack) + 1
  <2>1. withs' = <<>> => Len(withs) = 1
    BY <1>2, EmptySeq
  <2>2. Depth = Len(stack) + Len(withs) /\ Len(stack) \in Nat /\ Depth \in Nat
    BY Counts DEF Nested
  <2>3. Len(withs) = 1 => Depth <= Len(stack) + 1
    BY <2>2
  <2>4. QED
    BY <2>1, <2>3
<1>9. Marked'
  <2>1. Len(stack') \in 0..Len(stack) /\ Len(stack') < Depth
    BY <1>1, <1>2, Counts DEF Nested
  <2>2. QED
    BY <1>1, <1>3, <1>5, <1>6, <1>8, <2>1, LeavingKeeps DEF Nested
<1>10. QED
  BY <1>4, <1>5, <1>6, <1>7, <1>9 DEF Nested

\* An anchor of a test, inside all others.
LEMMA EnterWithInv ==
  ASSUME IInv, EnterWith
  PROVE  IInv'
<1> USE DEF IInv
<1>1. /\ ~working /\ ~error /\ Enter /\ withs' = Append(withs, Context)
      /\ UNCHANGED <<state, patch, stack, tasks, live, working, error>>
  BY DEF EnterWith, Idle
<1>2. /\ Pushed /\ snaps' \in Seq(Snapshot) /\ id' \in 1..(MaxId + 1)
      /\ stack' \in Seq(ContextType) /\ withs' \in Seq(ContextType)
  BY <1>1, EnterPushes DEF Nested
<1>3. Types'
  BY <1>1, <1>2 DEF Types
<1>4. Aligned' /\ Ordered'
  BY <1>2, StaysNested DEF Nested
<1>5. Owned' /\ Live' = Live
  BY <1>1 DEF Nested, Owned, Live
<1>6. WorkedOff'
  <2>1. MoreWork' = MoreWork
    BY <1>1 DEF MoreWork
  <2>2. QED
    BY <1>1, <2>1 DEF WorkedOff
<1>7. /\ Depth \in Nat /\ Depth' = Depth + 1 /\ Len(stack) \in Nat /\ Len(withs) \in Nat
      /\ Depth = Len(stack) + Len(withs) /\ (Len(withs) = 0 <=> withs = <<>>)
      /\ snaps'[Depth'].state = state /\ Anchor(Depth)'.patch = patch
      /\ \A i \in 1..Depth : snaps'[i] = snaps[i] /\ Anchor(i)' = Anchor(i)
  BY <1>2, Counts DEF Nested, Pushed
<1>8. \A i \in 1..Depth' : i \in 1..Depth \/ i = Depth'
  BY <1>7
<1>9. Kept'
  <2> SUFFICES ASSUME NEW g \in Live, NEW k \in 1..Len(stack), stack[k].id = live[g]
               PROVE  /\ g \in state /\ g \in patch
                      /\ \A i \in 1..Depth' : k < i => g \in snaps'[i].state
                                                       /\ g \in Anchor(i)'.patch
    BY <1>1, <1>5 DEF Kept
  <2>1. /\ g \in state /\ g \in patch
        /\ \A i \in 1..Depth : k < i => g \in snaps[i].state /\ g \in Anchor(i).patch
    BY DEF Marked, Kept
  <2>2. QED
    BY <1>7, <1>8, <2>1
<1>10. NoTrace'
  <2>1. withs' # <<>>
    <3>1. Context \in ContextType
      BY <1>2, AnchorsAssumption DEF Pushed, Types, Context, ContextType
    <3>2. Len(withs') = Len(withs) + 1
      BY <1>1, <3>1, AppendProperties DEF Types
    <3>3. QED
      BY <1>7, <3>2, EmptySeq
  <2>2. ASSUME NEW i \in 1..Depth', i <= Len(stack) + 1
        PROVE  Test \notin snaps'[i].state /\ Test \notin Anchor(i)'.patch
    <3>1. CASE i \in 1..Depth
      BY <1>7, <2>2, <3>1 DEF Marked, NoTrace
    <3>2. CASE i = Depth'
      <4>1. withs = <<>>
        BY <1>7, <2>2, <3>2
      <4>2. QED
        BY <1>7, <3>2, <4>1 DEF Marked, NoTrace, TestsLeaveNoTrace
    <3>3. QED
      BY <1>8, <3>1, <3>2
  <2>3. QED
    BY <1>1, <2>1, <2>2 DEF NoTrace, TestsLeaveNoTrace
<1>11. Outermost'
  <2>1. Depth' > 0 /\ ~(Depth' = 0)
    BY <1>7
  <2>2. CASE Depth = 0
    BY <1>7, <2>1, <2>2 DEF Marked, Outermost
  <2>3. CASE Depth > 0
    <3>1. 1 \in 1..Depth
      BY <2>3, <1>7
    <3>2. QED
      BY <1>7, <2>1, <2>3, <3>1 DEF Marked, Outermost
  <2>4. QED
    BY <1>7, <2>2, <2>3
<1>12. QED
  BY <1>3, <1>4, <1>5, <1>6, <1>9, <1>10, <1>11 DEF Nested, Marked

\* What runs in the innermost anchor only adds marks: a test's under a test's anchor, an
\* ignored fixture's where no test runs.
LEMMA LeaveInv ==
  ASSUME ~Dynamic, IInv, RunTest \/ \E f \in Fixture : SetUpIgnored(f)
  PROVE  IInv'
<1> USE DEF IInv
<1>1. PICK mark \in Mark :
        /\ \/ mark = Test /\ withs # <<>>
           \/ mark \in Ignored /\ withs = <<>>
        /\ ~working
        /\ state' = state \union {mark} /\ patch' = patch \union {mark}
        /\ UNCHANGED <<snaps, id, stack, tasks, live, withs, working, error>>
  BY DEF RunTest, SetUpIgnored, Leave, Idle, Mark
<1>2. Types'
  BY <1>1 DEF Types
<1>3. Depth' = Depth /\ Live' = Live /\ \A i \in 1..Depth : Anchor(i)' = Anchor(i)
  BY <1>1 DEF Depth, Live, Anchor
<1>4. Nested'
  BY <1>1, <1>3 DEF Nested, Aligned, Ordered, Owned
<1>5. WorkedOff'
  <2>1. MoreWork' = MoreWork
    BY <1>1 DEF MoreWork
  <2>2. QED
    BY <1>1, <2>1 DEF WorkedOff
<1>6. Kept'
  BY <1>1, <1>3 DEF Marked, Kept
<1>7. NoTrace'
  <2>1. withs = <<>> => mark # Test
    BY <1>1, AnchorsAssumption
  <2>2. QED
    BY <1>1, <1>3, <2>1 DEF Marked, NoTrace, TestsLeaveNoTrace
<1>8. Outermost'
  <2>1. Depth = 0 => mark \in Ignored
    BY <1>1, Counts DEF Nested
  <2>2. QED
    <3>1. CASE Depth = 0
      BY <1>1, <1>3, <2>1, <3>1 DEF Marked, Outermost
    <3>2. CASE Depth # 0
      <4>1. Depth \in Nat /\ 1 \in 1..Depth
        BY <3>2, Counts DEF Nested
      <4>2. QED
        BY <1>1, <1>3, <3>2, <4>1 DEF Marked, Outermost
    <3>3. QED
      BY <3>1, <3>2
<1>9. QED
  BY <1>2, <1>4, <1>5, <1>6, <1>7, <1>8 DEF Marked

\* A finalizer only makes a task of the fixture's anchor.
LEMMA FinalizeInv ==
  ASSUME IInv, NEW f \in Fixture, Finalize(f)
  PROVE  IInv'
<1> USE DEF IInv
<1>1. /\ ~error /\ f \in Live /\ withs = <<>>
      /\ tasks' = tasks \union {live[f]} /\ live' = [live EXCEPT ![f] = NotSetUp]
      /\ working' = TRUE
      /\ UNCHANGED <<state, patch, snaps, id, stack, withs, error>>
  BY DEF Finalize, Idle
<1>2. /\ Live' = Live \ {f} /\ \A g \in Live' : g \in Live /\ live'[g] = live[g]
  BY <1>1 DEF Types, Live, NotSetUp
<1>3. Types'
  <2>1. working' \in BOOLEAN /\ error' \in BOOLEAN
    BY <1>1 DEF Types
  <2>2. live[f] \in 1..MaxId /\ 0 \in 0..MaxId
    BY <1>1, AnchorsAssumption DEF Types, Live, NotSetUp
  <2>3. tasks' \subseteq 1..MaxId /\ live' \in [Fixture -> 0..MaxId]
    BY <1>1, <2>2 DEF Types, NotSetUp
  <2>4. QED
    BY <1>1, <2>1, <2>3 DEF Types
<1>4. Depth' = Depth /\ \A i \in 1..Depth : Anchor(i)' = Anchor(i)
  BY <1>1 DEF Depth, Anchor
<1>5. Aligned' /\ Ordered'
  BY <1>1, <1>4 DEF Nested, Aligned, Ordered
<1>6. Owned'
  <2>1. tasks' \subseteq {stack[k].id : k \in 1..Len(stack)}
    BY <1>1 DEF Nested, Owned
  <2>2. \A g \in Live' : live'[g] \in {stack[k].id : k \in 1..Len(stack)} \ tasks'
    BY <1>1, <1>2 DEF Nested, Owned
  <2>3. \A g, h \in Live' : live'[g] = live'[h] => g = h
    BY <1>2 DEF Nested, Owned
  <2>4. \A k \in 1..Len(stack) : stack[k].id \in tasks' \/ \E g \in Live' : live'[g] = stack[k].id
    BY <1>1, <1>2 DEF Nested, Owned
  <2>5. QED
    BY <1>1, <2>1, <2>2, <2>3, <2>4 DEF Owned
<1>7. WorkedOff'
  BY <1>1 DEF WorkedOff
<1>8. Marked'
  <2>1. Kept'
    <3> SUFFICES ASSUME NEW g \in Live', NEW k \in 1..Len(stack), stack[k].id = live'[g]
                 PROVE  /\ g \in state /\ g \in patch
                        /\ \A i \in 1..Depth : k < i => g \in snaps[i].state /\ g \in Anchor(i).patch
      BY <1>1, <1>4 DEF Kept
    <3>1. g \in Live /\ stack[k].id = live[g]
      BY <1>2
    <3>2. QED
      BY <3>1 DEF Marked, Kept
  <2>2. NoTrace'
    BY <1>1, <1>4 DEF Marked, NoTrace, TestsLeaveNoTrace
  <2>3. Outermost'
    <3>1. CASE Depth = 0
      BY <1>1, <1>4, <3>1 DEF Marked, Outermost
    <3>2. CASE Depth # 0
      <4>1. Depth \in Nat /\ 1 \in 1..Depth
        BY <3>2, Counts DEF Nested
      <4>2. QED
        BY <1>1, <1>4, <3>2, <4>1 DEF Marked, Outermost
    <3>3. QED
      BY <3>1, <3>2
  <2>4. QED
    BY <2>1, <2>2, <2>3 DEF Marked
<1>9. QED
  BY <1>3, <1>5, <1>6, <1>7, <1>8 DEF Nested

\* Every step keeps the invariant, as long as tests set up no fixtures.
LEMMA NextInvariant == ~Dynamic /\ IInv /\ [Next]_vars => IInv'
<1> SUFFICES ASSUME ~Dynamic, IInv, [Next]_vars PROVE IInv'
  OBVIOUS
<1>1. CASE WorkDone
  <2>1. /\ ~MoreWork /\ working' = FALSE
        /\ UNCHANGED <<state, patch, snaps, id, stack, tasks, live, withs, error>>
    BY <1>1 DEF WorkDone
  <2>2. Types'
    <3>1. working' \in BOOLEAN /\ error' \in BOOLEAN
      BY <2>1 DEF IInv, Types
    <3>2. QED
      BY <2>1, <3>1 DEF IInv, Types
  <2>3. WorkedOff'
    BY <2>1 DEF IInv, WorkedOff, MoreWork
  <2>4. Nested' /\ Marked'
    BY <2>1 DEF IInv, Nested, Marked, Aligned, Ordered, Owned, Kept, NoTrace, Outermost,
       TestsLeaveNoTrace, Depth, Anchor, Live
  <2>5. QED
    BY <2>2, <2>3, <2>4 DEF IInv
<1>2. CASE UNCHANGED vars
  BY <1>2 DEF vars, IInv, Types, Nested, WorkedOff, MoreWork, Marked, Aligned, Ordered, Owned,
     Kept, NoTrace, Outermost, TestsLeaveNoTrace, Depth, Anchor, Live
<1>3. QED
  BY <1>1, <1>2, SetUpInv, WorkInv, ExitWithInv, EnterWithInv, LeaveInv, FinalizeInv DEF Next

(***************************************************************************)
(* What follows                                                            *)
(***************************************************************************)

\* What the invariant says of fixtures and tests.
LEMMA InvariantMeans ==
  ASSUME IInv
  PROVE  AnchorTypes /\ NoCheckpointLost /\ LiveFixturesKept /\ TestsLeaveNoTrace /\ EverythingUnwinds
<1> USE DEF IInv, Nested, Marked
<1>1. AnchorTypes
  <2>1. live \in [Fixture -> {NotSetUp} \union {stack[k].id : k \in 1..Len(stack)}]
    BY DEF Types, Owned, Live
  <2>2. QED
    BY <2>1 DEF Types, AnchorTypes, Owned, Snapshot
<1>2. NoCheckpointLost /\ TestsLeaveNoTrace
  BY DEF WorkedOff, NoCheckpointLost, NoTrace
<1>3. LiveFixturesKept
  BY DEF LiveFixturesKept, Owned, Kept
<1>4. EverythingUnwinds
  <2> SUFFICES ASSUME ~working, Live = {}, withs = <<>>
               PROVE  /\ stack = <<>> /\ snaps = <<>> /\ tasks = {}
                      /\ state \subseteq Ignored /\ patch \subseteq Ignored
    BY DEF EverythingUnwinds, Idle
  <2>1. ASSUME stack # <<>>
        PROVE  FALSE
    <3>1. Len(stack) \in Nat \ {0} /\ Last(stack) = stack[Len(stack)]
      BY <2>1, Ends DEF Types
    <3>2. Last(stack).id \in tasks
      BY <3>1 DEF Owned
    <3>3. QED
      BY <2>1, <3>2 DEF WorkedOff, MoreWork
  <2>2. Len(stack) = 0 /\ Depth = 0 /\ snaps = <<>>
    BY <2>1, Counts
  <2>3. tasks = {}
    BY <2>2 DEF Owned
  <2>4. QED
    BY <2>1, <2>2, <2>3 DEF Outermost
<1>5. QED
  BY <1>1, <1>2, <1>3, <1>4

\* Every reachable state satisfies the invariant.
LEMMA Invariant == ASSUME ~Dynamic PROVE Spec => []IInv
<1>1. IInv /\ [Next]_vars => IInv'
  BY NextInvariant
<1>2. QED
  BY InitInvariant, <1>1, PTL DEF Spec

\* The bookkeeping of anchors, tasks and fixtures is well-typed.
THEOREM TypeCorrect == ASSUME ~Dynamic PROVE Spec => []AnchorTypes
  BY Invariant, InvariantMeans, PTL

\* In whatever order pytest finalises fixtures, no anchor is left after its checkpoint is
\* gone: anchors that are not innermost are deferred for long enough.
THEOREM NoCheckpointIsLost == ASSUME ~Dynamic PROVE Spec => []NoCheckpointLost
  BY Invariant, InvariantMeans, PTL

\* A fixture that is set up keeps its effects, whatever is finalised around it.
THEOREM FixturesAreKept == ASSUME ~Dynamic PROVE Spec => []LiveFixturesKept
  BY Invariant, InvariantMeans, PTL

\* A test that is over has left nothing behind.
THEOREM TestsAreUndone == ASSUME ~Dynamic PROVE Spec => []TestsLeaveNoTrace
  BY Invariant, InvariantMeans, PTL

\* Deferred anchors are not forgotten: with the last fixture, all anchors are left.
THEOREM AllUnwinds == ASSUME ~Dynamic PROVE Spec => []EverythingUnwinds
  BY Invariant, InvariantMeans, PTL
=============================================================================

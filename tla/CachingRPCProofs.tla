-------------------------- MODULE CachingRPCProofs --------------------------
(***************************************************************************)
(* Proofs about CachingRPC, for any number of processes, chains and        *)
(* queries, any time to live and any bound on retries.                     *)
(***************************************************************************)
EXTENDS CachingRPC, SequenceTheorems, TLAPS

(***************************************************************************)
(* The inductive invariant                                                 *)
(***************************************************************************)

Answers == [Query -> Val \union {None}]
Call == [chain: ChainId \union {None}, multi: BOOLEAN, left: Seq(Query), miss: Seq(Query),
         got: Answers]

\* The file that a process that holds a lock works on.
FileOf(p) == IF pc[p] = "sweep" THEN call[p].chain ELSE conn[p]

Types ==
  /\ now \in 0..MaxNow
  /\ db \in [ChainId -> [Query -> Row \union {None}]]
  /\ lock \in [ChainId -> Proc \union {None}]
  /\ conn \in [Proc -> ChainId \union {None}]
  /\ loaded \in [Proc -> SUBSET ChainId]
  /\ mem \in [Proc -> [ChainId -> Answers]]
  /\ queue \in [Proc -> [Query -> 0..(MaxNow + Ttl) \union {None}]]
  /\ retry \in [Proc -> 0..MaxRetry]
  /\ pc \in [Proc -> Where]
  /\ call \in [Proc -> Call]

\* Where a process is tells what its call knows: its chain, the file it opened, the
\* query it works on, and that the misses were answered before they are stored.
Working(p) ==
  /\ loaded[p] # {} => conn[p] # None
  /\ pc[p] = "idle" => call[p].chain = None
  /\ pc[p] \in {"open", "sweep"} => call[p].chain \in ChainId
  /\ pc[p] \in Where \ {"idle", "open", "sweep"} => call[p].chain \in ChainId /\ conn[p] # None
  /\ pc[p] \in {"check", "flush", "flushing"} => call[p].left # <<>>
  /\ pc[p] \in {"flush", "flushing"} => call[p].got[Head(call[p].left)] # None
  /\ pc[p] = "storing" => call[p].miss # <<>>
  /\ pc[p] \in {"store", "storing"} =>
       \A i \in 1..Len(call[p].miss) : call[p].got[call[p].miss[i]] # None

\* A lock is held by the process that works on the file, and by nobody else.
LocksAreHeld ==
  \A p \in Proc, f \in ChainId :
    lock[f] = p <=> pc[p] \in {"sweep", "flushing", "storing"} /\ f = FileOf(p)

IInv == Types /\ (\A p \in Proc : Working(p)) /\ LocksAreHeld

\* The nodes' answers are values, and no value is None.
LEMMA Values == /\ \A c \in ChainId, q \in Query : Answer[c][q] \in Val
                /\ None \notin Val /\ None \notin Row /\ None \notin Proc /\ None \notin ChainId
  BY CacheAssumption

(***************************************************************************)
(* What the updates of a call do                                           *)
(***************************************************************************)

\* A process that runs no call.
LEMMA NoCall == /\ Idle \in Call /\ Idle.chain = None /\ Idle.got = NoAnswers
                /\ NoAnswers \in Answers
<1>1. \A S : <<>> \in Seq(S)
  BY EmptySeq
<1>2. QED
  BY <1>1 DEF NoAnswers, Answers, Idle, Call

\* The calls of a fetch, of a multi-fetch, and of a construction.
Asking(c, qs) == [Idle EXCEPT !.chain = c, !.left = qs]
AskingMany(c, m, qs) == [Idle EXCEPT !.chain = c, !.multi = m, !.left = qs]
Opening(c) == [Idle EXCEPT !.chain = c]

\* A new call, without answers, is a call.
LEMMA NewCalls ==
  \A c \in ChainId :
    /\ Opening(c) \in Call /\ Opening(c).chain = c /\ Opening(c).got = NoAnswers
    /\ \A qs \in Seq(Query) :
         /\ Asking(c, qs) \in Call /\ Asking(c, qs).chain = c
         /\ Asking(c, qs).left = qs /\ Asking(c, qs).got = NoAnswers
         /\ \A m \in BOOLEAN :
              /\ AskingMany(c, m, qs) \in Call /\ AskingMany(c, m, qs).chain = c
              /\ AskingMany(c, m, qs).left = qs /\ AskingMany(c, m, qs).got = NoAnswers
<1> TAKE c \in ChainId
<1>1. <<>> \in Seq(Query)
  BY EmptySeq
<1>2. Opening(c) \in Call /\ Opening(c).chain = c /\ Opening(c).got = NoAnswers
  BY <1>1 DEF NoAnswers, Answers, Idle, Call, Opening
<1>3. ASSUME NEW qs \in Seq(Query)
      PROVE  /\ Asking(c, qs) \in Call /\ Asking(c, qs).chain = c
             /\ Asking(c, qs).left = qs /\ Asking(c, qs).got = NoAnswers
  BY <1>1 DEF NoAnswers, Answers, Idle, Call, Asking
<1>4. ASSUME NEW qs \in Seq(Query), NEW m \in BOOLEAN
      PROVE  /\ AskingMany(c, m, qs) \in Call /\ AskingMany(c, m, qs).chain = c
             /\ AskingMany(c, m, qs).left = qs /\ AskingMany(c, m, qs).got = NoAnswers
  BY <1>1 DEF NoAnswers, Answers, Idle, Call, AskingMany
<1> QED
  BY <1>2, <1>3, <1>4

\* The update of one field of a call, spelt out.
LEMMA SetLeft ==
  \A s \in Call, x \in Seq(Query) : [s EXCEPT !.left = x] =
    [chain |-> s.chain, multi |-> s.multi, left |-> x, miss |-> s.miss, got |-> s.got]
  BY DEF Call

\* The same for the misses.
LEMMA SetMiss ==
  \A s \in Call, x \in Seq(Query) : [s EXCEPT !.miss = x] =
    [chain |-> s.chain, multi |-> s.multi, left |-> s.left, miss |-> x, got |-> s.got]
  BY DEF Call

\* The same for the answers.
LEMMA SetGot ==
  \A s \in Call, x \in Answers : [s EXCEPT !.got = x] =
    [chain |-> s.chain, multi |-> s.multi, left |-> s.left, miss |-> s.miss, got |-> x]
  BY DEF Call

\* The updates that calls make, spelt out.
LEMMA Updated ==
  ASSUME NEW r \in Call, NEW l \in Seq(Query), NEW m \in Seq(Query), NEW g \in Answers
  PROVE  /\ [r EXCEPT !.left = l, !.got = g] =
              [chain |-> r.chain, multi |-> r.multi, left |-> l, miss |-> r.miss, got |-> g]
         /\ [r EXCEPT !.left = l, !.miss = m] =
              [chain |-> r.chain, multi |-> r.multi, left |-> l, miss |-> m, got |-> r.got]
<1> DEFINE s == [r EXCEPT !.left = l]
<1>1. s = [chain |-> r.chain, multi |-> r.multi, left |-> l, miss |-> r.miss, got |-> r.got]
  BY SetLeft
<1>2. s \in Call
  BY <1>1 DEF Call
<1> HIDE DEF s
<1>3. /\ [s EXCEPT !.got = g] =
           [chain |-> r.chain, multi |-> r.multi, left |-> l, miss |-> r.miss, got |-> g]
      /\ [s EXCEPT !.miss = m] =
           [chain |-> r.chain, multi |-> r.multi, left |-> l, miss |-> m, got |-> r.got]
  BY <1>1, <1>2, SetGot, SetMiss
<1>4. QED
  BY <1>3 DEF s

\* The call of p has new queries to look up, misses and answers.
Becomes(p, l, m, g) ==
  call' = [call EXCEPT ![p] = [chain |-> call[p].chain, multi |-> call[p].multi,
                               left |-> l, miss |-> m, got |-> g]]

\* What that means for p, and for the others nothing.
LEMMA AfterCall ==
  ASSUME call \in [Proc -> Call], NEW p \in Proc,
         NEW l \in Seq(Query), NEW m \in Seq(Query), NEW g \in Answers, Becomes(p, l, m, g)
  PROVE  /\ call' \in [Proc -> Call]
         /\ call'[p].chain = call[p].chain /\ call'[p].multi = call[p].multi
         /\ call'[p].left = l /\ call'[p].miss = m /\ call'[p].got = g
         /\ \A o \in Proc \ {p} : call'[o] = call[o]
<1> DEFINE c == [chain |-> call[p].chain, multi |-> call[p].multi,
                 left |-> l, miss |-> m, got |-> g]
<1>1. c \in Call
  BY DEF Call
<1>2. call' = [call EXCEPT ![p] = c]
  BY DEF Becomes
<1>3. QED
  BY <1>1, <1>2

\* A call that stays as it is.
LEMMA SameCall ==
  ASSUME call \in [Proc -> Call], NEW p \in Proc, UNCHANGED call
  PROVE  Becomes(p, call[p].left, call[p].miss, call[p].got)
<1> DEFINE r == call[p]
<1>1. r = [chain |-> r.chain, multi |-> r.multi, left |-> r.left, miss |-> r.miss,
           got |-> r.got]
  BY DEF Call
<1>2. call' = [call EXCEPT ![p] = r]
  OBVIOUS
<1> HIDE DEF r
<1>3. QED
  BY <1>1, <1>2 DEF Becomes, r

\* A hit moves on to the next query and adds an answer, which is there already while a
\* flush is due; a miss moves on and is remembered.
LEMMA CallSteps ==
  ASSUME call \in [Proc -> Call], NEW p \in Proc, NEW q \in Query, NEW v \in Val \union {None},
         NEW g \in Answers
  PROVE  /\ call[p].left # <<>> /\ Hit(p, q, v) =>
              Becomes(p, Tail(call[p].left), call[p].miss, [call[p].got EXCEPT ![q] = v])
         /\ call' = [call EXCEPT ![p].got[q] = v] =>
              Becomes(p, call[p].left, call[p].miss, [call[p].got EXCEPT ![q] = v])
         /\ call[p].left # <<>>
            /\ call' = [call EXCEPT ![p].left = Tail(@), ![p].miss = Append(@, q)] =>
              Becomes(p, Tail(call[p].left), Append(call[p].miss, q), call[p].got)
         /\ call' = [call EXCEPT ![p].left = <<>>, ![p].miss = <<q>>] =>
              Becomes(p, <<>>, <<q>>, call[p].got)
         /\ call[p].miss # <<>> /\ call' = [call EXCEPT ![p].miss = Tail(@)] =>
              Becomes(p, call[p].left, Tail(call[p].miss), call[p].got)
         /\ call' = [call EXCEPT ![p].got = g] =>
              Becomes(p, call[p].left, call[p].miss, g)
<1> DEFINE r == call[p]
           h == [r.got EXCEPT ![q] = v]
<1>1. /\ r \in Call /\ r.left \in Seq(Query) /\ r.miss \in Seq(Query) /\ r.got \in Answers
      /\ h \in Answers
  BY DEF Call, Answers
<1>2. /\ r.left # <<>> => Tail(r.left) \in Seq(Query)
      /\ r.miss # <<>> => Tail(r.miss) \in Seq(Query)
      /\ Append(r.miss, q) \in Seq(Query) /\ <<>> \in Seq(Query) /\ <<q>> \in Seq(Query)
  BY <1>1, HeadTailProperties, AppendProperties, EmptySeq
<1>3. ASSUME r.left # <<>>, Hit(p, q, v)
      PROVE  Becomes(p, Tail(r.left), r.miss, h)
  <2>1. call' = [call EXCEPT ![p] = [r EXCEPT !.left = Tail(r.left), !.got = h]]
    BY <1>3 DEF Hit
  <2> HIDE DEF h, r
  <2>2. [r EXCEPT !.left = Tail(r.left), !.got = h] =
          [chain |-> r.chain, multi |-> r.multi, left |-> Tail(r.left), miss |-> r.miss, got |-> h]
    BY <1>1, <1>2, <1>3, Updated
  <2>3. QED
    BY <2>1, <2>2 DEF Becomes, r
<1>4. ASSUME call' = [call EXCEPT ![p].got[q] = v]
      PROVE  Becomes(p, r.left, r.miss, h)
  <2>1. call' = [call EXCEPT ![p] = [r EXCEPT !.got = h]]
    BY <1>4
  <2> HIDE DEF h, r
  <2>2. [r EXCEPT !.got = h] =
          [chain |-> r.chain, multi |-> r.multi, left |-> r.left, miss |-> r.miss, got |-> h]
    BY <1>1, SetGot
  <2>3. QED
    BY <2>1, <2>2 DEF Becomes, r
<1>5. ASSUME r.left # <<>>, call' = [call EXCEPT ![p].left = Tail(@), ![p].miss = Append(@, q)]
      PROVE  Becomes(p, Tail(r.left), Append(r.miss, q), r.got)
  <2>1. call' = [call EXCEPT ![p] = [r EXCEPT !.left = Tail(r.left), !.miss = Append(r.miss, q)]]
    BY <1>5
  <2> HIDE DEF r
  <2>2. [r EXCEPT !.left = Tail(r.left), !.miss = Append(r.miss, q)] =
          [chain |-> r.chain, multi |-> r.multi, left |-> Tail(r.left),
           miss |-> Append(r.miss, q), got |-> r.got]
    BY <1>1, <1>2, <1>5, Updated
  <2>3. QED
    BY <2>1, <2>2 DEF Becomes, r
<1>6. ASSUME call' = [call EXCEPT ![p].left = <<>>, ![p].miss = <<q>>]
      PROVE  Becomes(p, <<>>, <<q>>, r.got)
  <2>1. call' = [call EXCEPT ![p] = [r EXCEPT !.left = <<>>, !.miss = <<q>>]]
    BY <1>6
  <2> HIDE DEF r
  <2>2. [r EXCEPT !.left = <<>>, !.miss = <<q>>] =
          [chain |-> r.chain, multi |-> r.multi, left |-> <<>>, miss |-> <<q>>, got |-> r.got]
    BY <1>1, <1>2, Updated
  <2>3. QED
    BY <2>1, <2>2 DEF Becomes, r
<1>7. ASSUME r.miss # <<>>, call' = [call EXCEPT ![p].miss = Tail(@)]
      PROVE  Becomes(p, r.left, Tail(r.miss), r.got)
  <2>1. call' = [call EXCEPT ![p] = [r EXCEPT !.miss = Tail(r.miss)]]
    BY <1>7
  <2> HIDE DEF r
  <2>2. [r EXCEPT !.miss = Tail(r.miss)] =
          [chain |-> r.chain, multi |-> r.multi, left |-> r.left, miss |-> Tail(r.miss),
           got |-> r.got]
    BY <1>1, <1>2, <1>7, SetMiss
  <2>3. QED
    BY <2>1, <2>2 DEF Becomes, r
<1>8. ASSUME call' = [call EXCEPT ![p].got = g]
      PROVE  Becomes(p, r.left, r.miss, g)
  <2>1. call' = [call EXCEPT ![p] = [r EXCEPT !.got = g]]
    BY <1>8
  <2> HIDE DEF r
  <2>2. [r EXCEPT !.got = g] =
          [chain |-> r.chain, multi |-> r.multi, left |-> r.left, miss |-> r.miss, got |-> g]
    BY <1>1, SetGot
  <2>3. QED
    BY <2>1, <2>2 DEF Becomes, r
<1>9. QED
  BY <1>3, <1>4, <1>5, <1>6, <1>7, <1>8

(***************************************************************************)
(* What a step of one process leaves alone, and the locks                  *)
(***************************************************************************)

Holders == {"sweep", "flushing", "storing"}

\* Nothing about the processes other than p has changed.
OthersRest(p) ==
  \A o \in Proc \ {p} : /\ pc'[o] = pc[o] /\ call'[o] = call[o]
                        /\ conn'[o] = conn[o] /\ loaded'[o] = loaded[o]

\* What the others know then still holds.
LEMMA OthersWork ==
  ASSUME NEW p \in Proc, OthersRest(p), \A o \in Proc : Working(o), Working(p)'
  PROVE  \A o \in Proc : Working(o)'
  BY DEF OthersRest, Working

\* BEGIN IMMEDIATE gives p the lock of the file it goes on to work on.
LEMMA TakeLock ==
  ASSUME Types, LocksAreHeld, NEW p \in Proc, NEW f \in ChainId, OthersRest(p),
         lock[f] = None, lock' = [lock EXCEPT ![f] = p],
         pc[p] \notin Holders, pc'[p] \in Holders, FileOf(p)' = f
  PROVE  LocksAreHeld'
<1> SUFFICES ASSUME NEW o \in Proc, NEW g \in ChainId
             PROVE  lock'[g] = o <=> pc'[o] \in Holders /\ g = FileOf(o)'
  BY DEF LocksAreHeld, Holders
<1>1. lock[g] = p <=> FALSE
  BY DEF LocksAreHeld, Holders
<1>2. lock'[g] = IF g = f THEN p ELSE lock[g]
  BY DEF Types
<1>3. CASE o = p
  BY <1>1, <1>2, <1>3
<1>4. CASE o # p
  <2>1. pc'[o] = pc[o] /\ FileOf(o)' = FileOf(o)
    BY <1>4 DEF OthersRest, FileOf
  <2>2. lock[g] = o <=> pc[o] \in Holders /\ g = FileOf(o)
    BY DEF LocksAreHeld, Holders
  <2>3. f = g => lock[g] # o
    BY Values
  <2>4. QED
    BY <1>2, <1>4, <2>1, <2>2, <2>3
<1>5. QED
  BY <1>3, <1>4

\* COMMIT or ROLLBACK frees the one lock that p holds.
LEMMA FreeLock ==
  ASSUME Types, LocksAreHeld, NEW p \in Proc, OthersRest(p),
         pc[p] \in Holders, lock' = [lock EXCEPT ![FileOf(p)] = None], pc'[p] \notin Holders
  PROVE  LocksAreHeld'
<1> SUFFICES ASSUME NEW o \in Proc, NEW g \in ChainId
             PROVE  lock'[g] = o <=> pc'[o] \in Holders /\ g = FileOf(o)'
  BY DEF LocksAreHeld, Holders
<1>1. lock[g] = p <=> g = FileOf(p)
  BY DEF LocksAreHeld, Holders
<1>2. lock'[g] = IF g = FileOf(p) THEN None ELSE lock[g]
  BY DEF Types
<1>3. CASE o = p
  BY <1>1, <1>2, <1>3, Values
<1>4. CASE o # p
  <2>1. pc'[o] = pc[o] /\ FileOf(o)' = FileOf(o)
    BY <1>4 DEF OthersRest, FileOf
  <2>2. lock[g] = o <=> pc[o] \in Holders /\ g = FileOf(o)
    BY DEF LocksAreHeld, Holders
  <2>3. g = FileOf(p) => lock[g] # o
    BY <1>1, <1>4
  <2>4. QED
    BY <1>2, <2>1, <2>2, <2>3, Values
<1>5. QED
  BY <1>3, <1>4

\* A step without either leaves the locks as they are.
LEMMA KeepLock ==
  ASSUME LocksAreHeld, NEW p \in Proc, OthersRest(p), UNCHANGED lock,
         pc[p] \notin Holders, pc'[p] \notin Holders
  PROVE  LocksAreHeld'
  BY DEF LocksAreHeld, OthersRest, Holders, FileOf

\* Rows with new expiry dates are rows.
LEMMA FlushedRows ==
  ASSUME NEW rows \in [Query -> Row \union {None}],
         NEW updates \in [Query -> 0..(MaxNow + Ttl) \union {None}]
  PROVE  /\ Flushed(rows, updates) \in [Query -> Row \union {None}]
         /\ \A q \in Query : /\ rows[q] = None <=> Flushed(rows, updates)[q] = None
                             /\ rows[q] # None => Flushed(rows, updates)[q].val = rows[q].val
<1>1. ASSUME NEW q \in Query, rows[q] # None, updates[q] # None
      PROVE  /\ [rows[q] EXCEPT !.exp = updates[q]] \in Row
             /\ [rows[q] EXCEPT !.exp = updates[q]].val = rows[q].val
  BY <1>1 DEF Row
<1>2. None \notin Row
  BY CacheAssumption
<1>3. QED
  BY <1>1, <1>2 DEF Flushed

(***************************************************************************)
(* The invariant is inductive                                              *)
(***************************************************************************)

\* Nothing is stored, locked or called at first.
LEMMA InitInvariant == Init => IInv
<1> SUFFICES ASSUME Init PROVE IInv
  OBVIOUS
<1>1. /\ Idle \in Call /\ Idle.chain = None /\ NoAnswers \in Answers
      /\ NoAnswers \in [Query -> 0..(MaxNow + Ttl) \union {None}]
  BY NoCall DEF NoAnswers
<1>2. Types
  BY <1>1, CacheAssumption DEF Init, Types, Fresh, Where
<1>3. \A p \in Proc : Working(p)
  BY <1>1 DEF Init, Working, Where
<1>4. LocksAreHeld
  BY Values DEF Init, LocksAreHeld
<1>5. QED
  BY <1>2, <1>3, <1>4 DEF IInv

\* A construction enters "open", or gives a loaded object an empty memory layer.
LEMMA ConstructInv ==
  ASSUME IInv, NEW p \in Proc, NEW c \in ChainId, Construct(p, c)
  PROVE  IInv'
<1> USE DEF IInv
<1>1. /\ OthersRest(p) /\ UNCHANGED <<now, db, lock, conn, queue, retry>>
      /\ pc[p] = "idle" /\ c \in Uses[p]
  BY DEF Construct, OthersRest, Goto, Types
<1>2. CASE /\ MustOpen(p, c) /\ Goto(p, "open")
           /\ call' = [call EXCEPT ![p] = [Idle EXCEPT !.chain = c]]
           /\ UNCHANGED <<loaded, mem>>
  <2>1. PICK d \in Call : d.chain = c /\ call' = [call EXCEPT ![p] = d]
    <3>1. call' = [call EXCEPT ![p] = Opening(c)]
      BY <1>2 DEF Opening
    <3>2. Opening(c) \in Call /\ Opening(c).chain = c
      BY NewCalls
    <3> QED
      BY <3>1, <3>2
  <2>2. Types'
    <3>1. pc' \in [Proc -> Where]
      BY <1>2 DEF Types, Goto, Where
    <3>2. call' \in [Proc -> Call]
      BY <2>1 DEF Types
    <3> QED
      BY <1>1, <1>2, <3>1, <3>2 DEF Types
  <2>3. Working(p)'
    BY <1>1, <1>2, <2>1 DEF Working, Types, Goto, MustOpen
  <2>4. LocksAreHeld'
    BY <1>1, <1>2, KeepLock DEF Goto, Types, Holders
  <2>5. QED
    BY <1>1, <2>2, <2>3, <2>4, OthersWork
<1>3. CASE /\ ~MustOpen(p, c)
           /\ loaded' = [loaded EXCEPT ![p] = @ \union {c}]
           /\ mem' = [mem EXCEPT ![p][c] = NoAnswers]
           /\ UNCHANGED <<pc, call>>
  <2>1. Types'
    BY <1>1, <1>3, NoCall DEF Types
  <2>2. Working(p)'
    BY <1>1, <1>3 DEF Working, Types, MustOpen
  <2>3. LocksAreHeld'
    BY <1>1, <1>3, KeepLock DEF Holders
  <2>4. QED
    BY <1>1, <2>1, <2>2, <2>3, OthersWork
<1>4. QED
  BY <1>2, <1>3 DEF Construct

\* BEGIN IMMEDIATE, from "open", "flush" or "store", or a failure of it.
LEMMA LockInv ==
  ASSUME IInv, NEW p \in Proc, NEW f \in ChainId, NEW next \in Holders,
         pc[p] \notin Holders, pc[p] # "idle",
         \/ Locked(p, f, next) /\ UNCHANGED call
         \/ Blocked(p, f),
         UNCHANGED <<now, db, conn, loaded, queue>>,
         mem' \in [Proc -> [ChainId -> Answers]],
         next = "sweep" => f = call[p].chain,
         next # "sweep" => f = conn[p],
         Locked(p, f, next) /\ UNCHANGED call => Working(p)'
  PROVE  IInv'
<1> USE DEF IInv
<1>1. CASE Locked(p, f, next) /\ UNCHANGED call
  <2>1. OthersRest(p) /\ pc' = [pc EXCEPT ![p] = next] /\ pc'[p] = next
    BY <1>1 DEF Locked, Goto, OthersRest, Types
  <2>2. Types'
    BY <1>1, CacheAssumption DEF Types, Locked, Goto, Where, Holders
  <2>3. FileOf(p)' = f
    BY <1>1, <2>1 DEF FileOf
  <2>4. LocksAreHeld'
    BY <1>1, <2>1, <2>3, TakeLock DEF Locked, Holders
  <2>5. QED
    BY <1>1, <2>1, <2>2, <2>4, OthersWork
<1>2. CASE Blocked(p, f) /\ retry[p] < MaxRetry
  <2>1. UNCHANGED <<pc, call, lock>> /\ OthersRest(p)
    BY <1>2 DEF Blocked, OthersRest
  <2>2. retry' \in [Proc -> 0..MaxRetry]
    BY <1>2, CacheAssumption DEF Blocked, Types
  <2>3. Types'
    BY <2>1, <2>2 DEF Types
  <2>4. Working(p)' /\ LocksAreHeld'
    BY <2>1, KeepLock DEF Working
  <2>5. QED
    BY <2>1, <2>3, <2>4, OthersWork
<1>3. CASE Blocked(p, f) /\ ~(retry[p] < MaxRetry)
  <2>1. /\ retry' = [retry EXCEPT ![p] = 0] /\ UNCHANGED lock
        /\ call' = [call EXCEPT ![p] = Idle] /\ pc' = [pc EXCEPT ![p] = "idle"]
        /\ OthersRest(p)
    BY <1>3 DEF Blocked, Return, Goto, OthersRest, Types
  <2>2. Types'
    BY <2>1, CacheAssumption, NoCall DEF Types, Where
  <2>3. Working(p)'
    BY <2>1, NoCall DEF Working, Types, Where
  <2>4. LocksAreHeld'
    BY <2>1, KeepLock DEF Types, Holders
  <2>5. QED
    BY <2>1, <2>2, <2>3, <2>4, OthersWork
<1>4. QED
  BY <1>1, <1>2, <1>3

\* The steps that take a lock.
LEMMA LockSteps ==
  ASSUME IInv, NEW p \in Proc, OpenLock(p) \/ FlushLock(p) \/ StoreLock(p)
  PROVE  IInv'
<1> USE DEF IInv
<1>1. CASE OpenLock(p)
  <2> DEFINE f == call[p].chain
  <2>1. /\ f \in ChainId /\ pc[p] = "open"
        /\ UNCHANGED <<now, db, conn, loaded, mem, queue>>
        /\ (Locked(p, f, "sweep") /\ UNCHANGED call) \/ Blocked(p, f)
    BY <1>1 DEF OpenLock, Working
  <2>2. Locked(p, f, "sweep") /\ UNCHANGED call => Working(p)'
    BY <2>1 DEF Working, Types, Locked, Goto
  <2>3. mem' \in [Proc -> [ChainId -> Answers]]
    BY <2>1 DEF Types
  <2> HIDE DEF f
  <2>4. f = call[p].chain
    BY DEF f
  <2>5. QED
    BY <2>1, <2>2, <2>3, <2>4, LockInv DEF Holders
<1>2. CASE FlushLock(p)
  <2> DEFINE f == conn[p]
  <2>1. /\ f \in ChainId /\ pc[p] = "flush"
        /\ UNCHANGED <<now, db, conn, loaded, mem, queue>>
        /\ (Locked(p, f, "flushing") /\ UNCHANGED call) \/ Blocked(p, f)
    BY <1>2 DEF FlushLock, Working, Types, Where
  <2>2. Locked(p, f, "flushing") /\ UNCHANGED call => Working(p)'
    BY <2>1 DEF Working, Types, Locked, Goto, Where
  <2>3. mem' \in [Proc -> [ChainId -> Answers]]
    BY <2>1 DEF Types
  <2> HIDE DEF f
  <2>4. f = conn[p]
    BY DEF f
  <2>5. QED
    BY <2>1, <2>2, <2>3, <2>4, LockInv DEF Holders
<1>3. CASE StoreLock(p)
  <2> DEFINE f == conn[p]
             q == Head(call[p].miss)
  <2>1. /\ f \in ChainId /\ pc[p] = "store" /\ call[p].miss # <<>>
        /\ mem' = [mem EXCEPT ![p][call[p].chain][q] = call[p].got[q]]
        /\ UNCHANGED <<now, db, conn, loaded, queue>>
        /\ (Locked(p, f, "storing") /\ UNCHANGED call) \/ Blocked(p, f)
    BY <1>3 DEF StoreLock, Working, Types, Where
  <2>2. Locked(p, f, "storing") /\ UNCHANGED call => Working(p)'
    BY <2>1 DEF Working, Types, Locked, Goto, Where
  <2>3. q \in Query /\ call[p].got \in Answers /\ call[p].chain \in ChainId
    BY <2>1, HeadTailProperties DEF Types, Call, Working, Where
  <2>4. call[p].got[q] \in Val \union {None}
    BY <2>3 DEF Answers
  <2> HIDE DEF q
  <2>5. mem' \in [Proc -> [ChainId -> Answers]]
    BY <2>1, <2>3, <2>4 DEF Types, Answers
  <2> HIDE DEF f
  <2>6. f = conn[p]
    BY DEF f
  <2>7. QED
    BY <2>1, <2>2, <2>5, <2>6, LockInv DEF Holders
<1>4. QED
  BY <1>1, <1>2, <1>3

\* A call that ends lets go of everything it knew.
LEMMA ReturnInv ==
  ASSUME Types, NEW p \in Proc, \A o \in Proc : Working(o), Return(p),
         UNCHANGED <<conn, loaded>>
  PROVE  /\ pc' \in [Proc -> Where] /\ call' \in [Proc -> Call]
         /\ OthersRest(p) /\ pc'[p] = "idle"
         /\ \A o \in Proc : Working(o)'
<1>1. call' = [call EXCEPT ![p] = Idle] /\ pc' = [pc EXCEPT ![p] = "idle"]
  BY DEF Return, Goto
<1>2. /\ pc' \in [Proc -> Where] /\ call' \in [Proc -> Call]
      /\ OthersRest(p) /\ pc'[p] = "idle" /\ call'[p].chain = None
  BY <1>1, NoCall DEF Types, Where, OthersRest
<1>3. Working(p)'
  BY <1>2 DEF Working, Where
<1>4. QED
  BY <1>2, <1>3, OthersWork

\* The sweep empties rows, and the end of the constructions opens the file.
LEMMA SweepInv ==
  ASSUME IInv, NEW p \in Proc, Sweep(p)
  PROVE  IInv'
<1> USE DEF IInv
<1> DEFINE f == call[p].chain
<1>1. /\ pc[p] = "sweep" /\ f \in ChainId /\ FileOf(p) = f
      /\ db' = [db EXCEPT ![f] = [q \in Query |-> IF Expired(@[q]) THEN None ELSE @[q]]]
      /\ lock' = [lock EXCEPT ![f] = None]
      /\ conn' = [conn EXCEPT ![p] = f]
      /\ loaded' = [loaded EXCEPT ![p] = @ \union {f}]
      /\ mem' = [mem EXCEPT ![p][f] = NoAnswers]
      /\ call' = [call EXCEPT ![p] = Idle] /\ pc' = [pc EXCEPT ![p] = "idle"]
      /\ UNCHANGED <<now, queue, retry>>
  BY DEF Sweep, Release, Return, Goto, Working, FileOf
<1> HIDE DEF f
<1>2. /\ OthersRest(p) /\ pc'[p] = "idle" /\ call'[p].chain = None /\ conn'[p] # None
  BY <1>1, NoCall, Values DEF OthersRest, Types
<1>3. db' \in [ChainId -> [Query -> Row \union {None}]]
  BY <1>1 DEF Types
<1>4. mem' \in [Proc -> [ChainId -> Answers]]
  BY <1>1, NoCall DEF Types
<1>5. Types'
  BY <1>1, <1>3, <1>4, NoCall DEF Types, Where
<1>6. Working(p)'
  BY <1>2 DEF Working, Where
<1>7. LocksAreHeld'
  BY <1>1, <1>2, FreeLock DEF Holders
<1>8. QED
  BY <1>2, <1>5, <1>6, <1>7, OthersWork

\* A new call starts from the queries it was given.
LEMMA StartInv ==
  ASSUME IInv, NEW p \in Proc, NEW c \in ChainId,
         \/ \E q \in Single : StartFetch(p, c, q)
         \/ \E qs \in Payload[p] : StartFetchMulti(p, c, qs)
  PROVE  IInv'
<1> USE DEF IInv
<1>1. ASSUME NEW q \in Single, StartFetch(p, c, q)
      PROVE  \E d \in Call : d.chain = c /\ d.left = <<q>> /\ call' = [call EXCEPT ![p] = d]
  <2>1. <<q>> \in Seq(Query)
    BY CacheAssumption
  <2>2. call' = [call EXCEPT ![p] = Asking(c, <<q>>)]
    BY <1>1 DEF StartFetch, Asking
  <2>3. QED
    BY <2>1, <2>2, NewCalls
<1>2. ASSUME NEW qs \in Payload[p], StartFetchMulti(p, c, qs)
      PROVE  \E d \in Call : d.chain = c /\ d.left = qs /\ call' = [call EXCEPT ![p] = d]
  <2>1. qs \in Seq(Query) /\ TRUE \in BOOLEAN
    BY CacheAssumption
  <2>2. call' = [call EXCEPT ![p] = AskingMany(c, TRUE, qs)]
    BY <1>2 DEF StartFetchMulti, AskingMany
  <2>3. QED
    BY <2>1, <2>2, NewCalls
<1>3. PICK d \in Call, where \in {"check", "lookup"} :
        /\ pc[p] = "idle" /\ c \in loaded[p]
        /\ d.chain = c /\ (where = "check" => d.left # <<>>)
        /\ call' = [call EXCEPT ![p] = d] /\ pc' = [pc EXCEPT ![p] = where]
        /\ UNCHANGED <<now, db, lock, conn, loaded, mem, queue, retry>>
  <2>1. CASE \E q \in Single : StartFetch(p, c, q)
    <3>1. PICK q \in Single : StartFetch(p, c, q)
      BY <2>1
    <3>2. PICK d \in Call : d.chain = c /\ d.left = <<q>> /\ call' = [call EXCEPT ![p] = d]
      BY <3>1, <1>1
    <3>3. d.left # <<>>
      BY <3>2
    <3>4. QED
      BY <3>1, <3>2, <3>3 DEF StartFetch, Goto
  <2>2. CASE \E qs \in Payload[p] : StartFetchMulti(p, c, qs)
    BY <2>2, <1>2 DEF StartFetchMulti, Goto
  <2>3. QED
    BY <2>1, <2>2
<1>4. OthersRest(p)
  BY <1>3 DEF OthersRest, Types
<1>5. Types'
  BY <1>3 DEF Types, Where
<1>6. Working(p)'
  BY <1>3 DEF Working, Types, Where
<1>7. LocksAreHeld'
  BY <1>3, <1>4, KeepLock DEF Types, Holders
<1>8. QED
  BY <1>4, <1>5, <1>6, <1>7, OthersWork

\* What a running call knows.
LEMMA Running ==
  ASSUME Types, NEW p \in Proc, Working(p), pc[p] \in Where \ {"idle", "open", "sweep"}
  PROVE  /\ call[p] \in Call /\ call[p].chain \in ChainId /\ conn[p] \in ChainId
         /\ call[p].left \in Seq(Query) /\ call[p].miss \in Seq(Query) /\ call[p].got \in Answers
         /\ call[p].left # <<>> => /\ Head(call[p].left) \in Query
                                   /\ Tail(call[p].left) \in Seq(Query)
         /\ call[p].miss # <<>> => /\ Head(call[p].miss) \in Query
                                   /\ Tail(call[p].miss) \in Seq(Query)
         /\ \A q \in Query : /\ InMemory(p, q) \in Val \union {None}
                             /\ OnDisk(p, q) \in Row \union {None}
<1>1. /\ call[p] \in Call /\ call[p].chain \in ChainId /\ conn[p] \in ChainId
      /\ call[p].left \in Seq(Query) /\ call[p].miss \in Seq(Query) /\ call[p].got \in Answers
  BY DEF Types, Working, Call
<1>2. \A q \in Query : /\ InMemory(p, q) \in Val \union {None}
                       /\ OnDisk(p, q) \in Row \union {None}
  BY <1>1 DEF Types, Answers, InMemory, OnDisk
<1>3. QED
  BY <1>1, <1>2, HeadTailProperties

\* The steps of a call that neither hold a lock nor end the call: only its own record and
\* memory layer and its queue change.
LEMMA CallInv ==
  ASSUME IInv, NEW p \in Proc, NEW where \in Where \ (Holders \union {"idle", "open"}),
         NEW l \in Seq(Query), NEW m \in Seq(Query), NEW g \in Answers, Becomes(p, l, m, g),
         pc[p] \notin Holders \union {"idle", "open"}, pc' = [pc EXCEPT ![p] = where],
         where \in {"check", "flush"} => l # <<>>,
         where = "flush" => g[Head(l)] # None,
         where = "store" => \A i \in 1..Len(m) : g[m[i]] # None,
         mem' \in [Proc -> [ChainId -> Answers]],
         queue' \in [Proc -> [Query -> 0..(MaxNow + Ttl) \union {None}]],
         UNCHANGED <<now, db, lock, conn, loaded, retry>>
  PROVE  IInv'
<1> USE DEF IInv
<1>1. /\ call' \in [Proc -> Call]
      /\ call'[p].chain = call[p].chain /\ call'[p].left = l /\ call'[p].miss = m
      /\ call'[p].got = g /\ \A o \in Proc \ {p} : call'[o] = call[o]
  BY AfterCall DEF Types
<1>2. OthersRest(p) /\ pc'[p] = where /\ pc' \in [Proc -> Where]
  BY <1>1 DEF OthersRest, Types
<1>3. Types'
  BY <1>1, <1>2 DEF Types
<1>4. /\ conn[p] # None /\ call[p].chain \in ChainId
  BY DEF Working, Types, Holders
<1>5. Working(p)'
  BY <1>1, <1>2, <1>4 DEF Working, Where, Holders
<1>6. LocksAreHeld'
  BY <1>2, KeepLock DEF Holders
<1>7. QED
  BY <1>2, <1>3, <1>5, <1>6, OthersWork

\* fetch's question to the file, and the lookups.
LEMMA LookupInv ==
  ASSUME IInv, NEW p \in Proc,
         \/ Check(p) \/ LookupMemory(p) \/ LookupDisk(p) \/ LookupFails(p) \/ LookupDone(p)
  PROVE  IInv'
<1> DEFINE r == call[p]
           q == Head(r.left)
<1> USE DEF IInv
<1>1. /\ pc[p] \in {"check", "lookup"} /\ Working(p) /\ Types
      /\ UNCHANGED <<now, db, lock, conn, loaded, retry>>
  BY DEF Check, LookupMemory, LookupDisk, LookupFails, LookupDone
<1>2. /\ r.chain \in ChainId /\ conn[p] \in ChainId
      /\ r.left \in Seq(Query) /\ r.miss \in Seq(Query) /\ r.got \in Answers
      /\ r.left # <<>> => q \in Query /\ Tail(r.left) \in Seq(Query)
      /\ \A x \in Query : InMemory(p, x) \in Val \union {None} /\ OnDisk(p, x) \in Row \union {None}
  BY <1>1, Running DEF Where
<1>3. pc[p] \notin Holders \union {"idle", "open"}
  BY <1>1 DEF Holders
<1>4. call \in [Proc -> Call] /\ pc \in [Proc -> Where]
      /\ mem \in [Proc -> [ChainId -> Answers]]
      /\ queue \in [Proc -> [Query -> 0..(MaxNow + Ttl) \union {None}]]
  BY DEF Types
<1>5. CASE Check(p)
  <2>1. q \in Query /\ UNCHANGED <<mem, queue>>
    BY <1>1, <1>2, <1>5 DEF Check, Working
  <2>2. CASE UNCHANGED call /\ Goto(p, "lookup")
    <3>1. Becomes(p, r.left, r.miss, r.got)
      BY <2>2, <1>4, SameCall
    <3>2. QED
      BY <3>1, <2>1, <2>2, <1>1, <1>2, <1>3, <1>4, CallInv DEF Goto, Where, Holders
  <2>3. CASE Goto(p, "ask") /\ call' = [call EXCEPT ![p].left = <<>>, ![p].miss = <<q>>]
    <3>1. Becomes(p, <<>>, <<q>>, r.got)
      BY <2>1, <2>3, <1>2, <1>4, CallSteps
    <3>2. <<>> \in Seq(Query) /\ <<q>> \in Seq(Query)
      BY <2>1, EmptySeq
    <3>3. QED
      BY <3>1, <3>2, <2>1, <2>3, <1>1, <1>2, <1>3, <1>4, CallInv DEF Goto, Where, Holders
  <2>4. QED
    BY <2>2, <2>3, <1>5 DEF Check
<1>6. CASE LookupMemory(p)
  <2> DEFINE v == InMemory(p, q)
  <2>1. r.left # <<>> /\ Hit(p, q, v) /\ UNCHANGED <<mem, queue, pc>> /\ pc[p] = "lookup"
    BY <1>6 DEF LookupMemory
  <2>2. q \in Query /\ v \in Val \union {None}
    BY <2>1, <1>2
  <2> HIDE DEF v
  <2>3. Becomes(p, Tail(r.left), r.miss, [r.got EXCEPT ![q] = v])
    BY <2>1, <2>2, <1>2, <1>4, CallSteps
  <2>4. [r.got EXCEPT ![q] = v] \in Answers /\ pc' = [pc EXCEPT ![p] = "lookup"]
    BY <2>1, <2>2, <1>2, <1>4 DEF Answers
  <2>5. QED
    BY <2>1, <2>3, <2>4, <1>1, <1>2, <1>3, <1>4, CallInv DEF Where, Holders
<1>7. CASE LookupDisk(p)
  <2> DEFINE v == OnDisk(p, q).val
             g == [r.got EXCEPT ![q] = v]
  <2>1. /\ r.left # <<>> /\ pc[p] = "lookup" /\ OnDisk(p, q) # None
        /\ queue' = queue \/ queue' = [queue EXCEPT ![p][q] = now + Ttl]
        /\ \/ /\ Hit(p, q, v) /\ UNCHANGED pc
              /\ mem' = [mem EXCEPT ![p][r.chain][q] = v]
           \/ /\ call' = [call EXCEPT ![p].got[q] = v]
              /\ Goto(p, "flush") /\ UNCHANGED mem
    BY <1>7 DEF LookupDisk
  <2>2. q \in Query /\ v \in Val /\ v # None
    BY <2>1, <1>2, Values DEF Row
  <2> HIDE DEF v
  <2>3. now + Ttl \in 0..(MaxNow + Ttl)
    BY CacheAssumption DEF Types
  <2>4. queue' \in [Proc -> [Query -> 0..(MaxNow + Ttl) \union {None}]]
    <3>1. CASE queue' = queue
      BY <3>1, <1>4
    <3>2. CASE queue' = [queue EXCEPT ![p][q] = now + Ttl]
      <4> HIDE DEF q
      <4>1. QED
        BY <3>2, <2>2, <2>3, <1>4
    <3>3. QED
      BY <2>1, <3>1, <3>2
  <2>5. g \in Answers /\ g[q] # None
    BY <2>2, <1>2 DEF Answers
  <2>6. CASE /\ Hit(p, q, v) /\ UNCHANGED pc
             /\ mem' = [mem EXCEPT ![p][r.chain][q] = v]
    <3>1. Becomes(p, Tail(r.left), r.miss, g)
      BY <2>1, <2>2, <2>6, <1>2, <1>4, CallSteps
    <3>2. mem' \in [Proc -> [ChainId -> Answers]]
      BY <2>2, <2>6, <1>2, <1>4 DEF Answers
    <3>3. pc' = [pc EXCEPT ![p] = "lookup"]
      BY <2>1, <2>6, <1>4
    <3> HIDE DEF g
    <3>4. QED
      BY <3>1, <3>2, <3>3, <2>1, <2>4, <2>5, <1>1, <1>2, <1>3, <1>4, CallInv
         DEF Where, Holders
  <2>7. CASE /\ call' = [call EXCEPT ![p].got[q] = v]
             /\ Goto(p, "flush") /\ UNCHANGED mem
    <3>1. Becomes(p, r.left, r.miss, g)
      BY <2>2, <2>7, <1>2, <1>4, CallSteps
    <3> HIDE DEF g
    <3>2. QED
      BY <3>1, <2>1, <2>4, <2>5, <2>7, <1>1, <1>2, <1>3, <1>4, CallInv
         DEF Where, Holders, Goto
  <2>8. QED
    BY <2>1, <2>6, <2>7
<1>8. CASE LookupFails(p) /\ r.multi
  <2>1. /\ r.left # <<>> /\ UNCHANGED <<mem, queue, pc>> /\ pc[p] = "lookup"
        /\ call' = [call EXCEPT ![p].left = Tail(@), ![p].miss = Append(@, q)]
    BY <1>8 DEF LookupFails
  <2>2. Becomes(p, Tail(r.left), Append(r.miss, q), r.got)
    BY <2>1, <1>2, <1>4, CallSteps, Values
  <2>3. Append(r.miss, q) \in Seq(Query) /\ pc' = [pc EXCEPT ![p] = "lookup"]
    BY <2>1, <1>2, <1>4, AppendProperties
  <2>4. QED
    BY <2>1, <2>2, <2>3, <1>1, <1>2, <1>3, <1>4, CallInv DEF Where, Holders
<1>9. CASE LookupDone(p) /\ r.miss # <<>>
  <2>1. UNCHANGED <<call, mem, queue>> /\ Goto(p, "ask")
    BY <1>9 DEF LookupDone
  <2>2. Becomes(p, r.left, r.miss, r.got)
    BY <2>1, <1>4, SameCall
  <2>3. QED
    BY <2>1, <2>2, <1>1, <1>2, <1>3, <1>4, CallInv DEF Where, Holders, Goto
<1>10. CASE (LookupFails(p) /\ ~r.multi) \/ (LookupDone(p) /\ r.miss = <<>>)
  <2>1. Return(p) /\ UNCHANGED <<mem, queue>>
    BY <1>10 DEF LookupFails, LookupDone
  <2>2. /\ pc' \in [Proc -> Where] /\ call' \in [Proc -> Call]
        /\ OthersRest(p) /\ pc'[p] = "idle" /\ \A o \in Proc : Working(o)'
    BY <2>1, <1>1, ReturnInv
  <2>3. Types' /\ LocksAreHeld'
    BY <2>1, <2>2, <1>1, <1>3, KeepLock DEF Types, Holders
  <2>4. QED
    BY <2>2, <2>3
<1>11. QED
  BY <1>5, <1>6, <1>7, <1>8, <1>9, <1>10

\* The end of a transaction inside a call: the lock is free, and the call goes on.
LEMMA CommitInv ==
  ASSUME IInv, NEW p \in Proc, NEW where \in {"lookup", "store"},
         NEW l \in Seq(Query), NEW m \in Seq(Query), NEW g \in Answers, Becomes(p, l, m, g),
         pc[p] \in {"flushing", "storing"}, pc' = [pc EXCEPT ![p] = where],
         where = "store" => \A i \in 1..Len(m) : g[m[i]] # None,
         db' \in [ChainId -> [Query -> Row \union {None}]], Release(conn[p]),
         mem' \in [Proc -> [ChainId -> Answers]],
         queue' \in [Proc -> [Query -> 0..(MaxNow + Ttl) \union {None}]],
         UNCHANGED <<now, conn, loaded, retry>>
  PROVE  IInv'
<1> USE DEF IInv
<1>1. /\ call' \in [Proc -> Call]
      /\ call'[p].chain = call[p].chain /\ call'[p].left = l /\ call'[p].miss = m
      /\ call'[p].got = g /\ \A o \in Proc \ {p} : call'[o] = call[o]
  BY AfterCall DEF Types
<1>2. /\ OthersRest(p) /\ pc'[p] = where /\ pc' \in [Proc -> Where] /\ pc[p] \in Holders
      /\ pc'[p] \notin Holders
  BY <1>1 DEF OthersRest, Types, Where, Holders
<1>3. FileOf(p) = conn[p] /\ lock' = [lock EXCEPT ![FileOf(p)] = None]
  BY DEF FileOf, Release
<1>4. Types'
  BY <1>1, <1>2, <1>3 DEF Types
<1>5. /\ conn[p] # None /\ call[p].chain \in ChainId
  BY DEF Working, Types, Where
<1>6. Working(p)'
  BY <1>1, <1>2, <1>5 DEF Working, Where
<1>7. LocksAreHeld'
  BY <1>2, <1>3, FreeLock
<1>8. QED
  BY <1>2, <1>4, <1>6, <1>7, OthersWork

\* The end of a flush in a call, and of an insertion.
LEMMA CommitSteps ==
  ASSUME IInv, NEW p \in Proc, Flush(p) \/ Store(p)
  PROVE  IInv'
<1> DEFINE r == call[p]
           f == conn[p]
<1> USE DEF IInv
<1>1. /\ pc[p] \in {"flushing", "storing"} /\ Working(p) /\ Types
      /\ UNCHANGED <<now, conn, loaded, retry>> /\ Release(f)
  BY DEF Flush, Store
<1>2. /\ r.chain \in ChainId /\ f \in ChainId
      /\ r.left \in Seq(Query) /\ r.miss \in Seq(Query) /\ r.got \in Answers
      /\ r.left # <<>> => Head(r.left) \in Query /\ Tail(r.left) \in Seq(Query)
      /\ r.miss # <<>> => Head(r.miss) \in Query /\ Tail(r.miss) \in Seq(Query)
  BY <1>1, Running DEF Where
<1>3. /\ call \in [Proc -> Call] /\ mem \in [Proc -> [ChainId -> Answers]]
      /\ queue \in [Proc -> [Query -> 0..(MaxNow + Ttl) \union {None}]]
      /\ db \in [ChainId -> [Query -> Row \union {None}]]
      /\ NoAnswers \in [Query -> 0..(MaxNow + Ttl) \union {None}]
  BY DEF Types, NoAnswers
<1>4. ASSUME NEW rows \in [Query -> Row \union {None}]
      PROVE  /\ [db EXCEPT ![f] = rows] \in [ChainId -> [Query -> Row \union {None}]]
             /\ Flushed(rows, queue[p]) \in [Query -> Row \union {None}]
  BY <1>2, <1>3, FlushedRows
<1>5. CASE Flush(p)
  <2> DEFINE q == Head(r.left)
             v == r.got[q]
             g == [r.got EXCEPT ![q] = v]
  <2>1. /\ r.left # <<>> /\ pc[p] = "flushing"
        /\ db' = [db EXCEPT ![f] = Flushed(db[f], queue[p])] \/ UNCHANGED db
        /\ queue' = [queue EXCEPT ![p] = NoAnswers]
        /\ Hit(p, q, v) /\ mem' = [mem EXCEPT ![p][r.chain][q] = v] /\ Goto(p, "lookup")
    BY <1>1, <1>5 DEF Flush, Working
  <2>2. q \in Query /\ v \in Val \union {None} /\ g \in Answers
    <3>1. q \in Query
      BY <2>1, <1>2
    <3> HIDE DEF q
    <3>2. QED
      BY <3>1, <1>2 DEF Answers
  <2>3. db' \in [ChainId -> [Query -> Row \union {None}]]
    <3>1. db[f] \in [Query -> Row \union {None}]
      BY <1>2, <1>3
    <3>2. Flushed(db[f], queue[p]) \in [Query -> Row \union {None}]
      BY <3>1, <1>4
    <3>3. QED
      BY <2>1, <3>2, <1>3, <1>4
  <2> HIDE DEF v
  <2>4. Becomes(p, Tail(r.left), r.miss, g)
    BY <2>1, <2>2, <1>2, <1>3, CallSteps
  <2>5. mem' \in [Proc -> [ChainId -> Answers]]
    BY <2>1, <2>2, <1>2, <1>3 DEF Answers
  <2>6. queue' \in [Proc -> [Query -> 0..(MaxNow + Ttl) \union {None}]]
    BY <2>1, <1>3
  <2> HIDE DEF g
  <2>7. QED
    BY <2>1, <2>2, <2>3, <2>4, <2>5, <2>6, <1>1, <1>2, CommitInv DEF Goto
<1>6. CASE Store(p)
  <2> DEFINE q == Head(r.miss)
             row == [val |-> r.got[q], exp |-> now + Ttl]
             rows == [db[f] EXCEPT ![q] = row]
  <2>1. /\ r.miss # <<>> /\ pc[p] = "storing"
        /\ \/ db' = [db EXCEPT ![f] = rows] /\ UNCHANGED queue
           \/ /\ db' = [db EXCEPT ![f] = Flushed(rows, queue[p])]
              /\ queue' = [queue EXCEPT ![p] = NoAnswers]
           \/ UNCHANGED <<db, queue>>
        /\ call' = [call EXCEPT ![p].miss = Tail(@)] /\ Goto(p, "store") /\ UNCHANGED mem
    BY <1>1, <1>6 DEF Store, Working
  <2>2. q \in Query /\ Tail(r.miss) \in Seq(Query) /\ r.got[q] \in Val /\ Len(r.miss) \in Nat
        /\ Len(Tail(r.miss)) = Len(r.miss) - 1
        /\ \A i \in 1..Len(Tail(r.miss)) : Tail(r.miss)[i] = r.miss[i + 1]
    BY <2>1, <1>1, <1>2, HeadTailProperties DEF Working, Answers
  <2>3. row \in Row
    BY <2>2, CacheAssumption DEF Types, Row
  <2> HIDE DEF row
  <2>4. rows \in [Query -> Row \union {None}]
    BY <2>2, <2>3, <1>2, <1>3
  <2> HIDE DEF rows
  <2>5. /\ db' \in [ChainId -> [Query -> Row \union {None}]]
        /\ queue' \in [Proc -> [Query -> 0..(MaxNow + Ttl) \union {None}]]
    <3>1. CASE db' = [db EXCEPT ![f] = rows] /\ UNCHANGED queue
      BY <3>1, <2>4, <1>3, <1>4
    <3>2. CASE /\ db' = [db EXCEPT ![f] = Flushed(rows, queue[p])]
               /\ queue' = [queue EXCEPT ![p] = NoAnswers]
      <4>1. Flushed(rows, queue[p]) \in [Query -> Row \union {None}]
        BY <2>4, <1>3, FlushedRows
      <4>2. QED
        BY <3>2, <4>1, <1>3, <1>4
    <3>3. CASE UNCHANGED <<db, queue>>
      BY <3>3, <1>3
    <3>4. QED
      BY <2>1, <3>1, <3>2, <3>3
  <2>6. Becomes(p, r.left, Tail(r.miss), r.got)
    BY <2>1, <2>2, <1>2, <1>3, CallSteps, Values
  <2>7. \A i \in 1..Len(Tail(r.miss)) : r.got[Tail(r.miss)[i]] # None
    BY <2>1, <2>2, <1>1 DEF Working
  <2>8. QED
    BY <2>1, <2>2, <2>5, <2>6, <2>7, <1>1, <1>2, <1>3, CommitInv DEF Goto
<1>7. QED
  BY <1>5, <1>6

\* The answers after a reply.
Replied(p) ==
  [q \in Query |-> IF q \in ToSet(call[p].miss)
                   THEN Reply(p)[CHOOSE i \in 1..Len(call[p].miss) : call[p].miss[i] = q]
                   ELSE call[p].got[q]]

\* The batch of misses is paired with the right answers by position.
LEMMA Paired ==
  ASSUME Types, NEW p \in Proc, call[p].chain \in ChainId
  PROVE  /\ Replied(p) \in Answers
         /\ \A q \in Query : Replied(p)[q] = IF q \in ToSet(call[p].miss)
                                             THEN Answer[call[p].chain][q] ELSE call[p].got[q]
         /\ \A i \in 1..Len(call[p].miss) : Replied(p)[call[p].miss[i]] # None
<1> DEFINE m == call[p].miss
           c == call[p].chain
           g == Replied(p)
<1>0. m \in Seq(Query)
  BY DEF Types, Call
<1>1. Reply(p) = [i \in 1..Len(m) |-> Answer[c][m[i]]]
  BY DEF Reply
<1>2. ToSet(m) = {m[i] : i \in 1..Len(m)} /\ \A i \in 1..Len(m) : m[i] \in Query
  BY <1>0, ElementOfSeq, LenProperties DEF ToSet
<1>3. ASSUME NEW q \in Query, q \in ToSet(m)
      PROVE  g[q] = Answer[c][q]
  <2> DEFINE i == CHOOSE i \in 1..Len(m) : m[i] = q
  <2>1. i \in 1..Len(m) /\ m[i] = q
    BY <1>2, <1>3
  <2>2. g[q] = Reply(p)[i]
    BY <1>3 DEF Replied
  <2> HIDE DEF i
  <2>3. QED
    BY <1>1, <2>1, <2>2
<1>4. \A q \in Query : g[q] = IF q \in ToSet(m) THEN Answer[c][q] ELSE call[p].got[q]
  BY <1>3 DEF Replied
<1>5. call[p].got \in Answers
  BY DEF Types, Call
<1>6. \A q \in Query : g[q] \in Val \union {None}
  BY <1>4, <1>5, Values DEF Answers
<1>7. g \in Answers
  BY <1>6 DEF Answers, Replied
<1>8. QED
  BY <1>2, <1>4, <1>7, Values

\* The question to the node, and the end of fetch and fetch_multi.
LEMMA AskInv ==
  ASSUME IInv, NEW p \in Proc, Ask(p) \/ StoreDone(p)
  PROVE  IInv'
<1> DEFINE r == call[p]
           m == r.miss
           g == Replied(p)
<1> USE DEF IInv
<1>1. /\ pc[p] \in {"ask", "store"} /\ Working(p) /\ Types
      /\ UNCHANGED <<now, db, lock, conn, loaded, mem, queue, retry>>
  BY DEF Ask, StoreDone
<1>2. r.chain \in ChainId /\ r.left \in Seq(Query) /\ m \in Seq(Query)
  BY <1>1, Running DEF Where
<1>3. CASE Goto(p, "store") /\ call' = [call EXCEPT ![p].got = g]
  <2>1. g \in Answers /\ \A i \in 1..Len(m) : g[m[i]] # None
    BY <1>1, <1>2, Paired
  <2> HIDE DEF g
  <2>2. Becomes(p, r.left, m, g)
    <3>1. call' = [call EXCEPT ![p] = [r EXCEPT !.got = g]]
      BY <1>3
    <3>2. r \in Call
      BY <1>1 DEF Types
    <3>3. [r EXCEPT !.got = g] = [chain |-> r.chain, multi |-> r.multi, left |-> r.left,
                                  miss |-> r.miss, got |-> g]
      BY <2>1, <3>2, SetGot
    <3>4. QED
      BY <3>1, <3>3 DEF Becomes
  <2>3. /\ mem' \in [Proc -> [ChainId -> Answers]]
        /\ queue' \in [Proc -> [Query -> 0..(MaxNow + Ttl) \union {None}]]
    BY <1>1 DEF Types
  <2>4. QED
    BY <1>1, <1>2, <1>3, <2>1, <2>2, <2>3, CallInv DEF Where, Holders, Goto
<1>4. CASE Return(p)
  <2>1. /\ pc' \in [Proc -> Where] /\ call' \in [Proc -> Call]
        /\ OthersRest(p) /\ pc'[p] = "idle" /\ \A o \in Proc : Working(o)'
    BY <1>1, <1>4, ReturnInv
  <2>2. Types' /\ LocksAreHeld'
    BY <2>1, <1>1, KeepLock DEF Types, Holders
  <2>3. QED
    BY <2>1, <2>2
<1>5. QED
  BY <1>3, <1>4 DEF Ask, StoreDone, Replied

\* A process that ends leaves rows behind and nothing else.
LEMMA ExitInv ==
  ASSUME IInv, NEW p \in Proc, Exit(p)
  PROVE  IInv'
<1> USE DEF IInv
<1>1. /\ conn' = [conn EXCEPT ![p] = None] /\ loaded' = [loaded EXCEPT ![p] = {}]
      /\ mem' = [mem EXCEPT ![p] = Fresh] /\ queue' = [queue EXCEPT ![p] = NoAnswers]
      /\ retry' = [retry EXCEPT ![p] = 0]
      /\ call' = [call EXCEPT ![p] = Idle] /\ pc' = [pc EXCEPT ![p] = "idle"]
      /\ lock' = [f \in ChainId |-> IF lock[f] = p THEN None ELSE lock[f]]
      /\ UNCHANGED now
  BY DEF Exit, Return, Goto
<1>2. db' \in [ChainId -> [Query -> Row \union {None}]]
  <2>1. CASE UNCHANGED db
    BY <2>1 DEF Types
  <2>2. CASE db' = [db EXCEPT ![conn[p]] = Flushed(db[conn[p]], queue[p])]
    <3>1. ASSUME conn[p] \in ChainId
          PROVE  Flushed(db[conn[p]], queue[p]) \in [Query -> Row \union {None}]
      BY <3>1, FlushedRows DEF Types
    <3>2. QED
      BY <2>2, <3>1 DEF Types
  <2>3. QED
    BY <2>1, <2>2 DEF Exit
<1>3. Fresh \in [ChainId -> Answers] /\ NoAnswers \in [Query -> 0..(MaxNow + Ttl) \union {None}]
  BY NoCall DEF Fresh, NoAnswers
<1>4. Types'
  BY <1>1, <1>2, <1>3, NoCall, CacheAssumption DEF Types, Where
<1>5. OthersRest(p) /\ pc'[p] = "idle" /\ call'[p].chain = None /\ loaded'[p] = {}
  BY <1>1, NoCall DEF OthersRest, Types
<1>6. Working(p)'
  BY <1>5 DEF Working, Where
<1>7. LocksAreHeld'
  <2> SUFFICES ASSUME NEW o \in Proc, NEW f \in ChainId
               PROVE  lock'[f] = o <=> pc'[o] \in Holders /\ f = FileOf(o)'
    BY DEF LocksAreHeld, Holders
  <2>1. CASE o = p
    BY <1>1, <1>5, <2>1, Values DEF Holders
  <2>2. CASE o # p
    <3>1. pc'[o] = pc[o] /\ FileOf(o)' = FileOf(o)
      BY <1>5, <2>2 DEF OthersRest, FileOf
    <3>2. lock'[f] = o <=> lock[f] = o
      BY <1>1, <2>2, Values
    <3>3. QED
      BY <3>1, <3>2 DEF LocksAreHeld, Holders
  <2>3. QED
    BY <2>1, <2>2
<1>8. QED
  BY <1>4, <1>5, <1>6, <1>7, OthersWork

\* Every step keeps the invariant.
LEMMA NextInvariant == IInv /\ [Next]_vars => IInv'
<1> SUFFICES ASSUME IInv, [Next]_vars PROVE IInv'
  OBVIOUS
<1>1. ASSUME NEW p \in Proc, NEW c \in ChainId, NEW q \in Query, EvictMemory(p, c, q)
      PROVE  IInv'
  <2>1. /\ mem' = [mem EXCEPT ![p][c][q] = None]
        /\ UNCHANGED <<now, db, lock, conn, loaded, queue, retry, pc, call>>
    BY <1>1 DEF EvictMemory
  <2>2. mem' \in [Proc -> [ChainId -> Answers]]
    BY <2>1 DEF IInv, Types, Answers
  <2>3. QED
    BY <2>1, <2>2 DEF IInv, Types, Working, LocksAreHeld, FileOf
<1>2. CASE Tick
  BY <1>2, CacheAssumption DEF Tick, IInv, Types, Working, LocksAreHeld, FileOf
<1>3. CASE UNCHANGED vars
  BY <1>3 DEF vars, IInv, Types, Working, LocksAreHeld, FileOf
<1>4. QED
  BY <1>1, <1>2, <1>3, ConstructInv, StartInv, LockSteps, SweepInv, LookupInv, CommitSteps,
     AskInv, ExitInv
     DEF Next, Step

(***************************************************************************)
(* Expiry dates count from uses                                            *)
(***************************************************************************)

\* A process that opens a file has no connection yet.
OpensOnce == \A p \in Proc : pc[p] \in {"open", "sweep"} => conn[p] = None

\* Uses are in the past, and every date, in a file or still in a queue, is at most a
\* row's life after the last use.
UsesPast == /\ lastUse \in [ChainId -> [Query -> 0..MaxNow]]
            /\ \A f \in ChainId, q \in Query : lastUse[f][q] <= now
RowDates == \A f \in ChainId, q \in Query :
              db[f][q] # None => db[f][q].exp <= lastUse[f][q] + Ttl
QueueDates == \A p \in Proc, q \in Query :
                queue[p][q] # None =>
                  conn[p] # None /\ queue[p][q] <= lastUse[conn[p]][q] + Ttl

Dates == OpensOnce /\ UsesPast /\ RowDates /\ QueueDates

\* Dates written late are still those of the uses.
LEMMA FlushedDates ==
  ASSUME NEW rows \in [Query -> Row \union {None}],
         NEW updates \in [Query -> 0..(MaxNow + Ttl) \union {None}],
         NEW last \in [Query -> 0..MaxNow],
         \A q \in Query : rows[q] # None => rows[q].exp <= last[q] + Ttl,
         \A q \in Query : updates[q] # None => updates[q] <= last[q] + Ttl,
         NEW q \in Query, Flushed(rows, updates)[q] # None
  PROVE  Flushed(rows, updates)[q].exp <= last[q] + Ttl
<1>1. Flushed(rows, updates)[q] =
        IF rows[q] = None \/ updates[q] = None THEN rows[q]
        ELSE [rows[q] EXCEPT !.exp = updates[q]]
  BY DEF Flushed
<1>2. CASE rows[q] = None \/ updates[q] = None
  BY <1>1, <1>2
<1>3. CASE rows[q] # None /\ updates[q] # None
  <2>1. rows[q] \in Row
    BY <1>3
  <2>2. [rows[q] EXCEPT !.exp = updates[q]].exp = updates[q]
    BY <2>1 DEF Row
  <2>3. QED
    BY <1>1, <1>3, <2>2
<1>4. QED
  BY <1>2, <1>3

\* A file whose new rows keep to the uses.
LEMMA NewRows ==
  ASSUME Types, UsesPast, RowDates, NEW f \in ChainId, NEW rows,
         db' = [db EXCEPT ![f] = rows],
         \A g \in ChainId, q \in Query : lastUse[g][q] <= lastUse'[g][q],
         UsesPast',
         \A q \in Query : rows[q] # None => rows[q].exp <= lastUse'[f][q] + Ttl
  PROVE  RowDates'
<1> SUFFICES ASSUME NEW g \in ChainId, NEW q \in Query, db'[g][q] # None
             PROVE  db'[g][q].exp <= lastUse'[g][q] + Ttl
  BY DEF RowDates
<1>1. CASE g = f
  BY <1>1 DEF Types
<1>2. CASE g # f
  <2>1. db'[g] = db[g]
    BY <1>2 DEF Types
  <2>2. db[g][q] \in Row
    BY <2>1 DEF Types
  <2>3. /\ db[g][q].exp \in Nat /\ lastUse[g][q] \in Nat /\ lastUse'[g][q] \in Nat
        /\ db[g][q].exp <= lastUse[g][q] + Ttl /\ lastUse[g][q] <= lastUse'[g][q]
    BY <2>1, <2>2, CacheAssumption DEF Row, UsesPast, RowDates
  <2> HIDE DEF RowDates
  <2>4. QED
    BY <2>1, <2>3, CacheAssumption
<1>3. QED
  BY <1>1, <1>2

\* What a use does to the uses.
LEMMA Used ==
  ASSUME Types, UsesPast, NEW p \in Proc, conn[p] \in ChainId, NEW x \in Query, Use(p, x),
         now' = now
  PROVE  /\ UsesPast' /\ lastUse'[conn[p]][x] = now
         /\ \A g \in ChainId, q \in Query : lastUse[g][q] <= lastUse'[g][q]
<1>1. /\ now \in 0..MaxNow
      /\ lastUse' = [g \in ChainId |-> IF g = conn[p] THEN [lastUse[g] EXCEPT ![x] = now]
                                       ELSE lastUse[g]]
  BY DEF Use, Types, UsesPast
<1>2. \A g \in ChainId, q \in Query :
        lastUse'[g][q] = IF g = conn[p] /\ q = x THEN now ELSE lastUse[g][q]
  BY <1>1 DEF UsesPast
<1>3. \A g \in ChainId : lastUse'[g] \in [Query -> 0..MaxNow]
  BY <1>1 DEF UsesPast
<1>4. lastUse' \in [ChainId -> [Query -> 0..MaxNow]]
  BY <1>1, <1>3
<1>5. QED
  BY <1>1, <1>2, <1>4, CacheAssumption DEF UsesPast

\* Queued dates stay right as uses move on.
LEMMA QueuesKeep ==
  ASSUME Types, UsesPast, QueueDates, UsesPast',
         \A g \in ChainId, q \in Query : lastUse[g][q] <= lastUse'[g][q],
         UNCHANGED <<queue, conn>>
  PROVE  QueueDates'
<1> SUFFICES ASSUME NEW p \in Proc, NEW q \in Query, queue[p][q] # None
             PROVE  conn[p] # None /\ queue[p][q] <= lastUse'[conn[p]][q] + Ttl
  BY DEF QueueDates
<1>1. conn[p] \in ChainId /\ queue[p][q] <= lastUse[conn[p]][q] + Ttl /\ queue[p][q] \in Nat
  BY DEF QueueDates, Types
<1>2. lastUse[conn[p]][q] \in Nat /\ lastUse'[conn[p]][q] \in Nat
  BY <1>1, CacheAssumption DEF UsesPast
<1>3. lastUse[conn[p]][q] <= lastUse'[conn[p]][q] /\ conn[p] # None
  BY <1>1, Values
<1>4. QED
  BY <1>1, <1>2, <1>3, CacheAssumption

\* A process that clears its queue promises nothing.
LEMMA QueueCleared ==
  ASSUME Types, QueueDates, NEW p \in Proc, queue' = [queue EXCEPT ![p] = NoAnswers],
         \A o \in Proc \ {p} : conn'[o] = conn[o],
         UNCHANGED lastUse
  PROVE  QueueDates'
<1>1. \A q \in Query : queue'[p][q] = None
  BY DEF Types, NoAnswers
<1>2. \A o \in Proc \ {p} : queue'[o] = queue[o]
  BY DEF Types
<1>3. QED
  BY <1>1, <1>2 DEF QueueDates

\* Only OpenLock and Construct lead to where a file is opened.
LEMMA NextOpens == IInv /\ OpensOnce /\ [Next]_vars => OpensOnce'
<1> SUFFICES ASSUME IInv, OpensOnce, [Next]_vars PROVE OpensOnce'
  OBVIOUS
<1> USE DEF IInv
<1>1. ASSUME NEW p \in Proc, Step(p) \/ Exit(p)
             \/ \E c \in ChainId : \/ Construct(p, c)
                                   \/ \E q \in Single : StartFetch(p, c, q)
                                   \/ \E qs \in Payload[p] : StartFetchMulti(p, c, qs)
      PROVE  /\ \A o \in Proc \ {p} : pc'[o] = pc[o] /\ conn'[o] = conn[o]
             /\ pc'[p] \in {"open", "sweep"} => conn'[p] = None
  <2>1. CASE \E c \in ChainId : Construct(p, c)
    BY <2>1 DEF Construct, MustOpen, Goto, Types
  <2>2. CASE OpenLock(p) \/ FlushLock(p) \/ StoreLock(p)
    BY <2>2 DEF OpenLock, FlushLock, StoreLock, Locked, Blocked, Return, Goto, Types, OpensOnce
  <2>3. CASE Sweep(p) \/ Flush(p) \/ Store(p) \/ Exit(p)
    BY <2>3 DEF Sweep, Flush, Store, Exit, Return, Goto, Types
  <2>4. CASE Check(p) \/ LookupMemory(p) \/ LookupDisk(p)
    BY <2>4 DEF Check, LookupMemory, LookupDisk, Hit, Goto, Types
  <2>5. CASE LookupFails(p) \/ LookupDone(p) \/ Ask(p) \/ StoreDone(p)
    BY <2>5 DEF LookupFails, LookupDone, Ask, StoreDone, Return, Goto, Types
  <2>6. CASE \E c \in ChainId : \/ \E q \in Single : StartFetch(p, c, q)
                                \/ \E qs \in Payload[p] : StartFetchMulti(p, c, qs)
    BY <2>6 DEF StartFetch, StartFetchMulti, Goto, Types
  <2>7. QED
    BY <1>1, <2>1, <2>2, <2>3, <2>4, <2>5, <2>6 DEF Step
<1>2. CASE UNCHANGED <<pc, conn>>
  BY <1>2 DEF OpensOnce
<1>3. QED
  BY <1>1, <1>2 DEF Next, EvictMemory, Tick, vars, OpensOnce

\* A sweep leaves dates as they are, and whoever opens a file has queued nothing.
LEMMA SweepDates ==
  ASSUME IInv, Dates, NEW p \in Proc, Sweep(p)
  PROVE  UsesPast' /\ RowDates' /\ QueueDates'
<1> USE DEF IInv, Dates
<1>1. /\ UNCHANGED <<now, queue, lastUse>> /\ pc[p] = "sweep"
      /\ conn' = [conn EXCEPT ![p] = call[p].chain]
      /\ db' = [db EXCEPT ![call[p].chain] =
                  [q \in Query |-> IF Expired(db[call[p].chain][q]) THEN None
                                   ELSE db[call[p].chain][q]]]
  BY DEF Sweep
<1>2. UsesPast'
  BY <1>1 DEF UsesPast
<1>3. RowDates'
  BY <1>1 DEF RowDates, Types
<1>4. \A q \in Query : queue[p][q] = None
  BY <1>1 DEF QueueDates, OpensOnce
<1>5. QueueDates'
  BY <1>1, <1>4 DEF QueueDates, Types
<1>6. QED
  BY <1>2, <1>3, <1>5

\* A hit is a use, and what it queues is counted from it.
LEMMA LookupDates ==
  ASSUME IInv, Dates, NEW p \in Proc, LookupDisk(p)
  PROVE  UsesPast' /\ RowDates' /\ QueueDates'
<1> USE DEF IInv, Dates
<1> DEFINE x == Head(call[p].left)
<1>1. /\ UNCHANGED <<now, db, conn>> /\ Use(p, x)
      /\ queue' = queue \/ queue' = [queue EXCEPT ![p][x] = now + Ttl]
  BY DEF LookupDisk
<1>2. conn[p] \in ChainId /\ x \in Query
  <2>1. pc[p] \in Where \ {"idle", "open", "sweep"} /\ Working(p) /\ call[p].left # <<>>
    BY DEF LookupDisk, Where
  <2>2. QED
    BY <2>1, Running
<1> HIDE DEF x
<1>3. /\ UsesPast' /\ lastUse'[conn[p]][x] = now
      /\ \A g \in ChainId, q \in Query : lastUse[g][q] <= lastUse'[g][q]
  BY <1>1, <1>2, Used
<1>4. RowDates'
  <2>1. db' = [db EXCEPT ![conn[p]] = db[conn[p]]]
    BY <1>1, <1>2 DEF Types
  <2>2. \A q \in Query : db[conn[p]][q] # None =>
                           db[conn[p]][q].exp <= lastUse'[conn[p]][q] + Ttl
    <3> SUFFICES ASSUME NEW q \in Query, db[conn[p]][q] # None
                 PROVE  db[conn[p]][q].exp <= lastUse'[conn[p]][q] + Ttl
      OBVIOUS
    <3>1. db[conn[p]][q].exp \in Nat
      BY <1>2, CacheAssumption DEF Types, Row
    <3>2. lastUse[conn[p]][q] \in Nat /\ lastUse'[conn[p]][q] \in Nat
      BY <1>2, <1>3, CacheAssumption DEF UsesPast
    <3>3. /\ db[conn[p]][q].exp <= lastUse[conn[p]][q] + Ttl
          /\ lastUse[conn[p]][q] <= lastUse'[conn[p]][q]
      BY <1>2, <1>3 DEF RowDates
    <3>4. QED
      BY <3>1, <3>2, <3>3, CacheAssumption
  <2>3. QED
    BY <1>2, <1>3, <2>1, <2>2, NewRows
<1>5. ASSUME queue' = queue
      PROVE  QueueDates'
  BY <1>1, <1>3, <1>5, QueuesKeep
<1>6. ASSUME queue' = [queue EXCEPT ![p][x] = now + Ttl]
      PROVE  QueueDates'
  <2> SUFFICES ASSUME NEW o \in Proc, NEW q \in Query, queue'[o][q] # None
               PROVE  conn[o] # None /\ queue'[o][q] <= lastUse'[conn[o]][q] + Ttl
    BY <1>1 DEF QueueDates
  <2>1. CASE o = p /\ q = x
    <3>1. queue'[o][q] = now + Ttl
      BY <1>6, <2>1, <1>2 DEF Types
    <3>2. now \in Nat /\ Ttl \in Nat
      BY CacheAssumption DEF Types
    <3>3. QED
      BY <1>2, <1>3, <2>1, <3>1, <3>2, Values
  <2>2. CASE ~ (o = p /\ q = x)
    <3>1. queue'[o][q] = queue[o][q]
      BY <1>6, <2>2, <1>2 DEF Types
    <3>2. /\ conn[o] \in ChainId /\ queue[o][q] <= lastUse[conn[o]][q] + Ttl
          /\ queue[o][q] \in Nat
      BY <3>1 DEF QueueDates, Types
    <3>3. /\ lastUse[conn[o]][q] \in Nat /\ lastUse'[conn[o]][q] \in Nat
          /\ lastUse[conn[o]][q] <= lastUse'[conn[o]][q]
      BY <1>3, <3>2, CacheAssumption DEF UsesPast
    <3>4. QED
      BY <3>1, <3>2, <3>3, Values, CacheAssumption
  <2>3. QED
    BY <2>1, <2>2
<1>7. QED
  BY <1>1, <1>3, <1>4, <1>5, <1>6

\* The queue of p keeps to the uses of the file that p works on.
LEMMA QueueOf ==
  ASSUME Types, UsesPast, QueueDates, NEW p \in Proc, conn[p] \in ChainId
  PROVE  /\ queue[p] \in [Query -> 0..(MaxNow + Ttl) \union {None}]
         /\ lastUse[conn[p]] \in [Query -> 0..MaxNow]
         /\ \A q \in Query : queue[p][q] # None => queue[p][q] <= lastUse[conn[p]][q] + Ttl
  BY DEF Types, UsesPast, QueueDates

\* A flush, in a call or at the end of a process.
LEMMA FlushDates ==
  ASSUME Types, Dates, NEW p \in Proc, conn[p] \in ChainId,
         db' = [db EXCEPT ![conn[p]] = Flushed(db[conn[p]], queue[p])],
         UNCHANGED <<now, lastUse>>
  PROVE  RowDates'
<1> USE DEF Dates
<1> DEFINE f == conn[p]
           rows == Flushed(db[f], queue[p])
<1>1. db[f] \in [Query -> Row \union {None}]
  BY DEF Types
<1>2. \A q \in Query : db[f][q] # None => db[f][q].exp <= lastUse[f][q] + Ttl
  BY DEF RowDates
<1>3. \A q \in Query : rows[q] # None => rows[q].exp <= lastUse[f][q] + Ttl
  BY <1>1, <1>2, QueueOf, FlushedDates
<1>4. \A g \in ChainId, q \in Query : lastUse[g][q] <= lastUse'[g][q]
  BY CacheAssumption DEF UsesPast
<1>5. UsesPast'
  BY DEF UsesPast
<1> HIDE DEF rows
<1>6. db' = [db EXCEPT ![f] = rows]
  BY DEF rows
<1>7. QED
  BY <1>3, <1>4, <1>5, <1>6, NewRows

\* An insertion is a use; it may flush, too.
LEMMA StoreDates ==
  ASSUME IInv, Dates, NEW p \in Proc, Store(p)
  PROVE  UsesPast' /\ RowDates' /\ QueueDates'
<1> USE DEF IInv, Dates
<1> DEFINE f == conn[p]
           x == Head(call[p].miss)
           row == [val |-> call[p].got[x], exp |-> now + Ttl]
           rows == [db[f] EXCEPT ![x] = row]
           flushed == Flushed(rows, queue[p])
<1>1. /\ UNCHANGED <<now, conn>>
      /\ \/ db' = [db EXCEPT ![f] = rows] /\ Use(p, x) /\ UNCHANGED queue
         \/ /\ db' = [db EXCEPT ![f] = flushed] /\ Use(p, x)
            /\ queue' = [queue EXCEPT ![p] = NoAnswers]
         \/ UNCHANGED <<db, queue, lastUse>>
  BY DEF Store
<1>2. f \in ChainId /\ x \in Query /\ call[p].got[x] \in Val
  <2>1. pc[p] \in Where \ {"idle", "open", "sweep"} /\ Types /\ Working(p)
        /\ pc[p] = "storing" /\ call[p].miss # <<>>
    BY DEF Store, Working, Where
  <2>2. f \in ChainId /\ x \in Query /\ call[p].got \in Answers /\ call[p].miss \in Seq(Query)
    BY <2>1, Running
  <2>3. 1 \in 1..Len(call[p].miss) /\ x = call[p].miss[1]
    BY <2>1, <2>2, HeadTailProperties, LenProperties, EmptySeq
  <2>4. call[p].got[x] # None
    BY <2>1, <2>3 DEF Working
  <2>5. QED
    BY <2>2, <2>4 DEF Answers
<1>3. row \in Row /\ row.exp = now + Ttl /\ now \in Nat /\ Ttl \in Nat
  BY <1>2, CacheAssumption DEF Types, Row
<1> HIDE DEF row, x
<1>4. CASE UNCHANGED <<db, queue, lastUse>>
  BY <1>1, <1>4 DEF UsesPast, RowDates, QueueDates
<1>5. CASE Use(p, x)
  <2>1. /\ UsesPast' /\ lastUse'[f][x] = now
        /\ \A g \in ChainId, q \in Query : lastUse[g][q] <= lastUse'[g][q]
    BY <1>1, <1>2, <1>5, Used
  <2>2. rows \in [Query -> Row \union {None}]
    BY <1>2, <1>3 DEF Types
  <2>3. \A q \in Query : rows[q] # None => rows[q].exp <= lastUse'[f][q] + Ttl
    <3> SUFFICES ASSUME NEW q \in Query, rows[q] # None
                 PROVE  rows[q].exp <= lastUse'[f][q] + Ttl
      OBVIOUS
    <3>1. CASE q = x
      BY <1>2, <1>3, <2>1, <3>1 DEF Types
    <3>2. CASE q # x
      <4>1. rows[q] = db[f][q] /\ rows[q] \in Row
        BY <1>2, <2>2, <3>2 DEF Types
      <4>2. /\ rows[q].exp \in Nat /\ lastUse[f][q] \in Nat /\ lastUse'[f][q] \in Nat
            /\ rows[q].exp <= lastUse[f][q] + Ttl /\ lastUse[f][q] <= lastUse'[f][q]
        BY <1>2, <2>1, <4>1, CacheAssumption DEF RowDates, UsesPast, Row
      <4>3. QED
        BY <1>3, <4>2
    <3>3. QED
      BY <3>1, <3>2
  <2> HIDE DEF rows
  <2>4. \A q \in Query : queue[p][q] # None => queue[p][q] <= lastUse'[f][q] + Ttl
    <3> SUFFICES ASSUME NEW q \in Query, queue[p][q] # None
                 PROVE  queue[p][q] <= lastUse'[f][q] + Ttl
      OBVIOUS
    <3>1. /\ queue[p][q] \in Nat /\ lastUse[f][q] \in Nat /\ lastUse'[f][q] \in Nat
          /\ queue[p][q] <= lastUse[f][q] + Ttl /\ lastUse[f][q] <= lastUse'[f][q]
      BY <1>2, <2>1, QueueOf, CacheAssumption DEF UsesPast, Types
    <3>2. QED
      BY <1>3, <3>1
  <2>5. \A q \in Query : flushed[q] # None => flushed[q].exp <= lastUse'[f][q] + Ttl
    <3>1. lastUse'[f] \in [Query -> 0..MaxNow]
      BY <1>2, <2>1 DEF UsesPast
    <3>2. queue[p] \in [Query -> 0..(MaxNow + Ttl) \union {None}]
      BY DEF Types
    <3>3. QED
      BY <2>2, <2>3, <2>4, <3>1, <3>2, FlushedDates
  <2>6. CASE db' = [db EXCEPT ![f] = rows] /\ UNCHANGED queue
    <3>1. RowDates'
      BY <1>2, <2>1, <2>3, <2>6, NewRows
    <3>2. QED
      BY <1>1, <2>1, <2>6, <3>1, QueuesKeep
  <2> HIDE DEF flushed
  <2>7. CASE db' = [db EXCEPT ![f] = flushed] /\ queue' = [queue EXCEPT ![p] = NoAnswers]
    <3>1. RowDates'
      BY <1>2, <2>1, <2>5, <2>7, NewRows
    <3>2. ASSUME NEW o \in Proc, NEW q \in Query, queue'[o][q] # None
          PROVE  conn'[o] # None /\ queue'[o][q] <= lastUse'[conn'[o]][q] + Ttl
      <4>1. o # p /\ queue'[o] = queue[o] /\ conn'[o] = conn[o]
        BY <1>1, <2>7, <3>2 DEF Types, NoAnswers
      <4>2. conn[o] \in ChainId /\ queue[o][q] <= lastUse[conn[o]][q] + Ttl
            /\ queue[o][q] \in Nat
        BY <3>2, <4>1 DEF QueueDates, Types
      <4>3. /\ lastUse[conn[o]][q] \in Nat /\ lastUse'[conn[o]][q] \in Nat
            /\ lastUse[conn[o]][q] <= lastUse'[conn[o]][q]
        BY <2>1, <4>2, CacheAssumption DEF UsesPast
      <4>4. QED
        BY <1>3, <4>1, <4>2, <4>3, Values
    <3>3. QED
      BY <2>1, <3>1, <3>2 DEF QueueDates
  <2>8. CASE UNCHANGED <<db, queue, lastUse>>
    BY <1>4, <2>8
  <2>9. QED
    BY <1>1, <2>6, <2>7, <2>8 DEF flushed, rows
<1>6. QED
  BY <1>1, <1>4, <1>5

LEMMA NextDates == IInv /\ Dates /\ [Next]_vars => Dates'
<1> SUFFICES ASSUME IInv, Dates, [Next]_vars PROVE Dates'
  OBVIOUS
<1> USE DEF IInv, Dates
<1>1. OpensOnce'
  BY NextOpens
<1>2. ASSUME UNCHANGED <<db, queue, conn, lastUse>>, now' \in Nat, now <= now'
      PROVE  UsesPast' /\ RowDates' /\ QueueDates'
  <2>1. UsesPast'
    BY <1>2, CacheAssumption DEF UsesPast, Types
  <2>2. QED
    BY <1>2, <2>1 DEF RowDates, QueueDates
<1>3. now \in Nat /\ now <= now
  BY CacheAssumption DEF Types
<1>4. ASSUME NEW p \in Proc, Flush(p)
      PROVE  UsesPast' /\ RowDates' /\ QueueDates'
  <2>1. conn[p] \in ChainId
    <3>1. pc[p] \in Where \ {"idle", "open", "sweep"} /\ Working(p)
      BY <1>4 DEF Flush, Where
    <3>2. QED
      BY <3>1, Running
  <2>2. /\ UNCHANGED <<now, conn, lastUse>> /\ queue' = [queue EXCEPT ![p] = NoAnswers]
        /\ \/ db' = [db EXCEPT ![conn[p]] = Flushed(db[conn[p]], queue[p])]
           \/ UNCHANGED db
    BY <1>4 DEF Flush
  <2>3. UsesPast'
    BY <2>2 DEF UsesPast
  <2>4. RowDates'
    BY <2>1, <2>2, FlushDates DEF RowDates
  <2>5. QueueDates'
    BY <2>2, QueueCleared
  <2>6. QED
    BY <2>3, <2>4, <2>5
<1>5. ASSUME NEW p \in Proc, Exit(p)
      PROVE  UsesPast' /\ RowDates' /\ QueueDates'
  <2>1. /\ UNCHANGED <<now, lastUse>> /\ queue' = [queue EXCEPT ![p] = NoAnswers]
        /\ conn' = [conn EXCEPT ![p] = None]
        /\ \/ /\ queue[p] # NoAnswers
              /\ db' = [db EXCEPT ![conn[p]] = Flushed(db[conn[p]], queue[p])]
           \/ UNCHANGED db
    BY <1>5 DEF Exit
  <2>2. UsesPast'
    BY <2>1 DEF UsesPast
  <2>3. QueueDates'
    BY <2>1, QueueCleared DEF Types
  <2>4. ASSUME queue[p] # NoAnswers
        PROVE  conn[p] \in ChainId
    <3>1. PICK q \in Query : queue[p][q] # None
      BY <2>4 DEF Types, NoAnswers
    <3>2. QED
      BY <3>1 DEF QueueDates, Types
  <2>5. RowDates'
    BY <2>1, <2>4, FlushDates DEF RowDates
  <2>6. QED
    BY <2>2, <2>3, <2>5
<1>6. ASSUME Tick
      PROVE  UsesPast' /\ RowDates' /\ QueueDates'
  BY <1>2, <1>6, CacheAssumption DEF Tick, Types
<1>7. ASSUME NEW p \in Proc,
             \/ \E c \in ChainId : \/ Construct(p, c)
                                   \/ \E q \in Single : StartFetch(p, c, q)
                                   \/ \E qs \in Payload[p] : StartFetchMulti(p, c, qs)
                                   \/ \E q \in Query : EvictMemory(p, c, q)
             \/ OpenLock(p) \/ Check(p) \/ LookupMemory(p) \/ LookupFails(p)
             \/ LookupDone(p) \/ FlushLock(p) \/ Ask(p) \/ StoreLock(p) \/ StoreDone(p)
      PROVE  UsesPast' /\ RowDates' /\ QueueDates'
  <2>1. UNCHANGED <<now, db, queue, conn, lastUse>>
    BY <1>7 DEF Construct, StartFetch, StartFetchMulti, EvictMemory, OpenLock, Check,
       LookupMemory, LookupFails, LookupDone, FlushLock, Ask, StoreLock, StoreDone
  <2>2. QED
    BY <1>2, <1>3, <2>1
<1>8. ASSUME UNCHANGED vars
      PROVE  UsesPast' /\ RowDates' /\ QueueDates'
  BY <1>2, <1>3, <1>8 DEF vars
<1>9. QED
  BY <1>1, <1>4, <1>5, <1>6, <1>7, <1>8, SweepDates, LookupDates, StoreDates DEF Next, Step

LEMMA InitDates == Init => Dates
<1> SUFFICES ASSUME Init PROVE Dates
  OBVIOUS
<1>1. OpensOnce
  BY DEF Init, OpensOnce
<1>2. UsesPast
  BY CacheAssumption DEF Init, UsesPast
<1>3. RowDates /\ QueueDates
  BY DEF Init, RowDates, QueueDates, NoAnswers
<1>4. QED
  BY <1>1, <1>2, <1>3 DEF Dates

\* A row that is not expired when its file is opened was used within the last Ttl.
LEMMA NextUnused ==
  ASSUME IInv, Dates, [Next]_vars, NEW p \in Proc, NEW q \in Query,
         conn[p] = None, conn'[p] # None, db'[conn'[p]][q] # None
  PROVE  now <= lastUse[conn'[p]][q] + Ttl
<1> USE DEF IInv, Dates
<1>1. Sweep(p)
  <2>1. ASSUME NEW r \in Proc, Sweep(r), r # p
        PROVE  FALSE
    BY <2>1 DEF Sweep, Types
  <2>2. ASSUME NEW r \in Proc, Exit(r)
        PROVE  FALSE
    BY <2>2 DEF Exit, Types
  <2>3. conn' # conn
    OBVIOUS
  <2>4. QED
    BY <2>1, <2>2, <2>3, ZenonT(40)
       DEF Next, Step, Construct, StartFetch, StartFetchMulti, EvictMemory, OpenLock, Check,
           LookupMemory, LookupDisk, LookupFails, LookupDone, FlushLock, Flush, Ask, StoreLock,
           Store, StoreDone, Tick, vars
<1> DEFINE f == call[p].chain
<1>2. /\ f \in ChainId /\ conn'[p] = f
      /\ db' = [db EXCEPT ![f] = [x \in Query |-> IF Expired(db[f][x]) THEN None ELSE db[f][x]]]
  BY <1>1 DEF Sweep, Working, Types
<1> HIDE DEF f
<1>3. ~ Expired(db[f][q]) /\ db[f][q] # None
  BY <1>2 DEF Types
<1>4. ~ (db[f][q].exp < now) /\ db[f][q].exp <= lastUse[f][q] + Ttl
  BY <1>2, <1>3 DEF Expired, RowDates
<1>5. db[f][q].exp \in Nat /\ lastUse[f][q] \in Nat /\ now \in Nat
  BY <1>2, <1>3, CacheAssumption DEF Types, Row, UsesPast
<1>6. QED
  BY <1>2, <1>4, <1>5, CacheAssumption

Unused == \A p \in Proc, q \in Query :
            LET f == conn'[p]
            IN  conn[p] = None /\ f # None /\ db'[f][q] # None
                  => now <= lastUse[f][q] + Ttl

\* A process that opens a file rids it of the rows that nobody read or stored for longer
\* than a row's life, however late refreshes are written and whoever was killed.
THEOREM UnusedRowsAreSwept == Spec => UnusedRowsGo
<1>1. IInv /\ [Next]_vars => IInv'
  BY NextInvariant
<1>2. IInv /\ Dates /\ [Next]_vars => Dates'
  BY NextDates
<1>3. IInv /\ Dates /\ [Next]_vars => [Unused]_vars
  BY NextUnused DEF Unused
<1>4. QED
  BY InitInvariant, InitDates, <1>1, <1>2, <1>3, PTL DEF Spec, UnusedRowsGo, Unused

\* The invariant says what TypeOK says.
LEMMA InvariantTypes == IInv /\ UsesPast => TypeOK
<1> SUFFICES ASSUME IInv, UsesPast PROVE TypeOK
  OBVIOUS
<1>1. ASSUME NEW p \in Proc, pc[p] \in Holders
      PROVE  FileOf(p) \in ChainId
  BY <1>1 DEF IInv, Types, FileOf, Working, Holders, Where
<1>2. ASSUME NEW p \in Proc
      PROVE  pc[p] \in Holders <=> \E f \in ChainId : lock[f] = p
  BY <1>1 DEF IInv, LocksAreHeld, Holders
<1>3. QED
  BY <1>2 DEF IInv, Types, TypeOK, Answers, Holders, UsesPast

\* Every process that runs has the types, and a process holds a lock exactly between its
\* BEGIN IMMEDIATE and its COMMIT or ROLLBACK, whoever is killed where.
THEOREM TypeCorrect == Spec => []TypeOK
<1>1. IInv /\ [Next]_vars => IInv'
  BY NextInvariant
<1>2. IInv /\ Dates /\ [Next]_vars => Dates'
  BY NextDates
<1>3. QED
  BY InitInvariant, InitDates, <1>1, <1>2, InvariantTypes, PTL DEF Spec, Dates

(***************************************************************************)
(* Answers are right, in processes that fork one chain each: a process has *)
(* one connection whatever chains it forks, and with two of them the rows  *)
(* of one end up in the file of the other (OneFilePerChain).               *)
(***************************************************************************)

OneChainEach == \A p \in Proc : \A c, d \in Uses[p] : c = d

\* Whatever is stored anywhere is the answer of the node of its chain, and what a process
\* works on belongs to the chain that it forks.
RowsAreRight == \A f \in ChainId, q \in Query : db[f][q] # None => db[f][q].val = Answer[f][q]

MemoryIsRight == \A p \in Proc, c \in ChainId, q \in Query : mem[p][c][q] \in {None, Answer[c][q]}

ChainsAreUsed ==
  \A p \in Proc : /\ conn[p] \in Uses[p] \union {None}
                  /\ loaded[p] \subseteq Uses[p]
                  /\ call[p].chain \in Uses[p] \union {None}

Right == RowsAreRight /\ MemoryIsRight /\ ChainsAreUsed /\ AnswersAreRight

\* Nothing is stored at first.
LEMMA InitRight == Init => Right
  BY NoCall, Values DEF Init, Right, RowsAreRight, MemoryIsRight, ChainsAreUsed, AnswersAreRight,
     NoAnswers, Fresh

\* What a step may do to the call of p: nothing, a new one or none, or right answers.
CallStaysRight(p) ==
  \/ UNCHANGED call
  \/ \E d \in Call : /\ d.got = NoAnswers /\ d.chain \in Uses[p] \union {None}
                     /\ call' = [call EXCEPT ![p] = d]
  \/ \E l, m \in Seq(Query), g \in Answers :
       /\ Becomes(p, l, m, g)
       /\ \A q \in Query : g[q] \in {None, call[p].got[q], Answer[call[p].chain][q]}

\* The answers that calls collect stay right then, and calls stay on the chains they use.
LEMMA CallsStayRight ==
  ASSUME Types, AnswersAreRight, ChainsAreUsed, NEW p \in Proc, CallStaysRight(p)
  PROVE  /\ AnswersAreRight'
         /\ \A o \in Proc : call'[o].chain \in Uses[o] \union {None}
<1>1. CASE UNCHANGED call
  BY <1>1 DEF AnswersAreRight, ChainsAreUsed
<1>2. ASSUME NEW d \in Call, d.got = NoAnswers, d.chain \in Uses[p] \union {None},
             call' = [call EXCEPT ![p] = d]
      PROVE  /\ AnswersAreRight'
             /\ \A o \in Proc : call'[o].chain \in Uses[o] \union {None}
  <2>1. call'[p] = d /\ \A o \in Proc \ {p} : call'[o] = call[o]
    BY <1>2 DEF Types
  <2>2. QED
    BY <1>2, <2>1 DEF AnswersAreRight, NoAnswers, ChainsAreUsed
<1>3. ASSUME NEW l \in Seq(Query), NEW m \in Seq(Query), NEW g \in Answers, Becomes(p, l, m, g),
             \A q \in Query : g[q] \in {None, call[p].got[q], Answer[call[p].chain][q]}
      PROVE  /\ AnswersAreRight'
             /\ \A o \in Proc : call'[o].chain \in Uses[o] \union {None}
  <2>1. /\ call'[p].chain = call[p].chain /\ call'[p].got = g
        /\ \A o \in Proc \ {p} : call'[o] = call[o]
    BY <1>3, AfterCall DEF Types
  <2>2. QED
    BY <1>3, <2>1 DEF AnswersAreRight, ChainsAreUsed
<1>4. QED
  BY <1>1, <1>2, <1>3 DEF CallStaysRight

\* A call that ends.
LEMMA EndStaysRight ==
  ASSUME NEW p \in Proc, Return(p)
  PROVE  CallStaysRight(p)
  BY NoCall DEF Return, CallStaysRight

\* A call that begins.
LEMMA BegunStaysRight ==
  ASSUME NEW p \in Proc, NEW c \in Uses[p], NEW d \in Call, d.chain = c, d.got = NoAnswers,
         call' = [call EXCEPT ![p] = d]
  PROVE  CallStaysRight(p)
  BY DEF CallStaysRight

\* While a call looks up and stores, the connection is that of its chain.
LEMMA OwnFile ==
  ASSUME OneChainEach, IInv, ChainsAreUsed, NEW p \in Proc,
         pc[p] \in Where \ {"idle", "open", "sweep"}
  PROVE  conn[p] = call[p].chain /\ conn[p] \in ChainId
<1>1. Types /\ Working(p)
  BY DEF IInv
<1>2. conn[p] \in ChainId /\ call[p].chain \in ChainId
  BY <1>1, Running
<1>3. conn[p] \in Uses[p] /\ call[p].chain \in Uses[p]
  BY <1>2, Values DEF ChainsAreUsed
<1>4. QED
  BY <1>2, <1>3 DEF OneChainEach

\* Steps that start or end a call, or only wait.
LEMMA BoundaryRight ==
  ASSUME IInv, Right, NEW p \in Proc,
         \/ \E c \in ChainId : \/ Construct(p, c)
                               \/ \E q \in Single : StartFetch(p, c, q)
                               \/ \E qs \in Payload[p] : StartFetchMulti(p, c, qs)
         \/ OpenLock(p) \/ FlushLock(p) \/ StoreDone(p) \/ LookupDone(p)
  PROVE  Right'
<1> USE DEF IInv, Right
<1>1. CallStaysRight(p)
  <2>1. ASSUME NEW c \in ChainId, NEW q \in Single, StartFetch(p, c, q)
        PROVE  CallStaysRight(p)
    <3>1. q \in Query /\ c \in Uses[p]
      BY <2>1, CacheAssumption DEF StartFetch, ChainsAreUsed
    <3>2. <<q>> \in Seq(Query)
      BY <3>1
    <3>3. call' = [call EXCEPT ![p] = Asking(c, <<q>>)]
      BY <2>1 DEF StartFetch, Asking
    <3>4. /\ Asking(c, <<q>>) \in Call /\ Asking(c, <<q>>).chain = c
          /\ Asking(c, <<q>>).got = NoAnswers
      BY <3>2, NewCalls
    <3> QED
      BY <3>1, <3>3, <3>4, BegunStaysRight
  <2>2. ASSUME NEW c \in ChainId, NEW qs \in Payload[p], StartFetchMulti(p, c, qs)
        PROVE  CallStaysRight(p)
    <3>1. qs \in Seq(Query) /\ c \in Uses[p] /\ TRUE \in BOOLEAN
      BY <2>2, CacheAssumption DEF StartFetchMulti, ChainsAreUsed
    <3>2. call' = [call EXCEPT ![p] = AskingMany(c, TRUE, qs)]
      BY <2>2 DEF StartFetchMulti, AskingMany
    <3>3. /\ AskingMany(c, TRUE, qs) \in Call /\ AskingMany(c, TRUE, qs).chain = c
          /\ AskingMany(c, TRUE, qs).got = NoAnswers
      BY <3>1, NewCalls
    <3> QED
      BY <3>1, <3>2, <3>3, BegunStaysRight
  <2>3. ASSUME NEW c \in ChainId, Construct(p, c)
        PROVE  CallStaysRight(p)
    <3>1. c \in Uses[p] /\ (UNCHANGED call \/ call' = [call EXCEPT ![p] = Opening(c)])
      BY <2>3 DEF Construct, Opening
    <3>2. Opening(c) \in Call /\ Opening(c).chain = c /\ Opening(c).got = NoAnswers
      BY NewCalls
    <3>3. CASE UNCHANGED call
      BY <3>3 DEF CallStaysRight
    <3>4. CASE call' = [call EXCEPT ![p] = Opening(c)]
      BY <3>1, <3>2, <3>4, BegunStaysRight
    <3> QED
      BY <3>1, <3>3, <3>4
  <2>4. ASSUME OpenLock(p) \/ FlushLock(p) \/ StoreDone(p) \/ LookupDone(p)
        PROVE  CallStaysRight(p)
    <3>1. UNCHANGED call \/ Return(p)
      BY <2>4 DEF OpenLock, FlushLock, StoreDone, LookupDone, Blocked
    <3>2. QED
      BY <3>1, EndStaysRight DEF CallStaysRight
  <2>5. QED
    BY <2>1, <2>2, <2>3, <2>4
<1>2. UNCHANGED <<db, conn>>
  BY DEF Construct, StartFetch, StartFetchMulti, OpenLock, FlushLock, StoreDone, LookupDone
<1>3. MemoryIsRight' /\ \A o \in Proc : loaded'[o] \subseteq Uses[o]
  <2>1. CASE UNCHANGED <<mem, loaded>>
    BY <2>1 DEF MemoryIsRight, ChainsAreUsed
  <2>2. ASSUME NEW c \in ChainId, Construct(p, c), ~UNCHANGED <<mem, loaded>>
        PROVE  MemoryIsRight' /\ \A o \in Proc : loaded'[o] \subseteq Uses[o]
    <3>1. /\ c \in Uses[p] /\ loaded' = [loaded EXCEPT ![p] = @ \union {c}]
          /\ mem' = [mem EXCEPT ![p][c] = NoAnswers]
      BY <2>2 DEF Construct
    <3>2. mem \in [Proc -> [ChainId -> Answers]] /\ loaded \in [Proc -> SUBSET ChainId]
      BY DEF Types
    <3>3. \A o \in Proc : loaded'[o] \subseteq Uses[o]
      BY <3>1, <3>2 DEF ChainsAreUsed
    <3>4. MemoryIsRight'
      BY <3>1, <3>2 DEF MemoryIsRight, NoAnswers
    <3>5. QED
      BY <3>3, <3>4
  <2>3. QED
    BY <2>1, <2>2
       DEF Construct, StartFetch, StartFetchMulti, OpenLock, FlushLock, StoreDone, LookupDone
<1>4. RowsAreRight' /\ ChainsAreUsed' /\ AnswersAreRight'
  BY <1>1, <1>2, <1>3, CallsStayRight DEF RowsAreRight, ChainsAreUsed
<1>5. QED
  BY <1>3, <1>4

\* The rows that a flush leaves are right.
LEMMA FlushIsRight ==
  ASSUME NEW f \in ChainId, NEW rows \in [Query -> Row \union {None}],
         NEW updates \in [Query -> 0..(MaxNow + Ttl) \union {None}],
         \A q \in Query : rows[q] # None => rows[q].val = Answer[f][q]
  PROVE  \A q \in Query : Flushed(rows, updates)[q] # None =>
                            Flushed(rows, updates)[q].val = Answer[f][q]
  BY FlushedRows

\* A file whose new rows are right.
LEMMA FileIsRight ==
  ASSUME Types, RowsAreRight, NEW f \in ChainId, NEW rows, db' = [db EXCEPT ![f] = rows],
         \A q \in Query : rows[q] # None => rows[q].val = Answer[f][q]
  PROVE  RowsAreRight'
  BY DEF Types, RowsAreRight

\* An answer put into the memory layer of its chain.
LEMMA RememberRight ==
  ASSUME Types, MemoryIsRight, NEW p \in Proc, NEW c \in ChainId, NEW q \in Query,
         NEW v \in {None, Answer[c][q]}, mem' = [mem EXCEPT ![p][c][q] = v]
  PROVE  MemoryIsRight'
<1>1. mem \in [Proc -> [ChainId -> [Query -> Val \union {None}]]]
  BY DEF Types, Answers
<1>2. \A o \in Proc, d \in ChainId, x \in Query :
        mem'[o][d][x] = IF o = p /\ d = c /\ x = q THEN v ELSE mem[o][d][x]
  BY <1>1
<1>3. QED
  BY <1>2 DEF MemoryIsRight

\* The sweep, and the end of a process.
LEMMA SweepExitRight ==
  ASSUME OneChainEach, IInv, Right, NEW p \in Proc, Sweep(p) \/ Exit(p)
  PROVE  Right'
<1> USE DEF IInv, Right
<1>1. CallStaysRight(p)
  BY EndStaysRight DEF Sweep, Exit
<1>2. CASE Sweep(p)
  <2> DEFINE f == call[p].chain
             rows == [q \in Query |-> IF Expired(db[f][q]) THEN None ELSE db[f][q]]
  <2>1. /\ f \in ChainId /\ f \in Uses[p]
        /\ db' = [db EXCEPT ![f] = rows]
        /\ conn' = [conn EXCEPT ![p] = f] /\ loaded' = [loaded EXCEPT ![p] = @ \union {f}]
        /\ mem' = [mem EXCEPT ![p][f] = NoAnswers]
    BY <1>2, Values DEF Sweep, Working, ChainsAreUsed
  <2>2. \A q \in Query : rows[q] # None => rows[q].val = Answer[f][q]
    BY <2>1 DEF RowsAreRight
  <2> HIDE DEF f
  <2>3. RowsAreRight'
    <3> HIDE DEF rows
    <3>1. QED
      BY <2>1, <2>2, FileIsRight
  <2>4. MemoryIsRight'
    BY <2>1 DEF MemoryIsRight, Types, NoAnswers
  <2>5. ChainsAreUsed' /\ AnswersAreRight'
    BY <1>1, <2>1, CallsStayRight DEF ChainsAreUsed, Types
  <2>6. QED
    BY <2>3, <2>4, <2>5
<1>3. CASE Exit(p)
  <2>1. /\ conn' = [conn EXCEPT ![p] = None] /\ loaded' = [loaded EXCEPT ![p] = {}]
        /\ mem' = [mem EXCEPT ![p] = Fresh]
    BY <1>3 DEF Exit
  <2>2. RowsAreRight'
    <3>1. CASE UNCHANGED db
      BY <3>1 DEF RowsAreRight
    <3>2. CASE db' = [db EXCEPT ![conn[p]] = Flushed(db[conn[p]], queue[p])]
      <4>1. CASE conn[p] \in ChainId
        <5>1. /\ db[conn[p]] \in [Query -> Row \union {None}]
              /\ queue[p] \in [Query -> 0..(MaxNow + Ttl) \union {None}]
              /\ \A q \in Query : db[conn[p]][q] # None => db[conn[p]][q].val = Answer[conn[p]][q]
          BY <4>1 DEF Types, RowsAreRight
        <5> DEFINE rows == Flushed(db[conn[p]], queue[p])
        <5>2. \A q \in Query : rows[q] # None => rows[q].val = Answer[conn[p]][q]
          BY <4>1, <5>1, FlushIsRight
        <5>3. db' = [db EXCEPT ![conn[p]] = rows]
          BY <3>2
        <5> HIDE DEF rows
        <5>4. QED
          BY <4>1, <5>2, <5>3, FileIsRight
      <4>2. CASE conn[p] \notin ChainId
        BY <3>2, <4>2 DEF Types, RowsAreRight
      <4>3. QED
        BY <4>1, <4>2
    <3>3. QED
      BY <1>3, <3>1, <3>2 DEF Exit
  <2>3. MemoryIsRight'
    BY <2>1 DEF MemoryIsRight, Types, Fresh, NoAnswers
  <2>4. ChainsAreUsed' /\ AnswersAreRight'
    BY <1>1, <2>1, CallsStayRight DEF ChainsAreUsed, Types
  <2>5. QED
    BY <2>2, <2>3, <2>4
<1>4. QED
  BY <1>2, <1>3

\* The lookups: what the memory layer or the file has is the answer.
LEMMA LookupRight ==
  ASSUME OneChainEach, IInv, Right, NEW p \in Proc,
         Check(p) \/ LookupMemory(p) \/ LookupDisk(p) \/ LookupFails(p)
  PROVE  Right'
<1> DEFINE r == call[p]
           c == r.chain
           q == Head(r.left)
<1> USE DEF IInv, Right
<1>1. /\ pc[p] \in {"check", "lookup"} /\ UNCHANGED <<db, conn, loaded>>
  BY DEF Check, LookupMemory, LookupDisk, LookupFails
<1>2. /\ c \in ChainId /\ conn[p] = c /\ q \in Query
      /\ r.left # <<>> /\ r.left \in Seq(Query) /\ Tail(r.left) \in Seq(Query)
      /\ r.miss \in Seq(Query) /\ r.got \in Answers
      /\ InMemory(p, q) \in {None, Answer[c][q]}
      /\ OnDisk(p, q) # None => OnDisk(p, q).val = Answer[c][q]
  <2>1. pc[p] \in Where \ {"idle", "open", "sweep"} /\ Types /\ Working(p) /\ r.left # <<>>
    BY <1>1 DEF Where, Working, Check, LookupMemory, LookupDisk, LookupFails
  <2>2. /\ c \in ChainId /\ q \in Query /\ r.left \in Seq(Query) /\ Tail(r.left) \in Seq(Query)
        /\ r.miss \in Seq(Query) /\ r.got \in Answers
    BY <2>1, Running
  <2>3. conn[p] = c
    BY <2>1, OwnFile
  <2> HIDE DEF q
  <2>4. /\ InMemory(p, q) \in {None, Answer[c][q]}
        /\ OnDisk(p, q) # None => OnDisk(p, q).val = Answer[c][q]
    BY <2>2, <2>3 DEF InMemory, OnDisk, MemoryIsRight, RowsAreRight
  <2>5. QED
    BY <2>1, <2>2, <2>3, <2>4 DEF q
<1>3. call \in [Proc -> Call] /\ Answer[c][q] \in Val
  BY <1>2, Values DEF Types
<1> HIDE DEF q
<1>4. ASSUME NEW v \in {None, Answer[c][q]}
      PROVE  [r.got EXCEPT ![q] = v] \in Answers /\ v \in Val \union {None}
  BY <1>2, <1>3 DEF Answers
<1>5. ASSUME NEW v \in {None, Answer[c][q]}, Hit(p, q, v) \/ call' = [call EXCEPT ![p].got[q] = v]
      PROVE  CallStaysRight(p)
  <2> DEFINE g == [r.got EXCEPT ![q] = v]
  <2>1. g \in Answers /\ \A x \in Query : g[x] \in {None, r.got[x], Answer[c][x]}
    BY <1>2, <1>4 DEF Answers
  <2>2. Becomes(p, Tail(r.left), r.miss, g) \/ Becomes(p, r.left, r.miss, g)
    BY <1>2, <1>3, <1>4, <1>5, CallSteps
  <2> HIDE DEF g
  <2>3. QED
    BY <1>2, <2>1, <2>2 DEF CallStaysRight
<1>6. CASE Check(p) \/ LookupFails(p)
  <2>1. CallStaysRight(p)
    <3>1. CASE UNCHANGED call \/ Return(p)
      BY <3>1, EndStaysRight DEF CallStaysRight
    <3>2. CASE \/ call' = [call EXCEPT ![p].left = <<>>, ![p].miss = <<q>>]
               \/ call' = [call EXCEPT ![p].left = Tail(@), ![p].miss = Append(@, q)]
      <4>1. \/ Becomes(p, <<>>, <<q>>, r.got)
            \/ Becomes(p, Tail(r.left), Append(r.miss, q), r.got)
        BY <1>2, <1>3, <3>2, CallSteps
      <4>2. <<>> \in Seq(Query) /\ <<q>> \in Seq(Query) /\ Append(r.miss, q) \in Seq(Query)
        BY <1>2, EmptySeq, AppendProperties
      <4>3. QED
        BY <1>2, <4>1, <4>2 DEF CallStaysRight
    <3>3. QED
      BY <1>6, <3>1, <3>2 DEF Check, LookupFails, q
  <2>2. UNCHANGED mem
    BY <1>6 DEF Check, LookupFails
  <2>3. QED
    BY <1>1, <2>1, <2>2, CallsStayRight DEF RowsAreRight, MemoryIsRight, ChainsAreUsed
<1>7. CASE LookupMemory(p) \/ LookupDisk(p)
  <2>1. PICK v \in {None, Answer[c][q]} :
          /\ Hit(p, q, v) \/ call' = [call EXCEPT ![p].got[q] = v]
          /\ UNCHANGED mem \/ mem' = [mem EXCEPT ![p][c][q] = v]
    <3>1. CASE LookupMemory(p)
      BY <1>2, <3>1 DEF LookupMemory, q
    <3>2. CASE LookupDisk(p)
      BY <1>2, <3>2 DEF LookupDisk, q
    <3>3. QED
      BY <1>7, <3>1, <3>2
  <2>2. CallStaysRight(p)
    BY <1>5, <2>1
  <2>3. MemoryIsRight'
    BY <1>2, <2>1, RememberRight DEF MemoryIsRight
  <2>4. QED
    BY <1>1, <2>2, <2>3, CallsStayRight DEF RowsAreRight, ChainsAreUsed
<1>8. QED
  BY <1>6, <1>7

\* The reply: misses get the answers of the node, in order.
LEMMA AskRight ==
  ASSUME IInv, Right, NEW p \in Proc, Ask(p)
  PROVE  Right'
<1> USE DEF IInv, Right
<1> DEFINE r == call[p]
           g == Replied(p)
<1>1. /\ pc[p] = "ask" /\ UNCHANGED <<db, conn, loaded, mem>>
      /\ call' = [call EXCEPT ![p].got = g] \/ Return(p)
  BY DEF Ask, Replied
<1>2. /\ r.chain \in ChainId /\ r \in Call
      /\ r.left \in Seq(Query) /\ r.miss \in Seq(Query)
  BY <1>1, Running DEF Where
<1>3. g \in Answers /\ \A q \in Query : g[q] \in {None, r.got[q], Answer[r.chain][q]}
  BY <1>2, Paired
<1> HIDE DEF g
<1>4. ASSUME call' = [call EXCEPT ![p].got = g]
      PROVE  CallStaysRight(p)
  <2>1. call' = [call EXCEPT ![p] = [r EXCEPT !.got = g]]
    BY <1>4
  <2>2. [r EXCEPT !.got = g] = [chain |-> r.chain, multi |-> r.multi, left |-> r.left,
                                miss |-> r.miss, got |-> g]
    BY <1>2, <1>3, SetGot
  <2>3. Becomes(p, r.left, r.miss, g)
    BY <2>1, <2>2 DEF Becomes
  <2>4. QED
    BY <1>2, <1>3, <2>3 DEF CallStaysRight
<1>5. CallStaysRight(p)
  BY <1>1, <1>4, EndStaysRight
<1>6. QED
  BY <1>1, <1>5, CallsStayRight DEF RowsAreRight, MemoryIsRight, ChainsAreUsed

\* What is remembered and stored for a missed query is its answer.
LEMMA StoreRight ==
  ASSUME OneChainEach, IInv, Right, NEW p \in Proc, StoreLock(p) \/ Store(p)
  PROVE  Right'
<1> USE DEF IInv, Right
<1> DEFINE r == call[p]
           c == r.chain
           q == Head(r.miss)
           v == r.got[q]
<1>1. /\ pc[p] \in {"store", "storing"} /\ UNCHANGED <<conn, loaded>> /\ r.miss # <<>>
  BY DEF StoreLock, Store, Working
<1>2. /\ c \in ChainId /\ conn[p] = c /\ q \in Query /\ v = Answer[c][q] /\ v \in Val
      /\ r.left \in Seq(Query) /\ r.miss \in Seq(Query) /\ Tail(r.miss) \in Seq(Query)
      /\ r.got \in Answers
  <2>1. pc[p] \in Where \ {"idle", "open", "sweep"} /\ Types /\ Working(p)
    BY <1>1 DEF Where
  <2>2. /\ c \in ChainId /\ conn[p] = c /\ q \in Query
        /\ r.left \in Seq(Query) /\ r.miss \in Seq(Query) /\ Tail(r.miss) \in Seq(Query)
        /\ r.got \in Answers
    BY <1>1, <2>1, Running, OwnFile
  <2>3. 1 \in 1..Len(r.miss) /\ q = r.miss[1]
    BY <1>1, <2>2, HeadTailProperties, LenProperties, EmptySeq
  <2>4. v # None /\ v \in {None, Answer[c][q]}
    BY <1>1, <2>1, <2>2, <2>3, Values DEF Working, AnswersAreRight
  <2>5. QED
    BY <2>2, <2>4, Values
<1> HIDE DEF q, v
<1>3. CASE StoreLock(p)
  <2>1. /\ mem' = [mem EXCEPT ![p][c][q] = v] /\ UNCHANGED db
        /\ UNCHANGED call \/ Return(p)
    BY <1>3 DEF StoreLock, Blocked, q, v
  <2>2. MemoryIsRight'
    BY <1>2, <2>1, RememberRight
  <2>3. CallStaysRight(p)
    BY <2>1, EndStaysRight DEF CallStaysRight
  <2>4. QED
    BY <1>1, <2>1, <2>2, <2>3, CallsStayRight DEF RowsAreRight, ChainsAreUsed
<1>4. CASE Store(p)
  <2> DEFINE row == [val |-> v, exp |-> now + Ttl]
             rows == [db[c] EXCEPT ![q] = row]
             flushed == Flushed(rows, queue[p])
  <2>1. /\ UNCHANGED mem /\ call' = [call EXCEPT ![p].miss = Tail(@)]
        /\ \/ db' = [db EXCEPT ![c] = rows]
           \/ db' = [db EXCEPT ![c] = flushed]
           \/ UNCHANGED db
    BY <1>2, <1>4 DEF Store, q, v
  <2>2. row \in Row /\ row.val = Answer[c][q]
    BY <1>2, CacheAssumption DEF Types, Row
  <2> HIDE DEF row
  <2>3. /\ rows \in [Query -> Row \union {None}]
        /\ \A x \in Query : rows[x] # None => rows[x].val = Answer[c][x]
    BY <1>2, <2>2 DEF Types, RowsAreRight
  <2> HIDE DEF rows
  <2>4. queue[p] \in [Query -> 0..(MaxNow + Ttl) \union {None}]
    BY DEF Types
  <2>5. \A x \in Query : flushed[x] # None => flushed[x].val = Answer[c][x]
    BY <1>2, <2>3, <2>4, FlushIsRight
  <2> HIDE DEF flushed
  <2>6. RowsAreRight'
    BY <1>2, <2>1, <2>3, <2>5, FileIsRight DEF RowsAreRight
  <2>7. CallStaysRight(p)
    <3>1. call \in [Proc -> Call]
      BY DEF Types
    <3>2. Becomes(p, r.left, Tail(r.miss), r.got)
      BY <1>1, <1>2, <2>1, <3>1, CallSteps, Values
    <3>3. QED
      BY <1>2, <3>2 DEF CallStaysRight
  <2>8. QED
    BY <1>1, <2>1, <2>6, <2>7, CallsStayRight DEF MemoryIsRight, ChainsAreUsed
<1>5. QED
  BY <1>3, <1>4

\* The end of a flush in a call: the value read before it is remembered.
LEMMA FlushRight ==
  ASSUME OneChainEach, IInv, Right, NEW p \in Proc, Flush(p)
  PROVE  Right'
<1> USE DEF IInv, Right
<1> DEFINE r == call[p]
           c == r.chain
           q == Head(r.left)
           v == r.got[q]
           rows == Flushed(db[c], queue[p])
           g == [r.got EXCEPT ![q] = v]
<1>1. /\ pc[p] = "flushing" /\ UNCHANGED <<conn, loaded>> /\ r.left # <<>>
  BY DEF Flush, Working
<1>2. /\ c \in ChainId /\ conn[p] = c /\ q \in Query
      /\ r.left \in Seq(Query) /\ Tail(r.left) \in Seq(Query) /\ r.miss \in Seq(Query)
      /\ r.got \in Answers
  <2>1. pc[p] \in Where \ {"idle", "open", "sweep"} /\ Types /\ Working(p)
    BY <1>1 DEF Where
  <2>2. QED
    BY <1>1, <2>1, Running, OwnFile
<1>3. /\ Hit(p, q, v) /\ mem' = [mem EXCEPT ![p][c][q] = v]
      /\ db' = [db EXCEPT ![c] = rows] \/ UNCHANGED db
  BY <1>2 DEF Flush
<1> HIDE DEF q
<1>4. v \in {None, Answer[c][q]} /\ v \in Val \union {None}
  BY <1>2, Values DEF AnswersAreRight, Answers
<1> HIDE DEF v
<1>5. RowsAreRight'
  <2>1. /\ queue[p] \in [Query -> 0..(MaxNow + Ttl) \union {None}]
        /\ db[c] \in [Query -> Row \union {None}]
        /\ \A x \in Query : db[c][x] # None => db[c][x].val = Answer[c][x]
    BY <1>2 DEF Types, RowsAreRight
  <2>2. \A x \in Query : rows[x] # None => rows[x].val = Answer[c][x]
    BY <1>2, <2>1, FlushIsRight
  <2> HIDE DEF rows
  <2>3. QED
    BY <1>2, <1>3, <2>2, FileIsRight DEF RowsAreRight
<1>6. MemoryIsRight'
  BY <1>2, <1>3, <1>4, RememberRight
<1>7. CallStaysRight(p)
  <2>1. call \in [Proc -> Call] /\ g \in Answers
    BY <1>2, <1>4 DEF Types, Answers
  <2>2. Becomes(p, Tail(r.left), r.miss, g)
    BY <1>1, <1>2, <1>3, <1>4, <2>1, CallSteps
  <2>3. \A x \in Query : g[x] \in {None, r.got[x], Answer[c][x]}
    BY <1>2, <1>4 DEF Answers
  <2> HIDE DEF g
  <2>4. QED
    BY <1>2, <2>1, <2>2, <2>3 DEF CallStaysRight
<1>8. QED
  BY <1>1, <1>5, <1>6, <1>7, CallsStayRight DEF ChainsAreUsed

\* Every step keeps what is stored and collected right.
LEMMA NextRight ==
  ASSUME OneChainEach, IInv, Right, [Next]_vars
  PROVE  Right'
<1>1. ASSUME NEW p \in Proc, NEW c \in ChainId, NEW q \in Query, EvictMemory(p, c, q)
      PROVE  Right'
  <2>1. mem' = [mem EXCEPT ![p][c][q] = None] /\ UNCHANGED <<db, conn, loaded, call>>
    BY <1>1 DEF EvictMemory
  <2>2. MemoryIsRight'
    BY <2>1, RememberRight DEF IInv, Right
  <2>3. QED
    BY <2>1, <2>2 DEF Right, RowsAreRight, ChainsAreUsed, AnswersAreRight
<1>2. CASE Tick \/ UNCHANGED vars
  BY <1>2 DEF Tick, vars, Right, RowsAreRight, MemoryIsRight, ChainsAreUsed, AnswersAreRight
<1>3. QED
  BY <1>1, <1>2, BoundaryRight, SweepExitRight, LookupRight, AskRight, StoreRight, FlushRight
     DEF Next, Step

\* Among processes that fork one chain each, whatever the others store, sweep, refresh or
\* leave half done, what a fetch or a fetch_multi collects is what its node answers.
THEOREM AnswersAreAlwaysRight == OneChainEach /\ Spec => []AnswersAreRight
<1> SUFFICES ASSUME OneChainEach PROVE Spec => []AnswersAreRight
  OBVIOUS
<1>1. IInv /\ Right /\ [Next]_vars => IInv' /\ Right'
  BY NextInvariant, NextRight
<1>2. Right => AnswersAreRight
  BY DEF Right
<1>3. QED
  BY InitInvariant, InitRight, <1>1, <1>2, PTL DEF Spec

\* Among such processes, every CachingRPC works on the file of its own chain.
THEOREM FilesAreOwn == OneChainEach /\ Spec => []OneFilePerChain
<1> SUFFICES ASSUME OneChainEach PROVE Spec => []OneFilePerChain
  OBVIOUS
<1>1. IInv /\ Right /\ [Next]_vars => IInv' /\ Right'
  BY NextInvariant, NextRight
<1>2. IInv /\ Right => OneFilePerChain
  BY DEF IInv, Right, ChainsAreUsed, Working, OneChainEach, OneFilePerChain, Types
<1>3. QED
  BY InitInvariant, InitRight, <1>1, <1>2, PTL DEF Spec
=============================================================================

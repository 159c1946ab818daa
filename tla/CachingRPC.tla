----------------------------- MODULE CachingRPC -----------------------------
(***************************************************************************)
(* boa/vm/fork.py (class CachingRPC) over boa/util/sqlitedb.py: the RPC    *)
(* cache of forked environments.  A fetch is looked up in a memory layer   *)
(* of its CachingRPC (py-evm's CacheDB), then in a sqlite file that every  *)
(* process on the machine shares, then asked from the node and stored in   *)
(* both.  Rows expire; expired rows are swept when a process opens the     *)
(* file; hits queue a new expiry date, and the queue is flushed in batches.*)
(*                                                                         *)
(* Each process runs Python statements one after the other; processes      *)
(* interleave at their accesses to the file and to the node.  Writers      *)
(* exclude each other by BEGIN IMMEDIATE, retried a bounded number of      *)
(* times; readers never wait (write-ahead log).  A query names a pinned    *)
(* block, so that the node's answer to it never changes.                   *)
(***************************************************************************)
EXTENDS Naturals, Sequences, SequencesExt

CONSTANTS
  Proc,         \* processes
  ChainId,      \* chains; a cache file is named after one
  Query,        \* (method, params) pairs, the keys of the cache
  Answer,       \* [ChainId -> [Query -> value]]: what the nodes answer
  Single,       \* the queries given to fetch
  Payload,      \* [Proc -> lists of queries]: what it gives to fetch_multi
  Uses,         \* [Proc -> SUBSET ChainId]: the chains a process forks
  Ttl,          \* life of a row
  MaxNow,       \* bound on time
  MaxRetry,     \* failed attempts to lock that raise (1000)
  None          \* no row, no value, no connection, no lock holder

Val == UNION {{Answer[c][q] : q \in Query} : c \in ChainId}
Row == [val: Val, exp: 0..(MaxNow + Ttl)]

ASSUME CacheAssumption ==
  /\ Answer \in [ChainId -> [Query -> Val]]
  /\ Single \subseteq Query
  /\ \A p \in Proc : \A qs \in Payload[p] : qs \in Seq(Query) /\ IsInjective(qs)
  /\ Uses \in [Proc -> SUBSET ChainId]
  /\ Ttl \in Nat /\ MaxNow \in Nat /\ MaxRetry \in Nat
  /\ None \notin Val \union Proc \union ChainId \union Row

VARIABLES
  now,          \* the clock
  db,           \* the files' rows
  lock,         \* the files' writers
  conn,         \* SqliteCache._GLOBAL of each process, by the file it opened
  loaded,       \* CachingRPC._loaded of each process
  mem,          \* the memory layer of each process's CachingRPC objects
  queue,        \* _expiry_updates of each process: the last date queued per key
  retry,        \* failed attempts of the running acquire_write_lock
  pc,           \* where each process is
  call,         \* the running call of each process
  lastUse       \* when each file's rows were last read or stored (for the properties)

vars == <<now, db, lock, conn, loaded, mem, queue, retry, pc, call, lastUse>>

\* A call: the chain whose CachingRPC runs it, whether it is fetch_multi, the
\* queries still to look up, those to ask the node, and the answers so far.
NoAnswers == [q \in Query |-> None]
Idle == [chain |-> None, multi |-> FALSE, left |-> <<>>, miss |-> <<>>, got |-> NoAnswers]

Fresh == [c \in ChainId |-> NoAnswers]

Init ==
  /\ now = 0
  /\ db = [f \in ChainId |-> [q \in Query |-> None]]
  /\ lock = [f \in ChainId |-> None]
  /\ conn = [p \in Proc |-> None]
  /\ loaded = [p \in Proc |-> {}]
  /\ mem = [p \in Proc |-> Fresh]
  /\ queue = [p \in Proc |-> NoAnswers]
  /\ retry = [p \in Proc |-> 0]
  /\ pc = [p \in Proc |-> "idle"]
  /\ call = [p \in Proc |-> Idle]
  /\ lastUse = [f \in ChainId |-> [q \in Query |-> 0]]

Goto(p, where) == pc' = [pc EXCEPT ![p] = where]

\* The call of p ends, with a result or by an exception.
Return(p) ==
  /\ call' = [call EXCEPT ![p] = Idle]
  /\ Goto(p, "idle")

(***************************************************************************)
(* acquire_write_lock                                                      *)
(***************************************************************************)

\* BEGIN IMMEDIATE on file f succeeds, and the body runs at "next" ...
Locked(p, f, next) ==
  /\ lock[f] = None
  /\ lock' = [lock EXCEPT ![f] = p]
  /\ retry' = [retry EXCEPT ![p] = 0]
  /\ Goto(p, next)

\* Retrying without a limit.
BlockedForever(p, f) == lock[f] # None /\ UNCHANGED <<pc, call, lock, retry>>

\* ... or fails because another process writes; after too many failures the
\* call raises "deadlock encountered!".
Blocked(p, f) ==
  /\ lock[f] # None
  /\ IF retry[p] < MaxRetry
     THEN /\ retry' = [retry EXCEPT ![p] = @ + 1]
          /\ UNCHANGED <<pc, call, lock>>
     ELSE /\ retry' = [retry EXCEPT ![p] = 0]
          /\ Return(p)
          /\ UNCHANGED lock

\* An exit from the context manager that leaves the transaction open.
ReleaseForgotten(f) == UNCHANGED lock

\* COMMIT or ROLLBACK.
Release(f) == lock' = [lock EXCEPT ![f] = None]

\* A flush that dates every queued refresh anew.
DatedLate(rows, updates) ==
  [q \in Query |-> IF rows[q] = None \/ updates[q] = None THEN rows[q]
                   ELSE [rows[q] EXCEPT !.exp = now + Ttl]]

\* Rows with the queued expiry dates; a queued update of a row that is gone has
\* no effect.
Flushed(rows, updates) ==
  [q \in Query |-> IF rows[q] = None \/ updates[q] = None THEN rows[q]
                   ELSE [rows[q] EXCEPT !.exp = updates[q]]]

(***************************************************************************)
(* CachingRPC(rpc, chain, ...): __new__ looks the object up, __init__ runs *)
(* in any case and gives it a new, empty memory layer over the process's   *)
(* one SqliteCache, which the first construction opens.                    *)
(***************************************************************************)

\* SqliteCache.create: opened once, whatever the path.
MustOpen(p, c) == conn[p] = None

Construct(p, c) ==
  /\ pc[p] = "idle"
  /\ c \in Uses[p]
  /\ IF MustOpen(p, c)
     THEN /\ Goto(p, "open")
          /\ call' = [call EXCEPT ![p] = [Idle EXCEPT !.chain = c]]
          /\ UNCHANGED <<loaded, mem>>
     ELSE /\ loaded' = [loaded EXCEPT ![p] = @ \union {c}]
          /\ mem' = [mem EXCEPT ![p][c] = NoAnswers]
          /\ UNCHANGED <<pc, call>>
  /\ UNCHANGED <<now, db, lock, conn, queue, retry, lastUse>>

\* SqliteCache.__init__ creates the table and sweeps, each under the lock.
OpenLock(p) ==
  /\ pc[p] = "open"
  /\ LET f == call[p].chain
     IN  \/ Locked(p, f, "sweep") /\ UNCHANGED call
         \/ Blocked(p, f)
  /\ UNCHANGED <<now, db, conn, loaded, mem, queue, lastUse>>

Expired(row) == row # None /\ row.exp < now

\* gc, then the end of SqliteCache.__init__ and of CachingRPC.__init__.
Sweep(p) ==
  /\ pc[p] = "sweep"
  /\ LET f == call[p].chain
     IN  /\ db' = [db EXCEPT ![f] = [q \in Query |-> IF Expired(@[q]) THEN None ELSE @[q]]]
         /\ Release(f)
         /\ conn' = [conn EXCEPT ![p] = f]
         /\ loaded' = [loaded EXCEPT ![p] = @ \union {f}]
         /\ mem' = [mem EXCEPT ![p][f] = NoAnswers]
  /\ Return(p)
  /\ UNCHANGED <<now, queue, retry, lastUse>>

(***************************************************************************)
(* fetch and fetch_multi                                                   *)
(***************************************************************************)

StartFetch(p, c, q) ==
  /\ pc[p] = "idle"
  /\ c \in loaded[p]
  /\ Goto(p, "check")
  /\ call' = [call EXCEPT ![p] = [Idle EXCEPT !.chain = c, !.left = <<q>>]]
  /\ UNCHANGED <<now, db, lock, conn, loaded, mem, queue, retry, lastUse>>

StartFetchMulti(p, c, qs) ==
  /\ pc[p] = "idle"
  /\ c \in loaded[p]
  /\ Goto(p, "lookup")
  /\ call' = [call EXCEPT ![p] = [Idle EXCEPT !.chain = c, !.multi = TRUE, !.left = qs]]
  /\ UNCHANGED <<now, db, lock, conn, loaded, mem, queue, retry, lastUse>>

InMemory(p, q) == mem[p][call[p].chain][q]
OnDisk(p, q) == db[conn[p]][q]
Use(p, q) == lastUse' = [lastUse EXCEPT ![conn[p]][q] = now]

\* fetch: `key in self._db`, a question of its own to the file.
Check(p) ==
  /\ pc[p] = "check"
  /\ LET q == Head(call[p].left)
     IN  IF InMemory(p, q) # None \/ OnDisk(p, q) # None
         THEN Goto(p, "lookup") /\ UNCHANGED call
         ELSE /\ Goto(p, "ask")
              /\ call' = [call EXCEPT ![p].left = <<>>, ![p].miss = <<q>>]
  /\ UNCHANGED <<now, db, lock, conn, loaded, mem, queue, retry, lastUse>>

\* The lookup of q found v: it is the next query's turn.
Hit(p, q, v) ==
  call' = [call EXCEPT ![p].left = Tail(@), ![p].got[q] = v]

\* `self._db[key]` in the memory layer.
LookupMemory(p) ==
  /\ pc[p] = "lookup" /\ call[p].left # <<>>
  /\ LET q == Head(call[p].left)
     IN  /\ InMemory(p, q) # None
         /\ Hit(p, q, InMemory(p, q))
  /\ UNCHANGED <<now, db, lock, conn, loaded, mem, queue, retry, pc, lastUse>>

\* `self._db[key]` in the file.  The row's life is extended in the queue unless
\* it is about to end, and a flush may be due: the queue is full, or a second
\* has passed since the last one (time here is counted in far larger units, so
\* that this may be so or not).
LookupDisk(p) ==
  /\ pc[p] = "lookup" /\ call[p].left # <<>>
  /\ LET q == Head(call[p].left)
         row == OnDisk(p, q)
         Found == /\ Hit(p, q, row.val)
                  /\ mem' = [mem EXCEPT ![p][call[p].chain][q] = row.val]
                  /\ UNCHANGED pc
     IN  /\ InMemory(p, q) = None
         /\ row # None
         /\ \/ 100 * row.exp <= Ttl + 100 * now /\ Found /\ UNCHANGED queue
            \/ /\ 100 * row.exp > Ttl + 100 * now
               /\ queue' = [queue EXCEPT ![p][q] = now + Ttl]
               /\ \/ Found
                  \/ \* __getitem__ flushes before it returns the value
                     /\ call' = [call EXCEPT ![p].got[q] = row.val]
                     /\ Goto(p, "flush")
                     /\ UNCHANGED mem
         /\ Use(p, q)
  /\ UNCHANGED <<now, db, lock, conn, loaded, retry>>

FlushLock(p) ==
  /\ pc[p] = "flush"
  /\ \/ Locked(p, conn[p], "flushing") /\ UNCHANGED call
     \/ Blocked(p, conn[p])
  /\ UNCHANGED <<now, db, conn, loaded, mem, queue, lastUse>>

\* _flush; an error inside the transaction rolls it back and is swallowed.
Flush(p) ==
  /\ pc[p] = "flushing"
  /\ \/ db' = [db EXCEPT ![conn[p]] = Flushed(@, queue[p])]
     \/ UNCHANGED db
  /\ Release(conn[p])
  /\ queue' = [queue EXCEPT ![p] = NoAnswers]
  /\ LET q == Head(call[p].left)
         v == call[p].got[q]
     IN  Hit(p, q, v) /\ mem' = [mem EXCEPT ![p][call[p].chain][q] = v]
  /\ Goto(p, "lookup")
  /\ UNCHANGED <<now, conn, loaded, retry, lastUse>>

\* `self._db[key]` finds nothing: fetch_multi takes it for a miss, but fetch,
\* which has just seen the key, lets the KeyError escape.
LookupFails(p) ==
  /\ pc[p] = "lookup" /\ call[p].left # <<>>
  /\ LET q == Head(call[p].left)
     IN  /\ InMemory(p, q) = None /\ OnDisk(p, q) = None
         /\ IF call[p].multi
            THEN /\ call' = [call EXCEPT ![p].left = Tail(@), ![p].miss = Append(@, q)]
                 /\ UNCHANGED pc
            ELSE Return(p) \* KeyError
  /\ UNCHANGED <<now, db, lock, conn, loaded, mem, queue, retry, lastUse>>

\* Every query has been looked up: return, or ask for the misses.
LookupDone(p) ==
  /\ pc[p] = "lookup" /\ call[p].left = <<>>
  /\ IF call[p].miss = <<>>
     THEN Return(p)
     ELSE Goto(p, "ask") /\ UNCHANGED call
  /\ UNCHANGED <<now, db, lock, conn, loaded, mem, queue, retry, lastUse>>

\* Results handed to the wrong queries: the order of the payload for that of
\* the batch.
ReplyShifted(p) ==
  LET c == call[p].chain
  IN  [i \in 1..Len(call[p].miss) |-> Answer[c][call[p].miss[Len(call[p].miss) + 1 - i]]]

\* What the node answers to the batch of misses.
Reply(p) ==
  LET c == call[p].chain
  IN  [i \in 1..Len(call[p].miss) |-> Answer[c][call[p].miss[i]]]

\* One request to the node for all misses, which may fail as a whole; the
\* results are paired with the missed queries by position.
Ask(p) ==
  /\ pc[p] = "ask"
  /\ \/ /\ LET miss == call[p].miss
               IndexOf(q) == CHOOSE i \in 1..Len(miss) : miss[i] = q
           IN  call' = [call EXCEPT ![p].got =
                          [q \in Query |-> IF q \in ToSet(miss) THEN Reply(p)[IndexOf(q)]
                                                               ELSE @[q]]]
        /\ Goto(p, "store")
     \/ Return(p) \* RPCError
  /\ UNCHANGED <<now, db, lock, conn, loaded, mem, queue, retry, lastUse>>

\* `self._db[key] = ...` for the next missed query: the memory layer first.
StoreLock(p) ==
  /\ pc[p] = "store" /\ call[p].miss # <<>>
  /\ LET q == Head(call[p].miss)
     IN  mem' = [mem EXCEPT ![p][call[p].chain][q] = call[p].got[q]]
  /\ \/ Locked(p, conn[p], "storing") /\ UNCHANGED call
     \/ Blocked(p, conn[p])
  /\ UNCHANGED <<now, db, conn, loaded, queue, lastUse>>

\* The insertion, with a flush if one is due; or an error, rolled back.
Store(p) ==
  /\ pc[p] = "storing"
  /\ LET q == Head(call[p].miss)
         rows == [db[conn[p]] EXCEPT ![q] = [val |-> call[p].got[q], exp |-> now + Ttl]]
     IN  \/ /\ db' = [db EXCEPT ![conn[p]] = rows]
            /\ Use(p, q) /\ UNCHANGED queue
         \/ /\ queue[p] # NoAnswers
            /\ db' = [db EXCEPT ![conn[p]] = Flushed(rows, queue[p])]
            /\ Use(p, q) /\ queue' = [queue EXCEPT ![p] = NoAnswers]
         \/ UNCHANGED <<db, queue, lastUse>>
  /\ Release(conn[p])
  /\ call' = [call EXCEPT ![p].miss = Tail(@)]
  /\ Goto(p, "store")
  /\ UNCHANGED <<now, conn, loaded, mem, retry>>

StoreDone(p) ==
  /\ pc[p] = "store" /\ call[p].miss = <<>>
  /\ Return(p)
  /\ UNCHANGED <<now, db, lock, conn, loaded, mem, queue, retry, lastUse>>

\* The memory layer is a bounded LRU: any entry may be gone at any time.
EvictMemory(p, c, q) ==
  /\ mem[p][c][q] # None
  /\ mem' = [mem EXCEPT ![p][c][q] = None]
  /\ UNCHANGED <<now, db, lock, conn, loaded, queue, retry, pc, call, lastUse>>

(***************************************************************************)
(* Processes end: in good order, when __del__ tries to flush, or killed at *)
(* any point, when sqlite drops the transaction and its lock.              *)
(***************************************************************************)
Exit(p) ==
  /\ conn[p] # None \/ pc[p] # "idle"
  /\ \/ /\ pc[p] = "idle" /\ queue[p] # NoAnswers /\ lock[conn[p]] = None
        /\ db' = [db EXCEPT ![conn[p]] = Flushed(@, queue[p])]
     \/ UNCHANGED db
  /\ lock' = [f \in ChainId |-> IF lock[f] = p THEN None ELSE lock[f]]
  /\ conn' = [conn EXCEPT ![p] = None]
  /\ loaded' = [loaded EXCEPT ![p] = {}]
  /\ mem' = [mem EXCEPT ![p] = Fresh]
  /\ queue' = [queue EXCEPT ![p] = NoAnswers]
  /\ retry' = [retry EXCEPT ![p] = 0]
  /\ Return(p)
  /\ UNCHANGED <<now, lastUse>>

Tick ==
  /\ now < MaxNow
  /\ now' = now + 1
  /\ UNCHANGED <<db, lock, conn, loaded, mem, queue, retry, pc, call, lastUse>>

\* What a process does on its own once a call runs.
Step(p) ==
  \/ OpenLock(p) \/ Sweep(p) \/ Check(p)
  \/ LookupMemory(p) \/ LookupDisk(p) \/ LookupFails(p) \/ LookupDone(p)
  \/ FlushLock(p) \/ Flush(p)
  \/ Ask(p) \/ StoreLock(p) \/ Store(p) \/ StoreDone(p)

Next ==
  \/ \E p \in Proc :
       \/ \E c \in ChainId : \/ Construct(p, c)
                             \/ \E q \in Single : StartFetch(p, c, q)
                             \/ \E qs \in Payload[p] : StartFetchMulti(p, c, qs)
                             \/ \E q \in Query : EvictMemory(p, c, q)
       \/ Step(p)
       \/ Exit(p)
  \/ Tick

\* A process that runs a call goes on running.
Spec == Init /\ [][Next]_vars /\ \A p \in Proc : WF_vars(Step(p))

(***************************************************************************)
(* Properties                                                              *)
(***************************************************************************)

Where == {"idle", "open", "sweep", "check", "lookup", "flush", "flushing", "ask",
          "store", "storing"}

\* Type correctness; a process holds the lock of at most the file it works on,
\* and only between BEGIN IMMEDIATE and COMMIT or ROLLBACK.
TypeOK ==
  /\ now \in 0..MaxNow
  /\ db \in [ChainId -> [Query -> Row \union {None}]]
  /\ lock \in [ChainId -> Proc \union {None}]
  /\ conn \in [Proc -> ChainId \union {None}]
  /\ loaded \in [Proc -> SUBSET ChainId]
  /\ mem \in [Proc -> [ChainId -> [Query -> Val \union {None}]]]
  /\ queue \in [Proc -> [Query -> 0..(MaxNow + Ttl) \union {None}]]
  /\ retry \in [Proc -> 0..MaxRetry]
  /\ pc \in [Proc -> Where]
  /\ lastUse \in [ChainId -> [Query -> 0..MaxNow]]
  /\ \A p \in Proc : pc[p] \in {"sweep", "flushing", "storing"} <=>
                       \E f \in ChainId : lock[f] = p

\* Whatever other processes store, sweep, refresh or leave half done, what a
\* fetch or a fetch_multi collects for a query, to return it, is the answer of
\* its own chain's node to that query.
AnswersAreRight ==
  \A p \in Proc, q \in Query :
    call[p].chain # None => call[p].got[q] \in {None, Answer[call[p].chain][q]}

\* A process that opens a file leaves no row in it that nobody read or stored
\* for longer than a row's life: a refresh counts from the use it was queued at,
\* although it is written later, at once with others, at the end of the process,
\* after the row was swept and stored anew by another one, or never.  (Nothing
\* promises the converse: a late refresh may set back the date of a newer row.)
UnusedRowsGo ==
  [][\A p \in Proc, q \in Query :
       LET f == conn'[p]
       IN  conn[p] = None /\ f # None /\ db'[f][q] # None
             => now <= lastUse[f][q] + Ttl]_vars

\* Every call returns or raises: nobody waits for ever for a lock, whoever
\* holds it, not even if its holder is killed.
CallsEnd == \A p \in Proc : pc[p] # "idle" ~> pc[p] = "idle"

\* "One sqlite db file is generated per chain id": a CachingRPC works on the
\* file of its own chain.
OneFilePerChain == \A p \in Proc : \A c \in loaded[p] : conn[p] = c
=============================================================================

--------------------------- MODULE JupyterBridge ---------------------------
(***************************************************************************)
(* boa/integrations/jupyter: the kernel asks the browser's wallet.         *)
(*                                                                         *)
(* _javascript_call makes a shared memory named by a fresh token, displays *)
(* a snippet that carries the token, and polls the memory until its first  *)
(* byte is not NUL or the deadline has passed.  The browser runs the       *)
(* snippet, and runs it again whenever the page is reloaded: it asks the   *)
(* server whether the memory exists, then the wallet, then posts the       *)
(* answer, which the server copies into the memory.                        *)
(*                                                                         *)
(* Kernel, server and browser are separate processes: a poll may find an   *)
(* answer half copied.  A body is a sequence of cells, each of which names *)
(* the run that wrote it; the cells are copied in any order.               *)
(***************************************************************************)
EXTENDS Naturals, Sequences, FiniteSets

CONSTANTS
  Account,      \* the accounts of the wallet
  BufLen,       \* SHARED_MEMORY_LENGTH, in cells
  BodyLen,      \* the lengths that the body of an answer may have
  MaxCalls,     \* bound on the calls of _javascript_call
  MaxRuns       \* bound on the runs of a snippet, replays included

ASSUME BridgeAssumption ==
  /\ BufLen \in Nat \ {0} /\ BodyLen \subseteq Nat \ {0}
  /\ MaxCalls \in Nat /\ MaxRuns \in Nat

VARIABLES
  todo,         \* the calls that the running operation has still to make
  given,        \* the signer's _given_address, or Any
  address,      \* its address
  call,         \* the token that the kernel waits for, or Nobody
  calls,        \* the number of calls so far
  memory,       \* the shared memories by token: [linked, buf, kind, arg]
  runs,         \* the runs of snippets in the browser
  sent,         \* the transactions the wallet has sent: the runs that asked
  mined,        \* those the chain has included
  got           \* what the operation's calls returned, in order

bridgeVars == <<todo, given, address, call, calls, memory, runs, sent, mined, got>>

Nobody == 0
Token == 1..MaxCalls
NUL == 0
Any == 0
DefaultAccount == CHOOSE a \in Account : TRUE

\* A call's answer: from which run, and whether it is an error.
Answer(r, ok, val) == [run |-> r, ok |-> ok, val |-> val]
Empty == [i \in 1..BufLen |-> NUL]

BridgeInit ==
  /\ todo = <<>> /\ given \in {Any, DefaultAccount} /\ address = given /\ call = Nobody /\ calls = 0
  /\ memory = <<>> /\ runs = <<>> /\ sent = {} /\ mined = {} /\ got = <<>>

(***************************************************************************)
(* The kernel                                                              *)
(***************************************************************************)

\* BrowserSigner.update_address asks for the accounts; BrowserEnv.execute_code
\* and deploy do so first, then send_transaction and wait_for_tx_receipt.  The
\* sender is the default one.  The requests between (for the block, the fees, the
\* nonce and the gas) are left out: each is one more call that may fail.
SendsAtOnce(op) == IF op = "update" THEN <<"accounts">> ELSE <<"send", "receipt">>
Plan(op) == IF op = "update" THEN <<"accounts">> ELSE <<"accounts", "send", "receipt">>

Begin(op) ==
  /\ todo = <<>>
  /\ calls + Len(Plan(op)) <= MaxCalls
  /\ todo' = Plan(op) /\ got' = <<>>
  /\ UNCHANGED <<given, address, call, calls, memory, runs, sent, mined>>

\* _generate_token
AlwaysTheSame(n) == 1
FreshToken(n) == n + 1

\* _javascript_call up to the display; the argument is the sender of a
\* transaction, or the hash whose receipt is wanted.
Display ==
  /\ todo # <<>> /\ call = Nobody
  /\ LET t == FreshToken(calls)
         kind == Head(todo)
         arg == CASE kind = "send" -> address
                  [] kind = "receipt" -> got[Len(got)].val
                  [] OTHER -> 0
         new == [linked |-> TRUE, buf |-> Empty, kind |-> kind, arg |-> arg]
     IN /\ call' = t
        /\ memory' = IF t \in DOMAIN memory THEN [memory EXCEPT ![t] = new]
                     ELSE Append(memory, new)
  /\ calls' = calls + 1
  /\ UNCHANGED <<todo, given, address, runs, sent, mined, got>>

Buffer == memory[call].buf

\* The finally clause: unlink, which leaves the mappings of others alone.
KeepsMemory(m, t, ok) == IF ok THEN [m EXCEPT ![t].linked = FALSE, ![t].buf = Empty] ELSE m
Unlinked(m, t, ok) == [m EXCEPT ![t].linked = FALSE, ![t].buf = Empty]

\* The call returns or raises; an exception ends the operation.
EndCall(answer) ==
  /\ call' = Nobody
  /\ memory' = Unlinked(memory, call, answer.ok)
  /\ got' = Append(got, answer)
  /\ todo' = IF answer.ok THEN Tail(todo) ELSE <<>>
  /\ UNCHANGED <<given, calls, runs, sent, mined>>

\* update_address: a given address must be among the accounts, or else the
\* operation raises; without one, the wallet's first account is taken.
Checked(a) == IF Head(todo) = "accounts" /\ a.ok /\ given \notin {Any, a.val}
              THEN Answer(a.run, FALSE, 0) ELSE a
Addressed(a) == address' = IF Head(todo) = "accounts" /\ a.ok THEN a.val ELSE address

\* buffer.tobytes().split(NUL)[0]
Message ==
  LET n == CHOOSE k \in 0..BufLen :
             /\ \A i \in 1..k : Buffer[i] # NUL
             /\ k = BufLen \/ Buffer[k + 1] = NUL
  IN SubSeq(Buffer, 1, n)

\* A whole body parses.  A part of one does not, since it is a JSON object; of
\* two bodies that were copied over each other nobody knows.
Parsed(s) ==
  LET authors == {s[i] : i \in DOMAIN s}
      whole == {r \in authors : authors = {r} /\ Len(s) = runs[r].len}
  IN IF whole # {} THEN {runs[r].ans : r \in whole}
     ELSE {Answer(NUL, FALSE, 0)}
          \union (IF Cardinality(authors) > 1
                  THEN {Answer(NUL, TRUE, runs[r].ans.val) : r \in {q \in authors : runs[q].ans.ok}}
                  ELSE {})

Wake ==
  /\ call # Nobody /\ Buffer[1] # NUL
  /\ \E a \in Parsed(Message) : EndCall(Checked(a)) /\ Addressed(Checked(a))

\* A poll finds nothing and the deadline has passed, which may be at any time.
SleepsOn == call # Nobody /\ Buffer[1] = NUL /\ UNCHANGED bridgeVars
TimeOut ==
  /\ call # Nobody /\ Buffer[1] = NUL
  /\ EndCall(Answer(NUL, FALSE, 0)) /\ UNCHANGED address

(***************************************************************************)
(* The browser and the server                                              *)
(***************************************************************************)

\* The page shows the snippet of a call: when it is displayed, and on reloads.
\* handleCallback: nothing happens unless the server knows the token.
Replay(t) ==
  /\ t \in DOMAIN memory /\ memory[t].linked /\ Len(runs) < MaxRuns
  /\ runs' = Append(runs, [token |-> t, pc |-> "ask", late |-> t # call,
                           len |-> 0, ans |-> Answer(NUL, FALSE, 0)])
  /\ UNCHANGED <<todo, given, address, call, calls, memory, sent, mined, got>>

Reply(r, answer) == runs' = [runs EXCEPT ![r].pc = "post", ![r].ans = answer]

\* parsePromise(func(...args)): accounts and transactions, or an error.
AskWallet(r) ==
  LET m == memory[runs[r].token]
  IN /\ runs[r].pc = "ask" /\ m.kind \in {"accounts", "send"}
     /\ \/ Reply(r, Answer(r, FALSE, 0)) /\ UNCHANGED sent
        \/ m.kind = "accounts" /\ UNCHANGED sent
           /\ \E a \in Account : Reply(r, Answer(r, TRUE, a))
        \/ m.kind = "send" /\ sent' = sent \union {r} /\ Reply(r, Answer(r, TRUE, r))
     /\ UNCHANGED <<todo, given, address, call, calls, memory, mined, got>>

\* waitForTransactionReceipt polls until there is a receipt; it throws when its own
\* time is up or on an error other than the server's.
AskReceipt(r) ==
  LET m == memory[runs[r].token]
  IN /\ runs[r].pc = "ask" /\ m.kind = "receipt"
     /\ \/ m.arg \in mined /\ Reply(r, Answer(r, TRUE, m.arg))
        \/ Reply(r, Answer(r, FALSE, 0))
     /\ UNCHANGED <<todo, given, address, call, calls, memory, sent, mined, got>>

\* CallbackHandler.post: the memory is gone, or the body has no room for its NUL.
TooLong(n) == n + 1 > BufLen
PostRefused(r) ==
  /\ runs[r].pc = "post"
  /\ ~memory[runs[r].token].linked \/ \E n \in BodyLen : TooLong(n)
  /\ runs' = [runs EXCEPT ![r].pc = "end"]
  /\ UNCHANGED <<todo, given, address, call, calls, memory, sent, mined, got>>

\* memory.buf[: len(body) + 1] = body + NUL, as far as it is visible: the cells S.
Copied(r, n, S) ==
  memory' = [memory EXCEPT ![runs[r].token].buf =
    [i \in 1..BufLen |-> IF i \notin S THEN @[i] ELSE IF i <= n THEN r ELSE NUL]]

\* A prefix or a suffix of the body is copied; the server does one thing at a time.
Post(r, n, S) ==
  /\ runs[r].pc = "post" /\ memory[runs[r].token].linked
  /\ \A q \in DOMAIN runs : runs[q].pc # "copy"
  /\ ~TooLong(n) /\ \E k \in 1..(n + 1) : S = 1..k \/ S = k..(n + 1)
  /\ Copied(r, n, S)
  /\ runs' = [runs EXCEPT ![r].pc = "copy", ![r].len = n]
  /\ UNCHANGED <<todo, given, address, call, calls, sent, mined, got>>

\* The rest is copied; a memory that was unlinked meanwhile is nobody's.
PostEnds(r) ==
  LET run == runs[r]
  IN /\ run.pc = "copy"
     /\ runs' = [runs EXCEPT ![r].pc = "end"]
     /\ IF memory[run.token].linked THEN Copied(r, run.len, 1..(run.len + 1))
        ELSE UNCHANGED memory
     /\ UNCHANGED <<todo, given, address, call, calls, sent, mined, got>>

Mine(r) ==
  /\ r \in sent \ mined /\ mined' = mined \union {r}
  /\ UNCHANGED <<todo, given, address, call, calls, memory, runs, sent, got>>

Kernel == Display \/ Wake \/ TimeOut

BridgeNext ==
  \/ \E op \in {"update", "execute"} : Begin(op)
  \/ Display \/ Wake \/ TimeOut
  \/ \E t \in Token : Replay(t)
  \/ \E r \in DOMAIN runs : AskWallet(r) \/ AskReceipt(r) \/ PostRefused(r) \/ PostEnds(r)
  \/ \E r \in DOMAIN runs, n \in BodyLen, S \in SUBSET (1..BufLen) : Post(r, n, S)
  \/ \E r \in sent : Mine(r)

\* The kernel's event loop runs and its clock advances; nothing is assumed of
\* the browser, the wallet and the chain.
BridgeFairness == WF_bridgeVars(Kernel)

(***************************************************************************)
(* Properties                                                              *)
(***************************************************************************)

\* The calls of an operation are the last ones made.
TokenOf(k) == calls - Len(got) + k - (IF call = Nobody THEN 0 ELSE 1)

\* What a call of _javascript_call returns is the whole answer of a run of its own
\* snippet: never half an answer, and never a late answer to an earlier call that
\* timed out.  Only two answers to one call, after a reload of the page, may mix.
AnswersAreOwn ==
  \A k \in DOMAIN got : got[k].ok =>
    \/ got[k].run # NUL /\ runs[got[k].run].token = TokenOf(k)
    \/ Cardinality({r \in DOMAIN runs : runs[r].token = TokenOf(k) /\ runs[r].len > 0}) > 1

\* A snippet shown again after its call has ended (the page is reloaded, the
\* notebook reopened) never reaches the wallet: nobody is asked to sign twice.
ReplaysAreIgnored == \A r \in DOMAIN runs : ~runs[r].late

\* A transaction of the default sender is sent from an account that the wallet named
\* in the same operation, however the accounts changed since an earlier one.
SendersAreCurrent ==
  \A t \in DOMAIN memory : memory[t].kind = "send" =>
    \E r \in DOMAIN runs : runs[r].ans = Answer(r, TRUE, memory[t].arg)
                           /\ runs[r].token = t - 1 /\ memory[t - 1].kind = "accounts"

\* Every operation ends, also when the browser is gone or never answers.
BridgeCallsEnd == todo # <<>> ~> todo = <<>>
=============================================================================

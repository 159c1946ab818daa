------------------------------ MODULE ForkView ------------------------------
(***************************************************************************)
(* What a forked boa environment promises its user: the state behaves as   *)
(* if the whole chain had been copied, once, at the block the fork was     *)
(* pinned to, and every later read, write, checkpoint, commit and revert   *)
(* acted on that private copy.  There is no cache, no RPC and no laziness  *)
(* here; AccountDBFork (boa/vm/fork.py) is shown to implement this module. *)
(***************************************************************************)
EXTENDS Naturals, Sequences

CONSTANTS
  Addr,         \* account addresses
  Loc,          \* storage locations, i.e. (address, slot) pairs
  Word,         \* values of a storage slot
  Account       \* account records [balance, nonce, code]

VARIABLES
  origin,       \* [acct, store]: the chain at the pinned block
  view,         \* [acct, store]: the state the environment shows
  saved,        \* the views saved by the open checkpoints, outermost first
  out           \* what the last read returned: <<query, subject, answer>>

Error == <<"error", "rpc", "no answer">>

vars == <<origin, view, saved, out>>

World == [acct: [Addr -> Account], store: [Loc -> Word]]

Init ==
  /\ origin \in World
  /\ view = origin
  /\ saved = <<>>
  /\ out = Error

Nonempty(acct) == acct.balance > 0 \/ acct.nonce > 0

\* A read answers from the view (or, for the value a slot had when the fork was
\* made, from the pinned block) and changes nothing.  Whether an empty account
\* "exists" is left open: the EVM treats both answers alike (EIP-161).
Read ==
  /\ \/ \E a \in Addr : out' = <<"balance", a, view.acct[a].balance>>
     \/ \E a \in Addr : out' = <<"nonce", a, view.acct[a].nonce>>
     \/ \E a \in Addr : out' = <<"code", a, view.acct[a].code>>
     \/ \E a \in Addr, b \in BOOLEAN :
          (Nonempty(view.acct[a]) => b) /\ out' = <<"exists", a, b>>
     \/ \E l \in Loc : out' = <<"storage", l, view.store[l]>>
     \/ \E l \in Loc : out' = <<"original", l, origin.store[l]>>
  /\ UNCHANGED <<origin, view, saved>>

WriteAccount ==
  /\ \E a \in Addr, acct \in Account : view' = [view EXCEPT !.acct[a] = acct]
  /\ UNCHANGED <<origin, saved, out>>

WriteStorage ==
  /\ \E l \in Loc, w \in Word : view' = [view EXCEPT !.store[l] = w]
  /\ UNCHANGED <<origin, saved, out>>

Record ==
  /\ saved' = Append(saved, view)
  /\ UNCHANGED <<origin, view, out>>

\* Reverting to checkpoint c restores what it saved; later checkpoints go too.
Discard ==
  /\ \E c \in 1..Len(saved) : /\ view' = saved[c]
                              /\ saved' = SubSeq(saved, 1, c - 1)
  /\ UNCHANGED <<origin, out>>

Commit ==
  /\ \E c \in 1..Len(saved) : saved' = SubSeq(saved, 1, c - 1)
  /\ UNCHANGED <<origin, view, out>>

\* The node failed to answer: the call reports it and the view is untouched.
Fail ==
  /\ out' = Error
  /\ UNCHANGED <<origin, view, saved>>

Next == Read \/ WriteAccount \/ WriteStorage \/ Record \/ Discard \/ Commit \/ Fail

Spec == Init /\ [][Next]_vars
=============================================================================

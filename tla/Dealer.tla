------------------------------ MODULE Dealer -------------------------------
(***************************************************************************)
(* boa.deal (boa/dealer.py): give an account a balance of a token by       *)
(* finding the storage slot behind balanceOf, and the one behind           *)
(* totalSupply, and overwriting them.                                      *)
(*                                                                         *)
(* A token keeps the receiver's balance in slot 1, another holder's in     *)
(* slot 2 and the supply in slot 3; how its view functions read them is    *)
(* the token's own affair.  A word holds 0..Word-1.                        *)
(***************************************************************************)
EXTENDS Integers, Sequences

CONSTANTS
  Word,         \* one more than the largest value of a slot
  MaxDeals      \* bound on the deals

ASSUME DealerAssumption == Word \in Nat \ {0, 1} /\ MaxDeals \in Nat

VARIABLES
  sto,          \* the token's storage
  token,        \* how it computes balanceOf and totalSupply
  dealt,        \* the last deal: what was there before, was asked, and came of it
  deals         \* deals so far

dealerVars == <<sto, token, dealt, deals>>

Slot == 1..3
BalanceKinds == {"plain", "after other", "packed", "scaled", "pooled"}
SupplyKinds == {"plain", "after balance", "sum", "missing"}

\* What a view function returns, and the slots it loads, in order.
View(f, s) ==
  CASE f = <<"balance", "plain">>        -> [result |-> s[1], loads |-> <<1>>]
    [] f = <<"balance", "after other">>  -> [result |-> s[1], loads |-> <<2, 3, 1>>]
    [] f = <<"balance", "packed">>       -> [result |-> s[1] % 2, loads |-> <<1>>]
    [] f = <<"balance", "scaled">>       -> [result |-> (2 * s[1]) % Word, loads |-> <<1>>]
    [] f = <<"balance", "pooled">>       -> [result |-> (s[1] + s[2]) % Word, loads |-> <<2, 1>>]
    [] f = <<"supply", "plain">>         -> [result |-> s[3], loads |-> <<3>>]
    [] f = <<"supply", "after balance">> -> [result |-> s[3], loads |-> <<1, 2, 3>>]
    [] f = <<"supply", "sum">>           -> [result |-> (s[1] + s[2]) % Word, loads |-> <<1, 2>>]

DealerInit ==
  /\ sto \in [Slot -> 0..(Word - 1)]
  /\ token \in [balance : BalanceKinds, supply : SupplyKinds]
  /\ dealt = [before |-> sto, amount |-> 0, adjust |-> FALSE, outcome |-> "none"]
  /\ deals = 0

\* Is this the slot?  It holds the result, and poisoning it, inside an anchor,
\* changes the result to the poison.
HoldsResult(f, s, slot) == s[slot] = View(f, s).result
Found(f, s, slot) ==
  LET result == View(f, s).result
      poison == (result + 1) % Word
  IN s[slot] = result /\ View(f, [s EXCEPT ![slot] = poison]).result = poison

\* update_storage_slot: the storage it leaves behind and how it ends.  The first
\* loaded slot that passes is overwritten; set_storage refuses what is no word.
UpdateStorageSlot(f, s, mkNewValue) ==
  LET loads == View(f, s).loads
      hits == {k \in DOMAIN loads : Found(f, s, loads[k])}
      slot == loads[CHOOSE k \in hits : \A j \in hits : k <= j]
      value == mkNewValue[s[slot]]
      after == [s EXCEPT ![slot] = value]
  IN CASE f[2] = "missing"        -> [sto |-> s, outcome |-> "no function"]
       [] f[2] # "missing" /\ hits = {} -> [sto |-> s, outcome |-> "no slot"]
       [] OTHER -> IF value \notin 0..(Word - 1) THEN [sto |-> s, outcome |-> "no word"]
                   ELSE IF View(f, after).result # value THEN [sto |-> after, outcome |-> "weird"]
                   ELSE [sto |-> after, outcome |-> "done"]

\* deal(token, receiver, amount, adjust_supply)
Deal(amount, adjust) ==
  LET balanceOf == <<"balance", token.balance>>
      totalSupply == <<"supply", token.supply>>
      first == UpdateStorageSlot(balanceOf, sto, [old \in 0..(Word - 1) |-> amount])
      delta == amount - View(balanceOf, sto).result
      second == UpdateStorageSlot(totalSupply, first.sto,
                                  [supply \in 0..(Word - 1) |-> supply + delta])
      last == IF first.outcome = "done" /\ adjust THEN second ELSE first
  IN /\ deals < MaxDeals /\ deals' = deals + 1
     /\ sto' = last.sto
     /\ dealt' = [before |-> sto, amount |-> amount, adjust |-> adjust,
                  outcome |-> IF first.outcome # "done" THEN "no balance" ELSE last.outcome]
     /\ UNCHANGED token

DealerNext == \E amount \in 0..Word, adjust \in BOOLEAN : Deal(amount, adjust)

(***************************************************************************)
(* Properties                                                              *)
(***************************************************************************)

\* A deal that returns has done what it says: the receiver's balance is amount,
\* nobody else's slot has changed, and the supply has moved by as much as the
\* balance if that was asked, whatever other slots hold the same values.  (Of a
\* token that computes its supply from the balances it takes the slot of a balance
\* for that of the supply when the other holder has none.)  One that raises leaves
\* behind at most the new balance: never a poisoned slot, nor a supply.
DealIsHonest ==
  LET old == dealt.before
      balance(s) == View(<<"balance", token.balance>>, s).result
      supply(s) == View(<<"supply", token.supply>>, s).result
  IN /\ dealt.outcome = "done" /\ ~(dealt.adjust /\ token.supply = "sum") =>
          /\ balance(sto) = dealt.amount
          /\ sto[3] = IF dealt.adjust THEN old[3] + dealt.amount - balance(old) ELSE old[3]
          /\ dealt.adjust => supply(sto) = supply(old) + dealt.amount - balance(old)
          /\ token.balance # "pooled" => sto[2] = old[2]
     /\ dealt.outcome \notin {"done", "none"} /\ token.supply # "sum" =>
          /\ sto[3] = old[3]
          /\ token.balance # "pooled" => sto[2] = old[2]
          /\ sto # old => \/ balance(sto) = dealt.amount
                          \/ dealt.outcome = "no balance" /\ token.balance = "packed"
=============================================================================

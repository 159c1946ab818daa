-------------------------- MODULE MCAccountDBFork --------------------------
(***************************************************************************)
(* Instances of AccountDBFork for TLC.  The chain changes between block 0  *)
(* and block 1 in every respect, so that a value taken from the wrong      *)
(* block shows.                                                            *)
(***************************************************************************)
EXTENDS AccountDBFork

CONSTANTS a1, s1, c1, empty, none

MCAddr == {a1}
MCSlot == {s1}
MCWord == 0..1
PoorBalance == {0}
MCCode == {empty, c1}

\* Block 0 holds a contract, block 1 a plain account with a nonce.
MCAcct(b) == [balance |-> 0,
              nonce |-> IF b < MaxNonce THEN b ELSE MaxNonce,
              code |-> IF b = 0 /\ c1 \in Code THEN c1 ELSE empty]

MCChain == [b \in 0..MaxBlock |-> [acct |-> [a \in Addr |-> MCAcct(b)],
                                   store |-> [l \in Addr \X Slot |-> 1 - b]]]
=============================================================================

---------------------------- MODULE MCCachingRPC ----------------------------
(***************************************************************************)
(* Instances of CachingRPC for TLC.                                        *)
(***************************************************************************)
EXTENDS CachingRPC

CONSTANTS p1, p2, k1, k2, balance, code

\* The nodes of different chains answer differently, to every query.
MCAnswer == [c \in ChainId |-> [q \in Query |-> <<c, q>>]]

\* Both processes fork the same chain and share its file.
SameChain == [p \in Proc |-> {k1}]

\* A process that forks two chains.
BothChains == [p \in Proc |-> ChainId]

\* _get_account_rpc always asks for the same queries in the same order, and
\* get_code asks for one of them on its own; the second process does only that.
MCPayload == [p \in Proc |-> IF p = p1 THEN {<<balance, code>>} ELSE {}]
=============================================================================

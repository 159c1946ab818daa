----------------------------- MODULE MCTestRuns -----------------------------
(***************************************************************************)
(* What test runs rest on, for TLC: a behaviour is of the anchors of one   *)
(* run or of the compilation cache that the jobs of several runs share.    *)
(* Two fixtures are isolated, so that finalizers can come out of order, and*)
(* one ignores isolation.  Two jobs compile the same contract, and one of  *)
(* them compiles another one, for another version of the compiler.         *)
(***************************************************************************)
EXTENDS Anchors, DiskCache

CONSTANTS
  f1, f2, g, test,          \* fixtures, and the mark of a test
  j1, j2, k1, k2, s1, s2,   \* jobs, keys and salts
  Topics                    \* which of "anchors" and "cache" to check

VARIABLE topic

MCSaltOf == [k \in Key |-> IF k = k1 THEN s1 ELSE s2]
Shared == [j \in Job |-> IF j = j1 THEN {k1} ELSE Key]

allVars == <<vars, diskVars, topic>>

MCInit == Init /\ DiskInit /\ topic \in Topics

MCNext == \/ topic = "anchors" /\ Next /\ UNCHANGED <<diskVars, topic>>
          \/ topic = "cache" /\ DiskNext /\ UNCHANGED <<vars, topic>>

MCSpec == MCInit /\ [][MCNext]_allVars /\ DiskFairness
=============================================================================

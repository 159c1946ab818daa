----------------------------- MODULE MCPolling -----------------------------
(***************************************************************************)
(* The two clients that poll, for TLC: a behaviour is of the kernel that   *)
(* polls for the browser's answer, or of the client that polls explorers.  *)
(***************************************************************************)
EXTENDS JupyterBridge, Explorer

CONSTANT Sides    \* which of "bridge" and "explorer" to check

VARIABLE side

allVars == <<bridgeVars, explorerVars, side>>

Init == BridgeInit /\ ExplorerInit /\ side \in Sides

Next == \/ side = "bridge" /\ BridgeNext /\ UNCHANGED <<explorerVars, side>>
        \/ side = "explorer" /\ ExplorerNext /\ UNCHANGED <<bridgeVars, side>>

\* On the other side nothing is ever enabled, so its fairness asks for nothing.
Spec == Init /\ [][Next]_allVars /\ BridgeFairness /\ ExplorerFairness
=============================================================================

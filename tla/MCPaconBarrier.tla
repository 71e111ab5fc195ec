--------------------------- MODULE MCPaconBarrier ---------------------------
(* Instances of PaconBarrier for TLC.                                       *)
EXTENDS PaconBarrierInv, TLC

CONSTANTS c1, c2, c3, n1, n2

\* Two clients on n1, one on n2.
MCNodeOf == (c1 :> n1) @@ (c2 :> n1) @@ (c3 :> n2)
TwoNodeOf == (c1 :> n1) @@ (c2 :> n2)
OneNodeOf == (c1 :> n1) @@ (c2 :> n1)

\* Two concurrent barrier operations on different nodes, then one.
MCOptNum == <<(c1 :> 1) @@ (c2 :> 0) @@ (c3 :> 1), (c1 :> 0) @@ (c2 :> 1) @@ (c3 :> 0)>>
TwoOptNum == <<(c1 :> 2) @@ (c2 :> 1), (c1 :> 1) @@ (c2 :> 0)>>
Alternate == <<(c1 :> 1) @@ (c2 :> 0), (c1 :> 0) @@ (c2 :> 1)>>
=============================================================================

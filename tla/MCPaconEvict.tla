---------------------------- MODULE MCPaconEvict ----------------------------
(* An instance of PaconEvict for TLC: a directory d with a file f in it,    *)
(* and a file g in the root, listed in this order; a client on each node.   *)
EXTENDS PaconEvict, TLC

CONSTANTS c1, c2, n1, n2, d, f, g

MCNodeOf == (c1 :> n1) @@ (c2 :> n2)
MCDirOf == (f :> d) @@ (g :> Null)
MCOrder == <<d, g>>
=============================================================================

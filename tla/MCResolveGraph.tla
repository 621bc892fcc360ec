---------------------------- MODULE MCResolveGraph ----------------------------
(* ResolveGraph for TLC: what the store, the rules and the walk are given.       *)
EXTENDS ResolveGraph, TLC

CONSTANTS d, b, p, q    \* a deposit, a body, two traces
CONSTANTS A, B, C, D    \* addresses on the page

-----------------------------------------------------------------------------
(* The store: a deposit and the transfer that makes it.                     *)

MadeByX == d :> "x"
OnlyX == d :> {"x"}
Blocks == "x" :> 1 @@ "y" :> 2

Workers == Permutations(Trace)

-----------------------------------------------------------------------------
(* The rules.                                                               *)

Payment(from, to, asset, amount, at, provisional) ==
    [id |-> 0, from |-> from, to |-> to, asset |-> asset, amount |-> amount,
     at |-> at, provisional |-> provisional]

\* Payments from and to a hub at three times, with a provisional one, one of an
\* unknown sender and one back to the hub itself.
FanBody ==
    {Payment(t[1], A, "eth", 1, t[2], FALSE) : t \in {<<B, 1>>, <<B, 2>>, <<C, 3>>}}
        \cup {Payment(A, t[1], "eth", t[2], t[3], FALSE) :
            t \in {<<B, 1, 2>>, <<C, 1, 3>>, <<C, 2, 2>>}}
        \cup {Payment(NoAddress, A, "eth", 1, 1, FALSE), Payment(D, A, "eth", 1, 2, TRUE),
              Payment(A, D, "usd", 1, 2, FALSE), Payment(A, A, "eth", 1, 1, FALSE)}

\* Payments along a path, with amounts that shrink or not, and a way back.
ChainBody ==
    {Payment(A, B, "eth", 3, at, FALSE) : at \in {1, 2}}
        \cup {Payment(B, C, "eth", t[1], t[2], FALSE) :
            t \in {<<2, 1>>, <<2, 2>>, <<3, 2>>}}
        \cup {Payment(C, t[1], "eth", 1, t[2], FALSE) : t \in {<<D, 2>>, <<D, 3>>, <<A, 3>>}}
        \cup {Payment(B, C, "usd", 2, 1, FALSE), Payment(C, D, "eth", -1, 2, FALSE),
              Payment(C, D, "eth", 1, 0, FALSE)}

-----------------------------------------------------------------------------
(* The walk: a seed 1 with three counterparties, one transfer to itself, a  *)
(* cycle and a node three hops away.                                        *)

Edge(id, from, to, asset, amount, at) ==
    [id |-> id, from |-> from, to |-> to, asset |-> asset, amount |-> amount, at |-> at]

Web == {Edge(1, 1, 2, "eth", 2, 3), Edge(2, 3, 1, "eth", 2, 3), Edge(3, 1, 4, "usd", 1, 2),
        Edge(4, 2, 3, "eth", 1, 2), Edge(5, 3, 5, "eth", 1, 1), Edge(6, 1, 1, "eth", 1, 3),
        Edge(7, 2, 1, "usd", 3, 1)}

=============================================================================

------------------------- MODULE MCInvestigationPage -------------------------
(* InvestigationPage for TLC: two addresses on two networks, of two pages     *)
(* each, and scopes that differ in what retrieves a new graph and in depth.   *)
EXTENDS InvestigationPage, TLC

CONSTANTS ethereum, base, alice, bob

Of(direction, depth) == [direction |-> direction, depth |-> depth]

Scopes == {Of("both", 1), Of("both", 2), Of("outbound", 2)}

\* A package of another address on the other network.
Packages == {[network |-> base, root |-> bob, scope |-> Of("both", 2)]}

\* The page opens on Ethereum at depth 2.
MCInit == Init /\ network = ethereum /\ options = Of("both", 2)

MCSpec == MCInit /\ [][Next]_vars /\ Fairness

=============================================================================

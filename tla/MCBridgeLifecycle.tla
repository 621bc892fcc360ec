------------------------- MODULE MCBridgeLifecycle -------------------------
(* BridgeLifecycle for TLC: deposits of one value to two receivers in one     *)
(* transaction, one of them beside one that has no route.                     *)
EXTENDS BridgeLifecycle

CONSTANTS ETH, WETH, Truncated, alice, bob

Of(to, token, amount) ==
    [from |-> alice, to |-> to, token |-> token, amount |-> amount, version |-> 1]

TwoDeposits == <<Of(bob, ETH, 1), Of(alice, ETH, 1)>>

ThreeDeposits == TwoDeposits \o <<Of(bob, WETH, 1)>>

\* The registry as it is written: the wrapped token's address lacks a digit.
Written == {ETH, Truncated}

Two == [s \in Side |-> 2]

=============================================================================

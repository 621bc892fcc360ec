------------------------- MODULE MCProviderThrottle -------------------------
(* ProviderThrottle for TLC: TronGrid's client, which holds its mutex over    *)
(* the exchange and counts every failure, Etherscan's, which finds a rate     *)
(* limit in an answer, the EVM node's, whose requests overlap, and tonapi's,  *)
(* which does not count an answer it cannot read.                             *)
EXTENDS ProviderThrottle

CONSTANTS t1, l1

=============================================================================

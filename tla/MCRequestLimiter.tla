--------------------------- MODULE MCRequestLimiter ---------------------------
(* Instances of RequestLimiter for TLC.                                     *)
EXTENDS RequestLimiter, TLC

Symmetry == Permutations(Client) \cup Permutations(Caller)

=============================================================================

---------------------------- MODULE MCTraceQueue ----------------------------
(* Instances of TraceQueue for TLC.                                         *)
EXTENDS TraceQueue, TLC

\* Sessions, queries, clients and workers are interchangeable; liveness runs
\* do not use this.
Symmetry == Permutations(Session) \cup Permutations(Query)
            \cup Permutations(Client) \cup Permutations(Worker)

=============================================================================

---------------------------- MODULE TraceService ----------------------------
(***************************************************************************)
(* What the durable trace queue promises to a user of the API, with the    *)
(* table, the workers and the clock left out.  A trace (one query on one   *)
(* network) is unknown, pending, or answered.  A request makes an unknown  *)
(* trace pending, and may reopen an answered one; the service answers a    *)
(* pending trace once; an answered trace may be forgotten.                 *)
(*                                                                         *)
(* Nothing else may happen: a pending trace is never forgotten, an answer  *)
(* is never replaced by the other answer, and a trace nobody asked for is  *)
(* never worked on.                                                        *)
(***************************************************************************)
CONSTANT Query          \* the queries that may be traced on the network

VARIABLE trace          \* trace[q]: what the service knows of query q

TraceStates == {"unknown", "pending", "succeeded", "failed"}

Answers == {"succeeded", "failed"}

Init == trace = [q \in Query |-> "unknown"]

\* A request for a trace nobody has, or for an answer to be found anew.
Accept(q) ==
    /\ trace[q] \in {"unknown"} \cup Answers
    /\ trace' = [trace EXCEPT ![q] = "pending"]

\* The work on a pending trace ends in one answer.
Settle(q) ==
    /\ trace[q] = "pending"
    /\ \E a \in Answers : trace' = [trace EXCEPT ![q] = a]

\* Retention removes any set of answered traces at once.
Forget ==
    \E old \in SUBSET {q \in Query : trace[q] \in Answers} :
        trace' = [q \in Query |-> IF q \in old THEN "unknown" ELSE trace[q]]

Next ==
    \/ \E q \in Query : Accept(q) \/ Settle(q)
    \/ Forget

\* Safety alone: what every behaviour of the queue must look like.
Spec == Init /\ [][Next]_trace

\* With the promise that a pending trace is eventually answered.
FairSpec == Spec /\ \A q \in Query : WF_trace(Settle(q))

=============================================================================

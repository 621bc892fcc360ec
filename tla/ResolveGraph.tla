----------------------------- MODULE ResolveGraph -----------------------------
(***************************************************************************)
(* The parts of tracing.Engine.ResolveGraph: the rules, which see a page   *)
(* of transfers, the walk, which sees the stored graph, and the store,     *)
(* which keeps what becomes of both.  They share no variable, so that a    *)
(* behaviour is about one of them, its `subject`, and the others stay as   *)
(* they begin.                                                             *)
(***************************************************************************)
EXTENDS EvidenceStore, GraphTraversal, InvestigationRules

CONSTANTS
    FanBodies,    \* transfers around one address, for the rules over groups
    ChainBodies   \* transfers along a path, for the rules over hops

ASSUME BodiesAssumption == \A x \in FanBodies \cup ChainBodies : Observable(x)

VARIABLE subject    \* "fans", "chains", "walk" or "store"

resolveVars == <<subject, observed, vars, walkVars>>

\* What the rules are given.
Bodies == IF subject = "fans" THEN FanBodies ELSE ChainBodies

ResolveInit ==
    /\ subject \in {"fans", "chains", "walk", "store"}
    /\ Init
    /\ RulesInit
    /\ WalkInit
    /\ subject # "walk" =>
          store = {} /\ request = Controlled([direction |-> "both", ranking |-> "most_recent",
                                             limit |-> 0, counterparties |-> 0, depth |-> 0])

Evaluating == subject \in {"fans", "chains"} /\ RulesNext(Bodies) /\ UNCHANGED <<vars, walkVars>>

Walking == subject = "walk" /\ WalkNext /\ UNCHANGED <<vars, observed>>

Storing == subject = "store" /\ Next /\ UNCHANGED <<observed, walkVars>>

ResolveNext == (Evaluating \/ Walking \/ Storing) /\ UNCHANGED subject

ResolveSpec == ResolveInit /\ [][ResolveNext]_resolveVars

-----------------------------------------------------------------------------
(* Every part has its types: ResolveGraph's page, walk and store.           *)
PartsTyped == TypeOK /\ WalkTypeOK /\ RulesTypeOK(Bodies)

\* The rules (Evaluate, detect.go:30): leads for fans and for chains are those of
\* their definitions over sets, and a brief intermediary's pair is also a rapid
\* onward movement; InvestigationRules says what each means.
RulesExact == FansExact /\ ChainsExact /\ BriefIsRapidAndAlone

\* Evaluate again over the recorded transfers, any two of them exchanged, finds
\* the same, and every lead rests on recorded transfers that are confirmed.
RunsReplay == ReplaysExact

=============================================================================

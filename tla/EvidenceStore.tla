----------------------------- MODULE EvidenceStore -----------------------------
(***************************************************************************)
(* What a trace leaves in PostgreSQL and Apache AGE, and what an export    *)
(* reads back: tracing.Engine.ResolveGraph with db.SaveEvidenceGraph,      *)
(* SaveAcquisitions and SaveRuleRuns, and db.ExportEvidence with the       *)
(* package built from it and its import in the browser.  Two traces may    *)
(* overlap (a worker that stalled past its lease and its successor); every *)
(* transaction is one step; an export is a series of statements, each of   *)
(* which sees what has been committed by then.                             *)
(***************************************************************************)
EXTENDS Naturals, Sequences, FiniteSets

CONSTANTS
    Transfer,     \* transfers of one network
    Deposit,      \* deposits into a bridge found in the transfers' receipts
    MadeBy,       \* [Deposit -> Transfer]: the transfer that is the deposit
    LooksLike,    \* [Deposit -> SUBSET Transfer]: transfers of the same
                  \* transaction, receiver, amount and asset
    BlockOf,      \* [Transfer -> Nat]: the block of each
    Height,       \* chain heights a provider may report, 0 for none
    Threshold,    \* confirmationThreshold of the network
    Body,         \* response bodies, known by their hash
    Trace,        \* processes that run traces
    MaxAttempts,  \* bound: attempts of one process
    MaxExports    \* bound: exports begun

ASSUME StoreAssumption ==
    /\ MadeBy \in [Deposit -> Transfer]
    /\ LooksLike \in [Deposit -> SUBSET Transfer]
    /\ \A d \in Deposit : MadeBy[d] \in LooksLike[d]
    /\ BlockOf \in [Transfer -> Nat \ {0}]
    /\ Height \subseteq Nat /\ 0 \in Height
    /\ Threshold \in Nat
    /\ MaxAttempts \in Nat
    /\ MaxExports \in Nat

VARIABLES
    rows,         \* transfers: what the first observation said of each
    edges,        \* FundFlow: what the latest observation said of each
    snapshots,    \* acquisition_snapshots: the body of each, by id
    scopes,       \* acquisition_scopes with their links, by id
    transitions,  \* bridge_transitions
    links,        \* bridge_transition_acquisitions
    runs,         \* rule_runs: the sets of inputs
    trace,        \* the attempt each process is at
    attempts,     \* attempts of each process
    export,       \* the export under way
    exports       \* exports begun

tables == <<rows, edges, snapshots, scopes, transitions, links, runs>>
vars == <<rows, edges, snapshots, scopes, transitions, links, runs,
          trace, attempts, export, exports>>

Observation == {"provisional", "confirmed"}
Lifecycle == {"initiated", "finalized"}

\* An attempt: the selected transfers, the chain's height, the responses recorded
\* and the bridge transitions found.
NoAttempt == [pc |-> "idle", page |-> {}, head |-> 0,
              acquired |-> << >>, found |-> {}]

NoExport == [pc |-> "idle", ids |-> {}, scopes |-> {}, scopeTransfers |-> {},
             snapshots |-> {}, scopeSnapshots |-> {}, runs |-> {}, labels |-> FALSE,
             transitions |-> {}, links |-> {}]

Init ==
    /\ rows = [x \in Transfer |-> "none"]
    /\ edges = [x \in Transfer |-> "none"]
    /\ snapshots = << >>
    /\ scopes = << >>
    /\ transitions = {}
    /\ links = {}
    /\ runs = {}
    /\ trace = [t \in Trace |-> NoAttempt]
    /\ attempts = [t \in Trace |-> 0]
    /\ export = NoExport
    /\ exports = 0

Stored == {x \in Transfer : rows[x] # "none"}

-----------------------------------------------------------------------------
(* Tracing.                                                                *)

\* isProvisional: without a height, or too near to it.
Provisional(x, head) ==
    head = 0 \/ head < BlockOf[x] \/ head - BlockOf[x] < Threshold

Flag(x, head) == IF Provisional(x, head) THEN "provisional" ELSE "confirmed"

\* bridgeSourceTransferID: the one transfer of the page that looks like the
\* deposit; none if two do.
SourceIn(d, page) ==
    LET matched == LooksLike[d] \cap page
    IN  IF Cardinality(matched) = 1 THEN matched ELSE {}

\* The transitions of a page: a deposit is met when its transaction is on the
\* page, its state is read from the chain in the response b, and a deposit
\* without a source is dropped.
Resolved(page, lifecycle, b) ==
    UNION {{[deposit |-> d, lifecycle |-> lifecycle, source |-> x, hashes |-> {b}] :
               x \in SourceIn(d, page)} : d \in Deposit}

\* A provider page is listed, reduced to the selected transfers, and the bridge
\* adapters follow its deposits; every response is recorded.  The bridge
\* adapters report their own failures as unresolved transitions without amount,
\* which no transfer matches.
Acquire(t) ==
    /\ trace[t].pc = "idle"
    /\ attempts[t] < MaxAttempts
    /\ \E page \in SUBSET Transfer, head \in Height, lifecycle \in Lifecycle,
          b, c \in Body, answered \in BOOLEAN :
          LET found == IF answered THEN Resolved(page, lifecycle, c) ELSE {}
          IN  trace' = [trace EXCEPT ![t] =
                 [pc |-> "save", page |-> page, head |-> head, found |-> found,
                  acquired |-> IF found = {} THEN <<b>> ELSE <<b, c>>]]
    /\ attempts' = [attempts EXCEPT ![t] = @ + 1]
    /\ UNCHANGED <<tables, export, exports>>

\* The provider fails, before or after some response.
ListingFails(t) ==
    /\ trace[t].pc = "idle"
    /\ attempts[t] < MaxAttempts
    /\ \E acquired \in {<< >>} \cup {<<b>> : b \in Body} :
          trace' = [trace EXCEPT ![t] =
                       [NoAttempt EXCEPT !.pc = "keep", !.acquired = acquired]]
    /\ attempts' = [attempts EXCEPT ![t] = @ + 1]
    /\ UNCHANGED <<tables, export, exports>>

\* Ids of the snapshots a transaction adds.
NewIds(acquired) == Len(snapshots) + 1 .. Len(snapshots) + Len(acquired)

\* insertAcquisitionScope: nothing is written for a trace without responses.
ScopeAdded(page, acquired) ==
    IF acquired = << >> THEN scopes
    ELSE Append(scopes, [transfers |-> page, snapshots |-> NewIds(acquired)])

\* SaveAcquisitions: the responses of a failed listing, in a scope of no transfer.
SaveAcquisitions(t) ==
    /\ trace[t].pc = "keep"
    /\ LET acquired == trace[t].acquired
       IN  /\ snapshots' = snapshots \o acquired
           /\ scopes' = ScopeAdded({}, acquired)
    /\ trace' = [trace EXCEPT ![t].pc = "failed"]
    /\ UNCHANGED <<rows, edges, transitions, links, runs, attempts, export, exports>>

\* insertTransferSQL: ON CONFLICT DO NOTHING.
RowsWith(page, head) ==
    [x \in Transfer |-> IF x \in page /\ rows[x] = "none" THEN Flag(x, head) ELSE rows[x]]

\* upsertFundFlowSQL: MERGE and SET.
EdgesWith(page, head) == [x \in Transfer |-> IF x \in page THEN Flag(x, head) ELSE edges[x]]

\* Variant: the bodies are looked for among all snapshots.
AnySnapshots(tr, acquired) ==
    LET all == snapshots \o acquired
    IN  {i \in 1 .. Len(all) : all[i] \in tr.hashes}

\* linkBridgeAcquisitions: the snapshots of this transaction with the body.
LinkedSnapshots(tr, acquired) ==
    LET all == snapshots \o acquired
    IN  {i \in NewIds(acquired) : all[i] \in tr.hashes}

\* The identity of a transition: a stored one is not rewritten.
IdOf(tr) == <<tr.deposit, tr.lifecycle>>

Recorded(tr) == [deposit |-> tr.deposit, lifecycle |-> tr.lifecycle, source |-> tr.source]
TransitionsWith(found) ==
    transitions \cup {Recorded(tr) : tr \in
        {u \in found : \A old \in transitions : IdOf(old) # IdOf(u)}}

\* SaveEvidenceGraph: one transaction over the tables and the graph.
SaveEvidenceGraph(t) ==
    /\ trace[t].pc = "save"
    /\ LET a == trace[t]
       IN  /\ rows' = RowsWith(a.page, a.head)
           /\ snapshots' = snapshots \o a.acquired
           /\ scopes' = ScopeAdded(a.page, a.acquired)
           /\ transitions' = TransitionsWith(a.found)
           /\ links' = links \cup UNION {{<<IdOf(tr), i>> : i \in
                                   LinkedSnapshots(tr, a.acquired)} : tr \in a.found}
           /\ edges' = EdgesWith(a.page, a.head)
    /\ trace' = [trace EXCEPT ![t].pc = "answer"]
    /\ UNCHANGED <<runs, attempts, export, exports>>

\* scanAGETransfer: a property the graph does not have reads as provisional.
Scanned(flag) == IF flag = "none" THEN "provisional" ELSE flag

\* The walk over the stored graph and the read of its transitions.
Answer(t) ==
    /\ trace[t].pc = "answer"
    /\ trace' = [trace EXCEPT ![t].pc = "runs"]
    /\ UNCHANGED <<tables, attempts, export, exports>>

\* Evaluate: the rules' inputs are the transfers the fresh head confirms.
Inputs(a) == {x \in a.page : ~Provisional(x, a.head)}

\* Variant: the runs may be saved before the transfers they name.
SaveRuleRunsEarly(t) ==
    /\ trace[t].pc \in {"save", "runs"}
    /\ runs' = runs \cup {Inputs(trace[t])}
    /\ trace' = [trace EXCEPT ![t].pc = IF @ = "runs" THEN "done" ELSE @]
    /\ UNCHANGED <<rows, edges, snapshots, scopes, transitions, links,
                   attempts, export, exports>>

SaveRuleRuns(t) ==
    /\ trace[t].pc = "runs"
    /\ runs' = runs \cup {Inputs(trace[t])}
    /\ trace' = [trace EXCEPT ![t].pc = "done"]
    /\ UNCHANGED <<rows, edges, snapshots, scopes, transitions, links,
                   attempts, export, exports>>

\* A statement fails: the transaction rolls back and the attempt ends there.
StepFails(t) ==
    /\ trace[t].pc \in {"keep", "save", "answer", "runs"}
    /\ trace' = [trace EXCEPT ![t].pc = "failed"]
    /\ UNCHANGED <<tables, attempts, export, exports>>

\* The next attempt at this job, or the next job.
Again(t) ==
    /\ trace[t].pc \in {"failed", "done"}
    /\ trace' = [trace EXCEPT ![t] = NoAttempt]
    /\ UNCHANGED <<tables, attempts, export, exports>>

-----------------------------------------------------------------------------
(* Exporting.                                                              *)

\* exportTransfers: all selected transfers must be stored.
ExportTransfers ==
    /\ export.pc = "idle"
    /\ exports < MaxExports
    /\ \E ids \in SUBSET Transfer \ {{}} :
          export' = [NoExport EXCEPT
                        !.ids = ids,
                        !.pc = IF ids \subseteq Stored THEN "scopes" ELSE "refused"]
    /\ exports' = exports + 1
    /\ UNCHANGED <<tables, trace, attempts>>

ScopesOf(ids) == {s \in DOMAIN scopes : scopes[s].transfers \cap ids # {}}

Reads(from, to, e) ==
    /\ export.pc = from
    /\ export' = [e EXCEPT !.pc = to]
    /\ UNCHANGED <<tables, trace, attempts, exports>>

ExportScopes ==
    Reads("scopes", "snapshots", [export EXCEPT !.scopes = ScopesOf(export.ids)])

ExportSnapshots ==
    Reads("snapshots", "scopeTransfers",
          [export EXCEPT !.snapshots = UNION {scopes[s].snapshots : s \in export.scopes}])

ExportScopeTransfers ==
    Reads("scopeTransfers", "scopeSnapshots",
          [export EXCEPT !.scopeTransfers =
              {l \in export.scopes \X export.ids : l[2] \in scopes[l[1]].transfers}])

\* Variant: the links are looked up by transfer once more.
ExportScopeSnapshotsByTransfer ==
    Reads("scopeSnapshots", "runs",
          [export EXCEPT !.scopeSnapshots =
              {l \in ScopesOf(export.ids) \X DOMAIN snapshots :
                  l[2] \in scopes[l[1]].snapshots}])

ExportScopeSnapshots ==
    Reads("scopeSnapshots", "runs",
          [export EXCEPT !.scopeSnapshots =
              {l \in export.scopes \X DOMAIN snapshots : l[2] \in scopes[l[1]].snapshots}])

ExportRuleRuns ==
    Reads("runs", "labels",
          [export EXCEPT !.runs = {r \in runs : r \cap export.ids # {}}])

ExportLabels ==
    \E some \in BOOLEAN : Reads("labels", "transitions", [export EXCEPT !.labels = some])

ExportTransitions ==
    Reads("transitions", "links",
          [export EXCEPT !.transitions = {tr \in transitions : tr.source \in export.ids}])

ExportLinks ==
    Reads("links", "built",
          [export EXCEPT !.links =
              {l \in links : \E tr \in export.transitions : l[1] = IdOf(tr)}])

ExportEnds ==
    /\ export.pc \in {"refused", "built"}
    /\ export' = NoExport
    /\ UNCHANGED <<tables, trace, attempts, exports>>

\* Build: the payload's lists start nil, and Go writes an empty one as null.
IsArray(list) == list # {}

\* The package's bridge transitions carry no json names, so that Go writes ID
\* and Protocol where the reader looks for id and protocol.
HasKnownKeys(list) == list = {}

\* parseEvidencePackage: every list an array of what it should hold...
ShapesAccepted(e) ==
    /\ IsArray(e.snapshots) /\ IsArray(e.scopes)
    /\ IsArray(e.scopeTransfers) /\ IsArray(e.scopeSnapshots)
    /\ IsArray(e.runs)
    /\ e.labels
    /\ IsArray(e.transitions) /\ HasKnownKeys(e.transitions)
    /\ IsArray(e.links)

\* ... and every link between things of the package.
ScopeLinksAccepted(e) ==
    /\ \A l \in e.scopeTransfers : l[1] \in e.scopes /\ l[2] \in e.ids
    /\ \A l \in e.scopeSnapshots : l[1] \in e.scopes /\ l[2] \in e.snapshots
    /\ \A tr \in e.transitions : tr.source \in e.ids

BridgeLinksAccepted(e) ==
    \A l \in e.links : /\ \E tr \in e.transitions : l[1] = IdOf(tr)
                       /\ l[2] \in e.snapshots

Next ==
    \/ \E t \in Trace : \/ Acquire(t) \/ ListingFails(t) \/ SaveAcquisitions(t)
                        \/ SaveEvidenceGraph(t) \/ Answer(t) \/ SaveRuleRuns(t)
                        \/ StepFails(t) \/ Again(t)
    \/ ExportTransfers \/ ExportScopes \/ ExportSnapshots \/ ExportScopeTransfers
    \/ ExportScopeSnapshots \/ ExportRuleRuns \/ ExportLabels \/ ExportTransitions
    \/ ExportLinks \/ ExportEnds

Spec == Init /\ [][Next]_vars

-----------------------------------------------------------------------------
AttemptType ==
    [pc : {"idle", "keep", "save", "answer", "runs", "done", "failed"},
     page : SUBSET Transfer, head : Height, acquired : Seq(Body),
     found : SUBSET [deposit : Deposit, lifecycle : Lifecycle, source : Transfer,
                     hashes : SUBSET Body]]

TypeOK ==
    /\ rows \in [Transfer -> Observation \cup {"none"}]
    /\ edges \in [Transfer -> Observation \cup {"none"}]
    /\ snapshots \in Seq(Body)
    /\ scopes \in Seq([transfers : SUBSET Transfer, snapshots : SUBSET Nat])
    /\ transitions \subseteq [deposit : Deposit, lifecycle : Lifecycle, source : Transfer]
    /\ links \subseteq (Deposit \X Lifecycle) \X Nat
    /\ runs \subseteq SUBSET Transfer
    /\ trace \in [Trace -> AttemptType]
    /\ attempts \in [Trace -> 0 .. MaxAttempts]
    /\ exports \in 0 .. MaxExports

\* README.md:12: whatever fails and however traces overlap, a stored transfer is
\* on the page of a scope whose responses are stored, and the graph holds an edge
\* for exactly the stored transfers.
Provenance ==
    /\ \A x \in Stored : \E s \in DOMAIN scopes :
          /\ x \in scopes[s].transfers
          /\ scopes[s].snapshots # {}
          /\ scopes[s].snapshots \subseteq DOMAIN snapshots
    /\ Stored = {x \in Transfer : edges[x] # "none"}

\* acquisition.go:54, "the acquisition snapshot that established it": equal bodies
\* are stored once and recorded often, yet a transition is linked only to
\* snapshots of scopes its own source transfer belongs to.
LinksBacked ==
    \A l \in links : \E tr \in transitions :
        /\ IdOf(tr) = l[1]
        /\ \E s \in DOMAIN scopes : /\ l[2] \in scopes[s].snapshots
                                    /\ scopes[s].transfers \cap LooksLike[tr.deposit] # {}

\* SaveEvidenceGraph (db/transfers.go:71): a transfer row has a scope it was found
\* in, and a link of a transfer or a bridge leads to a response of its own trace.
EvidenceBacked == Provenance /\ LinksBacked

\* README.md:16, "for offline verification": a rule run names stored transfers
\* only, and an answered trace has left its run.
RunsReplayable ==
    /\ \A r \in runs : r \subseteq Stored
    /\ \A t \in Trace : trace[t].pc = "done" =>
          /\ Inputs(trace[t]) \in runs
          /\ trace[t].page \subseteq Stored

\* evidence-package.ts:294: whatever is saved between the export's statements,
\* the scopes, responses and transfers it links are all in the package, and no
\* selected transfer comes without a response.
PackageClosed ==
    export.pc = "built" =>
        /\ ScopeLinksAccepted(export)
        /\ \A x \in export.ids : \E s \in export.scopes :
              <<s, x>> \in export.scopeTransfers /\ \E i \in export.snapshots :
                  <<s, i>> \in export.scopeSnapshots

\* db/graph.go:38 says that "PostgreSQL transfers and acquisition records remain
\* the evidence authority; AGE only supplies graph topology".
EdgeAgreesWithRow == \A x \in Stored : Scanned(edges[x]) = rows[x]

\* catalog.go:18 says of every pattern that it is within "confirmation-backed
\* observations only".
InputsConfirmed == \A r \in runs : \A x \in r : rows[x] = "confirmed"

\* graph.go:184: "Do not write a bridge assertion with an ambiguous source fact."
SourceExact == \A tr \in transitions : tr.source = MadeBy[tr.deposit]

\* evidence-package.ts:307 rejects a package as inconsistent unless the responses
\* its transitions are linked to are in it.
BridgeLinksInPackage == export.pc = "built" => BridgeLinksAccepted(export)

\* README.md:16: the application "exports/imports frozen JSON evidence packages".
PackageImportable == export.pc = "built" => ShapesAccepted(export)

=============================================================================

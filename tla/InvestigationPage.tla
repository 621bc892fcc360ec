--------------------------- MODULE InvestigationPage ---------------------------
(***************************************************************************)
(* The investigation page of the web application (apps/web, routes/        *)
(* index.tsx): one browser tab in front of the trace queue.  Searches,     *)
(* polls, expansions, lookups and exports are calls that overlap; each     *)
(* answer finds the page as the user has left it meanwhile.                *)
(*                                                                         *)
(* A handler runs to its first `await` in one step and from there to its   *)
(* end in another.  investigationRef and selectionRef are counters a call  *)
(* compares on its return; here a call is `live` while its investigation,  *)
(* `chosen` while its selection is the latest.  The queue behind the API   *)
(* is what a job answers: pending, done or failed (queue.go:113).          *)
(***************************************************************************)
EXTENDS Naturals, FiniteSets

CONSTANTS
    Network,      \* networks of the picker
    Address,      \* addresses of interest; each is known on every network
    Scope,        \* graph options: [direction, depth]
    None,
    Pages,        \* pages in the history of an address
    Package,      \* evidence packages at hand: [network, root, scope]
    MaxEvents,    \* bound: what the user does
    MaxFailures   \* bound: calls that fail and jobs that end as failed

\* What graphData holds of a graph.
GraphData ==
    [network : Network, root : Address, scope : Scope, pending : BOOLEAN,
     nodes : SUBSET Address, merged : SUBSET (Address \X (1..Pages))]

ASSUME PageAssumption ==
    /\ Pages \in Nat \ {0} /\ MaxEvents \in Nat /\ MaxFailures \in Nat
    /\ None \notin Network \cup Address \cup GraphData
    /\ Package \subseteq [network : Network, root : Address, scope : Scope]

VARIABLES
    network,    \* the network chosen, and what is on the page:
    options,    \* graphOptions
    graph,      \* graphData, or None
    loading,    \* the page shows that it loads
    error,      \* an error message is shown
    selected,   \* selectedNode, or None
    summary,    \* what the inspector shows: [of, network], or None
    pages,      \* branchPages: where each branch goes on
    expanding,  \* expandingAddress, or None
    awaited,    \* pendingExpansion, or None
    case,       \* the local case: network, rootAddress, scope
    frozen,     \* frozenEvidence: [network, root], or None
    polls,      \* the timers that are set: of the trace, of the expansion
    calls,      \* calls under way
    jobs,       \* the queue's jobs and how they stand
    doubled,    \* history: two polls of the graph shown were under way
    events, failures

page == <<network, options, graph, loading, error, selected, summary, pages,
          expanding, awaited, case, frozen, polls>>
vars == <<page, calls, jobs, doubled, events, failures>>

Key(a, n, s, p) == [address |-> a, network |-> n, scope |-> s, page |-> p]

\* A call, with what its closure holds.
Call(kind, key) ==
    [kind |-> kind, key |-> key, live |-> TRUE, chosen |-> TRUE, at |-> 0]

Kinds == {"trace", "poll", "expand", "expandPoll", "seedLookup", "lookup", "export"}

TypeOK ==
    /\ network \in Network /\ options \in Scope
    /\ graph \in GraphData \cup {None}
    /\ loading \in BOOLEAN /\ error \in BOOLEAN
    /\ selected \in Address \cup {None}
    /\ summary = None \/ summary \in [of : Address, network : Network]
    /\ DOMAIN pages \subseteq Address
    /\ \A a \in DOMAIN pages : pages[a] \in [cursor : 0..Pages, hasMore : BOOLEAN]
    /\ {expanding, awaited} \subseteq Address \cup {None}
    /\ case \in [network : Network, root : Address \cup {None}, scope : Scope]
    /\ \A c \in calls : c.kind \in Kinds

NoPages == [a \in {} |-> 0]

Init ==
    /\ network \in Network /\ options \in Scope
    /\ graph = None /\ loading = FALSE /\ error = FALSE /\ selected = None
    /\ summary = None /\ pages = NoPages /\ expanding = None /\ awaited = None
    /\ case = [network |-> network, root |-> None, scope |-> options]
    /\ frozen = None /\ polls = {} /\ calls = {} /\ jobs = NoPages
    /\ doubled = FALSE /\ events = 0 /\ failures = 0

-----------------------------------------------------------------------------
(* Effects.  A timer is cleared and set again whenever something its        *)
(* effect depends on changes; otherwise it stays as it is.                  *)

Nodes(g) == IF g = None THEN {} ELSE g.nodes

\* nodeDepths: the other addresses are neighbours of the root.
DepthOf(a) == IF graph # None /\ graph.root = a THEN 0 ELSE 1

\* investigationRef.current++: what is under way belongs to an earlier one.
LeftBehind(cs) == {[c EXCEPT !.live = FALSE] : c \in cs}

\* selectionRef.current++.
Deselected(cs) == {[c EXCEPT !.chosen = FALSE] : c \in cs}

\* The effects of the two timers, after a step that changes what they depend on.
TracePoll == IF graph' # None /\ graph'.pending THEN {"trace"} ELSE {}
ExpansionPoll == IF awaited' # None THEN {"expansion"} ELSE {}
BothPolls == polls' = TracePoll \cup ExpansionPoll

\* Variant: the expansion's effect does not depend on handleExpand.
KeptExpansionPoll == polls

\* After a step that changes what handleExpand holds: only that timer is set again.
AgainExpansionPoll == (polls \cap {"trace"}) \cup ExpansionPoll

\* What load, changeNetwork and an import take off the page.
ClearPage ==
    /\ pages' = NoPages /\ expanding' = None /\ awaited' = None
    /\ summary' = None

UserActs == events < MaxEvents /\ events' = events + 1

-----------------------------------------------------------------------------
(* The user.                                                               *)

\* load(target, false, targetNetwork, options), up to its await; `before` are the
\* calls it finds under way.
Load(a, n, s, before) ==
    /\ calls' = Deselected(LeftBehind(before)) \cup {Call("trace", Key(a, n, s, 1))}
    /\ ClearPage
    /\ graph' = None /\ selected' = None /\ frozen' = None
    /\ loading' = TRUE /\ error' = FALSE
    /\ doubled' = FALSE
    /\ BothPolls

\* Header.onSearch, or CrossChainPaths.onTraceDestination: changeNetwork and load.
\* The submit button is off while the page loads.
Search(a, n) ==
    /\ UserActs /\ ~loading
    /\ network' = n
    /\ case' = IF n = network THEN case ELSE [case EXCEPT !.network = n, !.root = None]
    /\ Load(a, n, options, calls)
    /\ UNCHANGED <<options, jobs, failures>>

\* WalletLookup.onTraceAddress: the address the inspector shows, on this network.
\* (The button is hidden for the address of the last search; searching it again
\* is Search's.)
SetMainTarget ==
    /\ UserActs /\ ~loading /\ summary # None
    /\ Load(summary.of, network, options, calls)
    /\ UNCHANGED <<network, options, case, jobs, failures>>

ChangeNetwork(n) ==
    /\ UserActs /\ n # network
    /\ network' = n
    /\ calls' = LeftBehind(calls)
    /\ ClearPage
    /\ graph' = None /\ selected' = None /\ frozen' = None /\ error' = FALSE
    /\ case' = [case EXCEPT !.network = n, !.root = None]
    /\ doubled' = FALSE
    /\ BothPolls
    /\ UNCHANGED <<options, loading, jobs, failures>>

\* requiresNewTrace: the depth is not among what is compared.
RequiresNewTrace(s) == s.direction # options.direction

\* onGraphOptionsChange and traceDirection: saveScope, and perhaps load.
ChangeOptions(s) ==
    /\ UserActs /\ s # options
    /\ options' = s
    /\ case' = [case EXCEPT !.scope = s]
    /\ IF graph # None /\ RequiresNewTrace(s)
       THEN Load(graph.root, network, s, calls)
       ELSE /\ UNCHANGED <<graph, loading, error, selected, summary, pages, expanding,
                           awaited, frozen, calls, doubled>>
            /\ BothPolls
    /\ UNCHANGED <<network, jobs, failures>>

\* handleSelect and selectLead: a node of the graph, or none.
Select(a) ==
    /\ UserActs /\ graph # None /\ a \in Nodes(graph) \cup {None} /\ a # selected
    /\ selected' = a
    /\ calls' = Deselected(calls) \cup
           IF a = None THEN {} ELSE {Call("lookup", Key(a, network, options, 1))}
    /\ UNCHANGED <<network, options, graph, loading, error, summary, pages, expanding,
                   awaited, case, frozen, polls, jobs, doubled, failures>>

\* exportFrozenEvidence, up to its await.
Export ==
    /\ UserActs /\ graph # None /\ graph.merged # {}
    /\ calls' = calls \cup {Call("export", Key(graph.root, network, options, 1))}
    /\ UNCHANGED <<page, jobs, doubled, failures>>

\* importFrozenEvidence: a package brings case, scope and graph.
Import(p) ==
    /\ UserActs
    /\ network' = p.network /\ options' = p.scope
    /\ case' = p
    /\ graph' = [network |-> p.network, root |-> p.root, scope |-> p.scope,
                 pending |-> FALSE, nodes |-> Address, merged |-> {}]
    /\ selected' = p.root
    /\ frozen' = [network |-> p.network, root |-> p.root]
    /\ calls' = LeftBehind(calls)
    /\ ClearPage /\ error' = FALSE /\ doubled' = FALSE
    /\ BothPolls
    /\ UNCHANGED <<loading, jobs, failures>>

-----------------------------------------------------------------------------
(* Expansion.                                                              *)

\* The page of a branch that is asked for next.
NextPage(a) == IF a \in DOMAIN pages THEN pages[a].cursor + 1 ELSE 1

\* Variant: expandingAddress is not looked at.
MayExpandAgain(a) ==
    /\ graph # None /\ DepthOf(a) < options.depth
    /\ awaited \in {None, a}
    /\ a \in DOMAIN pages => pages[a].hasMore

\* handleExpand's early return.
MayExpand(a) ==
    /\ graph # None /\ DepthOf(a) < options.depth
    /\ expanding = None /\ awaited \in {None, a}
    /\ a \in DOMAIN pages => pages[a].hasMore

\* handleExpand, up to its await.
Ask(kind, a) ==
    /\ expanding' = a
    /\ calls' = calls \cup {Call(kind, Key(a, network, options, NextPage(a)))}
    /\ UNCHANGED <<network, options, graph, loading, error, selected, summary, pages,
                   awaited, case, frozen, jobs, doubled, failures>>
    /\ polls' = AgainExpansionPoll

\* The button is for the active address, and off while that is expanded.
Expand ==
    /\ UserActs /\ graph # None
    /\ LET a == IF selected = None THEN graph.root ELSE selected IN
       /\ MayExpand(a) /\ awaited # a
       /\ Ask("expand", a)

-----------------------------------------------------------------------------
(* The timers.                                                             *)

\* load(seedAddress, true, network, graphOptions), up to its await.
PollTrace ==
    /\ "trace" \in polls
    /\ polls' = polls \ {"trace"}
    /\ calls' = calls \cup
           {[Call("poll", Key(graph.root, network, options, 1)) EXCEPT !.at = events]}
    /\ doubled' = (doubled \/ \E c \in calls : c.kind = "poll" /\ c.live)
    /\ error' = FALSE
    /\ UNCHANGED <<network, options, graph, loading, selected, summary, pages, expanding,
                   awaited, case, frozen, jobs, events, failures>>

\* handleExpand(pendingExpansion, false): it may return at once.
PollExpansion ==
    /\ "expansion" \in polls
    /\ UNCHANGED events
    /\ IF MayExpand(awaited)
       THEN Ask("expandPoll", awaited)
       ELSE /\ polls' = polls \ {"expansion"}
            /\ UNCHANGED <<network, options, graph, loading, error, selected, summary,
                           pages, expanding, awaited, case, frozen, calls, jobs, doubled,
                           failures>>

-----------------------------------------------------------------------------
(* The API: TraceGraph and ExpandNode with retry put a job in the queue,    *)
(* GetTraceStatus only reads it.                                           *)

JobEnds(k) ==
    /\ k \in DOMAIN jobs /\ jobs[k] = "pending"
    /\ \/ jobs' = [jobs EXCEPT ![k] = "done"] /\ UNCHANGED failures
       \/ /\ failures < MaxFailures /\ failures' = failures + 1
          /\ jobs' = [jobs EXCEPT ![k] = "failed"]
    /\ UNCHANGED <<page, calls, doubled, events>>

Queues(c) == c.kind \in {"trace", "expand"}

Queued(c) ==
    IF Queues(c) /\ ~(c.key \in DOMAIN jobs /\ jobs[c.key] # "failed")
    THEN [k \in DOMAIN jobs \cup {c.key} |-> IF k = c.key THEN "pending" ELSE jobs[k]]
    ELSE jobs

-----------------------------------------------------------------------------
(* Answers.                                                                *)

Returns(c) == calls' = calls \ {c}

\* The answer of a job: a page of history when it is done, and without more
\* (PendingGraph) when it is pending or failed.
Branch(key, status) ==
    IF status = "done" THEN [cursor |-> key.page, hasMore |-> key.page < Pages]
    ELSE [cursor |-> 0, hasMore |-> FALSE]

Graph(key, status) ==
    [network |-> key.network, root |-> key.address, scope |-> key.scope,
     pending |-> status = "pending",
     nodes |-> IF status = "done" THEN Address ELSE {key.address},
     merged |-> IF status = "done" THEN {<<key.address, 1>>} ELSE {}]

\* Variant: a search that another one has overtaken still shows its graph.
HeededAlways(c) == TRUE

\* What the page still waits for: investigation === investigationRef.current.
Heeded(c) == c.live

\* load after its await.
GraphComes(c) ==
    /\ c.kind \in {"trace", "poll"}
    /\ jobs' = Queued(c)
    /\ c.key \in DOMAIN jobs'
    /\ IF ~Heeded(c) THEN Returns(c) /\ UNCHANGED <<page, doubled>>
       ELSE LET status == jobs'[c.key] IN
            /\ graph' = Graph(c.key, status)
            /\ selected' = c.key.address
            /\ case' = [network |-> c.key.network, root |-> c.key.address,
                        scope |-> c.key.scope]
            /\ pages' = [a \in {c.key.address} |-> Branch(c.key, status)]
            /\ error' = FALSE
            /\ UNCHANGED <<network, options, summary, expanding, awaited, frozen, doubled>>
            /\ BothPolls
            /\ IF c.kind = "trace"
               THEN /\ loading' = FALSE
                    /\ calls' = (calls \ {c}) \cup {Call("seedLookup", c.key)}
               ELSE Returns(c) /\ UNCHANGED loading
    /\ UNCHANGED <<events, failures>>

\* handleExpand after its await.
ExpansionComes(c) ==
    /\ c.kind \in {"expand", "expandPoll"}
    /\ jobs' = Queued(c)
    /\ c.key \in DOMAIN jobs'
    /\ Returns(c)
    /\ IF ~Heeded(c) THEN UNCHANGED page
       ELSE LET status == jobs'[c.key] a == c.key.address IN
            /\ expanding' = None
            /\ IF status = "pending"
               THEN awaited' = a /\ UNCHANGED <<graph, pages>>
               ELSE /\ awaited' = None
                    /\ graph' = IF status = "failed" THEN graph
                                ELSE [graph EXCEPT !.nodes = Address,
                                          !.merged = @ \cup {<<a, c.key.page>>}]
                    /\ pages' = [x \in DOMAIN pages \cup {a} |->
                                    IF x = a THEN Branch(c.key, status) ELSE pages[x]]
            /\ polls' = IF status = "pending" THEN (polls \cap {"trace"}) \cup {"expansion"}
                        ELSE TracePoll
            /\ UNCHANGED <<network, options, loading, error, selected, summary, case, frozen>>
    /\ UNCHANGED <<doubled, events, failures>>

\* What lookupAddress brings; it settles even when a request of it fails.
LookupComes(c) ==
    /\ c.kind \in {"seedLookup", "lookup"}
    /\ Returns(c)
    /\ IF IF c.kind = "seedLookup" THEN Heeded(c) ELSE c.chosen
       THEN \/ summary' = [of |-> c.key.address, network |-> c.key.network]
               /\ UNCHANGED failures
            \/ failures < MaxFailures /\ failures' = failures + 1 /\ summary' = None
       ELSE UNCHANGED <<summary, failures>>
    /\ UNCHANGED <<network, options, graph, loading, error, selected, pages, expanding,
                   awaited, case, frozen, polls, jobs, doubled, events>>

\* exportFrozenEvidence after its await.
PackageComes(c) ==
    /\ c.kind = "export"
    /\ Returns(c)
    /\ frozen' = [network |-> c.key.network, root |-> c.key.address]
    /\ UNCHANGED <<network, options, graph, loading, error, selected, summary, pages,
                   expanding, awaited, case, polls, jobs, doubled, events, failures>>

\* A call fails, whether its request has come through or not; the status of a
\* trace nobody has asked for is not found.
CallFails(c) ==
    /\ c.kind \in {"trace", "poll", "expand", "expandPoll"}
    /\ \/ /\ failures < MaxFailures /\ failures' = failures + 1
          /\ jobs' \in {jobs, Queued(c)}
       \/ ~Queues(c) /\ c.key \notin DOMAIN jobs /\ UNCHANGED <<jobs, failures>>
    /\ Returns(c)
    /\ UNCHANGED <<network, options, graph, selected, summary, pages, awaited, case, frozen,
                   doubled, events>>
    /\ IF Heeded(c)
       THEN /\ error' = TRUE
            /\ loading' = (loading /\ c.kind # "trace")
            /\ IF c.kind \in {"trace", "poll"} THEN UNCHANGED <<expanding, polls>>
               ELSE expanding' = None /\ polls' = AgainExpansionPoll
       ELSE UNCHANGED <<error, loading, expanding, polls>>

\* An export that fails shows its error in the case panel.
ExportFails(c) ==
    /\ c.kind = "export"
    /\ failures < MaxFailures /\ failures' = failures + 1
    /\ Returns(c)
    /\ UNCHANGED <<page, jobs, doubled, events>>

Comes(c) ==
    \/ GraphComes(c) \/ ExpansionComes(c) \/ LookupComes(c) \/ PackageComes(c)
    \/ CallFails(c) \/ ExportFails(c)

Next ==
    \/ \E a \in Address, n \in Network : Search(a, n)
    \/ SetMainTarget
    \/ \E n \in Network : ChangeNetwork(n)
    \/ \E s \in Scope : ChangeOptions(s)
    \/ \E a \in Address \cup {None} : Select(a)
    \/ Expand
    \/ Export
    \/ \E p \in Package : Import(p)
    \/ PollTrace \/ PollExpansion
    \/ \E k \in DOMAIN jobs : JobEnds(k)
    \/ \E c \in calls : Comes(c)

Spec == Init /\ [][Next]_vars

\* Timers fire, the queue ends its jobs (TraceQueue's EveryTraceIsAnswered) and
\* calls of every kind return; the user need not do anything.
Fairness ==
    /\ WF_vars(PollTrace) /\ WF_vars(PollExpansion)
    /\ WF_vars(\E k \in DOMAIN jobs : JobEnds(k))
    /\ \A kind \in Kinds : WF_vars(\E c \in calls : c.kind = kind /\ Comes(c))

FairSpec == Spec /\ Fairness

-----------------------------------------------------------------------------
(* Properties.                                                             *)

\* load and changeNetwork: whatever answers come late, the graph on the page is of
\* the network that is chosen, the local case is about that graph, and the branches,
\* the awaited expansion and the selection are nodes of it; the nodes unless two polls
\* of one graph were under way at a time, when the later answer, a pending job's
\* perhaps, puts its own graph over the first.
OnePage ==
    /\ TypeOK
    /\ case.network = network
    /\ graph # None =>
        /\ graph.network = network /\ case.root = graph.root
        /\ ~doubled =>
            /\ DOMAIN pages \subseteq graph.nodes
            /\ {expanding, awaited, selected} \subseteq graph.nodes \cup {None}

\* handleExpand: at most one expansion of the graph shown is under way, the button
\* shows which, and what was merged of a branch is its first pages without a gap,
\* up to where it goes on; unless two polls of one graph were under way at a time,
\* when the later answer puts its own graph over expansions of the first.
BranchesWhole ==
    LET live == {c \in calls : c.live /\ c.kind \in {"expand", "expandPoll"}}
        Merged(a) == {p \in 1..Pages : <<a, p>> \in graph.merged}
    IN  /\ {c.key.address : c \in live} = {expanding} \ {None}
        /\ Cardinality(live) <= 1
        /\ graph # None /\ ~doubled =>
            \A a \in Address :
                /\ Merged(a) = 1..Cardinality(Merged(a))
                /\ a \in DOMAIN pages /\ pages[a].hasMore =>
                       pages[a].cursor = Cardinality(Merged(a))

\* The poll effects: a trace that is shown as pending ends, or an error is shown;
\* an awaited expansion ends although polls for it fail, unless the depth was
\* changed under it.
PollsEnd ==
    /\ (graph # None /\ graph.pending) ~> (graph = None \/ ~graph.pending \/ error)
    /\ \A a \in Address :
        awaited = a ~>
            \/ awaited # a
            \/ DepthOf(a) >= options.depth
            \/ Key(a, network, options, NextPage(a)) \notin DOMAIN jobs

-----------------------------------------------------------------------------
(* What the code does not keep.                                            *)

\* The inspector shows an address of the chosen network: changeNetwork and an import
\* leave selectionRef as it is, and a lookup of before comes in.
SummaryIsOfThePage == summary # None => summary.network = network

\* ...and, once a node is selected and looked up, that node: the seed's lookup is
\* guarded by the investigation only.
SummaryIsOfTheNode ==
    summary # None /\ selected # None /\ calls = {} => summary.of = selected

\* "loading" means that a search is under way: changeNetwork and an import leave it
\* set, the answer is not heeded, and the submit button stays off.
LoadingEnds == loading => \E c \in calls : c.kind = "trace" /\ c.live

\* "Changes retrieve a new graph." (GraphCanvas.tsx:1236): a change of depth does not.
GraphIsInScope == graph # None /\ calls = {} => graph.scope = options

\* A branch is shown as exhausted when its history is: a failed job ends it as well.
BranchesOpen ==
    graph # None => \A a \in DOMAIN pages :
        pages[a].hasMore \/ graph.pending \/ <<a, Pages>> \in graph.merged

\* The package that can be printed is of the investigation shown.
FrozenIsShown == frozen # None /\ graph # None => frozen.network = graph.network

\* A pending trace is polled until it ends: one failed poll ends the polling.
PendingEnds == (graph # None /\ graph.pending) ~> (graph = None \/ ~graph.pending)

=============================================================================

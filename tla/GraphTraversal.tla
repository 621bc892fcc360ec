---------------------------- MODULE GraphTraversal ----------------------------
(***************************************************************************)
(* tracing.Engine: from the transfers of a fresh provider page to the      *)
(* graph that answers a trace.  The page is filtered by direction, reduced *)
(* to the counterparties that rank first, and saved; the answer is then    *)
(* read back by a bounded breadth-first walk over all stored transfers.    *)
(* Every node is expanded by a read transaction of its own, and another    *)
(* process (a worker that stalled past its lease) may save in between.     *)
(* Addresses are numbers, for their order decides ties.                    *)
(***************************************************************************)
EXTENDS Integers, FiniteSets, FiniteSetsExt

CONSTANTS
    Address,            \* normalised addresses
    Flow,               \* transfers that may be observed or stored
    Seed,               \* the address traced
    Known,              \* addresses with a label (labelRegistry.GetLabels)
    Directions,         \* the requested directions
    Rankings,           \* the requested rankings
    Limits,             \* the requested page sizes
    CounterpartyLimits, \* the requested numbers of counterparties
    Depths,             \* the requested depths
    MaxPage,            \* maxPageSize, maxGraphEdgesPerAddress
    MaxCounterparties,  \* MaxCounterpartyLimit
    DefaultCounterparties,
    MaxDepth,           \* MaxGraphDepth
    MaxNodes,           \* maxGraphTraversalNodes
    MaxEdges,           \* maxGraphTraversalEdges
    MaxOverlaps         \* bound: saves of another process during the walk

ASSUME TraversalAssumption ==
    /\ Address \subseteq Int
    /\ Seed \in Address
    /\ Known \subseteq Address
    /\ IsFiniteSet(Flow)
    /\ \A f \in Flow :
          f.from \in Address /\ f.to \in Address /\ f.at \in Int /\ f.id \in Int
          /\ f.amount \in Int
    /\ \A f, g \in Flow : f.id = g.id => f = g
    /\ Limits \cup CounterpartyLimits \cup Depths \subseteq Nat
    /\ MaxPage \in Nat \ {0}
    /\ MaxCounterparties \in Nat \ {0}
    /\ DefaultCounterparties \in 1 .. MaxCounterparties
    /\ MaxDepth \in Nat \ {0}
    /\ MaxNodes \in Nat \ {0}
    /\ MaxEdges \in Nat \ {0}
    /\ MaxOverlaps \in Nat

VARIABLES
    pc,         \* "page", "walk", "done"
    request,    \* what was asked, after graphControls and graphDepth
    store,      \* the stored transfers (FundFlow edges)
    opened,     \* the store when the walk began; no part of the program
    page,       \* the selected transfers of the fresh page, the rules' input
    hop,        \* hops walked
    frontier,   \* nodes of this hop still to expand
    next,       \* nodes of the next hop
    visited,    \* nodes seen
    expanded,   \* nodes expanded; no part of the program
    stored,     \* the transfers of the answer
    overlaps    \* saves of another process so far

walkVars == <<pc, request, store, opened, page, hop, frontier, next, visited,
              expanded, stored, overlaps>>

-----------------------------------------------------------------------------
(* The request as the engine uses it.                                      *)

PageLimit(n) == IF n = 0 \/ n > MaxPage THEN MaxPage ELSE n

GraphControls(n) ==
    IF n = 0 THEN DefaultCounterparties ELSE Min({n, MaxCounterparties})

GraphDepth(n) == IF n = 0 THEN 1 ELSE Min({n, MaxDepth})

Requests ==
    [direction : Directions, ranking : Rankings, limit : Limits,
     counterparties : CounterpartyLimits, depth : Depths]

Controlled(r) ==
    [r EXCEPT !.limit = PageLimit(@), !.counterparties = GraphControls(@),
              !.depth = GraphDepth(@)]

-----------------------------------------------------------------------------
(* Selection of counterparties among the transfers of one address, for a    *)
(* request r.                                                               *)

FilterTransfers(r, flows, address) ==
    {f \in flows : /\ r.direction = "inbound" => f.to = address
                   /\ r.direction = "outbound" => f.from = address}

Counterparty(f, address) == IF f.from = address THEN f.to ELSE f.from

Counterparties(flows, address) ==
    {Counterparty(f, address) : f \in flows} \ {address}

\* Labels are looked up for the ranking that needs them.
IsKnown(r, c) == r.ranking = "known_entity" /\ c \in Known

\* The sum of the amounts, unit by unit.
Sum(flows) == Cardinality(UNION {{f} \X (1 .. f.amount) : f \in flows})

\* What the engine counts of one counterparty; amounts are per exact asset, and
\* one that does not parse (a negative number here) counts nowhere.
Stats(r, flows, address, c) ==
    LET own == {f \in flows : Counterparty(f, address) = c}
    IN  [address |-> c,
         count |-> Cardinality(own),
         latest |-> Max({f.at : f \in own}),
         assets |-> {f.asset : f \in {g \in own : g.amount >= 0}},
         total |-> [a \in {f.asset : f \in own} |->
                       Sum({f \in own : f.asset = a /\ f.amount >= 0})],
         known |-> IsKnown(r, c)]

\* Variant: ties of time are left to the order of a Go map.
LaterOnly(s, t) == s.latest > t.latest

\* Ties fall to the latest transfer, then to the smaller address.
LaterOrSmaller(s, t) ==
    s.latest > t.latest \/ (s.latest = t.latest /\ s.address < t.address)

RanksBefore(r, s, t) ==
    CASE r.ranking = "most_active" /\ s.count # t.count -> s.count > t.count
      [] r.ranking = "known_entity" /\ s.known # t.known -> s.known
      [] OTHER -> LaterOrSmaller(s, t)

\* The first n of the candidates; above[s] are those ranked before s.
FirstOf(n, above) == {s.address : s \in {t \in DOMAIN above : Cardinality(above[t]) < n}}

ByTotal(a, s, t) ==
    s.total[a] > t.total[a] \/ (s.total[a] = t.total[a] /\ LaterOrSmaller(s, t))

AllStats(r, flows, address) ==
    {Stats(r, flows, address, c) : c \in Counterparties(flows, address)}

\* The total ranking keeps the first n of every asset by itself.
SelectedCounterparties(r, flows, address) ==
    LET stats == AllStats(r, flows, address)
        Moving(a) == {t \in stats : a \in t.assets}
    IN  IF r.ranking = "total_raw_amount"
        THEN UNION {FirstOf(r.counterparties,
                            [t \in Moving(a) |-> {s \in Moving(a) : ByTotal(a, s, t)}]) :
                        a \in UNION {t.assets : t \in stats}}
        ELSE FirstOf(r.counterparties,
                     [t \in stats |-> {s \in stats : RanksBefore(r, s, t)}])

\* All transfers of the selected counterparties; the address's own payments to
\* itself belong to none.
Select(r, flows, address) ==
    LET kept == FilterTransfers(r, flows, address)
        chosen == SelectedCounterparties(r, kept, address)
    IN  {f \in kept : Counterparty(f, address) \in chosen}

-----------------------------------------------------------------------------
(* The stored graph.                                                       *)

\* The order in which transfers are read.
Newer(f, g) == f.at > g.at \/ (f.at = g.at /\ f.id < g.id)

\* The first n of them.
Newest(n, flows) == {f \in flows : Cardinality({g \in flows : Newer(g, f)}) < n}

\* GraphNeighbors: the newest transfers of an address, at most limit.
GraphNeighbors(r, flows, address) ==
    Newest(r.limit,
           FilterTransfers(r, {f \in flows : address \in {f.from, f.to}}, address))

SelectedNeighbors(r, flows, address) == Select(r, GraphNeighbors(r, flows, address), address)

\* The nodes of a graph with its transfers: the seed and every endpoint.
NodesOf(flows) == {Seed} \cup {f.from : f \in flows} \cup {f.to : f \in flows}

WalkInit ==
    /\ pc = "page"
    /\ request \in {Controlled(r) : r \in Requests}
    /\ store \in SUBSET Flow
    /\ opened = store
    /\ page = {}
    /\ hop = 0
    /\ frontier = {}
    /\ next = {}
    /\ visited = {}
    /\ expanded = {}
    /\ stored = {}
    /\ overlaps = 0

\* The provider returns transfers of the seed; the selected ones are saved and
\* the walk starts at the seed.
SavePage ==
    /\ pc = "page"
    /\ \E fresh \in SUBSET {f \in Flow : Seed \in {f.from, f.to}} :
          /\ Cardinality(fresh) <= request.limit
          /\ page' = Select(request, fresh, Seed)
    /\ store' = store \cup page'
    /\ opened' = store'
    /\ frontier' = {Seed}
    /\ visited' = {Seed}
    /\ pc' = "walk"
    /\ UNCHANGED <<request, hop, next, expanded, stored, overlaps>>

Full == Cardinality(stored) >= MaxEdges \/ Cardinality(visited) >= MaxNodes

\* The nodes the transfers of this node lead to.
Discovered(flows, node) == {Counterparty(f, node) : f \in flows}

\* The transfers of a node that lead to one not seen yet, each the first to do so.
Leading(found, node, seen) ==
    {f \in found :
        /\ Counterparty(f, node) \notin seen
        /\ \A g \in found : Counterparty(g, node) = Counterparty(f, node) => ~Newer(g, f)}

\* The neighbours of one node, in the order they are read; those not seen yet
\* are queued for the next hop as long as there is room.  A hop expands its nodes
\* in the order of their addresses.
ExpandNode ==
    /\ pc = "walk"
    /\ ~Full
    /\ \E node \in frontier :
          LET found == SelectedNeighbors(request, store, node)
              queued == Discovered(Newest(MaxNodes - Cardinality(visited),
                                          Leading(found, node, visited)), node)
          IN  /\ \A n \in frontier : node <= n
              /\ stored' = stored \cup found
              /\ visited' = visited \cup queued
              /\ next' = next \cup queued
              /\ expanded' = expanded \cup {node}
              /\ frontier' = frontier \ {node}
    /\ UNCHANGED <<pc, request, store, opened, page, hop, overlaps>>

\* Variant: the depth is tested before the hop is counted.
NextHopLate ==
    /\ pc = "walk"
    /\ frontier = {} \/ Full
    /\ hop' = Min({hop + 1, request.depth})
    /\ frontier' = next
    /\ next' = {}
    /\ pc' = IF hop >= request.depth \/ next = {} THEN "done" ELSE "walk"
    /\ UNCHANGED <<request, store, opened, page, visited, expanded, stored, overlaps>>

\* The end of a hop: all nodes expanded, or no room left.
NextHop ==
    /\ pc = "walk"
    /\ frontier = {} \/ Full
    /\ hop' = hop + 1
    /\ frontier' = next
    /\ next' = {}
    /\ pc' = IF \/ hop + 1 >= request.depth
                \/ next = {}
                \/ Cardinality(stored) >= MaxEdges
             THEN "done" ELSE "walk"
    /\ UNCHANGED <<request, store, opened, page, visited, expanded, stored, overlaps>>

\* Another process saves a transfer between two reads.
Overlap ==
    /\ pc = "walk"
    /\ overlaps < MaxOverlaps
    /\ \E f \in Flow \ store : store' = store \cup {f}
    /\ overlaps' = overlaps + 1
    /\ UNCHANGED <<pc, request, opened, page, hop, frontier, next, visited, expanded, stored>>

WalkNext == SavePage \/ ExpandNode \/ NextHop \/ Overlap

WalkSpec == WalkInit /\ [][WalkNext]_walkVars

-----------------------------------------------------------------------------
WalkTypeOK ==
    /\ pc \in {"page", "walk", "done"}
    /\ request.limit \in 1 .. MaxPage
    /\ request.counterparties \in 1 .. MaxCounterparties
    /\ request.depth \in 1 .. MaxDepth
    /\ store \subseteq Flow /\ opened \subseteq store
    /\ page \subseteq Flow
    /\ hop \in 0 .. request.depth
    /\ frontier \cup next \cup expanded \subseteq visited /\ visited \subseteq Address
    /\ stored \subseteq store
    /\ overlaps \in 0 .. MaxOverlaps

\* Nodes that at most n of the links, pairs of nodes, lead to from the seed.
Within(n, links) ==
    {a \in Address : \E path \in [0 .. n -> Address] :
        /\ path[0] = Seed /\ path[n] = a
        /\ \A i \in 1 .. n : path[i] = path[i - 1] \/ <<path[i - 1], path[i]>> \in links}

\* Along the transfers returned, either way.
Ball(n) == Within(n, UNION {{<<f.from, f.to>>, <<f.to, f.from>>} : f \in stored})

\* graph.go:387, "bounded breadth-first traversal": wherever the limits stop the
\* walk and whatever is saved meanwhile, every transfer returned hangs on the
\* seed by a path of returned transfers no longer than the depth, and no node
\* is expanded that is further away than the hop it was expanded in.
Connected ==
    /\ \A f \in stored : {f.from, f.to} \subseteq Ball(request.depth)
    /\ pc = "walk" => expanded \subseteq Ball(hop)

\* graph.go:402: the limits are tested before a node is read, so the answer may
\* pass them, but by the transfers of one node only.
Bounded ==
    /\ Cardinality(visited) <= MaxNodes
    /\ Cardinality(stored) < MaxEdges + request.limit
    /\ Cardinality(NodesOf(stored)) < MaxNodes + request.limit

\* The walk by its definition: what the nodes nearer than the depth select.
Reach(n) ==
    Within(n, UNION {{<<m, o>> : o \in Discovered(SelectedNeighbors(request, opened, m), m)} : m \in Address})

\* graph.go:387: as long as no limit is met and no other process saves, the walk
\* returns exactly the selected transfers of every node nearer than the depth,
\* each node read once however many paths lead to it.
WalkExact ==
    (pc = "done" /\ store = opened /\ ~Full) =>
        stored = UNION {SelectedNeighbors(request, opened, m) : m \in Reach(request.depth - 1)}

\* traverseStoredGraph (graph.go:389): exact with its limits far away, connected and
\* bounded under them, whatever another process saves between two reads.
WalkHolds == WalkExact /\ Connected /\ Bounded

\* tracing.proto:113, "Counterparty selection is deterministic": two different counterparties never tie, so
\* the number kept is the number asked for, for every asset under the total
\* ranking.
SelectionExact ==
    LET kept == FilterTransfers(request, store, Seed)
        all == Counterparties(kept, Seed)
    IN  IF request.ranking = "total_raw_amount"
        THEN \A a \in {f.asset : f \in kept} :
               LET paid == {Counterparty(f, Seed) : f \in
                               {g \in kept : g.asset = a /\ g.amount >= 0}} \ {Seed}
               IN  Cardinality(SelectedCounterparties(request, kept, Seed) \cap paid)
                       >= Min({request.counterparties, Cardinality(paid)})
        ELSE Cardinality(SelectedCounterparties(request, kept, Seed))
                 = Min({request.counterparties, Cardinality(all)})

\* graph.go:86 says of the answer that "This graph and its findings are limited
\* to the retrieved provider page".
PageIsShown == pc = "done" => page \subseteq stored

=============================================================================

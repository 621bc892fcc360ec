------------------------ MODULE InvestigationPage_proofs ------------------------
(***************************************************************************)
(* The investigation page for any networks, addresses, scopes and number   *)
(* of user actions and failures, and any length of the histories.  The     *)
(* argument: a call is heeded only while the investigation it was made for *)
(* is on the page, one call at a time may expand, and a graph that is      *)
(* polled for has nothing to expand.                                       *)
(***************************************************************************)
EXTENDS InvestigationPage, FiniteSetTheorems, TLAPS

Keys == [address : Address, network : Network, scope : Scope, page : 1..Pages]

CallState == [kind : Kinds, key : Keys, live : BOOLEAN, chosen : BOOLEAN, at : Nat]

BranchState == [cursor : 0..Pages, hasMore : BOOLEAN]

\* Calls that change what the page shows of the graph.
Main == {"trace", "poll", "expand", "expandPoll"}

Expansions == {c \in calls : c.live /\ c.kind \in {"expand", "expandPoll"}}

Typed ==
    /\ TypeOK /\ calls \subseteq CallState
    /\ polls \subseteq {"trace", "expansion"} /\ events \in Nat
    /\ \A a \in DOMAIN pages : pages[a].hasMore => pages[a].cursor < Pages

Shown ==
    /\ case.network = network
    /\ graph # None =>
         graph.network = network /\ case.root = graph.root /\ graph.root \in graph.nodes
    /\ graph = None => expanding = None /\ awaited = None

Timers ==
    /\ "trace" \in polls => graph # None /\ graph.pending
    /\ "expansion" \in polls => awaited # None

\* A search is awaited with an empty page, and nothing else is.
Waiting ==
    \A c \in calls : c.live =>
        /\ c.key.network = network
        /\ c.kind \in {"trace", "poll"} => c.key.page = 1
        /\ graph = None => c.kind = "trace"
        /\ c.kind = "trace" => graph = None /\ \A d \in calls : d.live => d = c

Asking ==
    /\ \A c \in Expansions : c.key.address = expanding /\ \A d \in Expansions : d = c
    /\ expanding # None => Expansions # {}

\* Unless polls were doubled: one poll at most, and of a pending graph, in which
\* nothing can be expanded.
Polled ==
    /\ \A c, d \in calls : c.live /\ d.live /\ c.kind = "poll" /\ d.kind = "poll" => c = d
    /\ \A c \in calls : c.live /\ c.kind = "poll" => graph.pending
    /\ graph.pending =>
         /\ expanding = None /\ awaited = None
         /\ \A a \in graph.nodes : a \in DOMAIN pages /\ ~pages[a].hasMore

NodesOnly ==
    /\ DOMAIN pages \subseteq graph.nodes
    /\ {expanding, awaited, selected} \subseteq graph.nodes \cup {None}

Merged(a) == {p \in 1..Pages : <<a, p>> \in graph.merged}

\* What was merged of a branch are its first pages, and it goes on after them.
Gapless(a) ==
    \E n \in 0..Pages :
        /\ Merged(a) = 1..n
        /\ a \notin DOMAIN pages => n = 0
        /\ a \in DOMAIN pages /\ pages[a].hasMore => pages[a].cursor = n

InTurn ==
    \A c \in Expansions :
        /\ c.key.page = NextPage(c.key.address)
        /\ c.key.address \in DOMAIN pages => pages[c.key.address].hasMore

Sound == graph # None /\ ~doubled => Polled /\ NodesOnly /\ InTurn /\ \A a \in Address : Gapless(a)

IInv == Typed /\ Shown /\ Timers /\ Waiting /\ Asking /\ Sound

-----------------------------------------------------------------------------
(* Calls, graphs and branches.                                             *)

LEMMA CallIs ==
  ASSUME NEW kind \in Kinds, NEW k \in Keys
  PROVE  /\ Call(kind, k) \in CallState
         /\ Call(kind, k).kind = kind /\ Call(kind, k).key = k /\ Call(kind, k).live = TRUE
  BY DEF Call, CallState

LEMMA PolledCallIs ==
  ASSUME NEW k \in Keys, NEW n \in Nat
  PROVE  LET c == [Call("poll", k) EXCEPT !.at = n]
         IN  c \in CallState /\ c.kind = "poll" /\ c.key = k /\ c.live = TRUE
  BY DEF Call, CallState, Kinds

LEMMA LeftBehindIs ==
  ASSUME NEW cs \in SUBSET CallState
  PROVE  /\ LeftBehind(cs) \subseteq CallState
         /\ \A c \in LeftBehind(cs) : c.live = FALSE
  BY DEF LeftBehind, CallState

LEMMA DeselectedIs ==
  ASSUME NEW cs \in SUBSET CallState
  PROVE  /\ Deselected(cs) \subseteq CallState
         /\ \A c \in cs : [c EXCEPT !.chosen = FALSE] \in Deselected(cs)
         /\ \A c \in Deselected(cs) : \E p \in cs : c = [p EXCEPT !.chosen = FALSE]
         /\ \A p \in cs : LET c == [p EXCEPT !.chosen = FALSE]
                          IN  c.kind = p.kind /\ c.key = p.key /\ c.live = p.live
  BY DEF Deselected, CallState

LEMMA KeyIs ==
  ASSUME NEW a \in Address, NEW n \in Network, NEW s \in Scope, NEW p \in 1..Pages
  PROVE  /\ Key(a, n, s, p) \in Keys
         /\ Key(a, n, s, p).address = a /\ Key(a, n, s, p).network = n
         /\ Key(a, n, s, p).scope = s /\ Key(a, n, s, p).page = p
  BY DEF Key, Keys

LEMMA FirstPage == 1 \in 1..Pages /\ 0 \in 0..Pages /\ Pages \in Nat \ {0}
  BY PageAssumption

(* The answer of a job, done, pending or failed.                            *)
LEMMA GraphIs ==
  ASSUME NEW k \in Keys, NEW status
  PROVE  LET g == Graph(k, status)
         IN  /\ g \in GraphData
             /\ g.network = k.network /\ g.root = k.address /\ k.address \in g.nodes
             /\ g.pending = (status = "pending")
             /\ status = "done" => g.nodes = Address /\ g.merged = {<<k.address, 1>>}
             /\ status # "done" => g.nodes = {k.address} /\ g.merged = {}
  BY FirstPage DEF Graph, GraphData, Keys

LEMMA BranchIs ==
  ASSUME NEW k \in Keys, NEW status
  PROVE  LET b == Branch(k, status)
         IN  /\ b \in BranchState
             /\ b.hasMore => b.cursor < Pages /\ b.cursor = k.page
             /\ b.hasMore => status = "done"
  <1>1. k.page \in Nat /\ 1 <= k.page /\ k.page <= Pages /\ Pages \in Nat
    BY FirstPage DEF Keys
  <1>2. CASE status = "done"
    <2>0. (k.page < Pages) \in BOOLEAN
      BY SMT
    <2>1. PICK more \in BOOLEAN : more = (k.page < Pages)
      BY <2>0, Zenon
    <2>2. Branch(k, status) = [cursor |-> k.page, hasMore |-> more]
      BY <1>2, <2>1 DEF Branch
    <2>3. more => k.page < Pages
      BY <2>1
    <2>4. Branch(k, status).cursor = k.page /\ Branch(k, status).hasMore = more
      BY <2>2
    <2>5. Branch(k, status) \in BranchState
      BY <1>1, <2>1, <2>2 DEF BranchState
    <2> QED
      BY <1>2, <2>3, <2>4, <2>5
  <1>3. CASE status # "done"
    <2>1. Branch(k, status) = [cursor |-> 0, hasMore |-> FALSE]
      BY <1>3 DEF Branch
    <2> QED
      BY <1>1, <1>3, <2>1 DEF BranchState
  <1> QED
    BY <1>2, <1>3

(* The page that is asked for next exists.                                  *)
LEMMA NextPageIs ==
  ASSUME Typed, NEW a, MayExpand(a)
  PROVE  NextPage(a) \in 1..Pages
  <1>1. CASE a \in DOMAIN pages
    <2>1. pages[a].hasMore /\ pages[a].cursor \in 0..Pages /\ pages[a].cursor < Pages
      BY <1>1 DEF MayExpand, Typed, TypeOK
    <2> QED
      BY <1>1, <2>1, FirstPage DEF NextPage
  <1>2. CASE a \notin DOMAIN pages
    BY <1>2, FirstPage DEF NextPage
  <1> QED
    BY <1>1, <1>2

LEMMA NoneIsNoGraph == \A g \in GraphData : g # None
  BY PageAssumption

LEMMA GraphWithIs ==
  ASSUME NEW g \in GraphData, NEW a \in Address, NEW p \in 1..Pages
  PROVE  [g EXCEPT !.nodes = Address, !.merged = g.merged \cup {<<a, p>>}] \in GraphData
  <1>1. <<a, p>> \in Address \X (1..Pages)
    OBVIOUS
  <1>2. g.merged \cup {<<a, p>>} \in SUBSET (Address \X (1..Pages))
    BY <1>1 DEF GraphData
  <1> QED
    BY <1>2 DEF GraphData

LEMMA NoneIsNoAddress == \A a \in Address : a # None
  BY PageAssumption

-----------------------------------------------------------------------------
(* Types.                                                                  *)

LEMMA InitIInv == Init => IInv
  <1> SUFFICES ASSUME Init PROVE IInv
    OBVIOUS
  <1>1. /\ network \in Network /\ options \in Scope /\ graph = None /\ expanding = None
        /\ awaited = None /\ polls = {} /\ calls = {} /\ pages = NoPages /\ case.network = network
    BY DEF Init
  <1>2. DOMAIN NoPages = {}
    BY DEF NoPages
  <1>3. Typed
    BY <1>1, <1>2 DEF Init, Typed, TypeOK
  <1> QED
    BY <1>1, <1>3 DEF IInv, Shown, Timers, Waiting, Asking, Expansions, Sound

\* What is left of the types when a step sets some of the variables.
PageTyped ==
    /\ network \in Network /\ options \in Scope /\ graph \in GraphData \cup {None}
    /\ loading \in BOOLEAN /\ error \in BOOLEAN /\ selected \in Address \cup {None}
    /\ summary = None \/ summary \in [of : Address, network : Network]
    /\ expanding \in Address \cup {None} /\ awaited \in Address \cup {None}
    /\ case \in [network : Network, root : Address \cup {None}, scope : Scope]

BranchesTyped ==
    /\ DOMAIN pages \subseteq Address
    /\ \A a \in DOMAIN pages :
         pages[a] \in BranchState /\ (pages[a].hasMore => pages[a].cursor < Pages)

CallsTyped ==
    /\ calls \subseteq CallState /\ polls \subseteq {"trace", "expansion"} /\ events \in Nat

LEMMA TypedIs ==
  /\ Typed <=> PageTyped /\ BranchesTyped /\ CallsTyped
  /\ Typed' <=> PageTyped' /\ BranchesTyped' /\ CallsTyped'
  BY DEF Typed, TypeOK, PageTyped, BranchesTyped, CallsTyped, BranchState, CallState

LEMMA ClearedTyped == ClearPage => BranchesTyped' /\ expanding' = None /\ awaited' = None
                                   /\ summary' = None
  BY DEF ClearPage, NoPages, BranchesTyped

LEMMA PollsTyped ==
  /\ TracePoll \subseteq {"trace"} /\ ExpansionPoll \subseteq {"expansion"}
  /\ BothPolls => polls' \subseteq {"trace", "expansion"}
  /\ AgainExpansionPoll \subseteq {"trace", "expansion"}
  BY DEF TracePoll, ExpansionPoll, BothPolls, AgainExpansionPoll

LEMMA LoadTyped ==
  ASSUME Typed, NEW a \in Address, NEW n \in Network, NEW s \in Scope, Load(a, n, s, calls),
         network' \in Network, options' \in Scope, events' \in Nat,
         case' \in [network : Network, root : Address \cup {None}, scope : Scope]
  PROVE  Typed'
  <1> DEFINE c == Call("trace", Key(a, n, s, 1))
  <1>1. c \in CallState
    BY KeyIs, FirstPage, CallIs DEF Kinds
  <1>2. Deselected(LeftBehind(calls)) \subseteq CallState
    BY TypedIs, LeftBehindIs, DeselectedIs DEF CallsTyped
  <1>3. calls' = Deselected(LeftBehind(calls)) \cup {c}
    BY DEF Load
  <1> HIDE DEF c
  <1>4. CallsTyped'
    BY <1>1, <1>2, <1>3, PollsTyped DEF CallsTyped, Load
  <1>5. BranchesTyped'
    BY ClearedTyped DEF Load
  <1>6. PageTyped'
    BY ClearedTyped DEF Load, PageTyped
  <1> QED
    BY <1>4, <1>5, <1>6, TypedIs

LEMMA SearchTyped == ASSUME Typed, NEW a \in Address, NEW n \in Network, Search(a, n) PROVE Typed'
  <1>1. /\ Load(a, n, options, calls) /\ network' = n /\ options' = options /\ events' = events + 1
        /\ case' \in {case, [case EXCEPT !.network = n, !.root = None]}
    BY DEF Search, UserActs
  <1>2. /\ options \in Scope /\ events \in Nat
        /\ case \in [network : Network, root : Address \cup {None}, scope : Scope]
    BY TypedIs DEF PageTyped, CallsTyped
  <1>3. case' \in [network : Network, root : Address \cup {None}, scope : Scope]
    BY <1>1, <1>2
  <1> QED
    BY <1>1, <1>2, <1>3, LoadTyped

LEMMA SetMainTargetTyped == ASSUME Typed, SetMainTarget PROVE Typed'
  <1>1. /\ Load(summary.of, network, options, calls) /\ network' = network /\ options' = options
        /\ events' = events + 1 /\ case' = case /\ summary # None
    BY DEF SetMainTarget, UserActs
  <1>2. /\ options \in Scope /\ events \in Nat /\ network \in Network /\ summary.of \in Address
        /\ case \in [network : Network, root : Address \cup {None}, scope : Scope]
    BY <1>1, TypedIs DEF PageTyped, CallsTyped
  <1> QED
    BY <1>1, <1>2, LoadTyped

LEMMA ChangeNetworkTyped == ASSUME Typed, NEW n \in Network, ChangeNetwork(n) PROVE Typed'
  <1>1. /\ events \in Nat /\ calls \subseteq CallState
        /\ case \in [network : Network, root : Address \cup {None}, scope : Scope]
    BY TypedIs DEF PageTyped, CallsTyped
  <1>2. case' \in [network : Network, root : Address \cup {None}, scope : Scope]
    BY <1>1 DEF ChangeNetwork
  <1>3. BranchesTyped'
    BY ClearedTyped DEF ChangeNetwork
  <1>5. PageTyped'
    BY <1>2, TypedIs, ClearedTyped DEF PageTyped, ChangeNetwork
  <1>4. CallsTyped'
    <2>1. LeftBehind(calls) \subseteq CallState
      BY <1>1, LeftBehindIs
    <2>2. calls' = LeftBehind(calls) /\ polls' \subseteq {"trace", "expansion"} /\ events' \in Nat
      BY <1>1, PollsTyped DEF ChangeNetwork, UserActs
    <2> QED
      BY <2>1, <2>2 DEF CallsTyped
  <1> QED
    BY <1>3, <1>4, <1>5, TypedIs

LEMMA ImportTyped == ASSUME Typed, NEW p \in Package, Import(p) PROVE Typed'
  <1>1. events \in Nat /\ calls \subseteq CallState /\ loading \in BOOLEAN
    BY TypedIs DEF PageTyped, CallsTyped
  <1>2. p \in [network : Network, root : Address, scope : Scope]
    BY PageAssumption
  <1>3. graph' \in GraphData
    BY <1>2 DEF Import, GraphData
  <1>4. case' \in [network : Network, root : Address \cup {None}, scope : Scope]
    BY <1>2 DEF Import
  <1>5. BranchesTyped'
    BY ClearedTyped DEF Import
  <1>7. PageTyped'
    BY <1>1, <1>2, <1>3, <1>4, ClearedTyped DEF PageTyped, Import
  <1>6. CallsTyped'
    <2>1. LeftBehind(calls) \subseteq CallState
      BY <1>1, LeftBehindIs
    <2>2. calls' = LeftBehind(calls) /\ polls' \subseteq {"trace", "expansion"} /\ events' \in Nat
      BY <1>1, PollsTyped DEF Import, UserActs
    <2> QED
      BY <2>1, <2>2 DEF CallsTyped
  <1> QED
    BY <1>5, <1>6, <1>7, TypedIs

\* What keeps the network, the options, the graph and the branches.
Within ==
    /\ loading \in BOOLEAN /\ error \in BOOLEAN /\ selected \in Address \cup {None}
    /\ summary \in [of : Address, network : Network] \cup {None}
    /\ expanding \in Address \cup {None} /\ awaited \in Address \cup {None}
    /\ case \in [network : Network, root : Address \cup {None}, scope : Scope]
    /\ calls \subseteq CallState /\ polls \subseteq {"trace", "expansion"} /\ events \in Nat

LEMMA WithinTyped ==
  /\ Typed => Within
  /\ Typed /\ Within' /\ UNCHANGED <<network, options, graph, pages>> => Typed'
  <1>1. Typed => Within
    BY TypedIs DEF Within, PageTyped, CallsTyped
  <1>2. ASSUME Typed, Within', UNCHANGED <<network, options, graph, pages>> PROVE Typed'
    <2>1. PageTyped /\ BranchesTyped
      BY <1>2, TypedIs
    <2>2. network' = network /\ options' = options /\ graph' = graph /\ pages' = pages
      BY <1>2
    <2>3. PageTyped'
      BY <1>2, <2>1, <2>2 DEF Within, PageTyped
    <2>4. BranchesTyped'
      BY <2>1, <2>2 DEF BranchesTyped
    <2>5. CallsTyped'
      BY <1>2 DEF Within, CallsTyped
    <2> QED
      BY <2>3, <2>4, <2>5, TypedIs
  <1> QED
    BY <1>1, <1>2

LEMMA ChangeOptionsTyped == ASSUME Typed, NEW s \in Scope, ChangeOptions(s) PROVE Typed'
  <1>1. /\ events \in Nat /\ network \in Network /\ PageTyped /\ BranchesTyped /\ CallsTyped
        /\ case \in [network : Network, root : Address \cup {None}, scope : Scope]
    BY TypedIs DEF PageTyped, CallsTyped
  <1>2. /\ case' \in [network : Network, root : Address \cup {None}, scope : Scope]
        /\ events' \in Nat /\ options' = s /\ network' = network
    BY <1>1 DEF ChangeOptions, UserActs
  <1>3. CASE graph # None /\ RequiresNewTrace(s)
    <2>1. graph.root \in Address
      BY <1>1, <1>3 DEF PageTyped, GraphData
    <2>2. Load(graph.root, network, s, calls)
      BY <1>3 DEF ChangeOptions
    <2> QED
      BY <1>1, <1>2, <2>1, <2>2, LoadTyped
  <1>4. CASE ~(graph # None /\ RequiresNewTrace(s))
    <2>1. /\ graph' = graph /\ loading' = loading /\ error' = error /\ selected' = selected
          /\ summary' = summary /\ pages' = pages /\ expanding' = expanding
          /\ awaited' = awaited /\ calls' = calls /\ BothPolls
      BY <1>4 DEF ChangeOptions
    <2>2. PageTyped'
      BY <1>1, <1>2, <2>1 DEF PageTyped
    <2>3. BranchesTyped'
      BY <1>1, <2>1 DEF BranchesTyped
    <2>4. CallsTyped'
      BY <1>1, <1>2, <2>1, PollsTyped DEF CallsTyped
    <2> QED
      BY <2>2, <2>3, <2>4, TypedIs
  <1> QED
    BY <1>3, <1>4

LEMMA SelectTyped == ASSUME Typed, NEW a \in Address \cup {None}, Select(a) PROVE Typed'
  <1>1. Within /\ network \in Network /\ options \in Scope
    BY WithinTyped, TypedIs DEF PageTyped
  <1>2. Deselected(calls) \subseteq CallState
    BY <1>1, DeselectedIs DEF Within
  <1>3. a # None => Call("lookup", Key(a, network, options, 1)) \in CallState
    BY <1>1, KeyIs, FirstPage, CallIs DEF Kinds
  <1>4. calls' \subseteq CallState /\ events' \in Nat
    BY <1>1, <1>2, <1>3 DEF Within, Select, UserActs
  <1>5. Within'
    BY <1>1, <1>4 DEF Within, Select
  <1> QED
    BY <1>5, WithinTyped DEF Select

LEMMA ExportTyped == ASSUME Typed, Export PROVE Typed'
  <1>1. Within /\ network \in Network /\ options \in Scope /\ graph \in GraphData
    BY WithinTyped, TypedIs DEF PageTyped, Export
  <1>2. Call("export", Key(graph.root, network, options, 1)) \in CallState
    BY <1>1, KeyIs, FirstPage, CallIs DEF Kinds, GraphData
  <1>3. calls' \subseteq CallState /\ events' \in Nat
    BY <1>1, <1>2 DEF Within, Export, UserActs
  <1>4. Within'
    BY <1>1, <1>3 DEF Within, Export, page
  <1> QED
    BY <1>4, WithinTyped DEF Export, page

LEMMA AskTyped ==
  ASSUME Typed, NEW kind \in {"expand", "expandPoll"}, NEW a \in Address, MayExpand(a),
         Ask(kind, a), events' \in Nat
  PROVE  Typed'
  <1>1. Within /\ network \in Network /\ options \in Scope
    BY WithinTyped, TypedIs DEF PageTyped
  <1>2. Call(kind, Key(a, network, options, NextPage(a))) \in CallState
    BY <1>1, NextPageIs, KeyIs, CallIs DEF Kinds
  <1>3. calls' \subseteq CallState /\ polls' \subseteq {"trace", "expansion"}
    BY <1>1, <1>2, PollsTyped DEF Within, Ask
  <1>4. Within'
    BY <1>1, <1>3 DEF Within, Ask
  <1> QED
    BY <1>4, WithinTyped DEF Ask

LEMMA PollTraceTyped == ASSUME IInv, PollTrace PROVE Typed'
  <1>1. Within /\ network \in Network /\ options \in Scope /\ graph \in GraphData
    BY WithinTyped, TypedIs DEF PageTyped, IInv, Timers, PollTrace
  <1>2. [Call("poll", Key(graph.root, network, options, 1)) EXCEPT !.at = events] \in CallState
    BY <1>1, KeyIs, FirstPage, PolledCallIs DEF GraphData, Within
  <1>3. calls' \subseteq CallState
    BY <1>1, <1>2 DEF Within, PollTrace
  <1>4. Within'
    BY <1>1, <1>3 DEF Within, PollTrace
  <1> QED
    BY <1>4, WithinTyped DEF PollTrace, IInv

LEMMA GraphComesTyped == ASSUME Typed, NEW c \in calls, GraphComes(c) PROVE Typed'
  <1>1. Within /\ PageTyped /\ c \in CallState
    BY TypedIs, WithinTyped DEF Within
  <1>2. CASE ~Heeded(c)
    <2>1. Within'
      BY <1>1, <1>2 DEF Within, GraphComes, Returns, page
    <2> QED
      BY <1>2, <2>1, WithinTyped DEF GraphComes, page
  <1>3. CASE Heeded(c)
    <2>1. PICK k, status : k = c.key /\ status = jobs'[k]
      OBVIOUS
    <2>2. /\ graph' = Graph(k, status) /\ selected' = k.address
          /\ case' = [network |-> k.network, root |-> k.address, scope |-> k.scope]
          /\ pages' = [a \in {k.address} |-> Branch(k, status)] /\ error' = FALSE
          /\ network' = network /\ options' = options /\ summary' = summary
          /\ expanding' = expanding /\ awaited' = awaited /\ BothPolls
          /\ loading' \in {FALSE, loading} /\ events' = events
          /\ calls' \subseteq calls \cup {Call("seedLookup", k)}
      BY <1>3, <2>1 DEF GraphComes, Returns
    <2>3. k \in Keys /\ k.address \in Address /\ k.network \in Network /\ k.scope \in Scope
      BY <1>1, <2>1 DEF CallState, Keys
    <2>4. graph' \in GraphData
      BY <2>2, <2>3, GraphIs
    <2>5. BranchesTyped'
      <3>1. DOMAIN pages' = {k.address} /\ pages'[k.address] = Branch(k, status)
        BY <2>2
      <3> QED
        BY <2>3, <3>1, BranchIs DEF BranchesTyped
    <2>6. Call("seedLookup", k) \in CallState
      BY <2>3, CallIs DEF Kinds
    <2>7. CallsTyped'
      BY <1>1, <2>2, <2>6, PollsTyped DEF CallsTyped, Within
    <2>8. PageTyped'
      <3>1. case' \in [network : Network, root : Address \cup {None}, scope : Scope]
        BY <2>2, <2>3
      <3> QED
        BY <1>1, <2>2, <2>3, <2>4, <3>1 DEF PageTyped
    <2> QED
      BY <2>5, <2>7, <2>8, TypedIs
  <1> QED
    BY <1>2, <1>3

LEMMA ExpansionComesTyped == ASSUME IInv, NEW c \in calls, ExpansionComes(c) PROVE Typed'
  <1>1. Within /\ PageTyped /\ BranchesTyped /\ c \in CallState
    BY TypedIs, WithinTyped DEF IInv, Within
  <1>2. CASE ~Heeded(c)
    <2>1. Within'
      BY <1>1, <1>2 DEF Within, ExpansionComes, Returns, page
    <2> QED
      BY <1>2, <2>1, WithinTyped DEF ExpansionComes, page, IInv
  <1>3. CASE Heeded(c)
    <2>1. PICK k, status, a : k = c.key /\ status = jobs'[k] /\ a = k.address
      OBVIOUS
    <2>2. /\ expanding' = None /\ awaited' \in {a, None}
          /\ \/ graph' = graph
             \/ graph' = [graph EXCEPT !.nodes = Address, !.merged = @ \cup {<<a, k.page>>}]
          /\ \/ pages' = pages
             \/ pages' = [x \in DOMAIN pages \cup {a} |->
                            IF x = a THEN Branch(k, status) ELSE pages[x]]
          /\ polls' \in {(polls \cap {"trace"}) \cup {"expansion"}, TracePoll}
          /\ network' = network /\ options' = options /\ loading' = loading /\ error' = error
          /\ selected' = selected /\ summary' = summary /\ case' = case /\ events' = events
          /\ calls' = calls \ {c}
      BY <1>3, <2>1 DEF ExpansionComes, Returns
    <2>3. k \in Keys /\ a \in Address /\ k.page \in 1..Pages
      BY <1>1, <2>1 DEF CallState, Keys
    <2>4. graph \in GraphData
      BY <1>1, <1>3 DEF IInv, Waiting, Heeded, ExpansionComes, PageTyped
    <2>5. graph' \in GraphData
      BY <2>2, <2>3, <2>4, GraphWithIs
    <2>6. BranchesTyped'
      <3>1. CASE pages' = pages
        BY <1>1, <3>1 DEF BranchesTyped
      <3>2. CASE pages' = [x \in DOMAIN pages \cup {a} |->
                            IF x = a THEN Branch(k, status) ELSE pages[x]]
        <4>1. DOMAIN pages' = DOMAIN pages \cup {a} /\ pages'[a] = Branch(k, status)
              /\ \A x \in DOMAIN pages : x # a => pages'[x] = pages[x]
          BY <3>2
        <4> QED
          BY <1>1, <2>3, <4>1, BranchIs DEF BranchesTyped
      <3> QED
        BY <2>2, <3>1, <3>2
    <2>7. CallsTyped'
      BY <1>1, <2>2, PollsTyped DEF CallsTyped, Within
    <2>8. PageTyped'
      BY <1>1, <2>2, <2>3, <2>5 DEF PageTyped
    <2> QED
      BY <2>6, <2>7, <2>8, TypedIs
  <1> QED
    BY <1>2, <1>3

LEMMA LookupComesTyped == ASSUME Typed, NEW c \in calls, LookupComes(c) PROVE Typed'
  <1>1. Within /\ c \in CallState
    BY WithinTyped DEF Within
  <1>2. summary' \in [of : Address, network : Network] \cup {None}
    BY <1>1 DEF LookupComes, CallState, Keys, Within
  <1>3. Within'
    BY <1>1, <1>2 DEF Within, LookupComes, Returns
  <1> QED
    BY <1>3, WithinTyped DEF LookupComes

LEMMA CallFailsTyped == ASSUME Typed, NEW c \in calls, CallFails(c) PROVE Typed'
  <1>1. Within
    BY WithinTyped
  <1>2. /\ polls' \in {polls, AgainExpansionPoll} /\ error' \in {TRUE, error}
        /\ loading' \in BOOLEAN /\ expanding' \in {expanding, None} /\ calls' = calls \ {c}
    BY <1>1 DEF CallFails, Within, Returns
  <1>3. Within'
    BY <1>1, <1>2, PollsTyped DEF Within, CallFails
  <1> QED
    BY <1>3, WithinTyped DEF CallFails

LEMMA OthersTyped ==
  ASSUME Typed,
         \/ \E k \in DOMAIN jobs : JobEnds(k)
         \/ \E c \in calls : PackageComes(c) \/ ExportFails(c)
         \/ UNCHANGED vars
  PROVE  Typed'
  <1>1. Within
    BY WithinTyped
  <1>2. /\ calls' \subseteq calls
        /\ UNCHANGED <<network, options, graph, loading, error, selected, summary, pages,
                       expanding, awaited, case, polls, events>>
    BY DEF JobEnds, PackageComes, ExportFails, Returns, vars, page
  <1>3. Within'
    BY <1>1, <1>2 DEF Within
  <1> QED
    BY <1>2, <1>3, WithinTyped

-----------------------------------------------------------------------------
(* Steps that leave the graph and its branches as they are.                 *)

LEMMA GraphTyped ==
  ASSUME Typed, graph # None
  PROVE  graph \in GraphData /\ graph.nodes \subseteq Address /\ graph.root \in Address
         /\ graph.network \in Network
  BY DEF Typed, TypeOK, GraphData

(* One expansion is under way when it is shown, and it is of that node.     *)
LEMMA NoneAsked ==
  ASSUME IInv, expanding = None
  PROVE  Expansions = {}
  <1>1. ASSUME NEW c \in Expansions PROVE FALSE
    <2>1. c.key.address = None /\ c \in CallState
      BY <1>1 DEF IInv, Asking, Typed, Expansions
    <2> QED
      BY <2>1, NoneIsNoAddress DEF CallState, Keys
  <1> QED
    BY <1>1

(* f brings the calls of before to those of after; further live calls do    *)
(* not change what the page shows of its graph.                             *)
Carried(f) ==
    /\ \A c \in calls : f[c].kind = c.kind /\ f[c].key = c.key /\ f[c].live = c.live
    /\ \A d \in calls' : d.live =>
         \/ \E c \in calls : c.live /\ d = f[c]
         \/ graph # None /\ d.kind \notin Main /\ d.key.network = network

LEMMA CarriedExpansions ==
  ASSUME NEW f, Carried(f)
  PROVE  \A d \in Expansions' : \E c \in Expansions : d = f[c] /\ d.key = c.key
  BY DEF Carried, Expansions, Main

LEMMA AskingKept ==
  ASSUME IInv, NEW f, Carried(f), expanding' = expanding,
         Expansions # {} => Expansions' # {}
  PROVE  Asking'
  <1>1. ASSUME NEW d \in Expansions'
        PROVE  d.key.address = expanding' /\ \A e \in Expansions' : e = d
    <2>1. PICK c \in Expansions : d = f[c] /\ d.key = c.key
      BY CarriedExpansions
    <2>2. c.key.address = expanding /\ \A b \in Expansions : b = c
      BY DEF IInv, Asking
    <2> QED
      BY <2>1, <2>2, CarriedExpansions
  <1>2. expanding' # None => Expansions' # {}
    BY DEF IInv, Asking
  <1> QED
    BY <1>1, <1>2 DEF Asking

LEMMA Quiet ==
  ASSUME IInv, Typed', Timers', Asking', NEW f, Carried(f),
         UNCHANGED <<network, graph, pages, awaited, doubled>>,
         expanding' \in {expanding, None},
         case'.network = case.network, case'.root = case.root,
         selected' = selected \/ selected' \in Nodes(graph) \cup {None}
  PROVE  IInv'
  <1>0. /\ network' = network /\ graph' = graph /\ pages' = pages /\ awaited' = awaited
        /\ doubled' = doubled
    OBVIOUS
  <1>1. Shown'
    BY <1>0 DEF IInv, Shown
  <1>2. Waiting'
    <2>1. ASSUME NEW d \in calls', d.live
          PROVE  /\ d.key.network = network'
                 /\ d.kind \in {"trace", "poll"} => d.key.page = 1
                 /\ graph' = None => d.kind = "trace"
                 /\ d.kind = "trace" => graph' = None /\ \A e \in calls' : e.live => e = d
      <3>1. CASE graph # None /\ d.kind \notin Main /\ d.key.network = network
        BY <1>0, <3>1 DEF Main
      <3>2. ASSUME NEW c \in calls, c.live, d = f[c]
            PROVE  /\ d.key.network = network'
                   /\ d.kind \in {"trace", "poll"} => d.key.page = 1
                   /\ graph' = None => d.kind = "trace"
                   /\ d.kind = "trace" => graph' = None /\ \A e \in calls' : e.live => e = d
        <4>1. d.kind = c.kind /\ d.key = c.key
          BY <3>2 DEF Carried
        <4>2. /\ c.key.network = network
              /\ c.kind \in {"trace", "poll"} => c.key.page = 1
              /\ graph = None => c.kind = "trace"
              /\ c.kind = "trace" => graph = None /\ \A b \in calls : b.live => b = c
          BY <3>2 DEF IInv, Waiting
        <4>3. ASSUME c.kind = "trace", NEW e \in calls', e.live PROVE e = d
          BY <3>2, <4>2, <4>3 DEF Carried
        <4> QED
          BY <1>0, <4>1, <4>2, <4>3
      <3> QED
        BY <2>1, <3>1, <3>2 DEF Carried
    <2> QED
      BY <2>1 DEF Waiting
  <1>3. ASSUME graph' # None, ~doubled'
        PROVE  Polled' /\ NodesOnly' /\ InTurn' /\ \A a \in Address : Gapless(a)'
    <2>0. Polled /\ NodesOnly /\ InTurn /\ \A a \in Address : Gapless(a)
      BY <1>0, <1>3 DEF IInv, Sound
    <2>1. Polled'
      <3>1. ASSUME NEW d \in calls', d.live, d.kind = "poll"
            PROVE  \E c \in calls : c.live /\ c.kind = "poll" /\ d = f[c]
        BY <3>1 DEF Carried, Main
      <3>2. \A c, d \in calls' :
              c.live /\ d.live /\ c.kind = "poll" /\ d.kind = "poll" => c = d
        BY <2>0, <3>1 DEF Polled
      <3>3. \A c \in calls' : c.live /\ c.kind = "poll" => graph.pending
        BY <2>0, <3>1 DEF Polled
      <3>4. graph.pending =>
              /\ expanding' = None /\ awaited' = None
              /\ \A a \in graph.nodes : a \in DOMAIN pages /\ ~pages[a].hasMore
        BY <1>0, <2>0 DEF Polled
      <3> QED
        BY <1>0, <3>2, <3>3, <3>4 DEF Polled
    <2>2. NodesOnly'
      BY <1>0, <1>3, <2>0 DEF NodesOnly, Nodes
    <2>3. InTurn'
      <3>1. ASSUME NEW d \in Expansions'
            PROVE  /\ d.key.page = NextPage(d.key.address)'
                   /\ d.key.address \in DOMAIN pages' => pages'[d.key.address].hasMore
        <4>1. PICK c \in Expansions : d.key = c.key
          BY CarriedExpansions
        <4>2. /\ c.key.page = NextPage(c.key.address)
              /\ c.key.address \in DOMAIN pages => pages[c.key.address].hasMore
          BY <2>0 DEF InTurn
        <4> QED
          BY <1>0, <4>1, <4>2 DEF NextPage
      <3> QED
        BY <3>1 DEF InTurn
    <2>4. \A a \in Address : Gapless(a)'
      BY <1>0, <2>0 DEF Gapless, Merged
    <2> QED
      BY <2>1, <2>2, <2>3, <2>4
  <1>4. Sound'
    BY <1>3 DEF Sound
  <1> QED
    BY <1>1, <1>2, <1>4 DEF IInv

(* As most of them are: calls return, and expansions go on.                 *)
LEMMA Returned ==
  ASSUME IInv, Typed', Timers', calls' \subseteq calls, Expansions' = Expansions,
         UNCHANGED <<network, graph, pages, awaited, doubled, expanding, selected>>,
         case'.network = case.network, case'.root = case.root
  PROVE  IInv'
  <1> DEFINE f == [c \in calls |-> c]
  <1>1. Carried(f)
    BY DEF Carried
  <1> HIDE DEF f
  <1>2. Asking'
    BY <1>1, AskingKept
  <1> QED
    BY <1>1, <1>2, Quiet

(* The user's steps and the returns that leave the graph as it is.          *)

LEMMA SelectKeeps == ASSUME IInv, NEW a \in Address \cup {None}, Select(a) PROVE IInv'
  <1> DEFINE f == [c \in calls |-> [c EXCEPT !.chosen = FALSE]]
  <1>1. Typed' /\ calls \in SUBSET CallState /\ network \in Network /\ options \in Scope
    BY SelectTyped, TypedIs DEF IInv, CallsTyped, PageTyped
  <1>2. \A c \in calls : f[c].kind = c.kind /\ f[c].key = c.key /\ f[c].live = c.live
                         /\ f[c] \in calls'
    BY <1>1, DeselectedIs DEF Select
  <1>3. Carried(f)
    <2>1. ASSUME NEW d \in Deselected(calls), d.live PROVE \E c \in calls : c.live /\ d = f[c]
      BY <1>1, <1>2, <2>1, DeselectedIs
    <2>2. a # None => LET c == Call("lookup", Key(a, network, options, 1))
                      IN  c.kind = "lookup" /\ c.key.network = network
      BY DEF Call, Key
    <2> QED
      BY <1>2, <2>1, <2>2 DEF Carried, Select, Main
  <1>4. Expansions # {} => Expansions' # {}
    BY <1>2 DEF Expansions
  <1> HIDE DEF f
  <1>5. /\ UNCHANGED <<network, graph, pages, awaited, doubled, expanding, case, polls>>
        /\ selected' \in Nodes(graph) \cup {None}
    BY DEF Select
  <1>6. Asking' /\ Timers'
    BY <1>3, <1>4, <1>5, AskingKept DEF IInv, Timers
  <1> QED
    BY <1>1, <1>3, <1>5, <1>6, Quiet

LEMMA ExportKeeps == ASSUME IInv, Export PROVE IInv'
  <1> DEFINE f == [c \in calls |-> c]
  <1> DEFINE new == Call("export", Key(graph.root, network, options, 1))
  <1>1. Typed' /\ network \in Network /\ options \in Scope /\ graph.root \in Address
    BY ExportTyped, TypedIs, GraphTyped DEF IInv, PageTyped, Export
  <1>2. new.kind = "export" /\ new.key.network = network
    BY DEF Call, Key
  <1>3. graph # None /\ calls' = calls \cup {new}
    BY DEF Export
  <1> HIDE DEF new
  <1>4. Carried(f)
    BY <1>2, <1>3 DEF Carried, Main
  <1>5. Expansions # {} => Expansions' # {}
    BY <1>3 DEF Expansions
  <1> HIDE DEF f
  <1>6. UNCHANGED <<network, graph, pages, awaited, doubled, expanding, case, polls, selected>>
    BY DEF Export, page
  <1>7. Asking' /\ Timers'
    BY <1>4, <1>5, <1>6, AskingKept DEF IInv, Timers
  <1> QED
    BY <1>1, <1>4, <1>6, <1>7, Quiet

LEMMA TimersSet == BothPolls => Timers'
  BY DEF BothPolls, TracePoll, ExpansionPoll, Timers

LEMMA TimersAgain ==
  ASSUME Timers, graph' = graph, polls' \subseteq AgainExpansionPoll PROVE Timers'
  BY DEF AgainExpansionPoll, ExpansionPoll, Timers

LEMMA CallsReturn ==
  ASSUME IInv, NEW c \in calls, LookupComes(c) \/ PackageComes(c) \/ ExportFails(c) PROVE IInv'
  <1>1. Typed'
    BY LookupComesTyped, OthersTyped DEF IInv
  <1>2. /\ calls' = calls \ {c} /\ c.kind \notin {"expand", "expandPoll"}
        /\ UNCHANGED <<network, graph, pages, awaited, doubled, expanding, case, polls, selected>>
    BY DEF LookupComes, PackageComes, ExportFails, Returns, page
  <1>3. Expansions' = Expansions /\ Timers'
    BY <1>2 DEF Expansions, IInv, Timers
  <1> QED
    BY <1>1, <1>2, <1>3, Returned

LEMMA JobEndsKeeps == ASSUME IInv, (\E k \in DOMAIN jobs : JobEnds(k)) \/ UNCHANGED vars PROVE IInv'
  <1>1. /\ calls' = calls
        /\ UNCHANGED <<network, graph, pages, awaited, doubled, expanding, case, polls, selected>>
    BY DEF JobEnds, vars, page
  <1>2. Typed' /\ Expansions' = Expansions /\ Timers'
    BY <1>1, OthersTyped DEF Expansions, IInv, Timers
  <1> QED
    BY <1>1, <1>2, Returned

LEMMA CallFailsKeeps == ASSUME IInv, NEW c \in calls, CallFails(c) PROVE IInv'
  <1>1. /\ calls' = calls \ {c} /\ Typed'
        /\ UNCHANGED <<network, graph, pages, awaited, doubled, case, selected>>
    BY CallFailsTyped DEF CallFails, Returns, IInv
  <1>2. CASE Heeded(c) /\ c.kind \notin {"trace", "poll"}
    <2> DEFINE f == [d \in calls |-> d]
    <2>1. c \in Expansions /\ expanding' = None /\ polls' = AgainExpansionPoll
      BY <1>2 DEF CallFails, Expansions, Heeded
    <2>2. Expansions' = {}
      BY <1>1, <2>1 DEF IInv, Asking, Expansions
    <2>3. Asking' /\ Timers'
      BY <1>1, <2>1, <2>2, TimersAgain DEF Asking, IInv
    <2>4. Carried(f)
      BY <1>1 DEF Carried
    <2> HIDE DEF f
    <2> QED
      BY <1>1, <2>1, <2>3, <2>4, Quiet
  <1>3. CASE ~(Heeded(c) /\ c.kind \notin {"trace", "poll"})
    <2>1. expanding' = expanding /\ polls' = polls
      BY <1>3 DEF CallFails
    <2>2. Expansions' = Expansions /\ Timers'
      BY <1>1, <1>3, <2>1 DEF Expansions, IInv, Timers, Heeded
    <2> QED
      BY <1>1, <2>1, <2>2, Returned
  <1> QED
    BY <1>2, <1>3

(* An answer nobody waits for is dropped.                                   *)
LEMMA Dropped ==
  ASSUME IInv, NEW c \in calls, GraphComes(c) \/ ExpansionComes(c), ~Heeded(c)
  PROVE  IInv'
  <1>1. /\ calls' = calls \ {c} /\ Typed'
        /\ UNCHANGED <<network, graph, pages, awaited, doubled, expanding, case, polls, selected>>
    BY GraphComesTyped, ExpansionComesTyped DEF GraphComes, ExpansionComes, Returns, page, IInv
  <1>2. Expansions' = Expansions /\ Timers'
    BY <1>1 DEF Expansions, Heeded, IInv, Timers
  <1> QED
    BY <1>1, <1>2, Returned

-----------------------------------------------------------------------------
(* Steps that clear the page.                                               *)

LEMMA Cleared ==
  ASSUME IInv, Typed', ClearPage, BothPolls, case'.network = network',
         \A d \in calls' : d.live =>
             /\ d.kind = "trace" /\ d.key.network = network' /\ d.key.page = 1
             /\ graph' = None /\ \A e \in calls' : e.live => e = d,
         graph' # None =>
             /\ graph'.network = network' /\ case'.root = graph'.root
             /\ graph'.root \in graph'.nodes /\ ~graph'.pending /\ graph'.merged = {}
             /\ selected' \in graph'.nodes
  PROVE  IInv'
  <1>1. DOMAIN pages' = {} /\ expanding' = None /\ awaited' = None
    BY DEF ClearPage, NoPages
  <1>2. Expansions' = {}
    BY DEF Expansions
  <1>3. Shown' /\ Waiting' /\ Asking'
    BY <1>1, <1>2 DEF Shown, Waiting, Asking
  <1>4. Timers'
    BY TimersSet
  <1>5. ASSUME graph' # None
        PROVE  Polled' /\ NodesOnly' /\ InTurn' /\ \A a \in Address : Gapless(a)'
    <2>1. Polled' /\ NodesOnly' /\ InTurn'
      BY <1>1, <1>2, <1>5 DEF Polled, NodesOnly, InTurn
    <2>2. ASSUME NEW a \in Address PROVE Gapless(a)'
      <3>1. Merged(a)' = 1..0
        BY <1>5 DEF Merged
      <3> QED
        BY <1>1, <3>1, FirstPage DEF Gapless
    <2> QED
      BY <2>1, <2>2
  <1>6. Sound'
    BY <1>5 DEF Sound
  <1> QED
    BY <1>3, <1>4, <1>6 DEF IInv

LEMMA LoadKeeps ==
  ASSUME IInv, Typed', NEW a \in Address, NEW n \in Network, NEW s \in Scope,
         Load(a, n, s, calls), network' = n, case'.network = n
  PROVE  IInv'
  <1> DEFINE new == Call("trace", Key(a, n, s, 1))
  <1>1. new.kind = "trace" /\ new.key.network = n /\ new.key.page = 1
    BY DEF Call, Key
  <1>2. calls' = Deselected(LeftBehind(calls)) \cup {new} /\ graph' = None /\ ClearPage /\ BothPolls
    BY DEF Load
  <1> HIDE DEF new
  <1>3. \A d \in Deselected(LeftBehind(calls)) : ~d.live
    <2>1. calls \in SUBSET CallState
      BY DEF IInv, Typed
    <2> DEFINE left == LeftBehind(calls)
    <2>2. left \in SUBSET CallState /\ \A d \in left : d.live = FALSE
      BY <2>1, LeftBehindIs
    <2> HIDE DEF left
    <2>3. ASSUME NEW d \in Deselected(left) PROVE ~d.live
      <3>1. PICK c \in left : d = [c EXCEPT !.chosen = FALSE]
        BY DEF Deselected
      <3> QED
        BY <2>2, <3>1 DEF CallState
    <2> QED
      BY <2>3 DEF left
  <1> QED
    BY <1>1, <1>2, <1>3, Cleared

LEMMA SearchKeeps == ASSUME IInv, NEW a \in Address, NEW n \in Network, Search(a, n) PROVE IInv'
  <1>1. Typed' /\ options \in Scope /\ Load(a, n, options, calls) /\ network' = n
    BY SearchTyped DEF Search, IInv, Typed, TypeOK
  <1>2. case'.network = n
    <2>1. case \in [network : Network, root : Address \cup {None}, scope : Scope]
          /\ case.network = network
      BY DEF IInv, Typed, TypeOK, Shown
    <2> QED
      BY <2>1 DEF Search
  <1> QED
    BY <1>1, <1>2, LoadKeeps

LEMMA SetMainTargetKeeps == ASSUME IInv, SetMainTarget PROVE IInv'
  <1>1. /\ Typed' /\ options \in Scope /\ network \in Network /\ network' = network
        /\ Load(summary.of, network, options, calls) /\ case'.network = network
    BY SetMainTargetTyped DEF SetMainTarget, IInv, Typed, TypeOK, Shown
  <1>2. summary.of \in Address
    BY DEF SetMainTarget, IInv, Typed, TypeOK
  <1> QED
    BY <1>1, <1>2, LoadKeeps

LEMMA ChangeOptionsKeeps == ASSUME IInv, NEW s \in Scope, ChangeOptions(s) PROVE IInv'
  <1>1. /\ Typed' /\ network \in Network /\ network' = network
        /\ case'.network = network /\ case'.root = case.root
    <2>1. case \in [network : Network, root : Address \cup {None}, scope : Scope]
          /\ case.network = network
      BY DEF IInv, Typed, TypeOK, Shown
    <2> QED
      BY <2>1, ChangeOptionsTyped DEF ChangeOptions, IInv, Typed, TypeOK
  <1>2. CASE graph # None /\ RequiresNewTrace(s)
    <2>1. graph.root \in Address /\ Load(graph.root, network, s, calls)
      BY <1>2, GraphTyped DEF ChangeOptions, IInv
    <2> QED
      BY <1>1, <2>1, LoadKeeps
  <1>3. CASE ~(graph # None /\ RequiresNewTrace(s))
    <2>1. /\ UNCHANGED <<network, graph, pages, awaited, doubled, expanding, selected, calls>>
          /\ BothPolls
      BY <1>1, <1>3 DEF ChangeOptions
    <2>2. Expansions' = Expansions /\ Timers'
      BY <2>1, TimersSet DEF Expansions
    <2> QED
      BY <1>1, <2>1, <2>2, Returned DEF IInv, Shown
  <1> QED
    BY <1>2, <1>3

LEMMA ChangeNetworkKeeps == ASSUME IInv, NEW n \in Network, ChangeNetwork(n) PROVE IInv'
  <1>1. /\ Typed' /\ network' = n /\ graph' = None /\ ClearPage /\ BothPolls
        /\ calls' = LeftBehind(calls) /\ calls \in SUBSET CallState
    BY ChangeNetworkTyped DEF ChangeNetwork, IInv, Typed
  <1>2. case'.network = n
    BY DEF ChangeNetwork, IInv, Typed, TypeOK
  <1>3. \A d \in calls' : ~d.live
    BY <1>1, LeftBehindIs
  <1> QED
    BY <1>1, <1>2, <1>3, Cleared

LEMMA ImportKeeps == ASSUME IInv, NEW p \in Package, Import(p) PROVE IInv'
  <1>1. /\ Typed' /\ network' = p.network /\ case' = p /\ ClearPage /\ BothPolls
        /\ calls' = LeftBehind(calls) /\ calls \in SUBSET CallState
    BY ImportTyped DEF Import, IInv, Typed
  <1>2. /\ graph'.network = p.network /\ graph'.root = p.root /\ graph'.nodes = Address
        /\ graph'.pending = FALSE /\ graph'.merged = {} /\ selected' = p.root
    BY DEF Import
  <1>3. p.root \in Address
    BY PageAssumption
  <1>4. \A d \in calls' : ~d.live
    BY <1>1, LeftBehindIs
  <1> QED
    BY <1>1, <1>2, <1>3, <1>4, Cleared

-----------------------------------------------------------------------------
(* An expansion is asked for.                                               *)

LEMMA AskKeeps ==
  ASSUME IInv, Typed', NEW kind \in {"expand", "expandPoll"}, NEW a \in Address,
         graph # None, ~doubled => a \in graph.nodes, MayExpand(a), Ask(kind, a)
  PROVE  IInv'
  <1> DEFINE new == Call(kind, Key(a, network, options, NextPage(a)))
  <1>1. /\ new.kind = kind /\ new.live = TRUE /\ new.key.address = a /\ new.key.network = network
        /\ new.key.page = NextPage(a)
    BY DEF Call, Key
  <1>2. /\ calls' = calls \cup {new} /\ expanding' = a
        /\ network' = network /\ graph' = graph /\ pages' = pages /\ awaited' = awaited
        /\ doubled' = doubled /\ case' = case /\ selected' = selected
        /\ polls' \subseteq AgainExpansionPoll
    BY DEF Ask
  <1> HIDE DEF new
  <1>3. expanding = None /\ Expansions = {} /\ Expansions' = {new}
    <2>1. expanding = None
      BY DEF MayExpand
    <2>2. Expansions = {}
      BY <2>1, NoneAsked
    <2> QED
      BY <1>1, <1>2, <2>1, <2>2 DEF Expansions
  <1>4. Shown' /\ Asking' /\ Timers'
    <2>1. Timers'
      BY <1>2, TimersAgain DEF IInv
    <2> QED
      BY <1>1, <1>2, <1>3, <2>1 DEF IInv, Shown, Asking
  <1>5. Waiting'
    BY <1>1, <1>2 DEF IInv, Waiting
  <1>6. ASSUME ~doubled PROVE Polled' /\ NodesOnly' /\ InTurn' /\ \A x \in Address : Gapless(x)'
    <2>0. Polled /\ NodesOnly /\ \A x \in Address : Gapless(x)
      BY <1>6 DEF IInv, Sound
    <2>1. ~graph.pending
      BY <1>6, <2>0 DEF Polled, MayExpand
    <2>2. Polled'
      BY <1>1, <1>2, <2>0, <2>1 DEF Polled
    <2>3. NodesOnly'
      BY <1>2, <1>6, <2>0 DEF NodesOnly
    <2>4. InTurn'
      <3>1. NextPage(a)' = NextPage(a)
        BY <1>2 DEF NextPage
      <3> QED
        BY <1>1, <1>2, <1>3, <3>1 DEF InTurn, MayExpand
    <2>5. \A x \in Address : Gapless(x)'
      BY <1>2, <2>0 DEF Gapless, Merged
    <2> QED
      BY <2>2, <2>3, <2>4, <2>5
  <1>7. Sound'
    BY <1>2, <1>6 DEF Sound
  <1> QED
    BY <1>4, <1>5, <1>7 DEF IInv

LEMMA ExpandKeeps == ASSUME IInv, Expand PROVE IInv'
  <1> DEFINE a == IF selected = None THEN graph.root ELSE selected
  <1>1. graph # None /\ MayExpand(a) /\ Ask("expand", a) /\ events' \in Nat
    BY DEF Expand, UserActs, IInv, Typed
  <1>2. a \in Address
    BY <1>1, GraphTyped DEF IInv, Typed, TypeOK
  <1>3. ~doubled => a \in graph.nodes
    BY <1>1 DEF IInv, Sound, NodesOnly, Shown
  <1> HIDE DEF a
  <1>4. Typed'
    BY <1>1, <1>2, AskTyped DEF IInv
  <1> QED
    BY <1>1, <1>2, <1>3, <1>4, AskKeeps

LEMMA PollExpansionKeeps == ASSUME IInv, PollExpansion PROVE IInv'
  <1>1. events' \in Nat /\ awaited # None /\ awaited \in Address /\ graph # None
    BY DEF PollExpansion, IInv, Typed, TypeOK, Timers, Shown
  <1>2. CASE MayExpand(awaited)
    <2>1. Ask("expandPoll", awaited)
      BY <1>2 DEF PollExpansion
    <2>2. ~doubled => awaited \in graph.nodes
      BY <1>1 DEF IInv, Sound, NodesOnly
    <2>3. Typed'
      BY <1>1, <1>2, <2>1, AskTyped DEF IInv
    <2> QED
      BY <1>1, <1>2, <2>1, <2>2, <2>3, AskKeeps
  <1>3. CASE ~MayExpand(awaited)
    <2>1. /\ polls' = polls \ {"expansion"} /\ events' = events
          /\ UNCHANGED <<network, options, graph, loading, error, selected, summary, pages,
                         expanding, awaited, case, calls, doubled>>
      BY <1>3 DEF PollExpansion
    <2>2. Within'
      BY <2>1, WithinTyped DEF Within, IInv
    <2>3. Typed' /\ Expansions' = Expansions /\ Timers'
      BY <2>1, <2>2, WithinTyped DEF Expansions, IInv, Timers
    <2> QED
      BY <2>1, <2>3, Returned
  <1> QED
    BY <1>2, <1>3

-----------------------------------------------------------------------------
(* A pending trace is polled.                                               *)

LEMMA PollTraceKeeps == ASSUME IInv, PollTrace PROVE IInv'
  <1> DEFINE new == [Call("poll", Key(graph.root, network, options, 1)) EXCEPT !.at = events]
  <1>1. new.kind = "poll" /\ new.live = TRUE /\ new.key.network = network /\ new.key.page = 1
    BY DEF Call, Key
  <1>2. /\ calls' = calls \cup {new} /\ expanding' = expanding /\ Typed'
        /\ network' = network /\ graph' = graph /\ pages' = pages /\ awaited' = awaited
        /\ case' = case /\ selected' = selected
        /\ polls' = polls \ {"trace"}
        /\ doubled' = (doubled \/ \E c \in calls : c.kind = "poll" /\ c.live)
    BY PollTraceTyped DEF PollTrace
  <1> HIDE DEF new
  <1>3. graph # None /\ graph.pending
    BY DEF IInv, Timers, PollTrace
  <1>4. Expansions' = Expansions
    BY <1>1, <1>2 DEF Expansions
  <1>5. Shown' /\ Asking' /\ Timers'
    BY <1>2, <1>4 DEF IInv, Shown, Asking, Timers
  <1>6. Waiting'
    BY <1>1, <1>2, <1>3 DEF IInv, Waiting
  <1>7. ASSUME ~doubled' PROVE Polled' /\ NodesOnly' /\ InTurn' /\ \A x \in Address : Gapless(x)'
    <2>0. /\ Polled /\ NodesOnly /\ InTurn /\ \A x \in Address : Gapless(x)
          /\ \A c \in calls : ~(c.kind = "poll" /\ c.live)
      BY <1>2, <1>3, <1>7 DEF IInv, Sound
    <2>1. Polled'
      BY <1>1, <1>2, <1>3, <2>0 DEF Polled
    <2>2. NodesOnly'
      BY <1>2, <2>0 DEF NodesOnly
    <2>3. InTurn'
      BY <1>2, <1>4, <2>0 DEF InTurn, NextPage
    <2>4. \A x \in Address : Gapless(x)'
      BY <1>2, <2>0 DEF Gapless, Merged
    <2> QED
      BY <2>1, <2>2, <2>3, <2>4
  <1>8. Sound'
    BY <1>7 DEF Sound
  <1> QED
    BY <1>2, <1>5, <1>6, <1>8 DEF IInv

-----------------------------------------------------------------------------
(* A graph comes.  When one poll was under way nothing is expanded.          *)

LEMMA GraphComesKeeps == ASSUME IInv, NEW c \in calls, GraphComes(c), Heeded(c) PROVE IInv'
  <1>1. PICK k, status : k = c.key /\ status = jobs'[k]
    OBVIOUS
  <1>2. /\ c.live /\ c.kind \in {"trace", "poll"} /\ k \in Keys /\ k.address \in Address
        /\ k.network = network /\ k.page = 1
    BY <1>1 DEF Heeded, GraphComes, IInv, Typed, CallState, Keys, Waiting
  <1>3. /\ graph' = Graph(k, status) /\ selected' = k.address
        /\ case' = [network |-> k.network, root |-> k.address, scope |-> k.scope]
        /\ pages' = [a \in {k.address} |-> Branch(k, status)]
        /\ network' = network /\ expanding' = expanding /\ awaited' = awaited
        /\ doubled' = doubled /\ BothPolls
    BY <1>1 DEF GraphComes
  <1>4. \/ c.kind = "poll" /\ calls' = calls \ {c}
        \/ c.kind = "trace" /\ calls' = (calls \ {c}) \cup {Call("seedLookup", k)}
    BY <1>1, <1>2 DEF GraphComes, Returns
  <1>5. LET d == Call("seedLookup", k) IN d.kind = "seedLookup" /\ d.key = k
    BY DEF Call
  <1>6. /\ graph' # None /\ graph'.network = network /\ graph'.root = k.address
        /\ k.address \in graph'.nodes /\ graph'.pending = (status = "pending")
    BY <1>2, <1>3, GraphIs, NoneIsNoGraph
  <1>7. Expansions' = Expansions
    BY <1>2, <1>4, <1>5 DEF Expansions
  <1>8. Shown' /\ Asking' /\ Timers' /\ Typed'
    <2>1. Shown'
      BY <1>2, <1>3, <1>6 DEF Shown
    <2>2. Asking'
      BY <1>3, <1>7 DEF IInv, Asking
    <2> QED
      BY <1>3, <2>1, <2>2, TimersSet, GraphComesTyped DEF IInv
  <1>9. Waiting'
    <2>1. \A d \in calls : d.live =>
            /\ d.key.network = network
            /\ d.kind \in {"trace", "poll"} => d.key.page = 1
            /\ d.kind = "trace" => graph = None /\ \A e \in calls : e.live => e = d
      BY DEF IInv, Waiting
    <2>2. c.kind = "poll" => graph # None
      BY <1>2 DEF IInv, Waiting
    <2>3. \A d \in calls' : d.live =>
            /\ d.key.network = network /\ d.kind # "trace"
            /\ d.kind \in {"trace", "poll"} => d.key.page = 1
      BY <1>2, <1>4, <1>5, <2>1, <2>2
    <2> QED
      BY <1>3, <1>6, <2>3 DEF Waiting
  <1>10. ASSUME ~doubled PROVE Polled' /\ NodesOnly' /\ InTurn' /\ \A x \in Address : Gapless(x)'
    <2>1. /\ expanding = None /\ awaited = None
          /\ \A d \in calls' : d.live => d.kind # "poll"
      <3>1. CASE c.kind = "poll"
        <4>1. graph # None
          BY <1>2, <3>1 DEF IInv, Waiting
        <4>2. Polled
          BY <1>10, <4>1 DEF IInv, Sound
        <4> QED
          BY <1>2, <1>4, <3>1, <4>2 DEF Polled
      <3>2. CASE c.kind = "trace"
        <4>1. graph = None /\ \A d \in calls : d.live => d = c
          BY <1>2, <3>2 DEF IInv, Waiting
        <4> QED
          BY <1>4, <1>5, <3>2, <4>1 DEF IInv, Shown
      <3> QED
        BY <1>2, <3>1, <3>2
    <2>2. Expansions' = {}
      BY <1>7, <2>1, NoneAsked
    <2>3. /\ DOMAIN pages' = {k.address} /\ pages'[k.address] = Branch(k, status)
          /\ pages'[k.address].hasMore => pages'[k.address].cursor = 1 /\ status = "done"
      BY <1>2, <1>3, BranchIs
    <2>4. Polled'
      <3>1. graph'.pending => graph'.nodes = {k.address} /\ ~pages'[k.address].hasMore
        BY <1>2, <1>3, <1>6, <2>3, GraphIs
      <3> QED
        BY <1>3, <2>1, <2>3, <3>1 DEF Polled
    <2>5. NodesOnly'
      BY <1>3, <1>6, <2>1, <2>3 DEF NodesOnly
    <2>6. InTurn'
      BY <2>2 DEF InTurn
    <2>7. ASSUME NEW x \in Address PROVE Gapless(x)'
      <3>1. CASE status = "done" /\ x = k.address
        <4>1. graph'.merged = {<<x, 1>>}
          BY <1>2, <1>3, <3>1, GraphIs
        <4>2. Merged(x)' = 1..1
          BY <4>1, FirstPage DEF Merged
        <4>3. 1 \in 0..Pages
          BY FirstPage
        <4> QED
          BY <2>3, <3>1, <4>2, <4>3 DEF Gapless
      <3>2. CASE ~(status = "done" /\ x = k.address)
        <4>1. \A p \in 1..Pages : <<x, p>> \notin graph'.merged
          <5>1. CASE status = "done"
            BY <1>2, <1>3, <3>2, <5>1, GraphIs
          <5>2. CASE status # "done"
            BY <1>2, <1>3, <5>2, GraphIs
          <5> QED
            BY <5>1, <5>2
        <4>2. Merged(x)' = 1..0
          BY <4>1 DEF Merged
        <4> QED
          BY <2>3, <3>2, <4>2, FirstPage DEF Gapless
      <3> QED
        BY <3>1, <3>2
    <2> QED
      BY <2>4, <2>5, <2>6, <2>7
  <1>11. Sound'
    BY <1>3, <1>10 DEF Sound
  <1> QED
    BY <1>8, <1>9, <1>11 DEF IInv

-----------------------------------------------------------------------------
(* An expansion comes: the only one, of the node that is shown as expanding. *)

LEMMA ExpansionComesKeeps ==
  ASSUME IInv, NEW c \in calls, ExpansionComes(c), Heeded(c)
  PROVE  IInv'
  <1>1. PICK k, status, a : k = c.key /\ status = jobs'[k] /\ a = k.address
    OBVIOUS
  <1>2. /\ c \in Expansions /\ c.live /\ c.kind \notin {"trace", "poll"}
        /\ k \in Keys /\ a \in Address /\ k.page \in 1..Pages /\ expanding = a /\ a # None
    BY <1>1, NoneIsNoAddress
    DEF Heeded, ExpansionComes, IInv, Typed, CallState, Keys, Expansions, Asking
  <1>3. /\ expanding' = None /\ calls' = calls \ {c} /\ Typed'
        /\ network' = network /\ selected' = selected /\ case' = case /\ doubled' = doubled
    BY ExpansionComesTyped DEF ExpansionComes, Returns
  <1>4. \/ /\ status = "pending" /\ awaited' = a /\ graph' = graph /\ pages' = pages
           /\ polls' = (polls \cap {"trace"}) \cup {"expansion"}
        \/ /\ awaited' = None /\ polls' = TracePoll
           /\ pages' = [x \in DOMAIN pages \cup {a} |->
                          IF x = a THEN Branch(k, status) ELSE pages[x]]
           /\ \/ status = "failed" /\ graph' = graph
              \/ graph' = [graph EXCEPT !.nodes = Address,
                             !.merged = graph.merged \cup {<<a, k.page>>}]
    BY <1>1 DEF ExpansionComes
  <1>5. graph # None /\ graph \in GraphData
    BY <1>2, GraphTyped DEF IInv, Waiting
  <1>6. Expansions' = {}
    BY <1>2, <1>3 DEF Expansions, IInv, Asking
  <1>7. /\ graph' # None /\ graph'.network = graph.network /\ graph'.root = graph.root
        /\ graph'.pending = graph.pending /\ graph.nodes \subseteq graph'.nodes
    <2>1. CASE graph' = graph
      BY <1>5, <2>1
    <2>2. CASE graph' = [graph EXCEPT !.nodes = Address,
                           !.merged = graph.merged \cup {<<a, k.page>>}]
      <3>1. /\ graph'.network = graph.network /\ graph'.root = graph.root
            /\ graph'.pending = graph.pending /\ graph'.nodes = Address
            /\ graph.nodes \subseteq Address
        BY <1>5, <2>2 DEF GraphData
      <3>2. graph' # None
        BY <1>2, <1>3, <1>5, <2>2, GraphWithIs, NoneIsNoGraph
      <3> QED
        BY <3>1, <3>2
    <2> QED
      BY <1>4, <2>1, <2>2
  <1>8. Shown' /\ Asking' /\ Timers'
    <2>1. Shown'
      BY <1>3, <1>5, <1>7 DEF IInv, Shown
    <2>2. Asking'
      BY <1>3, <1>6 DEF Asking
    <2>3. Timers'
      BY <1>2, <1>4, <1>7 DEF IInv, Timers, TracePoll
    <2> QED
      BY <2>1, <2>2, <2>3
  <1>9. Waiting'
    BY <1>3, <1>5, <1>7 DEF IInv, Waiting
  <1>10. ASSUME ~doubled PROVE Polled' /\ NodesOnly' /\ InTurn' /\ \A x \in Address : Gapless(x)'
    <2>0. Polled /\ NodesOnly /\ InTurn /\ \A x \in Address : Gapless(x)
      BY <1>5, <1>10 DEF IInv, Sound
    <2>1. ~graph.pending
      BY <1>2, <2>0 DEF Polled
    <2>2. Polled'
      BY <1>3, <1>7, <2>0, <2>1 DEF Polled
    <2>3. NodesOnly'
      <3>1. DOMAIN pages' \subseteq DOMAIN pages \cup {a} /\ a \in graph.nodes /\ awaited' \in {a, None}
        BY <1>2, <1>4, <2>0 DEF NodesOnly
      <3> QED
        BY <1>3, <1>7, <2>0, <3>1 DEF NodesOnly
    <2>4. InTurn'
      BY <1>6 DEF InTurn
    <2>5. ASSUME NEW x \in Address PROVE Gapless(x)'
      <3>1. PICK n \in 0..Pages :
              /\ Merged(x) = 1..n
              /\ x \notin DOMAIN pages => n = 0
              /\ x \in DOMAIN pages /\ pages[x].hasMore => pages[x].cursor = n
        BY <2>0 DEF Gapless
      <3>2. k.page = NextPage(a) /\ (a \in DOMAIN pages => pages[a].hasMore)
        BY <1>1, <1>2, <2>0 DEF InTurn
      <3>3. CASE pages' = pages /\ graph' = graph
        BY <3>1, <3>3 DEF Gapless, Merged
      <3>4. CASE /\ pages' = [y \in DOMAIN pages \cup {a} |->
                                IF y = a THEN Branch(k, status) ELSE pages[y]]
                 /\ \/ status = "failed" /\ graph' = graph
                    \/ graph' = [graph EXCEPT !.nodes = Address,
                                   !.merged = graph.merged \cup {<<a, k.page>>}]
        <4>1. /\ DOMAIN pages' = DOMAIN pages \cup {a} /\ pages'[a] = Branch(k, status)
              /\ \A y \in DOMAIN pages : y # a => pages'[y] = pages[y]
          BY <3>4
        <4>2. CASE x # a
          <5>1. Merged(x)' = Merged(x)
            <6>1. \A p \in 1..Pages : <<x, p>> \in graph'.merged <=> <<x, p>> \in graph.merged
              <7>1. CASE graph' = graph
                BY <7>1
              <7>2. CASE graph' = [graph EXCEPT !.nodes = Address,
                                     !.merged = graph.merged \cup {<<a, k.page>>}]
                <8>1. graph'.merged = graph.merged \cup {<<a, k.page>>}
                  BY <1>5, <7>2 DEF GraphData
                <8> QED
                  BY <4>2, <8>1
              <7> QED
                BY <3>4, <7>1, <7>2
            <6> QED
              BY <6>1 DEF Merged
          <5>2. x \in DOMAIN pages' <=> x \in DOMAIN pages
            BY <4>1, <4>2
          <5> QED
            BY <3>1, <4>1, <4>2, <5>1, <5>2 DEF Gapless
        <4>3. CASE x = a /\ graph' = graph /\ status = "failed"
          <5>1. ~pages'[a].hasMore
            BY <1>2, <4>1, <4>3, BranchIs
          <5> QED
            BY <3>1, <4>1, <4>3, <5>1 DEF Gapless, Merged
        <4>4. CASE x = a /\ graph' = [graph EXCEPT !.nodes = Address,
                                        !.merged = graph.merged \cup {<<a, k.page>>}]
          <5>1. k.page = n + 1
            <6>1. CASE a \in DOMAIN pages
              BY <3>1, <3>2, <4>4, <6>1 DEF NextPage
            <6>2. CASE a \notin DOMAIN pages
              BY <3>1, <3>2, <4>4, <6>2 DEF NextPage
            <6> QED
              BY <6>1, <6>2
          <5>2. \A p \in 1..Pages : <<a, p>> \in graph'.merged <=> <<a, p>> \in graph.merged \/ p = k.page
            BY <1>5, <4>4 DEF GraphData
          <5>3. Merged(x)' = Merged(x) \cup {k.page}
            BY <1>2, <4>4, <5>2 DEF Merged
          <5>4. Merged(x)' = 1..(n + 1)
            BY <3>1, <5>1, <5>3
          <5>5. pages'[a].hasMore => pages'[a].cursor = n + 1
            BY <1>2, <4>1, <5>1, BranchIs
          <5>6. n + 1 \in 0..Pages
            BY <1>2, <5>1, FirstPage
          <5> QED
            BY <4>1, <4>4, <5>4, <5>5, <5>6 DEF Gapless
        <4> QED
          BY <3>4, <4>2, <4>3, <4>4
      <3> QED
        BY <1>4, <3>3, <3>4
    <2> QED
      BY <2>2, <2>3, <2>4, <2>5
  <1>11. Sound'
    BY <1>3, <1>10 DEF Sound
  <1> QED
    BY <1>3, <1>8, <1>9, <1>11 DEF IInv

-----------------------------------------------------------------------------
(* The properties.                                                          *)

LEMMA IInvInductive == IInv /\ [Next]_vars => IInv'
  <1> SUFFICES ASSUME IInv, [Next]_vars PROVE IInv'
    OBVIOUS
  <1>1. ASSUME NEW a \in Address, NEW n \in Network, Search(a, n) PROVE IInv'
    BY <1>1, SearchKeeps
  <1>2. CASE SetMainTarget
    BY <1>2, SetMainTargetKeeps
  <1>3. ASSUME NEW n \in Network, ChangeNetwork(n) PROVE IInv'
    BY <1>3, ChangeNetworkKeeps
  <1>4. ASSUME NEW s \in Scope, ChangeOptions(s) PROVE IInv'
    BY <1>4, ChangeOptionsKeeps
  <1>5. ASSUME NEW a \in Address \cup {None}, Select(a) PROVE IInv'
    BY <1>5, SelectKeeps
  <1>6. CASE Expand
    BY <1>6, ExpandKeeps
  <1>7. CASE Export
    BY <1>7, ExportKeeps
  <1>8. ASSUME NEW p \in Package, Import(p) PROVE IInv'
    BY <1>8, ImportKeeps
  <1>9. CASE PollTrace
    BY <1>9, PollTraceKeeps
  <1>10. CASE PollExpansion
    BY <1>10, PollExpansionKeeps
  <1>11. CASE (\E k \in DOMAIN jobs : JobEnds(k)) \/ UNCHANGED vars
    BY <1>11, JobEndsKeeps
  <1>12. ASSUME NEW c \in calls, Comes(c) PROVE IInv'
    <2>1. CASE GraphComes(c)
      BY <2>1, GraphComesKeeps, Dropped
    <2>2. CASE ExpansionComes(c)
      BY <2>2, ExpansionComesKeeps, Dropped
    <2>3. CASE LookupComes(c) \/ PackageComes(c) \/ ExportFails(c)
      BY <2>3, CallsReturn
    <2>4. CASE CallFails(c)
      BY <2>4, CallFailsKeeps
    <2> QED
      BY <1>12, <2>1, <2>2, <2>3, <2>4 DEF Comes
  <1> QED
    BY <1>1, <1>2, <1>3, <1>4, <1>5, <1>6, <1>7, <1>8, <1>9, <1>10, <1>11, <1>12 DEF Next

LEMMA OnePageFollows == IInv => OnePage
  BY DEF IInv, Typed, Shown, Sound, NodesOnly, OnePage

LEMMA BranchesFollow == IInv => BranchesWhole
  <1> SUFFICES ASSUME IInv PROVE BranchesWhole
    OBVIOUS
  <1>1. {c.key.address : c \in Expansions} = {expanding} \ {None}
    <2>1. CASE expanding = None
      BY <2>1, NoneAsked
    <2>2. CASE expanding # None
      BY <2>2 DEF IInv, Asking
    <2> QED
      BY <2>1, <2>2
  <1>2. Cardinality(Expansions) <= 1
    <2>1. CASE Expansions = {}
      BY <2>1, FS_EmptySet
    <2>2. ASSUME NEW c \in Expansions PROVE Cardinality(Expansions) <= 1
      <3>1. Expansions = {c}
        BY DEF IInv, Asking
      <3> QED
        BY <3>1, FS_Singleton
    <2> QED
      BY <2>1, <2>2
  <1>3. ASSUME graph # None, ~doubled, NEW a \in Address
        PROVE  /\ Merged(a) = 1..Cardinality(Merged(a))
               /\ a \in DOMAIN pages /\ pages[a].hasMore =>
                      pages[a].cursor = Cardinality(Merged(a))
    <2>1. PICK n \in 0..Pages :
            /\ Merged(a) = 1..n
            /\ a \in DOMAIN pages /\ pages[a].hasMore => pages[a].cursor = n
      BY <1>3 DEF IInv, Sound, Gapless
    <2>2. Cardinality(1..n) = n
      BY FS_Interval
    <2> QED
      BY <2>1, <2>2
  <1> QED
    BY <1>1, <1>2, <1>3 DEF BranchesWhole, Expansions, Merged

(* Whatever answers come late, of whatever searches, the graph on the page is of  *)
(* the network chosen and the local case is about it; branches, awaited expansion *)
(* and selection are its nodes unless two polls of one graph overlapped (load and *)
(* changeNetwork with investigationRef, index.tsx).                               *)
THEOREM OnePageHolds == Spec => []OnePage
  <1>1. Init => IInv
    BY InitIInv
  <1>2. IInv /\ [Next]_vars => IInv'
    BY IInvInductive
  <1>3. IInv => OnePage
    BY OnePageFollows
  <1> QED
    BY <1>1, <1>2, <1>3, PTL DEF Spec

(* However an expansion is interrupted and taken up, one is under way at most and  *)
(* the pages merged of a branch are its first ones, without a gap, up to the cursor *)
(* (handleExpand, index.tsx).                                                      *)
THEOREM BranchesHold == Spec => []BranchesWhole
  <1>1. Init => IInv
    BY InitIInv
  <1>2. IInv /\ [Next]_vars => IInv'
    BY IInvInductive
  <1>3. IInv => BranchesWhole
    BY BranchesFollow
  <1> QED
    BY <1>1, <1>2, <1>3, PTL DEF Spec

=============================================================================

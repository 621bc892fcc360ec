---------------------------- MODULE ProviderWalk ----------------------------
(***************************************************************************)
(* A client's walk through an address's history, page by page, with the    *)
(* cursor of the last page (TraceGraph's cursor), while transfers go on    *)
(* arriving and sources of the provider fail.  What is listed is stored    *)
(* under transfer ids; a new walk begins with the first page again.  The   *)
(* provider is one of several: a behaviour is about one of them.           *)
(***************************************************************************)
EXTENDS EVMPages, OtherPages

CONSTANTS
    Providers,     \* the adapters considered
    Histories(_),  \* what an address's lists may hold there at first
    Arrivals,      \* entries that may still arrive
    MaxArrivals,   \* bound: entries that arrive
    MaxFailures,   \* bound: pages some source fails in
    MaxPages       \* bound: pages fetched

Adapters == {"etherscan", "alchemy", "blockscout", "tron", "ton", "cardano", "solana"}

ListTransfers(p, h, after, failing) ==
    CASE p = "etherscan" -> EtherscanListTransfers(h, after, failing)
      [] p = "alchemy" -> AlchemyListTransfers(h, after, failing)
      [] p = "blockscout" -> BlockscoutListTransfers(h, after, failing)
      [] p = "tron" -> TronListTransfers(h, after, failing)
      [] p = "ton" -> TonListTransfers(h, after, failing)
      [] p = "cardano" -> CardanoListTransfers(h, after, failing)
      [] p = "solana" -> SolanaListTransfers(h, after, failing)

\* The cursor of the first page.
Start(p) ==
    CASE p = "etherscan" -> EtherscanStart
      [] p = "alchemy" -> AlchemyStart
      [] p = "blockscout" -> BlockscoutStart
      [] p = "tron" -> TronStart
      [] p = "ton" -> TonStart
      [] p = "cardano" -> CardanoStart
      [] p = "solana" -> SolanaStart

\* What an adapter asks.
Source(p) ==
    CASE p = "etherscan" -> EtherscanSource
      [] p = "alchemy" -> AlchemySource
      [] p = "blockscout" -> BlockscoutSource
      [] p = "tron" -> TronSource
      [] p = "ton" -> TonSource
      [] p = "cardano" -> CardanoSource
      [] p = "solana" -> SolanaSource

\* The lists of transfers among that.
Lists(p) == Source(p) \ {"receipts", "utxos"}

\* A list holds an entry once, and two lists hold the same one only where a
\* transfer of the address to itself is both inbound and outbound; a transaction
\* is listed once as such, and one transfer an entry where that is how they are
\* listed.
Indexed(p, h) ==
    /\ h \in [Lists(p) -> Seq(Entries)]
    /\ \A s, u \in Lists(p) : \A i \in DOMAIN h[s], j \in DOMAIN h[u] :
           h[s][i].n = h[u][j].n =>
               h[s][i] = h[u][j] /\ (s = u => i = j) /\ (p # "alchemy" => s = u)
    /\ "transactions" \in Lists(p) =>
           \A i, j \in DOMAIN h["transactions"] :
               h["transactions"][i].tx = h["transactions"][j].tx => i = j
    /\ p \in {"alchemy", "blockscout"} =>
           \A s \in Lists(p) : \A i \in DOMAIN h[s] : h[s][i].parts = 1

ASSUME WalkAssumption ==
    /\ Providers \subseteq Adapters
    /\ \A p \in Providers : \A h \in Histories(p) : Indexed(p, h)
    /\ Arrivals \subseteq Entries
    /\ MaxArrivals \in Nat /\ MaxFailures \in Nat /\ MaxPages \in Nat

VARIABLES
    provider,  \* whose pages these are
    history,   \* the provider's lists, newest first
    walk,      \* "ready", "more" after a page with a cursor, "ended"
    cursor,    \* of the next page
    base,      \* transfers there were when the walk began
    walked,    \* transfers this walk has listed
    partial,   \* some page of this walk carried a warning
    stored,    \* transfers any walk has listed
    page,      \* the last page, and whether it listed anything new
    pages, arrivals, failures

vars == <<provider, history, walk, cursor, base, walked, partial, stored, page,
          pages, arrivals, failures>>

NoPage == [ok |-> TRUE, complete |-> FALSE, first |-> FALSE, failing |-> {}, fresh |-> TRUE]

Init ==
    /\ provider \in Providers
    /\ history \in Histories(provider)
    /\ walk = "ready" /\ cursor = Start(provider)
    /\ base = {} /\ walked = {} /\ stored = {}
    /\ partial = FALSE
    /\ page = NoPage
    /\ pages = 0 /\ arrivals = 0 /\ failures = 0

\* The transfers of the entries an adapter can read.
Listed(h) == UNION {{h[s][i] : i \in DOMAIN h[s]} : s \in DOMAIN h}

Events(h) ==
    UNION {{e.n} \X (1 .. e.parts) : e \in {x \in Listed(h) : x.shape = "plain"}}

Event(t) == <<t.n, t.part>>

\* A transfer reaches the provider's index, before those that are there.
Arrive(s) ==
    /\ arrivals < MaxArrivals
    /\ \E e \in Arrivals : history' = [history EXCEPT ![s] = <<e>> \o @]
    /\ Indexed(provider, history')
    /\ arrivals' = arrivals + 1
    /\ UNCHANGED <<provider, walk, cursor, base, walked, partial, stored, page, pages, failures>>

\* A trace of the next page, some sources failing.  A page that fails leaves
\* everything as it was.
Fetch(failing) ==
    /\ walk # "ended" /\ pages < MaxPages
    /\ failing # {} => failures < MaxFailures
    /\ failures' = IF failing # {} THEN failures + 1 ELSE failures
    /\ pages' = pages + 1
    /\ LET p == ListTransfers(provider, history, cursor, failing)
       IN  /\ page' = [ok |-> p.ok, complete |-> p.complete, first |-> walk = "ready",
                       failing |-> failing, fresh |-> ~(p.transfers \subseteq walked)]
           /\ IF p.ok
              THEN /\ walk' = IF p.more THEN "more" ELSE "ended"
                   /\ cursor' = IF p.more THEN p.next ELSE Start(provider)
                   /\ base' = IF walk = "ready" THEN Events(history) ELSE base
                   /\ walked' = walked \cup p.transfers
                   /\ stored' = stored \cup p.transfers
                   /\ partial' = (partial \/ p.warned)
              ELSE UNCHANGED <<walk, cursor, base, walked, partial, stored>>
    /\ UNCHANGED <<provider, history, arrivals>>

\* The address is traced from its first page again.
Restart ==
    /\ walk # "ready" /\ pages < MaxPages
    /\ walk' = "ready" /\ cursor' = Start(provider)
    /\ base' = {} /\ walked' = {} /\ partial' = FALSE
    /\ page' = NoPage
    /\ UNCHANGED <<provider, history, stored, pages, arrivals, failures>>

Next ==
    \/ \E s \in Lists(provider) : Arrive(s)
    \/ \E failing \in SUBSET Source(provider) : Fetch(failing)
    \/ Restart

Spec == Init /\ [][Next]_vars

-----------------------------------------------------------------------------
(* Properties.                                                             *)

\* README.md:24-26 ("historical pagination", "historical tracing"): a walk that
\* ends, no page having carried a warning, has listed every transfer there was
\* when it began.
NothingSkipped ==
    walk = "ended" /\ ~partial => base \subseteq {Event(t) : t \in walked}

\* NothingSkipped, where no entry past the page is asked for and cut off: a walk
\* over TON's or TRON's pages.
WalksSkipNothing == provider \in {"ton", "tron"} => NothingSkipped

\* PageStatus (chain.go:58 "the returned page"): a first page that is complete has
\* every transfer.
CompleteMeansAll ==
    page.first /\ page.complete => base \subseteq {Event(t) : t \in walked}

\* CompleteMeansAll, where the page is not merged and cut to the limit.
CompletePagesAreWhole ==
    provider \notin {"alchemy", "blockscout", "solana"} => CompleteMeansAll

\* sortTransfers and the cursors: a page with a cursor brings something the walk
\* had not listed yet, so that a walk over a finite history ends.
Progress == page.ok /\ walk = "more" => page.fresh

\* ListTransfers: a page fails only if a source did.
PageAnswers == page.ok \/ page.failing # {}

\* transferID (graph.go:711): one transfer is stored under one id, and an id is of
\* one transfer, whatever pages list it.
IdsExact ==
    \A t, u \in stored : Event(t) = Event(u) <=> t.id = u.id

\* IdsExact, where no event id is a place on the page: however pages are listed,
\* arrive and fail.
IdsAreExact == provider \notin {"etherscan", "tron"} => IdsExact

=============================================================================

-------------------------- MODULE ResolveGraph_proofs --------------------------
(***************************************************************************)
(* The walk for any graph, any seed, any request and any limits: what it   *)
(* returns hangs on the seed within the depth, its size is bounded         *)
(* although the limits are tested before a node is read, and without a     *)
(* limit met it is the walk of the definition.  A hop's nodes are those    *)
(* that a path of as many steps leads to, and a node with all its          *)
(* neighbours seen adds none: so the layers grow as the paths do.          *)
(* The selection, for any transfers: every ranking is a linear order, so   *)
(* as many counterparties are kept as were asked for.                      *)
(* The store, for any transfers, deposits, heights, bodies, processes and  *)
(* attempts, whatever fails between two steps: evidence has its responses, *)
(* rule runs name stored transfers, and a package holds what it joined.     *)
(* Rows, snapshots and scopes only grow (Grown), so what an attempt has    *)
(* saved and what an export has read stays true while others save.         *)
(***************************************************************************)
EXTENDS ResolveGraph, SequenceTheorems, FiniteSetTheorems, WellFoundedInduction, TLAPS

-----------------------------------------------------------------------------
(* Linear orders on finite sets, for the order in which transfers are read. *)

Linear(R, T) ==
    /\ \A x \in T : <<x, x>> \notin R
    /\ \A x, y \in T : x # y => <<x, y>> \in R \/ <<y, x>> \in R
    /\ \A x, y, z \in T : <<x, y>> \in R /\ <<y, z>> \in R => <<x, z>> \in R

Below(R, T, x) == {y \in T : <<y, x>> \in R}

LEMMA LeastNumber ==
  ASSUME NEW S \in SUBSET Nat, S # {}
  PROVE  \E i \in S : \A j \in S : i <= j
  <1> DEFINE R == OpToRel(<, Nat)
  <1>1. \A i, j \in Nat : j < i => <<j, i>> \in R
    BY DEF OpToRel
  <1>2. IsWellFoundedOn(R, Nat)
    BY NatLessThanWellFounded
  <1> HIDE DEF R
  <1>3. PICK i \in S : \A j \in S : <<j, i>> \notin R
    BY <1>2, WFMin
  <1>4. \A j \in S : i \in Nat /\ j \in Nat /\ ~(j < i)
    BY <1>1, <1>3
  <1> QED
    BY <1>4

(* Who is below has fewer below itself.                                     *)
LEMMA RankGrows ==
  ASSUME NEW R, NEW T, IsFiniteSet(T), Linear(R, T),
         NEW x \in T, NEW y \in T, <<x, y>> \in R
  PROVE  /\ Cardinality(Below(R, T, x)) \in Nat
         /\ Cardinality(Below(R, T, y)) \in Nat
         /\ Cardinality(Below(R, T, x)) < Cardinality(Below(R, T, y))
  <1>1. Below(R, T, x) \in SUBSET Below(R, T, y) /\ Below(R, T, y) \in SUBSET T
    BY DEF Below, Linear
  <1>2. x \in Below(R, T, y) /\ x \notin Below(R, T, x)
    BY DEF Below, Linear
  <1>3. IsFiniteSet(Below(R, T, y)) /\ IsFiniteSet(Below(R, T, x))
    BY <1>1, FS_Subset
  <1>4. /\ Cardinality(Below(R, T, x)) <= Cardinality(Below(R, T, y))
        /\ Cardinality(Below(R, T, x)) # Cardinality(Below(R, T, y))
    BY <1>1, <1>2, <1>3, FS_Subset
  <1> QED
    BY <1>3, <1>4, FS_CardinalityType

LEMMA RankIsNat ==
  ASSUME NEW R, NEW T, IsFiniteSet(T), NEW x \in T
  PROVE  Cardinality(Below(R, T, x)) \in Nat
  <1>1. Below(R, T, x) \in SUBSET T
    BY DEF Below
  <1> QED
    BY <1>1, FS_Subset, FS_CardinalityType

(* A part that is not empty has a first element.                            *)
LEMMA FirstExists ==
  ASSUME NEW R, NEW T, IsFiniteSet(T), Linear(R, T), NEW S \in SUBSET T, S # {}
  PROVE  \E x \in S : \A y \in S : <<y, x>> \notin R
  <1> DEFINE ranks == {Cardinality(Below(R, T, x)) : x \in S}
  <1>1. ranks \in SUBSET Nat /\ ranks # {}
    BY RankIsNat
  <1>2. PICK i \in ranks : \A j \in ranks : i <= j
    <2> HIDE DEF ranks
    <2> QED
      BY <1>1, LeastNumber
  <1>3. PICK x \in S : i = Cardinality(Below(R, T, x))
    BY <1>2
  <1>4. ASSUME NEW y \in S, <<y, x>> \in R PROVE FALSE
    <2>1. /\ Cardinality(Below(R, T, y)) < i
          /\ Cardinality(Below(R, T, y)) \in Nat /\ i \in Nat
      BY <1>3, <1>4, RankGrows
    <2>2. i <= Cardinality(Below(R, T, y))
      BY <1>2
    <2> QED
      BY <2>1, <2>2
  <1> QED
    BY <1>4

(* Of n asked for, those with fewer than n below are n at most, and all when *)
(* they are fewer.                                                          *)
LEMMA FirstOnes ==
  ASSUME NEW R, NEW T, IsFiniteSet(T), Linear(R, T), NEW n \in Nat,
         NEW F, F = {x \in T : Cardinality(Below(R, T, x)) < n}
  PROVE  /\ IsFiniteSet(F) /\ Cardinality(F) \in Nat
         /\ Cardinality(F) <= n
         /\ Cardinality(F) < n => F = T
  <1>1. F \in SUBSET T
    OBVIOUS
  <1>2. IsFiniteSet(F) /\ Cardinality(F) \in Nat
    BY <1>1, FS_Subset, FS_CardinalityType
  <1>3. Cardinality(F) <= n
    <2> DEFINE rank == [x \in F |-> Cardinality(Below(R, T, x)) + 1]
    <2>1. rank \in [F -> 1..n]
      BY RankIsNat
    <2>2. \A x, y \in F : rank[x] = rank[y] => x = y
      <3> SUFFICES ASSUME NEW x \in F, NEW y \in F, x # y PROVE rank[x] # rank[y]
        OBVIOUS
      <3>1. CASE <<x, y>> \in R
        BY <3>1, RankGrows
      <3>2. CASE <<y, x>> \in R
        BY <3>2, RankGrows
      <3> QED
        BY <3>1, <3>2 DEF Linear
    <2> HIDE DEF rank
    <2>3. rank \in Injection(F, 1..n)
      BY <2>1, <2>2 DEF Injection, IsInjective
    <2>4. IsFiniteSet(1..n) /\ Cardinality(1..n) = n
      <3>1. Cardinality(1..n) = IF 1 > n THEN 0 ELSE n - 1 + 1
        BY FS_Interval
      <3> QED
        BY <3>1, FS_Interval
    <2> QED
      BY <2>3, <2>4, FS_Injection
  <1>4. ASSUME Cardinality(F) < n, F # T PROVE FALSE
    <2>1. T \ F \in SUBSET T /\ T \ F # {}
      BY <1>1, <1>4
    <2>2. PICK x \in T \ F : \A y \in T \ F : <<y, x>> \notin R
      BY <2>1, FirstExists
    <2>3. Below(R, T, x) \in SUBSET F
      BY <2>2 DEF Below
    <2>4. Cardinality(Below(R, T, x)) <= Cardinality(F)
      BY <1>2, <2>3, FS_Subset
    <2>5. Cardinality(Below(R, T, x)) \in Nat /\ ~(Cardinality(Below(R, T, x)) < n)
      BY RankIsNat
    <2> QED
      BY <1>2, <1>4, <2>4, <2>5
  <1> QED
    BY <1>2, <1>3, <1>4

(* The number of images is not greater.                                     *)
LEMMA ImageSize ==
  ASSUME NEW S, IsFiniteSet(S), NEW f, NEW T, T = {f[x] : x \in S}
  PROVE  IsFiniteSet(T) /\ Cardinality(T) <= Cardinality(S)
  <1> DEFINE g == [x \in S |-> f[x]]
  <1>1. g \in Surjection(S, T)
    BY DEF Surjection
  <1> HIDE DEF g
  <1> QED
    BY <1>1, FS_Surjection

-----------------------------------------------------------------------------
(* What is read of a node, and what is queued.                              *)

Order == {p \in Flow \X Flow : Newer(p[1], p[2])}

LEMMA OrderIs ==
  ASSUME NEW T \in SUBSET Flow
  PROVE  /\ IsFiniteSet(T) /\ Linear(Order, T)
         /\ \A f \in T : Below(Order, T, f) = {g \in T : Newer(g, f)}
         /\ \A f, g \in T : <<f, g>> \in Order <=> Newer(f, g)
  <1>1. IsFiniteSet(T)
    BY FS_Subset, TraversalAssumption
  <1>2. \A f, g \in T : <<f, g>> \in Order <=> Newer(f, g)
    BY DEF Order
  <1>3. \A f \in T : f.at \in Int /\ f.id \in Int
    BY TraversalAssumption
  <1>4. \A f, g \in T : f.id = g.id => f = g
    BY TraversalAssumption
  <1>5. Linear(Order, T)
    BY <1>2, <1>3, <1>4 DEF Linear, Newer
  <1> QED
    BY <1>1, <1>2, <1>5 DEF Below

LEMMA NewestIs ==
  ASSUME NEW T \in SUBSET Flow, NEW n \in Nat
  PROVE  /\ Newest(n, T) \in SUBSET T
         /\ IsFiniteSet(Newest(n, T)) /\ Cardinality(Newest(n, T)) \in Nat
         /\ Cardinality(Newest(n, T)) <= n
         /\ Cardinality(Newest(n, T)) < n => Newest(n, T) = T
  <1>1. Newest(n, T) = {f \in T : Cardinality(Below(Order, T, f)) < n}
    BY OrderIs DEF Newest
  <1>2. IsFiniteSet(T) /\ Linear(Order, T)
    BY OrderIs
  <1> QED
    BY <1>1, <1>2, FirstOnes

LEMMA SelectedAre ==
  ASSUME NEW r, r.limit \in Nat, NEW flows \in SUBSET Flow,
         NEW a, NEW F, F = SelectedNeighbors(r, flows, a)
  PROVE  /\ F \in SUBSET flows /\ IsFiniteSet(F)
         /\ Cardinality(F) \in Nat /\ Cardinality(F) <= r.limit
         /\ \A f \in F : a \in {f.from, f.to}
  <1> DEFINE touching == FilterTransfers(r, {f \in flows : a \in {f.from, f.to}}, a)
             read == Newest(r.limit, touching)
  <1>1. touching \in SUBSET flows /\ \A f \in touching : a \in {f.from, f.to}
    BY DEF FilterTransfers
  <1>2. /\ read \in SUBSET touching /\ IsFiniteSet(read)
        /\ Cardinality(read) \in Nat /\ Cardinality(read) <= r.limit
    <2> HIDE DEF touching
    <2> QED
      BY <1>1, NewestIs
  <1>3. F \in SUBSET read
    <2>1. F = Select(r, read, a)
      BY DEF SelectedNeighbors, GraphNeighbors
    <2> HIDE DEF read
    <2> QED
      BY <2>1 DEF Select, FilterTransfers
  <1> HIDE DEF read, touching
  <1>4. IsFiniteSet(F) /\ Cardinality(F) <= Cardinality(read)
    BY <1>2, <1>3, FS_Subset
  <1> QED
    BY <1>1, <1>2, <1>3, <1>4, FS_CardinalityType

(* With room for all, no neighbour is left out.                             *)
LEMMA QueuedAre ==
  ASSUME NEW found \in SUBSET Flow, NEW node, NEW seen, NEW n \in Nat,
         NEW queued, queued = Discovered(Newest(n, Leading(found, node, seen)), node)
  PROVE  /\ queued \in SUBSET Discovered(found, node) /\ queued \cap seen = {}
         /\ IsFiniteSet(queued) /\ Cardinality(queued) \in Nat /\ Cardinality(queued) <= n
         /\ Cardinality(queued) < n => Discovered(found, node) \subseteq seen \cup queued
  <1> DEFINE leading == Leading(found, node, seen)
             first == Newest(n, leading)
  <1>1. leading \in SUBSET found /\ leading \in SUBSET Flow
    BY DEF Leading
  <1>2. /\ first \in SUBSET leading
        /\ IsFiniteSet(first) /\ Cardinality(first) \in Nat
        /\ Cardinality(first) <= n
        /\ Cardinality(first) < n => first = leading
    <2> HIDE DEF leading
    <2> QED
      BY <1>1, NewestIs
  <1>3. /\ \A f \in leading : Counterparty(f, node) \notin seen
        /\ \A f, g \in leading : Counterparty(f, node) = Counterparty(g, node) => f = g
    <2>1. \A f, g \in leading : <<f, g>> \in Order <=> Newer(f, g)
      BY <1>1, OrderIs
    <2>2. Linear(Order, leading)
      BY <1>1, OrderIs
    <2>3. \A f, g \in leading : f # g => Newer(f, g) \/ Newer(g, f)
      BY <2>1, <2>2 DEF Linear
    <2> QED
      BY <2>3 DEF Leading
  <1> HIDE DEF leading
  <1>4. queued = {Counterparty(f, node) : f \in first}
    BY DEF Discovered, leading
  <1> HIDE DEF first
  <1> DEFINE leads == [f \in first |-> Counterparty(f, node)]
  <1>5. queued = {leads[f] : f \in first}
    BY <1>4
  <1>6. leads \in Injection(first, queued)
    BY <1>2, <1>3, <1>4 DEF Injection, IsInjective
  <1> HIDE DEF leads
  <1>7. IsFiniteSet(queued) /\ Cardinality(queued) <= Cardinality(first)
    BY <1>2, <1>5, ImageSize
  <1>8. Cardinality(first) <= Cardinality(queued)
    BY <1>6, <1>7, FS_Injection
  <1>9. Cardinality(queued) \in Nat
    BY <1>7, FS_CardinalityType
  <1>10. ASSUME Cardinality(queued) < n, NEW a \in Discovered(found, node), a \notin seen
         PROVE  a \in queued
    <2>1. first = leading
      BY <1>2, <1>7, <1>8, <1>9, <1>10
    <2> DEFINE own == {f \in found : Counterparty(f, node) = a}
    <2>2. own \in SUBSET found /\ own # {}
      BY <1>10 DEF Discovered
    <2>3. IsFiniteSet(found) /\ Linear(Order, found)
          /\ \A f, g \in found : <<f, g>> \in Order <=> Newer(f, g)
      BY OrderIs
    <2>4. PICK f \in own : \A g \in own : <<g, f>> \notin Order
      <3> HIDE DEF own
      <3> QED
        BY <2>2, <2>3, FirstExists
    <2>5. f \in leading
      BY <1>10, <2>3, <2>4 DEF leading, Leading
    <2> QED
      BY <1>4, <2>1, <2>4, <2>5
  <1> QED
    BY <1>1, <1>2, <1>3, <1>4, <1>7, <1>8, <1>9, <1>10 DEF Discovered

-----------------------------------------------------------------------------
(* Paths.                                                                   *)

LEMMA WithinIs ==
  ASSUME NEW n \in Nat, NEW joined, NEW a
  PROVE  a \in Within(n, joined) <=>
           /\ a \in Address
           /\ \E path \in [0..n -> Address] :
                 /\ path[0] = Seed /\ path[n] = a
                 /\ \A i \in 1..n : path[i] = path[i - 1] \/ <<path[i - 1], path[i]>> \in joined
  BY DEF Within

LEMMA WithinZero ==
  ASSUME Seed \in Address, NEW joined PROVE Within(0, joined) = {Seed}
  <1>1. Seed \in Within(0, joined)
    <2> DEFINE path == [i \in 0..0 |-> Seed]
    <2>1. path \in [0..0 -> Address] /\ path[0] = Seed
      OBVIOUS
    <2>2. \A i \in 1..0 : path[i] = path[i - 1]
      OBVIOUS
    <2> HIDE DEF path
    <2> QED
      BY <2>1, <2>2 DEF Within
  <1>2. \A a \in Within(0, joined) : a = Seed
    BY DEF Within
  <1> QED
    BY <1>1, <1>2

LEMMA WithinGrows ==
  ASSUME NEW n \in Nat, NEW joined, NEW more, joined \subseteq more
  PROVE  Within(n, joined) \subseteq Within(n, more)
  BY DEF Within

(* One more step, or none.                                                  *)
LEMMA WithinStep ==
  ASSUME NEW n \in Nat, NEW joined, NEW a \in Within(n, joined), NEW b \in Address,
         a = b \/ <<a, b>> \in joined
  PROVE  b \in Within(n + 1, joined)
  <1>1. PICK path \in [0..n -> Address] :
          /\ path[0] = Seed /\ path[n] = a
          /\ \A i \in 1..n : path[i] = path[i - 1] \/ <<path[i - 1], path[i]>> \in joined
    BY WithinIs
  <1> DEFINE longer == [i \in 0..(n + 1) |-> IF i <= n THEN path[i] ELSE b]
  <1>2. longer \in [0..(n + 1) -> Address]
    OBVIOUS
  <1>3. longer[0] = Seed /\ longer[n + 1] = b
    BY <1>1
  <1>4. ASSUME NEW i \in 1..(n + 1)
        PROVE  longer[i] = longer[i - 1] \/ <<longer[i - 1], longer[i]>> \in joined
    <2>1. CASE i = n + 1
      <3>1. longer[i] = b /\ longer[i - 1] = a
        BY <1>1, <2>1
      <3> QED
        BY <3>1
    <2>2. CASE i \in 1..n
      <3>1. longer[i] = path[i] /\ longer[i - 1] = path[i - 1]
        BY <2>2
      <3> QED
        BY <1>1, <2>2, <3>1
    <2> QED
      BY <2>1, <2>2
  <1> HIDE DEF longer
  <1> QED
    BY <1>2, <1>3, <1>4, WithinIs

(* And none other leads further.                                            *)
LEMMA WithinSplit ==
  ASSUME NEW n \in Nat, NEW joined, NEW b \in Within(n + 1, joined)
  PROVE  \E a \in Within(n, joined) : a = b \/ <<a, b>> \in joined
  <1>1. PICK path \in [0..(n + 1) -> Address] :
          /\ path[0] = Seed /\ path[n + 1] = b
          /\ \A i \in 1..(n + 1) : path[i] = path[i - 1] \/ <<path[i - 1], path[i]>> \in joined
    BY WithinIs
  <1> DEFINE shorter == [i \in 0..n |-> path[i]]
  <1>2. shorter \in [0..n -> Address] /\ shorter[0] = Seed /\ shorter[n] = path[n]
    BY <1>1
  <1>3. ASSUME NEW i \in 1..n
        PROVE  shorter[i] = shorter[i - 1] \/ <<shorter[i - 1], shorter[i]>> \in joined
    <2>1. shorter[i] = path[i] /\ shorter[i - 1] = path[i - 1] /\ i \in 1..(n + 1)
      OBVIOUS
    <2> QED
      BY <1>1, <2>1
  <1> HIDE DEF shorter
  <1>4. path[n] \in Within(n, joined)
    BY <1>2, <1>3, WithinIs
  <1>5. path[n + 1] = path[n] \/ <<path[n], path[n + 1]>> \in joined
    <2>1. n + 1 \in 1..(n + 1) /\ n + 1 - 1 = n
      OBVIOUS
    <2> QED
      BY <1>1, <2>1
  <1> QED
    BY <1>1, <1>4, <1>5

(* A set that the joined do not leave holds every path that begins in it.    *)
LEMMA WithinClosed ==
  ASSUME NEW n \in Nat, NEW joined, NEW S, Seed \in S,
         \A a \in S : \A b \in Address : <<a, b>> \in joined => b \in S
  PROVE  Within(n, joined) \subseteq S
  <1> SUFFICES ASSUME NEW b \in Within(n, joined), b \notin S PROVE FALSE
    OBVIOUS
  <1>1. PICK path \in [0..n -> Address] :
          /\ path[0] = Seed /\ path[n] = b
          /\ \A i \in 1..n : path[i] = path[i - 1] \/ <<path[i - 1], path[i]>> \in joined
    BY WithinIs
  <1> DEFINE outside == {i \in 0..n : path[i] \notin S}
  <1>2. outside \in SUBSET Nat /\ n \in outside
    BY <1>1
  <1>3. PICK i \in outside : \A j \in outside : i <= j
    <2> HIDE DEF outside
    <2> QED
      BY <1>2, LeastNumber
  <1>4. i \in 1..n
    BY <1>1, <1>3
  <1>5. i - 1 \in 0..n /\ i - 1 \notin outside
    BY <1>3, <1>4
  <1>6. path[i - 1] \in S /\ path[i] \in Address /\ path[i] \notin S
    BY <1>3, <1>4, <1>5
  <1> QED
    BY <1>1, <1>4, <1>6

LEMMA WithinLater ==
  ASSUME NEW m \in Nat, NEW n \in Nat, m <= n, NEW joined
  PROVE  Within(m, joined) \subseteq Within(n, joined)
  <1> SUFFICES ASSUME NEW a \in Within(m, joined) PROVE a \in Within(n, joined)
    OBVIOUS
  <1>1. PICK path \in [0..m -> Address] :
          /\ path[0] = Seed /\ path[m] = a
          /\ \A i \in 1..m : path[i] = path[i - 1] \/ <<path[i - 1], path[i]>> \in joined
    BY WithinIs
  <1> DEFINE longer == [i \in 0..n |-> IF i <= m THEN path[i] ELSE path[m]]
  <1>2. longer \in [0..n -> Address] /\ longer[0] = Seed /\ longer[n] = a
    BY <1>1
  <1>3. ASSUME NEW i \in 1..n
        PROVE  longer[i] = longer[i - 1] \/ <<longer[i - 1], longer[i]>> \in joined
    <2>1. CASE i \in 1..m
      <3>1. longer[i] = path[i] /\ longer[i - 1] = path[i - 1]
        BY <2>1
      <3> QED
        BY <1>1, <2>1, <3>1
    <2>2. CASE i > m
      <3>1. longer[i] = path[m] /\ longer[i - 1] = path[m]
        BY <2>2
      <3> QED
        BY <3>1
    <2> QED
      BY <2>1, <2>2
  <1> HIDE DEF longer
  <1>4. a \in Address
    BY WithinIs
  <1> QED
    BY <1>2, <1>3, <1>4, WithinIs

-----------------------------------------------------------------------------
(* The invariant.                                                           *)

\* Where the walk is.
Phase ==
    /\ pc = "page" =>
         /\ visited = {} /\ stored = {} /\ hop = 0
         /\ frontier = {} /\ next = {} /\ expanded = {}
    /\ pc = "walk" => Seed \in visited /\ hop < request.depth

\* As long as there is room, every node of the answer has been seen.
Sized ==
    /\ IsFiniteSet(visited)
    /\ Bounded
    /\ pc # "page" /\ Cardinality(visited) < MaxNodes => NodesOf(stored) \subseteq visited

Links(flows) == UNION {{<<f.from, f.to>>, <<f.to, f.from>>} : f \in flows}

\* Transfers of this hop may lead a step further than its nodes.
Tethered ==
    /\ pc = "walk" => /\ frontier \cup expanded \subseteq Within(hop, Links(stored))
                      /\ next \cup NodesOf(stored) \subseteq Within(hop + 1, Links(stored))
    /\ pc = "done" => NodesOf(stored) \subseteq Within(request.depth, Links(stored))

Leads(r, flows) ==
    UNION {{<<m, o>> : o \in Discovered(SelectedNeighbors(r, flows, m), m)} : m \in Address}

Collected(r, flows, nodes) == UNION {SelectedNeighbors(r, flows, m) : m \in nodes}

\* A hop's nodes are those within it, and what they lead to has been seen.
Layers ==
    /\ stored = Collected(request, opened, expanded)
    /\ visited = expanded \cup frontier \cup next
    /\ expanded \cup frontier = Within(hop, Leads(request, opened))
    /\ next \subseteq Within(hop + 1, Leads(request, opened))
    /\ \A m \in expanded : Discovered(SelectedNeighbors(request, opened, m), m) \subseteq visited

Alone == store = opened /\ ~Full

Layered ==
    /\ pc = "walk" /\ Alone => Layers
    /\ pc = "done" /\ Alone =>
         stored = Collected(request, opened, Within(request.depth - 1, Leads(request, opened)))

IInv == WalkTypeOK /\ Phase /\ Sized /\ Tethered /\ Layered

LEMMA ConstantsAre ==
  /\ Seed \in Address /\ MaxNodes \in Nat \ {0} /\ MaxEdges \in Nat \ {0}
  /\ IsFiniteSet(Flow) /\ \A f \in Flow : f.from \in Address /\ f.to \in Address
  BY TraversalAssumption

(* graphControls, graphDepth and the page size: a request is within the     *)
(* limits of the engine.                                                    *)
LEMMA RequestIs ==
  ASSUME NEW r \in Requests
  PROVE  /\ Controlled(r).limit \in 1..MaxPage
         /\ Controlled(r).counterparties \in 1..MaxCounterparties
         /\ Controlled(r).depth \in 1..MaxDepth
  <1>1. ASSUME NEW a \in Nat, NEW c \in Nat PROVE Min({a, c}) \in {a, c} /\ Min({a, c}) <= c
    <2>1. \E x \in {a, c} : \A y \in {a, c} : x <= y
      OBVIOUS
    <2> QED
      BY <2>1 DEF Min
  <1>2. r.limit \in Nat /\ r.counterparties \in Nat /\ r.depth \in Nat
    BY TraversalAssumption DEF Requests
  <1>3. PageLimit(r.limit) \in 1..MaxPage
    BY <1>2, TraversalAssumption DEF PageLimit
  <1>4. GraphControls(r.counterparties) \in 1..MaxCounterparties
    <2>1. MaxCounterparties \in Nat \ {0} /\ DefaultCounterparties \in 1..MaxCounterparties
      BY TraversalAssumption
    <2>2. CASE r.counterparties = 0
      BY <2>1, <2>2 DEF GraphControls
    <2>3. CASE r.counterparties # 0
      <3>1. GraphControls(r.counterparties) = Min({r.counterparties, MaxCounterparties})
        BY <2>3 DEF GraphControls
      <3> QED
        BY <1>1, <1>2, <2>1, <2>3, <3>1
    <2> QED
      BY <2>2, <2>3
  <1>5. GraphDepth(r.depth) \in 1..MaxDepth
    <2>1. MaxDepth \in Nat \ {0}
      BY TraversalAssumption
    <2>2. CASE r.depth = 0
      BY <2>1, <2>2 DEF GraphDepth
    <2>3. CASE r.depth # 0
      <3>1. GraphDepth(r.depth) = Min({r.depth, MaxDepth})
        BY <2>3 DEF GraphDepth
      <3> QED
        BY <1>1, <1>2, <2>1, <2>3, <3>1
    <2> QED
      BY <2>2, <2>3
  <1>6. /\ Controlled(r).limit = PageLimit(r.limit)
        /\ Controlled(r).counterparties = GraphControls(r.counterparties)
        /\ Controlled(r).depth = GraphDepth(r.depth)
    BY DEF Controlled, Requests
  <1> QED
    BY <1>3, <1>4, <1>5, <1>6

(* An answer without transfers is the seed alone.                           *)
LEMMA NothingBounded ==
  ASSUME request.limit \in 1..MaxPage, stored = {},
         IsFiniteSet(visited), Cardinality(visited) <= MaxNodes
  PROVE  Bounded /\ NodesOf(stored) = {Seed}
  <1>1. NodesOf(stored) = {Seed}
    BY DEF NodesOf
  <1>2. Cardinality({Seed}) = 1 /\ Cardinality({}) = 0
    BY FS_Singleton, FS_EmptySet
  <1>3. MaxEdges \in Nat \ {0} /\ MaxNodes \in Nat \ {0} /\ request.limit \in Nat \ {0}
    BY TraversalAssumption
  <1>4. Cardinality(stored) < MaxEdges + request.limit
    BY <1>2, <1>3
  <1>5. Cardinality(NodesOf(stored)) < MaxNodes + request.limit
    <2>1. Cardinality(NodesOf(stored)) = 1
      BY <1>1, <1>2
    <2>2. \A m, l \in Nat \ {0} : 1 < m + l
      OBVIOUS
    <2> QED
      BY <1>3, <2>1, <2>2
  <1> QED
    BY <1>1, <1>4, <1>5 DEF Bounded

LEMMA InitKeeps == ASSUME WalkInit PROVE IInv
  <1>1. PICK r \in Requests : request = Controlled(r)
    BY DEF WalkInit
  <1>2. /\ request.limit \in 1..MaxPage /\ request.counterparties \in 1..MaxCounterparties
        /\ request.depth \in 1..MaxDepth
    BY <1>1, RequestIs
  <1>3. /\ pc = "page" /\ visited = {} /\ stored = {} /\ hop = 0
        /\ frontier = {} /\ next = {} /\ expanded = {} /\ page = {} /\ overlaps = 0
        /\ store \in SUBSET Flow /\ opened = store
    BY DEF WalkInit
  <1>4. MaxOverlaps \in Nat /\ 0 \in 0..request.depth
    BY <1>2, TraversalAssumption
  <1>5. WalkTypeOK
    BY <1>2, <1>3, <1>4 DEF WalkTypeOK
  <1>6. IsFiniteSet(visited) /\ Cardinality(visited) <= MaxNodes
    BY <1>3, FS_EmptySet, TraversalAssumption
  <1>7. Sized
    BY <1>2, <1>3, <1>6, NothingBounded DEF Sized
  <1> QED
    BY <1>3, <1>5, <1>7 DEF IInv, Phase, Tethered, Layered

(* ResolveGraph's save: the walk begins at the seed, without a transfer.    *)
LEMMA SavePageKeeps == ASSUME IInv, SavePage PROVE IInv'
  <1>1. /\ pc = "page" /\ pc' = "walk" /\ store' = store \cup page' /\ opened' = store'
        /\ frontier' = {Seed} /\ visited' = {Seed}
        /\ UNCHANGED <<request, hop, next, expanded, stored, overlaps>>
    BY DEF SavePage
  <1>2. stored' = {} /\ hop' = 0 /\ next' = {} /\ expanded' = {}
    BY <1>1 DEF IInv, Phase
  <1>3. page' \subseteq Flow
    <2>1. PICK fresh \in SUBSET {f \in Flow : Seed \in {f.from, f.to}} :
            page' = Select(request, fresh, Seed)
      BY DEF SavePage
    <2> QED
      BY <2>1 DEF Select, FilterTransfers
  <1>4. /\ request'.limit \in 1..MaxPage /\ request'.counterparties \in 1..MaxCounterparties
        /\ request'.depth \in 1..MaxDepth /\ hop' \in 0..request'.depth
        /\ overlaps' \in 0..MaxOverlaps /\ store \subseteq Flow
    BY <1>1 DEF IInv, WalkTypeOK
  <1>5. WalkTypeOK'
    BY <1>1, <1>2, <1>3, <1>4, ConstantsAre DEF WalkTypeOK
  <1>6. Phase'
    BY <1>1, <1>2, <1>4 DEF Phase
  <1>7. Sized'
    <2>1. IsFiniteSet(visited') /\ Cardinality(visited') <= MaxNodes
      <3>1. IsFiniteSet({Seed}) /\ Cardinality({Seed}) = 1
        BY FS_Singleton
      <3> QED
        BY <1>1, <3>1, ConstantsAre
    <2>2. NodesOf(stored)' = {Seed}
      BY <1>2 DEF NodesOf
    <2>3. Bounded'
      <3>1. NodesOf(stored') = {Seed} /\ Cardinality({Seed}) = 1 /\ Cardinality({}) = 0
        BY <2>2, FS_Singleton, FS_EmptySet
      <3>2. /\ MaxEdges \in Nat \ {0} /\ MaxNodes \in Nat \ {0}
            /\ request'.limit \in Nat \ {0}
        BY <1>4, ConstantsAre, TraversalAssumption
      <3>3. \A m, l \in Nat \ {0} : 0 < m + l /\ 1 < m + l
        OBVIOUS
      <3>4. Cardinality(stored') < MaxEdges + request'.limit
        BY <1>2, <3>1, <3>2, <3>3
      <3>5. Cardinality(NodesOf(stored')) < MaxNodes + request'.limit
        BY <3>1, <3>2, <3>3
      <3> QED
        BY <2>1, <3>4, <3>5 DEF Bounded
    <2> QED
      BY <1>1, <2>1, <2>2, <2>3 DEF Sized
  <1>8. Tethered'
    <2>1. NodesOf(stored)' = {Seed}
      BY <1>2 DEF NodesOf
    <2>2. Within(0, Links(stored')) = {Seed}
      BY WithinZero, ConstantsAre
    <2>3. Within(0, Links(stored')) \subseteq Within(0 + 1, Links(stored'))
      BY WithinLater
    <2> QED
      BY <1>1, <1>2, <2>1, <2>2, <2>3 DEF Tethered
  <1>9. Layered'
    <2>1. Within(0, Leads(request', opened')) = {Seed}
      BY WithinZero, ConstantsAre
    <2>2. Collected(request', opened', {}) = {}
      BY DEF Collected
    <2>3. Layers'
      BY <1>1, <1>2, <2>1, <2>2 DEF Layers
    <2> QED
      BY <1>1, <2>3 DEF Layered
  <1> QED
    BY <1>5, <1>6, <1>7, <1>8, <1>9 DEF IInv

(* Another process saves: the answer so far stands, the definition's graph   *)
(* is no longer the store's.                                                *)
LEMMA OverlapKeeps == ASSUME IInv, Overlap PROVE IInv'
  <1>1. /\ pc = "walk" /\ overlaps < MaxOverlaps /\ overlaps' = overlaps + 1
        /\ UNCHANGED <<pc, request, opened, page, hop, frontier, next, visited, expanded, stored>>
    BY DEF Overlap
  <1>2. PICK f \in Flow \ store : store' = store \cup {f}
    BY DEF Overlap
  <1>3. WalkTypeOK'
    BY <1>1, <1>2, ConstantsAre, TraversalAssumption DEF IInv, WalkTypeOK
  <1>4. store' # opened'
    BY <1>1, <1>2 DEF IInv, WalkTypeOK
  <1>5. Layered'
    BY <1>4 DEF Layered, Alone
  <1>6. Phase' /\ Sized' /\ Tethered'
    BY <1>1 DEF IInv, Phase, Sized, Bounded, NodesOf, Tethered, Links
  <1> QED
    BY <1>3, <1>5, <1>6 DEF IInv

LEMMA LeadsAre ==
  ASSUME NEW r, NEW flows, NEW a, NEW b
  PROVE  <<a, b>> \in Leads(r, flows) <=>
           a \in Address /\ b \in Discovered(SelectedNeighbors(r, flows, a), a)
  BY DEF Leads

(* With a hop's nodes expanded, what they queued is the rest of the next.    *)
LEMMA NextLayer ==
  ASSUME WalkTypeOK, Layers, frontier = {}
  PROVE  Within(hop + 1, Leads(request, opened)) = expanded \cup next
  <1> DEFINE joined == Leads(request, opened)
  <1>1. hop \in Nat /\ expanded = Within(hop, joined) /\ visited = expanded \cup next
    BY DEF WalkTypeOK, Layers
  <1>2. expanded \cup next \subseteq Within(hop + 1, joined)
    BY <1>1, WithinLater DEF Layers
  <1>3. ASSUME NEW b \in Within(hop + 1, joined) PROVE b \in expanded \cup next
    <2>1. PICK a \in expanded : a = b \/ <<a, b>> \in joined
      <3> HIDE DEF joined
      <3> QED
        BY <1>1, <1>3, WithinSplit
    <2> QED
      BY <1>1, <2>1, LeadsAre DEF Layers
  <1> QED
    BY <1>2, <1>3

(* traverseStoredGraph's outer loop: the next hop, or the end.              *)
LEMMA NextHopKeeps == ASSUME IInv, NextHop PROVE IInv'
  <1>1. /\ pc = "walk" /\ hop' = hop + 1 /\ frontier' = next /\ next' = {}
        /\ UNCHANGED <<request, store, opened, page, visited, expanded, stored, overlaps>>
    BY DEF NextHop
  <1>2. pc' = IF hop + 1 >= request.depth \/ next = {} \/ Cardinality(stored) >= MaxEdges
                THEN "done" ELSE "walk"
    BY DEF NextHop
  <1>3. hop \in Nat /\ request.depth \in Nat \ {0} /\ hop < request.depth
    BY <1>1 DEF IInv, WalkTypeOK, Phase
  <1>4. WalkTypeOK'
    BY <1>1, <1>2, <1>3 DEF IInv, WalkTypeOK
  <1>5. Phase'
    BY <1>1, <1>2, <1>3 DEF IInv, Phase
  <1>6. Sized'
    BY <1>1 DEF IInv, Sized, Bounded, NodesOf
  <1>7. Tethered'
    <2> DEFINE joined == Links(stored)
    <2>1. /\ Within(hop, joined) \subseteq Within(hop + 1, joined)
          /\ Within(hop + 1, joined) \subseteq Within(hop + 1 + 1, joined)
          /\ Within(hop + 1, joined) \subseteq Within(request.depth, joined)
      <3> HIDE DEF joined
      <3> QED
        BY <1>3, WithinLater
    <2>2. joined' = joined /\ NodesOf(stored)' = NodesOf(stored)
      BY <1>1 DEF Links, NodesOf
    <2>3. frontier \cup expanded \subseteq Within(hop, joined)
          /\ next \cup NodesOf(stored) \subseteq Within(hop + 1, joined)
      BY <1>1 DEF IInv, Tethered
    <2>4. pc' = "walk" => /\ next \cup expanded \subseteq Within(hop + 1, joined)
                          /\ NodesOf(stored) \subseteq Within(hop + 1 + 1, joined)
      BY <2>1, <2>3
    <2>5. pc' = "done" => NodesOf(stored) \subseteq Within(request.depth, joined)
      BY <2>1, <2>3
    <2> QED
      BY <1>1, <2>2, <2>4, <2>5 DEF Tethered
  <1>8. Layered'
    <2> SUFFICES ASSUME Alone PROVE Layered'
      BY <1>1 DEF Layered, Alone, Full
    <2> DEFINE joined == Leads(request, opened)
    <2>1. frontier = {} /\ Layers /\ ~(Cardinality(stored) >= MaxEdges)
      BY <1>1 DEF NextHop, Alone, Full, IInv, Layered
    <2>2. Within(hop + 1, joined) = expanded \cup next
      BY <2>1, NextLayer DEF IInv
    <2>3. expanded = Within(hop, joined)
      BY <2>1 DEF Layers
    <2>4. CASE pc' = "walk"
      <3>1. Layers'
        BY <1>1, <2>1, <2>2 DEF Layers
      <3> QED
        BY <2>4, <3>1 DEF Layered
    <2>5. CASE pc' = "done"
      <3>1. Within(request.depth - 1, joined) = expanded
        <4>1. CASE hop + 1 >= request.depth
          <5>1. request.depth - 1 = hop
            BY <1>3, <4>1
          <5> QED
            BY <2>3, <5>1
        <4>2. CASE next = {}
          <5>1. Seed \in expanded
            BY <1>1, <2>1, <4>2 DEF IInv, Phase, Layers
          <5>2. \A a \in expanded : \A b \in Address : <<a, b>> \in joined => b \in expanded
            BY <2>1, <4>2, LeadsAre DEF Layers
          <5>3. request.depth - 1 \in Nat /\ hop <= request.depth - 1
            BY <1>3
          <5> HIDE DEF joined
          <5>4. Within(request.depth - 1, joined) \subseteq expanded
            BY <5>1, <5>2, <5>3, WithinClosed
          <5>5. expanded \subseteq Within(request.depth - 1, joined)
            BY <1>3, <2>3, <5>3, WithinLater
          <5> QED
            BY <5>4, <5>5
        <4> QED
          BY <1>2, <2>1, <2>5, <4>1, <4>2
      <3> QED
        BY <1>1, <2>1, <2>5, <3>1 DEF Layered, Layers
    <2> QED
      BY <1>2, <2>4, <2>5
  <1> QED
    BY <1>4, <1>5, <1>6, <1>7, <1>8 DEF IInv

(* The transfers of a node and the nodes they lead to.                      *)
LEMMA EndsAre ==
  ASSUME NEW found \in SUBSET Flow, NEW node, \A f \in found : node \in {f.from, f.to}, NEW flows
  PROVE  /\ \A f \in found : {f.from, f.to} = {node, Counterparty(f, node)}
         /\ NodesOf(flows \cup found) \subseteq NodesOf(flows) \cup {node} \cup Discovered(found, node)
         /\ Links(flows) \subseteq Links(flows \cup found)
         /\ \A a \in Discovered(found, node) : <<node, a>> \in Links(flows \cup found)
  <1>1. \A f \in found : {f.from, f.to} = {node, Counterparty(f, node)}
    BY DEF Counterparty
  <1>2. NodesOf(flows \cup found) \subseteq NodesOf(flows) \cup {node} \cup Discovered(found, node)
    BY <1>1 DEF NodesOf, Discovered
  <1>3. Links(flows) \subseteq Links(flows \cup found)
    BY DEF Links
  <1>4. ASSUME NEW f \in found PROVE <<node, Counterparty(f, node)>> \in Links(flows \cup found)
    <2>1. {<<f.from, f.to>>, <<f.to, f.from>>} \subseteq Links(flows \cup found)
      BY DEF Links
    <2> QED
      BY <2>1 DEF Counterparty
  <1> QED
    BY <1>1, <1>2, <1>3, <1>4 DEF Discovered

\* What ExpandNode does with the node it takes.
Expands(node, found, queued) ==
    /\ node \in frontier /\ pc = "walk" /\ ~Full
    /\ found = SelectedNeighbors(request, store, node)
    /\ queued = Discovered(Newest(MaxNodes - Cardinality(visited),
                                  Leading(found, node, visited)), node)
    /\ stored' = stored \cup found
    /\ visited' = visited \cup queued
    /\ next' = next \cup queued
    /\ expanded' = expanded \cup {node}
    /\ frontier' = frontier \ {node}
    /\ UNCHANGED <<pc, request, store, opened, page, hop, overlaps>>

LEMMA ExpandNodeIs ==
  ASSUME ExpandNode PROVE \E node, found, queued : Expands(node, found, queued)
  BY DEF ExpandNode, Expands

(* What is read is a part of the store within the limit, and there is room  *)
(* for all it leads to unless the walk has seen its last node.              *)
LEMMA ExpandedAre ==
  ASSUME IInv, NEW node, NEW found, NEW queued, Expands(node, found, queued)
  PROVE  /\ node \in Address /\ node \in visited /\ Cardinality(visited) \in Nat
         /\ Cardinality(visited) < MaxNodes /\ Cardinality(stored) < MaxEdges
         /\ IsFiniteSet(stored) /\ Cardinality(stored) \in Nat
         /\ found \in SUBSET store /\ found \in SUBSET Flow /\ IsFiniteSet(found)
         /\ Cardinality(found) \in Nat /\ Cardinality(found) <= request.limit
         /\ \A f \in found : node \in {f.from, f.to}
         /\ queued \in SUBSET Discovered(found, node) /\ queued \in SUBSET Address
         /\ IsFiniteSet(queued)
         /\ IsFiniteSet(visited')
         /\ Cardinality(visited') \in Nat /\ Cardinality(visited') <= MaxNodes
         /\ Cardinality(visited') < MaxNodes => Discovered(found, node) \subseteq visited'
  <1>1. /\ store \in SUBSET Flow /\ stored \in SUBSET store /\ request.limit \in Nat
        /\ frontier \subseteq visited /\ visited \subseteq Address
    BY DEF IInv, WalkTypeOK
  <1>2. IsFiniteSet(stored) /\ Cardinality(stored) \in Nat
    BY <1>1, ConstantsAre, FS_Subset, FS_CardinalityType
  <1>3. IsFiniteSet(visited) /\ Cardinality(visited) \in Nat
    BY FS_CardinalityType DEF IInv, Sized
  <1>4. Cardinality(visited) < MaxNodes /\ Cardinality(stored) < MaxEdges
    BY <1>2, <1>3, ConstantsAre DEF Expands, Full
  <1>5. /\ found \in SUBSET store /\ IsFiniteSet(found)
        /\ Cardinality(found) \in Nat /\ Cardinality(found) <= request.limit
        /\ \A f \in found : node \in {f.from, f.to}
    BY <1>1, SelectedAre DEF Expands
  <1>6. found \in SUBSET Flow
    BY <1>1, <1>5
  <1> DEFINE room == MaxNodes - Cardinality(visited)
  <1>7. room \in Nat
    BY <1>3, <1>4, ConstantsAre
  <1>8. queued = Discovered(Newest(room, Leading(found, node, visited)), node)
    BY DEF Expands
  <1>9. visited' = visited \cup queued
    BY DEF Expands
  <1> HIDE DEF room
  <1>10. /\ queued \in SUBSET Discovered(found, node) /\ queued \cap visited = {}
         /\ IsFiniteSet(queued) /\ Cardinality(queued) \in Nat /\ Cardinality(queued) <= room
         /\ Cardinality(queued) < room => Discovered(found, node) \subseteq visited \cup queued
    <2> DEFINE Q(q) == /\ q \in SUBSET Discovered(found, node) /\ q \cap visited = {}
                       /\ IsFiniteSet(q) /\ Cardinality(q) \in Nat /\ Cardinality(q) <= room
                       /\ Cardinality(q) < room => Discovered(found, node) \subseteq visited \cup q
    <2>1. Q(Discovered(Newest(room, Leading(found, node, visited)), node))
      BY <1>6, <1>7, QueuedAre
    <2> QED
      BY <1>8, <2>1
  <1>11. /\ IsFiniteSet(visited')
         /\ Cardinality(visited') = Cardinality(visited) + Cardinality(queued)
    <2>1. /\ IsFiniteSet(visited \cup queued)
          /\ Cardinality(visited \cup queued)
               = Cardinality(visited) + Cardinality(queued) - Cardinality(visited \cap queued)
      BY <1>3, <1>10, FS_Union
    <2>2. visited \cap queued = {}
      BY <1>10
    <2>3. Cardinality(visited \cap queued) = 0
      BY <2>2, FS_EmptySet
    <2> QED
      BY <1>3, <1>9, <1>10, <2>1, <2>3
  <1>12. /\ Cardinality(visited') \in Nat /\ Cardinality(visited') <= MaxNodes
         /\ Cardinality(visited') < MaxNodes => Cardinality(queued) < room
    BY <1>3, <1>10, <1>11, ConstantsAre DEF room
  <1>13. queued \in SUBSET Address
    <2>1. Discovered(found, node) \subseteq Address
      BY <1>6, ConstantsAre DEF Discovered, Counterparty
    <2> QED
      BY <1>10, <2>1
  <1>14. node \in visited /\ node \in Address
    BY <1>1 DEF Expands
  <1> QED
    BY <1>2, <1>3, <1>4, <1>5, <1>6, <1>9, <1>10, <1>11, <1>12, <1>13, <1>14

LEMMA ExpandBounded ==
  ASSUME IInv, NEW node, NEW found, NEW queued, Expands(node, found, queued)
  PROVE  Sized'
  <1>1. /\ stored' = stored \cup found /\ request' = request /\ pc' = "walk" /\ pc = "walk"
        /\ visited' = visited \cup queued
    BY DEF Expands
  <1>2. NodesOf(stored) \subseteq visited /\ request.limit \in Nat
    BY <1>1, ExpandedAre DEF IInv, Sized, WalkTypeOK
  <1>3. NodesOf(stored') \subseteq visited \cup Discovered(found, node)
    <2>1. NodesOf(stored \cup found) \subseteq NodesOf(stored) \cup {node} \cup Discovered(found, node)
      BY ExpandedAre, EndsAre
    <2> QED
      BY <1>1, <1>2, <2>1, ExpandedAre
  <1>4. Cardinality(stored') < MaxEdges + request.limit
    <2>1. IsFiniteSet(stored) /\ IsFiniteSet(found) /\ IsFiniteSet(stored \cap found)
      BY ExpandedAre, FS_Subset
    <2>2. Cardinality(stored') = Cardinality(stored) + Cardinality(found) - Cardinality(stored \cap found)
      BY <1>1, <2>1, FS_Union
    <2>3. Cardinality(stored \cap found) \in Nat
      BY <2>1, FS_CardinalityType
    <2>4. /\ Cardinality(stored) \in Nat /\ Cardinality(stored) < MaxEdges
          /\ Cardinality(found) \in Nat /\ Cardinality(found) <= request.limit
      BY ExpandedAre
    <2> QED
      BY <1>2, <2>2, <2>3, <2>4, ConstantsAre
  <1>5. Cardinality(NodesOf(stored')) < MaxNodes + request.limit
    <2> DEFINE ends == Discovered(found, node)
               way == [f \in found |-> Counterparty(f, node)]
    <2>1. ends = {way[f] : f \in found}
      BY DEF Discovered
    <2>2. /\ Cardinality(visited) \in Nat /\ Cardinality(visited) < MaxNodes
          /\ IsFiniteSet(found) /\ Cardinality(found) \in Nat /\ Cardinality(found) <= request.limit
      BY ExpandedAre
    <2>3. IsFiniteSet(visited)
      BY DEF IInv, Sized
    <2> HIDE DEF ends, way
    <2>4. IsFiniteSet(ends) /\ Cardinality(ends) <= Cardinality(found)
      BY <2>1, <2>2, ImageSize
    <2>5. Cardinality(ends) \in Nat
      BY <2>4, FS_CardinalityType
    <2>6. /\ IsFiniteSet(visited \cup ends)
          /\ Cardinality(visited \cup ends)
               = Cardinality(visited) + Cardinality(ends) - Cardinality(visited \cap ends)
      BY <2>3, <2>4, FS_Union
    <2>7. Cardinality(visited \cap ends) \in Nat
      BY <2>3, FS_Subset, FS_CardinalityType
    <2>8. NodesOf(stored') \in SUBSET (visited \cup ends)
      BY <1>3 DEF ends
    <2>9. /\ Cardinality(NodesOf(stored')) <= Cardinality(visited \cup ends)
          /\ Cardinality(NodesOf(stored')) \in Nat
      BY <2>6, <2>8, FS_Subset, FS_CardinalityType
    <2> QED
      BY <1>2, <2>2, <2>4, <2>5, <2>6, <2>7, <2>9, ConstantsAre
  <1>6. Cardinality(visited') < MaxNodes => NodesOf(stored') \subseteq visited'
    BY <1>1, <1>3, ExpandedAre
  <1>7. IsFiniteSet(visited') /\ Cardinality(visited') <= MaxNodes
    BY ExpandedAre
  <1>8. NodesOf(stored)' = NodesOf(stored')
    BY DEF NodesOf
  <1>9. Bounded'
    BY <1>1, <1>4, <1>5, <1>7, <1>8 DEF Bounded
  <1> QED
    BY <1>6, <1>7, <1>8, <1>9 DEF Sized

LEMMA ExpandTethered ==
  ASSUME IInv, NEW node, NEW found, NEW queued, Expands(node, found, queued)
  PROVE  Tethered'
  <1>1. /\ stored' = stored \cup found /\ hop' = hop /\ pc' = "walk" /\ pc = "walk"
        /\ frontier' = frontier \ {node} /\ expanded' = expanded \cup {node}
        /\ next' = next \cup queued /\ node \in frontier
    BY DEF Expands
  <1>2. hop \in Nat
    BY DEF IInv, WalkTypeOK
  <1> DEFINE joined == Links(stored)
             more == Links(stored \cup found)
  <1>3. joined \subseteq more /\ \A a \in Discovered(found, node) : <<node, a>> \in more
    BY ExpandedAre, EndsAre
  <1>4. frontier \cup expanded \subseteq Within(hop, joined)
        /\ next \cup NodesOf(stored) \subseteq Within(hop + 1, joined)
    BY <1>1 DEF IInv, Tethered
  <1>5. NodesOf(stored') \subseteq NodesOf(stored) \cup {node} \cup Discovered(found, node)
    BY <1>1, ExpandedAre, EndsAre
  <1>6. Discovered(found, node) \subseteq Address
    BY ExpandedAre, ConstantsAre DEF Discovered, Counterparty
  <1> HIDE DEF joined, more
  <1>7. /\ Within(hop, joined) \subseteq Within(hop, more)
        /\ Within(hop + 1, joined) \subseteq Within(hop + 1, more)
        /\ Within(hop, more) \subseteq Within(hop + 1, more)
    BY <1>2, <1>3, WithinGrows, WithinLater
  <1>8. node \in Within(hop, more)
    BY <1>1, <1>4, <1>7
  <1>9. Discovered(found, node) \subseteq Within(hop + 1, more)
    BY <1>2, <1>3, <1>6, <1>8, WithinStep
  <1>10. /\ frontier' \cup expanded' \subseteq Within(hop, more)
         /\ next' \cup NodesOf(stored') \subseteq Within(hop + 1, more)
    <2>1. frontier' \cup expanded' \subseteq Within(hop, more)
      BY <1>1, <1>4, <1>7, <1>8
    <2>2. queued \subseteq Discovered(found, node)
      BY ExpandedAre
    <2>3. next' \subseteq Within(hop + 1, more)
      BY <1>1, <1>4, <1>7, <1>9, <2>2
    <2>4. NodesOf(stored') \subseteq Within(hop + 1, more)
      BY <1>4, <1>5, <1>7, <1>8, <1>9
    <2> QED
      BY <2>1, <2>3, <2>4
  <1>11. Links(stored)' = more /\ NodesOf(stored)' = NodesOf(stored')
    BY <1>1 DEF Links, NodesOf, more
  <1> QED
    BY <1>1, <1>10, <1>11 DEF Tethered

LEMMA ExpandLayered ==
  ASSUME IInv, NEW node, NEW found, NEW queued, Expands(node, found, queued)
  PROVE  Layered'
  <1>1. /\ stored' = stored \cup found /\ visited' = visited \cup queued
        /\ pc' = "walk" /\ pc = "walk" /\ ~Full /\ node \in frontier
        /\ frontier' = frontier \ {node} /\ expanded' = expanded \cup {node}
        /\ next' = next \cup queued
        /\ UNCHANGED <<request, store, opened, hop>>
        /\ found = SelectedNeighbors(request, store, node)
    BY DEF Expands
  <1> SUFFICES ASSUME Alone' PROVE Layers'
    BY <1>1 DEF Layered
  <1>2. store = opened /\ Layers
    BY <1>1 DEF Alone, IInv, Layered
  <1>3. Discovered(found, node) \subseteq visited'
    <2>1. ~(Cardinality(visited') >= MaxNodes)
      BY DEF Alone, Full
    <2> QED
      BY <2>1, ExpandedAre, ConstantsAre
  <1> DEFINE joined == Leads(request, opened)
  <1>4. queued \subseteq Within(hop + 1, joined)
    <2>1. hop \in Nat /\ node \in Within(hop, joined)
      BY <1>1, <1>2 DEF IInv, WalkTypeOK, Layers
    <2>2. \A a \in queued : a \in Address /\ <<node, a>> \in joined
      BY <1>1, <1>2, ExpandedAre, LeadsAre
    <2> HIDE DEF joined
    <2> QED
      BY <2>1, <2>2, WithinStep
  <1>5. stored' = Collected(request, opened, expanded')
    BY <1>1, <1>2 DEF Layers, Collected
  <1>6. visited' = expanded' \cup frontier' \cup next'
    BY <1>1, <1>2 DEF Layers
  <1>7. expanded' \cup frontier' = Within(hop, joined)
    BY <1>1, <1>2 DEF Layers
  <1>8. next' \subseteq Within(hop + 1, joined)
    BY <1>1, <1>2, <1>4 DEF Layers
  <1>9. \A m \in expanded' : Discovered(SelectedNeighbors(request, opened, m), m) \subseteq visited'
    BY <1>1, <1>2, <1>3 DEF Layers
  <1> QED
    BY <1>1, <1>5, <1>6, <1>7, <1>8, <1>9 DEF Layers

(* traverseStoredGraph's inner loop: one node, read in a transaction of its *)
(* own.                                                                     *)
LEMMA ExpandNodeKeeps == ASSUME IInv, ExpandNode PROVE IInv'
  <1>1. PICK node, found, queued : Expands(node, found, queued)
    BY ExpandNodeIs
  <1>2. WalkTypeOK'
    BY <1>1, ExpandedAre DEF Expands, IInv, WalkTypeOK
  <1>3. Phase'
    BY <1>1 DEF Expands, IInv, Phase
  <1> QED
    BY <1>1, <1>2, <1>3, ExpandBounded, ExpandTethered, ExpandLayered DEF IInv

LEMMA Inductive ==
  ASSUME IInv, [WalkNext]_walkVars PROVE IInv'
  <1>1. CASE UNCHANGED walkVars
    BY <1>1
    DEF walkVars, IInv, WalkTypeOK, Phase, Sized, Bounded, NodesOf, Tethered, Links, Layered, Alone, Full,
        Layers
  <1> QED
    BY <1>1, SavePageKeeps, ExpandNodeKeeps, NextHopKeeps, OverlapKeeps DEF WalkNext

LEMMA BallIs == \A n \in Nat : Ball(n) = Within(n, Links(stored))
  BY DEF Ball, Links

LEMMA WalkFollows == ASSUME IInv PROVE WalkHolds
  <1>1. request.depth \in Nat \ {0} /\ hop \in Nat
    BY DEF IInv, WalkTypeOK
  <1>2. Bounded
    BY DEF IInv, Sized
  <1>3. Connected
    <2>1. pc = "walk" => expanded \subseteq Ball(hop)
      BY <1>1, BallIs DEF IInv, Tethered
    <2>2. pc # "page" => NodesOf(stored) \subseteq Ball(request.depth)
      <3>1. CASE pc = "walk"
        <4>1. hop + 1 <= request.depth
          BY <1>1, <3>1 DEF IInv, Phase
        <4>2. Within(hop + 1, Links(stored)) \subseteq Within(request.depth, Links(stored))
          BY <1>1, <4>1, WithinLater
        <4> QED
          BY <1>1, <3>1, <4>2, BallIs DEF IInv, Tethered
      <3>2. CASE pc = "done"
        BY <1>1, <3>2, BallIs DEF IInv, Tethered
      <3> QED
        BY <3>1, <3>2 DEF IInv, WalkTypeOK
    <2>3. \A f \in stored : {f.from, f.to} \subseteq Ball(request.depth)
      <3>1. pc = "page" => stored = {}
        BY DEF IInv, Phase
      <3>2. \A f \in stored : {f.from, f.to} \subseteq NodesOf(stored)
        BY DEF NodesOf
      <3> QED
        BY <2>2, <3>1, <3>2
    <2> QED
      BY <2>1, <2>3 DEF Connected
  <1>4. WalkExact
    <2>1. \A n \in Nat : Reach(n) = Within(n, Leads(request, opened))
      BY DEF Reach, Leads
    <2> SUFFICES ASSUME pc = "done", Alone
                 PROVE  stored = Collected(request, opened, Reach(request.depth - 1))
      BY DEF WalkExact, Alone, Collected
    <2>2. request.depth - 1 \in Nat
      BY <1>1
    <2> QED
      BY <2>1, <2>2 DEF IInv, Layered
  <1> QED
    BY <1>2, <1>3, <1>4 DEF WalkHolds

(* traverseStoredGraph (graph.go:389), for every graph, seed, request and   *)
(* limits, whatever another process saves between two reads: the answer     *)
(* hangs on the seed within the depth, passes its limits by the transfers   *)
(* of one node at most, and is the definition's when no limit is met and    *)
(* nothing is saved meanwhile.                                              *)
THEOREM WalkIsSound == WalkSpec => []WalkHolds
  <1>1. WalkInit => IInv
    BY InitKeeps
  <1>2. IInv /\ [WalkNext]_walkVars => IInv'
    BY Inductive
  <1>3. IInv => WalkHolds
    BY WalkFollows
  <1> QED
    BY <1>1, <1>2, <1>3, PTL DEF WalkSpec

-----------------------------------------------------------------------------
(* What the engine counts of a counterparty, and the first of a ranking.    *)

Names(T) == {t.address : t \in T}

OneName(T) == \A s, t \in T : s.address = t.address => s = t

MovedAssets(flows, a, c) ==
    {f.asset : f \in {g \in flows : Counterparty(g, a) = c /\ g.amount >= 0}}

Move(m, T) == \A t \in T : m \in t.assets

Ranking(r, T) == {p \in T \X T : RanksBefore(r, p[1], p[2])}

TotalRanking(m, T) == {p \in T \X T : ByTotal(m, p[1], p[2])}

\* What a ranking keeps: FirstOf, for a relation.
Kept(n, R, T) == FirstOf(n, [t \in T |-> Below(R, T, t)])

LEMMA MaxIs ==
  ASSUME NEW S \in SUBSET Int, IsFiniteSet(S), S # {} PROVE Max(S) \in Int
  <1> DEFINE R == {p \in S \X S : p[1] > p[2]}
  <1>1. \A x, y \in S : <<x, y>> \in R <=> x > y
    OBVIOUS
  <1>2. Linear(R, S)
    <2> HIDE DEF R
    <2> QED
      BY <1>1 DEF Linear
  <1> HIDE DEF R
  <1>3. PICK x \in S : \A y \in S : <<y, x>> \notin R
    BY <1>2, FirstExists
  <1>4. \A y \in S : x \in Int /\ y \in Int /\ ~(y > x)
    BY <1>1, <1>3
  <1>5. \A y \in S : x >= y
    BY <1>4
  <1> QED
    BY <1>5 DEF Max

LEMMA SumIsNat ==
  ASSUME NEW flows, IsFiniteSet(flows), \A f \in flows : f.amount \in Int
  PROVE  Sum(flows) \in Nat
  <1> DEFINE units == [f \in flows |-> {f} \X (1..f.amount)]
             parts == {units[f] : f \in flows}
  <1>1. IsFiniteSet(parts)
    <2> HIDE DEF units
    <2> QED
      BY ImageSize
  <1>2. ASSUME NEW f \in flows PROVE IsFiniteSet(units[f])
    <2>1. f.amount \in Int
      OBVIOUS
    <2>2. IsFiniteSet(1..f.amount)
      BY <2>1, FS_Interval
    <2>3. IsFiniteSet({f} \X (1..f.amount))
      BY <2>2, FS_Singleton, FS_Product
    <2> QED
      BY <2>3
  <1>3. IsFiniteSet(UNION parts)
    <2> HIDE DEF units
    <2>1. \A p \in parts : IsFiniteSet(p)
      BY <1>2
    <2> HIDE DEF parts
    <2> QED
      BY <1>1, <2>1, FS_UNION
  <1>4. UNION parts = UNION {{f} \X (1..f.amount) : f \in flows}
    OBVIOUS
  <1> HIDE DEF parts
  <1> QED
    BY <1>3, <1>4, FS_CardinalityType DEF Sum

LEMMA StatsAre ==
  ASSUME NEW r, NEW flows \in SUBSET Flow, NEW a \in Address,
         NEW c \in Counterparties(flows, a), NEW s, s = Stats(r, flows, a, c)
  PROVE  /\ s.address = c /\ c \in Int
         /\ s.count \in Nat /\ s.latest \in Int
         /\ s.known = IsKnown(r, c)
         /\ s.assets = MovedAssets(flows, a, c)
         /\ \A t \in s.assets : s.total[t] \in Nat
  <1> DEFINE own == {f \in flows : Counterparty(f, a) = c}
             times == {f.at : f \in own}
             moved(t) == {f \in own : f.asset = t /\ f.amount >= 0}
  <1>1. own \in SUBSET Flow /\ own # {} /\ IsFiniteSet(own)
    <2>1. own \in SUBSET Flow /\ own # {}
      BY DEF Counterparties
    <2> HIDE DEF own
    <2> QED
      BY <2>1, FS_Subset, TraversalAssumption
  <1>2. c \in Int
    BY TraversalAssumption DEF Counterparties, Counterparty
  <1>3. s = [address |-> c, count |-> Cardinality(own), latest |-> Max(times),
             assets |-> {f.asset : f \in {g \in own : g.amount >= 0}},
             total |-> [t \in {f.asset : f \in own} |-> Sum(moved(t))],
             known |-> IsKnown(r, c)]
    BY DEF Stats
  <1>4. times \in SUBSET Int /\ times # {} /\ IsFiniteSet(times)
    <2> DEFINE at == [f \in own |-> f.at]
    <2>1. times = {at[f] : f \in own}
      OBVIOUS
    <2>2. times \in SUBSET Int /\ times # {}
      BY <1>1, TraversalAssumption
    <2> HIDE DEF own, times, at
    <2> QED
      BY <1>1, <2>1, <2>2, ImageSize
  <1>5. Max(times) \in Int
    <2> HIDE DEF times
    <2> QED
      BY <1>4, MaxIs
  <1>6. \A t : Sum(moved(t)) \in Nat
    <2> SUFFICES ASSUME NEW t PROVE Sum(moved(t)) \in Nat
      OBVIOUS
    <2>1. moved(t) \in SUBSET own
      OBVIOUS
    <2> HIDE DEF own, moved
    <2>2. IsFiniteSet(moved(t)) /\ \A f \in moved(t) : f.amount \in Int
      BY <1>1, <2>1, FS_Subset, TraversalAssumption
    <2> QED
      BY <2>2, SumIsNat
  <1>7. Cardinality(own) \in Nat
    BY <1>1, FS_CardinalityType
  <1>8. s.assets \subseteq {f.asset : f \in own}
    BY <1>3
  <1>9. s.assets = MovedAssets(flows, a, c)
    BY <1>3 DEF MovedAssets
  <1> HIDE DEF own, times, moved
  <1>10. \A t \in s.assets : s.total[t] = Sum(moved(t))
    BY <1>3, <1>8
  <1> QED
    BY <1>2, <1>3, <1>5, <1>6, <1>7, <1>9, <1>10

(* A ranking without ties keeps as many as asked for, or all.               *)
LEMMA FirstOfIs ==
  ASSUME NEW R, NEW T, IsFiniteSet(T), Linear(R, T), NEW n \in Nat, OneName(T),
         NEW F, F = Kept(n, R, T), NEW N, N = Names(T)
  PROVE  /\ F \in SUBSET N
         /\ IsFiniteSet(F) /\ IsFiniteSet(N)
         /\ Cardinality(F) = Min({n, Cardinality(N)})
  <1> DEFINE first == {t \in T : Cardinality(Below(R, T, t)) < n}
  <1>1. F = {t.address : t \in first}
    BY DEF Kept, FirstOf
  <1>2. /\ IsFiniteSet(first) /\ Cardinality(first) \in Nat
        /\ Cardinality(first) <= n
        /\ Cardinality(first) < n => first = T
    BY FirstOnes
  <1>3. first \in SUBSET T
    OBVIOUS
  <1> HIDE DEF first
  <1>4. ASSUME NEW S \in SUBSET T, NEW A, A = {t.address : t \in S}
        PROVE  IsFiniteSet(A) /\ Cardinality(A) = Cardinality(S) /\ Cardinality(A) \in Nat
    <2> DEFINE f == [t \in S |-> t.address]
    <2>1. IsFiniteSet(S)
      BY <1>4, FS_Subset
    <2>2. A = {f[t] : t \in S}
      BY <1>4
    <2>3. f \in Injection(S, A)
      BY <1>4 DEF Injection, IsInjective, OneName
    <2> HIDE DEF f
    <2>4. IsFiniteSet(A) /\ Cardinality(A) <= Cardinality(S)
      BY <2>1, <2>2, ImageSize
    <2>5. Cardinality(S) <= Cardinality(A)
      BY <2>3, <2>4, FS_Injection
    <2> QED
      BY <2>1, <2>4, <2>5, FS_CardinalityType
  <1>5. IsFiniteSet(F) /\ Cardinality(F) = Cardinality(first)
    BY <1>1, <1>3, <1>4
  <1>6. T \in SUBSET T
    OBVIOUS
  <1>7. IsFiniteSet(N) /\ Cardinality(N) = Cardinality(T) /\ Cardinality(T) \in Nat
    BY <1>4, <1>6 DEF Names
  <1>8. Cardinality(first) <= Cardinality(T)
    BY <1>3, FS_Subset
  <1>9. Cardinality(F) = Min({n, Cardinality(T)})
    <2>1. CASE Cardinality(first) < n
      <3>1. \A x \in {n, Cardinality(T)} : Cardinality(T) <= x
        BY <1>2, <2>1
      <3>2. \A x \in {n, Cardinality(T)} :
              (\A y \in {n, Cardinality(T)} : x <= y) => x = Cardinality(T)
        BY <1>2, <1>7, <2>1
      <3> QED
        BY <1>2, <1>5, <2>1, <3>1, <3>2 DEF Min
    <2>2. CASE Cardinality(first) = n
      <3>1. \A x \in {n, Cardinality(T)} : n <= x
        BY <1>7, <1>8, <2>2
      <3>2. \A x \in {n, Cardinality(T)} :
              (\A y \in {n, Cardinality(T)} : x <= y) => x = n
        BY <1>7, <1>8, <2>2
      <3> QED
        BY <1>5, <2>2, <3>1, <3>2 DEF Min
    <2> QED
      BY <1>2, <2>1, <2>2
  <1> QED
    BY <1>1, <1>3, <1>5, <1>7, <1>9 DEF Names

(* Neither the ranking nor an asset's own ever ties.                        *)
LEMMA RanksAre ==
  ASSUME NEW r, NEW flows \in SUBSET Flow, NEW a \in Address,
         NEW T \in SUBSET AllStats(r, flows, a), NEW m
  PROVE  /\ IsFiniteSet(T)
         /\ OneName(T)
         /\ Linear(Ranking(r, T), T)
         /\ (\A t \in T : m \in t.assets) => Linear(TotalRanking(m, T), T)
  <1> DEFINE names == Counterparties(flows, a)
             stat == [c \in names |-> Stats(r, flows, a, c)]
  <1>1. AllStats(r, flows, a) = {stat[c] : c \in names}
    BY DEF AllStats
  <1>2. \A c \in names : stat[c] = Stats(r, flows, a, c)
    OBVIOUS
  <1>3. IsFiniteSet(T)
    <2> DEFINE lead == [f \in flows |-> Counterparty(f, a)]
               ends == {lead[f] : f \in flows}
    <2>1. names \in SUBSET ends
      BY DEF Counterparties
    <2>2. IsFiniteSet(flows)
      BY FS_Subset, TraversalAssumption
    <2>3. IsFiniteSet(ends)
      <3> HIDE DEF lead
      <3> QED
        BY <2>2, ImageSize
    <2> HIDE DEF ends, names
    <2>4. IsFiniteSet(names)
      BY <2>1, <2>3, FS_Subset
    <2> HIDE DEF stat
    <2>5. IsFiniteSet(AllStats(r, flows, a))
      BY <1>1, <2>4, ImageSize
    <2> QED
      BY <2>5, FS_Subset
  <1>4. \A s \in T : \E c \in names : s = Stats(r, flows, a, c)
    BY <1>1, <1>2
  <1> HIDE DEF stat
  <1>5. \A s \in T : /\ s = Stats(r, flows, a, s.address)
                     /\ s.address \in Int /\ s.count \in Nat /\ s.latest \in Int
                     /\ s.known = IsKnown(r, s.address)
                     /\ \A k \in s.assets : s.total[k] \in Nat
    <2> SUFFICES ASSUME NEW s \in T
                 PROVE  /\ s = Stats(r, flows, a, s.address)
                        /\ s.address \in Int /\ s.count \in Nat /\ s.latest \in Int
                        /\ s.known = IsKnown(r, s.address)
                        /\ \A k \in s.assets : s.total[k] \in Nat
      OBVIOUS
    <2>1. PICK c \in Counterparties(flows, a) : s = Stats(r, flows, a, c)
      BY <1>4
    <2>2. /\ s.address = c /\ c \in Int /\ s.count \in Nat /\ s.latest \in Int
          /\ s.known = IsKnown(r, c) /\ \A k \in s.assets : s.total[k] \in Nat
      BY <2>1, StatsAre
    <2> QED
      BY <2>1, <2>2
  <1>6. OneName(T)
    BY <1>5 DEF OneName
  <1>7. Linear(Ranking(r, T), T)
    <2>1. \A s, t \in T : <<s, t>> \in Ranking(r, T) <=> RanksBefore(r, s, t)
      BY DEF Ranking
    <2>2. \A s, t \in T : IsKnown(r, s.address) \in BOOLEAN
      BY DEF IsKnown
    <2>3. \A s \in T : ~RanksBefore(r, s, s)
      BY <1>5 DEF RanksBefore, LaterOrSmaller
    <2>4. \A s, t \in T : s # t => RanksBefore(r, s, t) \/ RanksBefore(r, t, s)
      <3> SUFFICES ASSUME NEW s \in T, NEW t \in T, s # t
                   PROVE  RanksBefore(r, s, t) \/ RanksBefore(r, t, s)
        OBVIOUS
      <3>1. s.address # t.address
        BY <1>6 DEF OneName
      <3>2. LaterOrSmaller(s, t) \/ LaterOrSmaller(t, s)
        BY <1>5, <3>1 DEF LaterOrSmaller
      <3>3. s.count > t.count \/ t.count > s.count \/ s.count = t.count
        BY <1>5
      <3>4. s.known \in BOOLEAN /\ t.known \in BOOLEAN
        BY <1>5, <2>2
      <3>5. s.known # t.known => s.known \/ t.known
        BY <3>4
      <3> QED
        BY <3>2, <3>3, <3>5 DEF RanksBefore
    <2>5. \A s, t, u \in T : RanksBefore(r, s, t) /\ RanksBefore(r, t, u) => RanksBefore(r, s, u)
      <3> SUFFICES ASSUME NEW s \in T, NEW t \in T, NEW u \in T,
                          RanksBefore(r, s, t), RanksBefore(r, t, u)
                   PROVE  RanksBefore(r, s, u)
        OBVIOUS
      <3>1. LaterOrSmaller(s, t) /\ LaterOrSmaller(t, u) => LaterOrSmaller(s, u)
        BY <1>5 DEF LaterOrSmaller
      <3>2. s.count \in Nat /\ t.count \in Nat /\ u.count \in Nat
        BY <1>5
      <3>3. s.known \in BOOLEAN /\ t.known \in BOOLEAN /\ u.known \in BOOLEAN
        BY <1>5, <2>2
      <3>4. CASE r.ranking = "most_active"
        BY <3>1, <3>2, <3>4 DEF RanksBefore
      <3>5. CASE r.ranking = "known_entity"
        BY <3>1, <3>3, <3>5 DEF RanksBefore
      <3>6. CASE r.ranking \notin {"most_active", "known_entity"}
        BY <3>1, <3>6 DEF RanksBefore
      <3> QED
        BY <3>4, <3>5, <3>6
    <2> QED
      BY <2>1, <2>3, <2>4, <2>5 DEF Linear
  <1>8. ASSUME \A t \in T : m \in t.assets
        PROVE  Linear(TotalRanking(m, T), T)
    <2>1. \A s, t \in T : <<s, t>> \in TotalRanking(m, T) <=> ByTotal(m, s, t)
      BY DEF TotalRanking
    <2>2. \A s \in T : s.total[m] \in Nat /\ s.latest \in Int /\ s.address \in Int
      BY <1>5, <1>8
    <2>3. \A s \in T : ~ByTotal(m, s, s)
      BY <2>2 DEF ByTotal, LaterOrSmaller
    <2>4. \A s, t \in T : s # t => ByTotal(m, s, t) \/ ByTotal(m, t, s)
      BY <1>6, <2>2 DEF OneName, ByTotal, LaterOrSmaller
    <2>5. \A s, t, u \in T : ByTotal(m, s, t) /\ ByTotal(m, t, u) => ByTotal(m, s, u)
      BY <2>2 DEF ByTotal, LaterOrSmaller
    <2> QED
      BY <2>1, <2>3, <2>4, <2>5 DEF Linear
  <1> QED
    BY <1>3, <1>6, <1>7, <1>8

(* What the rankings keep of the statistics.                                *)
LEMMA RankingKeeps ==
  ASSUME NEW r, NEW n \in Nat,
         NEW flows \in SUBSET Flow, NEW a \in Address,
         NEW T \in SUBSET AllStats(r, flows, a), NEW N, N = Names(T),
         NEW F, F = Kept(n, Ranking(r, T), T)
  PROVE  Cardinality(F) = Min({n, Cardinality(N)})
  <1>1. IsFiniteSet(T) /\ OneName(T) /\ Linear(Ranking(r, T), T)
    BY RanksAre
  <1> QED
    BY <1>1, FirstOfIs

LEMMA TotalRankingKeeps ==
  ASSUME NEW r, NEW n \in Nat,
         NEW flows \in SUBSET Flow, NEW a \in Address,
         NEW T \in SUBSET AllStats(r, flows, a), NEW N, N = Names(T),
         NEW m, Move(m, T),
         NEW F, F = Kept(n, TotalRanking(m, T), T)
  PROVE  /\ IsFiniteSet(N) /\ F \in SUBSET N
         /\ Cardinality(F) = Min({n, Cardinality(N)})
  <1>1. IsFiniteSet(T) /\ OneName(T) /\ Linear(TotalRanking(m, T), T)
    BY RanksAre DEF Move
  <1> QED
    BY <1>1, FirstOfIs

LEMMA SelectionFollows ==
  ASSUME request.counterparties \in Nat, store \in SUBSET Flow
  PROVE  SelectionExact
  <1> DEFINE kept == FilterTransfers(request, store, Seed)
             stats == AllStats(request, kept, Seed)
             names == Counterparties(kept, Seed)
             chosen == SelectedCounterparties(request, kept, Seed)
             moving(m) == {t \in stats : m \in t.assets}
             first(m) == FirstOf(request.counterparties,
                                 [t \in moving(m) |-> {s \in moving(m) : ByTotal(m, s, t)}])
             paid(m) == {Counterparty(f, Seed) : f \in
                            {g \in kept : g.asset = m /\ g.amount >= 0}} \ {Seed}
  <1>1. kept \in SUBSET Flow /\ Seed \in Address
    BY TraversalAssumption DEF FilterTransfers
  <1> HIDE DEF kept
  <1>2. \A t \in stats : \E c \in names : t = Stats(request, kept, Seed, c)
    BY DEF AllStats
  <1>3. \A c \in names : /\ Stats(request, kept, Seed, c) \in stats
                         /\ Stats(request, kept, Seed, c).address = c
                         /\ Stats(request, kept, Seed, c).assets
                              = MovedAssets(kept, Seed, c)
    BY <1>1, StatsAre DEF AllStats
  <1> HIDE DEF stats
  <1>4. CASE request.ranking # "total_raw_amount"
    <2>1. stats \in SUBSET AllStats(request, kept, Seed)
      BY DEF stats
    <2>2. names = Names(stats)
      BY <1>2, <1>3 DEF Names
    <2>3. chosen = Kept(request.counterparties, Ranking(request, stats), stats)
      <3>1. chosen = FirstOf(request.counterparties,
                             [t \in stats |-> {s \in stats : RanksBefore(request, s, t)}])
        BY <1>4 DEF SelectedCounterparties, stats
      <3>2. [t \in stats |-> {s \in stats : RanksBefore(request, s, t)}]
              = [t \in stats |-> Below(Ranking(request, stats), stats, t)]
        BY DEF Below, Ranking
      <3> QED
        BY <3>1, <3>2 DEF Kept
    <2> HIDE DEF names, chosen
    <2>4. Cardinality(chosen) = Min({request.counterparties, Cardinality(names)})
      BY <1>1, <2>1, <2>2, <2>3, RankingKeeps
    <2> QED
      BY <1>4, <2>4 DEF SelectionExact, names, chosen, kept
  <1>5. CASE request.ranking = "total_raw_amount"
    <2> SUFFICES ASSUME NEW m \in {f.asset : f \in kept}
                 PROVE  Cardinality(chosen \cap paid(m))
                            >= Min({request.counterparties, Cardinality(paid(m))})
      BY <1>5 DEF SelectionExact, kept
    <2>1. chosen = UNION {first(k) : k \in UNION {t.assets : t \in stats}}
      BY <1>5 DEF SelectedCounterparties, stats
    <2>2. paid(m) = Names(moving(m))
      <3>1. ASSUME NEW c \in paid(m)
            PROVE  \E t \in moving(m) : t.address = c
        <4>1. PICK f \in kept : f.asset = m /\ f.amount >= 0 /\ Counterparty(f, Seed) = c
          BY <3>1
        <4>2. c \in names
          BY <3>1, <4>1 DEF Counterparties
        <4> QED
          BY <1>3, <4>1, <4>2 DEF MovedAssets
      <3>2. ASSUME NEW t \in moving(m) PROVE t.address \in paid(m)
        <4>1. PICK c \in names : t = Stats(request, kept, Seed, c)
          BY <1>2, <3>2
        <4>2. t.address = c /\ m \in MovedAssets(kept, Seed, c)
          BY <1>3, <3>2, <4>1
        <4>3. c # Seed
          BY DEF Counterparties
        <4> QED
          BY <4>2, <4>3 DEF MovedAssets
      <3> QED
        BY <3>1, <3>2 DEF Names
    <2> DEFINE T == moving(m)
               N == paid(m)
               F == first(m)
    <2>3. T \in SUBSET AllStats(request, kept, Seed) /\ Move(m, T)
      BY DEF stats, Move
    <2>4. /\ IsFiniteSet(N)
          /\ F \in SUBSET N
          /\ Cardinality(F) = Min({request.counterparties, Cardinality(N)})
      <3>1. F = Kept(request.counterparties, TotalRanking(m, T), T)
        <4> HIDE DEF T
        <4>1. [t \in T |-> {s \in T : ByTotal(m, s, t)}]
                = [t \in T |-> Below(TotalRanking(m, T), T, t)]
          BY DEF Below, TotalRanking
        <4>2. F = FirstOf(request.counterparties, [t \in T |-> {s \in T : ByTotal(m, s, t)}])
          BY DEF T
        <4> QED
          BY <4>1, <4>2 DEF Kept
      <3>2. N = Names(T)
        BY <2>2
      <3> HIDE DEF T, N, F, moving, paid, first
      <3>3. T \in SUBSET AllStats(request, kept, Seed)
        BY <2>3
      <3>4. Move(m, T)
        BY <2>3
      <3>5. PICK n \in Nat : n = request.counterparties
        OBVIOUS
      <3>6. F = Kept(n, TotalRanking(m, T), T)
        BY <3>1, <3>5
      <3>7. /\ IsFiniteSet(N) /\ F \in SUBSET N
            /\ Cardinality(F) = Min({n, Cardinality(N)})
        BY ONLY <1>1, <3>2, <3>3, <3>4, <3>6, n \in Nat, TotalRankingKeeps
      <3> QED
        BY <3>5, <3>7
    <2>5. CASE T = {}
      <3>1. N = {}
        BY <2>2, <2>5 DEF Names
      <3>2. F = {} /\ chosen \cap N = {}
        BY <2>4, <3>1
      <3> HIDE DEF F, N, chosen
      <3>3. Cardinality(chosen \cap N) = Cardinality(F) /\ Cardinality(F) \in Nat
        BY <3>2, FS_EmptySet
      <3> QED
        BY <2>4, <3>3 DEF N
    <2>6. CASE T # {}
      <3>1. m \in UNION {t.assets : t \in stats}
        BY <2>3, <2>6 DEF Move, stats
      <3>2. F \in SUBSET (chosen \cap N)
        BY <2>1, <2>4, <3>1
      <3> HIDE DEF F, N, chosen
      <3>3. IsFiniteSet(chosen \cap N)
        BY <2>4, FS_Subset
      <3>4. /\ Cardinality(F) <= Cardinality(chosen \cap N)
            /\ Cardinality(F) \in Nat /\ Cardinality(chosen \cap N) \in Nat
        BY <3>2, <3>3, FS_Subset, FS_CardinalityType
      <3> QED
        BY <2>4, <3>4 DEF N
    <2> QED
      BY <2>5, <2>6
  <1> QED
    BY <1>4, <1>5

(* selectCounterpartyTransfers (graph.go:247), for every store, request and set of *)
(* labels: no two counterparties tie, so of those asked for as many are     *)
(* kept, for every asset by itself under the total ranking.                 *)
THEOREM SelectionHolds == WalkSpec => []SelectionExact
  <1>1. WalkInit => IInv
    BY InitKeeps
  <1>2. IInv /\ [WalkNext]_walkVars => IInv'
    BY Inductive
  <1>3. IInv => SelectionExact
    <2> SUFFICES ASSUME IInv PROVE SelectionExact
      OBVIOUS
    <2>1. request.counterparties \in Nat /\ store \in SUBSET Flow
      BY TraversalAssumption DEF IInv, WalkTypeOK
    <2> QED
      BY <2>1, SelectionFollows
  <1> QED
    BY <1>1, <1>2, <1>3, PTL DEF WalkSpec

-----------------------------------------------------------------------------
(* The store.                                                              *)

Scope == [transfers : SUBSET Transfer, snapshots : SUBSET Nat]
Transition == [deposit : Deposit, lifecycle : Lifecycle, source : Transfer]

ExportType ==
    [pc : {"idle", "refused", "scopes", "snapshots", "scopeTransfers", "scopeSnapshots",
           "runs", "labels", "transitions", "links", "built"},
     ids : SUBSET Transfer, scopes : SUBSET Nat, scopeTransfers : SUBSET (Nat \X Transfer),
     snapshots : SUBSET Nat, scopeSnapshots : SUBSET (Nat \X Nat),
     runs : SUBSET SUBSET Transfer, labels : BOOLEAN, transitions : SUBSET Transition,
     links : SUBSET ((Deposit \X Lifecycle) \X Nat)]

Typed ==
    /\ rows \in [Transfer -> Observation \cup {"none"}]
    /\ edges \in [Transfer -> Observation \cup {"none"}]
    /\ snapshots \in Seq(Body)
    /\ scopes \in Seq(Scope)
    /\ transitions \subseteq Transition
    /\ links \subseteq (Deposit \X Lifecycle) \X Nat
    /\ runs \subseteq SUBSET Transfer
    /\ trace \in [Trace -> AttemptType]
    /\ export \in ExportType

\* A scope's responses are stored.
ScopesBacked == \A s \in DOMAIN scopes : scopes[s].snapshots \subseteq DOMAIN snapshots

\* What an attempt has found before it saves, and has stored after.
Attempted(a) ==
    /\ a.pc = "save" =>
          /\ a.acquired # << >>
          /\ \A tr \in a.found : tr.source \in a.page /\ tr.source \in LooksLike[tr.deposit]
    /\ a.pc \in {"answer", "runs", "done"} => a.page \subseteq Stored
    /\ a.pc = "done" => Inputs(a) \in runs

\* What an export has read by now.
PastTransitions == {"links", "built"}
PastScopeSnapshots == {"runs", "labels", "transitions"} \cup PastTransitions
PastScopeTransfers == {"scopeSnapshots"} \cup PastScopeSnapshots
PastSnapshots == {"scopeTransfers"} \cup PastScopeTransfers
PastScopes == {"snapshots"} \cup PastSnapshots

ReadScopes(e) ==
    /\ e.scopes \subseteq DOMAIN scopes
    /\ \A x \in e.ids : \E s \in e.scopes :
          x \in scopes[s].transfers /\ scopes[s].snapshots # {}

ReadScopeSnapshots(e) ==
    /\ \A l \in e.scopeSnapshots : l[1] \in e.scopes /\ l[2] \in e.snapshots
    /\ \A s \in e.scopes : \A i \in scopes[s].snapshots : <<s, i>> \in e.scopeSnapshots

Exported(e) ==
    /\ e.pc = "scopes" => e.ids \subseteq Stored
    /\ e.pc \in PastScopes => ReadScopes(e)
    /\ e.pc \in PastSnapshots => e.snapshots = UNION {scopes[s].snapshots : s \in e.scopes}
    /\ e.pc \in PastScopeTransfers =>
          e.scopeTransfers = {l \in e.scopes \X e.ids : l[2] \in scopes[l[1]].transfers}
    /\ e.pc \in PastScopeSnapshots => ReadScopeSnapshots(e)
    /\ e.pc \in PastTransitions => \A tr \in e.transitions : tr.source \in e.ids

RunsStored == \A r \in runs : r \subseteq Stored

EvidenceInv ==
    /\ Typed /\ ScopesBacked /\ Provenance /\ LinksBacked /\ RunsStored
    /\ \A t \in Trace : Attempted(trace[t])
    /\ Exported(export)

-----------------------------------------------------------------------------
(* Sequences that grow at their end.                                        *)
LEMMA Concatenated ==
  ASSUME NEW S, NEW s \in Seq(S), NEW t \in Seq(S)
  PROVE  /\ s \o t \in Seq(S)
         /\ DOMAIN (s \o t) = 1 .. Len(s) + Len(t)
         /\ DOMAIN s = 1 .. Len(s) /\ Len(s) \in Nat /\ Len(t) \in Nat
  OBVIOUS

LEMMA Appended ==
  ASSUME NEW S, NEW s \in Seq(S), NEW e \in S
  PROVE  /\ Append(s, e) \in Seq(S)
         /\ Len(s) \in Nat /\ DOMAIN s = 1 .. Len(s)
         /\ DOMAIN Append(s, e) = 1 .. Len(s) + 1
         /\ \A i \in DOMAIN s : Append(s, e)[i] = s[i]
         /\ Append(s, e)[Len(s) + 1] = e
  OBVIOUS

LEMMA NonEmpty ==
  ASSUME NEW S, NEW s \in Seq(S), s # << >>
  PROVE  Len(s) \in Nat /\ Len(s) >= 1
  OBVIOUS

-----------------------------------------------------------------------------
(* What a step of a trace does to the store at most.                        *)
Grown ==
    /\ Stored \subseteq Stored'
    /\ DOMAIN scopes \subseteq DOMAIN scopes'
    /\ \A s \in DOMAIN scopes : scopes'[s] = scopes[s]
    /\ runs \subseteq runs'

(* What an export has read stays true when the store grows.                 *)
LEMMA ExportStays ==
  ASSUME Exported(export), Grown, export' = export
  PROVE  Exported(export)'
  <1>1. export.pc \in PastScopes =>
           /\ ReadScopes(export)
           /\ \A s \in export.scopes : s \in DOMAIN scopes' /\ scopes'[s] = scopes[s]
    BY DEF Exported, ReadScopes, Grown
  <1>2. export.pc \in PastScopes => ReadScopes(export)'
    BY <1>1 DEF ReadScopes
  <1>3. export.pc \in PastSnapshots =>
          export.snapshots = UNION {scopes'[s].snapshots : s \in export.scopes}
    BY <1>1 DEF Exported, PastScopes
  <1>4. export.pc \in PastScopeTransfers =>
          export.scopeTransfers
              = {l \in export.scopes \X export.ids : l[2] \in scopes'[l[1]].transfers}
    <2> SUFFICES ASSUME export.pc \in PastScopeTransfers
                 PROVE  {l \in export.scopes \X export.ids : l[2] \in scopes[l[1]].transfers}
                      = {l \in export.scopes \X export.ids : l[2] \in scopes'[l[1]].transfers}
      BY DEF Exported
    <2> QED
      BY <1>1 DEF PastScopes, PastSnapshots
  <1>5. export.pc \in PastScopeSnapshots => ReadScopeSnapshots(export)'
    BY <1>1 DEF Exported, ReadScopeSnapshots, PastScopes, PastSnapshots, PastScopeTransfers
  <1>6. export.pc = "scopes" => export.ids \subseteq Stored'
    BY DEF Exported, Grown
  <1> QED
    BY <1>2, <1>3, <1>4, <1>5, <1>6 DEF Exported

(* What an attempt has saved stays saved when the store grows.              *)
LEMMA AttemptStays ==
  ASSUME NEW t \in Trace, Attempted(trace[t]), Grown, trace'[t] = trace[t]
  PROVE  Attempted(trace[t])'
  BY DEF Attempted, Grown, Inputs, Provisional

LEMMA UpdateAttempt ==
  ASSUME NEW a \in AttemptType,
         NEW p \in {"idle", "keep", "save", "answer", "runs", "done", "failed"}
  PROVE  [a EXCEPT !.pc = p] \in AttemptType
  BY DEF AttemptType

LEMMA InitEvidence == Init => EvidenceInv
  <1> SUFFICES ASSUME Init PROVE EvidenceInv
    OBVIOUS
  <1>1. NoAttempt \in AttemptType
    BY StoreAssumption DEF NoAttempt, AttemptType
  <1>2. NoExport \in ExportType
    BY DEF NoExport, ExportType
  <1>3. Typed
    BY <1>1, <1>2 DEF Init, Typed, Scope
  <1>4. ScopesBacked /\ LinksBacked /\ RunsStored
    BY DEF Init, ScopesBacked, LinksBacked, RunsStored
  <1>5. Provenance
    BY DEF Init, Provenance, Stored
  <1>6. \A t \in Trace : Attempted(trace[t])
    BY DEF Init, NoAttempt, Attempted
  <1>7. Exported(export)
    BY DEF Init, NoExport, Exported, PastScopes, PastSnapshots, PastScopeTransfers,
           PastScopeSnapshots, PastTransitions
  <1> QED
    BY <1>3, <1>4, <1>5, <1>6, <1>7 DEF EvidenceInv

(* Steps that leave the store alone.                                        *)
LEMMA StoreStands ==
  ASSUME EvidenceInv, UNCHANGED tables
  PROVE  /\ Grown /\ ScopesBacked' /\ Provenance' /\ LinksBacked' /\ RunsStored'
         /\ trace' \in [Trace -> AttemptType] /\ export' \in ExportType => Typed'
  BY DEF EvidenceInv, tables, Grown, Stored, ScopesBacked, Provenance, LinksBacked, RunsStored, Typed

(* A step of one trace that leaves the store alone.                         *)
LEMMA TraceStep ==
  ASSUME EvidenceInv, NEW t \in Trace, UNCHANGED <<tables, export>>,
         NEW a \in AttemptType, trace' = [trace EXCEPT ![t] = a], Attempted(a)
  PROVE  EvidenceInv'
  <1>1. trace \in [Trace -> AttemptType] /\ export \in ExportType
    BY DEF EvidenceInv, Typed
  <1>2. trace' \in [Trace -> AttemptType] /\ trace'[t] = a
    BY <1>1
  <1>3. Grown /\ ScopesBacked' /\ Provenance' /\ LinksBacked' /\ RunsStored' /\ Typed'
    BY <1>1, <1>2, StoreStands
  <1>4. Exported(export)'
    BY <1>3, ExportStays DEF EvidenceInv
  <1>5. Attempted(trace[t])'
    BY <1>2 DEF Attempted, Stored, tables, Inputs, Provisional
  <1>6. ASSUME NEW u \in Trace, u # t PROVE Attempted(trace[u])'
    BY <1>1, <1>3, <1>6, AttemptStays DEF EvidenceInv
  <1> QED
    BY <1>3, <1>4, <1>5, <1>6 DEF EvidenceInv

(* Acquire and ListingFails: what is found has its source on the page and   *)
(* among the look-alikes of its deposit.                                    *)
LEMMA AcquireStep ==
  ASSUME EvidenceInv, NEW t \in Trace, Acquire(t) \/ ListingFails(t)
  PROVE  EvidenceInv'
  <1>1. CASE Acquire(t)
    <2>1. PICK pg \in SUBSET Transfer, h \in Height, lc \in Lifecycle, b \in Body, c \in Body,
               answered \in BOOLEAN :
             LET found == IF answered THEN Resolved(pg, lc, c) ELSE {}
             IN  trace' = [trace EXCEPT ![t] =
                   [pc |-> "save", page |-> pg, head |-> h, found |-> found,
                    acquired |-> IF found = {} THEN <<b>> ELSE <<b, c>>]]
      BY <1>1 DEF Acquire
    <2> DEFINE found == IF answered THEN Resolved(pg, lc, c) ELSE {}
               acquired == IF found = {} THEN <<b>> ELSE <<b, c>>
               a == [pc |-> "save", page |-> pg, head |-> h, found |-> found,
                     acquired |-> acquired]
    <2>2. \A tr \in found : /\ tr \in [deposit : Deposit, lifecycle : Lifecycle,
                                       source : Transfer, hashes : SUBSET Body]
                            /\ tr.source \in pg /\ tr.source \in LooksLike[tr.deposit]
      <3> SUFFICES ASSUME NEW tr \in Resolved(pg, lc, c)
                   PROVE  /\ tr \in [deposit : Deposit, lifecycle : Lifecycle,
                                     source : Transfer, hashes : SUBSET Body]
                          /\ tr.source \in pg /\ tr.source \in LooksLike[tr.deposit]
        OBVIOUS
      <3>1. PICK d \in Deposit : \E x \in SourceIn(d, pg) :
               tr = [deposit |-> d, lifecycle |-> lc, source |-> x, hashes |-> {c}]
        BY DEF Resolved
      <3>2. PICK x \in SourceIn(d, pg) :
               tr = [deposit |-> d, lifecycle |-> lc, source |-> x, hashes |-> {c}]
        BY <3>1
      <3>3. x \in pg /\ x \in LooksLike[d] /\ x \in Transfer
        BY DEF SourceIn
      <3> QED
        BY <3>2, <3>3
    <2>3. acquired \in Seq(Body) /\ acquired # << >>
      OBVIOUS
    <2>4. a \in AttemptType
      BY <2>2, <2>3 DEF AttemptType
    <2>5. Attempted(a)
      BY <2>2, <2>3 DEF Attempted
    <2>6. trace' = [trace EXCEPT ![t] = a]
      BY <2>1
    <2>7. UNCHANGED <<tables, export>>
      BY <1>1 DEF Acquire
    <2> HIDE DEF a
    <2> QED
      BY <2>4, <2>5, <2>6, <2>7, TraceStep
  <1>2. CASE ListingFails(t)
    <2>1. PICK acquired \in {<< >>} \cup {<<b>> : b \in Body} :
             trace' = [trace EXCEPT ![t] =
                          [NoAttempt EXCEPT !.pc = "keep", !.acquired = acquired]]
      BY <1>2 DEF ListingFails
    <2> DEFINE a == [NoAttempt EXCEPT !.pc = "keep", !.acquired = acquired]
    <2>2. acquired \in Seq(Body)
      <3>1. CASE acquired = << >>
        BY <3>1
      <3>2. CASE acquired # << >>
        <4>1. PICK b \in Body : acquired = <<b>>
          BY <3>2
        <4> QED
          BY <4>1
      <3> QED
        BY <3>1, <3>2
    <2>3. a \in AttemptType
      BY <2>2, StoreAssumption DEF AttemptType, NoAttempt
    <2>4. Attempted(a)
      BY DEF Attempted, NoAttempt
    <2>5. trace' = [trace EXCEPT ![t] = a] /\ UNCHANGED <<tables, export>>
      BY <1>2, <2>1 DEF ListingFails
    <2> HIDE DEF a
    <2> QED
      BY <2>3, <2>4, <2>5, TraceStep
  <1> QED
    BY <1>1, <1>2

(* StepFails and Again give up what was found; Answer keeps the page.       *)
LEMMA QuietStep ==
  ASSUME EvidenceInv, NEW t \in Trace, Answer(t) \/ StepFails(t) \/ Again(t)
  PROVE  EvidenceInv'
  <1>1. trace[t] \in AttemptType /\ Attempted(trace[t]) /\ NoAttempt \in AttemptType
    BY StoreAssumption DEF EvidenceInv, Typed, NoAttempt, AttemptType
  <1>2. CASE Answer(t)
    <2> DEFINE a == [trace[t] EXCEPT !.pc = "runs"]
    <2>1. a \in AttemptType
      BY <1>1, UpdateAttempt
    <2>2. Attempted(a)
      BY <1>1, <1>2 DEF Attempted, Answer, AttemptType
    <2>3. trace' = [trace EXCEPT ![t] = a] /\ UNCHANGED <<tables, export>>
      BY <1>2 DEF Answer
    <2> HIDE DEF a
    <2> QED
      BY <2>1, <2>2, <2>3, TraceStep
  <1>3. CASE StepFails(t)
    <2> DEFINE a == [trace[t] EXCEPT !.pc = "failed"]
    <2>1. a \in AttemptType
      BY <1>1, UpdateAttempt
    <2>2. Attempted(a)
      BY <1>1 DEF Attempted, AttemptType
    <2>3. trace' = [trace EXCEPT ![t] = a] /\ UNCHANGED <<tables, export>>
      BY <1>3 DEF StepFails
    <2> HIDE DEF a
    <2> QED
      BY <2>1, <2>2, <2>3, TraceStep
  <1>4. CASE Again(t)
    <2>1. Attempted(NoAttempt)
      BY DEF Attempted, NoAttempt
    <2>2. trace' = [trace EXCEPT ![t] = NoAttempt] /\ UNCHANGED <<tables, export>>
      BY <1>4 DEF Again
    <2> QED
      BY <1>1, <2>1, <2>2, TraceStep
  <1> QED
    BY <1>2, <1>3, <1>4

(* insertAcquisitionScope: a scope of its own for the responses of a trace. *)
LEMMA ScopeAppended ==
  ASSUME EvidenceInv, NEW pg \in SUBSET Transfer, NEW acquired \in Seq(Body),
         snapshots' = snapshots \o acquired, scopes' = ScopeAdded(pg, acquired)
  PROVE  /\ snapshots' \in Seq(Body) /\ scopes' \in Seq(Scope)
         /\ DOMAIN snapshots \subseteq DOMAIN snapshots'
         /\ DOMAIN scopes \subseteq DOMAIN scopes'
         /\ \A s \in DOMAIN scopes : scopes'[s] = scopes[s]
         /\ ScopesBacked'
         /\ acquired # << >> =>
              /\ NewIds(acquired) # {} /\ NewIds(acquired) \subseteq DOMAIN snapshots'
              /\ \E s \in DOMAIN scopes' :
                    scopes'[s] = [transfers |-> pg, snapshots |-> NewIds(acquired)]
  <1> DEFINE new == [transfers |-> pg, snapshots |-> NewIds(acquired)]
  <1>1. snapshots \in Seq(Body) /\ scopes \in Seq(Scope) /\ ScopesBacked
    BY DEF EvidenceInv, Typed
  <1>2. /\ snapshots' \in Seq(Body)
        /\ DOMAIN snapshots' = 1 .. Len(snapshots) + Len(acquired)
        /\ DOMAIN snapshots = 1 .. Len(snapshots)
        /\ Len(snapshots) \in Nat /\ Len(acquired) \in Nat
    BY <1>1, Concatenated
  <1>3. DOMAIN snapshots \subseteq DOMAIN snapshots'
    BY <1>2
  <1>4. NewIds(acquired) \subseteq DOMAIN snapshots' /\ NewIds(acquired) \in SUBSET Nat
    BY <1>2 DEF NewIds
  <1>5. CASE acquired = << >>
    <2>1. scopes' = scopes
      BY <1>5 DEF ScopeAdded
    <2> QED
      BY <1>1, <1>2, <1>3, <1>5, <2>1 DEF ScopesBacked
  <1>6. CASE acquired # << >>
    <2>1. scopes' = Append(scopes, new) /\ new \in Scope
      BY <1>4, <1>6 DEF ScopeAdded, Scope
    <2>2. /\ scopes' \in Seq(Scope) /\ Len(scopes) \in Nat /\ DOMAIN scopes = 1 .. Len(scopes)
          /\ DOMAIN scopes' = 1 .. Len(scopes) + 1
          /\ \A s \in DOMAIN scopes : scopes'[s] = scopes[s]
          /\ scopes'[Len(scopes) + 1] = new
      BY <1>1, <2>1, Appended
    <2>3. NewIds(acquired) # {}
      <3>1. Len(acquired) >= 1
        BY <1>6, NonEmpty
      <3>2. Len(snapshots) + 1 \in NewIds(acquired)
        BY <1>2, <3>1 DEF NewIds
      <3> QED
        BY <3>2
    <2>4. DOMAIN scopes \subseteq DOMAIN scopes' /\ Len(scopes) + 1 \in DOMAIN scopes'
      BY <2>2
    <2>5. ASSUME NEW s \in DOMAIN scopes'
          PROVE  scopes'[s].snapshots \subseteq DOMAIN snapshots'
      <3>1. CASE s \in DOMAIN scopes
        BY <1>1, <1>3, <2>2, <3>1 DEF ScopesBacked
      <3>2. CASE s = Len(scopes) + 1
        BY <1>4, <2>2, <3>2
      <3> QED
        BY <2>2, <3>1, <3>2
    <2>6. ScopesBacked'
      BY <2>5 DEF ScopesBacked
    <2> HIDE DEF new
    <2>7. \E s \in DOMAIN scopes' : scopes'[s] = new
      BY <2>2, <2>4
    <2> QED
      BY <1>2, <1>3, <1>4, <2>2, <2>3, <2>4, <2>6, <2>7 DEF new
  <1> QED
    BY <1>5, <1>6

(* A step of one trace that grows the store.                                *)
LEMMA GrowingStep ==
  ASSUME EvidenceInv, NEW t \in Trace, Grown, export' = export,
         NEW p \in {"answer", "done", "failed"},
         trace' = [trace EXCEPT ![t].pc = p],
         Attempted(trace[t])',
         /\ rows' \in [Transfer -> Observation \cup {"none"}]
         /\ edges' \in [Transfer -> Observation \cup {"none"}]
         /\ snapshots' \in Seq(Body) /\ scopes' \in Seq(Scope)
         /\ transitions' \subseteq Transition
         /\ links' \subseteq (Deposit \X Lifecycle) \X Nat
         /\ runs' \subseteq SUBSET Transfer,
         ScopesBacked', Provenance', LinksBacked', RunsStored'
  PROVE  EvidenceInv'
  <1>1. trace \in [Trace -> AttemptType] /\ export \in ExportType
    BY DEF EvidenceInv, Typed
  <1>2. [trace[t] EXCEPT !.pc = p] \in AttemptType
    BY <1>1, UpdateAttempt
  <1>3. trace' \in [Trace -> AttemptType]
    BY <1>1, <1>2
  <1>4. Typed'
    BY <1>1, <1>3 DEF Typed
  <1>5. ASSUME NEW u \in Trace, u # t PROVE Attempted(trace[u])'
    BY <1>1, <1>5, AttemptStays DEF EvidenceInv
  <1>6. Exported(export)'
    BY ExportStays DEF EvidenceInv
  <1> QED
    BY <1>4, <1>5, <1>6 DEF EvidenceInv

(* SaveAcquisitions: the rows and edges stand.                              *)
LEMMA SaveAcquisitionsStep ==
  ASSUME EvidenceInv, NEW t \in Trace, SaveAcquisitions(t)
  PROVE  EvidenceInv'
  <1> DEFINE acquired == trace[t].acquired
  <1>1. /\ trace \in [Trace -> AttemptType] /\ acquired \in Seq(Body)
        /\ Provenance /\ LinksBacked /\ RunsStored /\ Typed
    BY DEF EvidenceInv, Typed, AttemptType
  <1>2. /\ snapshots' = snapshots \o acquired /\ scopes' = ScopeAdded({}, acquired)
        /\ trace' = [trace EXCEPT ![t].pc = "failed"]
        /\ UNCHANGED <<rows, edges, transitions, links, runs, export>>
    BY DEF SaveAcquisitions
  <1> HIDE DEF acquired
  <1>3. /\ snapshots' \in Seq(Body) /\ scopes' \in Seq(Scope)
        /\ DOMAIN snapshots \subseteq DOMAIN snapshots'
        /\ DOMAIN scopes \subseteq DOMAIN scopes'
        /\ \A s \in DOMAIN scopes : scopes'[s] = scopes[s]
        /\ ScopesBacked'
    BY <1>1, <1>2, ScopeAppended
  <1>4. Stored' = Stored
    BY <1>2 DEF Stored
  <1>5. Grown
    BY <1>2, <1>3, <1>4 DEF Grown
  <1>6. Provenance'
    BY <1>1, <1>2, <1>3, <1>4 DEF Provenance
  <1>7. LinksBacked'
    BY <1>1, <1>2, <1>3 DEF LinksBacked, IdOf
  <1>8. RunsStored'
    BY <1>1, <1>2, <1>4 DEF RunsStored
  <1>9. Attempted(trace[t])'
    BY <1>1, <1>2 DEF Attempted, AttemptType
  <1> QED
    BY <1>1, <1>2, <1>3, <1>5, <1>6, <1>7, <1>8, <1>9, GrowingStep DEF Typed

(* SaveEvidenceGraph: the page and the scope that holds its responses are   *)
(* stored in one transaction, and the links lead to those responses.        *)
LEMMA SaveEvidenceGraphStep ==
  ASSUME EvidenceInv, NEW t \in Trace, SaveEvidenceGraph(t)
  PROVE  EvidenceInv'
  <1> DEFINE a == trace[t]
  <1>1. /\ trace \in [Trace -> AttemptType] /\ a \in AttemptType /\ Attempted(a)
        /\ Provenance /\ LinksBacked /\ RunsStored /\ Typed
    BY DEF EvidenceInv, Typed
  <1>2. /\ a.acquired \in Seq(Body) /\ a.page \in SUBSET Transfer
        /\ a.found \subseteq [deposit : Deposit, lifecycle : Lifecycle, source : Transfer,
                              hashes : SUBSET Body]
    BY <1>1 DEF AttemptType
  <1>3. /\ a.pc = "save"
        /\ rows' = RowsWith(a.page, a.head) /\ edges' = EdgesWith(a.page, a.head)
        /\ snapshots' = snapshots \o a.acquired
        /\ scopes' = ScopeAdded(a.page, a.acquired)
        /\ transitions' = TransitionsWith(a.found)
        /\ links' = links \cup UNION {{<<IdOf(tr), i>> : i \in
                                LinkedSnapshots(tr, a.acquired)} : tr \in a.found}
        /\ trace' = [trace EXCEPT ![t].pc = "answer"]
        /\ UNCHANGED <<runs, export>>
    BY DEF SaveEvidenceGraph
  <1>4. /\ a.acquired # << >>
        /\ \A tr \in a.found : tr.source \in a.page /\ tr.source \in LooksLike[tr.deposit]
    BY <1>1, <1>3 DEF Attempted
  <1>5. trace'[t].page = a.page /\ trace'[t].pc = "answer"
    BY <1>1, <1>3 DEF AttemptType
  <1> HIDE DEF a
  <1>6. /\ snapshots' \in Seq(Body) /\ scopes' \in Seq(Scope)
        /\ DOMAIN snapshots \subseteq DOMAIN snapshots'
        /\ DOMAIN scopes \subseteq DOMAIN scopes'
        /\ \A s \in DOMAIN scopes : scopes'[s] = scopes[s]
        /\ ScopesBacked'
        /\ NewIds(a.acquired) # {} /\ NewIds(a.acquired) \subseteq DOMAIN snapshots'
        /\ \E s \in DOMAIN scopes' :
              scopes'[s] = [transfers |-> a.page, snapshots |-> NewIds(a.acquired)]
    BY <1>2, <1>3, <1>4, ScopeAppended
  <1>7. PICK fresh \in DOMAIN scopes' :
           scopes'[fresh] = [transfers |-> a.page, snapshots |-> NewIds(a.acquired)]
    BY <1>6
  <1>8. /\ rows' \in [Transfer -> Observation \cup {"none"}]
        /\ edges' \in [Transfer -> Observation \cup {"none"}]
    BY <1>1, <1>3 DEF Typed, RowsWith, EdgesWith, Flag, Observation
  <1>9. /\ Stored' = Stored \cup a.page
        /\ {x \in Transfer : edges'[x] # "none"} = {x \in Transfer : edges[x] # "none"} \cup a.page
    <2>1. \A h : \A x \in Transfer : Flag(x, h) # "none"
      BY DEF Flag
    <2>2. \A x \in Transfer : rows'[x] # "none" <=> rows[x] # "none" \/ x \in a.page
      BY <1>3, <2>1 DEF RowsWith
    <2>3. \A x \in Transfer : edges'[x] # "none" <=> edges[x] # "none" \/ x \in a.page
      BY <1>3, <2>1 DEF EdgesWith
    <2> QED
      BY <1>2, <2>2, <2>3 DEF Stored
  <1>10. Grown
    BY <1>3, <1>6, <1>9 DEF Grown
  <1>11. Provenance'
    <2>1. ASSUME NEW x \in Stored'
          PROVE  \E s \in DOMAIN scopes' : /\ x \in scopes'[s].transfers
                                           /\ scopes'[s].snapshots # {}
                                           /\ scopes'[s].snapshots \subseteq DOMAIN snapshots'
      <3>1. CASE x \in Stored
        <4>1. PICK s \in DOMAIN scopes : /\ x \in scopes[s].transfers
                                         /\ scopes[s].snapshots # {}
                                         /\ scopes[s].snapshots \subseteq DOMAIN snapshots
          BY <1>1, <3>1 DEF Provenance
        <4>2. s \in DOMAIN scopes' /\ scopes'[s] = scopes[s]
          BY <1>6
        <4> QED
          BY <1>6, <4>1, <4>2
      <3>2. CASE x \in a.page
        BY <1>6, <1>7, <3>2
      <3> QED
        BY <1>9, <2>1, <3>1, <3>2
    <2>2. Stored' = {x \in Transfer : edges'[x] # "none"}
      BY <1>1, <1>9 DEF Provenance
    <2> QED
      BY <2>1, <2>2 DEF Provenance
  <1>12. /\ transitions \subseteq transitions' /\ transitions' \subseteq Transition
         /\ \A tr \in a.found : \E new \in transitions' : IdOf(new) = IdOf(tr)
    <2>1. transitions' = transitions \cup {Recorded(tr) : tr \in
             {u \in a.found : \A old \in transitions : IdOf(old) # IdOf(u)}}
      BY <1>3 DEF TransitionsWith
    <2>2. \A tr \in a.found : Recorded(tr) \in Transition /\ IdOf(Recorded(tr)) = IdOf(tr)
      BY <1>2 DEF Recorded, Transition, IdOf
    <2>3. transitions \subseteq Transition
      BY <1>1 DEF Typed
    <2>4. ASSUME NEW tr \in a.found
          PROVE  \E new \in transitions' : IdOf(new) = IdOf(tr)
      <3>1. CASE \E old \in transitions : IdOf(old) = IdOf(tr)
        BY <2>1, <3>1
      <3>2. CASE \A old \in transitions : IdOf(old) # IdOf(tr)
        BY <2>1, <2>2, <2>4, <3>2
      <3> QED
        BY <3>1, <3>2
    <2> QED
      BY <2>1, <2>2, <2>3, <2>4
  <1>13. \A l \in links' : \/ l \in links
                           \/ \E tr \in a.found : \E i \in NewIds(a.acquired) :
                                 l = <<IdOf(tr), i>>
    BY <1>3 DEF LinkedSnapshots
  <1>14. links' \subseteq (Deposit \X Lifecycle) \X Nat
    <2>1. \A tr \in a.found : IdOf(tr) \in Deposit \X Lifecycle
      BY <1>2 DEF IdOf
    <2>2. NewIds(a.acquired) \subseteq Nat
      BY <1>6, <1>2, <1>1, Concatenated DEF NewIds, Typed
    <2>3. links \subseteq (Deposit \X Lifecycle) \X Nat
      BY <1>1 DEF Typed
    <2> QED
      BY <1>13, <2>1, <2>2, <2>3
  <1>15. LinksBacked'
    <2> SUFFICES ASSUME NEW l \in links'
                 PROVE  \E tr \in transitions' :
                           /\ IdOf(tr) = l[1]
                           /\ \E s \in DOMAIN scopes' :
                                 /\ l[2] \in scopes'[s].snapshots
                                 /\ scopes'[s].transfers \cap LooksLike[tr.deposit] # {}
      BY DEF LinksBacked, IdOf
    <2>1. CASE l \in links
      <3>1. PICK tr \in transitions :
               /\ IdOf(tr) = l[1]
               /\ \E s \in DOMAIN scopes :
                     /\ l[2] \in scopes[s].snapshots
                     /\ scopes[s].transfers \cap LooksLike[tr.deposit] # {}
        BY <1>1, <2>1 DEF LinksBacked
      <3>2. PICK s \in DOMAIN scopes :
               /\ l[2] \in scopes[s].snapshots
               /\ scopes[s].transfers \cap LooksLike[tr.deposit] # {}
        BY <3>1
      <3>3. tr \in transitions' /\ s \in DOMAIN scopes' /\ scopes'[s] = scopes[s]
        BY <1>6, <1>12
      <3> QED
        BY <3>1, <3>2, <3>3
    <2>2. CASE \E tr \in a.found : \E i \in NewIds(a.acquired) : l = <<IdOf(tr), i>>
      <3>1. PICK tr \in a.found, i \in NewIds(a.acquired) : l = <<IdOf(tr), i>>
        BY <2>2
      <3>2. PICK new \in transitions' : IdOf(new) = IdOf(tr)
        BY <1>12
      <3>3. new.deposit = tr.deposit
        BY <3>2 DEF IdOf
      <3>4. scopes'[fresh].transfers \cap LooksLike[new.deposit] # {}
        BY <1>4, <1>7, <3>3
      <3>5. l[1] = IdOf(new) /\ l[2] \in scopes'[fresh].snapshots
        BY <1>7, <3>1, <3>2
      <3> QED
        BY <3>4, <3>5
    <2> QED
      BY <1>13, <2>1, <2>2
  <1>16. RunsStored'
    BY <1>1, <1>3, <1>10 DEF RunsStored, Grown
  <1>17. Attempted(trace[t])'
    BY <1>5, <1>9 DEF Attempted
  <1>18. runs' \subseteq SUBSET Transfer
    BY <1>1, <1>3 DEF Typed
  <1> QED
    BY <1>3, <1>6, <1>8, <1>10, <1>11, <1>12, <1>14, <1>15, <1>16, <1>17, <1>18, GrowingStep

(* SaveRuleRuns: the inputs are of a page that is stored.                   *)
LEMMA SaveRuleRunsStep ==
  ASSUME EvidenceInv, NEW t \in Trace, SaveRuleRuns(t)
  PROVE  EvidenceInv'
  <1>1. /\ trace \in [Trace -> AttemptType] /\ trace[t].page \subseteq Stored
        /\ trace[t].page \subseteq Transfer
        /\ Provenance /\ LinksBacked /\ RunsStored /\ Typed /\ ScopesBacked
    BY DEF EvidenceInv, Typed, AttemptType, Attempted, SaveRuleRuns
  <1>2. /\ runs' = runs \cup {Inputs(trace[t])}
        /\ trace' = [trace EXCEPT ![t].pc = "done"]
        /\ UNCHANGED <<rows, edges, snapshots, scopes, transitions, links, export>>
    BY DEF SaveRuleRuns
  <1>3. Inputs(trace[t]) \subseteq trace[t].page
    BY DEF Inputs
  <1>4. Stored' = Stored
    BY <1>2 DEF Stored
  <1>5. Grown
    BY <1>2, <1>4 DEF Grown
  <1>6. Provenance' /\ LinksBacked' /\ ScopesBacked'
    BY <1>1, <1>2, <1>4 DEF Provenance, LinksBacked, ScopesBacked, IdOf
  <1>7. RunsStored'
    BY <1>1, <1>2, <1>3, <1>4 DEF RunsStored
  <1>8. /\ trace'[t].page = trace[t].page /\ trace'[t].head = trace[t].head
        /\ trace'[t].pc = "done"
    BY <1>1, <1>2 DEF AttemptType
  <1>9. Attempted(trace[t])'
    <2>1. Inputs(trace[t])' = Inputs(trace[t])
      BY <1>8 DEF Inputs, Provisional
    <2> QED
      BY <1>1, <1>2, <1>4, <1>8, <2>1 DEF Attempted
  <1>10. runs' \subseteq SUBSET Transfer
    BY <1>1, <1>2, <1>3 DEF Typed
  <1> QED
    BY <1>1, <1>2, <1>5, <1>6, <1>7, <1>9, <1>10, GrowingStep DEF Typed

-----------------------------------------------------------------------------
(* A statement of an export leaves the store and the traces alone.          *)
LEMMA ReadingStep ==
  ASSUME EvidenceInv, UNCHANGED <<tables, trace>>, export' \in ExportType, Exported(export')
  PROVE  EvidenceInv'
  <1>1. /\ Grown /\ ScopesBacked' /\ Provenance' /\ LinksBacked' /\ RunsStored'
        /\ Typed'
    BY StoreStands DEF EvidenceInv, Typed
  <1>2. \A t \in Trace : Attempted(trace[t])'
    BY DEF EvidenceInv, Attempted, Stored, tables, Inputs, Provisional
  <1>3. Exported(export)'
    BY DEF Exported, Stored, tables, ReadScopes, ReadScopeSnapshots
  <1> QED
    BY <1>1, <1>2, <1>3 DEF EvidenceInv

(* exportTransfers and the end of an export.                                *)
LEMMA BoundaryStep ==
  ASSUME EvidenceInv, ExportTransfers \/ ExportEnds
  PROVE  EvidenceInv'
  <1>1. NoExport \in ExportType
    BY DEF NoExport, ExportType
  <1>2. UNCHANGED <<tables, trace>>
    BY DEF ExportTransfers, ExportEnds
  <1>3. CASE ExportTransfers
    <2>1. PICK ids \in SUBSET Transfer :
             export' = [NoExport EXCEPT
                          !.ids = ids,
                          !.pc = IF ids \subseteq Stored THEN "scopes" ELSE "refused"]
      BY <1>3 DEF ExportTransfers
    <2>2. export' \in ExportType
      BY <1>1, <2>1 DEF ExportType
    <2>3. Exported(export')
      BY <2>1 DEF Exported, NoExport, PastScopes, PastSnapshots, PastScopeTransfers,
                  PastScopeSnapshots, PastTransitions
    <2> QED
      BY <1>2, <2>2, <2>3, ReadingStep
  <1>4. CASE ExportEnds
    <2>1. export' = NoExport
      BY <1>4 DEF ExportEnds
    <2>2. Exported(NoExport)
      BY DEF Exported, NoExport, PastScopes, PastSnapshots, PastScopeTransfers,
             PastScopeSnapshots, PastTransitions
    <2> QED
      BY <1>1, <1>2, <2>1, <2>2, ReadingStep
  <1> QED
    BY <1>3, <1>4

(* The scopes of stored transfers: each has a scope with responses.         *)
LEMMA ExportScopesStep ==
  ASSUME EvidenceInv, ExportScopes
  PROVE  EvidenceInv'
  <1> DEFINE e == [export EXCEPT !.scopes = ScopesOf(export.ids), !.pc = "snapshots"]
  <1>1. /\ export \in ExportType /\ export.pc = "scopes" /\ export.ids \subseteq Stored
        /\ Provenance /\ export' = e /\ UNCHANGED <<tables, trace>>
        /\ scopes \in Seq(Scope)
    BY DEF EvidenceInv, Typed, Exported, ExportScopes, Reads, ExportType
  <1>2. DOMAIN scopes \subseteq Nat
    BY <1>1
  <1>3. /\ e \in ExportType /\ e.pc = "snapshots" /\ e.ids = export.ids
        /\ e.scopes = ScopesOf(export.ids)
    BY <1>1, <1>2 DEF ExportType, ScopesOf
  <1>4. ReadScopes(e)
    <2>1. e.scopes \subseteq DOMAIN scopes
      BY <1>3 DEF ScopesOf
    <2>2. ASSUME NEW x \in e.ids
          PROVE  \E s \in e.scopes : x \in scopes[s].transfers /\ scopes[s].snapshots # {}
      <3>1. PICK s \in DOMAIN scopes : x \in scopes[s].transfers /\ scopes[s].snapshots # {}
        BY <1>1, <1>3, <2>2 DEF Provenance
      <3>2. s \in e.scopes
        BY <1>3, <2>2, <3>1 DEF ScopesOf
      <3> QED
        BY <3>1, <3>2
    <2> QED
      BY <2>1, <2>2 DEF ReadScopes
  <1> HIDE DEF e
  <1>5. Exported(e)
    BY <1>3, <1>4 DEF Exported, PastSnapshots, PastScopeTransfers,
           PastScopeSnapshots, PastTransitions
  <1> QED
    BY <1>1, <1>3, <1>5, ReadingStep

(* The responses of those scopes.                                           *)
LEMMA ExportSnapshotsStep ==
  ASSUME EvidenceInv, ExportSnapshots
  PROVE  EvidenceInv'
  <1> DEFINE read == UNION {scopes[s].snapshots : s \in export.scopes}
             e == [export EXCEPT !.snapshots = read, !.pc = "scopeTransfers"]
  <1>1. /\ export \in ExportType /\ ReadScopes(export)
        /\ export' = e /\ UNCHANGED <<tables, trace>> /\ scopes \in Seq(Scope)
    BY DEF EvidenceInv, Typed, Exported, ExportSnapshots, Reads, ExportType, PastScopes
  <1>2. ASSUME NEW s \in DOMAIN scopes
        PROVE  scopes[s].snapshots \subseteq Nat
    <2>1. scopes[s] \in Scope
      BY <1>1
    <2> QED
      BY <2>1 DEF Scope
  <1>3. read \subseteq Nat
    BY <1>1, <1>2 DEF ReadScopes
  <1>4. /\ e \in ExportType /\ e.pc = "scopeTransfers" /\ e.ids = export.ids
        /\ e.scopes = export.scopes /\ e.snapshots = read
    BY <1>1, <1>3 DEF ExportType
  <1> HIDE DEF e
  <1>5. ReadScopes(e)
    BY <1>1, <1>4 DEF ReadScopes
  <1>6. Exported(e)
    BY <1>4, <1>5 DEF Exported, PastScopeTransfers, PastScopeSnapshots, PastTransitions
  <1> QED
    BY <1>1, <1>4, <1>6, ReadingStep

(* The links of those scopes to the selected transfers.                     *)
LEMMA ExportScopeTransfersStep ==
  ASSUME EvidenceInv, ExportScopeTransfers
  PROVE  EvidenceInv'
  <1> DEFINE read == {l \in export.scopes \X export.ids : l[2] \in scopes[l[1]].transfers}
             e == [export EXCEPT !.scopeTransfers = read, !.pc = "scopeSnapshots"]
  <1>1. /\ export \in ExportType /\ ReadScopes(export)
        /\ export.snapshots = UNION {scopes[s].snapshots : s \in export.scopes}
        /\ export' = e /\ UNCHANGED <<tables, trace>>
    BY DEF EvidenceInv, Typed, Exported, ExportScopeTransfers, Reads, ExportType, PastScopes,
           PastSnapshots
  <1>2. read \subseteq Nat \X Transfer
    BY <1>1 DEF ExportType
  <1>3. /\ e \in ExportType /\ e.pc = "scopeSnapshots" /\ e.ids = export.ids
        /\ e.scopes = export.scopes /\ e.snapshots = export.snapshots
        /\ e.scopeTransfers = read
    BY <1>1, <1>2 DEF ExportType
  <1> HIDE DEF e
  <1>4. ReadScopes(e)
    BY <1>1, <1>3 DEF ReadScopes
  <1>5. Exported(e)
    BY <1>1, <1>3, <1>4 DEF Exported, PastScopeSnapshots, PastTransitions
  <1> QED
    BY <1>1, <1>3, <1>5, ReadingStep

(* The links of those scopes to their responses: none is new, for a scope   *)
(* is written once.                                                         *)
LEMMA ExportScopeSnapshotsStep ==
  ASSUME EvidenceInv, ExportScopeSnapshots
  PROVE  EvidenceInv'
  <1> DEFINE read == {l \in export.scopes \X DOMAIN snapshots :
                         l[2] \in scopes[l[1]].snapshots}
             e == [export EXCEPT !.scopeSnapshots = read, !.pc = "runs"]
  <1>1. /\ export \in ExportType /\ ReadScopes(export) /\ ScopesBacked
        /\ export.snapshots = UNION {scopes[s].snapshots : s \in export.scopes}
        /\ export.scopeTransfers
              = {l \in export.scopes \X export.ids : l[2] \in scopes[l[1]].transfers}
        /\ export' = e /\ UNCHANGED <<tables, trace>> /\ snapshots \in Seq(Body)
    BY DEF EvidenceInv, Typed, Exported, ExportScopeSnapshots, Reads, ExportType, PastScopes,
           PastSnapshots, PastScopeTransfers
  <1>2. read \subseteq Nat \X Nat
    BY <1>1 DEF ExportType
  <1>3. /\ e \in ExportType /\ e.pc = "runs" /\ e.ids = export.ids
        /\ e.scopes = export.scopes /\ e.snapshots = export.snapshots
        /\ e.scopeTransfers = export.scopeTransfers /\ e.scopeSnapshots = read
    BY <1>1, <1>2 DEF ExportType
  <1>4. /\ \A l \in read : l[1] \in export.scopes /\ l[2] \in export.snapshots
        /\ \A s \in export.scopes : \A i \in scopes[s].snapshots : <<s, i>> \in read
    <2>1. \A l \in read : l[1] \in export.scopes /\ l[2] \in export.snapshots
      BY <1>1
    <2>2. ASSUME NEW s \in export.scopes, NEW i \in scopes[s].snapshots
          PROVE  <<s, i>> \in read
      <3>1. s \in DOMAIN scopes
        BY <1>1 DEF ReadScopes
      <3>2. i \in DOMAIN snapshots
        BY <1>1, <3>1 DEF ScopesBacked
      <3> QED
        BY <3>2
    <2> QED
      BY <2>1, <2>2
  <1> HIDE DEF e, read
  <1>5. ReadScopes(e) /\ ReadScopeSnapshots(e)
    BY <1>1, <1>3, <1>4 DEF ReadScopes, ReadScopeSnapshots
  <1>6. Exported(e)
    BY <1>1, <1>3, <1>5 DEF Exported, PastTransitions
  <1> QED
    BY <1>1, <1>3, <1>6, ReadingStep

(* The statements after that touch what was read of the scopes no more.     *)
LEMMA LaterExportStep ==
  ASSUME EvidenceInv, ExportRuleRuns \/ ExportLabels \/ ExportTransitions \/ ExportLinks
  PROVE  EvidenceInv'
  <1>1. /\ export \in ExportType /\ Exported(export) /\ UNCHANGED <<tables, trace>>
        /\ runs \subseteq SUBSET Transfer /\ transitions \subseteq Transition
        /\ links \subseteq (Deposit \X Lifecycle) \X Nat
    BY DEF EvidenceInv, Typed, ExportRuleRuns, ExportLabels, ExportTransitions, ExportLinks, Reads
  <1> USE DEF PastScopes, PastSnapshots, PastScopeTransfers, PastScopeSnapshots,
              PastTransitions
  <1>2. CASE ExportRuleRuns
    <2>1. /\ export.pc = "runs"
          /\ export' = [[export EXCEPT !.runs = {r \in runs : r \cap export.ids # {}}]
                          EXCEPT !.pc = "labels"]
      BY <1>2 DEF ExportRuleRuns, Reads
    <2>2. export' \in ExportType
      BY <1>1, <2>1 DEF ExportType
    <2>3. Exported(export')
      BY <1>1, <2>1 DEF Exported, ExportType, ReadScopes, ReadScopeSnapshots
    <2> QED
      BY <1>1, <2>2, <2>3, ReadingStep
  <1>3. CASE ExportLabels
    <2>1. PICK some \in BOOLEAN :
             /\ export.pc = "labels"
             /\ export' = [[export EXCEPT !.labels = some] EXCEPT !.pc = "transitions"]
      BY <1>3 DEF ExportLabels, Reads
    <2>2. export' \in ExportType
      BY <1>1, <2>1 DEF ExportType
    <2>3. Exported(export')
      BY <1>1, <2>1 DEF Exported, ExportType, ReadScopes, ReadScopeSnapshots
    <2> QED
      BY <1>1, <2>2, <2>3, ReadingStep
  <1>4. CASE ExportTransitions
    <2>1. /\ export.pc = "transitions"
          /\ export' = [[export EXCEPT !.transitions =
                            {tr \in transitions : tr.source \in export.ids}]
                          EXCEPT !.pc = "links"]
      BY <1>4 DEF ExportTransitions, Reads
    <2>2. export' \in ExportType
      BY <1>1, <2>1 DEF ExportType
    <2>3. Exported(export')
      BY <1>1, <2>1 DEF Exported, ExportType, ReadScopes, ReadScopeSnapshots
    <2> QED
      BY <1>1, <2>2, <2>3, ReadingStep
  <1>5. CASE ExportLinks
    <2>1. /\ export.pc = "links"
          /\ export' = [[export EXCEPT !.links =
                            {l \in links : \E tr \in export.transitions : l[1] = IdOf(tr)}]
                          EXCEPT !.pc = "built"]
      BY <1>5 DEF ExportLinks, Reads
    <2>2. export' \in ExportType
      BY <1>1, <2>1 DEF ExportType
    <2>3. Exported(export')
      BY <1>1, <2>1 DEF Exported, ExportType, ReadScopes, ReadScopeSnapshots
    <2> QED
      BY <1>1, <2>2, <2>3, ReadingStep
  <1> QED
    BY <1>2, <1>3, <1>4, <1>5

-----------------------------------------------------------------------------
LEMMA StepEvidence == EvidenceInv /\ [Next]_vars => EvidenceInv'
  <1> SUFFICES ASSUME EvidenceInv, [Next]_vars PROVE EvidenceInv'
    OBVIOUS
  <1>1. CASE UNCHANGED vars
    <2>1. UNCHANGED <<tables, trace>> /\ UNCHANGED export
      BY <1>1 DEF vars, tables
    <2> QED
      BY <2>1, ReadingStep DEF EvidenceInv, Typed
  <1>2. CASE \E t \in Trace : \/ Acquire(t) \/ ListingFails(t) \/ SaveAcquisitions(t)
                              \/ SaveEvidenceGraph(t) \/ Answer(t) \/ SaveRuleRuns(t)
                              \/ StepFails(t) \/ Again(t)
    BY <1>2, AcquireStep, SaveAcquisitionsStep, SaveEvidenceGraphStep, QuietStep,
       SaveRuleRunsStep
  <1>3. CASE ExportTransfers \/ ExportEnds
    BY <1>3, BoundaryStep
  <1>4. CASE \/ ExportScopes \/ ExportSnapshots \/ ExportScopeTransfers
             \/ ExportScopeSnapshots
    BY <1>4, ExportScopesStep, ExportSnapshotsStep, ExportScopeTransfersStep,
       ExportScopeSnapshotsStep
  <1>5. CASE ExportRuleRuns \/ ExportLabels \/ ExportTransitions \/ ExportLinks
    BY <1>5, LaterExportStep
  <1> QED
    BY <1>1, <1>2, <1>3, <1>4, <1>5 DEF Next

(* The invariant the theorems below follow from.                            *)
LEMMA EvidenceInvHolds == Spec => []EvidenceInv
  <1> QED
    BY InitEvidence, StepEvidence, PTL DEF Spec

(* A built package: what was read of the scopes links within it.            *)
LEMMA ExportedIsClosed == EvidenceInv => PackageClosed
  <1> SUFFICES ASSUME EvidenceInv, export.pc = "built" PROVE
        /\ ScopeLinksAccepted(export)
        /\ \A x \in export.ids : \E s \in export.scopes :
              <<s, x>> \in export.scopeTransfers /\ \E i \in export.snapshots :
                  <<s, i>> \in export.scopeSnapshots
    BY DEF PackageClosed
  <1>1. /\ ReadScopes(export) /\ ReadScopeSnapshots(export)
        /\ export.scopeTransfers
              = {l \in export.scopes \X export.ids : l[2] \in scopes[l[1]].transfers}
        /\ \A tr \in export.transitions : tr.source \in export.ids
    BY DEF EvidenceInv, Exported, PastScopes, PastSnapshots, PastScopeTransfers,
           PastScopeSnapshots, PastTransitions
  <1>2. ScopeLinksAccepted(export)
    BY <1>1 DEF ScopeLinksAccepted, ReadScopeSnapshots
  <1>3. ASSUME NEW x \in export.ids
        PROVE  \E s \in export.scopes :
                  <<s, x>> \in export.scopeTransfers /\ \E i \in export.snapshots :
                      <<s, i>> \in export.scopeSnapshots
    <2>1. PICK s \in export.scopes : x \in scopes[s].transfers /\ scopes[s].snapshots # {}
      BY <1>1, <1>3 DEF ReadScopes
    <2>2. PICK i \in scopes[s].snapshots : TRUE
      BY <2>1
    <2>3. <<s, i>> \in export.scopeSnapshots
      BY <1>1, <2>2 DEF ReadScopeSnapshots
    <2>4. i \in export.snapshots
      BY <1>1, <2>3 DEF ReadScopeSnapshots
    <2>5. <<s, x>> \in export.scopeTransfers
      BY <1>1, <1>3, <2>1
    <2> QED
      BY <2>3, <2>4, <2>5
  <1> QED
    BY <1>2, <1>3

(* SaveEvidenceGraph (db/transfers.go:71): however attempts fail and        *)
(* overlap, a stored transfer has a scope with stored responses, an edge    *)
(* stands for a stored transfer, and a bridge link leads to a response of a *)
(* trace its own source was in.                                             *)
THEOREM EvidenceHolds == Spec => []EvidenceBacked
  <1>1. EvidenceInv => EvidenceBacked
    BY DEF EvidenceInv, EvidenceBacked
  <1> QED
    BY <1>1, EvidenceInvHolds, PTL

(* SaveRuleRuns (graph.go:155): saved in a transaction of its own, a rule   *)
(* run still names stored transfers only, and an answered trace has its     *)
(* run.                                                                     *)
THEOREM RunsHold == Spec => []RunsReplayable
  <1>1. EvidenceInv => RunsReplayable
    BY DEF EvidenceInv, RunsReplayable, RunsStored, Attempted
  <1> QED
    BY <1>1, EvidenceInvHolds, PTL

(* ExportEvidence (db/evidence.go:57): read in statements of their own      *)
(* while traces commit, the scopes, responses and transfers of a package    *)
(* link within it, and every selected transfer has a response.              *)
THEOREM PackageHolds == Spec => []PackageClosed
  BY ExportedIsClosed, EvidenceInvHolds, PTL

-----------------------------------------------------------------------------
(* The parts side by side.                                                 *)

Counted == attempts \in [Trace -> 0 .. MaxAttempts] /\ exports \in 0 .. MaxExports

LEMMA CountedStep ==
  ASSUME Counted, [Next]_vars
  PROVE  Counted'
  <1>1. ASSUME NEW t \in Trace, Acquire(t) \/ ListingFails(t) PROVE Counted'
    <2>1. /\ attempts' = [attempts EXCEPT ![t] = @ + 1] /\ attempts[t] < MaxAttempts
          /\ exports' = exports
      BY <1>1 DEF Acquire, ListingFails
    <2>2. attempts[t] + 1 \in 0 .. MaxAttempts
      BY <2>1, StoreAssumption DEF Counted
    <2> QED
      BY <2>1, <2>2 DEF Counted
  <1>2. CASE ExportTransfers
    <2>1. exports' = exports + 1 /\ exports < MaxExports /\ attempts' = attempts
      BY <1>2 DEF ExportTransfers
    <2> QED
      BY <2>1, StoreAssumption DEF Counted
  <1>3. CASE UNCHANGED <<attempts, exports>>
    BY <1>3 DEF Counted
  <1>4. CASE UNCHANGED vars
    BY <1>3, <1>4 DEF vars
  <1>5. ASSUME NEW t \in Trace, \/ SaveAcquisitions(t) \/ SaveEvidenceGraph(t) \/ Answer(t)
                                \/ SaveRuleRuns(t) \/ StepFails(t) \/ Again(t)
        PROVE  Counted'
    BY <1>3, <1>5 DEF SaveAcquisitions, SaveEvidenceGraph, Answer, SaveRuleRuns, StepFails, Again
  <1>6. CASE \/ ExportScopes \/ ExportSnapshots \/ ExportScopeTransfers
             \/ ExportScopeSnapshots \/ ExportRuleRuns \/ ExportLabels \/ ExportTransitions
             \/ ExportLinks \/ ExportEnds
    BY <1>3, <1>6 DEF ExportScopes, ExportSnapshots, ExportScopeTransfers, Reads,
       ExportScopeSnapshots, ExportRuleRuns, ExportLabels, ExportTransitions, ExportLinks, ExportEnds
  <1> QED
    BY <1>1, <1>2, <1>4, <1>5, <1>6 DEF Next

\* A page's transfers have the ids of their places, or are repeated.
Numbered ==
    /\ \A i \in DOMAIN observed : observed[i].id \in 1 .. Len(observed)
    /\ \A i, j \in DOMAIN observed : observed[i].id = observed[j].id => observed[i] = observed[j]

Entered(bodies) == UNION {{[b EXCEPT !.id = n] : b \in bodies} : n \in 1 .. MaxTransfers}

RulesInv ==
    /\ subject \in {"fans", "chains", "walk", "store"}
    /\ observed \in Seq(Entered(Bodies)) /\ Len(observed) <= MaxTransfers
    /\ Numbered

LEMMA PageGrows ==
  ASSUME NEW T, NEW s \in Seq(T), NEW e \in T
  PROVE  /\ Append(s, e) \in Seq(T)
         /\ Len(s) \in Nat /\ DOMAIN s = 1 .. Len(s)
         /\ Len(Append(s, e)) = Len(s) + 1
         /\ DOMAIN Append(s, e) = 1 .. Len(s) + 1
         /\ \A i \in DOMAIN s : Append(s, e)[i] = s[i]
         /\ Append(s, e)[Len(s) + 1] = e
  OBVIOUS

(* A transfer enters under a new id, or once more as it is.                 *)
LEMMA EnteredPage ==
  ASSUME RulesInv, Len(observed) < MaxTransfers, UNCHANGED subject, NEW e \in Entered(Bodies),
         observed' = Append(observed, e),
         e.id = Len(observed) + 1 \/ \E i \in DOMAIN observed : e = observed[i]
  PROVE  RulesInv'
  <1> DEFINE n == Len(observed)
  <1>1. /\ observed' \in Seq(Entered(Bodies)) /\ n \in Nat /\ DOMAIN observed = 1 .. n
        /\ Len(observed') = n + 1 /\ DOMAIN observed' = 1 .. n + 1
        /\ \A i \in DOMAIN observed : observed'[i] = observed[i]
        /\ observed'[n + 1] = e
    BY PageGrows DEF RulesInv
  <1>2. Len(observed') <= MaxTransfers
    BY <1>1, RulesAssumption
  <1>3. \A i \in DOMAIN observed : observed[i].id \in 1 .. n
    BY DEF RulesInv, Numbered
  <1>4. \A i \in DOMAIN observed' : i = n + 1 \/ i \in DOMAIN observed
    BY <1>1
  <1>5. e.id \in 1 .. n + 1 /\ \A i \in DOMAIN observed : observed[i].id = e.id => observed[i] = e
    <2>1. CASE e.id = n + 1
      BY <1>1, <1>3, <2>1
    <2>2. CASE \E i \in DOMAIN observed : e = observed[i]
      BY <1>1, <1>3, <2>2 DEF RulesInv, Numbered
    <2> QED
      BY <2>1, <2>2
  <1>6. Numbered'
    <2>1. ASSUME NEW i \in DOMAIN observed' PROVE observed'[i].id \in 1 .. n + 1
      BY <1>1, <1>3, <1>4, <1>5
    <2>2. ASSUME NEW i \in DOMAIN observed', NEW j \in DOMAIN observed',
                 observed'[i].id = observed'[j].id
          PROVE  observed'[i] = observed'[j]
      <3>1. CASE i \in DOMAIN observed /\ j \in DOMAIN observed
        BY <1>1, <2>2, <3>1 DEF RulesInv, Numbered
      <3>2. CASE i = n + 1 \/ j = n + 1
        BY <1>1, <1>4, <1>5, <2>2, <3>2
      <3> QED
        BY <1>4, <3>1, <3>2
    <2> QED
      BY <1>1, <2>1, <2>2 DEF Numbered
  <1>7. Bodies' = Bodies
    BY DEF Bodies
  <1> QED
    BY <1>1, <1>2, <1>6, <1>7 DEF RulesInv, Entered

LEMMA RulesStep ==
  ASSUME RulesInv, RulesNext(Bodies), UNCHANGED subject
  PROVE  RulesInv'
  <1> DEFINE n == Len(observed)
  <1>0. n \in Nat
    BY LenProperties DEF RulesInv
  <1>1. ASSUME NEW b \in Bodies, Observe(b) PROVE RulesInv'
    <2> DEFINE e == [b EXCEPT !.id = n + 1]
    <2>1. n < MaxTransfers /\ observed' = Append(observed, e)
      BY <1>1 DEF Observe
    <2>2. n + 1 \in 1 .. MaxTransfers
      BY <1>0, <2>1, RulesAssumption
    <2>3. e \in Entered(Bodies)
      BY <2>2 DEF Entered
    <2>4. Observable(b)
      BY BodiesAssumption DEF Bodies
    <2>5. e.id = n + 1
      BY <2>4 DEF Observable
    <2> QED
      BY <2>1, <2>3, <2>5, EnteredPage
  <1>2. CASE Repeat
    <2>1. PICK i \in DOMAIN observed : observed' = Append(observed, observed[i])
      BY <1>2 DEF Repeat
    <2>2. n < MaxTransfers /\ observed[i] \in Entered(Bodies)
      BY <1>2, ElementOfSeq, LenProperties DEF Repeat, RulesInv
    <2> QED
      BY <2>1, <2>2, EnteredPage
  <1> QED
    BY <1>1, <1>2 DEF RulesNext

LEMMA ResolveInvHolds == ResolveSpec => [](EvidenceInv /\ Counted /\ IInv /\ RulesInv)
  <1>1. ResolveInit => EvidenceInv /\ Counted /\ IInv /\ RulesInv
    <2> SUFFICES ASSUME ResolveInit PROVE EvidenceInv /\ Counted /\ IInv /\ RulesInv
      OBVIOUS
    <2>1. EvidenceInv
      BY InitEvidence DEF ResolveInit
    <2>2. Counted
      BY StoreAssumption DEF ResolveInit, Init, Counted
    <2>3. IInv
      BY InitKeeps DEF ResolveInit
    <2>4. RulesInv
      BY RulesAssumption DEF ResolveInit, RulesInit, RulesInv, Numbered
    <2> QED
      BY <2>1, <2>2, <2>3, <2>4
  <1>2. EvidenceInv /\ Counted /\ IInv /\ RulesInv /\ [ResolveNext]_resolveVars
            => (EvidenceInv /\ Counted /\ IInv /\ RulesInv)'
    <2> SUFFICES ASSUME EvidenceInv, Counted, IInv, RulesInv, [ResolveNext]_resolveVars
                 PROVE  (EvidenceInv /\ Counted /\ IInv /\ RulesInv)'
      OBVIOUS
    <2>1. [Next]_vars /\ [WalkNext]_walkVars
      BY DEF ResolveNext, resolveVars, Evaluating, Walking, Storing
    <2>2. EvidenceInv' /\ Counted' /\ IInv'
      BY <2>1, StepEvidence, CountedStep, Inductive
    <2>3. RulesInv'
      <3>1. CASE Evaluating /\ UNCHANGED subject
        BY <3>1, RulesStep DEF Evaluating
      <3>2. CASE UNCHANGED <<observed, subject>>
        BY <3>2 DEF RulesInv, Numbered, Bodies
      <3> QED
        BY <3>1, <3>2 DEF ResolveNext, resolveVars, Walking, Storing
    <2> QED
      BY <2>2, <2>3
  <1> QED
    BY <1>1, <1>2, PTL DEF ResolveSpec

(* The store and the walk side by side are each what they are alone: what    *)
(* the theorems say of Spec and of WalkSpec is so of ResolveGraph.           *)
THEOREM PartsAreThemselves == ResolveSpec => Spec /\ WalkSpec
  <1>1. ResolveInit => Init /\ WalkInit
    BY DEF ResolveInit
  <1>2. [ResolveNext]_resolveVars => [Next]_vars /\ [WalkNext]_walkVars
    BY DEF ResolveNext, resolveVars, Evaluating, Walking, Storing
  <1> QED
    BY <1>1, <1>2, PTL DEF ResolveSpec, Spec, WalkSpec

(* ResolveGraph's page, walk and store keep their types, for any transfers,  *)
(* graph, request and limits.                                                *)
THEOREM PartsAreTyped == ResolveSpec => []PartsTyped
  <1>1. EvidenceInv /\ Counted /\ IInv /\ RulesInv => PartsTyped
    <2> SUFFICES ASSUME EvidenceInv, Counted, IInv, RulesInv PROVE PartsTyped
      OBVIOUS
    <2>1. TypeOK
      BY DEF EvidenceInv, Typed, Counted, TypeOK, Scope, Transition
    <2>2. WalkTypeOK
      BY DEF IInv
    <2>3. RulesTypeOK(Bodies)
      BY DEF RulesInv, RulesTypeOK, Entered
    <2> QED
      BY <2>1, <2>2, <2>3 DEF PartsTyped
  <1> QED
    BY <1>1, ResolveInvHolds, PTL

-----------------------------------------------------------------------------
(* The rules.  A place is read only through the transfer there, so that what *)
(* a loop finds first is the first of the transfers that fit, wherever they  *)
(* are on the page.                                                          *)

\* What the rules need of a page, a reordered one among them.
Paged(ts) ==
    /\ IsFiniteSet(DOMAIN ts)
    /\ \A i \in DOMAIN ts : ts[i].at \in Int /\ ts[i].id \in Int /\ ts[i].amount \in Int
    /\ \A i, j \in DOMAIN ts : ts[i].id = ts[j].id => ts[i] = ts[j]

Values(ts, places) == {ts[i] : i \in places}

LEMMA ValuesFinite ==
  ASSUME NEW ts, NEW S, IsFiniteSet(S)
  PROVE  IsFiniteSet(Values(ts, S))
  <1> DEFINE g == [i \in S |-> ts[i]]
  <1>1. /\ \A i \in S : g[i] \in Values(ts, S)
        /\ \A t \in Values(ts, S) : \E i \in S : g[i] = t
        /\ g = [i \in S |-> g[i]]
    BY DEF Values
  <1>2. g \in Surjection(S, Values(ts, S))
    <2> HIDE DEF g
    <2> QED
      BY <1>1 DEF Surjection
  <1> QED
    BY <1>2, FS_Surjection

LEMMA CounterpartsFinite ==
  ASSUME NEW ts, NEW inbound, IsFiniteSet(ts)
  PROVE  IsFiniteSet({Counterpart(t, inbound) : t \in ts})
  <1> DEFINE g == [t \in ts |-> Counterpart(t, inbound)]
             C == {Counterpart(t, inbound) : t \in ts}
  <1>1. /\ \A t \in ts : g[t] \in C
        /\ \A c \in C : \E t \in ts : g[t] = c
        /\ g = [t \in ts |-> g[t]]
    OBVIOUS
  <1>2. g \in Surjection(ts, C)
    <2> HIDE DEF g, C
    <2> QED
      BY <1>1 DEF Surjection
  <1> QED
    BY <1>2, FS_Surjection

Earlier(T) == {p \in T \X T : Before(p[1], p[2])}

Later(T) == {p \in T \X T : Before(p[2], p[1])}

LEMMA BeforeIsLinear ==
  ASSUME NEW ts, Paged(ts), NEW places \in SUBSET (DOMAIN ts)
  PROVE  /\ IsFiniteSet(Values(ts, places))
         /\ Linear(Earlier(Values(ts, places)), Values(ts, places))
         /\ Linear(Later(Values(ts, places)), Values(ts, places))
  <1> DEFINE T == Values(ts, places)
  <1>1. /\ \A x \in T : x.at \in Int /\ x.id \in Int
        /\ \A x, y \in T : x.id = y.id => x = y
    BY DEF Values, Paged
  <1>2. IsFiniteSet(T)
    BY ValuesFinite, FS_Subset DEF Paged
  <1> HIDE DEF T
  <1>3. \A x, y \in T : /\ <<x, y>> \in Earlier(T) <=> Before(x, y)
                        /\ <<x, y>> \in Later(T) <=> Before(y, x)
    BY DEF Earlier, Later
  <1>4. /\ \A x \in T : ~Before(x, x)
        /\ \A x, y \in T : x # y => Before(x, y) \/ Before(y, x)
        /\ \A x, y, z \in T : Before(x, y) /\ Before(y, z) => Before(x, z)
    BY <1>1 DEF Before
  <1> QED
    BY <1>2, <1>3, <1>4 DEF Linear, T

LEMMA FirstIs ==
  ASSUME NEW ts, Paged(ts), NEW places \in SUBSET (DOMAIN ts), places # {}
  PROVE  /\ First(ts, places) \in places
         /\ \A j \in places : ~Before(ts[j], ts[First(ts, places)])
  <1> DEFINE T == Values(ts, places)
  <1>1. T # {} /\ T \in SUBSET T
    BY DEF Values
  <1>2. PICK x \in T : \A y \in T : <<y, x>> \notin Earlier(T)
    BY <1>1, BeforeIsLinear, FirstExists
  <1>3. PICK i \in places : ts[i] = x
    BY DEF Values
  <1>4. \A j \in places : ~Before(ts[j], ts[i])
    BY <1>2, <1>3 DEF Earlier, Values
  <1> QED
    BY <1>4 DEF First

LEMMA LastIs ==
  ASSUME NEW ts, Paged(ts), NEW places \in SUBSET (DOMAIN ts), places # {}
  PROVE  \E i \in places : \A j \in places : ~Before(ts[i], ts[j])
  <1> DEFINE T == Values(ts, places)
  <1>1. T # {} /\ T \in SUBSET T
    BY DEF Values
  <1>2. PICK x \in T : \A y \in T : <<y, x>> \notin Later(T)
    BY <1>1, BeforeIsLinear, FirstExists
  <1>3. PICK i \in places : ts[i] = x
    BY DEF Values
  <1>4. \A j \in places : ~Before(ts[i], ts[j])
    BY <1>2, <1>3 DEF Later, Values
  <1> QED
    BY <1>4

-----------------------------------------------------------------------------
(* Fans.                                                                   *)

LEMMA WindowStarts ==
  ASSUME NEW ts, Paged(ts), NEW group \in SUBSET (DOMAIN ts), NEW inbound
  PROVE  FirstDistinctWindow(ts, group, inbound) # {} <=>
             \E i, j \in group : Wide(ts, group, inbound, i, j)
  <1> DEFINE starts == {i \in group : \E j \in group : Wide(ts, group, inbound, i, j)}
             start == First(ts, starts)
             ends == {j \in group : Wide(ts, group, inbound, start, j)}
             end == First(ts, ends)
  <1>1. FirstDistinctWindow(ts, group, inbound) =
            IF starts = {} THEN {} ELSE Stretch(ts, group, start, end)
    BY DEF FirstDistinctWindow
  <1>2. ASSUME starts # {} PROVE start \in Stretch(ts, group, start, end)
    <2>1. start \in starts
      <3>1. starts \in SUBSET (DOMAIN ts)
        OBVIOUS
      <3> HIDE DEF starts
      <3> QED
        BY <1>2, <3>1, FirstIs
    <2>2. ends # {} /\ ends \in SUBSET (DOMAIN ts)
      BY <2>1
    <2>3. end \in ends
      <3> HIDE DEF ends
      <3> QED
        BY <2>2, FirstIs
    <2>4. start \in group /\ ~Before(ts[end], ts[start]) /\ ts[start].at \in Int
          /\ ts[start].id \in Int
      BY <2>1, <2>3 DEF Wide, Paged
    <2> HIDE DEF start, end
    <2> QED
      BY <2>4 DEF Stretch, Before
  <1>3. starts # {} <=> \E i, j \in group : Wide(ts, group, inbound, i, j)
    OBVIOUS
  <1> HIDE DEF starts
  <1> QED
    BY <1>1, <1>2, <1>3

LEMMA WindowIsEnough ==
  ASSUME NEW ts, Paged(ts), NEW group \in SUBSET (DOMAIN ts), NEW inbound
  PROVE  FirstDistinctWindow(ts, group, inbound) # {} <=> Enough(Values(ts, group), inbound)
  <1> DEFINE S == Values(ts, group)
             Among(i, j) == {Counterpart(ts[k], inbound) : k \in Stretch(ts, group, i, j)}
  <1>1. IsFiniteSet(S)
    BY BeforeIsLinear
  <1>2. \A k \in group : ts[k] \in S /\ ts[k].at \in Int /\ ts[k].id \in Int
    BY DEF Values, Paged
  <1>3. \A i, j \in group : IsFiniteSet(Among(i, j)) /\ Cardinality(Among(i, j)) \in Nat
    <2> SUFFICES ASSUME NEW i \in group, NEW j \in group
                 PROVE  IsFiniteSet(Among(i, j)) /\ Cardinality(Among(i, j)) \in Nat
      OBVIOUS
    <2> DEFINE places == Stretch(ts, group, i, j)
    <2>1. places \in SUBSET (DOMAIN ts)
      BY DEF Stretch
    <2>2. IsFiniteSet(Values(ts, places))
      BY <2>1, BeforeIsLinear
    <2>3. Among(i, j) = {Counterpart(t, inbound) : t \in Values(ts, places)}
      BY DEF Values
    <2> QED
      BY <2>2, <2>3, CounterpartsFinite, FS_CardinalityType
  <1>4. \A s \in S : IsFiniteSet(Met(S, s, inbound)) /\ Cardinality(Met(S, s, inbound)) \in Nat
    <2> SUFFICES ASSUME NEW s \in S
                 PROVE  IsFiniteSet(Met(S, s, inbound)) /\ Cardinality(Met(S, s, inbound)) \in Nat
      OBVIOUS
    <2> DEFINE window == {u \in S : s.at <= u.at /\ u.at <= s.at + FanWindow}
    <2>1. IsFiniteSet(window)
      BY <1>1, FS_Subset
    <2>2. Met(S, s, inbound) = {Counterpart(t, inbound) : t \in window}
      BY DEF Met
    <2> HIDE DEF window
    <2> QED
      BY <2>1, <2>2, CounterpartsFinite, FS_CardinalityType
  <1>5. ASSUME NEW i \in group, NEW j \in group, Wide(ts, group, inbound, i, j)
        PROVE  Enough(S, inbound)
    <2>1. /\ ts[i].at <= ts[j].at /\ ts[j].at - ts[i].at <= FanWindow
          /\ Cardinality(Among(i, j)) >= MinDistinct
      BY <1>5 DEF Wide, InTime
    <2>2. Among(i, j) \subseteq Met(S, ts[i], inbound)
      <3> SUFFICES ASSUME NEW k \in Stretch(ts, group, i, j)
                   PROVE  Counterpart(ts[k], inbound) \in Met(S, ts[i], inbound)
        OBVIOUS
      <3>1. k \in group /\ ~Before(ts[k], ts[i]) /\ ~Before(ts[j], ts[k])
        BY DEF Stretch
      <3>2. ts[k] \in S /\ ts[i].at <= ts[k].at /\ ts[k].at <= ts[j].at
        BY <1>2, <3>1 DEF Before
      <3>3. ts[k].at <= ts[i].at + FanWindow
        BY <1>2, <2>1, <3>1, <3>2, RulesAssumption
      <3> QED
        BY <3>2, <3>3 DEF Met
    <2>3. Cardinality(Among(i, j)) <= Cardinality(Met(S, ts[i], inbound))
      BY <1>2, <1>4, <2>2, FS_Subset
    <2>4. Cardinality(Met(S, ts[i], inbound)) >= MinDistinct
      <3>1. /\ Cardinality(Among(i, j)) \in Nat
            /\ Cardinality(Met(S, ts[i], inbound)) \in Nat
        BY <1>2, <1>3, <1>4
      <3> HIDE DEF S, Among
      <3> QED
        BY <2>1, <2>3, <3>1, RulesAssumption
    <2> QED
      BY <1>2, <2>4 DEF Enough
  <1>6. ASSUME Enough(S, inbound)
        PROVE  \E i, j \in group : Wide(ts, group, inbound, i, j)
    <2>1. PICK s \in S : Cardinality(Met(S, s, inbound)) >= MinDistinct
      BY <1>6 DEF Enough
    <2>2. PICK i0 \in group : ts[i0] = s
      BY DEF Values
    <2> DEFINE V == {k \in group : s.at <= ts[k].at /\ ts[k].at <= s.at + FanWindow}
    <2>3. V # {} /\ V \in SUBSET (DOMAIN ts)
      BY <1>2, <2>2, RulesAssumption
    <2>4. PICK i \in V : \A k \in V : ~Before(ts[k], ts[i])
      <3> HIDE DEF V
      <3> QED
        BY <2>3, FirstIs
    <2>5. PICK j \in V : \A k \in V : ~Before(ts[j], ts[k])
      <3> HIDE DEF V
      <3> QED
        BY <2>3, LastIs
    <2>6. Met(S, s, inbound) \subseteq Among(i, j)
      <3> SUFFICES ASSUME NEW t \in S, s.at <= t.at, t.at <= s.at + FanWindow
                   PROVE  Counterpart(t, inbound) \in Among(i, j)
        BY DEF Met
      <3>1. PICK k \in group : ts[k] = t
        BY DEF Values
      <3>2. k \in Stretch(ts, group, i, j)
        BY <2>4, <2>5, <3>1 DEF Stretch
      <3> QED
        BY <3>1, <3>2
    <2>7. Cardinality(Met(S, s, inbound)) <= Cardinality(Among(i, j))
      BY <1>3, <2>6, FS_Subset
    <2>8. Cardinality(Among(i, j)) >= MinDistinct
      <3>1. Cardinality(Among(i, j)) \in Nat /\ Cardinality(Met(S, s, inbound)) \in Nat
        BY <1>3, <1>4
      <3> HIDE DEF S, Among
      <3> QED
        BY <2>1, <2>7, <3>1, RulesAssumption
    <2>9. ~Before(ts[j], ts[i])
      BY <2>4
    <2>10. InTime(ts[i], ts[j], FanWindow)
      <3>1. /\ ts[i].at \in Int /\ ts[j].at \in Int /\ s.at \in Int
            /\ s.at <= ts[i].at /\ ts[j].at <= s.at + FanWindow
            /\ ts[i].at <= ts[j].at
        BY <1>2, <2>2, <2>9 DEF Before
      <3> QED
        BY <3>1, RulesAssumption DEF InTime
    <2> QED
      BY <2>8, <2>9, <2>10 DEF Wide
  <1> QED
    BY <1>5, <1>6, WindowStarts

\* The addresses of leads, and the window of an address among its fans.
SubjectsOf(leads) == {l.subject : l \in leads}

FirstFans(ts, places, inbound, s, a) ==
    FirstDistinctWindow(ts, FanGroup(ts, places, inbound, s, a), inbound)

FirstEquals(ts, places, s, a, n) ==
    FirstDistinctWindow(ts, EqualGroup(ts, places, s, a, n), FALSE)

(* The leads of the fan rules, without the keys of the loop's map.          *)
LEMMA FanLeads ==
  ASSUME NEW rule, NEW ts, NEW places, NEW inbound, NEW l
  PROVE  l \in Fan(rule, ts, places, inbound) <=>
             \E i \in places :
                 LET window == FirstFans(ts, places, inbound, Subject(ts[i], inbound), ts[i].asset)
                 IN  /\ window # {}
                     /\ l = Lead(rule, Subject(ts[i], inbound), Ids(ts, window))
  <1> DEFINE key(i) == <<Subject(ts[i], inbound), ts[i].asset>>
             keys == {key(i) : i \in places}
             Matches(k) == FirstFans(ts, places, inbound, k[1], k[2])
  <1>1. Fan(rule, ts, places, inbound) =
            {Lead(rule, k[1], Ids(ts, Matches(k))) : k \in {q \in keys : Matches(q) # {}}}
    BY DEF Fan, FirstFans
  <1>2. \A i : /\ key(i)[1] = Subject(ts[i], inbound)
              /\ Matches(key(i)) =
                     FirstFans(ts, places, inbound, Subject(ts[i], inbound), ts[i].asset)
    OBVIOUS
  <1>3. l \in Fan(rule, ts, places, inbound) <=>
            \E i \in places : /\ Matches(key(i)) # {}
                             /\ l = Lead(rule, key(i)[1], Ids(ts, Matches(key(i))))
    <2> HIDE DEF Matches, key
    <2> QED
      BY <1>1
  <1> HIDE DEF Matches, key
  <1> QED
    BY <1>2, <1>3

LEMMA EqualLeads ==
  ASSUME NEW ts, NEW places, NEW l
  PROVE  l \in RepeatedEqualAmount(ts, places) <=>
             \E i \in places :
                 LET window == FirstEquals(ts, places, ts[i].from, ts[i].asset, ts[i].amount)
                 IN  /\ ts[i].amount >= 0
                     /\ window # {}
                     /\ l = Lead("repeated-equal-amount-dispersion", ts[i].from, Ids(ts, window))
  <1> DEFINE whole == {j \in places : ts[j].amount >= 0}
             key(i) == <<ts[i].from, ts[i].asset, ts[i].amount>>
             keys == {key(i) : i \in whole}
             Matches(k) == FirstEquals(ts, places, k[1], k[2], k[3])
             name == "repeated-equal-amount-dispersion"
  <1>1. RepeatedEqualAmount(ts, places) =
            {Lead(name, k[1], Ids(ts, Matches(k))) : k \in {q \in keys : Matches(q) # {}}}
    BY DEF RepeatedEqualAmount, FirstEquals
  <1>2. \A i : /\ key(i)[1] = ts[i].from
              /\ Matches(key(i)) = FirstEquals(ts, places, ts[i].from, ts[i].asset, ts[i].amount)
    OBVIOUS
  <1>3. l \in RepeatedEqualAmount(ts, places) <=>
            \E i \in whole : /\ Matches(key(i)) # {}
                            /\ l = Lead(name, key(i)[1], Ids(ts, Matches(key(i))))
    <2> HIDE DEF Matches, key, whole, name
    <2> QED
      BY <1>1
  <1>4. \A i : i \in whole <=> i \in places /\ ts[i].amount >= 0
    OBVIOUS
  <1> HIDE DEF Matches, key, whole
  <1> QED
    BY <1>2, <1>3, <1>4

\* An address with a window among its fans, or among those of one amount.
HasFans(ts, places, inbound, s) ==
    \E i \in places : /\ s = Subject(ts[i], inbound)
                     /\ FirstFans(ts, places, inbound, s, ts[i].asset) # {}

HasEquals(ts, places, s) ==
    \E i \in places : /\ s = ts[i].from
                     /\ ts[i].amount >= 0
                     /\ FirstEquals(ts, places, s, ts[i].asset, ts[i].amount) # {}

(* An address of a fan lead is the subject of a window.                     *)
LEMMA FanSubjects ==
  \A rule, ts, places, inbound, s :
      s \in SubjectsOf(Fan(rule, ts, places, inbound)) <=> HasFans(ts, places, inbound, s)
  <1> TAKE rule, ts, places, inbound, s
  <1>1. \A a, b, c : Lead(a, b, c).subject = b
    BY DEF Lead
  <1>2. s \in SubjectsOf(Fan(rule, ts, places, inbound)) <=>
            \E l \in Fan(rule, ts, places, inbound) : s = l.subject
    BY DEF SubjectsOf
  <1>3. ASSUME NEW l \in Fan(rule, ts, places, inbound), s = l.subject
        PROVE  HasFans(ts, places, inbound, s)
    BY <1>1, <1>3, FanLeads DEF HasFans
  <1>4. ASSUME NEW i \in places, s = Subject(ts[i], inbound), FirstFans(ts, places, inbound, s, ts[i].asset) # {}
        PROVE  \E l \in Fan(rule, ts, places, inbound) : s = l.subject
    <2> DEFINE l == Lead(rule, s, Ids(ts, FirstFans(ts, places, inbound, s, ts[i].asset)))
    <2>1. l \in Fan(rule, ts, places, inbound)
      BY <1>4, FanLeads
    <2>2. l.subject = s
      BY <1>1
    <2> QED
      BY <2>1, <2>2
  <1> QED
    BY <1>2, <1>3, <1>4 DEF HasFans

LEMMA EqualSubjects ==
  \A ts, places, s :
      s \in SubjectsOf(RepeatedEqualAmount(ts, places)) <=> HasEquals(ts, places, s)
  <1> TAKE ts, places, s
  <1>1. \A a, b, c : Lead(a, b, c).subject = b
    BY DEF Lead
  <1>2. s \in SubjectsOf(RepeatedEqualAmount(ts, places)) <=>
            \E l \in RepeatedEqualAmount(ts, places) : s = l.subject
    BY DEF SubjectsOf
  <1>3. ASSUME NEW l \in RepeatedEqualAmount(ts, places), s = l.subject
        PROVE  HasEquals(ts, places, s)
    BY <1>1, <1>3, EqualLeads DEF HasEquals
  <1>4. ASSUME NEW i \in places, s = ts[i].from, ts[i].amount >= 0, FirstEquals(ts, places, s, ts[i].asset, ts[i].amount) # {}
        PROVE  \E l \in RepeatedEqualAmount(ts, places) : s = l.subject
    <2> DEFINE l == Lead("repeated-equal-amount-dispersion", s, Ids(ts, FirstEquals(ts, places, s, ts[i].asset, ts[i].amount)))
    <2>1. l \in RepeatedEqualAmount(ts, places)
      BY <1>4, EqualLeads
    <2>2. l.subject = s
      BY <1>1
    <2> QED
      BY <2>1, <2>2
  <1> QED
    BY <1>2, <1>3, <1>4 DEF HasEquals

LEMMA ObservedIsPaged ==
  ASSUME RulesInv
  PROVE  /\ Paged(observed)
         /\ ConfirmationBacked(observed) \in SUBSET (DOMAIN observed)
         /\ Backed = Values(observed, ConfirmationBacked(observed))
  <1>1. Len(observed) \in Nat /\ DOMAIN observed = 1 .. Len(observed)
    BY LenProperties DEF RulesInv
  <1>2. IsFiniteSet(DOMAIN observed)
    BY <1>1, FS_Interval
  <1>3. ASSUME NEW i \in DOMAIN observed
        PROVE  observed[i].at \in Int /\ observed[i].id \in Int /\ observed[i].amount \in Int
    <2>1. observed[i] \in Entered(Bodies)
      BY ElementOfSeq, <1>1 DEF RulesInv
    <2>2. PICK n \in 1 .. MaxTransfers : \E b \in Bodies : observed[i] = [b EXCEPT !.id = n]
      BY <2>1 DEF Entered
    <2>3. PICK b \in Bodies : observed[i] = [b EXCEPT !.id = n]
      BY <2>2
    <2>4. Observable(b)
      BY BodiesAssumption DEF Bodies
    <2> QED
      BY <2>3, <2>4, RulesAssumption DEF Observable
  <1>4. Paged(observed)
    BY <1>2, <1>3 DEF Paged, RulesInv, Numbered
  <1> QED
    BY <1>4 DEF ConfirmationBacked, Backed, Values

LEMMA FoundIs == \A rule : Found(rule) = Detected(rule, observed, ConfirmationBacked(observed))
  BY DEF Found, Run

\* The subjects FansExact names.
Fanned(inbound) ==
    {s \in Parties : \E t \in Backed : Enough(Payments(inbound, s, t.asset), inbound)}

EquallyFanned ==
    {s \in Parties : \E t \in Backed :
        /\ t.amount >= 0
        /\ Enough({u \in Payments(FALSE, s, t.asset) : u.amount = t.amount}, FALSE)}

LEMMA FansAmong ==
  ASSUME NEW ts, Paged(ts), NEW places \in SUBSET (DOMAIN ts), Backed = Values(ts, places)
  PROVE  /\ \A rule : /\ SubjectsOf(Fan(rule, ts, places, TRUE)) = Fanned(TRUE)
                     /\ SubjectsOf(Fan(rule, ts, places, FALSE)) = Fanned(FALSE)
         /\ SubjectsOf(RepeatedEqualAmount(ts, places)) = EquallyFanned
  <1>1. Paged(ts) /\ places \in SUBSET (DOMAIN ts) /\ Backed = Values(ts, places)
    OBVIOUS
  <1>2. \A i \in places : ts[i] \in Backed
    BY <1>1 DEF Values
  <1>3. ASSUME NEW inbound, NEW s, NEW a
        PROVE  /\ Values(ts, FanGroup(ts, places, inbound, s, a)) = Payments(inbound, s, a)
               /\ FirstDistinctWindow(ts, FanGroup(ts, places, inbound, s, a), inbound) # {} <=>
                      Enough(Payments(inbound, s, a), inbound)
    <2>1. Values(ts, FanGroup(ts, places, inbound, s, a)) = Payments(inbound, s, a)
      BY <1>1 DEF Values, FanGroup, Payments
    <2>2. FanGroup(ts, places, inbound, s, a) \in SUBSET (DOMAIN ts)
      BY <1>1 DEF FanGroup
    <2> QED
      BY <1>1, <2>1, <2>2, WindowIsEnough
  <1>4. ASSUME NEW rule, NEW inbound, \A t : Subject(t, inbound) \in {t.from, t.to}
        PROVE  SubjectsOf(Fan(rule, ts, places, inbound)) = Fanned(inbound)
    <2>1. ASSUME NEW i \in places,
                 Enough(Payments(inbound, Subject(ts[i], inbound), ts[i].asset), inbound)
          PROVE  /\ Subject(ts[i], inbound) \in Parties
                 /\ \E t \in Backed :
                      Enough(Payments(inbound, Subject(ts[i], inbound), t.asset), inbound)
      BY <1>2, <1>4, <2>1 DEF Parties
    <2>2. ASSUME NEW s, NEW t \in Backed, Enough(Payments(inbound, s, t.asset), inbound)
          PROVE  \E i \in places : /\ s = Subject(ts[i], inbound)
                                   /\ Enough(Payments(inbound, s, ts[i].asset), inbound)
      <3>1. PICK u \in Payments(inbound, s, t.asset) : TRUE
        BY <2>2 DEF Enough
      <3>2. u \in Backed /\ u.asset = t.asset /\ Subject(u, inbound) = s
        BY DEF Payments
      <3>3. PICK i \in places : ts[i] = u
        BY <1>1, <3>2 DEF Values
      <3> QED
        BY <2>2, <3>2, <3>3
    <2>3. ASSUME NEW s
          PROVE  s \in SubjectsOf(Fan(rule, ts, places, inbound)) <=>
                     \E i \in places : /\ s = Subject(ts[i], inbound)
                                      /\ Enough(Payments(inbound, s, ts[i].asset), inbound)
      <3>1. s \in SubjectsOf(Fan(rule, ts, places, inbound)) <=> HasFans(ts, places, inbound, s)
        BY FanSubjects
      <3>2. \A a : FirstFans(ts, places, inbound, s, a) # {}
                     <=> Enough(Payments(inbound, s, a), inbound)
        BY <1>3 DEF FirstFans
      <3>3. HasFans(ts, places, inbound, s) <=>
                \E i \in places : /\ s = Subject(ts[i], inbound)
                                 /\ Enough(Payments(inbound, s, ts[i].asset), inbound)
        BY <3>2 DEF HasFans
      <3> QED
        BY <3>1, <3>3
    <2> DEFINE subjects == SubjectsOf(Fan(rule, ts, places, inbound))
               wanted == {s \in Parties :
                            \E t \in Backed : Enough(Payments(inbound, s, t.asset), inbound)}
    <2>4. \A s \in subjects : s \in wanted
      BY <2>1, <2>3
    <2>5. \A s \in wanted : s \in subjects
      BY <2>2, <2>3
    <2> HIDE DEF subjects, wanted
    <2>6. subjects = wanted
      BY <2>4, <2>5
    <2> QED
      BY <2>6 DEF subjects, wanted, Fanned
  <1>5. SubjectsOf(RepeatedEqualAmount(ts, places)) = EquallyFanned
    <2> DEFINE Equal(s, a, n) == {u \in Payments(FALSE, s, a) : u.amount = n}
    <2>1. ASSUME NEW s, NEW a, NEW n
          PROVE  FirstDistinctWindow(ts, EqualGroup(ts, places, s, a, n), FALSE) # {} <=>
                     Enough(Equal(s, a, n), FALSE)
      <3>1. Values(ts, EqualGroup(ts, places, s, a, n)) = Equal(s, a, n)
        BY <1>1 DEF Values, EqualGroup, FanGroup, Payments
      <3>2. EqualGroup(ts, places, s, a, n) \in SUBSET (DOMAIN ts)
        BY <1>1 DEF EqualGroup, FanGroup
      <3> QED
        BY <1>1, <3>1, <3>2, WindowIsEnough
    <2>2. ASSUME NEW i \in places, ts[i].amount >= 0,
                 Enough(Equal(ts[i].from, ts[i].asset, ts[i].amount), FALSE)
          PROVE  /\ ts[i].from \in Parties
                 /\ \E t \in Backed : /\ t.amount >= 0
                                      /\ Enough(Equal(ts[i].from, t.asset, t.amount), FALSE)
      BY <1>2, <2>2 DEF Parties
    <2>3. ASSUME NEW s, NEW t \in Backed, t.amount >= 0, Enough(Equal(s, t.asset, t.amount), FALSE)
          PROVE  \E i \in places : /\ s = ts[i].from /\ ts[i].amount >= 0
                                   /\ Enough(Equal(s, ts[i].asset, ts[i].amount), FALSE)
      <3>1. PICK u \in Equal(s, t.asset, t.amount) : TRUE
        BY <2>3 DEF Enough
      <3>2. u \in Backed /\ u.asset = t.asset /\ u.from = s /\ u.amount = t.amount
        BY DEF Payments, Subject
      <3>3. PICK i \in places : ts[i] = u
        BY <1>1, <3>2 DEF Values
      <3> QED
        BY <2>3, <3>2, <3>3
    <2> HIDE DEF Equal
    <2>4. ASSUME NEW s
          PROVE  s \in SubjectsOf(RepeatedEqualAmount(ts, places)) <=>
                     \E i \in places : /\ s = ts[i].from /\ ts[i].amount >= 0
                                      /\ Enough(Equal(s, ts[i].asset, ts[i].amount), FALSE)
      <3>1. \A a, n : FirstEquals(ts, places, s, a, n) # {} <=> Enough(Equal(s, a, n), FALSE)
        BY <2>1 DEF FirstEquals
      <3>2. s \in SubjectsOf(RepeatedEqualAmount(ts, places)) <=> HasEquals(ts, places, s)
        BY EqualSubjects
      <3>3. HasEquals(ts, places, s) <=>
                \E i \in places : /\ s = ts[i].from /\ ts[i].amount >= 0
                                 /\ Enough(Equal(s, ts[i].asset, ts[i].amount), FALSE)
        BY <3>1 DEF HasEquals
      <3> QED
        BY <3>2, <3>3
    <2> DEFINE subjects == SubjectsOf(RepeatedEqualAmount(ts, places))
               wanted == {s \in Parties : \E t \in Backed :
                            t.amount >= 0 /\ Enough(Equal(s, t.asset, t.amount), FALSE)}
    <2>5. ASSUME NEW s \in subjects PROVE s \in wanted
      <3>1. PICK i \in places : /\ s = ts[i].from /\ ts[i].amount >= 0
                               /\ Enough(Equal(s, ts[i].asset, ts[i].amount), FALSE)
        BY <2>4
      <3> QED
        BY <2>2, <3>1
    <2>6. \A s \in wanted : s \in subjects
      BY <2>3, <2>4
    <2> HIDE DEF subjects, wanted
    <2>7. subjects = wanted
      BY <2>5, <2>6
    <2> QED
      BY <2>7 DEF subjects, wanted, EquallyFanned, Equal
  <1>6. \A t : Subject(t, TRUE) \in {t.from, t.to} /\ Subject(t, FALSE) \in {t.from, t.to}
    BY DEF Subject
  <1> QED
    BY <1>4, <1>5, <1>6

LEMMA FansAreExact == RulesInv => FansExact
  <1> SUFFICES ASSUME RulesInv PROVE FansExact
    OBVIOUS
  <1> DEFINE ts == observed
             places == ConfirmationBacked(observed)
  <1>1. Paged(ts) /\ places \in SUBSET (DOMAIN ts) /\ Backed = Values(ts, places)
    BY ObservedIsPaged
  <1>2. /\ Found("fan-in-consolidation") = Fan("fan-in-consolidation", ts, places, TRUE)
        /\ Found("fan-out-dispersion") = Fan("fan-out-dispersion", ts, places, FALSE)
        /\ Found("repeated-equal-amount-dispersion") = RepeatedEqualAmount(ts, places)
    BY FoundIs DEF Detected
  <1> HIDE DEF ts, places
  <1>3. /\ SubjectsOf(Found("fan-in-consolidation")) = Fanned(TRUE)
        /\ SubjectsOf(Found("fan-out-dispersion")) = Fanned(FALSE)
        /\ SubjectsOf(Found("repeated-equal-amount-dispersion")) = EquallyFanned
    BY <1>1, <1>2, FansAmong
  <1> QED
    BY <1>3 DEF FansExact, SubjectsOf, Fanned, EquallyFanned

-----------------------------------------------------------------------------
(* Chains.                                                                 *)

LEMMA FourDistinct ==
  \A a, b, c, e : Cardinality({a, b, c, e}) = 4 <=>
                      a # b /\ a # c /\ a # e /\ b # c /\ b # e /\ c # e
  <1> TAKE a, b, c, e
  <1>1. IsFiniteSet({a}) /\ Cardinality({a}) = 1
    BY FS_Singleton
  <1>2. /\ IsFiniteSet({a} \cup {b})
        /\ Cardinality({a} \cup {b}) = IF b \in {a} THEN 1 ELSE 2
    BY <1>1, FS_AddElement
  <1>3. /\ IsFiniteSet(({a} \cup {b}) \cup {c})
        /\ Cardinality(({a} \cup {b}) \cup {c}) =
               IF c \in {a} \cup {b} THEN Cardinality({a} \cup {b})
               ELSE Cardinality({a} \cup {b}) + 1
    BY <1>2, FS_AddElement
  <1>4. Cardinality((({a} \cup {b}) \cup {c}) \cup {e}) =
            IF e \in ({a} \cup {b}) \cup {c} THEN Cardinality(({a} \cup {b}) \cup {c})
            ELSE Cardinality(({a} \cup {b}) \cup {c}) + 1
    BY <1>3, FS_AddElement
  <1>5. {a, b, c, e} = (({a} \cup {b}) \cup {c}) \cup {e}
    OBVIOUS
  <1> QED
    BY <1>2, <1>3, <1>4, <1>5

(* Two hops and a third are a chain.                                        *)
LEMMA HopsAreChain ==
  ASSUME NEW x, NEW y, NEW z,
         \A t \in {x, y, z} : t.at \in Int /\ t.amount \in Int
  PROVE  Chain(x, y, z) <=>
             /\ Fans(x)
             /\ Continues(x, y, {x.from, y.from})
             /\ Continues(y, z, {x.from, y.from, z.from})
  <1>1. Cardinality({x.from, y.from, z.from, z.to}) = 4 <=>
            /\ x.from # y.from /\ x.from # z.from /\ x.from # z.to
            /\ y.from # z.from /\ y.from # z.to /\ z.from # z.to
    <2> DEFINE Four(a, b, c, e) == a # b /\ a # c /\ a # e /\ b # c /\ b # e /\ c # e
    <2>1. \A a, b, c, e : Cardinality({a, b, c, e}) = 4 <=> Four(a, b, c, e)
      BY FourDistinct
    <2>2. Cardinality({x.from, y.from, z.from, z.to}) = 4 <=> Four(x.from, y.from, z.from, z.to)
      <3> HIDE DEF Four
      <3> QED
        BY ONLY <2>1
    <2> QED
      BY <2>2
  <1> HIDE DEF Cardinality
  <1> QED
    BY <1>1, RulesAssumption DEF Chain, Fans, Continues, InTime

\* Two first hops on a page that have a third, and their lead.
IsChainAt(ts, places, i, j, l) ==
    /\ Fans(ts[i]) /\ Continues(ts[i], ts[j], {ts[i].from, ts[j].from})
    /\ Thirds(ts, places, i, j) # {}
    /\ l = Lead("sequential-decreasing-transfer", ts[i].from,
                Ids(ts, {i, j, First(ts, Thirds(ts, places, i, j))}))

LEMMA ChainLeads ==
  ASSUME NEW ts, NEW places, NEW l
  PROVE  l \in SequentialDecreasing(ts, places) <=>
             \E i, j \in places : IsChainAt(ts, places, i, j, l)
  <1> DEFINE Two(i, j) == /\ Fans(ts[i]) /\ Continues(ts[i], ts[j], {ts[i].from, ts[j].from})
                          /\ Thirds(ts, places, i, j) # {}
             lead(i, j) == Lead("sequential-decreasing-transfer", ts[i].from,
                                Ids(ts, {i, j, First(ts, Thirds(ts, places, i, j))}))
             pairs == {q \in places \X places : Two(q[1], q[2])}
  <1>1. SequentialDecreasing(ts, places) = {lead(p[1], p[2]) : p \in pairs}
    BY DEF SequentialDecreasing
  <1> HIDE DEF Two, lead
  <1>2. ASSUME NEW i \in places, NEW j \in places, Two(i, j), l = lead(i, j)
        PROVE  l \in SequentialDecreasing(ts, places)
    <2> DEFINE p == <<i, j>>
    <2>1. p \in pairs /\ p[1] = i /\ p[2] = j
      BY <1>2
    <2> HIDE DEF p, pairs
    <2> QED
      BY <1>1, <1>2, <2>1
  <1>3. ASSUME l \in SequentialDecreasing(ts, places)
        PROVE  \E i, j \in places : Two(i, j) /\ l = lead(i, j)
    <2>1. PICK p \in pairs : l = lead(p[1], p[2])
      <3> HIDE DEF pairs
      <3> QED
        BY <1>1, <1>3
    <2>2. p[1] \in places /\ p[2] \in places /\ Two(p[1], p[2])
      OBVIOUS
    <2> QED
      BY <2>1, <2>2
  <1> QED
    BY <1>2, <1>3 DEF IsChainAt, Two, lead

LEMMA ChainsAreExact == RulesInv => ChainsExact
  <1> SUFFICES ASSUME RulesInv PROVE ChainsExact
    OBVIOUS
  <1> DEFINE ts == observed
             places == ConfirmationBacked(observed)
             third(i, j) == First(ts, Thirds(ts, places, i, j))
             Two(i, j) == /\ Fans(ts[i])
                          /\ Continues(ts[i], ts[j], {ts[i].from, ts[j].from})
                          /\ Thirds(ts, places, i, j) # {}
             found == {l.ids : l \in Found("sequential-decreasing-transfer")}
  <1>1. Paged(ts) /\ places \in SUBSET (DOMAIN ts) /\ Backed = Values(ts, places)
    BY ObservedIsPaged
  <1>2. Found("sequential-decreasing-transfer") = SequentialDecreasing(ts, places)
    BY FoundIs DEF Detected
  <1>3. \A a, b, c : Lead(a, b, c).ids = c
    BY DEF Lead
  <1> HIDE DEF ts, places
  <1>4. \A ids : ids \in found <=>
            \E i, j \in places : Two(i, j) /\ ids = {ts[i].id, ts[j].id, ts[third(i, j)].id}
    <2>1. \A i, j : Ids(ts, {i, j, third(i, j)}) = {ts[i].id, ts[j].id, ts[third(i, j)].id}
      BY DEF Ids
    <2> DEFINE lead(i, j) == Lead("sequential-decreasing-transfer", ts[i].from,
                                  Ids(ts, {i, j, third(i, j)}))
    <2>2. ASSUME NEW ids \in found
          PROVE  \E i, j \in places :
                     Two(i, j) /\ ids = {ts[i].id, ts[j].id, ts[third(i, j)].id}
      <3>1. PICK l \in SequentialDecreasing(ts, places) : ids = l.ids
        BY <1>2
      <3>2. PICK i \in places, j \in places : IsChainAt(ts, places, i, j, l)
        BY ChainLeads
      <3>3. Two(i, j) /\ l = lead(i, j)
        BY <3>2 DEF IsChainAt
      <3>4. ids = {ts[i].id, ts[j].id, ts[third(i, j)].id}
        BY <1>3, <2>1, <3>1, <3>3
      <3> QED
        BY <3>3, <3>4
    <2>3. ASSUME NEW i \in places, NEW j \in places, Two(i, j)
          PROVE  {ts[i].id, ts[j].id, ts[third(i, j)].id} \in found
      <3>1. IsChainAt(ts, places, i, j, lead(i, j))
        BY <2>3 DEF IsChainAt
      <3>2. lead(i, j) \in SequentialDecreasing(ts, places)
        BY <3>1, ChainLeads
      <3>3. lead(i, j).ids = {ts[i].id, ts[j].id, ts[third(i, j)].id}
        BY <1>3, <2>1
      <3> HIDE DEF lead, third
      <3> QED
        BY <1>2, <3>2, <3>3
    <2> HIDE DEF third, found, Two
    <2> QED
      BY <2>2, <2>3
  <1>5. ASSUME NEW i \in places, NEW j \in places, Thirds(ts, places, i, j) # {}
        PROVE  /\ third(i, j) \in places
               /\ Continues(ts[j], ts[third(i, j)], {ts[i].from, ts[j].from, ts[third(i, j)].from})
    <2>1. Thirds(ts, places, i, j) \in SUBSET (DOMAIN ts)
      BY <1>1 DEF Thirds
    <2>2. third(i, j) \in Thirds(ts, places, i, j)
      BY <1>1, <1>5, <2>1, FirstIs
    <2> QED
      BY <2>2 DEF Thirds
  <1>6. \A i \in places : ts[i] \in Backed /\ ts[i].at \in Int /\ ts[i].amount \in Int
    BY <1>1 DEF Values, Paged
  <1>7. ASSUME NEW i \in places, NEW j \in places, Two(i, j)
        PROVE  Chain(ts[i], ts[j], ts[third(i, j)]) /\ third(i, j) \in places
    <2>1. third(i, j) \in places
          /\ Continues(ts[j], ts[third(i, j)], {ts[i].from, ts[j].from, ts[third(i, j)].from})
      BY <1>5, <1>7
    <2> HIDE DEF third
    <2> QED
      BY <1>6, <1>7, <2>1, HopsAreChain
  <1>8. ASSUME NEW ids \in found
        PROVE  \E x, y, z \in Backed : ids = {x.id, y.id, z.id} /\ Chain(x, y, z)
    <2>1. PICK i \in places, j \in places :
             Two(i, j) /\ ids = {ts[i].id, ts[j].id, ts[third(i, j)].id}
      BY <1>4, <1>8
    <2> HIDE DEF Two, third, found
    <2> QED
      BY <1>6, <1>7, <2>1
  <1>9. ASSUME NEW x \in Backed, NEW y \in Backed, NEW z \in Backed, Chain(x, y, z)
        PROVE  \E u \in Backed : Chain(x, y, u) /\ {x.id, y.id, u.id} \in found
    <2>1. PICK i \in places : ts[i] = x
      BY <1>1 DEF Values
    <2>2. PICK j \in places : ts[j] = y
      BY <1>1 DEF Values
    <2>3. PICK k \in places : ts[k] = z
      BY <1>1 DEF Values
    <2>4. /\ Fans(x) /\ Continues(x, y, {x.from, y.from})
          /\ Continues(y, z, {x.from, y.from, z.from})
      BY <1>6, <1>9, <2>1, <2>2, <2>3, HopsAreChain
    <2>5. k \in Thirds(ts, places, i, j)
      BY <2>1, <2>2, <2>3, <2>4 DEF Thirds
    <2>6. Two(i, j)
      BY <2>1, <2>2, <2>4, <2>5
    <2>7. third(i, j) \in places /\ Chain(x, y, ts[third(i, j)])
      BY <1>7, <2>1, <2>2, <2>6
    <2>8. {x.id, y.id, ts[third(i, j)].id} \in found
      BY <1>4, <2>1, <2>2, <2>6
    <2> HIDE DEF third, found
    <2> QED
      BY <1>6, <2>7, <2>8
  <1> QED
    BY <1>8, <1>9 DEF ChainsExact

-----------------------------------------------------------------------------
(* Brief intermediaries.                                                   *)

\* An address whose two transfers on the page pass an amount on.
IsBriefAt(ts, places, m, l) ==
    /\ l = Lead("brief-intermediary-pass-through", m,
                Ids(ts, {i \in places : Touches(ts[i], m)}))
    /\ \E i, j \in places :
          /\ {k \in places : Touches(ts[k], m)} = {i, j}
          /\ i # j /\ ~Before(ts[j], ts[i])
          /\ PassesOn(ts[i], ts[j], m)
          /\ ts[i].amount >= 0
          /\ ts[i].amount = ts[j].amount

LEMMA BriefLeads ==
  ASSUME NEW ts, NEW places, NEW l
  PROVE  l \in BriefIntermediary(ts, places) <=>
             \E m \in Addresses(ts, places) \ {NoAddress} : IsBriefAt(ts, places, m, l)
  <1> DEFINE group(m) == {i \in places : Touches(ts[i], m)}
             Pair(m, i, j) == /\ group(m) = {i, j} /\ i # j /\ ~Before(ts[j], ts[i])
                              /\ PassesOn(ts[i], ts[j], m)
                              /\ ts[i].amount >= 0
                              /\ ts[i].amount = ts[j].amount
  <1>1. BriefIntermediary(ts, places) =
            {Lead("brief-intermediary-pass-through", m, Ids(ts, group(m))) :
                m \in {n \in Addresses(ts, places) \ {NoAddress} :
                          \E i, j \in group(n) : Pair(n, i, j)}}
    BY DEF BriefIntermediary
  <1>2. \A m : (\E i, j \in group(m) : Pair(m, i, j)) <=> (\E i, j \in places : Pair(m, i, j))
    OBVIOUS
  <1> HIDE DEF Pair
  <1>3. l \in BriefIntermediary(ts, places) <=>
            \E m \in Addresses(ts, places) \ {NoAddress} :
                /\ l = Lead("brief-intermediary-pass-through", m, Ids(ts, group(m)))
                /\ \E i, j \in places : Pair(m, i, j)
    <2> HIDE DEF group
    <2> QED
      BY <1>1, <1>2
  <1> QED
    BY <1>3 DEF IsBriefAt, Pair

\* The payments to an address that are passed on, what passes one on, and the
\* first of each.
Ins(ts, places, m, a) ==
    {i \in places : ts[i].asset = a /\ \E o \in places : PassesOn(ts[i], ts[o], m)}

Outs(ts, places, t, m) == {o \in places : PassesOn(t, ts[o], m)}

InOf(ts, places, m, a) == First(ts, Ins(ts, places, m, a))

OutOf(ts, places, m, a) == First(ts, Outs(ts, places, ts[InOf(ts, places, m, a)], m))

RapidLead(ts, places, m, a) ==
    Lead("rapid-onward-transfer", m, Ids(ts, {InOf(ts, places, m, a), OutOf(ts, places, m, a)}))

LEMMA RapidLeads ==
  ASSUME NEW ts, NEW places, NEW l
  PROVE  l \in RapidOnward(ts, places) <=>
             \E i \in places : /\ ts[i].to # NoAddress
                              /\ Ins(ts, places, ts[i].to, ts[i].asset) # {}
                              /\ l = RapidLead(ts, places, ts[i].to, ts[i].asset)
  <1> DEFINE known == {j \in places : ts[j].to # NoAddress}
             key(i) == <<ts[i].to, ts[i].asset>>
             keys == {key(i) : i \in known}
             lead(k) == RapidLead(ts, places, k[1], k[2])
             some(k) == Ins(ts, places, k[1], k[2])
  <1>1. RapidOnward(ts, places) = {lead(k) : k \in {q \in keys : some(q) # {}}}
    BY DEF RapidOnward, RapidLead, Ins, Outs, InOf, OutOf
  <1>2. \A i : /\ lead(key(i)) = RapidLead(ts, places, ts[i].to, ts[i].asset)
              /\ some(key(i)) = Ins(ts, places, ts[i].to, ts[i].asset)
    OBVIOUS
  <1>3. l \in RapidOnward(ts, places) <=>
            \E i \in known : some(key(i)) # {} /\ l = lead(key(i))
    <2> HIDE DEF lead, some, key, known
    <2> QED
      BY <1>1
  <1>4. \A i : i \in known <=> i \in places /\ ts[i].to # NoAddress
    OBVIOUS
  <1> HIDE DEF lead, some, key, known
  <1> QED
    BY <1>2, <1>3, <1>4

(* An address that only passes an amount on is found by the rapid rule too. *)
LEMMA BriefIsExact == RulesInv => BriefIsRapidAndAlone
  <1> SUFFICES ASSUME RulesInv, NEW l \in Found("brief-intermediary-pass-through")
               PROVE  /\ {t \in Backed : Touches(t, l.subject)} = {t \in Backed : t.id \in l.ids}
                      /\ Lead("rapid-onward-transfer", l.subject, l.ids)
                            \in Found("rapid-onward-transfer")
    BY DEF BriefIsRapidAndAlone
  <1> DEFINE ts == observed
             places == ConfirmationBacked(observed)
  <1>1. Paged(ts) /\ places \in SUBSET (DOMAIN ts) /\ Backed = Values(ts, places)
    BY ObservedIsPaged
  <1>2. /\ l \in BriefIntermediary(ts, places)
        /\ Found("rapid-onward-transfer") = RapidOnward(ts, places)
    BY FoundIs DEF Detected
  <1> HIDE DEF ts, places
  <1>3. PICK m \in Addresses(ts, places) \ {NoAddress} : IsBriefAt(ts, places, m, l)
    BY <1>2, BriefLeads
  <1> DEFINE group == {k \in places : Touches(ts[k], m)}
  <1>4. PICK i \in places, j \in places : group = {i, j} /\ PassesOn(ts[i], ts[j], m)
    BY <1>3 DEF IsBriefAt
  <1>5. l.subject = m /\ l.ids = Ids(ts, group)
    BY <1>3 DEF IsBriefAt, Lead
  <1>6. {t \in Backed : Touches(t, m)} = {t \in Backed : t.id \in Ids(ts, group)}
    <2>1. ASSUME NEW t \in Backed, Touches(t, m) PROVE t.id \in Ids(ts, group)
      BY <1>1, <2>1 DEF Values, Ids
    <2>2. ASSUME NEW t \in Backed, t.id \in Ids(ts, group) PROVE Touches(t, m)
      <3>1. PICK k \in group : t.id = ts[k].id
        BY <2>2 DEF Ids
      <3>2. PICK n \in places : t = ts[n]
        BY <1>1 DEF Values
      <3>3. ts[n] = ts[k]
        BY <1>1, <3>1, <3>2 DEF Paged
      <3> QED
        BY <3>2, <3>3
    <2> HIDE DEF group
    <2> QED
      BY <2>1, <2>2
  <1> DEFINE a == ts[i].asset
  <1>7. Ins(ts, places, m, a) = {i}
    <2>1. i \in Ins(ts, places, m, a)
      BY <1>4 DEF Ins
    <2>2. ASSUME NEW k \in Ins(ts, places, m, a) PROVE k = i
      <3>1. PICK o \in places : PassesOn(ts[k], ts[o], m)
        BY DEF Ins
      <3>2. k \in group /\ o \in group
        BY <3>1 DEF Ins, PassesOn, Touches
      <3> QED
        BY <1>4, <3>1, <3>2 DEF PassesOn
    <2> QED
      BY <2>1, <2>2
  <1>8. Outs(ts, places, ts[i], m) = {j}
    <2>1. ASSUME NEW o \in Outs(ts, places, ts[i], m) PROVE o = j
      <3>1. o \in group /\ PassesOn(ts[i], ts[o], m)
        BY DEF Outs, PassesOn, Touches
      <3> QED
        BY <1>4, <3>1 DEF PassesOn
    <2> QED
      BY <1>4, <2>1 DEF Outs
  <1>9. InOf(ts, places, m, a) = i
    BY <1>1, <1>7, FirstIs DEF InOf
  <1>10. OutOf(ts, places, m, a) = j
    BY <1>1, <1>8, <1>9, FirstIs DEF OutOf
  <1>11. RapidLead(ts, places, m, a) = Lead("rapid-onward-transfer", m, Ids(ts, group))
    BY <1>4, <1>9, <1>10 DEF RapidLead
  <1>12. ts[i].to = m /\ m # NoAddress
    BY <1>3, <1>4 DEF PassesOn
  <1>13. RapidLead(ts, places, m, a) \in RapidOnward(ts, places)
    BY <1>7, <1>12, RapidLeads
  <1> QED
    BY <1>2, <1>5, <1>6, <1>11, <1>13

(* detect.go: whatever order the provider returned and wherever the loops   *)
(* break, the fan and equal-amount leads name exactly the addresses that    *)
(* fan out or in, every reported chain is one and none is missed, and an    *)
(* address that only passes an amount on has nothing else on the page; for  *)
(* any transfers, windows and page size.                                    *)
THEOREM RulesAreExact == ResolveSpec => []RulesExact
  <1>1. EvidenceInv /\ Counted /\ IInv /\ RulesInv => RulesExact
    BY FansAreExact, ChainsAreExact, BriefIsExact DEF RulesExact
  <1> QED
    BY <1>1, ResolveInvHolds, PTL

-----------------------------------------------------------------------------
(* Reproduction.  Five rules are functions of the set of the transfers, in   *)
(* no order and at no place: what they find on a page is said in terms of it.*)

FirstAmong(T) == CHOOSE x \in T : \A y \in T : ~Before(y, x)

IdsOf(T) == {t.id : t \in T}

StretchAmong(T, s, t) == {v \in T : ~Before(v, s) /\ ~Before(t, v)}

WideAmong(T, inbound, s, t) ==
    /\ ~Before(t, s)
    /\ InTime(s, t, FanWindow)
    /\ Cardinality({Counterpart(v, inbound) : v \in StretchAmong(T, s, t)}) >= MinDistinct

StartsAmong(T, inbound) == {s \in T : \E t \in T : WideAmong(T, inbound, s, t)}

EndsAmong(T, inbound, s) == {t \in T : WideAmong(T, inbound, s, t)}

WindowAmong(T, inbound) ==
    LET start == FirstAmong(StartsAmong(T, inbound))
    IN  IF StartsAmong(T, inbound) = {} THEN {}
        ELSE StretchAmong(T, start, FirstAmong(EndsAmong(T, inbound, start)))

LEMMA FirstIsFirstAmong ==
  ASSUME NEW ts, Paged(ts), NEW places \in SUBSET (DOMAIN ts), places # {}
  PROVE  /\ First(ts, places) \in places
         /\ ts[First(ts, places)] = FirstAmong(Values(ts, places))
  <1> DEFINE T == Values(ts, places)
             x == ts[First(ts, places)]
             y == FirstAmong(T)
  <1>1. First(ts, places) \in places /\ x \in T /\ \A t \in T : ~Before(t, x)
    BY FirstIs DEF Values
  <1>2. \A t, u \in T : /\ t.at \in Int /\ t.id \in Int
                        /\ t.id = u.id => t = u
    BY DEF Values, Paged
  <1> HIDE DEF T, x
  <1>3. y \in T /\ \A t \in T : ~Before(t, y)
    BY <1>1 DEF FirstAmong
  <1> HIDE DEF y
  <1>4. x = y
    BY <1>1, <1>2, <1>3 DEF Before
  <1> QED
    BY <1>1, <1>4 DEF x, y, T

LEMMA IdsOfValues ==
  ASSUME NEW ts, NEW places
  PROVE  Ids(ts, places) = IdsOf(Values(ts, places))
  BY DEF Ids, IdsOf, Values

LEMMA StretchValues ==
  ASSUME NEW ts, NEW group, NEW i, NEW j
  PROVE  Values(ts, Stretch(ts, group, i, j)) = StretchAmong(Values(ts, group), ts[i], ts[j])
  BY DEF Values, Stretch, StretchAmong

LEMMA WideValues ==
  ASSUME NEW ts, NEW group, NEW inbound, NEW i, NEW j
  PROVE  Wide(ts, group, inbound, i, j) <=> WideAmong(Values(ts, group), inbound, ts[i], ts[j])
  <1> DEFINE S == Stretch(ts, group, i, j)
             A == {Counterpart(ts[k], inbound) : k \in S}
             B == {Counterpart(v, inbound) : v \in StretchAmong(Values(ts, group), ts[i], ts[j])}
  <1>1. A = {Counterpart(v, inbound) : v \in Values(ts, S)}
    <2> HIDE DEF S
    <2> QED
      BY DEF Values
  <1>2. A = B
    BY <1>1, StretchValues
  <1>3. Wide(ts, group, inbound, i, j) <=>
            /\ ~Before(ts[j], ts[i])
            /\ InTime(ts[i], ts[j], FanWindow)
            /\ Cardinality(A) >= MinDistinct
    BY DEF Wide
  <1>4. WideAmong(Values(ts, group), inbound, ts[i], ts[j]) <=>
            /\ ~Before(ts[j], ts[i])
            /\ InTime(ts[i], ts[j], FanWindow)
            /\ Cardinality(B) >= MinDistinct
    BY DEF WideAmong
  <1> HIDE DEF A, B
  <1> QED
    BY <1>2, <1>3, <1>4

LEMMA WindowValues ==
  ASSUME NEW ts, Paged(ts), NEW group \in SUBSET (DOMAIN ts), NEW inbound
  PROVE  Values(ts, FirstDistinctWindow(ts, group, inbound))
             = WindowAmong(Values(ts, group), inbound)
  <1> DEFINE T == Values(ts, group)
             starts == {i \in group : \E j \in group : Wide(ts, group, inbound, i, j)}
             start == First(ts, starts)
             ends == {j \in group : Wide(ts, group, inbound, start, j)}
             end == First(ts, ends)
  <1>1. FirstDistinctWindow(ts, group, inbound) =
            IF starts = {} THEN {} ELSE Stretch(ts, group, start, end)
    BY DEF FirstDistinctWindow
  <1>2. /\ \A i \in group : ts[i] \in T
        /\ \A t \in T : \E i \in group : ts[i] = t
    BY DEF Values
  <1>3. Values(ts, starts) = StartsAmong(T, inbound)
    <2> HIDE DEF T
    <2>1. \A i, j : Wide(ts, group, inbound, i, j) <=> WideAmong(T, inbound, ts[i], ts[j])
      BY WideValues DEF T
    <2>2. ASSUME NEW t \in Values(ts, starts) PROVE t \in StartsAmong(T, inbound)
      <3>1. PICK i \in starts : t = ts[i]
        BY DEF Values
      <3>2. PICK j \in group : WideAmong(T, inbound, ts[i], ts[j])
        BY <2>1
      <3> QED
        BY <1>2, <3>1, <3>2 DEF StartsAmong
    <2>3. ASSUME NEW t \in StartsAmong(T, inbound) PROVE t \in Values(ts, starts)
      <3>1. t \in T /\ \E u \in T : WideAmong(T, inbound, t, u)
        BY DEF StartsAmong
      <3>2. PICK u \in T : WideAmong(T, inbound, t, u)
        BY <3>1
      <3>3. PICK i \in group : ts[i] = t
        BY <1>2, <3>1
      <3>4. PICK j \in group : ts[j] = u
        BY <1>2
      <3>5. i \in starts
        BY <2>1, <3>2, <3>3, <3>4
      <3> HIDE DEF starts
      <3> QED
        BY <3>3, <3>5 DEF Values
    <2> QED
      BY <2>2, <2>3
  <1>4. starts = {} <=> StartsAmong(T, inbound) = {}
    <2> HIDE DEF starts, T
    <2> QED
      BY <1>3 DEF Values
  <1>5. ASSUME starts # {}
        PROVE  Values(ts, Stretch(ts, group, start, end)) = WindowAmong(T, inbound)
    <2>1. starts \in SUBSET (DOMAIN ts)
      OBVIOUS
    <2>2. start \in starts /\ ts[start] = FirstAmong(StartsAmong(T, inbound))
      <3> HIDE DEF starts, T
      <3> QED
        BY <1>3, <1>5, <2>1, FirstIsFirstAmong
    <2>3. ends # {} /\ ends \in SUBSET (DOMAIN ts)
      BY <2>2
    <2>4. Values(ts, ends) = EndsAmong(T, inbound, ts[start])
      <3> HIDE DEF T, start
      <3>1. \A j : Wide(ts, group, inbound, start, j) <=> WideAmong(T, inbound, ts[start], ts[j])
        BY WideValues DEF T
      <3> QED
        BY <1>2, <3>1 DEF Values, EndsAmong
    <2>5. ts[end] = FirstAmong(EndsAmong(T, inbound, ts[start]))
      <3> HIDE DEF ends, T, start
      <3> QED
        BY <2>3, <2>4, FirstIsFirstAmong
    <2>6. Values(ts, Stretch(ts, group, start, end)) = StretchAmong(T, ts[start], ts[end])
      BY StretchValues
    <2> HIDE DEF T, start, end, starts, ends
    <2> QED
      BY <1>4, <1>5, <2>2, <2>5, <2>6 DEF WindowAmong
  <1>6. Values(ts, {}) = {}
    BY DEF Values
  <1> HIDE DEF starts, start, end, T
  <1>7. CASE starts = {}
    BY <1>1, <1>4, <1>6, <1>7 DEF WindowAmong, T
  <1>8. CASE starts # {}
    BY <1>1, <1>5, <1>8 DEF T
  <1> QED
    BY <1>7, <1>8

\* What a fan rule, the equal-amount rule, the rapid rule and the chain rule find
\* among transfers.
FansIn(T, inbound, s, a) ==
    WindowAmong({t \in T : Fans(t) /\ Subject(t, inbound) = s /\ t.asset = a}, inbound)

EqualsIn(T, s, a, n) ==
    WindowAmong({t \in T : /\ Fans(t) /\ Subject(t, FALSE) = s /\ t.asset = a
                           /\ t.amount = n}, FALSE)

IsFanLead(rule, T, inbound, l) ==
    \E t \in T : /\ FansIn(T, inbound, Subject(t, inbound), t.asset) # {}
                 /\ l = Lead(rule, Subject(t, inbound),
                             IdsOf(FansIn(T, inbound, Subject(t, inbound), t.asset)))

IsEqualLead(T, l) ==
    \E t \in T : /\ t.amount >= 0
                 /\ EqualsIn(T, t.from, t.asset, t.amount) # {}
                 /\ l = Lead("repeated-equal-amount-dispersion", t.from,
                             IdsOf(EqualsIn(T, t.from, t.asset, t.amount)))

InsAmong(T, m, a) == {t \in T : t.asset = a /\ \E o \in T : PassesOn(t, o, m)}

OutsAmong(T, t, m) == {o \in T : PassesOn(t, o, m)}

RapidAmong(T, m, a) ==
    LET in == FirstAmong(InsAmong(T, m, a))
    IN  Lead("rapid-onward-transfer", m, {in.id, FirstAmong(OutsAmong(T, in, m)).id})

IsRapidLead(T, l) ==
    \E t \in T : /\ t.to # NoAddress
                 /\ InsAmong(T, t.to, t.asset) # {}
                 /\ l = RapidAmong(T, t.to, t.asset)

ThirdsAmong(T, s, t) == {u \in T : Continues(t, u, {s.from, t.from, u.from})}

IsChainLead(T, l) ==
    \E s, t \in T : /\ Fans(s) /\ Continues(s, t, {s.from, t.from})
                    /\ ThirdsAmong(T, s, t) # {}
                    /\ l = Lead("sequential-decreasing-transfer", s.from,
                                {s.id, t.id, FirstAmong(ThirdsAmong(T, s, t)).id})

LEMMA FanLeadValues ==
  ASSUME NEW rule, NEW ts, Paged(ts), NEW places \in SUBSET (DOMAIN ts), NEW inbound, NEW l
  PROVE  l \in Fan(rule, ts, places, inbound) <=> IsFanLead(rule, Values(ts, places), inbound, l)
  <1> DEFINE T == Values(ts, places)
  <1>1. ASSUME NEW s, NEW a
        PROVE  /\ FirstFans(ts, places, inbound, s, a) # {} <=> FansIn(T, inbound, s, a) # {}
               /\ Ids(ts, FirstFans(ts, places, inbound, s, a)) = IdsOf(FansIn(T, inbound, s, a))
    <2> DEFINE group == FanGroup(ts, places, inbound, s, a)
    <2>1. group \in SUBSET (DOMAIN ts)
      BY DEF FanGroup
    <2>2. Values(ts, group) = {t \in T : Fans(t) /\ Subject(t, inbound) = s /\ t.asset = a}
      BY DEF Values, FanGroup
    <2>3. Values(ts, FirstFans(ts, places, inbound, s, a)) = FansIn(T, inbound, s, a)
      <3>1. Values(ts, FirstDistinctWindow(ts, group, inbound))
                = WindowAmong(Values(ts, group), inbound)
        BY <2>1, WindowValues
      <3> QED
        BY <2>2, <3>1 DEF FirstFans, FansIn
    <2> HIDE DEF T
    <2>4. \A S : S # {} <=> Values(ts, S) # {}
      BY DEF Values
    <2> QED
      BY <2>3, <2>4, IdsOfValues
  <1>2. /\ \A i \in places : ts[i] \in T
        /\ \A t \in T : \E i \in places : ts[i] = t
    BY DEF Values
  <1> HIDE DEF T
  <1>3. ASSUME NEW i \in places, FirstFans(ts, places, inbound, Subject(ts[i], inbound),
                                           ts[i].asset) # {},
               l = Lead(rule, Subject(ts[i], inbound),
                        Ids(ts, FirstFans(ts, places, inbound, Subject(ts[i], inbound),
                                          ts[i].asset)))
        PROVE  IsFanLead(rule, T, inbound, l)
    <2> DEFINE t == ts[i]
    <2>1. /\ t \in T
          /\ FansIn(T, inbound, Subject(t, inbound), t.asset) # {}
          /\ l = Lead(rule, Subject(t, inbound),
                      IdsOf(FansIn(T, inbound, Subject(t, inbound), t.asset)))
      BY <1>1, <1>2, <1>3
    <2> QED
      BY <2>1 DEF IsFanLead
  <1>4. ASSUME IsFanLead(rule, T, inbound, l)
        PROVE  l \in Fan(rule, ts, places, inbound)
    <2>1. PICK t \in T :
             /\ FansIn(T, inbound, Subject(t, inbound), t.asset) # {}
             /\ l = Lead(rule, Subject(t, inbound),
                         IdsOf(FansIn(T, inbound, Subject(t, inbound), t.asset)))
      BY <1>4 DEF IsFanLead
    <2>2. PICK i \in places : ts[i] = t
      BY <1>2
    <2>3. /\ FirstFans(ts, places, inbound, Subject(ts[i], inbound), ts[i].asset) # {}
          /\ l = Lead(rule, Subject(ts[i], inbound),
                      Ids(ts, FirstFans(ts, places, inbound, Subject(ts[i], inbound),
                                        ts[i].asset)))
      BY <1>1, <2>1, <2>2
    <2> QED
      BY <2>3, FanLeads
  <1> QED
    BY <1>3, <1>4, FanLeads DEF T

LEMMA EqualLeadValues ==
  ASSUME NEW ts, Paged(ts), NEW places \in SUBSET (DOMAIN ts), NEW l
  PROVE  l \in RepeatedEqualAmount(ts, places) <=> IsEqualLead(Values(ts, places), l)
  <1> DEFINE T == Values(ts, places)
             name == "repeated-equal-amount-dispersion"
  <1>1. ASSUME NEW s, NEW a, NEW n
        PROVE  /\ FirstEquals(ts, places, s, a, n) # {} <=> EqualsIn(T, s, a, n) # {}
               /\ Ids(ts, FirstEquals(ts, places, s, a, n)) = IdsOf(EqualsIn(T, s, a, n))
    <2> DEFINE group == EqualGroup(ts, places, s, a, n)
    <2>1. group \in SUBSET (DOMAIN ts)
      BY DEF EqualGroup, FanGroup
    <2>2. Values(ts, group) = {t \in T : /\ Fans(t) /\ Subject(t, FALSE) = s /\ t.asset = a
                                         /\ t.amount = n}
      BY DEF Values, EqualGroup, FanGroup
    <2>3. Values(ts, FirstEquals(ts, places, s, a, n)) = EqualsIn(T, s, a, n)
      <3>1. Values(ts, FirstDistinctWindow(ts, group, FALSE)) = WindowAmong(Values(ts, group), FALSE)
        BY <2>1, WindowValues
      <3> QED
        BY <2>2, <3>1 DEF FirstEquals, EqualsIn
    <2> HIDE DEF T
    <2>4. \A S : S # {} <=> Values(ts, S) # {}
      BY DEF Values
    <2> QED
      BY <2>3, <2>4, IdsOfValues
  <1>2. /\ \A i \in places : ts[i] \in T
        /\ \A t \in T : \E i \in places : ts[i] = t
    BY DEF Values
  <1> HIDE DEF T, name
  <1>3. ASSUME NEW i \in places, ts[i].amount >= 0,
               FirstEquals(ts, places, ts[i].from, ts[i].asset, ts[i].amount) # {},
               l = Lead(name, ts[i].from,
                        Ids(ts, FirstEquals(ts, places, ts[i].from, ts[i].asset, ts[i].amount)))
        PROVE  IsEqualLead(T, l)
    <2> DEFINE t == ts[i]
    <2>1. /\ t \in T /\ t.amount >= 0
          /\ EqualsIn(T, t.from, t.asset, t.amount) # {}
          /\ l = Lead(name, t.from, IdsOf(EqualsIn(T, t.from, t.asset, t.amount)))
      BY <1>1, <1>2, <1>3
    <2> QED
      BY <2>1 DEF IsEqualLead, name
  <1>4. ASSUME IsEqualLead(T, l)
        PROVE  l \in RepeatedEqualAmount(ts, places)
    <2>1. PICK t \in T :
             /\ t.amount >= 0
             /\ EqualsIn(T, t.from, t.asset, t.amount) # {}
             /\ l = Lead(name, t.from, IdsOf(EqualsIn(T, t.from, t.asset, t.amount)))
      BY <1>4 DEF IsEqualLead, name
    <2>2. PICK i \in places : ts[i] = t
      BY <1>2
    <2>3. /\ ts[i].amount >= 0
          /\ FirstEquals(ts, places, ts[i].from, ts[i].asset, ts[i].amount) # {}
          /\ l = Lead(name, ts[i].from,
                      Ids(ts, FirstEquals(ts, places, ts[i].from, ts[i].asset, ts[i].amount)))
      BY <1>1, <2>1, <2>2
    <2> QED
      BY <2>3, EqualLeads DEF name
  <1> QED
    BY <1>3, <1>4, EqualLeads DEF T, name

LEMMA RapidLeadValues ==
  ASSUME NEW ts, Paged(ts), NEW places \in SUBSET (DOMAIN ts), NEW l
  PROVE  l \in RapidOnward(ts, places) <=> IsRapidLead(Values(ts, places), l)
  <1> DEFINE T == Values(ts, places)
  <1>1. /\ \A i \in places : ts[i] \in T
        /\ \A t \in T : \E i \in places : ts[i] = t
    BY DEF Values
  <1>2. ASSUME NEW m, NEW a
        PROVE  /\ Ins(ts, places, m, a) # {} <=> InsAmong(T, m, a) # {}
               /\ Ins(ts, places, m, a) # {} =>
                     RapidLead(ts, places, m, a) = RapidAmong(T, m, a)
    <2> DEFINE ins == Ins(ts, places, m, a)
               in == InOf(ts, places, m, a)
               outs == Outs(ts, places, ts[in], m)
               out == OutOf(ts, places, m, a)
    <2>1. ins \in SUBSET (DOMAIN ts) /\ Values(ts, ins) = InsAmong(T, m, a)
      <3> HIDE DEF T
      <3> QED
        BY <1>1 DEF Ins, InsAmong, Values
    <2>2. ins # {} <=> InsAmong(T, m, a) # {}
      BY <2>1 DEF Values
    <2>3. ASSUME ins # {} PROVE RapidLead(ts, places, m, a) = RapidAmong(T, m, a)
      <3>1. in \in ins /\ ts[in] = FirstAmong(InsAmong(T, m, a))
        BY <2>1, <2>3, FirstIsFirstAmong DEF InOf
      <3>2. outs # {} /\ outs \in SUBSET (DOMAIN ts)
        BY <3>1 DEF Ins, Outs
      <3>3. Values(ts, outs) = OutsAmong(T, ts[in], m)
        <4> HIDE DEF T, in
        <4> QED
          BY <1>1 DEF Outs, OutsAmong, Values
      <3>4. ts[out] = FirstAmong(OutsAmong(T, ts[in], m))
        <4>1. out = First(ts, outs)
          BY DEF OutOf
        <4> HIDE DEF outs, out, in, T
        <4> QED
          BY <3>2, <3>3, <4>1, FirstIsFirstAmong
      <3>5. RapidLead(ts, places, m, a)
                = Lead("rapid-onward-transfer", m, {ts[in].id, ts[out].id})
        BY DEF RapidLead, Ids
      <3> HIDE DEF in, out, T
      <3> QED
        BY <3>1, <3>4, <3>5 DEF RapidAmong
    <2> QED
      BY <2>2, <2>3
  <1> HIDE DEF T
  <1>3. ASSUME NEW i \in places, ts[i].to # NoAddress,
               Ins(ts, places, ts[i].to, ts[i].asset) # {},
               l = RapidLead(ts, places, ts[i].to, ts[i].asset)
        PROVE  IsRapidLead(T, l)
    <2> DEFINE t == ts[i]
    <2>1. /\ t \in T /\ t.to # NoAddress /\ InsAmong(T, t.to, t.asset) # {}
          /\ l = RapidAmong(T, t.to, t.asset)
      BY <1>1, <1>2, <1>3
    <2> QED
      BY <2>1 DEF IsRapidLead
  <1>4. ASSUME IsRapidLead(T, l) PROVE l \in RapidOnward(ts, places)
    <2>1. PICK t \in T : /\ t.to # NoAddress /\ InsAmong(T, t.to, t.asset) # {}
                        /\ l = RapidAmong(T, t.to, t.asset)
      BY <1>4 DEF IsRapidLead
    <2>2. PICK i \in places : ts[i] = t
      BY <1>1
    <2>3. /\ ts[i].to # NoAddress
          /\ Ins(ts, places, ts[i].to, ts[i].asset) # {}
          /\ l = RapidLead(ts, places, ts[i].to, ts[i].asset)
      BY <1>2, <2>1, <2>2
    <2> QED
      BY <2>3, RapidLeads
  <1> QED
    BY <1>3, <1>4, RapidLeads DEF T

LEMMA ChainLeadValues ==
  ASSUME NEW ts, Paged(ts), NEW places \in SUBSET (DOMAIN ts), NEW l
  PROVE  l \in SequentialDecreasing(ts, places) <=> IsChainLead(Values(ts, places), l)
  <1> DEFINE T == Values(ts, places)
             name == "sequential-decreasing-transfer"
             third(i, j) == First(ts, Thirds(ts, places, i, j))
  <1>1. /\ \A i \in places : ts[i] \in T
        /\ \A t \in T : \E i \in places : ts[i] = t
    BY DEF Values
  <1>2. ASSUME NEW i, NEW j
        PROVE  /\ Thirds(ts, places, i, j) # {} <=> ThirdsAmong(T, ts[i], ts[j]) # {}
               /\ Thirds(ts, places, i, j) # {} =>
                     Ids(ts, {i, j, third(i, j)})
                         = {ts[i].id, ts[j].id, FirstAmong(ThirdsAmong(T, ts[i], ts[j])).id}
    <2> DEFINE thirds == Thirds(ts, places, i, j)
    <2>1. thirds \in SUBSET (DOMAIN ts) /\ Values(ts, thirds) = ThirdsAmong(T, ts[i], ts[j])
      <3> HIDE DEF T
      <3> QED
        BY <1>1 DEF Thirds, ThirdsAmong, Values
    <2>2. thirds # {} <=> ThirdsAmong(T, ts[i], ts[j]) # {}
      BY <2>1 DEF Values
    <2>3. thirds # {} => ts[third(i, j)] = FirstAmong(ThirdsAmong(T, ts[i], ts[j]))
      BY <2>1, FirstIsFirstAmong
    <2>4. Ids(ts, {i, j, third(i, j)}) = {ts[i].id, ts[j].id, ts[third(i, j)].id}
      BY DEF Ids
    <2> HIDE DEF T, third
    <2> QED
      BY <2>2, <2>3, <2>4
  <1> HIDE DEF T, third, name
  <1>3. ASSUME NEW i \in places, NEW j \in places,
               Fans(ts[i]), Continues(ts[i], ts[j], {ts[i].from, ts[j].from}),
               Thirds(ts, places, i, j) # {},
               l = Lead(name, ts[i].from, Ids(ts, {i, j, third(i, j)}))
        PROVE  IsChainLead(T, l)
    <2> DEFINE s == ts[i]
               t == ts[j]
    <2>1. /\ s \in T /\ t \in T /\ Fans(s) /\ Continues(s, t, {s.from, t.from})
          /\ ThirdsAmong(T, s, t) # {}
          /\ l = Lead(name, s.from, {s.id, t.id, FirstAmong(ThirdsAmong(T, s, t)).id})
      BY <1>1, <1>2, <1>3
    <2> HIDE DEF s, t
    <2> QED
      BY <2>1 DEF IsChainLead, name
  <1>4. ASSUME IsChainLead(T, l) PROVE l \in SequentialDecreasing(ts, places)
    <2>1. PICK s \in T : \E t \in T :
             /\ Fans(s) /\ Continues(s, t, {s.from, t.from})
             /\ ThirdsAmong(T, s, t) # {}
             /\ l = Lead(name, s.from, {s.id, t.id, FirstAmong(ThirdsAmong(T, s, t)).id})
      BY <1>4 DEF IsChainLead, name
    <2>2. PICK t \in T :
             /\ Fans(s) /\ Continues(s, t, {s.from, t.from})
             /\ ThirdsAmong(T, s, t) # {}
             /\ l = Lead(name, s.from, {s.id, t.id, FirstAmong(ThirdsAmong(T, s, t)).id})
      BY <2>1
    <2>3. PICK i \in places : ts[i] = s
      BY <1>1
    <2>4. PICK j \in places : ts[j] = t
      BY <1>1
    <2>5. /\ Fans(ts[i]) /\ Continues(ts[i], ts[j], {ts[i].from, ts[j].from})
          /\ Thirds(ts, places, i, j) # {}
          /\ l = Lead(name, ts[i].from, Ids(ts, {i, j, third(i, j)}))
      BY <1>2, <2>2, <2>3, <2>4
    <2> QED
      BY <2>5, ChainLeads DEF IsChainAt, name, third
  <1>5. ASSUME l \in SequentialDecreasing(ts, places) PROVE IsChainLead(T, l)
    <2>1. PICK i \in places, j \in places : IsChainAt(ts, places, i, j, l)
      BY <1>5, ChainLeads
    <2>2. /\ Fans(ts[i]) /\ Continues(ts[i], ts[j], {ts[i].from, ts[j].from})
          /\ Thirds(ts, places, i, j) # {}
          /\ l = Lead(name, ts[i].from, Ids(ts, {i, j, third(i, j)}))
      BY <2>1 DEF IsChainAt, name, third
    <2> QED
      BY <1>3, <2>2
  <1> QED
    BY <1>4, <1>5 DEF T

(* The sixth rule counts places: a transfer given twice is two.  Pages with  *)
(* the same transfers the same number of times have the same leads.          *)
LEMMA BriefLeadMoves ==
  ASSUME NEW ts, Paged(ts), NEW places \in SUBSET (DOMAIN ts),
         NEW us, NEW others \in SUBSET (DOMAIN us),
         NEW f, \A i \in places : f[i] \in others /\ us[f[i]] = ts[i],
         NEW g, \A k \in others : g[k] \in places /\ f[g[k]] = k,
         \A i \in places : g[f[i]] = i,
         NEW l \in BriefIntermediary(ts, places)
  PROVE  l \in BriefIntermediary(us, others)
  <1>1. PICK m \in Addresses(ts, places) \ {NoAddress} : IsBriefAt(ts, places, m, l)
    BY BriefLeads
  <1> DEFINE group == {k \in places : Touches(ts[k], m)}
             moved == {k \in others : Touches(us[k], m)}
             Fits(s, t) == /\ ~Before(t, s) /\ PassesOn(s, t, m)
                           /\ s.amount >= 0 /\ s.amount = t.amount
  <1>2. PICK i \in places, j \in places : group = {i, j} /\ i # j /\ Fits(ts[i], ts[j])
    BY <1>1 DEF IsBriefAt
  <1> HIDE DEF Fits
  <1>3. moved = {f[i], f[j]}
    <2>1. f[i] \in moved /\ f[j] \in moved
      BY <1>2
    <2>2. ASSUME NEW k \in moved PROVE k \in {f[i], f[j]}
      <3>1. g[k] \in group
        OBVIOUS
      <3> QED
        BY <1>2, <3>1
    <2> HIDE DEF moved
    <2> QED
      BY <2>1, <2>2
  <1>4. f[i] # f[j] /\ Fits(us[f[i]], us[f[j]])
    BY <1>2
  <1>5. m \in Addresses(us, others) \ {NoAddress}
    <2>1. ts[i].to = m /\ us[f[i]] = ts[i] /\ f[i] \in others
      BY <1>2 DEF Fits, PassesOn
    <2> QED
      BY <1>1, <2>1 DEF Addresses
  <1>6. Ids(us, moved) = Ids(ts, group)
    <2>1. Ids(us, moved) = {us[f[i]].id, us[f[j]].id}
      BY <1>3 DEF Ids
    <2>2. Ids(ts, group) = {ts[i].id, ts[j].id}
      BY <1>2 DEF Ids
    <2> QED
      BY <2>1, <2>2
  <1>7. l = Lead("brief-intermediary-pass-through", m, Ids(us, moved))
    BY <1>1, <1>6 DEF IsBriefAt
  <1>8. f[i] \in others /\ f[j] \in others
    OBVIOUS
  <1>9. IsBriefAt(us, others, m, l)
    BY <1>3, <1>4, <1>7, <1>8 DEF IsBriefAt, Fits
  <1> QED
    BY <1>5, <1>9, BriefLeads

LEMMA SameFindings ==
  ASSUME NEW ts, Paged(ts), NEW places \in SUBSET (DOMAIN ts),
         NEW us, Paged(us), NEW others \in SUBSET (DOMAIN us),
         NEW f, \A i \in places : f[i] \in others /\ us[f[i]] = ts[i],
         NEW g, \A k \in others : g[k] \in places /\ f[g[k]] = k,
         \A i \in places : g[f[i]] = i,
         NEW rule \in Catalog
  PROVE  Detected(rule, ts, places) = Detected(rule, us, others)
  <1>1. \A k \in others : us[k] = ts[g[k]]
    OBVIOUS
  <1>2. Values(ts, places) = Values(us, others)
    <2>1. ASSUME NEW i \in places PROVE ts[i] \in Values(us, others)
      BY DEF Values
    <2>2. ASSUME NEW k \in others PROVE us[k] \in Values(ts, places)
      BY <1>1 DEF Values
    <2>3. /\ \A t \in Values(ts, places) : t \in Values(us, others)
          /\ \A t \in Values(us, others) : t \in Values(ts, places)
      <3> DEFINE T == Values(ts, places)
                 U == Values(us, others)
      <3>1. /\ \A t \in T : \E i \in places : t = ts[i]
            /\ \A t \in U : \E k \in others : t = us[k]
        BY DEF Values
      <3> HIDE DEF T, U
      <3>2. (\A t \in T : t \in U) /\ (\A t \in U : t \in T)
        BY <2>1, <2>2, <3>1 DEF T, U
      <3> QED
        BY <3>2 DEF T, U
    <2> QED
      BY <2>3
  <1>3. \A name, inbound : Fan(name, ts, places, inbound) = Fan(name, us, others, inbound)
    BY <1>2, FanLeadValues
  <1>4. RepeatedEqualAmount(ts, places) = RepeatedEqualAmount(us, others)
    BY <1>2, EqualLeadValues
  <1>5. RapidOnward(ts, places) = RapidOnward(us, others)
    BY <1>2, RapidLeadValues
  <1>6. SequentialDecreasing(ts, places) = SequentialDecreasing(us, others)
    BY <1>2, ChainLeadValues
  <1>7. BriefIntermediary(ts, places) = BriefIntermediary(us, others)
    <2>1. \A l \in BriefIntermediary(ts, places) : l \in BriefIntermediary(us, others)
      BY BriefLeadMoves
    <2>2. \A l \in BriefIntermediary(us, others) : l \in BriefIntermediary(ts, places)
      BY <1>1, BriefLeadMoves
    <2> QED
      BY <2>1, <2>2
  <1> QED
    BY <1>3, <1>4, <1>5, <1>6, <1>7 DEF Detected, Catalog

(* A lead rests on transfers that were given.                               *)
LEMMA LeadsAreGiven ==
  ASSUME NEW ts, Paged(ts), NEW places \in SUBSET (DOMAIN ts), NEW rule \in Catalog,
         NEW l \in Detected(rule, ts, places)
  PROVE  l.ids \subseteq Ids(ts, places)
  <1>1. \A a, b, c : Lead(a, b, c).ids = c
    BY DEF Lead
  <1>2. \A S \in SUBSET places : Ids(ts, S) \subseteq Ids(ts, places)
    BY DEF Ids
  <1>3. \A group, inbound : FirstDistinctWindow(ts, group, inbound) \subseteq group
    <2> TAKE group, inbound
    <2>1. \A i, j : Stretch(ts, group, i, j) \subseteq group
      BY DEF Stretch
    <2> QED
      BY <2>1 DEF FirstDistinctWindow
  <1>4. ASSUME NEW inbound, l \in Fan(rule, ts, places, inbound)
        PROVE  l.ids \subseteq Ids(ts, places)
    <2>1. PICK i \in places :
             l = Lead(rule, Subject(ts[i], inbound),
                      Ids(ts, FirstFans(ts, places, inbound, Subject(ts[i], inbound),
                                        ts[i].asset)))
      BY <1>4, FanLeads
    <2>2. \A m, a : FirstFans(ts, places, inbound, m, a) \in SUBSET places
      BY <1>3 DEF FirstFans, FanGroup
    <2> QED
      BY <1>1, <1>2, <2>1, <2>2
  <1>5. ASSUME l \in RepeatedEqualAmount(ts, places)
        PROVE  l.ids \subseteq Ids(ts, places)
    <2>1. PICK i \in places :
             l = Lead("repeated-equal-amount-dispersion", ts[i].from,
                      Ids(ts, FirstEquals(ts, places, ts[i].from, ts[i].asset, ts[i].amount)))
      BY <1>5, EqualLeads
    <2>2. \A m, a, n : FirstEquals(ts, places, m, a, n) \in SUBSET places
      BY <1>3 DEF FirstEquals, EqualGroup, FanGroup
    <2> QED
      BY <1>1, <1>2, <2>1, <2>2
  <1>6. ASSUME l \in RapidOnward(ts, places) PROVE l.ids \subseteq Ids(ts, places)
    <2>1. PICK n \in places : /\ Ins(ts, places, ts[n].to, ts[n].asset) # {}
                             /\ l = RapidLead(ts, places, ts[n].to, ts[n].asset)
      BY <1>6, RapidLeads
    <2> DEFINE m == ts[n].to
               a == ts[n].asset
               in == InOf(ts, places, m, a)
               out == OutOf(ts, places, m, a)
    <2>2. in \in Ins(ts, places, m, a)
      <3>1. Ins(ts, places, m, a) \in SUBSET (DOMAIN ts)
        BY DEF Ins
      <3> QED
        BY <2>1, <3>1, FirstIs DEF InOf
    <2>3. out \in Outs(ts, places, ts[in], m)
      <3>1. Outs(ts, places, ts[in], m) \in SUBSET (DOMAIN ts)
            /\ Outs(ts, places, ts[in], m) # {}
        BY <2>2 DEF Ins, Outs
      <3> QED
        BY <3>1, FirstIs DEF OutOf
    <2>4. {in, out} \in SUBSET places
      BY <2>2, <2>3 DEF Ins, Outs
    <2> QED
      BY <1>1, <1>2, <2>1, <2>4 DEF RapidLead
  <1>7. ASSUME l \in SequentialDecreasing(ts, places) PROVE l.ids \subseteq Ids(ts, places)
    <2>1. PICK i \in places, j \in places : IsChainAt(ts, places, i, j, l)
      BY <1>7, ChainLeads
    <2> DEFINE thirds == Thirds(ts, places, i, j)
               k == First(ts, thirds)
    <2>2. /\ thirds # {} /\ l.ids = Ids(ts, {i, j, k})
          /\ thirds \in SUBSET (DOMAIN ts) /\ thirds \in SUBSET places
      BY <1>1, <2>1 DEF IsChainAt, Thirds
    <2>3. k \in places
      <3> HIDE DEF thirds
      <3> QED
        BY <2>2, FirstIs
    <2> HIDE DEF k
    <2> QED
      BY <1>2, <2>2, <2>3
  <1>8. ASSUME l \in BriefIntermediary(ts, places) PROVE l.ids \subseteq Ids(ts, places)
    <2>1. PICK m : IsBriefAt(ts, places, m, l)
      BY <1>8, BriefLeads
    <2>2. l.ids = Ids(ts, {i \in places : Touches(ts[i], m)})
      BY <1>1, <2>1 DEF IsBriefAt
    <2> QED
      BY <1>2, <2>2
  <1> QED
    BY <1>4, <1>5, <1>6, <1>7, <1>8 DEF Detected, Catalog

LEMMA RunsAreReplayed == RulesInv => ReplaysExact
  <1> SUFFICES ASSUME RulesInv PROVE ReplaysExact
    OBVIOUS
  <1> DEFINE ts == observed
             backed == ConfirmationBacked(observed)
             inputs == Run("fan-in-consolidation", observed).inputs
             recorded == {i \in DOMAIN ts : ts[i].id \in inputs}
  <1>1. Paged(ts) /\ backed \in SUBSET (DOMAIN ts)
    BY ObservedIsPaged
  <1>2. \A rule, xs : Run(rule, xs) = [rule |-> rule, inputs |-> Ids(xs, ConfirmationBacked(xs)),
                                      result |-> Detected(rule, xs, ConfirmationBacked(xs))]
    BY DEF Run
  <1>3. inputs = Ids(ts, backed)
    BY <1>2
  <1>4. \A i \in backed : ~ts[i].provisional /\ ts[i].at # 0
    BY DEF ConfirmationBacked
  <1> HIDE DEF ts, backed, inputs
  <1>5. \A i \in DOMAIN ts : ts[i].id \in Ids(ts, backed) => i \in backed
    <2> SUFFICES ASSUME NEW i \in DOMAIN ts, ts[i].id \in Ids(ts, backed) PROVE i \in backed
      OBVIOUS
    <2>1. PICK j \in backed : ts[i].id = ts[j].id
      BY DEF Ids
    <2>2. ts[i] = ts[j]
      BY <1>1, <2>1 DEF Paged
    <2> QED
      BY <1>4, <2>2 DEF ts, backed, ConfirmationBacked
  <1>6. recorded = backed
    BY <1>1, <1>3, <1>5 DEF Ids
  <1> HIDE DEF recorded
  <1>7. ASSUME NEW i \in recorded, NEW j \in recorded
        PROVE  Runs(Reordered(ts, recorded, Exchange(recorded, i, j))) = Runs(ts)
    <2> DEFINE order == Exchange(recorded, i, j)
               us == Reordered(ts, recorded, order)
    <2>1. \A k \in recorded : order[k] \in recorded /\ order[order[k]] = k
      BY DEF Exchange
    <2>2. DOMAIN us = recorded /\ \A k \in recorded : us[k] = ts[order[k]]
      BY DEF Reordered
    <2> HIDE DEF order, us
    <2>3. Paged(us)
      <3>1. IsFiniteSet(recorded)
        BY <1>1, <1>6, FS_Subset DEF Paged
      <3>2. \A k \in recorded : order[k] \in DOMAIN ts /\ us[k] = ts[order[k]]
        BY <1>1, <1>6, <2>1, <2>2
      <3> QED
        BY <1>1, <2>2, <3>1, <3>2 DEF Paged
    <2>4. ConfirmationBacked(us) = recorded
      BY <1>4, <1>6, <2>1, <2>2 DEF ConfirmationBacked
    <2>5. \A k \in recorded : order[k] \in recorded /\ us[order[k]] = ts[k]
      BY <2>1, <2>2
    <2>6. Ids(us, recorded) = Ids(ts, recorded)
      <3>1. \A k \in recorded : us[k].id \in Ids(ts, recorded)
        BY <2>1, <2>2 DEF Ids
      <3>2. \A k \in recorded : ts[k].id \in Ids(us, recorded)
        BY <2>5 DEF Ids
      <3> QED
        BY <3>1, <3>2 DEF Ids
    <2>7. ASSUME NEW rule \in Catalog PROVE Run(rule, us) = Run(rule, ts)
      <3>1. Detected(rule, ts, recorded) = Detected(rule, us, recorded)
        BY <1>1, <1>6, <2>1, <2>2, <2>3, <2>5, SameFindings
      <3>2. ConfirmationBacked(ts) = recorded
        BY <1>6 DEF ts, backed
      <3> QED
        BY <1>2, <2>4, <2>6, <3>1, <3>2
    <2>8. Runs(us) = Runs(ts)
      BY <2>7 DEF Runs
    <2> QED
      BY <2>8 DEF us, order
  <1>8. ASSUME NEW r \in Runs(ts), NEW l \in r.result
        PROVE  /\ l.ids \subseteq r.inputs
               /\ \A i \in DOMAIN ts : ts[i].id \in l.ids => ~ts[i].provisional
    <2>1. PICK rule \in Catalog : r = Run(rule, ts)
      BY DEF Runs
    <2>2. r.inputs = Ids(ts, backed) /\ l \in Detected(rule, ts, backed)
      BY <1>2, <1>8, <2>1 DEF ts, backed
    <2>3. l.ids \subseteq Ids(ts, backed)
      BY <1>1, <2>2, LeadsAreGiven
    <2> QED
      BY <1>4, <1>5, <2>2, <2>3
  <1> QED
    BY <1>7, <1>8 DEF ReplaysExact, ts, inputs, recorded

(* tracing.proto:290: what a run recorded is enough to repeat it: the        *)
(* transfers it was given, with any two exchanged, give the same leads under *)
(* every rule, and no lead rests on one that its run did not record or that  *)
(* is provisional; for any transfers, windows and page size.                 *)
THEOREM RunsReplayHold == ResolveSpec => []RunsReplay
  <1>1. EvidenceInv /\ Counted /\ IInv /\ RulesInv => RunsReplay
    BY RunsAreReplayed DEF RunsReplay
  <1> QED
    BY <1>1, ResolveInvHolds, PTL

=============================================================================

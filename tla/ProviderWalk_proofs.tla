-------------------------- MODULE ProviderWalk_proofs --------------------------
(***************************************************************************)
(* The walk for any lists an address may have, any limit and page sizes,   *)
(* any number of arrivals, failures and pages.  The argument: what arrives *)
(* is put before what is there, so a token keeps its entry (Resumes) and   *)
(* everything behind it; what a walk has not listed of its base is behind  *)
(* the tokens of its cursor (Covered).  An id is made of what an entry is  *)
(* and not of the page, the cursor or the place it is listed at (Genuine), *)
(* so it tells as much as the entry does.                                  *)
(***************************************************************************)
EXTENDS ProviderWalk, SequenceTheorems, FiniteSetTheorems, NaturalsInduction,
        WellFoundedInduction, TLAPS

-----------------------------------------------------------------------------
(* Lists and tokens.                                                       *)

Distinct(q) == \A i, j \in DOMAIN q : q[i].n = q[j].n => i = j

Resumes(q, token) == token = 0 \/ \E i \in DOMAIN q : q[i].n = token

LEMMA ListFacts ==
  ASSUME NEW p, NEW h, Indexed(p, h), NEW s \in Lists(p)
  PROVE  /\ DOMAIN h = Lists(p)
         /\ h[s] \in Seq(Entries)
         /\ Len(h[s]) \in Nat /\ DOMAIN h[s] = 1 .. Len(h[s])
         /\ \A i \in DOMAIN h[s] : h[s][i] \in Entries
         /\ Distinct(h[s])
  <1>1. h \in [Lists(p) -> Seq(Entries)]
    BY DEF Indexed
  <1>2. DOMAIN h = Lists(p) /\ h[s] \in Seq(Entries)
    BY <1>1
  <1>3. Distinct(h[s])
    BY DEF Indexed, Distinct
  <1> QED
    BY <1>2, <1>3, LenProperties, ElementOfSeq

LEMMA EntryFacts ==
  ASSUME NEW e \in Entries
  PROVE  /\ e.n \in Nat \ {0} /\ e.parts \in Nat
         /\ e.shape \in {"plain", "broken"}
  BY DEF Entries

LEMMA PositionOf ==
  ASSUME NEW q \in Seq(Entries), Distinct(q), NEW i \in DOMAIN q
  PROVE  Position(q, q[i].n) = i
  <1>1. q[i].n # 0
    BY LenProperties, ElementOfSeq, EntryFacts
  <1> QED
    BY <1>1 DEF Position, Distinct

LEMMA PositionIn ==
  ASSUME NEW q \in Seq(Entries), Distinct(q), NEW token, Resumes(q, token)
  PROVE  Position(q, token) \in 0 .. Len(q)
  <1>1. CASE token = 0
    BY <1>1, LenProperties DEF Position
  <1>2. CASE token # 0
    <2>1. PICK i \in DOMAIN q : q[i].n = token
      BY <1>2 DEF Resumes
    <2> QED
      BY <2>1, PositionOf, LenProperties
  <1> QED
    BY <1>1, <1>2

(* What is behind a token is on its page or behind the token of the next.   *)
LEMMA PageCovers ==
  ASSUME NEW q \in Seq(Entries), Distinct(q), NEW token, Resumes(q, token),
         NEW k \in Nat \ {0}
  PROVE  /\ Resumes(q, NextToken(q, token, k))
         /\ \A i \in DOMAIN q : Position(q, token) < i =>
               \/ i \in Following(q, token, k)
               \/ /\ NextToken(q, token, k) # 0
                  /\ Position(q, NextToken(q, token, k)) < i
  <1> DEFINE at == Position(q, token)
             last == at + k
  <1>1. at \in 0 .. Len(q) /\ Len(q) \in Nat /\ DOMAIN q = 1 .. Len(q)
    BY PositionIn, LenProperties
  <1>2. CASE last < Len(q)
    <2>1. last \in DOMAIN q /\ NextToken(q, token, k) = q[last].n
      BY <1>1, <1>2 DEF NextToken
    <2>2. Position(q, q[last].n) = last /\ q[last].n # 0
      BY <2>1, PositionOf, ElementOfSeq, EntryFacts, <1>1
    <2> QED
      BY <1>1, <2>1, <2>2 DEF Following, Resumes
  <1>3. CASE ~(last < Len(q))
    <2>1. NextToken(q, token, k) = 0
      BY <1>3 DEF NextToken
    <2> QED
      BY <1>1, <1>3, <2>1 DEF Following, Resumes
  <1> QED
    BY <1>2, <1>3

LEMMA Prepended ==
  ASSUME NEW q \in Seq(Entries), NEW e \in Entries
  PROVE  /\ <<e>> \o q \in Seq(Entries)
         /\ Len(<<e>> \o q) = Len(q) + 1
         /\ (<<e>> \o q)[1] = e
         /\ \A i \in DOMAIN q : i + 1 \in DOMAIN (<<e>> \o q) /\ (<<e>> \o q)[i + 1] = q[i]
         /\ \A i \in DOMAIN (<<e>> \o q) : i = 1 \/ i - 1 \in DOMAIN q
  <1>1. <<e>> \in Seq(Entries) /\ Len(<<e>>) = 1 /\ <<e>>[1] = e
    OBVIOUS
  <1>2. /\ <<e>> \o q \in Seq(Entries)
        /\ Len(<<e>> \o q) = 1 + Len(q)
        /\ \A i \in 1 .. 1 + Len(q) :
              (<<e>> \o q)[i] = IF i <= 1 THEN <<e>>[i] ELSE q[i - 1]
    BY <1>1, ConcatProperties
  <1>3. Len(q) \in Nat /\ DOMAIN q = 1 .. Len(q) /\ DOMAIN (<<e>> \o q) = 1 .. 1 + Len(q)
    BY <1>2, LenProperties
  <1> QED
    BY <1>1, <1>2, <1>3

(* A token keeps its place before what follows it.                          *)
LEMMA TokenKept ==
  ASSUME NEW q \in Seq(Entries), Distinct(q), NEW e \in Entries, Distinct(<<e>> \o q),
         NEW token, Resumes(q, token)
  PROVE  /\ Resumes(<<e>> \o q, token)
         /\ token # 0 => Position(<<e>> \o q, token) = Position(q, token) + 1
  <1>1. CASE token = 0
    BY <1>1 DEF Resumes
  <1>2. CASE token # 0
    <2>1. PICK i \in DOMAIN q : q[i].n = token
      BY <1>2 DEF Resumes
    <2>2. Position(q, token) = i
      BY <2>1, PositionOf
    <2>3. i + 1 \in DOMAIN (<<e>> \o q) /\ (<<e>> \o q)[i + 1].n = token
      BY <2>1, Prepended
    <2>4. <<e>> \o q \in Seq(Entries)
      BY Prepended
    <2>5. Position(<<e>> \o q, (<<e>> \o q)[i + 1].n) = i + 1
      BY <2>3, <2>4, PositionOf
    <2> QED
      BY <2>2, <2>3, <2>5 DEF Resumes
  <1> QED
    BY <1>1, <1>2

-----------------------------------------------------------------------------
(* Transfers and their events.                                             *)

Seen(ts) == {Event(t) : t \in ts}

LEMMA TransfersAre ==
  ASSUME NEW q, NEW places, NEW id
  PROVE  \A t : t \in Transfers(q, places, id) <=>
            \E i \in places : \E m \in 1 .. q[i].parts :
               <<i, m>> \in Parts(q, places) /\ t = TransferItem(q[i], m, id[<<i, m>>])
  <1>1. \A x : x \in Parts(q, places) <=>
            \E i \in places : \E m \in 1 .. q[i].parts : x = <<i, m>>
    BY DEF Parts
  <1>2. \A t : t \in Transfers(q, places, id) <=>
            \E x \in Parts(q, places) : t = TransferItem(q[x[1]], x[2], id[x])
    BY DEF Transfers
  <1> TAKE t
  <1>3. ASSUME t \in Transfers(q, places, id)
        PROVE  \E i \in places : \E m \in 1 .. q[i].parts :
                  <<i, m>> \in Parts(q, places) /\ t = TransferItem(q[i], m, id[<<i, m>>])
    <2>1. PICK x \in Parts(q, places) : t = TransferItem(q[x[1]], x[2], id[x])
      BY <1>2, <1>3
    <2>4. PICK i \in places : \E m \in 1 .. q[i].parts : x = <<i, m>>
      BY <1>1, <2>1
    <2>2. PICK m \in 1 .. q[i].parts : x = <<i, m>>
      BY <2>4
    <2>3. x[1] = i /\ x[2] = m
      BY <2>2
    <2> QED
      BY <2>1, <2>2, <2>3
  <1>4. ASSUME NEW i \in places, NEW m \in 1 .. q[i].parts,
               <<i, m>> \in Parts(q, places), t = TransferItem(q[i], m, id[<<i, m>>])
        PROVE  t \in Transfers(q, places, id)
    <2>1. <<i, m>>[1] = i /\ <<i, m>>[2] = m
      OBVIOUS
    <2> QED
      BY ONLY <1>2, <1>4, <2>1
  <1> QED
    BY <1>3, <1>4

LEMMA EventOf ==
  ASSUME NEW e, NEW m, NEW id
  PROVE  Event(TransferItem(e, m, id)) = <<e.n, m>>
  BY DEF Event, TransferItem

LEMMA TransfersSeen ==
  ASSUME NEW q, NEW places, NEW id, NEW i \in places, NEW m \in 1 .. q[i].parts
  PROVE  <<q[i].n, m>> \in Seen(Transfers(q, places, id))
  <1>1. <<i, m>> \in Parts(q, places)
    BY DEF Parts
  <1>2. TransferItem(q[i], m, id[<<i, m>>]) \in Transfers(q, places, id)
    BY <1>1, TransfersAre
  <1> QED
    BY <1>2, EventOf DEF Seen

LEMMA EventsAre ==
  ASSUME NEW h
  PROVE  \A x : x \in Events(h) <=>
            \E s \in DOMAIN h : \E i \in DOMAIN h[s] :
               /\ h[s][i].shape = "plain"
               /\ \E m \in 1 .. h[s][i].parts : x = <<h[s][i].n, m>>
  BY DEF Events, Listed

LEMMA SeenMore ==
  ASSUME NEW ts, NEW us, ts \subseteq us
  PROVE  Seen(ts) \subseteq Seen(us)
  BY DEF Seen

LEMMA FailedFields == ~Failed.ok /\ ~Failed.complete
  BY DEF Failed

LEMMA ListsAre ==
  /\ Lists("etherscan") = {"normal", "internal", "tokens"}
  /\ Lists("alchemy") = {"inbound", "outbound"}
  /\ Lists("blockscout") = {"transactions", "internal", "tokens"}
  /\ Lists("tron") = {"native", "trc20", "internal"}
  /\ Lists("ton") = {"transactions"}
  /\ Lists("cardano") = {"transactions"}
  /\ Lists("solana") = {"transactions"}
  BY DEF Lists, Source, EtherscanSource, EtherscanLists, AlchemySource, BlockscoutSource,
         TronSource, TonSource, CardanoSource, SolanaSource

-----------------------------------------------------------------------------
(* Complete pages.                                                         *)

LEMMA SizesPositive ==
  /\ PerSourceLimit \in Nat \ {0} /\ CardanoPerPage \in Nat \ {0}
  /\ TronPerSource \in Nat \ {0} /\ Limit \in Nat \ {0}
  <1>1. Limit \in Nat /\ Limit >= 1
    BY LimitAssumption
  <1>2. PerSourceLimit \in Nat /\ PerSourceLimit >= 1
    BY <1>1 DEF PerSourceLimit
  <1>3. TronPerSource \in Nat /\ TronPerSource >= 1
    BY <1>1 DEF TronPerSource
  <1> QED
    BY <1>1, <1>2, <1>3 DEF CardanoPerPage

(* A first page without a sign of more has the whole list.                  *)
LEMMA FirstNumbered ==
  ASSUME NEW q \in Seq(Entries), NEW k \in Nat \ {0},
         ~(Cardinality(Numbered(q, 1, k + 1, k + 1)) > k),
         NEW i \in DOMAIN q
  PROVE  i \in Numbered(q, 1, k + 1, k)
  <1>1. Len(q) \in Nat /\ DOMAIN q = 1 .. Len(q)
    BY LenProperties
  <1>2. (1 - 1) * (k + 1) = 0
    OBVIOUS
  <1>3. ~(Len(q) > k)
    <2> SUFFICES ASSUME Len(q) > k PROVE FALSE
      OBVIOUS
    <2>1. Numbered(q, 1, k + 1, k + 1) = 1 .. k + 1
      BY <1>1, <1>2 DEF Numbered
    <2>2. Cardinality(1 .. k + 1) = k + 1
      BY FS_Interval
    <2> QED
      BY <2>1, <2>2
  <1> QED
    BY <1>1, <1>2, <1>3 DEF Numbered

LEMMA EtherscanWhole ==
  ASSUME NEW h, Indexed("etherscan", h), NEW failing,
         EtherscanListTransfers(h, EtherscanStart, failing).ok,
         EtherscanListTransfers(h, EtherscanStart, failing).complete
  PROVE  Events(h) \subseteq Seen(EtherscanListTransfers(h, EtherscanStart, failing).transfers)
  <1> DEFINE L == EtherscanListTransfers(h, EtherscanStart, failing)
             items(s) == EtherscanItems(s, h[s], 1, failing)
             more == \E s \in EtherscanLists : HasMore(Fetched(h[s], 1))
             all == UNION {items(s) : s \in EtherscanLists}
  <1>1. EtherscanPage(EtherscanStart) = 1
    BY DEF EtherscanPage, EtherscanStart
  <1>2. L = TransferPage(all, more, 1, FALSE)
    BY <1>1, FailedFields DEF EtherscanListTransfers
  <1>3. L.transfers = all /\ ~more
    <2>1. more \in BOOLEAN
      OBVIOUS
    <2>2. L.complete
      OBVIOUS
    <2> HIDE DEF more, all, L
    <2> QED
      BY <1>2, <2>1, <2>2 DEF TransferPage, PageStatus
  <1>4. Lists("etherscan") = EtherscanLists
    BY ListsAre DEF EtherscanLists
  <1>8. DOMAIN h = EtherscanLists
    BY <1>4 DEF Indexed
  <1> HIDE DEF L, all
  <1> SUFFICES ASSUME NEW s \in EtherscanLists, NEW i \in DOMAIN h[s],
                      NEW m \in 1 .. h[s][i].parts
               PROVE  <<h[s][i].n, m>> \in Seen(all)
    BY <1>3, <1>8, EventsAre DEF L
  <1> USE DEF all
  <1>5. h[s] \in Seq(Entries) /\ ~HasMore(Fetched(h[s], 1))
    BY <1>3, <1>4, ListFacts
  <1>6. i \in ListTransferSource(h[s], 1)
    BY <1>5, FirstNumbered, SizesPositive DEF HasMore, Fetched, ListTransferSource
  <1>7. <<h[s][i].n, m>> \in Seen(items(s))
    BY <1>6, TransfersSeen DEF EtherscanItems
  <1> QED
    BY <1>7, SeenMore

LEMMA CardanoWhole ==
  ASSUME NEW h, Indexed("cardano", h), NEW failing,
         CardanoListTransfers(h, CardanoStart, failing).ok,
         CardanoListTransfers(h, CardanoStart, failing).complete
  PROVE  Events(h) \subseteq Seen(CardanoListTransfers(h, CardanoStart, failing).transfers)
  <1> DEFINE L == CardanoListTransfers(h, CardanoStart, failing)
             txs == h["transactions"]
             fetched == Numbered(txs, 1, CardanoPerPage + 1, CardanoPerPage + 1)
             all == CardanoItems(txs, 1)
  <1>1. L = TransferPage(all, CardanoHasMore(fetched), 1 + 1, FALSE)
    BY FailedFields DEF CardanoListTransfers, CardanoStart
  <1>2. L.transfers = all /\ ~CardanoHasMore(fetched)
    <2>1. CardanoHasMore(fetched) \in BOOLEAN
      BY DEF CardanoHasMore
    <2>2. L.complete
      OBVIOUS
    <2> HIDE DEF all, fetched, L
    <2> QED
      BY <1>1, <2>1, <2>2 DEF TransferPage, PageStatus
  <1> SUFFICES ASSUME NEW i \in DOMAIN txs, NEW m \in 1 .. txs[i].parts
               PROVE  <<txs[i].n, m>> \in Seen(all)
    <2>1. DOMAIN h = {"transactions"}
      BY ListsAre DEF Indexed
    <2> HIDE DEF all, L
    <2> QED
      BY <1>2, <2>1, EventsAre DEF L
  <1>3. txs \in Seq(Entries)
    BY ListsAre, ListFacts
  <1>4. i \in Numbered(txs, 1, CardanoPerPage + 1, CardanoPerPage)
    BY <1>2, <1>3, FirstNumbered, SizesPositive DEF CardanoHasMore
  <1> QED
    BY <1>4, TransfersSeen DEF CardanoItems

-----------------------------------------------------------------------------
(* TON's and TRON's pages.                                                 *)

Token(p, c, s) == IF p = "ton" THEN c ELSE c[s]

(* What a keyset page does with the lists and the tokens it is asked for.   *)
Lasts(p, h, c) == \A s \in Lists(p) : Resumes(h[s], Token(p, c, s))

\* Place i of list s is behind the cursor.
Past(p, h, c, s, i) == Token(p, c, s) # 0 /\ Position(h[s], Token(p, c, s)) < i

LEMMA TonPage ==
  ASSUME NEW h, Indexed("ton", h), NEW c, Lasts("ton", h, c), NEW failing,
         TonListTransfers(h, c, failing).ok
  PROVE  LET L == TonListTransfers(h, c, failing)
         IN  /\ Lasts("ton", h, L.next)
             /\ ~L.more => L.next = 0
             /\ L.complete => ~L.more /\ ~L.warned
             /\ \A s \in Lists("ton") : \A i \in DOMAIN h[s] : \A m \in 1 .. h[s][i].parts :
                   h[s][i].shape = "plain" /\ Position(h[s], Token("ton", c, s)) < i =>
                       \/ <<h[s][i].n, m>> \in Seen(L.transfers)
                       \/ Past("ton", h, L.next, s, i)
  <1> DEFINE L == TonListTransfers(h, c, failing)
             txs == h["transactions"]
             next == TonNext(txs, c)
             all == TonItems(txs, c)
  <1>1. L = TransferPage(all, next # 0, next, FALSE)
    BY FailedFields DEF TonListTransfers
  <1>2. L.transfers = all /\ L.next = next /\ L.more = (next # 0) /\ (L.complete => next = 0)
    <2> HIDE DEF all, next, L
    <2> QED
      BY <1>1 DEF TransferPage, PageStatus
  <1>3. ~L.warned
    <2> HIDE DEF all, next, L
    <2> QED
      BY <1>1 DEF TransferPage
  <1>4. txs \in Seq(Entries) /\ Distinct(txs) /\ Resumes(txs, c) /\ Lists("ton") = {"transactions"}
    BY ListsAre, ListFacts DEF Lasts, Token
  <1>5. /\ Resumes(txs, next)
        /\ \A i \in DOMAIN txs : Position(txs, c) < i =>
              \/ i \in Following(txs, c, Limit)
              \/ next # 0 /\ Position(txs, next) < i
    BY <1>4, PageCovers, SizesPositive DEF TonNext
  <1>6. ASSUME NEW i \in DOMAIN txs, NEW m \in 1 .. txs[i].parts,
               txs[i].shape = "plain", i \in Following(txs, c, Limit)
        PROVE  <<txs[i].n, m>> \in Seen(all)
    <2> DEFINE whole == {j \in Following(txs, c, Limit) : txs[j].shape # "broken"}
    <2>1. i \in whole
      BY <1>6
    <2> HIDE DEF whole
    <2>2. all = Transfers(txs, whole, [q \in Parts(txs, whole) |->
                              TonEventID(q[1] - Position(txs, c), q[2])])
      BY DEF TonItems, whole
    <2> QED
      BY <2>1, <2>2, TransfersSeen
  <1>7. Lasts("ton", h, next)
    BY <1>4, <1>5 DEF Lasts, Token
  <1>8. ASSUME NEW i \in DOMAIN txs, NEW m \in 1 .. txs[i].parts,
               txs[i].shape = "plain", Position(txs, c) < i
        PROVE  <<txs[i].n, m>> \in Seen(all) \/ Past("ton", h, next, "transactions", i)
    BY <1>5, <1>6, <1>8 DEF Past, Token
  <1> HIDE DEF L, all, next
  <1>9. \A i \in DOMAIN txs : \A m \in 1 .. txs[i].parts :
           txs[i].shape = "plain" /\ Position(txs, Token("ton", c, "transactions")) < i =>
               \/ <<txs[i].n, m>> \in Seen(L.transfers)
               \/ Past("ton", h, L.next, "transactions", i)
    BY <1>2, <1>8 DEF Token
  <1> QED
    BY <1>2, <1>3, <1>4, <1>7, <1>9 DEF L

LEMMA TronPage ==
  ASSUME NEW h, Indexed("tron", h), NEW c, Lasts("tron", h, c), NEW failing,
         TronListTransfers(h, c, failing).ok
  PROVE  LET L == TronListTransfers(h, c, failing)
         IN  /\ Lasts("tron", h, L.next)
             /\ ~L.more => L.next = TronStart
             /\ L.complete => ~L.more /\ ~L.warned
             /\ ~L.warned => \A s \in Lists("tron") : \A i \in DOMAIN h[s] :
                  \A m \in 1 .. h[s][i].parts :
                   h[s][i].shape = "plain" /\ Position(h[s], Token("tron", c, s)) < i =>
                       \/ <<h[s][i].n, m>> \in Seen(L.transfers)
                       \/ Past("tron", h, L.next, s, i)
  <1> DEFINE L == TronListTransfers(h, c, failing)
             fails == {s \in TronSource : TronFails(s, h[s], c[s], failing)}
             next == [s \in TronSource |-> TronNext(s, h[s], c[s], failing)]
             items(s) == TronItems(s, h[s], c[s], failing)
             all == UNION {items(s) : s \in TronSource}
  <1>1. L = TransferPage(all, next # TronStart, next, fails # {})
    BY FailedFields DEF TronListTransfers
  <1>2. /\ L.transfers = all /\ L.next = next /\ L.more = (next # TronStart)
        /\ L.warned = (fails # {}) /\ (L.complete => next = TronStart /\ fails = {})
    <2> HIDE DEF all, next, L, fails
    <2> QED
      BY <1>1 DEF TransferPage, PageStatus
  <1>3. Lists("tron") = TronSource
    BY ListsAre DEF TronSource
  <1>4. ASSUME NEW s \in TronSource
        PROVE  /\ h[s] \in Seq(Entries) /\ Distinct(h[s]) /\ Resumes(h[s], c[s])
               /\ Resumes(h[s], NextToken(h[s], c[s], TronPerSource))
               /\ \A i \in DOMAIN h[s] : Position(h[s], c[s]) < i =>
                     \/ i \in Following(h[s], c[s], TronPerSource)
                     \/ /\ NextToken(h[s], c[s], TronPerSource) # 0
                        /\ Position(h[s], NextToken(h[s], c[s], TronPerSource)) < i
    <2>1. h[s] \in Seq(Entries) /\ Distinct(h[s]) /\ Resumes(h[s], c[s])
      BY <1>3, ListFacts DEF Lasts, Token
    <2> QED
      BY <2>1, PageCovers, SizesPositive
  <1>5. ASSUME NEW s \in TronSource
        PROVE  Resumes(h[s], next[s])
    BY <1>4 DEF TronNext, Resumes
  <1>6. Lasts("tron", h, next)
    BY <1>3, <1>5 DEF Lasts, Token
  <1>7. ASSUME NEW s \in TronSource, fails = {},
               NEW i \in DOMAIN h[s], NEW m \in 1 .. h[s][i].parts,
               Position(h[s], c[s]) < i
        PROVE  <<h[s][i].n, m>> \in Seen(all) \/ Past("tron", h, next, s, i)
    <2>1. ~TronFails(s, h[s], c[s], failing)
      BY <1>7
    <2>2. next[s] = NextToken(h[s], c[s], TronPerSource)
      BY <2>1 DEF TronNext
    <2>3. CASE i \in Following(h[s], c[s], TronPerSource)
      <3>1. <<h[s][i].n, m>> \in Seen(items(s))
        BY <2>1, <2>3, TransfersSeen DEF TronItems
      <3> QED
        BY <3>1, SeenMore
    <2>4. CASE i \notin Following(h[s], c[s], TronPerSource)
      BY <1>4, <1>7, <2>2, <2>4 DEF Past, Token
    <2> QED
      BY <2>3, <2>4
  <1> HIDE DEF L, all, next, fails
  <1>8. ~L.warned => \A s \in TronSource : \A i \in DOMAIN h[s] : \A m \in 1 .. h[s][i].parts :
           h[s][i].shape = "plain" /\ Position(h[s], Token("tron", c, s)) < i =>
               \/ <<h[s][i].n, m>> \in Seen(L.transfers)
               \/ Past("tron", h, L.next, s, i)
    BY <1>2, <1>7 DEF Token
  <1> QED
    BY <1>2, <1>3, <1>6, <1>8 DEF L

LEMMA KeysetPage ==
  ASSUME NEW p \in {"ton", "tron"}, NEW h, Indexed(p, h), NEW c, Lasts(p, h, c),
         NEW failing, ListTransfers(p, h, c, failing).ok
  PROVE  LET L == ListTransfers(p, h, c, failing)
         IN  /\ Lasts(p, h, L.next)
             /\ ~L.more => L.next = Start(p)
             /\ L.complete => ~L.more /\ ~L.warned
             /\ ~L.warned => \A s \in Lists(p) : \A i \in DOMAIN h[s] : \A m \in 1 .. h[s][i].parts :
                   h[s][i].shape = "plain" /\ Position(h[s], Token(p, c, s)) < i =>
                       \/ <<h[s][i].n, m>> \in Seen(L.transfers)
                       \/ Past(p, h, L.next, s, i)
  <1>1. CASE p = "ton"
    <2>1. ListTransfers(p, h, c, failing) = TonListTransfers(h, c, failing) /\ Start(p) = 0
      BY <1>1 DEF ListTransfers, Start, TonStart
    <2> QED
      BY <1>1, <2>1, TonPage
  <1>2. CASE p = "tron"
    <2>1. ListTransfers(p, h, c, failing) = TronListTransfers(h, c, failing) /\ Start(p) = TronStart
      BY <1>2 DEF ListTransfers, Start
    <2> QED
      BY <1>2, <2>1, TronPage
  <1> QED
    BY <1>1, <1>2

LEMMA StartTokens ==
  ASSUME NEW p \in {"ton", "tron"}, NEW s \in Lists(p)
  PROVE  Token(p, Start(p), s) = 0
  BY ListsAre DEF Token, Start, TonStart, TronStart, TronSource

-----------------------------------------------------------------------------
(* The invariant.                                                          *)

Shape ==
    /\ provider \in Adapters
    /\ Indexed(provider, history)
    /\ walk \in {"ready", "more", "ended"}
    /\ walk # "more" => cursor = Start(provider)

\* A transfer behind the cursor.
Awaited(x) ==
    \E s \in Lists(provider) : \E i \in DOMAIN history[s] :
        /\ history[s][i].shape = "plain" /\ Past(provider, history, cursor, s, i)
        /\ \E m \in 1 .. history[s][i].parts : x = <<history[s][i].n, m>>

Covered ==
    provider \in {"ton", "tron"} =>
        /\ Lasts(provider, history, cursor)
        /\ walk # "ready" /\ ~partial => \A x \in base : x \in Seen(walked) \/ Awaited(x)

LEMMA InitShape == Init => Shape
  BY WalkAssumption DEF Init, Shape

LEMMA ShapeStep == Shape /\ [Next]_vars => Shape'
  <1> SUFFICES ASSUME Shape, [Next]_vars PROVE Shape'
    OBVIOUS
  <1>1. ASSUME NEW s \in Lists(provider), Arrive(s) PROVE Shape'
    BY <1>1 DEF Arrive, Shape
  <1>2. ASSUME NEW failing \in SUBSET Source(provider), Fetch(failing) PROVE Shape'
    BY <1>2 DEF Fetch, Shape
  <1>3. CASE Restart
    BY <1>3 DEF Restart, Shape
  <1>4. CASE UNCHANGED vars
    BY <1>4 DEF vars, Shape
  <1> QED
    BY <1>1, <1>2, <1>3, <1>4 DEF Next

LEMMA ShapeHolds == Spec => []Shape
  BY InitShape, ShapeStep, PTL DEF Spec

(* A first page that says it is complete.                                   *)
LEMMA FirstPageWhole ==
  ASSUME NEW p \in Adapters \ {"alchemy", "blockscout", "solana"},
         NEW h, Indexed(p, h), NEW failing,
         ListTransfers(p, h, Start(p), failing).ok,
         ListTransfers(p, h, Start(p), failing).complete
  PROVE  Events(h) \subseteq Seen(ListTransfers(p, h, Start(p), failing).transfers)
  <1>1. CASE p = "etherscan"
    BY <1>1, EtherscanWhole DEF ListTransfers, Start
  <1>2. CASE p = "cardano"
    BY <1>2, CardanoWhole DEF ListTransfers, Start
  <1>3. CASE p \in {"ton", "tron"}
    <2> DEFINE c == Start(p)
               L == ListTransfers(p, h, c, failing)
    <2>1. \A s \in Lists(p) : Token(p, c, s) = 0
      BY <1>3, StartTokens
    <2>2. Lasts(p, h, c)
      BY <2>1 DEF Lasts, Resumes
    <2>3. L.ok /\ L.complete
      OBVIOUS
    <2> HIDE DEF c, L
    <2>4. /\ ~L.more => L.next = Start(p)
          /\ L.complete => ~L.more /\ ~L.warned
          /\ ~L.warned => \A s \in Lists(p) : \A i \in DOMAIN h[s] : \A m \in 1 .. h[s][i].parts :
                h[s][i].shape = "plain" /\ Position(h[s], Token(p, c, s)) < i =>
                    <<h[s][i].n, m>> \in Seen(L.transfers) \/ Past(p, h, L.next, s, i)
      BY <1>3, <2>2, <2>3, KeysetPage DEF L
    <2>5. L.next = c /\ ~L.warned
      BY <2>3, <2>4 DEF c
    <2>6. ASSUME NEW s \in Lists(p), NEW i \in DOMAIN h[s], NEW m \in 1 .. h[s][i].parts,
                 h[s][i].shape = "plain"
          PROVE  <<h[s][i].n, m>> \in Seen(L.transfers)
      <3>1. Position(h[s], Token(p, c, s)) = 0 /\ ~Past(p, h, c, s, i)
        BY <2>1 DEF Position, Past
      <3>2. 0 < i
        BY ListFacts
      <3> QED
        BY <2>4, <2>5, <2>6, <3>1, <3>2
    <2>7. DOMAIN h = Lists(p)
      BY DEF Indexed
    <2> QED
      BY <2>6, <2>7, EventsAre DEF L, c
  <1> QED
    BY <1>1, <1>2, <1>3 DEF Adapters

LEMMA WholeStep ==
  ASSUME Shape, CompletePagesAreWhole, [Next]_vars
  PROVE  CompletePagesAreWhole'
  <1> USE DEF CompletePagesAreWhole, CompleteMeansAll
  <1>1. ASSUME NEW s \in Lists(provider), Arrive(s) PROVE CompletePagesAreWhole'
    BY <1>1 DEF Arrive
  <1>2. ASSUME NEW failing \in SUBSET Source(provider), Fetch(failing)
        PROVE  CompletePagesAreWhole'
    <2> DEFINE L == ListTransfers(provider, history, cursor, failing)
    <2> SUFFICES ASSUME provider \notin {"alchemy", "blockscout", "solana"},
                        page'.first, page'.complete
                 PROVE  base' \subseteq Seen(walked')
      BY <1>2 DEF Fetch, Seen
    <2>1. /\ page' = [ok |-> L.ok, complete |-> L.complete, first |-> walk = "ready",
                      failing |-> failing, fresh |-> ~(L.transfers \subseteq walked)]
          /\ L.ok => /\ base' = IF walk = "ready" THEN Events(history) ELSE base
                     /\ walked' = walked \cup L.transfers
      BY <1>2 DEF Fetch
    <2>2. walk = "ready" /\ L.complete
      <3> HIDE DEF L
      <3> QED
        BY <2>1
    <2>3. cursor = Start(provider)
      BY <2>2 DEF Shape
    <2>4. CASE ~L.ok
      <3>1. L = Failed
        BY <2>4 DEF ListTransfers, EtherscanListTransfers, TronListTransfers, TonListTransfers,
              CardanoListTransfers, TransferPage, Shape, Adapters
      <3> QED
        BY <2>2, <3>1, FailedFields
    <2>5. CASE L.ok
      <3>1. Events(history) \subseteq Seen(L.transfers)
        BY <2>2, <2>3, <2>5, FirstPageWhole DEF Shape
      <3>2. L.transfers \subseteq walked'
        BY <2>1, <2>5
      <3> HIDE DEF L
      <3> QED
        BY <2>1, <2>2, <2>5, <3>1, <3>2, SeenMore
    <2> QED
      BY <2>4, <2>5
  <1>3. CASE Restart
    BY <1>3 DEF Restart, NoPage
  <1>4. CASE UNCHANGED vars
    BY <1>4 DEF vars
  <1> QED
    BY <1>1, <1>2, <1>3, <1>4 DEF Next

(* PageStatus (chain.go:58), for all lists, limits, arrivals and failures: a *)
(* first page of Etherscan, TRON, TON or Cardano that says it is complete has *)
(* every transfer there was.                                                *)
THEOREM CompletePagesHold == Spec => []CompletePagesAreWhole
  <1>1. Init => CompletePagesAreWhole
    BY DEF Init, CompletePagesAreWhole, CompleteMeansAll, NoPage
  <1> QED
    BY <1>1, ShapeHolds, WholeStep, PTL DEF Spec

-----------------------------------------------------------------------------
(* Walks that skip nothing.                                                *)

LEMMA InitCovered == Init => Covered
  <1> SUFFICES ASSUME Init, provider \in {"ton", "tron"}
               PROVE  Lasts(provider, history, cursor)
    BY DEF Init, Covered
  <1> QED
    BY StartTokens DEF Init, Lasts, Resumes

(* What arrives is before what is there.                                    *)
LEMMA ArriveCovered ==
  ASSUME Shape, Shape', Covered, NEW s \in Lists(provider), Arrive(s)
  PROVE  Covered'
  <1> SUFFICES ASSUME provider \in {"ton", "tron"}
               PROVE  /\ Lasts(provider, history', cursor)
                      /\ \A x : Awaited(x) => Awaited(x)'
    BY DEF Arrive, Covered, Seen
  <1>1. PICK e \in Arrivals : history' = [history EXCEPT ![s] = <<e>> \o @]
    BY DEF Arrive
  <1>2. e \in Entries
    BY WalkAssumption
  <1>3. Indexed(provider, history) /\ Indexed(provider, history') /\ provider' = provider
        /\ cursor' = cursor
    BY DEF Shape, Arrive
  <1>4. ASSUME NEW u \in Lists(provider)
        PROVE  /\ Resumes(history'[u], Token(provider, cursor, u))
               /\ \A i \in DOMAIN history[u] : Past(provider, history, cursor, u, i) =>
                     \E j \in DOMAIN history'[u] :
                        /\ history'[u][j] = history[u][i]
                        /\ Past(provider, history', cursor, u, j)
    <2> DEFINE q == history[u]
               token == Token(provider, cursor, u)
    <2>1. /\ q \in Seq(Entries) /\ Distinct(q) /\ DOMAIN history = Lists(provider)
          /\ Distinct(history'[u]) /\ Resumes(q, token)
      BY <1>3, ListFacts DEF Covered, Lasts
    <2>2. CASE u # s
      BY <1>1, <2>1, <2>2 DEF Past
    <2>3. CASE u = s
      <3>1. history'[u] = <<e>> \o q
        BY <1>1, <2>1, <2>3
      <3>2. /\ Resumes(<<e>> \o q, token)
            /\ token # 0 => Position(<<e>> \o q, token) = Position(q, token) + 1
        BY <1>2, <2>1, <3>1, TokenKept
      <3>3. ASSUME NEW i \in DOMAIN q, Past(provider, history, cursor, u, i)
            PROVE  /\ i + 1 \in DOMAIN history'[u] /\ history'[u][i + 1] = q[i]
                   /\ Past(provider, history', cursor, u, i + 1)
        <4>1. i + 1 \in DOMAIN (<<e>> \o q) /\ (<<e>> \o q)[i + 1] = q[i]
          BY <1>2, <2>1, Prepended
        <4>2. Position(q, token) \in Nat /\ i \in Nat
          BY <2>1, PositionIn, LenProperties
        <4> QED
          BY <3>1, <3>2, <3>3, <4>1, <4>2 DEF Past
      <3> QED
        BY <3>1, <3>2, <3>3
    <2> QED
      BY <2>2, <2>3
  <1>5. Lasts(provider, history', cursor)
    BY <1>4 DEF Lasts
  <1>6. ASSUME NEW x, Awaited(x) PROVE Awaited(x)'
    <2>1. PICK u \in Lists(provider) : \E i \in DOMAIN history[u] :
             /\ history[u][i].shape = "plain" /\ Past(provider, history, cursor, u, i)
             /\ \E m \in 1 .. history[u][i].parts : x = <<history[u][i].n, m>>
      BY <1>6 DEF Awaited
    <2>2. PICK i \in DOMAIN history[u] :
             /\ history[u][i].shape = "plain" /\ Past(provider, history, cursor, u, i)
             /\ \E m \in 1 .. history[u][i].parts : x = <<history[u][i].n, m>>
      BY <2>1
    <2>3. PICK j \in DOMAIN history'[u] :
             history'[u][j] = history[u][i] /\ Past(provider, history', cursor, u, j)
      BY <1>4, <2>2
    <2>4. /\ history'[u][j].shape = "plain"
          /\ \E m \in 1 .. history'[u][j].parts : x = <<history'[u][j].n, m>>
      BY <2>2, <2>3
    <2> QED
      BY <1>3, <2>3, <2>4 DEF Awaited
  <1> QED
    BY <1>5, <1>6

LEMMA FetchCovered ==
  ASSUME Shape, Covered, NEW failing, Fetch(failing)
  PROVE  Covered'
  <1> DEFINE L == ListTransfers(provider, history, cursor, failing)
             fetched(s, i, m) == <<history[s][i].n, m>>
  <1>1. provider' = provider /\ history' = history
    BY DEF Fetch
  <1>2. CASE ~L.ok
    <2>1. UNCHANGED <<provider, history, walk, cursor, base, walked, partial>>
      BY <1>2 DEF Fetch
    <2> QED
      BY <2>1 DEF Covered, Awaited, Seen
  <1>3. CASE L.ok
    <2> SUFFICES ASSUME provider \in {"ton", "tron"} PROVE Covered'
      BY <1>1 DEF Covered
    <2>1. /\ walk' = IF L.more THEN "more" ELSE "ended"
          /\ cursor' = IF L.more THEN L.next ELSE Start(provider)
          /\ base' = IF walk = "ready" THEN Events(history) ELSE base
          /\ walked' = walked \cup L.transfers
          /\ partial' = (partial \/ L.warned)
      BY <1>3 DEF Fetch
    <2>2. Lasts(provider, history, cursor) /\ Indexed(provider, history)
      BY DEF Covered, Shape
    <2>3. /\ Lasts(provider, history, L.next)
          /\ ~L.more => L.next = Start(provider)
          /\ ~L.warned => \A s \in Lists(provider) : \A i \in DOMAIN history[s] :
               \A m \in 1 .. history[s][i].parts :
                  history[s][i].shape = "plain"
                  /\ Position(history[s], Token(provider, cursor, s)) < i =>
                      \/ fetched(s, i, m) \in Seen(L.transfers)
                      \/ Past(provider, history, L.next, s, i)
      BY <1>3, <2>2, KeysetPage
    <2> HIDE DEF L
    <2>4. cursor' = L.next
      BY <2>1, <2>3
    <2>5. ASSUME ~L.warned, ~partial, NEW x \in base'
          PROVE  x \in Seen(walked') \/ Awaited(x)'
      <3>1. Seen(walked) \subseteq Seen(walked') /\ Seen(L.transfers) \subseteq Seen(walked')
        BY <2>1, SeenMore
      <3>2. ASSUME NEW s \in Lists(provider), NEW i \in DOMAIN history[s],
                   NEW m \in 1 .. history[s][i].parts, history[s][i].shape = "plain",
                   Position(history[s], Token(provider, cursor, s)) < i, x = fetched(s, i, m)
            PROVE  x \in Seen(walked') \/ Awaited(x)'
        BY <1>1, <2>3, <2>4, <2>5, <3>1, <3>2 DEF Awaited
      <3>3. CASE walk = "ready"
        <4>1. DOMAIN history = Lists(provider) /\ base' = Events(history)
          BY <2>1, <2>2, <3>3 DEF Indexed
        <4>2. PICK s \in Lists(provider) : \E i \in DOMAIN history[s] :
                 /\ history[s][i].shape = "plain"
                 /\ \E m \in 1 .. history[s][i].parts : x = fetched(s, i, m)
          BY <4>1, <2>5, EventsAre
        <4>3. Token(provider, cursor, s) = 0
          BY <3>3, StartTokens DEF Shape
        <4>4. Position(history[s], Token(provider, cursor, s)) = 0
              /\ \A i \in DOMAIN history[s] : 0 < i
          BY <2>2, <4>3, ListFacts DEF Position
        <4> QED
          BY <3>2, <4>2, <4>4
      <3>4. CASE walk # "ready" /\ x \in Seen(walked)
        BY <3>1, <3>4
      <3>5. CASE walk # "ready" /\ x \notin Seen(walked)
        <4>1. Awaited(x)
          BY <2>1, <2>5, <3>5 DEF Covered
        <4>2. x \in base
          BY <2>1, <2>5, <3>5
        <4> QED
          BY <3>2, <4>1, <4>2 DEF Awaited, Past
      <3> QED
        BY <3>3, <3>4, <3>5
    <2> QED
      BY <1>1, <2>1, <2>3, <2>4, <2>5 DEF Covered
  <1> QED
    BY <1>2, <1>3

LEMMA CoveredStep ==
  ASSUME Shape, Shape', Covered, [Next]_vars
  PROVE  Covered'
  <1>1. ASSUME NEW s \in Lists(provider), Arrive(s) PROVE Covered'
    BY <1>1, ArriveCovered
  <1>2. ASSUME NEW failing \in SUBSET Source(provider), Fetch(failing) PROVE Covered'
    BY <1>2, FetchCovered
  <1>3. CASE Restart
    <2> SUFFICES ASSUME provider \in {"ton", "tron"}
                 PROVE  Lasts(provider, history, Start(provider))
      BY <1>3 DEF Restart, Covered
    <2> QED
      BY StartTokens DEF Lasts, Resumes
  <1>4. CASE UNCHANGED vars
    BY <1>4 DEF vars, Covered, Awaited, Seen
  <1> QED
    BY <1>1, <1>2, <1>3, <1>4 DEF Next

(* README.md:24-26, "historical pagination": for all lists, limits, arrivals *)
(* and failures, a walk over TON's or TRON's pages that ends without a      *)
(* warning has listed every transfer there was when it began.               *)
THEOREM NothingIsSkipped == Spec => []WalksSkipNothing
  <1>1. Shape /\ Covered => WalksSkipNothing
    <2> SUFFICES ASSUME Shape, Covered, provider \in {"ton", "tron"}, walk = "ended", ~partial,
                        NEW x \in base
                 PROVE  x \in Seen(walked)
      BY DEF WalksSkipNothing, NothingSkipped, Seen
    <2>1. cursor = Start(provider)
      BY DEF Shape
    <2>2. ~Awaited(x)
      BY <2>1, StartTokens DEF Awaited, Past
    <2> QED
      BY <2>2 DEF Covered
  <1>2. Shape /\ Shape' /\ Covered /\ [Next]_vars => Covered'
    BY CoveredStep
  <1> QED
    BY <1>1, <1>2, InitCovered, ShapeHolds, PTL DEF Spec

-----------------------------------------------------------------------------
(* Ids.                                                                    *)

Exact == {"alchemy", "blockscout", "ton", "cardano", "solana"}

\* What an adapter calls part m of an entry of list s.
EventIDOf(p, s, e, m) ==
    CASE p = "alchemy" -> <<"unique", e.n>>
      [] p = "blockscout" -> BlockscoutEventID(s, e)
      [] p = "ton" -> <<"message", m>>
      [] p = "cardano" -> <<"utxo", m>>
      [] p = "solana" -> <<"transfer", m>>

Genuine(p, h, t) ==
    \E s \in Lists(p) : \E i \in DOMAIN h[s] : \E m \in 1 .. h[s][i].parts :
        t = TransferItem(h[s][i], m, EventIDOf(p, s, h[s][i], m))

\* Of a cursor, only how much of a pending transaction was returned says which
\* transfers are.
Offsets(c) ==
    \E b, x : \E k \in Nat : c = [before |-> b, pending |-> x, offset |-> k]

OffsetTyped == provider = "solana" => Offsets(cursor)

StoredGenuine == provider \in Exact => \A t \in stored : Genuine(provider, history, t)

LEMMA MergedSubset ==
  ASSUME NEW items, NEW k
  PROVE  MergedFirst(items, k) \subseteq UNION {items[s] : s \in DOMAIN items}
  BY DEF MergedFirst

LEMMA AlchemyGenuine ==
  ASSUME NEW h, Indexed("alchemy", h), NEW c, NEW failing,
         NEW t \in AlchemyListTransfers(h, c, failing).transfers
  PROVE  Genuine("alchemy", h, t)
  <1> DEFINE items == [s \in AlchemySource |-> AlchemyItems(h[s], c[s])]
  <1>1. t \in MergedFirst(items, Limit)
    BY DEF AlchemyListTransfers, TransferPage, Failed
  <1>2. PICK s \in AlchemySource : t \in AlchemyItems(h[s], c[s])
    BY <1>1, MergedSubset
  <1> DEFINE places == Following(h[s], c[s], PerDirection)
             id == [q \in Parts(h[s], places) |-> AlchemyEventID(h[s], q[1])]
  <1>3. t \in Transfers(h[s], places, id)
    BY <1>2 DEF AlchemyItems
  <1>4. PICK i \in places : \E m \in 1 .. h[s][i].parts :
           <<i, m>> \in Parts(h[s], places) /\ t = TransferItem(h[s][i], m, id[<<i, m>>])
    <2> HIDE DEF id, places
    <2> QED
      BY <1>3, TransfersAre
  <1>5. PICK m \in 1 .. h[s][i].parts :
           <<i, m>> \in Parts(h[s], places) /\ t = TransferItem(h[s][i], m, id[<<i, m>>])
    BY <1>4
  <1>6. id[<<i, m>>] = EventIDOf("alchemy", s, h[s][i], m)
    BY <1>5 DEF AlchemyEventID, EventIDOf
  <1>7. s \in Lists("alchemy") /\ i \in DOMAIN h[s]
    BY ListsAre DEF AlchemySource, Following
  <1> QED
    BY <1>5, <1>6, <1>7 DEF Genuine

LEMMA BlockscoutGenuine ==
  ASSUME NEW h, Indexed("blockscout", h), NEW c, NEW failing,
         NEW t \in BlockscoutListTransfers(h, c, failing).transfers
  PROVE  Genuine("blockscout", h, t)
  <1> DEFINE items == [s \in BlockscoutSource |-> BlockscoutItems(s, h[s], c[s], failing)]
  <1>1. t \in MergedFirst(items, Limit)
    BY DEF BlockscoutListTransfers, TransferPage, Failed
  <1>2. PICK s \in BlockscoutSource : t \in BlockscoutItems(s, h[s], c[s], failing)
    BY <1>1, MergedSubset
  <1> DEFINE places == Following(h[s], c[s], BlockscoutPage)
             id == [q \in Parts(h[s], places) |-> BlockscoutEventID(s, h[s][q[1]])]
  <1>3. t \in Transfers(h[s], places, id)
    BY <1>2 DEF BlockscoutItems
  <1>4. PICK i \in places : \E m \in 1 .. h[s][i].parts :
           <<i, m>> \in Parts(h[s], places) /\ t = TransferItem(h[s][i], m, id[<<i, m>>])
    <2> HIDE DEF id, places
    <2> QED
      BY <1>3, TransfersAre
  <1>5. PICK m \in 1 .. h[s][i].parts :
           <<i, m>> \in Parts(h[s], places) /\ t = TransferItem(h[s][i], m, id[<<i, m>>])
    BY <1>4
  <1>6. id[<<i, m>>] = EventIDOf("blockscout", s, h[s][i], m)
    BY <1>5 DEF EventIDOf
  <1>7. s \in Lists("blockscout") /\ i \in DOMAIN h[s]
    BY ListsAre DEF BlockscoutSource, Following
  <1> QED
    BY <1>5, <1>6, <1>7 DEF Genuine

LEMMA TonGenuine ==
  ASSUME NEW h, NEW c, NEW failing,
         NEW t \in TonListTransfers(h, c, failing).transfers
  PROVE  Genuine("ton", h, t)
  <1> DEFINE txs == h["transactions"]
             whole == {i \in Following(txs, c, Limit) : txs[i].shape # "broken"}
             id == [q \in Parts(txs, whole) |-> TonEventID(q[1] - Position(txs, c), q[2])]
  <1>1. t \in Transfers(txs, whole, id)
    BY DEF TonListTransfers, TransferPage, Failed, TonItems
  <1>2. PICK i \in whole : \E m \in 1 .. txs[i].parts :
           <<i, m>> \in Parts(txs, whole) /\ t = TransferItem(txs[i], m, id[<<i, m>>])
    <2> HIDE DEF id, whole
    <2> QED
      BY <1>1, TransfersAre
  <1>3. PICK m \in 1 .. txs[i].parts :
           <<i, m>> \in Parts(txs, whole) /\ t = TransferItem(txs[i], m, id[<<i, m>>])
    BY <1>2
  <1>4. id[<<i, m>>] = EventIDOf("ton", "transactions", txs[i], m)
    BY <1>3 DEF EventIDOf, TonEventID
  <1>5. "transactions" \in Lists("ton") /\ i \in DOMAIN txs
    BY ListsAre DEF Following
  <1> QED
    BY <1>3, <1>4, <1>5 DEF Genuine

LEMMA CardanoGenuine ==
  ASSUME NEW h, NEW c, NEW failing,
         NEW t \in CardanoListTransfers(h, c, failing).transfers
  PROVE  Genuine("cardano", h, t)
  <1> DEFINE txs == h["transactions"]
             places == Numbered(txs, c, CardanoPerPage + 1, CardanoPerPage)
             id == [q \in Parts(txs, places) |-> CardanoEventID(q[2])]
  <1>1. t \in Transfers(txs, places, id)
    BY DEF CardanoListTransfers, TransferPage, Failed, CardanoItems
  <1>2. PICK i \in places : \E m \in 1 .. txs[i].parts :
           <<i, m>> \in Parts(txs, places) /\ t = TransferItem(txs[i], m, id[<<i, m>>])
    <2> HIDE DEF id, places
    <2> QED
      BY <1>1, TransfersAre
  <1>3. PICK m \in 1 .. txs[i].parts :
           <<i, m>> \in Parts(txs, places) /\ t = TransferItem(txs[i], m, id[<<i, m>>])
    BY <1>2
  <1>4. id[<<i, m>>] = EventIDOf("cardano", "transactions", txs[i], m)
    BY <1>3 DEF EventIDOf, CardanoEventID
  <1>5. "transactions" \in Lists("cardano") /\ i \in DOMAIN txs
    BY ListsAre DEF Numbered
  <1> QED
    BY <1>3, <1>4, <1>5 DEF Genuine

(* Solana: the numbers returned of a transaction are numbers of its transfers. *)
LEMMA SolanaItemsGenuine ==
  ASSUME NEW h, NEW i \in DOMAIN h["transactions"], NEW numbers,
         numbers \subseteq 1 .. h["transactions"][i].parts,
         NEW t \in SolanaItems(h["transactions"][i], numbers)
  PROVE  Genuine("solana", h, t)
  <1>1. PICK m \in numbers : t = TransferItem(h["transactions"][i], m, <<"transfer", m>>)
    BY DEF SolanaItems
  <1>2. EventIDOf("solana", "transactions", h["transactions"][i], m) = <<"transfer", m>>
    BY DEF EventIDOf
  <1>3. "transactions" \in Lists("solana")
    BY ListsAre
  <1> QED
    BY <1>1, <1>2, <1>3 DEF Genuine

LEMMA FiniteImage ==
  ASSUME NEW S, IsFiniteSet(S), NEW f, DOMAIN f = S
  PROVE  IsFiniteSet({f[x] : x \in S})
  <1> DEFINE g == [x \in S |-> f[x]]
  <1>1. g \in Surjection(S, {f[x] : x \in S})
    BY DEF Surjection
  <1> QED
    BY <1>1, FS_Surjection

LEMMA SolanaItemsFinite ==
  ASSUME NEW e, NEW numbers, IsFiniteSet(numbers)
  PROVE  IsFiniteSet(SolanaItems(e, numbers))
  <1> DEFINE g == [m \in numbers |-> TransferItem(e, m, <<"transfer", m>>)]
  <1>1. g \in Surjection(numbers, SolanaItems(e, numbers))
    <2>1. \A m \in numbers : g[m] \in SolanaItems(e, numbers)
      BY DEF SolanaItems
    <2>2. \A t \in SolanaItems(e, numbers) : \E m \in numbers : g[m] = t
      BY DEF SolanaItems
    <2>3. g = [m \in numbers |-> g[m]]
      OBVIOUS
    <2> HIDE DEF g
    <2> QED
      BY <2>1, <2>2, <2>3 DEF Surjection
  <1> QED
    BY <1>1, FS_Surjection

LEMMA PendingFacts ==
  ASSUME NEW h, Indexed("solana", h), NEW c, c.offset \in Nat
  PROVE  /\ Cardinality(SolanaPending(h["transactions"], c)) \in Nat
         /\ \A t \in SolanaPending(h["transactions"], c) : Genuine("solana", h, t)
  <1> DEFINE txs == h["transactions"]
             at == {j \in DOMAIN txs : txs[j].n = c.pending}
             left(i) == SolanaItems(txs[i], c.offset + 1 .. txs[i].parts)
  <1>1. /\ Len(txs) \in Nat /\ DOMAIN txs = 1 .. Len(txs)
        /\ \A i \in DOMAIN txs : txs[i].parts \in Nat
    BY ListsAre, ListFacts, EntryFacts
  <1>9. at \in SUBSET (DOMAIN txs)
    OBVIOUS
  <1> HIDE DEF at
  <1>2. ASSUME NEW i \in at
        PROVE  IsFiniteSet(left(i)) /\ c.offset + 1 .. txs[i].parts \subseteq 1 .. txs[i].parts
    <2>1. c.offset + 1 \in Int /\ txs[i].parts \in Int
      BY <1>1, <1>9
    <2>2. IsFiniteSet(c.offset + 1 .. txs[i].parts)
      BY <2>1, FS_Interval
    <2> QED
      BY <2>1, <2>2, SolanaItemsFinite
  <1>3. IsFiniteSet(DOMAIN txs)
    BY <1>1, FS_Interval
  <1>4. IsFiniteSet(at)
    BY <1>3, <1>9, FS_Subset
  <1>5. IsFiniteSet({left(i) : i \in at})
    <2> DEFINE f == [i \in at |-> left(i)]
    <2>1. IsFiniteSet({f[i] : i \in at})
      BY <1>4, FiniteImage
    <2>2. {f[i] : i \in at} = {left(i) : i \in at}
      OBVIOUS
    <2> QED
      BY <2>1, <2>2
  <1>6. IsFiniteSet(UNION {left(i) : i \in at})
    <2>1. \A T \in {left(i) : i \in at} : IsFiniteSet(T)
      BY <1>2
    <2> QED
      BY <1>5, <2>1, FS_UNION
  <1>7. SolanaPending(txs, c) = UNION {left(i) : i \in at}
    BY DEF SolanaPending, at
  <1>8. ASSUME NEW t \in SolanaPending(txs, c) PROVE Genuine("solana", h, t)
    <2>1. PICK i \in at : t \in left(i)
      BY <1>7, <1>8
    <2> QED
      BY <1>2, <1>9, <2>1, SolanaItemsGenuine
  <1> QED
    BY <1>6, <1>7, <1>8, FS_CardinalityType

LEMMA LeastNumber ==
  ASSUME NEW S \in SUBSET Nat, S # {}
  PROVE  \E i \in S : \A j \in S : i <= j
  <1> DEFINE R == OpToRel(<, Nat)
  <1>1. \A i, j \in Nat : j < i => <<j, i>> \in R
    BY DEF OpToRel
  <1>2. IsWellFoundedOn(R, Nat)
    BY NatLessThanWellFounded
  <1> HIDE DEF R
  <1>3. PICK i \in S : \A j \in S : <<j, i>> \notin R
    BY <1>2, WFMin
  <1>4. \A j \in S : i \in Nat /\ j \in Nat /\ ~(j < i)
    BY <1>1, <1>3
  <1> QED
    BY <1>4

(* The loop stops at a place of the page, and what it takes of the          *)
(* transaction there is some of its transfers.                              *)
LEMMA StoppingPlace ==
  ASSUME NEW h, NEW places \in SUBSET Nat, NEW there, Stopping(h, places, there) # 0
  PROVE  Stopping(h, places, there) \in places
  <1> DEFINE stops == {i \in places : \/ there + h[i].parts > Limit
                                      \/ h[i].parts > 0 /\ there + h[i].parts = Limit}
  <1>1. stops # {} /\ stops \in SUBSET Nat
    BY DEF Stopping
  <1>2. PICK i \in stops : \A j \in stops : i <= j
    <2> HIDE DEF stops
    <2> QED
      BY <1>1, LeastNumber
  <1>3. Stopping(h, places, there) = CHOOSE x \in stops : \A j \in stops : x <= j
    BY <1>1 DEF Stopping
  <1>4. Stopping(h, places, there) \in stops
    <2> HIDE DEF stops
    <2> QED
      BY <1>2, <1>3
  <1> QED
    BY <1>4

LEMMA HistoryGenuine ==
  ASSUME NEW h, Indexed("solana", h), NEW taken, Cardinality(taken) \in Nat,
         Cardinality(taken) <= Limit, \A t \in taken : Genuine("solana", h, t), NEW before
  PROVE  /\ Offsets(SolanaHistory(h["transactions"], taken, before).next)
         /\ \A t \in SolanaHistory(h["transactions"], taken, before).transfers :
               Genuine("solana", h, t)
  <1> DEFINE txs == h["transactions"]
             places == Following(txs, before, SignaturePage)
             stop == Stopping(txs, places, Cardinality(taken))
             last == IF places = {} THEN before
                     ELSE txs[CHOOSE i \in places : \A j \in places : j <= i].n
             room == Limit - Cardinality(taken)
             count == IF txs[stop].parts <= room THEN txs[stop].parts ELSE room
             P == SolanaHistory(txs, taken, before)
  <1>1. /\ DOMAIN txs \in SUBSET Nat
        /\ \A i \in DOMAIN txs : txs[i].parts \in Nat
    BY ListsAre, ListFacts, EntryFacts
  <1>2. places \subseteq DOMAIN txs
    BY DEF Following
  <1>3. room \in Nat
    BY LimitAssumption
  <1>4. CASE stop = 0
    <2>1. P.transfers = taken /\ P.next = [before |-> last, pending |-> 0, offset |-> 0]
      BY <1>4 DEF SolanaHistory, TransferPage
    <2> HIDE DEF P, last
    <2> QED
      BY <2>1 DEF P, Offsets
  <1>5. CASE stop # 0
    <2>1. stop \in DOMAIN txs
      BY <1>1, <1>2, <1>5, StoppingPlace
    <2>2. /\ P.transfers = taken \cup SolanaItems(txs[stop], 1 .. count)
          /\ P.next = [before |-> txs[stop].n,
                       pending |-> IF txs[stop].parts <= room THEN 0 ELSE txs[stop].n,
                       offset |-> IF txs[stop].parts <= room THEN 0 ELSE room]
      BY <1>5 DEF SolanaHistory, TransferPage
    <2>3. txs[stop].parts \in Nat
      BY <1>1, <2>1
    <2> HIDE DEF P, txs, stop, room
    <2>4. 1 .. count \subseteq 1 .. txs[stop].parts
      BY <1>3, <2>3
    <2>5. \A t \in SolanaItems(txs[stop], 1 .. count) : Genuine("solana", h, t)
      BY <2>1, <2>4, SolanaItemsGenuine DEF txs
    <2>6. Offsets(P.next)
      BY <1>3, <2>2 DEF Offsets
    <2> QED
      BY <2>2, <2>5, <2>6 DEF P, txs
  <1> QED
    BY <1>4, <1>5

LEMMA SolanaGenuine ==
  ASSUME NEW h, Indexed("solana", h), NEW c, Offsets(c), NEW failing
  PROVE  /\ SolanaListTransfers(h, c, failing).ok =>
              Offsets(SolanaListTransfers(h, c, failing).next)
         /\ \A t \in SolanaListTransfers(h, c, failing).transfers : Genuine("solana", h, t)
  <1> DEFINE txs == h["transactions"]
             rest == SolanaPending(txs, c)
             from == IF c.pending = 0 THEN c.before ELSE c.pending
             P == SolanaListTransfers(h, c, failing)
  <1>0. PICK b, x : \E k \in Nat : c = [before |-> b, pending |-> x, offset |-> k]
    BY DEF Offsets
  <1>5. PICK k \in Nat : c = [before |-> b, pending |-> x, offset |-> k]
    BY <1>0
  <1>1. Cardinality(rest) \in Nat /\ \A t \in rest : Genuine("solana", h, t)
    BY <1>5, PendingFacts
  <1>2. CASE failing # {}
    <2>1. P = Failed
      BY <1>2 DEF SolanaListTransfers
    <2> QED
      BY <2>1 DEF Failed
  <1>3. CASE failing = {} /\ Cardinality(rest) > Limit
    <2>1. P = TransferPage({t \in rest : t.part <= c.offset + Limit}, TRUE,
                           [c EXCEPT !.offset = @ + Limit], FALSE)
      BY <1>3 DEF SolanaListTransfers
    <2>2. /\ P.transfers \subseteq rest
          /\ P.next = [c EXCEPT !.offset = @ + Limit]
      BY <2>1 DEF TransferPage
    <2>3. P.next = [before |-> b, pending |-> x, offset |-> k + Limit] /\ k + Limit \in Nat
      BY <1>5, <2>2, LimitAssumption
    <2> HIDE DEF P, rest
    <2>4. Offsets(P.next)
      BY <2>3 DEF Offsets
    <2> QED
      BY <1>1, <2>2, <2>4 DEF P
  <1>4. CASE failing = {} /\ ~(Cardinality(rest) > Limit)
    <2>1. P = SolanaHistory(txs, rest, from)
      BY <1>4 DEF SolanaListTransfers
    <2>2. Cardinality(rest) <= Limit
      BY <1>1, <1>4, LimitAssumption
    <2> QED
      BY <1>1, <2>1, <2>2, HistoryGenuine
  <1> QED
    BY <1>2, <1>3, <1>4

LEMMA PageGenuine ==
  ASSUME NEW p \in Exact, NEW h, Indexed(p, h), NEW c, p = "solana" => Offsets(c), NEW failing
  PROVE  /\ p = "solana" /\ ListTransfers(p, h, c, failing).ok =>
              Offsets(ListTransfers(p, h, c, failing).next)
         /\ \A t \in ListTransfers(p, h, c, failing).transfers : Genuine(p, h, t)
  <1>1. CASE p = "alchemy"
    BY <1>1, AlchemyGenuine DEF ListTransfers
  <1>2. CASE p = "blockscout"
    BY <1>2, BlockscoutGenuine DEF ListTransfers
  <1>3. CASE p = "ton"
    BY <1>3, TonGenuine DEF ListTransfers
  <1>4. CASE p = "cardano"
    BY <1>4, CardanoGenuine DEF ListTransfers
  <1>5. CASE p = "solana"
    BY <1>5, SolanaGenuine DEF ListTransfers
  <1> QED
    BY <1>1, <1>2, <1>3, <1>4, <1>5 DEF Exact

(* What arrives takes nothing from the lists.                               *)
LEMMA GenuineKept ==
  ASSUME NEW p, NEW h, Indexed(p, h), NEW s \in Lists(p), NEW e \in Entries, NEW t,
         Genuine(p, h, t)
  PROVE  Genuine(p, [h EXCEPT ![s] = <<e>> \o @], t)
  <1> DEFINE g == [h EXCEPT ![s] = <<e>> \o @]
  <1>1. PICK u \in Lists(p) : \E i \in DOMAIN h[u] : \E m \in 1 .. h[u][i].parts :
           t = TransferItem(h[u][i], m, EventIDOf(p, u, h[u][i], m))
    BY DEF Genuine
  <1>2. PICK i \in DOMAIN h[u] : \E m \in 1 .. h[u][i].parts :
           t = TransferItem(h[u][i], m, EventIDOf(p, u, h[u][i], m))
    BY <1>1
  <1>3. \E j \in DOMAIN g[u] : g[u][j] = h[u][i]
    <2>1. DOMAIN h = Lists(p) /\ h[u] \in Seq(Entries)
      BY ListFacts
    <2>2. CASE u # s
      BY <2>1, <2>2
    <2>3. CASE u = s
      <3>1. g[u] = <<e>> \o h[u]
        BY <2>1, <2>3
      <3>2. i + 1 \in DOMAIN (<<e>> \o h[u]) /\ (<<e>> \o h[u])[i + 1] = h[u][i]
        BY <2>1, Prepended
      <3> HIDE DEF g
      <3> QED
        BY <3>1, <3>2
    <2> QED
      BY <2>2, <2>3
  <1> HIDE DEF g
  <1>4. PICK j \in DOMAIN g[u] : g[u][j] = h[u][i]
    BY <1>3
  <1> QED
    BY <1>2, <1>4 DEF Genuine, g

LEMMA GenuineStep ==
  ASSUME Shape, OffsetTyped, StoredGenuine, [Next]_vars
  PROVE  OffsetTyped' /\ StoredGenuine'
  <1>1. Indexed(provider, history)
    BY DEF Shape
  <1>2. ASSUME NEW s \in Lists(provider), Arrive(s) PROVE OffsetTyped' /\ StoredGenuine'
    <2>1. PICK e \in Arrivals : history' = [history EXCEPT ![s] = <<e>> \o @]
      BY <1>2 DEF Arrive
    <2>2. e \in Entries /\ UNCHANGED <<provider, cursor, stored>>
      BY <1>2, WalkAssumption DEF Arrive
    <2> QED
      BY <1>1, <2>1, <2>2, GenuineKept DEF OffsetTyped, StoredGenuine
  <1>3. ASSUME NEW failing \in SUBSET Source(provider), Fetch(failing)
        PROVE  OffsetTyped' /\ StoredGenuine'
    <2> DEFINE L == ListTransfers(provider, history, cursor, failing)
    <2>1. provider' = provider /\ history' = history
      BY <1>3 DEF Fetch
    <2>2. CASE ~L.ok
      <3>1. UNCHANGED <<cursor, stored>>
        BY <1>3, <2>2 DEF Fetch
      <3> QED
        BY <2>1, <3>1 DEF OffsetTyped, StoredGenuine
    <2>3. CASE L.ok
      <3>1. /\ cursor' = IF L.more THEN L.next ELSE Start(provider)
            /\ stored' = stored \cup L.transfers
        BY <1>3, <2>3 DEF Fetch
      <3>2. provider \in Exact =>
              /\ provider = "solana" => Offsets(L.next)
              /\ \A t \in L.transfers : Genuine(provider, history, t)
        BY <1>1, <2>3, PageGenuine DEF OffsetTyped
      <3>3. provider = "solana" => Offsets(Start(provider)) /\ provider \in Exact
        BY DEF Start, SolanaStart, Offsets, Exact
      <3> HIDE DEF L
      <3> QED
        BY <2>1, <3>1, <3>2, <3>3 DEF OffsetTyped, StoredGenuine
    <2> QED
      BY <2>2, <2>3
  <1>4. CASE Restart
    BY <1>4 DEF Restart, Start, SolanaStart, Offsets, OffsetTyped, StoredGenuine
  <1>5. CASE UNCHANGED vars
    BY <1>5 DEF vars, OffsetTyped, StoredGenuine
  <1> QED
    BY <1>2, <1>3, <1>4, <1>5 DEF Next

(* An id tells the transfer, and the transfer its id.                       *)
LEMMA IdsTell ==
  ASSUME NEW p \in Exact, NEW h, Indexed(p, h), NEW t, Genuine(p, h, t), NEW u, Genuine(p, h, u)
  PROVE  Event(t) = Event(u) <=> t.id = u.id
  <1>1. PICK s \in Lists(p) : \E i \in DOMAIN h[s] : \E m \in 1 .. h[s][i].parts :
           t = TransferItem(h[s][i], m, EventIDOf(p, s, h[s][i], m))
    BY DEF Genuine
  <1>2. PICK i \in DOMAIN h[s] : \E m \in 1 .. h[s][i].parts :
           t = TransferItem(h[s][i], m, EventIDOf(p, s, h[s][i], m))
    BY <1>1
  <1>3. PICK m \in 1 .. h[s][i].parts :
           t = TransferItem(h[s][i], m, EventIDOf(p, s, h[s][i], m))
    BY <1>2
  <1>4. PICK r \in Lists(p) : \E j \in DOMAIN h[r] : \E l \in 1 .. h[r][j].parts :
           u = TransferItem(h[r][j], l, EventIDOf(p, r, h[r][j], l))
    BY DEF Genuine
  <1>5. PICK j \in DOMAIN h[r] : \E l \in 1 .. h[r][j].parts :
           u = TransferItem(h[r][j], l, EventIDOf(p, r, h[r][j], l))
    BY <1>4
  <1>6. PICK l \in 1 .. h[r][j].parts :
           u = TransferItem(h[r][j], l, EventIDOf(p, r, h[r][j], l))
    BY <1>5
  <1> DEFINE e == h[s][i]
             f == h[r][j]
  <1>7. /\ Event(t) = <<e.n, m>> /\ t.id = <<e.tx, EventIDOf(p, s, e, m)>>
        /\ Event(u) = <<f.n, l>> /\ u.id = <<f.tx, EventIDOf(p, r, f, l)>>
    BY <1>3, <1>6 DEF TransferItem, Event
  <1>8. /\ e.n = f.n => e = f /\ (p # "alchemy" => s = r)
        /\ s = "transactions" /\ r = "transactions" /\ e.tx = f.tx => e = f
        /\ p \in {"alchemy", "blockscout"} => m = 1 /\ l = 1
    <2>1. e.n = f.n => e = f /\ (p # "alchemy" => s = r)
      BY DEF Indexed
    <2>2. s = "transactions" /\ r = "transactions" /\ e.tx = f.tx => e = f
      BY DEF Indexed
    <2>3. p \in {"alchemy", "blockscout"} => e.parts = 1 /\ f.parts = 1
      BY DEF Indexed
    <2> QED
      BY <2>1, <2>2, <2>3
  <1> HIDE DEF e, f
  <1>9. Event(t) = Event(u) => t.id = u.id
    <2> SUFFICES ASSUME e.n = f.n, m = l
                 PROVE  EventIDOf(p, s, e, m) = EventIDOf(p, r, f, l) /\ e.tx = f.tx
      BY <1>7
    <2> QED
      BY <1>8 DEF EventIDOf
  <1>10. ASSUME e.tx = f.tx, EventIDOf(p, s, e, m) = EventIDOf(p, r, f, l)
         PROVE  e.n = f.n /\ m = l
    <2>1. CASE p = "alchemy"
      <3>1. <<"unique", e.n>> = <<"unique", f.n>>
        BY <1>10, <2>1 DEF EventIDOf
      <3> QED
        BY <1>8, <2>1, <3>1
    <2>2. CASE p = "blockscout"
      <3>1. BlockscoutEventID(s, e) = BlockscoutEventID(r, f)
        BY <1>10, <2>2 DEF EventIDOf
      <3>2. <<s, e.n>> # <<"tx">> /\ <<r, f.n>> # <<"tx">>
        OBVIOUS
      <3>3. e.n = f.n
        BY <1>8, <1>10, <3>1, <3>2 DEF BlockscoutEventID
      <3> QED
        BY <1>8, <2>2, <3>3
    <2>3. CASE p \in {"ton", "cardano", "solana"}
      <3>1. s = "transactions" /\ r = "transactions"
        BY <2>3, ListsAre
      <3>2. e = f
        BY <1>8, <1>10, <3>1
      <3>3. m = l
        BY <1>10, <2>3 DEF EventIDOf
      <3> QED
        BY <3>2, <3>3
    <2> QED
      BY <2>1, <2>2, <2>3 DEF Exact
  <1> QED
    BY <1>7, <1>9, <1>10

(* transferID: for all lists, limits, arrivals and failures, what the       *)
(* adapters for Alchemy, Blockscout, TON, Cardano and Solana list of one    *)
(* transfer is stored under one id, and of two under two.                   *)
THEOREM IdsHold == Spec => []IdsAreExact
  <1>1. Init => OffsetTyped /\ StoredGenuine
    BY DEF Init, OffsetTyped, StoredGenuine, Start, SolanaStart, Offsets
  <1>2. Shape /\ OffsetTyped /\ StoredGenuine /\ [Next]_vars => OffsetTyped' /\ StoredGenuine'
    BY GenuineStep
  <1>3. Shape /\ StoredGenuine => IdsAreExact
    <2> SUFFICES ASSUME Shape, StoredGenuine, provider \notin {"etherscan", "tron"},
                        NEW t \in stored, NEW u \in stored
                 PROVE  Event(t) = Event(u) <=> t.id = u.id
      BY DEF IdsAreExact, IdsExact
    <2>1. provider \in Exact /\ Indexed(provider, history)
      BY WalkAssumption DEF Shape, Exact, Adapters
    <2> QED
      BY <2>1, IdsTell DEF StoredGenuine
  <1> QED
    BY <1>1, <1>2, <1>3, ShapeHolds, PTL DEF Spec

=============================================================================

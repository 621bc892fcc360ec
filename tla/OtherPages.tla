----------------------------- MODULE OtherPages -----------------------------
(***************************************************************************)
(* ListTransfers of the adapters for TRON, TON, Cardano and Solana.        *)
(***************************************************************************)
EXTENDS ProviderHistory

CONSTANT SignaturePage  \* solanaSignaturePage: transactions of a Helius page

ASSUME SignatureAssumption == SignaturePage \in Nat \ {0}

-----------------------------------------------------------------------------
(* TRON: three lists, each with the provider's fingerprint.                 *)

TronSource == {"native", "trc20", "internal"}
TronStart == [s \in TronSource |-> 0]

TronPerSource == IF Limit \div 3 = 0 THEN 1 ELSE Limit \div 3

\* The place in the transaction, or on the page for TRC-20 and internal ones.
TronEventID(s, k, i) == IF s = "native" THEN <<"contract", i>> ELSE <<s, k, i>>

TronFails(s, h, fingerprint, failing) ==
    s \in failing \/ Broken(h, Following(h, fingerprint, TronPerSource))

\* A source's page: nothing, and no fingerprint, after an error.
TronItems(s, h, fingerprint, failing) ==
    LET places == Following(h, fingerprint, TronPerSource)
    IN  IF TronFails(s, h, fingerprint, failing) THEN {}
        ELSE Transfers(h, places, [q \in Parts(h, places) |->
                 TronEventID(s, q[1] - Position(h, fingerprint), q[2])])

TronNext(s, h, fingerprint, failing) ==
    IF TronFails(s, h, fingerprint, failing) THEN 0
    ELSE NextToken(h, fingerprint, TronPerSource)

\* The merged page is not cut.
TronListTransfers(h, cursor, failing) ==
    LET fails == {s \in TronSource : TronFails(s, h[s], cursor[s], failing)}
        next == [s \in TronSource |-> TronNext(s, h[s], cursor[s], failing)]
    IN  IF "native" \in fails
        THEN Failed
        ELSE TransferPage(UNION {TronItems(s, h[s], cursor[s], failing) : s \in TronSource},
                          next # TronStart, next, fails # {})

-----------------------------------------------------------------------------
(* TON: one list, by logical time.  What does not touch the address or has  *)
(* no value is left out.                                                    *)

TonSource == {"transactions"}
TonStart == 0

\* Variant: a message is identified by its place on the page.
TonPlaceID(k, i) == <<"place", k>>

\* The message: the incoming one, or the place among the outgoing.
TonEventID(k, i) == <<"message", i>>

\* Variant: an entry more than wanted is asked for, and cut off.
TonNextPastCut(h, cursor) == NextToken(h, cursor, Limit + 1)

TonNext(h, cursor) == NextToken(h, cursor, Limit)

TonItems(h, cursor) ==
    LET whole == {i \in Following(h, cursor, Limit) : h[i].shape # "broken"}
    IN  Transfers(h, whole, [q \in Parts(h, whole) |->
            TonEventID(q[1] - Position(h, cursor), q[2])])

TonListTransfers(h, cursor, failing) ==
    LET next == TonNext(h["transactions"], cursor)
    IN  IF failing # {} THEN Failed
        ELSE TransferPage(TonItems(h["transactions"], cursor), next # 0, next, FALSE)

-----------------------------------------------------------------------------
(* Cardano: numbered pages of transactions and a lookup of each one's       *)
(* inputs and outputs; any failure fails the page.                          *)

CardanoSource == {"transactions", "utxos"}
CardanoStart == 1

CardanoPerPage == IF Limit > 10 THEN 10 ELSE Limit

\* Variant: a page has more only if two entries are left over.
CardanoTwoMore(fetched) == Cardinality(fetched) > CardanoPerPage + 1

CardanoHasMore(fetched) == Cardinality(fetched) > CardanoPerPage

CardanoEventID(i) == <<"utxo", i>>

CardanoItems(h, page) ==
    LET places == Numbered(h, page, CardanoPerPage + 1, CardanoPerPage)
    IN  Transfers(h, places, [q \in Parts(h, places) |-> CardanoEventID(q[2])])

CardanoListTransfers(h, page, failing) ==
    LET txs == h["transactions"]
        fetched == Numbered(txs, page, CardanoPerPage + 1, CardanoPerPage + 1)
    IN  IF failing # {} THEN Failed
        ELSE TransferPage(CardanoItems(txs, page), CardanoHasMore(fetched), page + 1, FALSE)

-----------------------------------------------------------------------------
(* Solana: transactions of many transfers.  The cursor is the last          *)
(* transaction read, or a transaction that did not fit and how much of it   *)
(* was returned.                                                            *)

SolanaSource == {"transactions"}
SolanaStart == [before |-> 0, pending |-> 0, offset |-> 0]

\* transfersForHeliusTransaction: numbered within the transaction.
SolanaItems(e, numbers) == {TransferItem(e, i, <<"transfer", i>>) : i \in numbers}

\* The first transaction whose transfers do not fit beside what is there, or
\* fill the page; 0 if none does.
Stopping(h, places, there) ==
    LET stops == {i \in places :
                     \/ there + h[i].parts > Limit
                     \/ h[i].parts > 0 /\ there + h[i].parts = Limit}
    IN  IF stops = {} THEN 0 ELSE CHOOSE i \in stops : \A j \in stops : i <= j

\* Transactions after `before`: in the loop `transfers, consumed :=` declares a
\* variable of its own, so that each transaction starts from `taken` again and
\* only the transaction that ends the page adds to it.
SolanaHistory(h, taken, before) ==
    LET places == Following(h, before, SignaturePage)
        stop == Stopping(h, places, Cardinality(taken))
        last == IF places = {} THEN before
                ELSE h[CHOOSE i \in places : \A j \in places : j <= i].n
        room == Limit - Cardinality(taken)
        fits == h[stop].parts <= room
    IN  IF stop = 0
        THEN TransferPage(taken, Cardinality(places) = SignaturePage /\ last # 0,
                          [before |-> last, pending |-> 0, offset |-> 0], FALSE)
        ELSE TransferPage(taken \cup SolanaItems(h[stop], 1 .. IF fits THEN h[stop].parts ELSE room),
                          TRUE,
                          [before |-> h[stop].n, pending |-> IF fits THEN 0 ELSE h[stop].n,
                           offset |-> IF fits THEN 0 ELSE room], FALSE)

\* historyTransaction: what is left of the pending transaction, looked up by itself.
SolanaPending(h, cursor) ==
    UNION {SolanaItems(h[i], cursor.offset + 1 .. h[i].parts) :
              i \in {j \in DOMAIN h : h[j].n = cursor.pending}}

\* ListTransfers: first what is left of the pending transaction.
SolanaListTransfers(h, cursor, failing) ==
    LET txs == h["transactions"]
        rest == SolanaPending(txs, cursor)
    IN  CASE failing # {} -> Failed
          [] failing = {} /\ Cardinality(rest) > Limit ->
                TransferPage({t \in rest : t.part <= cursor.offset + Limit}, TRUE,
                             [cursor EXCEPT !.offset = @ + Limit], FALSE)
          [] OTHER -> SolanaHistory(txs, rest,
                          IF cursor.pending = 0 THEN cursor.before ELSE cursor.pending)

=============================================================================

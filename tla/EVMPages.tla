------------------------------ MODULE EVMPages ------------------------------
(***************************************************************************)
(* ListTransfers of the three adapters for EVM chains.  h is the list of   *)
(* each source, `failing` the sources that fail to answer.                 *)
(***************************************************************************)
EXTENDS ProviderHistory

CONSTANT BlockscoutPage  \* entries of a Blockscout page

ASSUME BlockscoutAssumption == BlockscoutPage \in Nat \ {0}

-----------------------------------------------------------------------------
(* Etherscan: three numbered lists, and receipts for the ids of token       *)
(* transfers.  The cursor is the number of the last page.                   *)

EtherscanLists == {"normal", "internal", "tokens"}
EtherscanSource == EtherscanLists \cup {"receipts"}
EtherscanStart == 0

EtherscanPage(cursor) == cursor + 1

PerSourceLimit == (Limit + 2) \div 3

\* listTransferSource: one entry more than wanted is asked for, as a sign of more.
Fetched(h, page) == Numbered(h, page, PerSourceLimit + 1, PerSourceLimit + 1)

ListTransferSource(h, page) == Numbered(h, page, PerSourceLimit + 1, PerSourceLimit)

HasMore(fetched) == Cardinality(fetched) > PerSourceLimit

Fingerprint(x) == <<x.tx, x.print>>

\* How many earlier entries of the page are, to the key, like the one at i.
LikeByPrint(h, places, i) ==
    Cardinality({j \in places : j < i /\ Fingerprint(h[j]) = Fingerprint(h[i])})

LikeByHash(h, places, i) == Cardinality({j \in places : j < i /\ h[j].tx = h[i].tx})

\* matchingTransferLogs: of the transaction's logs that look like e, the one with
\* `before` others before it.
MatchingTransferLog(h, e, before) ==
    LET like == {x \in {h[j] : j \in DOMAIN h} : Fingerprint(x) = Fingerprint(e)}
    IN  CHOOSE x \in like : Cardinality({y \in like : y.n < x.n}) = before

\* tokenEventIDs: the log index, or an ordinal among the page's transfers when
\* the receipt is not to be had.
TokenEventID(h, places, i, receipts) ==
    IF receipts
    THEN <<"log", MatchingTransferLog(h, h[i], LikeByPrint(h, places, i)).n>>
    ELSE <<"provider", h[i].print, LikeByHash(h, places, i)>>

EtherscanEventID(s, h, places, i, receipts) ==
    CASE s = "normal" -> <<"tx">>
      [] s = "internal" -> <<"trace", h[i].n>>
      [] s = "tokens" -> TokenEventID(h, places, i, receipts)

EtherscanItems(s, h, page, failing) ==
    LET places == ListTransferSource(h, page)
    IN  Transfers(h, places, [q \in Parts(h, places) |->
            EtherscanEventID(s, h, places, q[1], "receipts" \notin failing)])

EtherscanListTransfers(h, cursor, failing) ==
    LET page == EtherscanPage(cursor)
        more == \E s \in EtherscanLists : HasMore(Fetched(h[s], page))
    IN  IF \/ failing \cap EtherscanLists # {}
           \/ \E s \in EtherscanLists : Broken(h[s], ListTransferSource(h[s], page))
        THEN Failed
        ELSE TransferPage(UNION {EtherscanItems(s, h[s], page, failing) : s \in EtherscanLists},
                          more, page, FALSE)

-----------------------------------------------------------------------------
(* Alchemy: one list for each direction, by page key.                       *)

AlchemySource == {"inbound", "outbound"}
AlchemyStart == [s \in AlchemySource |-> 0]

PerDirection == (Limit + 1) \div 2

\* toTransfer: the provider's own unique id.
AlchemyEventID(h, i) == <<"unique", h[i].n>>

\* transferPage: one entry more than wanted is asked for, and cut off; the page
\* key is past it.
AlchemyItems(h, key) ==
    LET places == Following(h, key, PerDirection)
    IN  Transfers(h, places, [q \in Parts(h, places) |-> AlchemyEventID(h, q[1])])

AlchemyPageKey(h, key) == NextToken(h, key, PerDirection + 1)

AlchemyListTransfers(h, cursor, failing) ==
    LET items == [s \in AlchemySource |-> AlchemyItems(h[s], cursor[s])]
        next == [s \in AlchemySource |-> AlchemyPageKey(h[s], cursor[s])]
    IN  IF \/ failing # {}
           \/ \E s \in AlchemySource :
                Broken(h[s], Following(h[s], cursor[s], PerDirection + 1))
        THEN Failed
        ELSE TransferPage(MergedFirst(items, Limit), next # AlchemyStart, next, FALSE)

-----------------------------------------------------------------------------
(* Blockscout: three lists, each with the provider's next_page_params.      *)

BlockscoutSource == {"transactions", "internal", "tokens"}
BlockscoutStart == [s \in BlockscoutSource |-> 0]

\* blockscoutNativeTransfer, tokenTransfers: "tx", the trace or the log index.
BlockscoutEventID(s, e) == IF s = "transactions" THEN <<"tx">> ELSE <<s, e.n>>

BlockscoutFails(s, h, token, failing) ==
    s \in failing \/ Broken(h, Following(h, token, BlockscoutPage))

\* A source's page: nothing, and no parameters for the next, after an error.
BlockscoutItems(s, h, token, failing) ==
    LET places == Following(h, token, BlockscoutPage)
    IN  IF BlockscoutFails(s, h, token, failing) THEN {}
        ELSE Transfers(h, places, [q \in Parts(h, places) |-> BlockscoutEventID(s, h[q[1]])])

BlockscoutNext(s, h, token, failing) ==
    IF BlockscoutFails(s, h, token, failing) THEN 0 ELSE NextToken(h, token, BlockscoutPage)

\* Without the transactions there is no page; without another source there is,
\* with a warning.
BlockscoutListTransfers(h, cursor, failing) ==
    LET fails == {s \in BlockscoutSource : BlockscoutFails(s, h[s], cursor[s], failing)}
        items == [s \in BlockscoutSource |-> BlockscoutItems(s, h[s], cursor[s], failing)]
        next == [s \in BlockscoutSource |-> BlockscoutNext(s, h[s], cursor[s], failing)]
    IN  IF "transactions" \in fails
        THEN Failed
        ELSE TransferPage(MergedFirst(items, Limit), next # BlockscoutStart, next, fails # {})

=============================================================================

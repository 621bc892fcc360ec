---------------------------- MODULE MCProviderWalk ----------------------------
(* ProviderWalk for TLC: at each adapter, every history of a few entries at    *)
(* each source.                                                               *)
EXTENDS ProviderWalk, TLC

-----------------------------------------------------------------------------
(* Histories.                                                              *)

Sources == <<"normal", "native", "transactions", "inbound", "internal", "outbound",
             "tokens", "trc20">>
Place(s) == CHOOSE i \in DOMAIN Sources : Sources[i] = s

EntryOf(n, tx, block, parts, shape) ==
    [n |-> n, tx |-> tx, block |-> block, parts |-> parts, print |-> n, shape |-> shape]

\* The i-th transactions of all lists are the same.
Entry(s, i, parts, shape) == EntryOf(10 * Place(s) + i, i, 20 - i, parts, shape)

Newcomers == {EntryOf(90 + k, 90 + k, 30 + k, 1, "plain") : k \in 1 .. MaxArrivals}

\* Every history of at most `most` entries at each of the sources in S, the
\* newest entry of the first being of any of the shapes.
OfSources(S, lead, most, shapes, allParts) ==
    UNION {{[s \in S |-> [i \in 1 .. len[s] |->
                Entry(s, i, parts, IF s = lead /\ i = 1 THEN shape ELSE "plain")]] :
              shape \in shapes, parts \in allParts} : len \in [S -> 0 .. most]}

\* The newest outbound transfer is to the address itself.
AlchemyHistories ==
    {[h EXCEPT !["outbound"] = IF h["outbound"] # << >> /\ h["inbound"] # << >>
                               THEN [@ EXCEPT ![1] = h["inbound"][1]] ELSE @] :
        h \in OfSources(AlchemySource, "inbound", 4, {"plain"}, {1})}

\* Transactions of different numbers of transfers.
SolanaHistories ==
    UNION {{[s \in {"transactions"} |-> [i \in 1 .. Len(parts) |->
                Entry("transactions", i, parts[i], "plain")]]} :
              parts \in UNION {[1 .. k -> 0 .. 4] : k \in 0 .. 4}}

AdapterHistories(p) ==
    CASE p = "etherscan" -> OfSources(EtherscanLists, "normal", 3, {"plain"}, {1})
      [] p = "alchemy" -> AlchemyHistories
      [] p = "blockscout" -> OfSources(BlockscoutSource, "transactions", 3, {"plain"}, {1})
      [] p = "tron" -> OfSources(TronSource, "trc20", 3, {"plain", "broken"}, {1, 2})
      [] p = "ton" -> OfSources({"transactions"}, "transactions", 6, {"plain", "broken"}, {1, 2})
      [] p = "cardano" -> OfSources({"transactions"}, "transactions", 6, {"plain"}, {1, 2})
      [] p = "solana" -> SolanaHistories

=============================================================================

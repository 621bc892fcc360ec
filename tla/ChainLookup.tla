------------------------------ MODULE ChainLookup ------------------------------
(***************************************************************************)
(* LookupAddress and LookupTransaction (api/connect_server.go) with what   *)
(* the adapters read for them.  An answer is put together from several     *)
(* reads, each of which may fail, while the account, its labels and the    *)
(* transaction change on their own.                                        *)
(*                                                                         *)
(* A provider fails a read, or answers with a result that holds no value   *)
(* ("malformed": null, an empty string, an empty object), or tells what    *)
(* the chain says at that moment.  One request is served at a time: two    *)
(* of them share nothing but the pace of ProviderThrottle.                 *)
(***************************************************************************)
EXTENDS Naturals

CONSTANTS
    Networks,  \* the adapter of each network, and how its provider may go wrong
    Unread,    \* a field without a value
    MaxBlock   \* bound: blocks a transaction may be mined in

OverRPC == {"etherscan", "blockscout", "alchemy"}
Adapters == OverRPC \cup {"tron", "solana", "ton", "cardano"}

ASSUME LookupAssumption ==
    /\ Networks \subseteq [adapter : Adapters, faults : SUBSET {"fails", "malformed"}]
    /\ Unread \notin Nat /\ MaxBlock \in Nat \ {0}

VARIABLES
    network,  \* the network asked about
    account,  \* the account on the chain: balance, nonce, code
    label,    \* the category of its first label, or "none"
    tx,       \* the transaction on the chain: kind, value, block
    request,  \* the request being served and its answer
    seen      \* history: what held at some moment of the request

lookupVars == <<network, account, label, tx, request, seen>>

Adapter == network.adapter
Faults == network.faults

Amounts == 0..1
Absent == 0   \* tx.block before the transaction is in a block

Fields ==
    [balance : Amounts \cup {Unread}, nonce : Amounts \cup {Unread},
     entity : {"UNSPECIFIED", "EOA", "CONTRACT", "EXCHANGE"}, entityAvailable : BOOLEAN,
     block : 0..MaxBlock, value : Amounts \cup {Unread}, formatted : Amounts]

Blank ==
    [balance |-> Unread, nonce |-> Unread, entity |-> "UNSPECIFIED", entityAvailable |-> FALSE,
     block |-> 0, value |-> Unread, formatted |-> 0]

Idle == [pc |-> "idle", of |-> "none", answer |-> Blank]

Nothing == [balances |-> {}, nonces |-> {}, codes |-> {}, labels |-> {}, blocks |-> {}]

LookupInit ==
    /\ network \in Networks
    /\ account \in [balance : Amounts, nonce : {0}, code : {"none", "code"}]
    /\ label = "none"
    /\ tx \in [kind : {"transfer", "call", "creation"}, value : Amounts, block : {Absent}]
    /\ request = Idle
    /\ seen = Nothing

-----------------------------------------------------------------------------
(* The chain and the labels move.                                          *)

\* Until the answer is given, a moment of the request is remembered.
Witnessed(a, l, t) ==
    /\ request.pc \notin {"answered", "refused"}
    /\ seen' = CASE request.of = "address" ->
                      [seen EXCEPT !.balances = @ \cup {a.balance}, !.nonces = @ \cup {a.nonce},
                                   !.codes = @ \cup {a.code}, !.labels = @ \cup {l}]
                 [] request.of = "transaction" -> [seen EXCEPT !.blocks = @ \cup {t.block}]
                 [] OTHER -> seen

AccountMoves ==
    /\ \/ \E b \in Amounts : account' = [account EXCEPT !.balance = b]
       \/ account.nonce = 0 /\ account' = [account EXCEPT !.nonce = 1]
       \/ account.code = "none" /\ account' = [account EXCEPT !.code = "code"]
       \* EIP-7702: an account takes up and gives up a delegation.
       \/ Adapter \in OverRPC /\ account.code # "code"
          /\ account' = [account EXCEPT !.code = IF @ = "none" THEN "delegated" ELSE "none"]
    /\ Witnessed(account', label, tx)
    /\ UNCHANGED <<label, tx, request>>

Relabel ==
    /\ label' \in {"none", "service", "exchange"} \ {label}
    /\ Witnessed(account, label', tx)
    /\ UNCHANGED <<account, tx, request>>

\* The transaction is mined, and a reorganization takes it out again.
TransactionMoves ==
    /\ tx' \in {[tx EXCEPT !.block = b] : b \in (0..MaxBlock) \ {tx.block}}
    /\ tx.block # Absent => tx'.block = Absent
    /\ Witnessed(account, label, tx')
    /\ UNCHANGED <<account, label, request>>

-----------------------------------------------------------------------------
(* What the adapters make of a reply.                                      *)

Replies == {"told"} \cup Faults

\* EVMClient ignores that the text is no number, TRON leaves a zero balance out,
\* and Cardano looks for a lovelace amount; Solana and TON refuse.
ZeroIfMalformed == Adapter \notin {"solana", "ton"}

\* GetBalance and GetTxCount: what is read, or Unread after an error.
NumberOf(reply, truth) ==
    CASE reply = "told" -> truth
      [] reply = "malformed" /\ ZeroIfMalformed -> 0
      [] OTHER -> Unread

\* IsContract: a delegated account is no contract.
CodeIsContract(code) == code = "code"

\* NetworkCapabilities.EntityClassification and ActivityLabel.
Classifies == Adapter \notin {"ton", "cardano"}
ShowsActivity == Adapter \in OverRPC

\* A contract creation has no recipient, and is missing one to the EVM adapters.
HasRecipient(t) == t.kind # "creation"

\* The reply holds the transaction, in a block.
InReply(t) ==
    /\ t.block # Absent
    /\ Adapter \in OverRPC => HasRecipient(t)

\* The block and the value LookupTransaction reads of a transaction.
BlockRead(t) == IF Adapter = "ton" THEN 0 ELSE t.block
ValueRead(t) ==
    IF Adapter \in OverRPC \/ (Adapter = "tron" /\ t.kind = "transfer" /\ t.block # Absent)
      THEN t.value
      ELSE Unread

\* TRON answers an empty object for a transaction it does not know, and neither it
\* nor TON looks for the hash in the reply.
Answered(t) ==
    \/ InReply(t)
    \/ Adapter = "tron"
    \/ Adapter = "ton" /\ "malformed" \in Faults

-----------------------------------------------------------------------------
(* The handlers.                                                           *)

BeginLookup ==
    /\ request.pc = "idle"
    /\ \/ /\ request' = [Idle EXCEPT !.pc = "balance", !.of = "address"]
          /\ seen' = [Nothing EXCEPT !.balances = {account.balance}, !.nonces = {account.nonce},
                                      !.codes = {account.code}, !.labels = {label}]
       \/ /\ request' = [Idle EXCEPT !.pc = "transaction", !.of = "transaction"]
          /\ seen' = [Nothing EXCEPT !.blocks = {tx.block}]
    /\ UNCHANGED <<account, label, tx>>

BalanceOf(reply) == NumberOf(reply, account.balance)

\* Variant: a balance that could not be read is zero.
ReadBalanceUnchecked ==
    /\ request.pc = "balance"
    /\ \E reply \in Replies :
          request' = [request EXCEPT !.pc = "activity", !.answer.balance =
                                           IF BalanceOf(reply) = Unread THEN 0 ELSE BalanceOf(reply)]
    /\ UNCHANGED <<account, label, tx, seen>>

ReadBalance ==
    /\ request.pc = "balance"
    /\ \E reply \in Replies :
          request' = [request EXCEPT !.pc = "activity", !.answer.balance = BalanceOf(reply)]
    /\ UNCHANGED <<account, label, tx, seen>>

ReadActivity ==
    /\ request.pc = "activity"
    /\ IF ShowsActivity
         THEN \E reply \in Replies :
                 request' = [request EXCEPT !.pc = "entity", !.answer.nonce = NumberOf(reply, account.nonce)]
         ELSE request' = [request EXCEPT !.pc = "entity"]
    /\ UNCHANGED <<account, label, tx, seen>>

\* A malformed reply is an account without code.
EntityOf(reply) == IF reply = "told" /\ CodeIsContract(account.code) THEN "CONTRACT" ELSE "EOA"

ReadEntity ==
    /\ request.pc = "entity"
    /\ \/ request' = [request EXCEPT !.pc = "labels"] /\ (Classifies => "fails" \in Faults)
       \/ /\ Classifies
          /\ \E reply \in Replies \ {"fails"} :
                request' = [request EXCEPT !.pc = "labels", !.answer.entity = EntityOf(reply),
                                           !.answer.entityAvailable = TRUE]
    /\ UNCHANGED <<account, label, tx, seen>>

\* The labels last; when the database fails the answer goes without them.
ReadLabels ==
    /\ request.pc = "labels"
    /\ \/ request' = [request EXCEPT !.pc = "answered"]
       \/ /\ label # "none"
          /\ request' = [request EXCEPT !.pc = "answered", !.answer.entityAvailable = TRUE,
                                        !.answer.entity = IF label = "exchange" THEN "EXCHANGE" ELSE @]
    /\ UNCHANGED <<account, label, tx, seen>>

\* FormatAmount of bigInt: a value that is no number is zero.
Formatted(value) == IF value = Unread THEN 0 ELSE value

LookupTransaction ==
    /\ request.pc = "transaction"
    /\ \/ request' = [request EXCEPT !.pc = "refused"] /\ (InReply(tx) => Faults # {})
       \/ /\ Answered(tx)
          /\ request' = [request EXCEPT !.pc = "answered", !.answer.block = BlockRead(tx),
                                        !.answer.value = ValueRead(tx),
                                        !.answer.formatted = Formatted(ValueRead(tx))]
    /\ UNCHANGED <<account, label, tx, seen>>

Done ==
    /\ request.pc \in {"answered", "refused"}
    /\ request' = Idle
    /\ seen' = Nothing
    /\ UNCHANGED <<account, label, tx>>

LookupNext ==
    /\ UNCHANGED network
    /\ \/ AccountMoves \/ Relabel \/ TransactionMoves
       \/ BeginLookup \/ ReadBalance \/ ReadActivity \/ ReadEntity \/ ReadLabels
       \/ LookupTransaction \/ Done

LookupSpec == LookupInit /\ [][LookupNext]_lookupVars

-----------------------------------------------------------------------------
(* Properties.                                                             *)

\* Every part of the state has its type; in particular what is shown as an amount is
\* a number, whatever the adapter read (bigInt, connect_server.go:281).
LookupTypeOK ==
    /\ account \in [balance : Amounts, nonce : Amounts, code : {"none", "code", "delegated"}]
    /\ network \in Networks /\ label \in {"none", "service", "exchange"}
    /\ tx \in [kind : {"transfer", "call", "creation"}, value : Amounts, block : 0..MaxBlock]
    /\ request.pc \in {"idle", "balance", "activity", "entity", "labels", "transaction",
                       "answered", "refused"}
    /\ request.answer \in Fields

Showing(kind) == request.pc = "answered" /\ request.of = kind

\* A balance or an activity that the answer marks as available was the account's at
\* some moment of the request: no failure turns into a number (LookupAddress,
\* connect_server.go:217-232).
NumbersHeld ==
    Showing("address") =>
        /\ request.answer.balance \in seen.balances \cup {Unread}
        /\ request.answer.nonce \in seen.nonces \cup {Unread}

\* The entity type of an answer was true of the account at some moment of the request:
\* a contract had code of its own, an EOA had none or only a delegation, an exchange
\* was labelled one (LookupAddress, connect_server.go:234-254; IsContract, evm.go:212).
EntityHeld ==
    Showing("address") =>
        CASE request.answer.entity = "CONTRACT" -> "code" \in seen.codes
          [] request.answer.entity = "EOA" -> seen.codes \cap {"none", "delegated"} # {}
          [] request.answer.entity = "EXCHANGE" -> "exchange" \in seen.labels
          [] OTHER -> TRUE

\* A transaction in an answer was in the block it names at some moment of the request:
\* none that is pending or unknown is shown (LookupTransaction of the adapters).
FoundWasMined == Showing("transaction") => request.answer.block \in seen.blocks \ {Absent}

\* LookupAddress and LookupTransaction (connect_server.go): each number, the entity and
\* the block of an answer were so at some moment of the request, whatever reads failed;
\* unless the adapter takes a malformed number for zero, or a malformed code for none,
\* or does not look whether the transaction is there (TRON, TON).
AnswersHeld ==
    /\ LookupTypeOK
    /\ ("malformed" \in Faults => ~ZeroIfMalformed) => NumbersHeld
    /\ "malformed" \notin Faults => EntityHeld
    /\ Adapter \notin {"tron", "ton"} => FoundWasMined

\* The amount shown with a transaction is the transaction's (connect_server.go:271).
ValueTrue == Showing("transaction") => request.answer.formatted = tx.value

=============================================================================

--------------------------- MODULE BridgeLifecycle ---------------------------
(***************************************************************************)
(* The continuation of one bridge transaction on the destination chain, as *)
(* bridge.OPStackStandardBridge.Resolve follows it: the receipt of the     *)
(* source transaction, for every deposit in it the message it sent, the    *)
(* destination logs by message id, the receipt of the relay and the two    *)
(* chain heads.  Each is an RPC of its own, between which the chains grow  *)
(* and reorganise; observations of earlier traces stay in the store.       *)
(***************************************************************************)
EXTENDS Naturals, Sequences, FiniteSets

CONSTANTS
    Deposits,     \* the deposits of the source transaction, in log order: a
                  \* sequence of [from, to, token, amount, version] records
    Native,       \* the token that is the chain's coin
    Registry,     \* tokens with a canonical route
    Confirmations,\* [Side -> Nat]: endpoint.Confirmations
    MaxReorg,     \* bound: blocks a reorganisation replaces
    MaxLag,       \* bound: blocks a chain grows during one resolve
    MaxHeight,    \* bound: blocks of a chain
    MaxResolves   \* bound: resolves of the transaction

Side == {"source", "destination"}
Index == 1 .. Len(Deposits)

ASSUME BridgeAssumption ==
    /\ \A i \in Index : /\ DOMAIN Deposits[i] = {"from", "to", "token", "amount", "version"}
                        /\ Deposits[i].amount \in Nat
                        /\ Deposits[i].version \in {0, 1}
    /\ Confirmations \in [Side -> Nat]
    /\ MaxReorg \in Nat /\ MaxLag \in Nat
    /\ MaxHeight \in Nat /\ MaxResolves \in Nat

VARIABLES
    head,      \* height of each chain
    sent,      \* block of the source transaction, 0 when it is in none
    relayed,   \* block of RelayedMessage for each deposit's message, or 0
    failed,    \* block of FailedRelayedMessage for each, or 0
    resolve,   \* the resolve under way
    resolves,  \* resolves begun
    stored     \* observations stored by bridge transition id

chain == <<head, sent, relayed, failed>>
vars == <<head, sent, relayed, failed, resolve, resolves, stored>>

NoFollow == [deposit |-> 0, lifecycle |-> "initiated", block |-> 0]

Idle == [pc |-> "idle", deposit |-> 0, sentAt |-> 0, success |-> 0, failure |-> 0,
         erred |-> FALSE, follow |-> NoFollow, sourceHead |-> 0, found |-> {},
         lag |-> [s \in Side |-> 0], before |-> <<>>, reorged |-> FALSE]

Init ==
    /\ head = [s \in Side |-> 0]
    /\ sent = 0
    /\ relayed = [i \in Index |-> 0]
    /\ failed = [i \in Index |-> 0]
    /\ resolve = Idle
    /\ resolves = 0
    /\ stored = {}

-----------------------------------------------------------------------------
(* The chains.  Only a block deeper than MaxReorg is settled.              *)

\* A chain gains a block, and a running resolve falls behind by one.
Grow(s) ==
    /\ head[s] < MaxHeight
    /\ resolve.pc # "idle" => resolve.lag[s] < MaxLag
    /\ head' = [head EXCEPT ![s] = @ + 1]
    /\ resolve' = IF resolve.pc = "idle" THEN resolve
                  ELSE [resolve EXCEPT !.lag[s] = @ + 1]
    /\ UNCHANGED <<resolves, stored>>

\* The source transaction is mined, again after a reorganisation perhaps.
MineSource(included) ==
    /\ Grow("source")
    /\ included => sent = 0
    /\ sent' = IF included THEN head["source"] + 1 ELSE sent
    /\ UNCHANGED <<relayed, failed>>

\* The destination relays a message once; it may fail to before.
MineDestination ==
    /\ Grow("destination")
    /\ \/ UNCHANGED <<relayed, failed>>
       \/ \E i \in Index :
             /\ sent # 0 /\ relayed[i] = 0
             /\ \/ /\ relayed' = [relayed EXCEPT ![i] = head["destination"] + 1]
                   /\ UNCHANGED failed
                \/ /\ failed[i] = 0
                   /\ failed' = [failed EXCEPT ![i] = head["destination"] + 1]
                   /\ UNCHANGED relayed
    /\ UNCHANGED sent

\* A resolve under way remembers that there was a reorganisation (history, as
\* `before` is: the code reads neither).
Struck == IF resolve.pc = "idle" THEN resolve ELSE [resolve EXCEPT !.reorged = TRUE]

\* What stays of an event when the blocks above `kept` are replaced.
Kept(block, kept) == IF block > kept THEN 0 ELSE block

\* The destination's blocks are replaced by empty ones.
ReorgDestination ==
    /\ \E k \in 1 .. MaxReorg :
          /\ k <= head["destination"]
          /\ relayed' = [i \in Index |-> Kept(relayed[i], head["destination"] - k)]
          /\ failed' = [i \in Index |-> Kept(failed[i], head["destination"] - k)]
    /\ resolve' = Struck
    /\ UNCHANGED <<head, sent, resolves, stored>>

\* The source's are: what was derived from the lost deposit goes with it.
ReorgSource ==
    /\ \E k \in 1 .. MaxReorg :
          /\ k <= head["source"]
          /\ sent' = Kept(sent, head["source"] - k)
    /\ relayed' = IF sent' = 0 THEN [i \in Index |-> 0] ELSE relayed
    /\ failed' = IF sent' = 0 THEN [i \in Index |-> 0] ELSE failed
    /\ resolve' = Struck
    /\ UNCHANGED <<head, resolves, stored>>

-----------------------------------------------------------------------------
(* What the receipt says.                                                  *)

\* The call a deposit's message makes on the other side.
Call(i) == [from |-> Deposits[i].from, to |-> Deposits[i].to,
            token |-> Deposits[i].token, amount |-> Deposits[i].amount]

\* The coins a message carries: those of a native deposit.
Carried(i) == IF Deposits[i].token = Native THEN Deposits[i].amount ELSE 0

\* The id the messenger gives the message of deposit i: a hash of its fields.
MessageId(i) == [nonce |-> i, value |-> Carried(i), call |-> Call(i)]

Versioned == {i \in Index : Deposits[i].version = 1}

Least(S) == CHOOSE i \in S : \A j \in S : i <= j

\* Variant: the sender and receiver are not compared.
AmountOnly(i) ==
    LET same == {j \in Versioned : Call(j).amount = Call(i).amount}
    IN  IF same = {} THEN 0 ELSE Least(same)

\* matchingMessage: the first message whose call is the deposit's.
MatchingMessage(i) ==
    LET same == {j \in Versioned : Call(j) = Call(i)}
    IN  IF same = {} THEN 0 ELSE Least(same)

\* sentMessageValue: every message of the bridge gets the value of the first
\* extension log its sender has in the receipt.
SentMessageValue == Carried(Least(Versioned))

\* messageID: computed from the matched message and that value.
ComputedId(i) ==
    [nonce |-> MatchingMessage(i), value |-> SentMessageValue, call |-> Call(MatchingMessage(i))]

\* canonicalRoute
HasRoute(i) == Deposits[i].token \in Registry

\* Deposits that are followed; the others end as unresolved without an amount,
\* which bridgeSourceTransferID links to no transfer: they are not stored.
Followed == {i \in Index : MatchingMessage(i) # 0 /\ HasRoute(i)}

\* The deposit that has an id, 0 if no message on chain does.
Sender(id) ==
    LET S == {i \in Versioned : MessageId(i) = id} IN IF S = {} THEN 0 ELSE Least(S)

\* hasMatchingFinalization: the relay of a message finalizes its sender's call.
HasMatchingFinalization(id, i) == Sender(id) # 0 /\ Call(Sender(id)) = Call(i)

\* Blocks of the logs the destination has for an id.
LogOf(events, id) == IF Sender(id) = 0 THEN 0 ELSE events[Sender(id)]

-----------------------------------------------------------------------------
(* Resolve.                                                                *)

\* The next deposit to follow, or the transaction that stores what was found.
Advance(r, found) ==
    LET later == {i \in Followed : i > r.deposit}
    IN  IF later = {}
        THEN [r EXCEPT !.pc = "save", !.found = found]
        ELSE [r EXCEPT !.pc = "relayed", !.found = found, !.deposit = Least(later),
                       !.erred = FALSE, !.success = 0, !.failure = 0,
                       !.follow = NoFollow, !.sourceHead = 0]

Observation(r, lifecycle, block, confirmedSource, confirmedDestination) ==
    [deposit |-> r.deposit, id |-> ComputedId(r.deposit), lifecycle |-> lifecycle,
     sentAt |-> r.sentAt, block |-> block,
     sourceConfirmed |-> confirmedSource, destinationConfirmed |-> confirmedDestination]

Add(r, lifecycle, block) == r.found \cup {Observation(r, lifecycle, block, FALSE, FALSE)}

\* resolveCandidate: the receipt of a transaction a trace found.  Without a
\* receipt there is an unresolved transition, which is not stored.
ReadReceipt ==
    /\ resolve.pc = "idle"
    /\ resolves < MaxResolves
    /\ resolves' = resolves + 1
    /\ resolve' = IF sent = 0 THEN Idle
                  ELSE Advance([Idle EXCEPT !.sentAt = sent,
                                            !.before = <<relayed, failed>>], {})
    /\ UNCHANGED <<chain, stored>>

\* completeDestination: GetLogs for RelayedMessage.
QueryRelayed ==
    /\ resolve.pc = "relayed"
    /\ \E answered \in BOOLEAN :
          resolve' = [resolve EXCEPT !.pc = "failed", !.erred = ~answered,
                        !.success = IF answered
                                    THEN LogOf(relayed, ComputedId(resolve.deposit)) ELSE 0]
    /\ UNCHANGED <<chain, resolves, stored>>

\* Variant: a failure is taken before a success.
FailureFirst(r) ==
    IF r.failure # 0 THEN [r EXCEPT !.pc = "heads", !.follow.lifecycle = "failed",
                                    !.follow.block = r.failure]
    ELSE IF r.success # 0 THEN [r EXCEPT !.pc = "receipt"]
    ELSE [r EXCEPT !.pc = "heads", !.follow.lifecycle = "initiated"]

\* A success is taken before a failure.
Classified(r) ==
    IF r.success # 0 THEN [r EXCEPT !.pc = "receipt"]
    ELSE IF r.failure # 0 THEN [r EXCEPT !.pc = "heads", !.follow.lifecycle = "failed",
                                         !.follow.block = r.failure]
    ELSE [r EXCEPT !.pc = "heads", !.follow.lifecycle = "initiated"]

\* GetLogs for FailedRelayedMessage, made whatever became of the first: an
\* error of either leaves the deposit unresolved.
QueryFailed ==
    /\ resolve.pc = "failed"
    /\ \E answered \in BOOLEAN :
          resolve' = IF resolve.erred \/ ~answered
                     THEN Advance(resolve, Add(resolve, "unresolved", 0))
                     ELSE Classified([resolve EXCEPT
                             !.failure = LogOf(failed, ComputedId(resolve.deposit))])
    /\ UNCHANGED <<chain, resolves, stored>>

\* The relay's receipt, by transaction hash: unavailable once the relay is in no
\* block.  It must finalize the deposit that is followed.
ReadDestinationReceipt ==
    /\ resolve.pc = "receipt"
    /\ \E answered \in BOOLEAN :
          resolve' = IF /\ answered
                        /\ LogOf(relayed, ComputedId(resolve.deposit)) # 0
                        /\ HasMatchingFinalization(ComputedId(resolve.deposit), resolve.deposit)
                     THEN [resolve EXCEPT !.pc = "heads", !.follow.lifecycle = "relayed",
                                          !.follow.block = resolve.success]
                     ELSE Advance(resolve, Add(resolve, "unresolved", resolve.success))
    /\ UNCHANGED <<chain, resolves, stored>>

\* applyConfirmations: the source head, 0 when it cannot be had.
ReadSourceHead ==
    /\ resolve.pc = "heads"
    /\ \E answered \in BOOLEAN :
          resolve' = [resolve EXCEPT !.pc = "destinationHead", !.erred = ~answered,
                                     !.sourceHead = IF answered THEN head["source"] ELSE 0]
    /\ UNCHANGED <<chain, resolves, stored>>

\* confirmed
Confirmed(height, block, threshold) ==
    block > 0 /\ height >= block /\ height - block >= threshold

\* Variant: a relay is final by the destination's confirmations alone.
FinalByDestination(follow, source, destination) ==
    IF follow.lifecycle = "relayed" /\ destination THEN "finalized" ELSE follow.lifecycle

\* A relay is final when both sides are confirmed.
Lifecycle(follow, source, destination) ==
    IF follow.lifecycle = "relayed" /\ source /\ destination
    THEN "finalized" ELSE follow.lifecycle

\* The destination head; without either head nothing is confirmed.
ReadDestinationHead ==
    /\ resolve.pc = "destinationHead"
    /\ \E answered \in BOOLEAN :
          LET known == answered /\ ~resolve.erred
              source == known /\ Confirmed(resolve.sourceHead, resolve.sentAt,
                                           Confirmations["source"])
              destination == known /\ Confirmed(head["destination"], resolve.follow.block,
                                                Confirmations["destination"])
          IN  resolve' = Advance(resolve, resolve.found \cup
                 {Observation(resolve, Lifecycle(resolve.follow, source, destination),
                              resolve.follow.block, source, destination)})
    /\ UNCHANGED <<chain, resolves, stored>>

\* transitionID: protocol, message, lifecycle and the two transactions; the relay
\* and the failure of a message are its only destination transactions.
TransitionId(o) == [id |-> o.id, lifecycle |-> o.lifecycle, reached |-> o.block # 0]

\* insertBridgeTransitions: ON CONFLICT (id) DO NOTHING.
Save ==
    /\ resolve.pc = "save"
    /\ stored' = stored \cup
          {o \in resolve.found : \A s \in stored : TransitionId(s) # TransitionId(o)}
    /\ resolve' = Idle
    /\ UNCHANGED <<chain, resolves>>

\* The trace ends before it stores anything: its deadline, or a crash.
Abandon ==
    /\ resolve.pc # "idle"
    /\ resolve' = Idle
    /\ UNCHANGED <<chain, resolves, stored>>

Next ==
    \/ \E included \in BOOLEAN : MineSource(included)
    \/ MineDestination
    \/ ReorgSource
    \/ ReorgDestination
    \/ ReadReceipt
    \/ QueryRelayed
    \/ QueryFailed
    \/ ReadDestinationReceipt
    \/ ReadSourceHead
    \/ ReadDestinationHead
    \/ Save
    \/ Abandon

Spec == Init /\ [][Next]_vars

-----------------------------------------------------------------------------
(* Properties.                                                             *)

Lifecycles == {"initiated", "relayed", "finalized", "failed", "unresolved"}

\* The variables have their types, and a stored observation is of a deposit.
TypeOK ==
    /\ head \in [Side -> 0 .. MaxHeight]
    /\ sent \in 0 .. MaxHeight
    /\ relayed \in [Index -> 0 .. MaxHeight]
    /\ failed \in [Index -> 0 .. MaxHeight]
    /\ resolve.pc \in {"idle", "relayed", "failed", "receipt", "heads", "destinationHead", "save"}
    /\ resolves \in 0 .. MaxResolves
    /\ \A o \in stored \cup resolve.found :
          o.deposit \in Followed /\ o.lifecycle \in Lifecycles

\* completeDestination ("finalized") and endpoint.Confirmations: no reorganisation
\* within the bound, before, during or after the resolve, takes back the deposit
\* or the relay of an observation stored as finalized.
FinalizedIsFinal ==
    \A o \in stored : o.lifecycle = "finalized" =>
        /\ sent = o.sentAt
        /\ LogOf(relayed, o.id) = o.block /\ o.block # 0

\* Ranks of what the destination has seen of a message.
Rank(lifecycle) ==
    CASE lifecycle = "initiated" -> 0 [] lifecycle = "failed" -> 1
      [] lifecycle \in {"relayed", "finalized"} -> 2 [] OTHER -> 0

Seen(relays, failures, id) ==
    IF LogOf(relays, id) # 0 THEN 2 ELSE IF LogOf(failures, id) # 0 THEN 1 ELSE 0

\* What a resolve says of a message lies between what the destination showed when
\* it began and what it shows now.
Between(r, id, lifecycle) ==
    /\ Seen(r.before[1], r.before[2], id) <= Rank(lifecycle)
    /\ Rank(lifecycle) <= Seen(relayed, failed, id)

\* completeDestination: as long as no reorganisation strikes, everything a resolve
\* has found lies in its window, although the two log queries are apart.
WithinWindow ==
    ~resolve.reorged =>
        \A o \in resolve.found : o.lifecycle # "unresolved" => Between(resolve, o.id, o.lifecycle)

\* matchingMessage and sentMessageValue (README.md:17, "exact ... when the message
\* ID ... match"): the id a deposit is followed by is that of its own message.
MessageExact ==
    \A o \in stored \cup resolve.found : o.id = MessageId(o.deposit)

\* Capabilities (bridge.go:148, "WETH (canonical route registry)"): a trace that
\* stores the continuation of a transaction has every version-1 deposit of it.
SupportedFollowed ==
    resolve.pc = "save" =>
        \A i \in Versioned : \E o \in resolve.found : o.deposit = i

=============================================================================

------------------------- MODULE BridgeLifecycle_proofs -------------------------
(***************************************************************************)
(* A continuation stored as finalized is never taken back, for any         *)
(* deposits, confirmations, heights and number of resolves, as long as the *)
(* confirmations of an endpoint cover a reorganisation and the growth of   *)
(* the chain while one resolve runs.  The argument: what a resolve has     *)
(* read stays true while it is deep enough under the head the chain had    *)
(* when the resolve began, and that head is at most MaxLag back.           *)
(***************************************************************************)
EXTENDS BridgeLifecycle, WellFoundedInduction, TLAPS

ResolveFields == {"pc", "deposit", "sentAt", "success", "failure", "erred", "follow",
                  "sourceHead", "found", "lag", "before", "reorged"}
FollowFields == {"deposit", "lifecycle", "block"}

\* A finalized observation holds, and lies too deep to be taken back.
Settled(o) ==
    o.lifecycle = "finalized" =>
        /\ o.sentAt \in Nat \ {0} /\ sent = o.sentAt /\ o.sentAt + MaxReorg <= head["source"]
        /\ o.block \in Nat \ {0} /\ LogOf(relayed, o.id) = o.block
        /\ o.block + MaxReorg <= head["destination"]

\* What a resolve has read lay deep enough when it began.
DeepSource(r) == r.sentAt + MaxReorg + r.lag["source"] <= head["source"]
DeepRelay(r) == r.success + MaxReorg + r.lag["destination"] <= head["destination"]

Read(r) ==
    /\ r.lag \in [Side -> Nat] /\ \A s \in Side : r.lag[s] <= MaxLag
    /\ r.sentAt \in Nat \ {0} /\ r.success \in Nat
    /\ r.sourceHead \in Nat /\ r.sourceHead <= head["source"]
    /\ DeepSource(r) => sent = r.sentAt
    /\ DeepSource(r) /\ DeepRelay(r) /\ r.success # 0
         => LogOf(relayed, ComputedId(r.deposit)) = r.success
    /\ r.follow.lifecycle # "finalized"
    /\ r.follow.lifecycle = "relayed" => r.follow.block = r.success
    /\ r.pc \in {"relayed", "failed", "receipt"} => r.follow.lifecycle # "relayed"

Trusted(r) ==
    /\ DOMAIN r = ResolveFields /\ DOMAIN r.follow = FollowFields
    /\ \A o \in r.found : Settled(o)
    /\ r.pc # "idle" => Read(r)

ChainTyped == head \in [Side -> Nat] /\ sent \in Nat /\ relayed \in [Index -> Nat]

IInv == ChainTyped /\ Trusted(resolve) /\ \A o \in stored : Settled(o)

(* The least deposit of a set is in the set.                                *)
LEMMA LeastIsIn ==
  ASSUME NEW S \in SUBSET Index, S # {} PROVE Least(S) \in S
  <1>1. S \in SUBSET Nat
    BY DEF Index
  <1> DEFINE R == OpToRel(<, Nat)
  <1>2. \E i \in S : \A j \in S : <<j, i>> \notin R
    <2>1. IsWellFoundedOn(R, Nat)
      BY NatLessThanWellFounded
    <2> HIDE DEF R
    <2> QED
      BY <1>1, <2>1, WFMin
  <1>3. \A i, j \in Nat : j < i => <<j, i>> \in R
    BY DEF OpToRel
  <1>4. \E i \in S : \A j \in S : i <= j
    <2> HIDE DEF R
    <2>1. PICK i \in S : \A j \in S : <<j, i>> \notin R
      BY <1>2
    <2>2. ASSUME NEW j \in S PROVE i <= j
      <3>1. i \in Nat /\ j \in Nat
        BY <1>1
      <3>2. ~(j < i)
        BY <1>3, <2>1, <3>1
      <3> QED
        BY <3>1, <3>2
    <2> QED
      BY <2>2
  <1> QED
    BY <1>4 DEF Least

(* What the destination has for an id is what it has for one deposit.       *)
LEMMA LogAt ==
  ASSUME NEW id
  PROVE  \/ \A events : LogOf(events, id) = 0
         \/ \E i \in Index : \A events : LogOf(events, id) = events[i]
  <1> DEFINE S == {i \in Versioned : MessageId(i) = id}
  <1>1. S \in SUBSET Index
    BY DEF Versioned
  <1>2. Sender(id) = IF S = {} THEN 0 ELSE Least(S)
    BY DEF Sender
  <1> HIDE DEF S
  <1>3. Sender(id) = 0 \/ Sender(id) \in Index
    BY <1>1, <1>2, LeastIsIn
  <1> QED
    BY <1>3 DEF LogOf

LEMMA LogTyped ==
  ASSUME NEW events \in [Index -> Nat], NEW id
  PROVE  LogOf(events, id) \in Nat
  BY LogAt

(* A log that no deposit loses stays.                                       *)
LEMMA LogStays ==
  ASSUME NEW before, NEW after, NEW id, LogOf(before, id) # 0,
         \A i \in Index : before[i] = LogOf(before, id) => after[i] = before[i]
  PROVE  LogOf(after, id) = LogOf(before, id)
  BY LogAt

LEMMA InitIInv == Init => IInv
  <1> SUFFICES ASSUME Init PROVE IInv
    OBVIOUS
  <1>1. ChainTyped
    BY DEF Init, ChainTyped
  <1>2. resolve = Idle /\ stored = {}
    BY DEF Init
  <1>3. DOMAIN Idle = ResolveFields /\ DOMAIN Idle.follow = FollowFields
    BY DEF Idle, NoFollow, ResolveFields, FollowFields
  <1>4. Idle.found = {} /\ Idle.pc = "idle"
    BY DEF Idle
  <1> QED
    BY <1>1, <1>2, <1>3, <1>4 DEF IInv, Trusted

(* A reorganisation changes nothing of a resolve but its history.           *)
LEMMA StruckIs ==
  ASSUME DOMAIN resolve = ResolveFields
  PROVE  /\ DOMAIN Struck = ResolveFields /\ Struck.follow = resolve.follow
         /\ Struck.found = resolve.found /\ Struck.pc = resolve.pc
         /\ Struck.sentAt = resolve.sentAt /\ Struck.success = resolve.success
         /\ Struck.sourceHead = resolve.sourceHead /\ Struck.deposit = resolve.deposit
         /\ Struck.lag = resolve.lag
         /\ resolve.pc # "idle" => Struck.reorged = TRUE
  BY DEF Struck, ResolveFields

(* A step of the chains: heads do not fall, what is deep stays, and a       *)
(* running resolve falls behind by what its chain grows.                    *)
LEMMA ChainStep ==
  ASSUME IInv, ChainTyped', stored' = stored,
         \A s \in Side : head'[s] >= head[s],
         sent # 0 /\ sent + MaxReorg <= head["source"] => sent' = sent,
         \A id : /\ sent # 0 /\ sent + MaxReorg <= head["source"]
                 /\ LogOf(relayed, id) # 0 /\ LogOf(relayed, id) + MaxReorg <= head["destination"]
                 => LogOf(relayed', id) = LogOf(relayed, id),
         \/ resolve' = resolve /\ (head' = head \/ resolve.pc = "idle")
         \/ resolve' = Struck /\ head' = head
         \/ \E s \in Side : /\ resolve.pc # "idle" /\ resolve.lag[s] < MaxLag
                           /\ resolve' = [resolve EXCEPT !.lag[s] = @ + 1]
                           /\ head' = [head EXCEPT ![s] = @ + 1]
  PROVE  IInv'
  <1> USE DEF IInv
  <1>0. /\ head["source"] \in Nat /\ head["destination"] \in Nat
        /\ head'["source"] \in Nat /\ head'["destination"] \in Nat
        /\ head'["source"] >= head["source"] /\ head'["destination"] >= head["destination"]
        /\ MaxReorg \in Nat /\ MaxLag \in Nat
    BY BridgeAssumption DEF ChainTyped, Side
  <1>1. ASSUME NEW o, Settled(o) PROVE Settled(o)'
    BY <1>0, <1>1 DEF Settled
  <1>2. CASE \/ resolve' = resolve /\ (head' = head \/ resolve.pc = "idle")
             \/ resolve' = Struck /\ head' = head
    <2>0. /\ DOMAIN resolve' = ResolveFields /\ resolve'.follow = resolve.follow
          /\ resolve'.found = resolve.found /\ resolve'.pc = resolve.pc
          /\ resolve'.sentAt = resolve.sentAt /\ resolve'.success = resolve.success
          /\ resolve'.sourceHead = resolve.sourceHead /\ resolve'.deposit = resolve.deposit
          /\ resolve'.lag = resolve.lag
      BY <1>2, StruckIs DEF Trusted
    <2>1. resolve.pc # "idle" => Read(resolve)'
      <3> SUFFICES ASSUME resolve.pc # "idle" PROVE Read(resolve)'
        OBVIOUS
      <3>1. Read(resolve) /\ head' = head
        BY <1>2 DEF Trusted
      <3>2. resolve.lag["source"] \in Nat /\ resolve.lag["destination"] \in Nat
        BY <3>1 DEF Read, Side
      <3>3. DeepSource(resolve) => sent = resolve.sentAt /\ sent' = sent /\ sent # 0
                                   /\ sent + MaxReorg <= head["source"]
        BY <1>0, <3>1, <3>2 DEF Read, DeepSource
      <3>4. DeepSource(resolve) /\ DeepRelay(resolve) /\ resolve.success # 0
              => LogOf(relayed', ComputedId(resolve.deposit)) = resolve.success
        BY <1>0, <3>1, <3>2, <3>3 DEF Read, DeepRelay
      <3> QED
        BY <2>0, <3>1, <3>3, <3>4 DEF Read, DeepSource, DeepRelay
    <2> QED
      BY <1>1, <1>2, <2>0, <2>1 DEF Trusted
  <1>3. ASSUME NEW s \in Side, resolve.pc # "idle", resolve.lag[s] < MaxLag,
               resolve' = [resolve EXCEPT !.lag[s] = @ + 1],
               head' = [head EXCEPT ![s] = @ + 1]
        PROVE  IInv'
    <2>1. Read(resolve) /\ DOMAIN resolve = ResolveFields /\ DOMAIN resolve.follow = FollowFields
          /\ \A o \in resolve.found : Settled(o)
      BY <1>3 DEF Trusted
    <2>2. /\ DOMAIN resolve' = ResolveFields /\ resolve'.follow = resolve.follow
          /\ resolve'.found = resolve.found /\ resolve'.pc = resolve.pc
          /\ resolve'.sentAt = resolve.sentAt /\ resolve'.success = resolve.success
          /\ resolve'.sourceHead = resolve.sourceHead /\ resolve'.deposit = resolve.deposit
          /\ resolve'.lag = [resolve.lag EXCEPT ![s] = @ + 1]
      BY <1>3, <2>1 DEF ResolveFields
    <2>3. /\ resolve'.lag \in [Side -> Nat] /\ \A t \in Side : resolve'.lag[t] <= MaxLag
      BY <1>0, <1>3, <2>1, <2>2 DEF Read
    <2>4. \A t \in Side : head'[t] - resolve'.lag[t] = head[t] - resolve.lag[t]
      BY <1>3, <2>1, <2>2 DEF Read, ChainTyped
    <2>5. /\ resolve.lag["source"] \in Nat /\ resolve.lag["destination"] \in Nat
          /\ resolve'.lag["source"] \in Nat /\ resolve'.lag["destination"] \in Nat
      BY <2>1, <2>3 DEF Read, Side
    <2>6. (DeepSource(resolve)' => DeepSource(resolve)) /\ (DeepRelay(resolve)' => DeepRelay(resolve))
      BY <1>0, <2>1, <2>2, <2>4, <2>5 DEF Read, DeepSource, DeepRelay, Side
    <2>7. DeepSource(resolve) => sent = resolve.sentAt /\ sent' = sent /\ sent # 0
                                 /\ sent + MaxReorg <= head["source"]
      BY <1>0, <2>1, <2>5 DEF Read, DeepSource
    <2>8. DeepSource(resolve) /\ DeepRelay(resolve) /\ resolve.success # 0
            => LogOf(relayed', ComputedId(resolve.deposit)) = resolve.success
      BY <1>0, <2>1, <2>5, <2>7 DEF Read, DeepRelay
    <2>9. Read(resolve)'
      BY <1>0, <2>1, <2>2, <2>3, <2>6, <2>7, <2>8 DEF Read
    <2> QED
      BY <1>1, <2>1, <2>2, <2>9 DEF Trusted
  <1> QED
    BY <1>2, <1>3

(* The chains grow: what they hold stays.                                   *)
LEMMA GrowIInv ==
  ASSUME IInv, NEW s \in Side, Grow(s), ChainTyped',
         sent # 0 => sent' = sent,
         \A i \in Index : relayed[i] # 0 => relayed'[i] = relayed[i]
  PROVE  IInv'
  <1>1. head \in [Side -> Nat] /\ head' = [head EXCEPT ![s] = @ + 1] /\ stored' = stored
    BY DEF IInv, ChainTyped, Grow
  <1>2. \A t \in Side : head'[t] >= head[t]
    BY <1>1
  <1>3. ASSUME NEW id, LogOf(relayed, id) # 0 PROVE LogOf(relayed', id) = LogOf(relayed, id)
    BY <1>3, LogStays
  <1>4. CASE resolve.pc = "idle"
    BY <1>1, <1>2, <1>3, <1>4, ChainStep DEF Grow
  <1>5. CASE resolve.pc # "idle"
    <2>1. resolve.lag[s] < MaxLag /\ resolve' = [resolve EXCEPT !.lag[s] = @ + 1]
      BY <1>5 DEF Grow
    <2> QED
      BY <1>1, <1>2, <1>3, <1>5, <2>1, ChainStep
  <1> QED
    BY <1>4, <1>5

LEMMA MineIInv ==
  ASSUME IInv, MineDestination \/ \E included \in BOOLEAN : MineSource(included)
  PROVE  IInv'
  <1>0. head \in [Side -> Nat] /\ sent \in Nat /\ relayed \in [Index -> Nat]
    BY DEF IInv, ChainTyped
  <1>1. ASSUME NEW included \in BOOLEAN, MineSource(included) PROVE IInv'
    <2>1. /\ Grow("source") /\ relayed' = relayed /\ (sent # 0 => sent' = sent)
          /\ sent' \in {sent, head["source"] + 1}
      BY <1>1 DEF MineSource
    <2>2. ChainTyped'
      BY <1>0, <2>1 DEF ChainTyped, Grow, Side
    <2> QED
      BY <2>1, <2>2, GrowIInv DEF Side
  <1>2. CASE MineDestination
    <2>1. Grow("destination") /\ sent' = sent
      BY <1>2 DEF MineDestination
    <2>2. \/ relayed' = relayed
          \/ \E i \in Index : relayed[i] = 0
                             /\ relayed' = [relayed EXCEPT ![i] = head["destination"] + 1]
      BY <1>2 DEF MineDestination
    <2>3. head' \in [Side -> Nat] /\ head["destination"] + 1 \in Nat
      BY <1>0, <2>1 DEF Grow, Side
    <2>4. relayed' \in [Index -> Nat]
      BY <1>0, <2>2, <2>3
    <2>5. ChainTyped'
      BY <1>0, <2>1, <2>3, <2>4 DEF ChainTyped
    <2>6. \A i \in Index : relayed[i] # 0 => relayed'[i] = relayed[i]
      BY <1>0, <2>2
    <2> QED
      BY <2>1, <2>5, <2>6, GrowIInv DEF Side
  <1> QED
    BY <1>1, <1>2

(* A reorganisation keeps what lies MaxReorg under the head.                *)
LEMMA ReorgIInv ==
  ASSUME IInv, ReorgSource \/ ReorgDestination
  PROVE  IInv'
  <1>0. /\ head \in [Side -> Nat] /\ sent \in Nat /\ relayed \in [Index -> Nat]
        /\ head["source"] \in Nat /\ head["destination"] \in Nat /\ MaxReorg \in Nat
    BY BridgeAssumption DEF IInv, ChainTyped, Side
  <1>1. CASE ReorgSource
    <2>1. PICK k \in 1 .. MaxReorg : k <= head["source"] /\ sent' = Kept(sent, head["source"] - k)
      BY <1>1 DEF ReorgSource
    <2>2. /\ head' = head /\ resolve' = Struck /\ stored' = stored
          /\ relayed' = IF sent' = 0 THEN [i \in Index |-> 0] ELSE relayed
      BY <1>1 DEF ReorgSource
    <2>3. sent' \in Nat /\ (sent + MaxReorg <= head["source"] => sent' = sent)
      BY <1>0, <2>1 DEF Kept
    <2>4. ChainTyped'
      BY <1>0, <2>2, <2>3 DEF ChainTyped
    <2>5. \A t \in Side : head'[t] >= head[t]
      BY <1>0, <2>2
    <2>6. sent # 0 /\ sent + MaxReorg <= head["source"] => relayed' = relayed
      BY <2>2, <2>3
    <2> QED
      BY <2>2, <2>3, <2>4, <2>5, <2>6, ChainStep
  <1>2. CASE ReorgDestination
    <2>1. PICK k \in 1 .. MaxReorg :
            /\ k <= head["destination"]
            /\ relayed' = [i \in Index |-> Kept(relayed[i], head["destination"] - k)]
      BY <1>2 DEF ReorgDestination
    <2>2. head' = head /\ sent' = sent /\ resolve' = Struck /\ stored' = stored
      BY <1>2 DEF ReorgDestination
    <2>3. \A i \in Index : relayed'[i] \in Nat
                         /\ (relayed[i] + MaxReorg <= head["destination"] => relayed'[i] = relayed[i])
      BY <1>0, <2>1 DEF Kept
    <2>4. ChainTyped'
      BY <1>0, <2>1, <2>2, <2>3 DEF ChainTyped
    <2>5. \A t \in Side : head'[t] >= head[t]
      BY <1>0, <2>2
    <2>6. ASSUME NEW id, LogOf(relayed, id) # 0, LogOf(relayed, id) + MaxReorg <= head["destination"]
          PROVE  LogOf(relayed', id) = LogOf(relayed, id)
      BY <2>3, <2>6, LogStays
    <2> QED
      BY <2>2, <2>4, <2>5, <2>6, ChainStep
  <1> QED
    BY <1>1, <1>2

(* The chains stand still while a resolve moves.                            *)
LEMMA ResolveStep ==
  ASSUME IInv, UNCHANGED chain, NEW r, Trusted(r), resolve' = r,
         \A o \in stored' : o \in stored \/ Settled(o)
  PROVE  IInv'
  <1>1. head' = head /\ sent' = sent /\ relayed' = relayed
    BY DEF chain
  <1>2. ChainTyped'
    BY <1>1 DEF IInv, ChainTyped
  <1>3. \A o : Settled(o) => Settled(o)'
    BY <1>1 DEF Settled
  <1>4. Read(r) => Read(resolve)'
    BY <1>1 DEF Read, DeepSource, DeepRelay
  <1>5. Trusted(resolve)'
    BY <1>3, <1>4 DEF Trusted
  <1> QED
    BY <1>2, <1>3, <1>5 DEF IInv

(* The next deposit starts from what is known of the transaction.           *)
LEMMA AdvanceTrusted ==
  ASSUME ChainTyped, NEW r, Trusted(r), Read(r), NEW found, \A o \in found : Settled(o)
  PROVE  Trusted(Advance(r, found))
  <1> DEFINE later == {i \in Followed : i > r.deposit}
  <1>0. DOMAIN r = ResolveFields
    BY DEF Trusted
  <1>1. CASE later = {}
    <2> DEFINE n == [r EXCEPT !.pc = "save", !.found = found]
    <2>1. Advance(r, found) = n
      BY <1>1 DEF Advance
    <2>2. /\ DOMAIN n = ResolveFields /\ n.found = found /\ n.follow = r.follow /\ n.pc = "save"
          /\ n.lag = r.lag /\ n.sentAt = r.sentAt /\ n.success = r.success
          /\ n.sourceHead = r.sourceHead /\ n.deposit = r.deposit
      BY <1>0 DEF ResolveFields
    <2> HIDE DEF n
    <2> QED
      BY <2>1, <2>2 DEF Trusted, Read, DeepSource, DeepRelay
  <1>2. CASE later # {}
    <2> DEFINE n == [r EXCEPT !.pc = "relayed", !.found = found, !.deposit = Least(later),
                             !.erred = FALSE, !.success = 0, !.failure = 0,
                             !.follow = NoFollow, !.sourceHead = 0]
    <2>1. Advance(r, found) = n
      BY <1>2 DEF Advance
    <2>2. /\ DOMAIN n = ResolveFields /\ n.found = found /\ n.follow = NoFollow
          /\ n.lag = r.lag /\ n.sentAt = r.sentAt /\ n.success = 0 /\ n.sourceHead = 0
      BY <1>0 DEF ResolveFields
    <2> HIDE DEF n
    <2>3. DOMAIN NoFollow = FollowFields /\ NoFollow.lifecycle = "initiated"
      BY DEF NoFollow, FollowFields
    <2>4. 0 <= head["source"]
      BY DEF ChainTyped, Side
    <2> QED
      BY <2>1, <2>2, <2>3, <2>4 DEF Trusted, Read, DeepSource, DeepRelay
  <1> QED
    BY <1>1, <1>2

LEMMA FreshTrusted == IInv => Trusted(Idle)
  BY DEF Trusted, Idle, NoFollow, ResolveFields, FollowFields

LEMMA ReadReceiptIInv == IInv /\ ReadReceipt => IInv'
  <1> SUFFICES ASSUME IInv, ReadReceipt PROVE IInv'
    OBVIOUS
  <1>1. UNCHANGED chain /\ stored' = stored
    BY DEF ReadReceipt
  <1> DEFINE n == [Idle EXCEPT !.sentAt = sent, !.before = <<relayed, failed>>]
  <1>2. CASE sent = 0
    BY <1>1, <1>2, FreshTrusted, ResolveStep DEF ReadReceipt
  <1>3. CASE sent # 0
    <2>1. /\ DOMAIN n = ResolveFields /\ n.found = {} /\ n.follow = NoFollow /\ n.pc = "idle"
          /\ n.lag = [s \in Side |-> 0] /\ n.sentAt = sent /\ n.success = 0 /\ n.sourceHead = 0
      BY DEF Idle, ResolveFields
    <2>2. resolve' = Advance(n, {})
      BY <1>3 DEF ReadReceipt
    <2> HIDE DEF n
    <2>3. DOMAIN NoFollow = FollowFields /\ NoFollow.lifecycle = "initiated"
      BY DEF NoFollow, FollowFields
    <2>4. sent \in Nat \ {0} /\ 0 <= head["source"] /\ 0 <= MaxLag
      BY <1>3, BridgeAssumption DEF IInv, ChainTyped, Side
    <2>5. Trusted(n) /\ Read(n)
      BY <2>1, <2>3, <2>4 DEF Trusted, Read
    <2>6. Trusted(Advance(n, {}))
      BY <2>5, AdvanceTrusted DEF IInv
    <2> QED
      BY <1>1, <2>2, <2>6, ResolveStep
  <1> QED
    BY <1>2, <1>3

LEMMA QueryRelayedIInv == IInv /\ QueryRelayed => IInv'
  <1> SUFFICES ASSUME IInv, QueryRelayed PROVE IInv'
    OBVIOUS
  <1>1. UNCHANGED chain /\ stored' = stored /\ resolve.pc = "relayed"
    BY DEF QueryRelayed
  <1> DEFINE log == LogOf(relayed, ComputedId(resolve.deposit))
             n(erred, success) == [resolve EXCEPT !.pc = "failed", !.erred = erred,
                                                  !.success = success]
  <1>2. PICK answered \in BOOLEAN : resolve' = n(~answered, IF answered THEN log ELSE 0)
    BY DEF QueryRelayed
  <1>3. Trusted(resolve) /\ Read(resolve) /\ log \in Nat
    BY <1>1, LogTyped DEF IInv, ChainTyped, Trusted
  <1>4. ASSUME NEW erred, NEW success \in {0, log} PROVE Trusted(n(erred, success))
    <2> DEFINE r == n(erred, success)
    <2>1. /\ DOMAIN r = ResolveFields /\ r.found = resolve.found /\ r.follow = resolve.follow
          /\ r.pc = "failed" /\ r.lag = resolve.lag /\ r.sentAt = resolve.sentAt
          /\ r.success = success /\ r.sourceHead = resolve.sourceHead
          /\ r.deposit = resolve.deposit
      BY <1>3 DEF Trusted, ResolveFields
    <2>2. r.success \in Nat
      BY <1>3, <1>4, <2>1
    <2> HIDE DEF n
    <2>3. resolve.follow.lifecycle # "relayed"
      BY <1>1, <1>3 DEF Read
    <2>4. r.success # 0 => LogOf(relayed, ComputedId(r.deposit)) = r.success
      BY <1>4, <2>1
    <2>5. DeepSource(r) = DeepSource(resolve)
      BY <2>1 DEF DeepSource
    <2>6. Read(r)
      BY <1>3, <2>1, <2>2, <2>3, <2>4, <2>5 DEF Read
    <2> QED
      BY <1>3, <2>1, <2>6 DEF Trusted
  <1>5. Trusted(resolve')
    BY <1>2, <1>4
  <1> QED
    BY <1>1, <1>5, ResolveStep

LEMMA UnsettledAdded ==
  ASSUME Trusted(resolve), NEW block
  PROVE  \A o \in Add(resolve, "unresolved", block) : Settled(o)
  BY DEF Trusted, Add, Observation, Settled

(* A step of a resolve that sets only its place and what it follows.        *)
LEMMA FollowTrusted ==
  ASSUME Trusted(resolve), Read(resolve), NEW r, DOMAIN r = ResolveFields,
         DOMAIN r.follow = FollowFields, r.found = resolve.found, r.lag = resolve.lag,
         r.sentAt = resolve.sentAt, r.success = resolve.success, r.deposit = resolve.deposit,
         r.sourceHead \in Nat /\ r.sourceHead <= head["source"],
         r.follow.lifecycle # "finalized",
         r.follow.lifecycle = "relayed" => r.follow.block = r.success,
         r.pc \in {"relayed", "failed", "receipt"} => r.follow.lifecycle # "relayed"
  PROVE  Trusted(r)
  BY DEF Trusted, Read, DeepSource, DeepRelay

LEMMA QueryFailedIInv == IInv /\ QueryFailed => IInv'
  <1> SUFFICES ASSUME IInv, QueryFailed PROVE IInv'
    OBVIOUS
  <1>1. UNCHANGED chain /\ stored' = stored /\ resolve.pc = "failed"
    BY DEF QueryFailed
  <1>2. Trusted(resolve) /\ Read(resolve)
    BY <1>1 DEF IInv, Trusted
  <1> DEFINE r == [resolve EXCEPT !.failure = LogOf(failed, ComputedId(resolve.deposit))]
  <1>3. resolve' \in {Advance(resolve, Add(resolve, "unresolved", 0)), Classified(r)}
    BY DEF QueryFailed
  <1>4. Trusted(Advance(resolve, Add(resolve, "unresolved", 0)))
    BY <1>2, AdvanceTrusted, UnsettledAdded DEF IInv
  <1>5. /\ DOMAIN r = ResolveFields /\ DOMAIN r.follow = FollowFields
        /\ r.found = resolve.found /\ r.lag = resolve.lag /\ r.sentAt = resolve.sentAt
        /\ r.success = resolve.success /\ r.deposit = resolve.deposit
        /\ r.sourceHead = resolve.sourceHead /\ r.follow = resolve.follow
    BY <1>2 DEF Trusted, ResolveFields
  <1>6. resolve.follow.lifecycle # "relayed" /\ resolve.follow.lifecycle # "finalized"
        /\ resolve.sourceHead \in Nat /\ resolve.sourceHead <= head["source"]
    BY <1>1, <1>2 DEF Read
  <1> HIDE DEF r
  <1>7. Trusted(Classified(r))
    <2>1. CASE r.success # 0
      <3> DEFINE n == [r EXCEPT !.pc = "receipt"]
      <3>1. Classified(r) = n
        BY <2>1 DEF Classified
      <3>2. /\ DOMAIN n = ResolveFields /\ n.follow = r.follow /\ n.found = r.found
            /\ n.lag = r.lag /\ n.sentAt = r.sentAt /\ n.success = r.success
            /\ n.deposit = r.deposit /\ n.sourceHead = r.sourceHead
        BY <1>5 DEF ResolveFields
      <3> HIDE DEF n
      <3> QED
        BY <1>2, <1>5, <1>6, <3>1, <3>2, FollowTrusted
    <2>2. ASSUME NEW lifecycle \in {"failed", "initiated"}, NEW n,
                 \/ n = [r EXCEPT !.pc = "heads", !.follow.lifecycle = lifecycle,
                                  !.follow.block = r.failure]
                 \/ n = [r EXCEPT !.pc = "heads", !.follow.lifecycle = lifecycle]
          PROVE  Trusted(n)
      <3>1. /\ DOMAIN n = ResolveFields /\ n.found = r.found /\ n.pc = "heads"
            /\ n.lag = r.lag /\ n.sentAt = r.sentAt /\ n.success = r.success
            /\ n.deposit = r.deposit /\ n.sourceHead = r.sourceHead
        BY <1>5, <2>2 DEF ResolveFields
      <3>2. \/ n.follow = [r.follow EXCEPT !.lifecycle = lifecycle, !.block = r.failure]
            \/ n.follow = [r.follow EXCEPT !.lifecycle = lifecycle]
        BY <1>5, <2>2 DEF ResolveFields
      <3>3. DOMAIN n.follow = FollowFields /\ n.follow.lifecycle = lifecycle
        BY <1>5, <3>2 DEF FollowFields
      <3> QED
        BY <1>2, <1>5, <1>6, <3>1, <3>3, FollowTrusted
    <2>3. CASE r.success = 0
      BY <2>2, <2>3 DEF Classified
    <2> QED
      BY <2>1, <2>3
  <1> QED
    BY <1>1, <1>3, <1>4, <1>7, ResolveStep

LEMMA ReadDestinationReceiptIInv == IInv /\ ReadDestinationReceipt => IInv'
  <1> SUFFICES ASSUME IInv, ReadDestinationReceipt PROVE IInv'
    OBVIOUS
  <1>1. UNCHANGED chain /\ stored' = stored /\ resolve.pc = "receipt"
    BY DEF ReadDestinationReceipt
  <1>2. Trusted(resolve) /\ Read(resolve)
    BY <1>1 DEF IInv, Trusted
  <1> DEFINE n == [resolve EXCEPT !.pc = "heads", !.follow.lifecycle = "relayed",
                                  !.follow.block = resolve.success]
  <1>3. resolve' \in {n, Advance(resolve, Add(resolve, "unresolved", resolve.success))}
    BY DEF ReadDestinationReceipt
  <1>4. Trusted(Advance(resolve, Add(resolve, "unresolved", resolve.success)))
    BY <1>2, AdvanceTrusted, UnsettledAdded DEF IInv
  <1>5. Trusted(n)
    <2>1. /\ DOMAIN n = ResolveFields /\ n.found = resolve.found /\ n.pc = "heads"
          /\ n.lag = resolve.lag /\ n.sentAt = resolve.sentAt /\ n.success = resolve.success
          /\ n.deposit = resolve.deposit /\ n.sourceHead = resolve.sourceHead
      BY <1>2 DEF Trusted, ResolveFields
    <2>2. n.follow = [resolve.follow EXCEPT !.lifecycle = "relayed", !.block = resolve.success]
      BY <1>2 DEF Trusted, ResolveFields
    <2> HIDE DEF n
    <2>3. DOMAIN n.follow = FollowFields /\ n.follow.lifecycle = "relayed"
          /\ n.follow.block = resolve.success
      BY <1>2, <2>2 DEF Trusted, FollowFields
    <2>4. n.sourceHead \in Nat /\ n.sourceHead <= head["source"]
      BY <1>2, <2>1 DEF Read
    <2> QED
      BY <1>2, <2>1, <2>3, <2>4, FollowTrusted
  <1> QED
    BY <1>1, <1>3, <1>4, <1>5, ResolveStep

LEMMA ReadSourceHeadIInv == IInv /\ ReadSourceHead => IInv'
  <1> SUFFICES ASSUME IInv, ReadSourceHead PROVE IInv'
    OBVIOUS
  <1>1. UNCHANGED chain /\ stored' = stored /\ resolve.pc = "heads"
    BY DEF ReadSourceHead
  <1>2. Trusted(resolve) /\ Read(resolve) /\ head["source"] \in Nat
    BY <1>1 DEF IInv, Trusted, ChainTyped, Side
  <1>3. PICK erred \in BOOLEAN, height \in {0, head["source"]} :
           resolve' = [resolve EXCEPT !.pc = "destinationHead", !.erred = erred,
                                      !.sourceHead = height]
    BY DEF ReadSourceHead
  <1>4. /\ DOMAIN resolve' = ResolveFields /\ resolve'.follow = resolve.follow
        /\ resolve'.found = resolve.found /\ resolve'.pc = "destinationHead"
        /\ resolve'.lag = resolve.lag /\ resolve'.sentAt = resolve.sentAt
        /\ resolve'.success = resolve.success /\ resolve'.deposit = resolve.deposit
        /\ resolve'.sourceHead = height
    BY <1>2, <1>3 DEF Trusted, ResolveFields
  <1>5. DOMAIN resolve'.follow = FollowFields /\ resolve'.follow.lifecycle # "finalized"
        /\ (resolve'.follow.lifecycle = "relayed" => resolve'.follow.block = resolve'.success)
    BY <1>2, <1>4 DEF Trusted, Read
  <1>6. height \in Nat /\ height <= head["source"]
    BY <1>2
  <1>7. Trusted(resolve')
    BY <1>2, <1>4, <1>5, <1>6, FollowTrusted
  <1> QED
    BY <1>1, <1>7, ResolveStep

(* What an endpoint's confirmations cover lay deep when the resolve began.  *)
LEMMA ReadDestinationHeadIInv ==
  ASSUME \A s \in Side : Confirmations[s] >= MaxReorg + MaxLag,
         IInv, ReadDestinationHead
  PROVE  IInv'
  <1>1. UNCHANGED chain /\ stored' = stored /\ resolve.pc = "destinationHead"
    BY DEF ReadDestinationHead
  <1>2. Trusted(resolve) /\ Read(resolve)
    BY <1>1 DEF IInv, Trusted
  <1> DEFINE deepSource == Confirmed(resolve.sourceHead, resolve.sentAt, Confirmations["source"])
             deepRelay == Confirmed(head["destination"], resolve.follow.block,
                                    Confirmations["destination"])
             o(source, destination) ==
               Observation(resolve, Lifecycle(resolve.follow, source, destination),
                           resolve.follow.block, source, destination)
  <1>3. PICK source \in BOOLEAN, destination \in BOOLEAN :
          /\ source => deepSource
          /\ destination => deepRelay
          /\ resolve' = Advance(resolve, resolve.found \cup {o(source, destination)})
    BY DEF ReadDestinationHead
  <1>4. /\ MaxReorg \in Nat /\ MaxLag \in Nat /\ head["source"] \in Nat
        /\ head["destination"] \in Nat
        /\ Confirmations["source"] \in Nat /\ Confirmations["source"] >= MaxReorg + MaxLag
        /\ Confirmations["destination"] \in Nat
        /\ Confirmations["destination"] >= MaxReorg + MaxLag
    BY BridgeAssumption DEF IInv, ChainTyped, Side
  <1>5. /\ resolve.lag["source"] \in Nat /\ resolve.lag["source"] <= MaxLag
        /\ resolve.lag["destination"] \in Nat /\ resolve.lag["destination"] <= MaxLag
        /\ resolve.sentAt \in Nat \ {0} /\ resolve.success \in Nat
        /\ resolve.sourceHead \in Nat /\ resolve.sourceHead <= head["source"]
    BY <1>2 DEF Read, Side
  <1>6. Settled(o(source, destination))
    <2>1. SUFFICES ASSUME Lifecycle(resolve.follow, source, destination) = "finalized"
                   PROVE  Settled(o(source, destination))
      BY DEF Settled, Observation
    <2>2. resolve.follow.lifecycle = "relayed" /\ source /\ destination
      BY <1>2, <2>1 DEF Lifecycle, Read
    <2>3. resolve.follow.block = resolve.success
      BY <1>2, <2>2 DEF Read
    <2>4. deepSource /\ deepRelay
      BY <1>3, <2>2
    <2>5. DeepSource(resolve) /\ resolve.sentAt + MaxReorg <= head["source"]
      BY <1>4, <1>5, <2>4 DEF Confirmed, DeepSource
    <2>6. DeepRelay(resolve) /\ resolve.success # 0
          /\ resolve.success + MaxReorg <= head["destination"]
      BY <1>4, <1>5, <2>3, <2>4 DEF Confirmed, DeepRelay
    <2>7. sent = resolve.sentAt /\ LogOf(relayed, ComputedId(resolve.deposit)) = resolve.success
      BY <1>2, <2>5, <2>6 DEF Read
    <2>8. /\ o(source, destination).sentAt = resolve.sentAt
          /\ o(source, destination).block = resolve.success
          /\ o(source, destination).id = ComputedId(resolve.deposit)
      BY <2>3 DEF Observation
    <2> QED
      BY <1>5, <2>5, <2>6, <2>7, <2>8 DEF Settled
  <1>7. \A x \in resolve.found \cup {o(source, destination)} : Settled(x)
    BY <1>2, <1>6 DEF Trusted
  <1>8. Trusted(Advance(resolve, resolve.found \cup {o(source, destination)}))
    <2> HIDE DEF o
    <2> QED
      BY <1>2, <1>7, AdvanceTrusted DEF IInv
  <1> QED
    BY <1>1, <1>3, <1>8, ResolveStep

LEMMA EndIInv == IInv /\ (Save \/ Abandon) => IInv'
  <1> SUFFICES ASSUME IInv, Save \/ Abandon PROVE IInv'
    OBVIOUS
  <1>1. UNCHANGED chain /\ resolve' = Idle
    BY DEF Save, Abandon
  <1>2. \A o \in resolve.found : Settled(o)
    BY DEF IInv, Trusted
  <1>3. stored' \subseteq stored \cup resolve.found
    BY DEF Save, Abandon
  <1> QED
    BY <1>1, <1>2, <1>3, FreshTrusted, ResolveStep

(* The invariant is inductive when confirmations cover the bounds.          *)
LEMMA Inductive ==
  ASSUME \A s \in Side : Confirmations[s] >= MaxReorg + MaxLag
  PROVE  IInv /\ [Next]_vars => IInv'
  <1> SUFFICES ASSUME IInv, [Next]_vars PROVE IInv'
    OBVIOUS
  <1>1. CASE MineDestination \/ \E included \in BOOLEAN : MineSource(included)
    BY <1>1, MineIInv
  <1>2. CASE ReorgSource \/ ReorgDestination
    BY <1>2, ReorgIInv
  <1>3. CASE ReadReceipt
    BY <1>3, ReadReceiptIInv
  <1>4. CASE QueryRelayed
    BY <1>4, QueryRelayedIInv
  <1>5. CASE QueryFailed
    BY <1>5, QueryFailedIInv
  <1>6. CASE ReadDestinationReceipt
    BY <1>6, ReadDestinationReceiptIInv
  <1>7. CASE ReadSourceHead
    BY <1>7, ReadSourceHeadIInv
  <1>8. CASE ReadDestinationHead
    BY <1>8, ReadDestinationHeadIInv
  <1>9. CASE Save \/ Abandon
    BY <1>9, EndIInv
  <1>10. CASE UNCHANGED vars
    <2>1. UNCHANGED chain /\ resolve' = resolve /\ stored' = stored
      BY <1>10 DEF vars, chain
    <2> QED
      BY <2>1, ResolveStep DEF IInv
  <1> QED
    BY <1>1, <1>2, <1>3, <1>4, <1>5, <1>6, <1>7, <1>8, <1>9, <1>10 DEF Next

(* completeDestination and endpoint.Confirmations: when the confirmations   *)
(* of each side cover the deepest reorganisation and the growth of the      *)
(* chain during one resolve, no reorganisation takes back the deposit or    *)
(* the relay of an observation stored as finalized.                         *)
THEOREM FinalizedHolds ==
  ASSUME \A s \in Side : Confirmations[s] >= MaxReorg + MaxLag
  PROVE  Spec => []FinalizedIsFinal
  <1>1. IInv => FinalizedIsFinal
    BY DEF IInv, Settled, FinalizedIsFinal
  <1>2. Spec => []IInv
    BY InitIInv, Inductive, PTL DEF Spec
  <1> QED
    BY <1>1, <1>2, PTL

-----------------------------------------------------------------------------
(* The window and the message of a resolve, for any confirmations and      *)
(* reorganisations.  Without a reorganisation what the destination showed  *)
(* when the resolve began is still there, so a query that found nothing    *)
(* says that there was nothing then.                                       *)

\* What a resolve that no reorganisation struck knows.
Sees(r) ==
    /\ \A i \in Index : r.before[1][i] # 0 => relayed[i] # 0
    /\ \A i \in Index : r.before[2][i] # 0 => failed[i] # 0

Follows(r) ==
    /\ r.pc = "failed" /\ ~r.erred /\ r.success = 0
         => LogOf(r.before[1], ComputedId(r.deposit)) = 0
    /\ r.pc \in {"heads", "destinationHead"} =>
         /\ r.follow.lifecycle \in {"initiated", "failed", "relayed"}
         /\ Between(r, ComputedId(r.deposit), r.follow.lifecycle)

Finds(r, found) ==
    \A o \in found : o.lifecycle # "unresolved" => Between(r, o.id, o.lifecycle)

Windowed(r) == ~r.reorged => Sees(r) /\ Follows(r) /\ Finds(r, r.found)

\* What is reported of a deposit goes by the id that was computed for it.
Own(o) == o.deposit \in Followed /\ o.id = ComputedId(o.deposit)

Formed(r) ==
    /\ DOMAIN r = ResolveFields /\ DOMAIN r.follow = FollowFields
    /\ r.pc = "idle" => r.found = {}
    /\ r.pc \notin {"idle", "save"} => r.deposit \in Followed
    /\ \A o \in r.found : Own(o)

WInv ==
    /\ ChainTyped /\ failed \in [Index -> Nat]
    /\ Formed(resolve) /\ \A o \in stored : Own(o)
    /\ resolve.pc # "idle" => Windowed(resolve)

(* Logs that stay keep what is seen of a message.                           *)
LEMMA SeenStays ==
  ASSUME NEW b1, NEW b2, NEW a1, NEW a2, NEW id,
         \A i \in Index : b1[i] # 0 => a1[i] # 0,
         \A i \in Index : b2[i] # 0 => a2[i] # 0
  PROVE  Seen(b1, b2, id) <= Seen(a1, a2, id)
  <1>1. CASE \A events : LogOf(events, id) = 0
    BY <1>1 DEF Seen
  <1>2. ASSUME NEW i \in Index, \A events : LogOf(events, id) = events[i]
        PROVE  Seen(b1, b2, id) <= Seen(a1, a2, id)
    BY <1>2 DEF Seen
  <1> QED
    BY <1>1, <1>2, LogAt

LEMMA RankOf ==
  /\ Rank("initiated") = 0 /\ Rank("failed") = 1
  /\ Rank("relayed") = 2 /\ Rank("finalized") = 2
  BY DEF Rank

(* A chain that grows shows what it showed, and an id is nobody's twice.    *)
LEMMA WindowGrows ==
  ASSUME WInv, NEW s \in Side, Grow(s), ChainTyped', failed' \in [Index -> Nat],
         \A i \in Index : relayed[i] # 0 => relayed'[i] # 0,
         \A i \in Index : failed[i] # 0 => failed'[i] # 0
  PROVE  WInv'
  <1>1. stored' = stored
    BY DEF Grow
  <1>2. /\ DOMAIN resolve' = ResolveFields /\ resolve'.follow = resolve.follow
        /\ resolve'.pc = resolve.pc /\ resolve'.found = resolve.found
        /\ resolve'.deposit = resolve.deposit /\ resolve'.before = resolve.before
        /\ resolve'.erred = resolve.erred /\ resolve'.success = resolve.success
        /\ resolve'.reorged = resolve.reorged
    <2>1. DOMAIN resolve = ResolveFields
      BY DEF WInv, Formed
    <2> QED
      BY <2>1 DEF Grow, ResolveFields
  <1>3. Formed(resolve') /\ \A o \in stored' : Own(o)
    BY <1>1, <1>2 DEF WInv, Formed
  <1>4. ASSUME NEW id, NEW l, Between(resolve, id, l), Rank(l) \in Nat
        PROVE  Between(resolve, id, l)'
    <2>1. Seen(relayed, failed, id) <= Seen(relayed', failed', id)
      BY SeenStays
    <2>2. /\ Seen(relayed, failed, id) \in Nat /\ Seen(relayed', failed', id) \in Nat
          /\ Seen(resolve.before[1], resolve.before[2], id) <= Rank(l)
          /\ Rank(l) <= Seen(relayed, failed, id)
      BY <1>4 DEF Between, Seen
    <2>3. Rank(l) <= Seen(relayed', failed', id)
      BY <1>4, <2>1, <2>2
    <2> QED
      BY <1>2, <2>2, <2>3 DEF Between
  <1>5. \A l : Rank(l) \in Nat
    BY DEF Rank
  <1>6. resolve'.pc # "idle" => Windowed(resolve)'
    <2> SUFFICES ASSUME resolve'.pc # "idle", ~resolve'.reorged
                 PROVE  (Sees(resolve) /\ Follows(resolve) /\ Finds(resolve, resolve.found))'
      BY DEF Windowed
    <2>1. Sees(resolve) /\ Follows(resolve) /\ Finds(resolve, resolve.found)
      BY <1>2 DEF WInv, Windowed
    <2>2. Sees(resolve)'
      BY <1>2, <2>1 DEF Sees
    <2>3. Follows(resolve)'
      BY <1>2, <1>4, <1>5, <2>1 DEF Follows
    <2>4. Finds(resolve, resolve.found)'
      BY <1>2, <1>4, <1>5, <2>1 DEF Finds
    <2> QED
      BY <2>2, <2>3, <2>4
  <1> QED
    BY <1>3, <1>6 DEF WInv

LEMMA MineWInv ==
  ASSUME WInv, MineDestination \/ \E included \in BOOLEAN : MineSource(included)
  PROVE  WInv'
  <1>0. /\ head \in [Side -> Nat] /\ sent \in Nat
        /\ relayed \in [Index -> Nat] /\ failed \in [Index -> Nat]
    BY DEF WInv, ChainTyped
  <1>1. ASSUME NEW included \in BOOLEAN, MineSource(included) PROVE WInv'
    <2>1. /\ Grow("source") /\ relayed' = relayed /\ failed' = failed
          /\ sent' \in {sent, head["source"] + 1}
      BY <1>1 DEF MineSource
    <2>2. ChainTyped'
      BY <1>0, <2>1 DEF ChainTyped, Grow, Side
    <2> QED
      BY <1>0, <2>1, <2>2, WindowGrows DEF Side
  <1>2. CASE MineDestination
    <2>1. Grow("destination") /\ sent' = sent
      BY <1>2 DEF MineDestination
    <2>2. \/ relayed' = relayed /\ failed' = failed
          \/ \E i \in Index :
               \/ relayed' = [relayed EXCEPT ![i] = head["destination"] + 1] /\ failed' = failed
               \/ failed' = [failed EXCEPT ![i] = head["destination"] + 1] /\ relayed' = relayed
      BY <1>2 DEF MineDestination
    <2>3. head' \in [Side -> Nat] /\ head["destination"] + 1 \in Nat \ {0}
      BY <1>0, <2>1 DEF Grow, Side
    <2>4. /\ relayed' \in [Index -> Nat] /\ failed' \in [Index -> Nat]
          /\ \A i \in Index : relayed[i] # 0 => relayed'[i] # 0
          /\ \A i \in Index : failed[i] # 0 => failed'[i] # 0
      BY <1>0, <2>2, <2>3
    <2>5. ChainTyped'
      BY <1>0, <2>1, <2>3, <2>4 DEF ChainTyped
    <2> QED
      BY <2>1, <2>4, <2>5, WindowGrows DEF Side
  <1> QED
    BY <1>1, <1>2

(* Of a resolve that a reorganisation struck no window is claimed.          *)
LEMMA ReorgWInv ==
  ASSUME WInv, ReorgSource \/ ReorgDestination
  PROVE  WInv'
  <1>0. /\ head \in [Side -> Nat] /\ sent \in Nat /\ relayed \in [Index -> Nat]
        /\ failed \in [Index -> Nat]
        /\ head["source"] \in Nat /\ head["destination"] \in Nat
    BY DEF WInv, ChainTyped, Side
  <1>1. head' = head /\ resolve' = Struck /\ stored' = stored
    BY DEF ReorgSource, ReorgDestination
  <1>2. sent' \in Nat /\ relayed' \in [Index -> Nat] /\ failed' \in [Index -> Nat]
    <2>1. CASE ReorgSource
      BY <1>0, <2>1 DEF ReorgSource, Kept
    <2>2. CASE ReorgDestination
      BY <1>0, <2>2 DEF ReorgDestination, Kept
    <2> QED
      BY <2>1, <2>2
  <1>3. /\ DOMAIN Struck = ResolveFields /\ Struck.follow = resolve.follow
        /\ Struck.found = resolve.found /\ Struck.pc = resolve.pc
        /\ Struck.deposit = resolve.deposit
        /\ resolve.pc # "idle" => Struck.reorged = TRUE
    BY StruckIs DEF WInv, Formed
  <1>4. Formed(resolve') /\ \A o \in stored' : Own(o)
    BY <1>1, <1>3 DEF WInv, Formed
  <1>5. resolve'.pc # "idle" => Windowed(resolve)'
    BY <1>1, <1>3 DEF Windowed
  <1> QED
    BY <1>0, <1>1, <1>2, <1>4, <1>5 DEF WInv, ChainTyped

(* The chains stand still while a resolve moves.                            *)
LEMMA ResolveWInv ==
  ASSUME WInv, UNCHANGED chain, NEW r, resolve' = r, Formed(r),
         r.pc # "idle" => Windowed(r),
         \A o \in stored' : Own(o)
  PROVE  WInv'
  <1>1. head' = head /\ sent' = sent /\ relayed' = relayed /\ failed' = failed
    BY DEF chain
  <1>2. Windowed(r) => Windowed(resolve)'
    BY <1>1 DEF Windowed, Sees, Follows, Finds, Between
  <1> QED
    BY <1>1, <1>2 DEF WInv, ChainTyped

LEMMA AdvanceFormed ==
  ASSUME NEW r, DOMAIN r = ResolveFields, DOMAIN r.follow = FollowFields,
         NEW found, \A o \in found : Own(o)
  PROVE  /\ Formed(Advance(r, found)) /\ Advance(r, found).pc # "idle"
         /\ (~r.reorged => Sees(r) /\ Finds(r, found)) => Windowed(Advance(r, found))
  <1> DEFINE later == {i \in Followed : i > r.deposit}
  <1>1. CASE later = {}
    <2> DEFINE n == [r EXCEPT !.pc = "save", !.found = found]
    <2>1. Advance(r, found) = n
      BY <1>1 DEF Advance
    <2>2. /\ DOMAIN n = ResolveFields /\ n.found = found /\ n.follow = r.follow /\ n.pc = "save"
          /\ n.before = r.before /\ n.reorged = r.reorged
      BY DEF ResolveFields
    <2> HIDE DEF n
    <2> QED
      BY <2>1, <2>2 DEF Formed, Windowed, Sees, Follows, Finds, Between
  <1>2. CASE later # {}
    <2> DEFINE n == [r EXCEPT !.pc = "relayed", !.found = found, !.deposit = Least(later),
                             !.erred = FALSE, !.success = 0, !.failure = 0,
                             !.follow = NoFollow, !.sourceHead = 0]
    <2>1. Advance(r, found) = n
      BY <1>2 DEF Advance
    <2>2. /\ DOMAIN n = ResolveFields /\ n.found = found /\ n.follow = NoFollow /\ n.pc = "relayed"
          /\ n.before = r.before /\ n.reorged = r.reorged /\ n.deposit = Least(later)
      BY DEF ResolveFields
    <2>3. DOMAIN NoFollow = FollowFields
      BY DEF NoFollow, FollowFields
    <2>4. Least(later) \in Followed
      <3>1. later \in SUBSET Index /\ later \subseteq Followed
        BY DEF Followed
      <3> HIDE DEF later
      <3> QED
        BY <1>2, <3>1, LeastIsIn
    <2> HIDE DEF n, later
    <2> QED
      BY <2>1, <2>2, <2>3, <2>4 DEF Formed, Windowed, Sees, Follows, Finds, Between
  <1> QED
    BY <1>1, <1>2

LEMMA IdleFormed == Formed(Idle) /\ Idle.pc = "idle"
  BY DEF Formed, Idle, NoFollow, ResolveFields, FollowFields

LEMMA ReadReceiptWInv == WInv /\ ReadReceipt => WInv'
  <1> SUFFICES ASSUME WInv, ReadReceipt PROVE WInv'
    OBVIOUS
  <1>1. UNCHANGED chain /\ stored' = stored /\ \A o \in stored : Own(o)
    BY DEF ReadReceipt, WInv
  <1> DEFINE n == [Idle EXCEPT !.sentAt = sent, !.before = <<relayed, failed>>]
  <1>2. CASE sent = 0
    BY <1>1, <1>2, IdleFormed, ResolveWInv DEF ReadReceipt
  <1>3. CASE sent # 0
    <2>1. /\ DOMAIN n = ResolveFields /\ n.follow = NoFollow
          /\ n.before = <<relayed, failed>>
      BY DEF Idle, ResolveFields
    <2>2. resolve' = Advance(n, {})
      BY <1>3 DEF ReadReceipt
    <2> HIDE DEF n
    <2>3. DOMAIN NoFollow = FollowFields
      BY DEF NoFollow, FollowFields
    <2>4. Sees(n) /\ Finds(n, {})
      BY <2>1 DEF Sees, Finds
    <2>5. Formed(Advance(n, {})) /\ Windowed(Advance(n, {}))
      BY <2>1, <2>3, <2>4, AdvanceFormed
    <2> QED
      BY <1>1, <2>2, <2>5, ResolveWInv
  <1> QED
    BY <1>2, <1>3

(* What is known of a resolve under way.                                    *)
LEMMA UnderWay ==
  ASSUME WInv, resolve.pc \notin {"idle", "save"}
  PROVE  /\ DOMAIN resolve = ResolveFields /\ DOMAIN resolve.follow = FollowFields
         /\ resolve.deposit \in Followed
         /\ \A o \in resolve.found : Own(o)
         /\ ~resolve.reorged => Sees(resolve) /\ Follows(resolve) /\ Finds(resolve, resolve.found)
  BY DEF WInv, Formed, Windowed

(* An observation is added, and the resolve goes on.                        *)
LEMMA AdvanceWInv ==
  ASSUME WInv, UNCHANGED chain, stored' = stored, resolve.pc \notin {"idle", "save"},
         NEW o, Own(o), resolve' = Advance(resolve, resolve.found \cup {o}),
         ~resolve.reorged /\ o.lifecycle # "unresolved" => Between(resolve, o.id, o.lifecycle)
  PROVE  WInv'
  <1> DEFINE found == resolve.found \cup {o}
  <1>1. \A x \in found : Own(x)
    BY UnderWay
  <1>2. ~resolve.reorged => Sees(resolve) /\ Finds(resolve, found)
    BY UnderWay DEF Finds
  <1>3. resolve' = Advance(resolve, found)
    OBVIOUS
  <1> HIDE DEF found
  <1>4. /\ Formed(Advance(resolve, found)) /\ Windowed(Advance(resolve, found))
    BY <1>1, <1>2, UnderWay, AdvanceFormed
  <1>5. \A x \in stored' : Own(x)
    BY DEF WInv
  <1> QED
    BY <1>3, <1>4, <1>5, ResolveWInv

(* The resolve moves on with the deposit it follows.                        *)
LEMMA FollowWInv ==
  ASSUME WInv, UNCHANGED chain, stored' = stored, resolve.pc \notin {"idle", "save"},
         NEW r, resolve' = r, DOMAIN r = ResolveFields, DOMAIN r.follow = FollowFields,
         r.found = resolve.found, r.deposit = resolve.deposit, r.before = resolve.before,
         r.reorged = resolve.reorged, r.pc \notin {"idle", "save"},
         ~r.reorged => Follows(r)
  PROVE  WInv'
  <1>1. Formed(r)
    BY UnderWay DEF Formed
  <1>2. Windowed(r)
    BY UnderWay DEF Windowed, Sees, Finds, Between
  <1>3. \A x \in stored' : Own(x)
    BY DEF WInv
  <1> QED
    BY <1>1, <1>2, <1>3, ResolveWInv

(* A log the destination showed when the resolve began it still shows.      *)
LEMMA StillShown ==
  ASSUME Sees(resolve), NEW id
  PROVE  /\ LogOf(resolve.before[1], id) # 0 => LogOf(relayed, id) # 0
         /\ LogOf(resolve.before[2], id) # 0 => LogOf(failed, id) # 0
  BY LogAt DEF Sees

LEMMA QueryRelayedWInv == WInv /\ QueryRelayed => WInv'
  <1> SUFFICES ASSUME WInv, QueryRelayed PROVE WInv'
    OBVIOUS
  <1>1. UNCHANGED chain /\ stored' = stored /\ resolve.pc = "relayed"
    BY DEF QueryRelayed
  <1> DEFINE log == LogOf(relayed, ComputedId(resolve.deposit))
             n(erred, success) == [resolve EXCEPT !.pc = "failed", !.erred = erred,
                                                  !.success = success]
  <1>2. PICK answered \in BOOLEAN : resolve' = n(~answered, IF answered THEN log ELSE 0)
    BY DEF QueryRelayed
  <1>3. ASSUME NEW erred, NEW success, ~erred => success = log, resolve' = n(erred, success)
        PROVE  WInv'
    <2> DEFINE r == n(erred, success)
    <2>1. /\ DOMAIN r = ResolveFields /\ r.found = resolve.found /\ r.follow = resolve.follow
          /\ r.pc = "failed" /\ r.before = resolve.before /\ r.reorged = resolve.reorged
          /\ r.success = success /\ r.erred = erred /\ r.deposit = resolve.deposit
      BY <1>1, UnderWay DEF ResolveFields
    <2>2. resolve' = r
      BY <1>3
    <2> HIDE DEF n
    <2>3. ~r.reorged => Follows(r)
      BY <1>1, <1>3, <2>1, UnderWay, StillShown DEF Follows
    <2> QED
      BY <1>1, <2>1, <2>2, <2>3, UnderWay, FollowWInv
  <1> QED
    BY <1>2, <1>3

LEMMA QueryFailedWInv == WInv /\ QueryFailed => WInv'
  <1> SUFFICES ASSUME WInv, QueryFailed PROVE WInv'
    OBVIOUS
  <1>1. UNCHANGED chain /\ stored' = stored /\ resolve.pc = "failed"
    BY DEF QueryFailed
  <1> DEFINE id == ComputedId(resolve.deposit)
             r == [resolve EXCEPT !.failure = LogOf(failed, id)]
             x == Observation(resolve, "unresolved", 0, FALSE, FALSE)
  <1>2. \/ resolve' = Advance(resolve, resolve.found \cup {x})
        \/ ~resolve.erred /\ resolve' = Classified(r)
    BY DEF QueryFailed, Add
  <1>3. CASE resolve' = Advance(resolve, resolve.found \cup {x})
    <2>1. Own(x) /\ x.lifecycle = "unresolved"
      BY <1>1, UnderWay DEF Own, Observation
    <2> HIDE DEF x
    <2> QED
      BY <1>1, <1>3, <2>1, AdvanceWInv
  <1>4. CASE ~resolve.erred /\ resolve' = Classified(r)
    <2>1. /\ DOMAIN r = ResolveFields /\ r.follow = resolve.follow /\ r.found = resolve.found
          /\ r.before = resolve.before /\ r.reorged = resolve.reorged /\ r.pc = "failed"
          /\ r.success = resolve.success /\ r.deposit = resolve.deposit
          /\ r.failure = LogOf(failed, id)
      BY <1>1, UnderWay DEF ResolveFields
    <2> HIDE DEF r, x
    <2>2. CASE r.success # 0
      <3> DEFINE n == [r EXCEPT !.pc = "receipt"]
      <3>1. resolve' = n
        BY <1>4, <2>2 DEF Classified
      <3>2. /\ DOMAIN n = ResolveFields /\ n.follow = r.follow /\ n.found = r.found
            /\ n.before = r.before /\ n.reorged = r.reorged /\ n.pc = "receipt"
            /\ n.deposit = r.deposit
        BY <2>1 DEF ResolveFields
      <3> HIDE DEF n
      <3>3. Follows(n)
        BY <3>2 DEF Follows
      <3> QED
        BY <1>1, <2>1, <3>1, <3>2, <3>3, UnderWay, FollowWInv
    <2>3. ASSUME NEW lifecycle \in {"failed", "initiated"}, NEW n, resolve' = n, r.success = 0,
                 lifecycle = "failed" <=> r.failure # 0,
                 \/ n = [r EXCEPT !.pc = "heads", !.follow.lifecycle = lifecycle,
                                  !.follow.block = r.failure]
                 \/ n = [r EXCEPT !.pc = "heads", !.follow.lifecycle = lifecycle]
          PROVE  WInv'
      <3>1. /\ DOMAIN n = ResolveFields /\ n.found = r.found /\ n.pc = "heads"
            /\ n.before = r.before /\ n.reorged = r.reorged /\ n.deposit = r.deposit
        BY <2>1, <2>3 DEF ResolveFields
      <3>2. \/ n.follow = [r.follow EXCEPT !.lifecycle = lifecycle, !.block = r.failure]
            \/ n.follow = [r.follow EXCEPT !.lifecycle = lifecycle]
        BY <2>1, <2>3 DEF ResolveFields
      <3>3. DOMAIN n.follow = FollowFields /\ n.follow.lifecycle = lifecycle
        BY <1>1, <2>1, <3>2, UnderWay DEF FollowFields
      <3>4. ASSUME ~n.reorged PROVE Follows(n)
        <4>1. Sees(resolve) /\ LogOf(resolve.before[1], id) = 0
          BY <1>1, <1>4, <2>1, <2>3, <3>1, <3>4, UnderWay DEF Follows
        <4>2. LogOf(resolve.before[2], id) # 0 => lifecycle = "failed"
          BY <2>1, <2>3, <4>1, StillShown
        <4>3. lifecycle = "failed" => LogOf(failed, id) # 0
          BY <2>1, <2>3
        <4>4. /\ Seen(resolve.before[1], resolve.before[2], id) <= Rank(lifecycle)
              /\ Rank(lifecycle) <= Seen(relayed, failed, id)
          BY <4>1, <4>2, <4>3, RankOf DEF Seen
        <4> QED
          BY <2>1, <3>1, <3>3, <4>4 DEF Follows, Between
      <3> QED
        BY <1>1, <2>1, <2>3, <3>1, <3>3, <3>4, FollowWInv
    <2>4. CASE r.success = 0
      BY <1>4, <2>3, <2>4 DEF Classified
    <2> QED
      BY <2>2, <2>4
  <1> QED
    BY <1>2, <1>3, <1>4

LEMMA ReadDestinationReceiptWInv == WInv /\ ReadDestinationReceipt => WInv'
  <1> SUFFICES ASSUME WInv, ReadDestinationReceipt PROVE WInv'
    OBVIOUS
  <1>1. UNCHANGED chain /\ stored' = stored /\ resolve.pc = "receipt"
    BY DEF ReadDestinationReceipt
  <1> DEFINE id == ComputedId(resolve.deposit)
             n == [resolve EXCEPT !.pc = "heads", !.follow.lifecycle = "relayed",
                                  !.follow.block = resolve.success]
             x == Observation(resolve, "unresolved", resolve.success, FALSE, FALSE)
  <1>2. \/ resolve' = Advance(resolve, resolve.found \cup {x})
        \/ LogOf(relayed, id) # 0 /\ resolve' = n
    BY DEF ReadDestinationReceipt, Add
  <1>3. CASE resolve' = Advance(resolve, resolve.found \cup {x})
    <2>1. Own(x) /\ x.lifecycle = "unresolved"
      BY <1>1, UnderWay DEF Own, Observation
    <2> HIDE DEF x
    <2> QED
      BY <1>1, <1>3, <2>1, AdvanceWInv
  <1>4. CASE LogOf(relayed, id) # 0 /\ resolve' = n
    <2>1. /\ DOMAIN n = ResolveFields /\ n.found = resolve.found /\ n.pc = "heads"
          /\ n.before = resolve.before /\ n.reorged = resolve.reorged
          /\ n.deposit = resolve.deposit
      BY <1>1, UnderWay DEF ResolveFields
    <2>2. n.follow = [resolve.follow EXCEPT !.lifecycle = "relayed", !.block = resolve.success]
      BY <1>1, UnderWay DEF ResolveFields
    <2> HIDE DEF n
    <2>3. DOMAIN n.follow = FollowFields /\ n.follow.lifecycle = "relayed"
      BY <1>1, <2>2, UnderWay DEF FollowFields
    <2>4. Follows(n)
      BY <1>4, <2>1, <2>3, RankOf DEF Follows, Between, Seen
    <2> QED
      BY <1>1, <1>4, <2>1, <2>3, <2>4, FollowWInv
  <1> QED
    BY <1>2, <1>3, <1>4

LEMMA ReadHeadsWInv == WInv /\ (ReadSourceHead \/ ReadDestinationHead) => WInv'
  <1> SUFFICES ASSUME WInv, ReadSourceHead \/ ReadDestinationHead PROVE WInv'
    OBVIOUS
  <1>1. CASE ReadSourceHead
    <2>1. UNCHANGED chain /\ stored' = stored /\ resolve.pc = "heads"
      BY <1>1 DEF ReadSourceHead
    <2>2. PICK erred, height :
             resolve' = [resolve EXCEPT !.pc = "destinationHead", !.erred = erred,
                                        !.sourceHead = height]
      BY <1>1 DEF ReadSourceHead
    <2>3. /\ DOMAIN resolve' = ResolveFields /\ resolve'.follow = resolve.follow
          /\ resolve'.found = resolve.found /\ resolve'.pc = "destinationHead"
          /\ resolve'.before = resolve.before /\ resolve'.reorged = resolve.reorged
          /\ resolve'.deposit = resolve.deposit
      BY <2>1, <2>2, UnderWay DEF ResolveFields
    <2>4. PICK r : r = resolve'
      OBVIOUS
    <2>5. ~r.reorged => Follows(r)
      BY <2>1, <2>3, <2>4, UnderWay DEF Follows, Between
    <2> QED
      BY <2>1, <2>3, <2>4, <2>5, UnderWay, FollowWInv
  <1>2. CASE ReadDestinationHead
    <2>1. UNCHANGED chain /\ stored' = stored /\ resolve.pc = "destinationHead"
      BY <1>2 DEF ReadDestinationHead
    <2>2. PICK source, destination :
            resolve' = Advance(resolve, resolve.found \cup
               {Observation(resolve, Lifecycle(resolve.follow, source, destination),
                            resolve.follow.block, source, destination)})
      BY <1>2 DEF ReadDestinationHead
    <2>3. PICK l, x : /\ l = Lifecycle(resolve.follow, source, destination)
                      /\ x = Observation(resolve, l, resolve.follow.block, source, destination)
      OBVIOUS
    <2>4. Own(x) /\ x.lifecycle = l /\ x.id = ComputedId(resolve.deposit)
      BY <2>1, <2>3, UnderWay DEF Own, Observation
    <2>5. ~resolve.reorged => Between(resolve, x.id, x.lifecycle)
      <3> SUFFICES ASSUME ~resolve.reorged PROVE Between(resolve, x.id, x.lifecycle)
        OBVIOUS
      <3>1. /\ resolve.follow.lifecycle \in {"initiated", "failed", "relayed"}
            /\ Between(resolve, ComputedId(resolve.deposit), resolve.follow.lifecycle)
        BY <2>1, UnderWay DEF Follows
      <3>2. Rank(l) = Rank(resolve.follow.lifecycle)
        BY <2>3, <3>1, RankOf DEF Lifecycle
      <3> QED
        BY <2>4, <3>1, <3>2 DEF Between
    <2> QED
      BY <2>1, <2>2, <2>3, <2>4, <2>5, AdvanceWInv
  <1> QED
    BY <1>1, <1>2

LEMMA EndWInv == WInv /\ (Save \/ Abandon) => WInv'
  <1> SUFFICES ASSUME WInv, Save \/ Abandon PROVE WInv'
    OBVIOUS
  <1>1. UNCHANGED chain /\ resolve' = Idle
    BY DEF Save, Abandon
  <1>2. \A o \in resolve.found : Own(o)
    BY DEF WInv, Formed
  <1>3. stored' \subseteq stored \cup resolve.found
    BY DEF Save, Abandon
  <1>4. \A o \in stored' : Own(o)
    BY <1>2, <1>3 DEF WInv
  <1> QED
    BY <1>1, <1>4, IdleFormed, ResolveWInv

LEMMA WindowInductive == Spec => []WInv
  <1>1. Init => WInv
    BY IdleFormed DEF Init, WInv, ChainTyped
  <1>2. WInv /\ [Next]_vars => WInv'
    <2> SUFFICES ASSUME WInv, [Next]_vars PROVE WInv'
      OBVIOUS
    <2>1. CASE UNCHANGED vars
      <3>1. UNCHANGED chain /\ resolve' = resolve /\ stored' = stored
        BY <2>1 DEF vars, chain
      <3> QED
        BY <3>1, ResolveWInv DEF WInv
    <2> QED
      BY <2>1, MineWInv, ReorgWInv, ReadReceiptWInv, QueryRelayedWInv, QueryFailedWInv,
         ReadDestinationReceiptWInv, ReadHeadsWInv, EndWInv DEF Next
  <1> QED
    BY <1>1, <1>2, PTL DEF Spec

(* completeDestination: unless a reorganisation strikes while it runs, all  *)
(* that a resolve has found lies between what the destination showed when   *)
(* it began and what it shows now, whatever is mined between its queries.   *)
THEOREM WindowHolds == Spec => []WithinWindow
  <1>1. WInv => WithinWindow
    BY DEF WInv, Formed, Windowed, Finds, WithinWindow
  <1> QED
    BY <1>1, WindowInductive, PTL

(* messageID: deposits that differ in a field the message repeats and carry *)
(* the same coins are each followed by the id of their own message, for any *)
(* number of them in one transaction.                                       *)
THEOREM MessageHolds ==
  ASSUME \A i, j \in Index : Call(i) = Call(j) => i = j,
         \A i, j \in Versioned : Carried(i) = Carried(j)
  PROVE  Spec => []MessageExact
  <1>1. ASSUME NEW i \in Followed PROVE ComputedId(i) = MessageId(i)
    <2> DEFINE same == {j \in Versioned : Call(j) = Call(i)}
    <2>1. i \in Index /\ MatchingMessage(i) # 0
      BY DEF Followed
    <2>2. same \in SUBSET Index /\ Versioned \in SUBSET Index
      BY DEF Versioned
    <2>3. MatchingMessage(i) = Least(same) /\ same # {}
      BY <2>1 DEF MatchingMessage
    <2>4. \A j \in same : j = i /\ j \in Versioned
      BY <2>1, <2>2
    <2> HIDE DEF same
    <2>5. MatchingMessage(i) = i /\ i \in Versioned
      BY <2>2, <2>3, <2>4, LeastIsIn
    <2>6. Least(Versioned) \in Versioned
      BY <2>2, <2>5, LeastIsIn
    <2>7. SentMessageValue = Carried(i)
      BY <2>5, <2>6 DEF SentMessageValue
    <2> QED
      BY <2>5, <2>7 DEF ComputedId, MessageId
  <1>2. WInv => MessageExact
    BY <1>1 DEF WInv, Formed, Own, MessageExact
  <1> QED
    BY <1>2, WindowInductive, PTL

=============================================================================

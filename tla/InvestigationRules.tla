-------------------------- MODULE InvestigationRules --------------------------
(***************************************************************************)
(* rules.Evaluate: the six deterministic rules that turn the selected      *)
(* transfers of one provider page into investigative leads.  The rules are *)
(* nested loops with early breaks over sorted groups kept in Go maps; here *)
(* each one is the operator it computes over places on the page, of which  *)
(* a loop that breaks takes the first.  A page grows one transfer at a     *)
(* time, so that the rules meet every page of at most MaxTransfers.        *)
(***************************************************************************)
EXTENDS Integers, Sequences, FiniteSets

CONSTANTS
    NoAddress,      \* the empty address
    FanWindow,      \* window_seconds of the fan and equal-amount rules
    MinDistinct,    \* min_distinct_counterparties
    RapidWindow,    \* window_seconds of the three other rules
    MaxTransfers    \* bound: transfers on a page (50 in the program)

ASSUME RulesAssumption ==
    /\ FanWindow \in Nat \ {0}
    /\ MinDistinct \in Nat \ {0, 1}
    /\ RapidWindow \in Nat \ {0}
    /\ MaxTransfers \in Nat

\* A transfer before it has an id: at = 0 is the zero time, and a negative amount
\* one that does not parse.
Observable(b) ==
    b \in [id : {0}, from : {b.from}, to : {b.to}, asset : {b.asset},
           amount : Int, at : Nat, provisional : BOOLEAN]

VARIABLE observed   \* the transfers given to Evaluate, in the provider's order

\* Variant: transfers without an id of their own.
ObserveRaw(b) ==
    /\ Len(observed) < MaxTransfers
    /\ observed' = Append(observed, b)

\* Ids follow the order of observation and bodies come in any order, so that
\* ties of time are broken in every way.
Observe(b) ==
    /\ Len(observed) < MaxTransfers
    /\ observed' = Append(observed, [b EXCEPT !.id = Len(observed) + 1])

\* A provider may return one transfer twice on a page.
Repeat ==
    /\ Len(observed) < MaxTransfers
    /\ \E i \in DOMAIN observed : observed' = Append(observed, observed[i])

RulesInit == observed = << >>

RulesNext(bodies) == (\E b \in bodies : Observe(b)) \/ Repeat

-----------------------------------------------------------------------------
(* In what follows ts is a page and `places` some places on it.            *)

\* Variant: transfers of one time stay in the provider's order.
BeforeByTime(s, t) == s.at < t.at

Before(s, t) == s.at < t.at \/ (s.at = t.at /\ s.id < t.id)

\* The first place in the order of sort.Slice; what is equal is the same transfer.
First(ts, places) == CHOOSE i \in places : \A j \in places : ~Before(ts[j], ts[i])

ConfirmationBacked(ts) == {i \in DOMAIN ts : ~ts[i].provisional /\ ts[i].at # 0}

Addresses(ts, places) == {ts[i].from : i \in places} \cup {ts[i].to : i \in places}

Ids(ts, places) == {ts[i].id : i \in places}

\* The id of a lead is the hash of all it holds; ids are a sorted list.
Lead(rule, subject, ids) == [rule |-> rule, subject |-> subject, ids |-> ids]

Subject(t, inbound) == IF inbound THEN t.to ELSE t.from

Counterpart(t, inbound) == IF inbound THEN t.from ELSE t.to

InTime(s, t, window) == s.at <= t.at /\ t.at - s.at <= window

\* The sorted group from place i to place j.
Stretch(ts, group, i, j) == {k \in group : ~Before(ts[k], ts[i]) /\ ~Before(ts[j], ts[k])}

\* It meets enough counterparties in time.
Wide(ts, group, inbound, i, j) ==
    /\ ~Before(ts[j], ts[i])
    /\ InTime(ts[i], ts[j], FanWindow)
    /\ Cardinality({Counterpart(ts[k], inbound) : k \in Stretch(ts, group, i, j)}) >= MinDistinct

\* Variant: only windows that open with the group's first transfer.
FirstDistinctWindowAtStart(ts, group, inbound) ==
    LET wide == {j \in group : Wide(ts, group, inbound, First(ts, group), j)}
    IN  IF wide = {} THEN {} ELSE Stretch(ts, group, First(ts, group), First(ts, wide))

\* The first stretch that is wide: the first start, then the first end.
FirstDistinctWindow(ts, group, inbound) ==
    LET starts == {i \in group : \E j \in group : Wide(ts, group, inbound, i, j)}
        start == First(ts, starts)
        end == First(ts, {j \in group : Wide(ts, group, inbound, start, j)})
    IN  IF starts = {} THEN {} ELSE Stretch(ts, group, start, end)

\* Transfers a fan rule may group: two parties, both known.
Fans(t) == t.from # NoAddress /\ t.to # NoAddress /\ t.from # t.to

FanGroup(ts, places, inbound, subject, asset) ==
    {i \in places : /\ Fans(ts[i]) /\ Subject(ts[i], inbound) = subject
                    /\ ts[i].asset = asset}

Fan(rule, ts, places, inbound) ==
    LET keys == {<<Subject(ts[i], inbound), ts[i].asset>> : i \in places}
        Matches(k) ==
            FirstDistinctWindow(ts, FanGroup(ts, places, inbound, k[1], k[2]), inbound)
    IN  {Lead(rule, k[1], Ids(ts, Matches(k))) : k \in {l \in keys : Matches(l) # {}}}

EqualGroup(ts, places, subject, asset, amount) ==
    {i \in FanGroup(ts, places, FALSE, subject, asset) : ts[i].amount = amount}

RepeatedEqualAmount(ts, places) ==
    LET keys == {<<ts[i].from, ts[i].asset, ts[i].amount>> :
                    i \in {j \in places : ts[j].amount >= 0}}
        Matches(k) ==
            FirstDistinctWindow(ts, EqualGroup(ts, places, k[1], k[2], k[3]), FALSE)
    IN  {Lead("repeated-equal-amount-dispersion", k[1], Ids(ts, Matches(k))) :
            k \in {l \in keys : Matches(l) # {}}}

\* i pays m, and o passes the same asset on to someone else, in time.
PassesOn(i, o, m) ==
    /\ i.to = m
    /\ o.from = m
    /\ i.asset = o.asset
    /\ o.to # i.from
    /\ InTime(i, o, RapidWindow)

\* One lead for an address and an asset: the first payment in that is passed
\* on, with the first payment out that passes it on.
RapidOnward(ts, places) ==
    LET keys == {<<ts[i].to, ts[i].asset>> : i \in {j \in places : ts[j].to # NoAddress}}
        Ins(k) == {i \in places :
                      ts[i].asset = k[2] /\ \E o \in places : PassesOn(ts[i], ts[o], k[1])}
        in(k) == First(ts, Ins(k))
        out(k) == First(ts, {o \in places : PassesOn(ts[in(k)], ts[o], k[1])})
    IN  {Lead("rapid-onward-transfer", k[1], Ids(ts, {in(k), out(k)})) :
            k \in {l \in keys : Ins(l) # {}}}

\* The next hop of a chain: a smaller amount of the asset, in time, to an
\* address the chain has not been at.
Continues(s, t, been) ==
    /\ t.from = s.to
    /\ t.asset = s.asset
    /\ InTime(s, t, RapidWindow)
    /\ t.amount >= 0
    /\ t.amount < s.amount
    /\ t.to \notin been

Thirds(ts, places, i, j) ==
    {k \in places : Continues(ts[j], ts[k], {ts[i].from, ts[j].from, ts[k].from})}

\* The third hop is the first that fits; the loop then goes to the next second.
SequentialDecreasing(ts, places) ==
    {Lead("sequential-decreasing-transfer", ts[p[1]].from,
          Ids(ts, {p[1], p[2], First(ts, Thirds(ts, places, p[1], p[2]))})) :
        p \in {q \in places \X places :
                 /\ Fans(ts[q[1]])
                 /\ Continues(ts[q[1]], ts[q[2]], {ts[q[1]].from, ts[q[2]].from})
                 /\ Thirds(ts, places, q[1], q[2]) # {}}}

Touches(t, m) == t.from = m \/ t.to = m

\* An address with exactly two transfers on the page, in and out.
BriefIntermediary(ts, places) ==
    LET group(m) == {i \in places : Touches(ts[i], m)}
    IN  {Lead("brief-intermediary-pass-through", m, Ids(ts, group(m))) :
            m \in {n \in Addresses(ts, places) \ {NoAddress} : \E i, j \in group(n) :
                     /\ group(n) = {i, j} /\ i # j /\ ~Before(ts[j], ts[i])
                     /\ PassesOn(ts[i], ts[j], n)
                     /\ ts[i].amount >= 0
                     /\ ts[i].amount = ts[j].amount}}

\* What each rule of the catalog detects among confirmation-backed transfers.
Detected(rule, ts, places) ==
    CASE rule = "fan-in-consolidation" -> Fan(rule, ts, places, TRUE)
      [] rule = "fan-out-dispersion" -> Fan(rule, ts, places, FALSE)
      [] rule = "rapid-onward-transfer" -> RapidOnward(ts, places)
      [] rule = "repeated-equal-amount-dispersion" -> RepeatedEqualAmount(ts, places)
      [] rule = "sequential-decreasing-transfer" -> SequentialDecreasing(ts, places)
      [] rule = "brief-intermediary-pass-through" -> BriefIntermediary(ts, places)

Catalog ==
    {"fan-in-consolidation", "fan-out-dispersion", "rapid-onward-transfer",
     "repeated-equal-amount-dispersion", "sequential-decreasing-transfer",
     "brief-intermediary-pass-through"}

\* A run is recorded for every rule, with all it was given and all it found.
Run(rule, ts) ==
    LET backed == ConfirmationBacked(ts)
    IN  [rule |-> rule, inputs |-> Ids(ts, backed), result |-> Detected(rule, ts, backed)]

Runs(ts) == {Run(rule, ts) : rule \in Catalog}

Found(rule) == Run(rule, observed).result

-----------------------------------------------------------------------------
RulesTypeOK(bodies) ==
    /\ observed \in Seq(UNION {{[b EXCEPT !.id = n] : b \in bodies} : n \in 1 .. MaxTransfers})
    /\ Len(observed) <= MaxTransfers

\* The set of the transfers that may count, with no order and no place.
Backed == {observed[i] : i \in {j \in DOMAIN observed :
                                  ~observed[j].provisional /\ observed[j].at # 0}}

\* The counterparties a subject met in the window that opens with transfer s.
Met(ts, s, inbound) ==
    {Counterpart(t, inbound) : t \in {u \in ts : s.at <= u.at /\ u.at <= s.at + FanWindow}}

Enough(ts, inbound) == \E s \in ts : Cardinality(Met(ts, s, inbound)) >= MinDistinct

\* The payments of an address in one asset, to it or by it.
Payments(inbound, s, a) == {t \in Backed : Fans(t) /\ t.asset = a /\ Subject(t, inbound) = s}

Parties == {t.from : t \in Backed} \cup {t.to : t \in Backed}

\* detect.go:84: whatever order the provider returned and however the loops
\* break, an address has a fan lead exactly if some window holds enough distinct
\* counterparties of one asset, and an equal-amount lead exactly if such a
\* window exists among its payments of one amount.
FansExact ==
    LET Exact(rule, inbound) ==
            {l.subject : l \in Found(rule)} =
                {s \in Parties : \E t \in Backed : Enough(Payments(inbound, s, t.asset), inbound)}
    IN  /\ Exact("fan-in-consolidation", TRUE)
        /\ Exact("fan-out-dispersion", FALSE)
        /\ {l.subject : l \in Found("repeated-equal-amount-dispersion")} =
               {s \in Parties : \E t \in Backed :
                    /\ t.amount >= 0
                    /\ Enough({u \in Payments(FALSE, s, t.asset) : u.amount = t.amount}, FALSE)}

\* detect.go:238: an address said to have only passed an amount on has no other
\* confirmed transfer of any asset on the page, and the rapid-onward rule names
\* the same two transfers.
BriefIsRapidAndAlone ==
    \A l \in Found("brief-intermediary-pass-through") :
        /\ {t \in Backed : Touches(t, l.subject)} = {t \in Backed : t.id \in l.ids}
        /\ Lead("rapid-onward-transfer", l.subject, l.ids) \in Found("rapid-onward-transfer")

\* A chain's transfers visit four addresses once each and shrink in time.
Chain(x, y, z) ==
    /\ x.to = y.from /\ y.to = z.from
    /\ x.asset = y.asset /\ y.asset = z.asset
    /\ x.amount > y.amount /\ y.amount > z.amount /\ z.amount >= 0
    /\ x.at <= y.at /\ y.at <= x.at + RapidWindow
    /\ y.at <= z.at /\ z.at <= y.at + RapidWindow
    /\ Cardinality({x.from, y.from, z.from, z.to}) = 4
    /\ x.from # NoAddress /\ y.from # NoAddress

\* detect.go:207: what is reported as a chain is one, and no first two hops that
\* have a third are missed.
ChainsExact ==
    LET found == {l.ids : l \in Found("sequential-decreasing-transfer")}
    IN  /\ \A ids \in found : \E x, y, z \in Backed :
               ids = {x.id, y.id, z.id} /\ Chain(x, y, z)
        /\ \A x, y \in Backed : (\E z \in Backed : Chain(x, y, z)) =>
               \E z \in Backed : Chain(x, y, z) /\ {x.id, y.id, z.id} \in found

\* What a page's places hold after a reordering of them.
Reordered(ts, places, order) == [k \in places |-> ts[order[k]]]

Exchange(places, i, j) == [k \in places |-> IF k = i THEN j ELSE IF k = j THEN i ELSE k]

\* tracing.proto:290, "reproducible": the transfers a run recorded as its input,
\* given to the rules again with any two exchanged, give the recorded result, and
\* no lead rests on a transfer its run did not record or that is provisional.
ReplaysExact ==
    LET made == Runs(observed)
        inputs == Run("fan-in-consolidation", observed).inputs
        recorded == {i \in DOMAIN observed : observed[i].id \in inputs}
    IN  /\ \A i, j \in recorded : i <= j =>
               Runs(Reordered(observed, recorded, Exchange(recorded, i, j))) = made
        /\ \A r \in made : \A l \in r.result :
               /\ l.ids \subseteq r.inputs
               /\ \A i \in DOMAIN observed : observed[i].id \in l.ids => ~observed[i].provisional

\* detect.go:262 says the intermediary "received and forwarded ... to a
\* different counterparty".
ForwardedForAnother ==
    \A l \in Found("brief-intermediary-pass-through") :
        \A t \in Backed : (t.id \in l.ids /\ t.to = l.subject) => t.from # l.subject

=============================================================================

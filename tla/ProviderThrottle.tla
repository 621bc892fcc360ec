--------------------------- MODULE ProviderThrottle ---------------------------
(***************************************************************************)
(* The calls of one provider client (adapter/etherscan.go get, alchemy.go  *)
(* call, blockscout.go get, tron.go do, ton_cardano.go request, evm.go     *)
(* callRPC, solana.go call and historyRequest): goroutines share a mutex,  *)
(* the time of the last request, and the health counters that the health   *)
(* endpoint turns into an alert.                                           *)
(*                                                                         *)
(* Time is relative: `since` is the age of lastRequest and `left` what is  *)
(* left of a goroutine's timer.  An outcome is how one HTTP exchange ends. *)
(***************************************************************************)
EXTENDS Naturals, FiniteSets

CONSTANTS
    Traces,       \* goroutines that resolve a trace: they retry
    Lookups,      \* goroutines that serve a lookup: they do not
    None,         \* no goroutine
    Providers,    \* the clients considered: names of Clients
    Gap,          \* its ...RequestGap
    Second,       \* time.Second, of RetryDelay
    Cap,          \* 10 * time.Second, of RetryDelay
    RetryAfters,  \* what a provider asks for in Retry-After; 0 for nothing
    MaxAttempts,  \* traceProviderMaxAttempts
    MaxRequests   \* bound: requests of one behaviour

Calls == Traces \cup Lookups

\* The ways an exchange fails: no answer, the answer not readable, status 429,
\* 5xx, another status, an answer that is not JSON, one that says it is an error.
Status == {"throttled", "unavailable", "rejected"}

Answered == {"transport", "read", "decode"} \cup Status

\* held: whether the mutex is held over the exchange too; faults: how an
\* exchange can fail; counted: the failures the client counts as such.
EtherscanClient ==
    [held |-> TRUE, faults |-> Answered \cup {"refused", "limited"}, counted |-> Answered]

AlchemyClient == [held |-> TRUE, faults |-> Answered \cup {"refused"}, counted |-> Answered]

BlockscoutClient == [held |-> TRUE, faults |-> Answered, counted |-> Answered]

TronGridClient == [held |-> TRUE, faults |-> Answered, counted |-> Answered]

TonClient == [held |-> TRUE, faults |-> Answered, counted |-> {"transport"} \cup Status]

BlockfrostClient == [held |-> TRUE, faults |-> Answered, counted |-> {"transport"} \cup Status]

EVMClient ==
    [held |-> FALSE, faults |-> Answered \cup {"refused"}, counted |-> Answered \cup {"refused"}]

SolanaRPCClient ==
    [held |-> FALSE, faults |-> Answered \cup {"refused"}, counted |-> Answered \cup {"refused"}]

SolanaHistoryClient == [held |-> FALSE, faults |-> Answered, counted |-> Answered]

Clients ==
    [etherscan |-> EtherscanClient, alchemy |-> AlchemyClient, blockscout |-> BlockscoutClient,
     trongrid |-> TronGridClient, tonapi |-> TonClient, blockfrost |-> BlockfrostClient,
     evm |-> EVMClient, solana |-> SolanaRPCClient, history |-> SolanaHistoryClient]

ASSUME ThrottleAssumption ==
    /\ None \notin Calls
    /\ Providers \subseteq DOMAIN Clients
    /\ Gap \in Nat \ {0} /\ Second \in Nat \ {0} /\ Cap \in Nat \ {0}
    /\ RetryAfters \subseteq Nat
    /\ MaxAttempts \in Nat \ {0} /\ MaxRequests \in Nat \ {0}

VARIABLES
    lock,     \* who holds requestMu
    since,    \* time since lastRequest, Gap at most
    call,     \* the goroutines
    health,   \* providerMetrics.health
    verdict   \* how the last exchange to end did end

vars == <<lock, since, call, health, verdict>>

\* Of the client a behaviour is about.
Held == Clients[health.provider].held

Faults == Clients[health.provider].faults

Counted == Clients[health.provider].counted

Least(a, b) == IF a < b THEN a ELSE b

Most(a, b) == IF a > b THEN a ELSE b

Ready == [pc |-> "idle", left |-> 0, delayed |-> FALSE, cancelled |-> FALSE,
          attempt |-> 1, asked |-> 0]

TypeOK ==
    /\ lock \in Calls \cup {None}
    /\ since \in 0 .. Gap
    /\ call \in [Calls ->
         [pc : {"idle", "locking", "gap", "sending", "judging", "backoff"},
          left : 0 .. Most(Gap, Cap), delayed : BOOLEAN, cancelled : BOOLEAN,
          attempt : 1 .. MaxAttempts, asked : 0 .. Cap]]
    /\ health \in [provider : Providers, requests : Nat, throttled : Nat, failures : Nat,
                   events : Nat, lastSuccess : Nat, lastFailure : Nat]
    /\ verdict \in {"none", "ok", "throttled", "failed"}

Init ==
    /\ lock = None
    /\ since = Gap
    /\ call = [c \in Calls |-> Ready]
    /\ \E p \in Providers :
          health = [provider |-> p, requests |-> 0, throttled |-> 0, failures |-> 0,
                    events |-> 0, lastSuccess |-> 0, lastFailure |-> 0]
    /\ verdict = "none"

-----------------------------------------------------------------------------
(* providerMetrics.  The times of the last success and failure are numbers *)
(* in the order of the clock readings.                                     *)

CountRequest(delayed) ==
    [health EXCEPT !.requests = @ + 1, !.throttled = IF delayed THEN @ + 1 ELSE @]

CountSuccess == [health EXCEPT !.events = @ + 1, !.lastSuccess = health.events + 1]

CountFailure ==
    [health EXCEPT !.events = @ + 1, !.failures = @ + 1, !.lastFailure = health.events + 1]

\* healthAlerts: provider_unhealthy.
Unhealthy ==
    /\ health.lastFailure # 0
    /\ health.lastSuccess = 0 \/ health.lastFailure > health.lastSuccess

-----------------------------------------------------------------------------
(* RetryDelay and resolveWithRetry.                                        *)

\* The errors that are ProviderErrors without status, or with 408, 429 or 5xx.
Transient == {"transport", "throttled", "unavailable", "limited"}

\* Only answers with a status have the header.
RetryAfterOf(o) == IF o \in {"throttled", "unavailable"} THEN RetryAfters ELSE {0}

\* Variant: Retry-After not looked at.
BackoffOnly(attempt, asked) == Least(Second * 2 ^ Least(attempt - 1, 2), Cap)

RetryDelay(attempt, asked) ==
    Least(Most(Second * 2 ^ Least(attempt - 1, 2), asked), Cap)

\* The goroutine after its exchange failed with o: the worker backs off and
\* tries the trace again, a lookup answers without the field.
AfterFailure(c, o, asked) ==
    LET me == call[c]
    IN  IF o \in Transient /\ c \in Traces /\ me.attempt < MaxAttempts
        THEN [me EXCEPT !.pc = "backoff", !.left = RetryDelay(me.attempt, asked),
                        !.asked = Least(asked, Cap)]
        ELSE Ready

-----------------------------------------------------------------------------
(* Steps.                                                                  *)

Begin(c) ==
    /\ call[c].pc = "idle"
    /\ health.requests < MaxRequests
    /\ call' = [call EXCEPT ![c].pc = "locking"]
    /\ UNCHANGED <<lock, since, health, verdict>>

Waiting(c) == [call EXCEPT ![c].pc = "gap", ![c].left = Gap - since,
                           ![c].delayed = since < Gap]

\* Variant: no mutex around the gap.
EnterUnlocked(c) ==
    /\ call[c].pc = "locking"
    /\ call' = Waiting(c)
    /\ UNCHANGED <<lock, since, health, verdict>>

\* requestMu.Lock, which does not look at the context, and time.Until.
Enter(c) ==
    /\ call[c].pc = "locking"
    /\ lock = None
    /\ lock' = c
    /\ call' = Waiting(c)
    /\ UNCHANGED <<since, health, verdict>>

\* Variant: the mutex is not released on this way out.
GiveUpLocked(c) ==
    /\ call[c].pc = "gap" /\ call[c].delayed /\ call[c].cancelled
    /\ call' = [call EXCEPT ![c] = Ready]
    /\ UNCHANGED <<lock, since, health, verdict>>

\* select: ctx.Done, when there is a delay at all.
GiveUp(c) ==
    /\ call[c].pc = "gap" /\ call[c].delayed /\ call[c].cancelled
    /\ call' = [call EXCEPT ![c] = Ready]
    /\ lock' = None
    /\ UNCHANGED <<since, health, verdict>>

Started(c) ==
    /\ call[c].pc = "gap"
    /\ call[c].left = 0
    /\ health' = CountRequest(call[c].delayed)
    /\ since' = 0
    /\ call' = [call EXCEPT ![c].pc = "sending"]
    /\ UNCHANGED verdict

\* Variant: the mutex is released before the exchange.
StartReleased(c) == Started(c) /\ lock' = None

\* metrics.request, lastRequest = now, and the request is on its way.
Start(c) == Started(c) /\ lock' = IF Held THEN lock ELSE None

Leave(c) == lock' = IF Held /\ lock = c THEN None ELSE lock

Succeed(c) ==
    /\ call[c].pc = "sending"
    /\ health' = CountSuccess
    /\ verdict' = "ok"
    /\ call' = [call EXCEPT ![c] = Ready]
    /\ Leave(c)
    /\ UNCHANGED since

\* Variant: a failure that is not counted.
CountIf(o) == IF o \in Counted \ {"decode"} THEN CountFailure ELSE health

Count(o) == IF o \in Counted THEN CountFailure ELSE health

\* Every failure but Etherscan's rate limit message, and the refusals the
\* adapters find in an answer that is decoded: those count as successes unless
\* the client looks at them itself.
Fail(c) ==
    \E o \in Faults \ {"limited"}, asked \in RetryAfters :
        /\ call[c].pc = "sending"
        /\ asked \in RetryAfterOf(o)
        /\ health' = IF o = "refused" /\ o \notin Counted THEN CountSuccess ELSE Count(o)
        /\ verdict' = IF o = "throttled" THEN "throttled" ELSE "failed"
        /\ call' = [call EXCEPT ![c] = AfterFailure(c, o, asked)]
        /\ Leave(c)
        /\ UNCHANGED since

\* listTransferSource: get counts a success and unlocks before the message is read.
Limited(c) ==
    /\ "limited" \in Faults
    /\ call[c].pc = "sending"
    /\ health' = CountSuccess
    /\ verdict' = "throttled"
    /\ call' = [call EXCEPT ![c].pc = "judging"]
    /\ Leave(c)
    /\ UNCHANGED since

Judge(c) ==
    /\ call[c].pc = "judging"
    /\ health' = CountFailure
    /\ call' = [call EXCEPT ![c] = AfterFailure(c, "limited", 0)]
    /\ UNCHANGED <<lock, since, verdict>>

Retry(c) ==
    /\ call[c].pc = "backoff"
    /\ call[c].left = 0
    /\ health.requests < MaxRequests
    /\ call' = [call EXCEPT ![c].pc = "locking", ![c].attempt = @ + 1]
    /\ UNCHANGED <<lock, since, health, verdict>>

\* select in resolveWithRetry: ctx.Done.  Past MaxRequests the behaviour ends here.
Abandon(c) ==
    /\ call[c].pc = "backoff"
    /\ call[c].cancelled \/ health.requests >= MaxRequests
    /\ call' = [call EXCEPT ![c] = Ready]
    /\ UNCHANGED <<lock, since, health, verdict>>

\* The context ends: the deadline of the job or of one RPC, a client gone.
Cancel(c) ==
    /\ call[c].pc # "idle"
    /\ ~call[c].cancelled
    /\ call' = [call EXCEPT ![c].cancelled = TRUE]
    /\ UNCHANGED <<lock, since, health, verdict>>

Down(n) == IF n = 0 THEN 0 ELSE n - 1

Tick ==
    /\ since < Gap \/ \E c \in Calls : call[c].left > 0 \/ call[c].asked > 0
    /\ since' = Least(since + 1, Gap)
    /\ call' = [c \in Calls |-> [call[c] EXCEPT !.left = Down(@), !.asked = Down(@)]]
    /\ UNCHANGED <<lock, health, verdict>>

Exchange(c) == Succeed(c) \/ Fail(c) \/ Limited(c)

Goes(c) == GiveUp(c) \/ Start(c) \/ Exchange(c) \/ Judge(c) \/ Retry(c) \/ Abandon(c)

Next == Tick \/ \E c \in Calls : Begin(c) \/ Enter(c) \/ Goes(c) \/ Cancel(c)

Spec == Init /\ [][Next]_vars

\* Timers fire, http.Client has a timeout, the scheduler runs what is ready, and
\* a mutex is handed to whoever waits long enough (sync.Mutex: starvation mode).
FairSpec ==
    /\ Spec
    /\ WF_vars(Tick)
    /\ \A c \in Calls : WF_vars(Goes(c)) /\ SF_vars(Enter(c))

-----------------------------------------------------------------------------
(* Properties.                                                             *)

\* Requests of one client start at least ...RequestGap apart, whoever sends
\* them and whatever is cancelled in between.
Paced == [][health'.requests # health.requests => since = Gap]_vars

\* One request at a time, the max_concurrent that every client reports
\* (newProviderMetrics: 1).
OneUnderWay == Cardinality({c \in Calls : call[c].pc = "sending"}) <= 1

\* The clients that hold their mutex over the exchange keep to it.
WithinMaxConcurrent == Held => OneUnderWay

\* The provider_unhealthy alert, "The most recent provider request failed."
\* (server.go:212), is shown exactly when the last exchange to end failed.
AlertTrue == verdict # "none" => (Unhealthy <=> verdict # "ok")

\* It is for the clients that count every failure when it happens, however the
\* exchanges of several goroutines overlap.
AlertExact == Faults \subseteq Counted => AlertTrue

\* What the provider asked for in Retry-After has passed, up to the cap of
\* RetryDelay, when the trace it was told to sends again.
RetryAfterKept ==
    [][\A c \in Traces : call[c].pc = "gap" /\ call'[c].pc = "sending" => call[c].asked = 0]_vars

\* A request is counted as throttled only after the provider has throttled one:
\* "An OpenChain provider is throttling requests." (alerts.yml:45).
ThrottledByProvider ==
    [][health'.throttled # health.throttled => verdict = "throttled"]_vars

\* Every call ends, also when contexts end while others wait for the mutex.
CallsEnd == \A c \in Calls : call[c].pc # "idle" ~> call[c].pc = "idle"

=============================================================================

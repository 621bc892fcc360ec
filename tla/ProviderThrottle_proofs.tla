------------------------ MODULE ProviderThrottle_proofs ------------------------
(***************************************************************************)
(* The pace and the alert of ProviderThrottle for any number of            *)
(* goroutines, any gap and any number of requests.  The argument for the   *)
(* pace: only the holder of the mutex waits out the gap, and while it      *)
(* does, the age of the last request and what is left of its timer add up  *)
(* to the gap at least.                                                    *)
(***************************************************************************)
EXTENDS ProviderThrottle, FiniteSetTheorems, TLAPS

Stage == {"idle", "locking", "gap", "sending", "judging", "backoff"}

CallState == [pc : Stage, left : Nat, delayed : BOOLEAN, cancelled : BOOLEAN,
              attempt : Nat \ {0}, asked : Nat]

Counters == [provider : Providers, requests : Nat, throttled : Nat, failures : Nat,
             events : Nat, lastSuccess : Nat, lastFailure : Nat]

\* The counters of the same client.
Later == {h \in Counters : h.provider = health.provider}

Shape ==
    /\ lock \in Calls \cup {None}
    /\ since \in 0 .. Gap
    /\ call \in [Calls -> CallState]
    /\ health \in Counters

\* The holder of the mutex waits out the gap.
WaitsOut == \A c \in Calls : call[c].pc = "gap" => lock = c /\ since + call[c].left >= Gap

\* A client that holds the mutex over the exchange holds it while it sends.
SendsLocked == Held => \A c \in Calls : call[c].pc = "sending" => lock = c

\* What is left of Retry-After is waited for, and gone once the wait is over.
AskedIn(r) == IF r.pc = "backoff" THEN r.asked <= r.left ELSE r.asked = 0

AskedIsLeft == \A c \in Calls : AskedIn(call[c])

IInv == Shape /\ WaitsOut /\ SendsLocked /\ AskedIsLeft

(* What the updates of a goroutine and of the counters are.                 *)
LEMMA UpdateStage ==
  ASSUME NEW r \in CallState, NEW p \in Stage
  PROVE  [r EXCEPT !.pc = p] \in CallState /\ [r EXCEPT !.cancelled = TRUE] \in CallState
  BY DEF CallState

LEMMA UpdateTimes ==
  ASSUME NEW r \in CallState, NEW l \in Nat, NEW a \in Nat
  PROVE  [r EXCEPT !.left = l, !.asked = a] \in CallState
  BY DEF CallState

LEMMA UpdateBackoff ==
  ASSUME NEW r \in CallState, NEW p \in Stage, NEW l \in Nat, NEW a \in Nat
  PROVE  [r EXCEPT !.pc = p, !.left = l, !.asked = a] \in CallState
  BY DEF CallState

LEMMA UpdateGap ==
  ASSUME NEW r \in CallState, NEW p \in Stage, NEW l \in Nat, NEW d \in BOOLEAN
  PROVE  [r EXCEPT !.pc = p, !.left = l, !.delayed = d] \in CallState
  BY DEF CallState

LEMMA UpdateAttempt ==
  ASSUME NEW r \in CallState, NEW p \in Stage, NEW n \in Nat \ {0}
  PROVE  [r EXCEPT !.pc = p, !.attempt = n] \in CallState
  BY DEF CallState

LEMMA CallFields ==
  ASSUME NEW r \in CallState, NEW p, NEW l, NEW a, NEW d, NEW n
  PROVE  /\ LET u == [r EXCEPT !.pc = p] IN u.pc = p /\ u.left = r.left /\ u.asked = r.asked
         /\ LET u == [r EXCEPT !.cancelled = TRUE]
            IN  u.pc = r.pc /\ u.left = r.left /\ u.asked = r.asked
         /\ LET u == [r EXCEPT !.left = l, !.asked = a]
            IN  u.pc = r.pc /\ u.left = l /\ u.asked = a
         /\ LET u == [r EXCEPT !.pc = p, !.left = l, !.asked = a]
            IN  u.pc = p /\ u.left = l /\ u.asked = a
         /\ LET u == [r EXCEPT !.pc = p, !.left = l, !.delayed = d]
            IN  u.pc = p /\ u.left = l /\ u.asked = r.asked
         /\ LET u == [r EXCEPT !.pc = p, !.attempt = n]
            IN  u.pc = p /\ u.left = r.left /\ u.asked = r.asked
  BY DEF CallState

LEMMA UpdateRequests ==
  ASSUME NEW h \in Counters, NEW m \in Nat, NEW n \in Nat
  PROVE  [h EXCEPT !.requests = m, !.throttled = n] \in {g \in Counters : g.provider = h.provider}
  BY DEF Counters

LEMMA UpdateSuccess ==
  ASSUME NEW h \in Counters, NEW m \in Nat
  PROVE  [h EXCEPT !.events = m, !.lastSuccess = m] \in {g \in Counters : g.provider = h.provider}
  BY DEF Counters

LEMMA UpdateFailure ==
  ASSUME NEW h \in Counters, NEW m \in Nat, NEW n \in Nat
  PROVE  [h EXCEPT !.events = m, !.failures = n, !.lastFailure = m] \in {g \in Counters : g.provider = h.provider}
  BY DEF Counters

LEMMA ReadyState == Ready \in CallState /\ Ready.pc = "idle" /\ Ready.left = 0 /\ AskedIn(Ready)
  BY DEF Ready, CallState, Stage, AskedIn

LEMMA OneMoves ==
  ASSUME Shape, NEW c \in Calls, NEW r \in CallState, call' = [call EXCEPT ![c] = r]
  PROVE  /\ call' \in [Calls -> CallState]
         /\ call'[c] = r
         /\ \A d \in Calls : d # c => call'[d] = call[d]
  BY DEF Shape

(* The three doublings of the delay.                                        *)
LEMMA Doubled == 2 ^ 0 = 1 /\ 2 ^ 1 = 2 /\ 2 ^ 2 = 4
  BY SMT

(* A delay is as long as was asked for, up to the cap.                      *)
LEMMA DelayCovers ==
  ASSUME NEW attempt \in Nat \ {0}, NEW asked \in Nat
  PROVE  /\ RetryDelay(attempt, asked) \in Nat
         /\ Least(asked, Cap) \in Nat
         /\ Least(asked, Cap) <= RetryDelay(attempt, asked)
  <1>1. Least(attempt - 1, 2) \in {0, 1, 2}
    BY DEF Least
  <1>2. PICK n : n = 2 ^ Least(attempt - 1, 2)
    OBVIOUS
  <1>3. n \in {1, 2, 4}
    <2>1. CASE Least(attempt - 1, 2) = 0
      BY <1>2, <2>1, Doubled
    <2>2. CASE Least(attempt - 1, 2) = 1
      BY <1>2, <2>2, Doubled
    <2>3. CASE Least(attempt - 1, 2) = 2
      BY <1>2, <2>3, Doubled
    <2> QED
      BY <1>1, <2>1, <2>2, <2>3
  <1>4. Second \in Nat /\ Cap \in Nat
    BY ThrottleAssumption
  <1>5. Second * n \in Nat
    BY <1>3, <1>4
  <1>6. RetryDelay(attempt, asked) = Least(Most(Second * n, asked), Cap)
    BY <1>2 DEF RetryDelay
  <1> QED
    BY <1>4, <1>5, <1>6 DEF Least, Most

(* The goroutine after a failed exchange.                                   *)
LEMMA AfterFailureState ==
  ASSUME Shape, NEW c \in Calls, NEW o, NEW asked \in Nat
  PROVE  /\ AfterFailure(c, o, asked) \in CallState
         /\ AfterFailure(c, o, asked).pc \in {"idle", "backoff"}
         /\ AskedIn(AfterFailure(c, o, asked))
  <1>1. call[c] \in CallState /\ call[c].attempt \in Nat \ {0}
    BY DEF Shape, CallState
  <1>2. CASE o \in Transient /\ c \in Traces /\ call[c].attempt < MaxAttempts
    <2>1. PICK d, a : d = RetryDelay(call[c].attempt, asked) /\ a = Least(asked, Cap)
      OBVIOUS
    <2>2. d \in Nat /\ a \in Nat /\ a <= d
      BY <1>1, <2>1, DelayCovers
    <2>3. AfterFailure(c, o, asked)
            = [call[c] EXCEPT !.pc = "backoff", !.left = d, !.asked = a]
      BY <1>2, <2>1 DEF AfterFailure
    <2>4. "backoff" \in Stage
      BY DEF Stage
    <2>5. AfterFailure(c, o, asked) \in CallState
      <3>1. [call[c] EXCEPT !.pc = "backoff", !.left = d, !.asked = a] \in CallState
        BY <1>1, <2>2, <2>4, UpdateBackoff
      <3> QED
        BY <2>3, <3>1
    <2>6. /\ AfterFailure(c, o, asked).pc = "backoff"
          /\ AfterFailure(c, o, asked).left = d
          /\ AfterFailure(c, o, asked).asked = a
      BY <1>1, <2>3, CallFields
    <2> QED
      BY <2>2, <2>5, <2>6 DEF AskedIn
  <1>3. CASE ~(o \in Transient /\ c \in Traces /\ call[c].attempt < MaxAttempts)
    <2>1. AfterFailure(c, o, asked) = Ready
      BY <1>3 DEF AfterFailure
    <2> QED
      BY <2>1, ReadyState
  <1> QED
    BY <1>2, <1>3

(* Requests are counted by Start alone.                                     *)
LEMMA Counting ==
  ASSUME Shape
  PROVE  /\ \A d \in BOOLEAN : CountRequest(d) \in Later
         /\ CountSuccess \in Later /\ CountSuccess.requests = health.requests
         /\ CountFailure \in Later /\ CountFailure.requests = health.requests
         /\ \A o : Count(o) \in Later /\ Count(o).requests = health.requests
  <1> DEFINE n == health.events + 1
             f == health.failures + 1
  <1>0. health \in Counters /\ health \in Later /\ n \in Nat /\ f \in Nat
    BY DEF Shape, Counters, Later
  <1>1. CountSuccess \in Later /\ CountSuccess.requests = health.requests
    <2>1. CountSuccess = [health EXCEPT !.events = n, !.lastSuccess = n]
      BY DEF CountSuccess
    <2> HIDE DEF n
    <2>2. CountSuccess \in Later
      BY <1>0, <2>1, UpdateSuccess DEF Later
    <2>3. CountSuccess.requests = health.requests
      BY <1>0, <2>1 DEF Counters
    <2> QED
      BY <2>2, <2>3
  <1>2. CountFailure \in Later /\ CountFailure.requests = health.requests
    <2>1. CountFailure = [health EXCEPT !.events = n, !.failures = f, !.lastFailure = n]
      BY DEF CountFailure
    <2> HIDE DEF n, f
    <2>2. CountFailure \in Later
      BY <1>0, <2>1, UpdateFailure DEF Later
    <2>3. CountFailure.requests = health.requests
      BY <1>0, <2>1 DEF Counters
    <2> QED
      BY <2>2, <2>3
  <1>3. ASSUME NEW d \in BOOLEAN PROVE CountRequest(d) \in Later
    <2> DEFINE m == health.requests + 1
               t == IF d THEN health.throttled + 1 ELSE health.throttled
    <2>1. m \in Nat /\ t \in Nat
      BY <1>0 DEF Counters
    <2>2. CountRequest(d) = [health EXCEPT !.requests = m, !.throttled = t]
      BY DEF CountRequest
    <2> HIDE DEF m, t
    <2>3. [health EXCEPT !.requests = m, !.throttled = t]
            \in {g \in Counters : g.provider = health.provider}
      BY <1>0, <2>1, UpdateRequests
    <2> QED
      BY <2>2, <2>3 DEF Later
  <1>4. \A o : Count(o) \in {CountFailure, health}
    BY DEF Count
  <1> QED
    BY <1>0, <1>1, <1>2, <1>3, <1>4

LEMMA InitIInv == Init => IInv
  <1> SUFFICES ASSUME Init PROVE IInv
    OBVIOUS
  <1>1. call = [c \in Calls |-> Ready] /\ lock = None /\ since = Gap /\ Gap \in Nat
    BY ThrottleAssumption DEF Init
  <1>2. health \in Counters
    BY DEF Init, Counters
  <1>3. Shape
    BY <1>1, <1>2, ReadyState DEF Shape
  <1>4. \A c \in Calls : call[c] = Ready
    BY <1>1
  <1> QED
    BY <1>3, <1>4, ReadyState DEF IInv, WaitsOut, SendsLocked, AskedIsLeft

(* A goroutine moves on its own, out of the reach of mutex and clock.       *)
LEMMA Apart ==
  ASSUME IInv, NEW c \in Calls, NEW r \in CallState, AskedIn(r),
         call' = [call EXCEPT ![c] = r], lock' = lock, since' = since, health' \in Later,
         r.pc \in {"gap", "sending"} => r.pc = call[c].pc /\ r.left = call[c].left
  PROVE  IInv'
  <1>1. /\ call' \in [Calls -> CallState] /\ call'[c] = r
        /\ \A d \in Calls : d # c => call'[d] = call[d]
    BY OneMoves DEF IInv
  <1>2. Shape'
    BY <1>1 DEF IInv, Shape, Later
  <1>3. WaitsOut'
    BY <1>1 DEF IInv, WaitsOut
  <1>4. SendsLocked'
    BY <1>1 DEF IInv, SendsLocked, Held, Later
  <1>5. AskedIsLeft'
    BY <1>1 DEF IInv, AskedIsLeft
  <1> QED
    BY <1>2, <1>3, <1>4, <1>5 DEF IInv

(* An exchange ends: with the mutex held over it, nobody waits out the gap. *)
LEMMA Ends ==
  ASSUME IInv, NEW c \in Calls, NEW r \in CallState, AskedIn(r), call[c].pc = "sending",
         call' = [call EXCEPT ![c] = r], Leave(c), since' = since, health' \in Later,
         r.pc \in {"idle", "judging", "backoff"}
  PROVE  IInv'
  <1>1. /\ call' \in [Calls -> CallState] /\ call'[c] = r
        /\ \A d \in Calls : d # c => call'[d] = call[d]
    BY OneMoves DEF IInv
  <1>2. Shape'
    BY <1>1 DEF IInv, Shape, Leave, Later
  <1>3. ASSUME NEW d \in Calls, d # c, call[d].pc = "gap" \/ (Held /\ call[d].pc = "sending")
        PROVE  lock' = lock
    BY <1>3 DEF IInv, WaitsOut, SendsLocked, Leave
  <1>4. WaitsOut'
    BY <1>1, <1>3 DEF IInv, WaitsOut
  <1>5. SendsLocked'
    BY <1>1, <1>3 DEF IInv, SendsLocked, Held, Later
  <1>6. AskedIsLeft'
    BY <1>1 DEF IInv, AskedIsLeft
  <1> QED
    BY <1>2, <1>4, <1>5, <1>6 DEF IInv

LEMMA TickIInv == ASSUME IInv, Tick PROVE IInv'
  <1>1. Gap \in Nat /\ since \in 0 .. Gap
    BY ThrottleAssumption DEF IInv, Shape
  <1>2. since' \in 0 .. Gap /\ (since' = since + 1 \/ since' = Gap)
    <2>1. since' = IF since + 1 < Gap THEN since + 1 ELSE Gap
      BY DEF Tick, Least
    <2> QED
      BY <1>1, <2>1
  <1>3. ASSUME NEW c \in Calls
        PROVE  /\ call'[c] \in CallState /\ call'[c].pc = call[c].pc
               /\ call[c].left \in Nat /\ call'[c].left \in Nat /\ call'[c].left >= call[c].left - 1
               /\ AskedIn(call'[c])
    <2>1. PICK l, a : l = Down(call[c].left) /\ a = Down(call[c].asked)
      OBVIOUS
    <2>2. call[c] \in CallState /\ call[c].left \in Nat /\ call[c].asked \in Nat
      BY DEF IInv, Shape, CallState
    <2>3. l \in Nat /\ a \in Nat /\ l >= call[c].left - 1
      BY <2>1, <2>2 DEF Down
    <2>4. call'[c] = [call[c] EXCEPT !.left = l, !.asked = a]
      BY <2>1 DEF Tick
    <2>6. call'[c] \in CallState
      BY <2>2, <2>3, <2>4, UpdateTimes
    <2>7. call'[c].pc = call[c].pc /\ call'[c].left = l /\ call'[c].asked = a
      BY <2>2, <2>4, CallFields
    <2>8. AskedIn(call[c])
      BY DEF IInv, AskedIsLeft
    <2>9. AskedIn(call'[c])
      BY <2>1, <2>2, <2>7, <2>8 DEF AskedIn, Down
    <2> QED
      BY <2>2, <2>3, <2>6, <2>7, <2>9
  <1>4. Shape'
    <2>1. call' = [c \in Calls |-> call'[c]]
      BY DEF Tick
    <2>2. call' \in [Calls -> CallState]
      BY <1>3, <2>1
    <2> QED
      BY <1>2, <2>2 DEF IInv, Shape, Tick
  <1>5. WaitsOut'
    <2> SUFFICES ASSUME NEW c \in Calls, call'[c].pc = "gap"
                 PROVE  lock' = c /\ since' + call'[c].left >= Gap
      BY DEF WaitsOut
    <2>1. lock = c /\ since + call[c].left >= Gap
      BY <1>3 DEF IInv, WaitsOut
    <2>2. lock' = lock
      BY DEF Tick
    <2> QED
      BY <1>1, <1>2, <1>3, <2>1, <2>2
  <1>6. SendsLocked'
    BY <1>3 DEF IInv, SendsLocked, Held, Tick
  <1>7. AskedIsLeft'
    BY <1>3 DEF AskedIsLeft
  <1> QED
    BY <1>4, <1>5, <1>6, <1>7 DEF IInv

LEMMA StepIInv == IInv /\ [Next]_vars => IInv'
  <1> SUFFICES ASSUME IInv, [Next]_vars PROVE IInv'
    OBVIOUS
  <1>a. Shape /\ WaitsOut /\ SendsLocked /\ AskedIsLeft
    BY DEF IInv
  <1>b. \A c \in Calls : call[c] \in CallState
    BY <1>a DEF Shape
  <1>c. health \in Later /\ None \notin Calls /\ Gap \in Nat \ {0}
    BY <1>a, ThrottleAssumption DEF Shape, Later
  <1>1. CASE Tick
    BY <1>1, TickIInv
  <1>2. ASSUME NEW c \in Calls, Begin(c) PROVE IInv'
    <2> DEFINE r == [call[c] EXCEPT !.pc = "locking"]
    <2>1. r \in CallState
      BY <1>b, UpdateStage DEF Stage
    <2>2. r.pc = "locking" /\ r.asked = call[c].asked
      BY <1>b, CallFields
    <2>3. AskedIn(r)
      BY <1>a, <1>2, <2>2 DEF AskedIsLeft, AskedIn, Begin
    <2>4. call' = [call EXCEPT ![c] = r] /\ lock' = lock /\ since' = since /\ health' = health
      BY <1>2 DEF Begin
    <2> QED
      BY <1>c, <2>1, <2>2, <2>3, <2>4, Apart
  <1>3. ASSUME NEW c \in Calls, Enter(c) PROVE IInv'
    <2> DEFINE l == Gap - since
               w == since < Gap
               r == [call[c] EXCEPT !.pc = "gap", !.left = l, !.delayed = w]
    <2>1. l \in Nat /\ since + l = Gap
      BY <1>a, <1>c DEF Shape
    <2>2. r \in CallState
      <3>1. "gap" \in Stage /\ w \in BOOLEAN
        BY DEF Stage
      <3> HIDE DEF l, w
      <3> QED
        BY <1>b, <2>1, <3>1, UpdateGap
    <2>3. r.pc = "gap" /\ r.left = l /\ r.asked = call[c].asked
      BY <1>b, CallFields
    <2>4. /\ call' = [call EXCEPT ![c] = r] /\ lock = None /\ lock' = c /\ since' = since
          /\ health' = health /\ call[c].pc = "locking"
      BY <1>3 DEF Enter, Waiting
    <2> HIDE DEF l, w, r
    <2>5. /\ call' \in [Calls -> CallState] /\ call'[c] = r
          /\ \A d \in Calls : d # c => call'[d] = call[d]
      BY <1>a, <2>2, <2>4, OneMoves
    <2>6. Shape'
      BY <1>a, <2>4, <2>5 DEF Shape
    <2>7. WaitsOut'
      BY <1>a, <1>c, <2>1, <2>3, <2>4, <2>5 DEF WaitsOut
    <2>8. SendsLocked'
      BY <1>a, <1>c, <2>3, <2>4, <2>5 DEF SendsLocked, Held
    <2>9. AskedIsLeft'
      BY <1>a, <2>3, <2>4, <2>5 DEF AskedIsLeft, AskedIn
    <2> QED
      BY <2>6, <2>7, <2>8, <2>9 DEF IInv
  <1>4. ASSUME NEW c \in Calls, GiveUp(c) PROVE IInv'
    <2>1. /\ call' = [call EXCEPT ![c] = Ready] /\ lock' = None /\ since' = since
          /\ health' = health /\ call[c].pc = "gap" /\ lock = c
      BY <1>4, <1>a DEF GiveUp, WaitsOut
    <2>2. /\ call' \in [Calls -> CallState] /\ call'[c] = Ready
          /\ \A d \in Calls : d # c => call'[d] = call[d]
      BY <1>a, <2>1, OneMoves, ReadyState
    <2>3. Shape'
      BY <1>a, <2>1, <2>2 DEF Shape
    <2>4. WaitsOut' /\ SendsLocked'
      BY <1>a, <2>1, <2>2, ReadyState DEF WaitsOut, SendsLocked, Held
    <2>5. AskedIsLeft'
      BY <1>a, <2>2, ReadyState DEF AskedIsLeft
    <2> QED
      BY <2>3, <2>4, <2>5 DEF IInv
  <1>5. ASSUME NEW c \in Calls, Start(c) PROVE IInv'
    <2> DEFINE r == [call[c] EXCEPT !.pc = "sending"]
    <2>1. r \in CallState
      BY <1>b, UpdateStage DEF Stage
    <2>2. r.pc = "sending" /\ r.asked = call[c].asked
      BY <1>b, CallFields
    <2>3. /\ call' = [call EXCEPT ![c] = r] /\ lock' = (IF Held THEN lock ELSE None)
          /\ since' = 0 /\ health' = CountRequest(call[c].delayed) /\ call[c].pc = "gap"
      BY <1>5 DEF Start, Started
    <2>4. lock = c
      BY <1>a, <2>3 DEF WaitsOut
    <2> HIDE DEF r
    <2>5. /\ call' \in [Calls -> CallState] /\ call'[c] = r
          /\ \A d \in Calls : d # c => call'[d] = call[d]
      BY <1>a, <2>1, <2>3, OneMoves
    <2>6. call[c].delayed \in BOOLEAN
      BY <1>b DEF CallState
    <2>7. health' \in Later
      BY <1>a, <2>3, <2>6, Counting
    <2>8. Shape'
      BY <1>a, <1>c, <2>3, <2>5, <2>7 DEF Shape, Later
    <2>9. \A d \in Calls : call'[d].pc # "gap"
      BY <1>a, <2>2, <2>4, <2>5 DEF WaitsOut
    <2>10. WaitsOut'
      BY <2>9 DEF WaitsOut
    <2>11. SendsLocked'
      BY <1>a, <2>3, <2>4, <2>5, <2>7 DEF SendsLocked, Held, Later
    <2>12. AskedIsLeft'
      BY <1>a, <2>2, <2>3, <2>5 DEF AskedIsLeft, AskedIn
    <2> QED
      BY <2>8, <2>10, <2>11, <2>12 DEF IInv
  <1>6. ASSUME NEW c \in Calls, Succeed(c) PROVE IInv'
    <2>1. health' \in Later
      BY <1>6, <1>a, Counting DEF Succeed
    <2> QED
      BY <1>6, <2>1, Ends, ReadyState DEF Succeed
  <1>7. ASSUME NEW c \in Calls, Fail(c) PROVE IInv'
    <2>1. PICK o \in Faults \ {"limited"}, asked \in RetryAfters :
            /\ call[c].pc = "sending"
            /\ health' = IF o = "refused" /\ o \notin Counted THEN CountSuccess ELSE Count(o)
            /\ call' = [call EXCEPT ![c] = AfterFailure(c, o, asked)]
            /\ Leave(c)
            /\ since' = since
      BY <1>7 DEF Fail
    <2>2. asked \in Nat
      BY ThrottleAssumption
    <2>3. health' \in Later
      BY <1>a, <2>1, Counting
    <2>4. PICK r : r = AfterFailure(c, o, asked)
      OBVIOUS
    <2>5. r \in CallState /\ r.pc \in {"idle", "backoff"} /\ AskedIn(r)
      BY <1>a, <2>2, <2>4, AfterFailureState
    <2> QED
      BY <2>1, <2>3, <2>4, <2>5, Ends
  <1>8. ASSUME NEW c \in Calls, Limited(c) PROVE IInv'
    <2> DEFINE r == [call[c] EXCEPT !.pc = "judging"]
    <2>1. r \in CallState
      BY <1>b, UpdateStage DEF Stage
    <2>2. r.pc = "judging" /\ r.asked = call[c].asked
      BY <1>b, CallFields
    <2>3. AskedIn(r)
      BY <1>a, <1>8, <2>2 DEF AskedIsLeft, AskedIn, Limited
    <2>4. health' \in Later
      BY <1>8, <1>a, Counting DEF Limited
    <2>5. /\ call' = [call EXCEPT ![c] = r] /\ Leave(c) /\ since' = since
          /\ call[c].pc = "sending"
      BY <1>8 DEF Limited
    <2> QED
      BY <2>1, <2>2, <2>3, <2>4, <2>5, Ends
  <1>9. ASSUME NEW c \in Calls, Judge(c) PROVE IInv'
    <2>1. PICK r : r = AfterFailure(c, "limited", 0)
      OBVIOUS
    <2>2. r \in CallState /\ r.pc \in {"idle", "backoff"} /\ AskedIn(r)
      BY <1>a, <2>1, AfterFailureState
    <2>3. /\ call' = [call EXCEPT ![c] = r] /\ lock' = lock /\ since' = since
          /\ health' \in Later
      BY <1>9, <1>a, <2>1, Counting DEF Judge
    <2> QED
      BY <2>2, <2>3, Apart
  <1>10. ASSUME NEW c \in Calls, Retry(c) PROVE IInv'
    <2> DEFINE n == call[c].attempt + 1
               r == [call[c] EXCEPT !.pc = "locking", !.attempt = n]
    <2>1. n \in Nat \ {0} /\ call[c].asked \in Nat
      BY <1>b DEF CallState
    <2>2. r \in CallState
      <3> HIDE DEF n
      <3> QED
        BY <1>b, <2>1, UpdateAttempt DEF Stage
    <2>3. r.pc = "locking" /\ r.asked = call[c].asked
      BY <1>b, CallFields
    <2>4. AskedIn(r)
      BY <1>a, <1>10, <2>1, <2>3 DEF AskedIsLeft, AskedIn, Retry
    <2>5. call' = [call EXCEPT ![c] = r] /\ lock' = lock /\ since' = since /\ health' = health
      BY <1>10 DEF Retry
    <2> QED
      BY <1>c, <2>2, <2>3, <2>4, <2>5, Apart
  <1>11. ASSUME NEW c \in Calls, Abandon(c) PROVE IInv'
    BY <1>11, <1>c, Apart, ReadyState DEF Abandon
  <1>12. ASSUME NEW c \in Calls, Cancel(c) PROVE IInv'
    <2> DEFINE r == [call[c] EXCEPT !.cancelled = TRUE]
    <2>1. r \in CallState
      BY <1>b, UpdateStage DEF Stage
    <2>2. r.pc = call[c].pc /\ r.left = call[c].left /\ r.asked = call[c].asked
      BY <1>b, CallFields
    <2>3. AskedIn(r)
      BY <1>a, <2>2 DEF AskedIsLeft, AskedIn
    <2>4. call' = [call EXCEPT ![c] = r] /\ lock' = lock /\ since' = since /\ health' = health
      BY <1>12 DEF Cancel
    <2> QED
      BY <1>c, <2>1, <2>2, <2>3, <2>4, Apart
  <1>13. CASE UNCHANGED vars
    <2>1. lock' = lock /\ since' = since /\ call' = call /\ health' = health
      BY <1>13 DEF vars
    <2> QED
      BY <1>a, <2>1 DEF IInv, Shape, WaitsOut, SendsLocked, Held, AskedIsLeft
  <1> QED
    BY <1>1, <1>2, <1>3, <1>4, <1>5, <1>6, <1>7, <1>8, <1>9, <1>10, <1>11, <1>12, <1>13
    DEF Next, Goes, Exchange

LEMMA Inductive == Spec => []IInv
  BY InitIInv, StepIInv, PTL DEF Spec

(* The client that holds the mutex over the exchange has at most one        *)
(* request under way, as its max_concurrent reports: WithinMaxConcurrent    *)
(* for Etherscan, Alchemy, Blockscout, TronGrid, tonapi and Blockfrost.     *)
THEOREM ConcurrencyHeld == Spec => []WithinMaxConcurrent
  <1>1. ASSUME IInv, Held PROVE OneUnderWay
    <2> DEFINE S == {c \in Calls : call[c].pc = "sending"}
    <2>1. \A c \in S : c = lock
      BY <1>1 DEF IInv, SendsLocked
    <2>2. S \subseteq {lock}
      BY <2>1
    <2> HIDE DEF S
    <2>3. IsFiniteSet({lock}) /\ Cardinality({lock}) = 1
      BY FS_Singleton
    <2>4. Cardinality(S) <= 1
      BY <2>2, <2>3, FS_Subset
    <2> QED
      BY <2>4 DEF OneUnderWay, S
  <1>2. IInv => WithinMaxConcurrent
    BY <1>1 DEF WithinMaxConcurrent
  <1> QED
    BY <1>2, Inductive, PTL

(* What one step does to the number of requests and to who sends.           *)
LEMMA OnlyStartSends ==
  ASSUME IInv, [Next]_vars
  PROVE  /\ health'.requests # health.requests => since = Gap
         /\ \A c \in Traces : call[c].pc = "gap" /\ call'[c].pc = "sending" => call[c].asked = 0
  <1>1. \A c \in Traces : call[c].pc = "gap" => call[c].asked = 0
    BY DEF IInv, AskedIsLeft, AskedIn, Calls
  <1>2. ASSUME health'.requests # health.requests PROVE \E c \in Calls : Start(c)
    <2>1. \A o : Count(o).requests = health.requests
      BY Counting DEF IInv
    <2>2. CountSuccess.requests = health.requests /\ CountFailure.requests = health.requests
      BY Counting DEF IInv
    <2>3. \A c \in Calls : ~Fail(c)
      BY <1>2, <2>1, <2>2 DEF Fail
    <2>4. \A c \in Calls : ~(Succeed(c) \/ Limited(c) \/ Judge(c))
      BY <1>2, <2>2 DEF Succeed, Limited, Judge
    <2>5. \A c \in Calls : ~(Begin(c) \/ Enter(c) \/ GiveUp(c) \/ Retry(c) \/ Abandon(c) \/ Cancel(c))
      BY <1>2 DEF Begin, Enter, GiveUp, Retry, Abandon, Cancel
    <2>6. ~Tick /\ ~UNCHANGED vars
      BY <1>2 DEF Tick, vars
    <2> QED
      BY <2>3, <2>4, <2>5, <2>6 DEF Next, Goes, Exchange
  <1>3. ASSUME NEW c \in Calls, Start(c) PROVE since = Gap
    <2>1. call[c].pc = "gap" /\ call[c].left = 0
      BY <1>3 DEF Start, Started
    <2>2. since \in 0 .. Gap /\ since + call[c].left >= Gap
      BY <2>1 DEF IInv, Shape, WaitsOut
    <2> QED
      BY <2>1, <2>2, ThrottleAssumption
  <1> QED
    BY <1>1, <1>2, <1>3

(* Requests of one client start at least its gap apart, for any number of   *)
(* goroutines and whatever is cancelled in between (waitForRequest and the  *)
(* adapters' copies of it).                                                 *)
THEOREM PacedHolds == Spec => Paced
  <1>1. IInv /\ [Next]_vars => [health'.requests # health.requests => since = Gap]_vars
    BY OnlyStartSends
  <1> QED
    BY <1>1, Inductive, PTL DEF Spec, Paced

(* A trace that was told to wait does not send before, up to the cap of     *)
(* RetryDelay (resolveWithRetry).                                           *)
THEOREM RetryAfterHolds == Spec => RetryAfterKept
  <1>1. IInv /\ [Next]_vars =>
          [\A c \in Traces : call[c].pc = "gap" /\ call'[c].pc = "sending" => call[c].asked = 0]_vars
    BY OnlyStartSends
  <1> QED
    BY <1>1, Inductive, PTL DEF Spec, RetryAfterKept

-----------------------------------------------------------------------------
(* The alert.  The two times are places in one order, so the later of the  *)
(* last success and the last failure is that of the last exchange to end,  *)
(* as long as no failure is found later than the end of its exchange.      *)

AlertIInv ==
    Faults \subseteq Counted =>
        /\ health.lastSuccess <= health.events
        /\ health.lastFailure <= health.events
        /\ \A c \in Calls : call[c].pc # "judging"
        /\ AlertTrue

(* What counting the end of an exchange shows.                              *)
LEMMA CountedEnds ==
  ASSUME Shape, health.lastSuccess <= health.events, health.lastFailure <= health.events
  PROVE  /\ health' = CountSuccess =>
              /\ health'.lastSuccess <= health'.events /\ health'.lastFailure <= health'.events
              /\ ~Unhealthy'
         /\ health' = CountFailure =>
              /\ health'.lastSuccess <= health'.events /\ health'.lastFailure <= health'.events
              /\ Unhealthy'
  <1>1. health \in Counters /\ health.events \in Nat /\ health.lastSuccess \in Nat
        /\ health.lastFailure \in Nat
    BY DEF Shape, Counters
  <1>2. ASSUME health' = CountSuccess
        PROVE  /\ health'.events = health.events + 1 /\ health'.lastSuccess = health.events + 1
               /\ health'.lastFailure = health.lastFailure
    BY <1>1, <1>2 DEF CountSuccess, Counters
  <1>3. ASSUME health' = CountFailure
        PROVE  /\ health'.events = health.events + 1 /\ health'.lastFailure = health.events + 1
               /\ health'.lastSuccess = health.lastSuccess
    BY <1>1, <1>3 DEF CountFailure, Counters
  <1> QED
    BY <1>1, <1>2, <1>3 DEF Unhealthy

(* Only the end of an exchange and a start touch the counters.              *)
LEMMA AlertStep == IInv /\ IInv' /\ AlertIInv /\ [Next]_vars => AlertIInv'
  <1> SUFFICES ASSUME IInv, IInv', AlertIInv, [Next]_vars, (Faults \subseteq Counted)'
               PROVE  /\ health'.lastSuccess <= health'.events
                      /\ health'.lastFailure <= health'.events
                      /\ \A c \in Calls : call'[c].pc # "judging"
                      /\ AlertTrue'
    BY DEF AlertIInv
  <1>0. Shape /\ health \in Counters /\ call \in [Calls -> CallState]
    BY DEF IInv, Shape
  <1>1. health'.provider = health.provider
    <2>1. \A o, d : d \in BOOLEAN =>
            CountRequest(d) \in Later /\ CountSuccess \in Later /\ CountFailure \in Later
            /\ Count(o) \in Later
      BY <1>0, Counting
    <2>2. \A c \in Calls : call[c].delayed \in BOOLEAN
      BY <1>0 DEF CallState
    <2> QED
      BY <2>1, <2>2 DEF Later, Next, Tick, Begin, Enter, Goes, GiveUp, Start, Started, Exchange,
         Succeed, Fail, Limited, Judge, Retry, Abandon, Cancel, vars
  <1>2. Faults \subseteq Counted
    BY <1>1 DEF Faults, Counted
  <1>3. /\ health.lastSuccess <= health.events /\ health.lastFailure <= health.events
        /\ \A c \in Calls : call[c].pc # "judging"
        /\ AlertTrue
    BY <1>2 DEF AlertIInv
  <1>4. "limited" \notin Faults
    <2>1. health.provider \in DOMAIN Clients
      BY <1>0, ThrottleAssumption DEF Counters
    <2> QED
      BY <1>2, <2>1 DEF Faults, Counted, Clients, EtherscanClient, AlchemyClient,
         BlockscoutClient, TronGridClient, TonClient, BlockfrostClient, EVMClient,
         SolanaRPCClient, SolanaHistoryClient, Answered, Status
  <1>5. ASSUME NEW c \in Calls, NEW r \in CallState, call' = [call EXCEPT ![c] = r],
               r.pc # "judging"
        PROVE  \A d \in Calls : call'[d].pc # "judging"
    BY <1>0, <1>3, <1>5
  <1>6. CASE health' = health /\ verdict' = verdict /\ \A c \in Calls : call'[c].pc # "judging"
    BY <1>3, <1>6 DEF AlertTrue, Unhealthy
  <1>7. CASE Tick
    <2>1. \A c \in Calls : call'[c].pc = call[c].pc
      BY <1>0, <1>7 DEF Tick, CallState
    <2> QED
      BY <1>3, <1>6, <1>7, <2>1 DEF Tick
  <1>8. ASSUME NEW c \in Calls, Begin(c) \/ Enter(c) \/ GiveUp(c) \/ Retry(c) \/ Abandon(c) \/ Cancel(c)
        PROVE  \A d \in Calls : call'[d].pc # "judging"
    <2>1. call[c] \in CallState
      BY <1>0
    <2>2. CASE Begin(c)
      BY <1>0, <1>3, <2>1, <2>2 DEF Begin, CallState
    <2>3. CASE Enter(c)
      BY <1>0, <1>3, <2>1, <2>3 DEF Enter, Waiting, CallState
    <2>4. CASE GiveUp(c) \/ Abandon(c)
      BY <1>0, <1>3, <2>4 DEF GiveUp, Abandon, Ready
    <2>5. CASE Retry(c)
      BY <1>0, <1>3, <2>1, <2>5 DEF Retry, CallState
    <2>6. CASE Cancel(c)
      BY <1>0, <1>3, <2>1, <2>6 DEF Cancel, CallState
    <2> QED
      BY <1>8, <2>2, <2>3, <2>4, <2>5, <2>6
  <1>9. ASSUME NEW c \in Calls, Begin(c) \/ Enter(c) \/ GiveUp(c) \/ Retry(c) \/ Abandon(c) \/ Cancel(c)
        PROVE  health' = health /\ verdict' = verdict
    BY <1>9 DEF Begin, Enter, GiveUp, Retry, Abandon, Cancel
  <1>10. ASSUME NEW c \in Calls, Start(c)
         PROVE  /\ health'.lastSuccess <= health'.events /\ health'.lastFailure <= health'.events
                /\ \A d \in Calls : call'[d].pc # "judging"
                /\ AlertTrue'
    <2>1. verdict' = verdict /\ health' = CountRequest(call[c].delayed)
          /\ call' = [call EXCEPT ![c].pc = "sending"]
      BY <1>10 DEF Start, Started
    <2>2. health'.events = health.events /\ health'.lastSuccess = health.lastSuccess
          /\ health'.lastFailure = health.lastFailure
      BY <1>0, <2>1 DEF CountRequest, Counters
    <2>3. \A d \in Calls : call'[d].pc # "judging"
      BY <1>0, <1>3, <2>1 DEF CallState
    <2> QED
      BY <1>3, <2>1, <2>2, <2>3 DEF AlertTrue, Unhealthy
  <1>11. ASSUME NEW c \in Calls, Succeed(c)
         PROVE  /\ health'.lastSuccess <= health'.events /\ health'.lastFailure <= health'.events
                /\ \A d \in Calls : call'[d].pc # "judging"
                /\ AlertTrue'
    <2>1. verdict' = "ok" /\ health' = CountSuccess /\ call' = [call EXCEPT ![c] = Ready]
      BY <1>11 DEF Succeed
    <2>2. \A d \in Calls : call'[d].pc # "judging"
      BY <1>5, <2>1, ReadyState
    <2> QED
      BY <1>0, <1>3, <2>1, <2>2, CountedEnds DEF AlertTrue
  <1>12. ASSUME NEW c \in Calls, Fail(c)
         PROVE  /\ health'.lastSuccess <= health'.events /\ health'.lastFailure <= health'.events
                /\ \A d \in Calls : call'[d].pc # "judging"
                /\ AlertTrue'
    <2>1. PICK o \in Faults, asked \in RetryAfters :
            /\ health' = IF o = "refused" /\ o \notin Counted THEN CountSuccess ELSE Count(o)
            /\ verdict' = IF o = "throttled" THEN "throttled" ELSE "failed"
            /\ call' = [call EXCEPT ![c] = AfterFailure(c, o, asked)]
      BY <1>12 DEF Fail
    <2>2. health' = CountFailure /\ verdict' # "ok"
      BY <1>2, <2>1 DEF Count
    <2>3. asked \in Nat
      BY ThrottleAssumption
    <2>4. PICK r : r = AfterFailure(c, o, asked)
      OBVIOUS
    <2>5. r \in CallState /\ r.pc \in {"idle", "backoff"}
      BY <1>0, <2>3, <2>4, AfterFailureState
    <2>6. \A d \in Calls : call'[d].pc # "judging"
      BY <1>5, <2>1, <2>4, <2>5
    <2> QED
      BY <1>0, <1>3, <2>2, <2>6, CountedEnds DEF AlertTrue
  <1>13. \A c \in Calls : ~Limited(c) /\ ~Judge(c)
    BY <1>3, <1>4 DEF Limited, Judge
  <1>14. CASE UNCHANGED vars
    BY <1>3, <1>6, <1>14 DEF vars
  <1> QED
    BY <1>6, <1>7, <1>8, <1>9, <1>10, <1>11, <1>12, <1>13, <1>14 DEF Next, Goes, Exchange

(* The alert of a client that counts each of its failures when it happens   *)
(* (TronGrid, Blockscout, Solana's two and the EVM node) shows the outcome  *)
(* of the last exchange to end, for any number of goroutines whose          *)
(* exchanges overlap (healthAlerts, server.go:198).                         *)
THEOREM AlertHolds == Spec => []AlertExact
  <1>1. Init => AlertIInv
    <2>1. Init => verdict = "none" /\ health.lastSuccess = 0 /\ health.lastFailure = 0
                  /\ health.events = 0 /\ \A c \in Calls : call[c] = Ready
      BY DEF Init
    <2> QED
      BY <2>1, ReadyState DEF AlertIInv, AlertTrue
  <1>2. AlertIInv => AlertExact
    BY DEF AlertIInv, AlertExact
  <1> QED
    BY <1>1, <1>2, AlertStep, Inductive, PTL DEF Spec

=============================================================================

------------------------ MODULE RequestLimiter_proofs ------------------------
(***************************************************************************)
(* The budget of RequestLimiter holds for any number of clients and        *)
(* goroutines, any limit and any lag below a window's length.  The         *)
(* argument follows the order of the grants of one client: a grant is      *)
(* appended either to the last window, after its last grant, or opens a    *)
(* window, and then the last one was opened Minute - MaxLag ago.           *)
(***************************************************************************)
EXTENDS RequestLimiter, FiniteSetTheorems, TLAPS

(* A request that stays in the last grant's window follows every grant that *)
(* the last one follows.                                                    *)
LEMMA SpendFollows ==
  ASSUME NEW a \in Grant, NEW b \in Grant, NEW e \in Grant, NEW d \in Nat,
         Follows(a, b, d),
         e.window = b.window, e.opened = b.opened, e.nth = b.nth + 1, b.at <= e.at
  PROVE  Follows(a, e, d + 1)
  BY LimiterAssumption DEF Follows, Grant

(* A request that opens a window follows them as well.                      *)
LEMMA OpenFollows ==
  ASSUME NEW a \in Grant, NEW b \in Grant, NEW e \in Grant, NEW d \in Nat,
         Follows(a, b, d), b.nth <= Limit, b.opened <= b.at, b.at <= e.at,
         e.window = b.window + 1, e.opened = e.at, e.nth = 1,
         e.at - b.opened >= Minute - MaxLag
  PROVE  Follows(a, e, d + 1)
  BY LimiterAssumption DEF Follows, Grant

LEMMA ElementIsGrant ==
  ASSUME NEW g \in Seq(Grant), NEW i \in 1 .. Len(g) PROVE g[i] \in Grant
  OBVIOUS

LEMMA AppendHistory ==
  ASSUME NEW t \in Nat, NEW g \in Seq(Grant), NEW e \in Grant, History(g, t),
         e.nth \in 1 .. Limit, e.opened <= e.at, e.at <= t,
         \A i \in 1 .. Len(g) : Follows(g[i], e, Len(g) + 1 - i)
  PROVE  History(Append(g, e), t)
  <1>1. PICK h : h = Append(g, e)
    OBVIOUS
  <1>2. /\ Len(h) = Len(g) + 1 /\ h[Len(g) + 1] = e /\ Len(g) \in Nat
        /\ \A i \in 1 .. Len(g) : h[i] = g[i]
    BY <1>1
  <1>3. ASSUME NEW i \in 1 .. Len(h)
        PROVE  h[i].nth \in 1 .. Limit /\ h[i].opened <= h[i].at /\ h[i].at <= t
    <2>1. CASE i \in 1 .. Len(g)
      BY <1>2, <2>1 DEF History
    <2>2. CASE i = Len(g) + 1
      BY <1>2, <2>2
    <2> QED
      BY <1>2, <2>1, <2>2
  <1>4. ASSUME NEW i \in 1 .. Len(h), NEW j \in 1 .. Len(h), i <= j
        PROVE  Follows(h[i], h[j], j - i)
    <2>1. CASE j <= Len(g)
      <3>1. i \in 1 .. Len(g) /\ j \in 1 .. Len(g)
        BY <1>2, <1>4, <2>1
      <3> QED
        BY <1>2, <1>4, <3>1 DEF History
    <2>2. CASE j = Len(g) + 1 /\ i <= Len(g)
      <3>1. i \in 1 .. Len(g) /\ h[j] = e /\ j - i = Len(g) + 1 - i
        BY <1>2, <2>2
      <3> QED
        BY <1>2, <3>1
    <2>3. CASE j = Len(g) + 1 /\ i = Len(g) + 1
      <3>1. h[i] = e /\ h[j] = e /\ j - i = 0
        BY <1>2, <2>3
      <3>2. Follows(e, e, 0)
        BY DEF Follows, Grant
      <3> QED
        BY <3>1, <3>2
    <2> QED
      BY <1>2, <1>4, <2>1, <2>2, <2>3
  <1>5. History(h, t)
    BY <1>3, <1>4 DEF History
  <1> QED
    BY <1>1, <1>5

LEMMA LaterHistory ==
  ASSUME NEW t \in Nat, NEW u \in Nat, t <= u, NEW g \in Seq(Grant), History(g, t)
  PROVE  History(g, u)
  <1>1. ASSUME NEW i \in 1 .. Len(g) PROVE g[i].at <= u
    <2>1. g[i].at \in Nat /\ g[i].at <= t
      <3>1. g[i] \in Grant
        BY ElementIsGrant
      <3> QED
        BY <3>1 DEF History, Grant
    <2> QED
      BY <2>1
  <1> QED
    BY <1>1 DEF History

-----------------------------------------------------------------------------
(* The bound from the invariant.                                            *)

LEMMA HistoryBoundsBursts ==
  ASSUME IInv PROVE BurstBound
  <1>1. SUFFICES ASSUME NEW c \in Client, NEW i \in 1 .. (Len(granted[c]) - 2 * Limit)
                 PROVE  granted[c][i + 2 * Limit].at - granted[c][i].at >= Minute - MaxLag
    BY DEF BurstBound
  <1> DEFINE g == granted[c]
             j == i + 2 * Limit
  <1>2. g \in Seq(Grant) /\ History(g, clock)
    BY DEF IInv, TypeOK
  <1>3. i \in 1 .. Len(g) /\ j \in 1 .. Len(g) /\ i <= j /\ j - i = 2 * Limit
    BY <1>2, LimiterAssumption
  <1>4. PICK a, b : a = g[i] /\ b = g[j]
    OBVIOUS
  <1>5. /\ a \in Grant /\ b \in Grant /\ a.nth \in 1 .. Limit /\ b.nth \in 1 .. Limit
        /\ Follows(a, b, 2 * Limit)
    <2>1. a \in Grant /\ b \in Grant
      BY <1>2, <1>3, <1>4, ElementIsGrant
    <2>2. a.nth \in 1 .. Limit /\ b.nth \in 1 .. Limit
      BY <1>2, <1>3, <1>4 DEF History
    <2>3. Follows(a, b, j - i)
      BY <1>2, <1>3, <1>4 DEF History
    <2> QED
      BY <1>3, <2>1, <2>2, <2>3
  <1>6. b.at - a.at >= Minute - MaxLag
    <2> HIDE DEF g, j
    <2>1. /\ a.window \in Nat /\ b.window \in Nat /\ a.nth \in Nat /\ b.nth \in Nat
          /\ 1 <= a.nth /\ b.nth <= Limit
      BY <1>5, LimiterAssumption DEF Grant
    <2>2. a.window # b.window
      BY <1>5, <2>1, LimiterAssumption DEF Follows
    <2>3. b.window # a.window + 1
      BY <1>5, <2>1, LimiterAssumption DEF Follows
    <2>4. b.window >= a.window + 2
      <3>1. a.window <= b.window
        BY <1>5 DEF Follows
      <3> QED
        BY <2>1, <2>2, <2>3, <3>1
    <2> QED
      BY <1>5, <2>4 DEF Follows
  <1> QED
    BY <1>4, <1>6

-----------------------------------------------------------------------------
(* The steps.                                                               *)

LEMMA InitEstablishesIInv ==
  ASSUME Init PROVE IInv
  BY LimiterAssumption
     DEF Init, IInv, TypeOK, Window, NoWindow, Callers, Idle, CallersInv, History,
         WindowInv

(* A grant to the client of k, as the last of its history.                  *)
LEMMA GrantType ==
  ASSUME IInv, NEW k \in Caller, caller[k].pc = "read"
  PROVE  /\ caller[k].client \in Client
         /\ caller[k].now \in Nat /\ caller[k].now <= clock
         /\ clock - caller[k].now <= MaxLag
         /\ granted[caller[k].client] \in Seq(Grant)
         /\ clock \in Nat
  BY DEF IInv, TypeOK, CallersInv, Callers

LEMMA LastIsGrant ==
  ASSUME IInv, NEW c \in Client, granted[c] # <<>>
  PROVE  /\ LastGrant(c) \in Grant
         /\ LastGrant(c).nth \in 1 .. Limit
         /\ LastGrant(c).opened <= LastGrant(c).at
         /\ LastGrant(c).at <= clock
         /\ Len(granted[c]) \in Nat \ {0}
  <1>1. granted[c] \in Seq(Grant) /\ History(granted[c], clock)
    BY DEF IInv, TypeOK
  <1>2. Len(granted[c]) \in 1 .. Len(granted[c])
    BY <1>1
  <1> QED
    BY <1>1, <1>2 DEF History, LastGrant

(* The last grant of a client follows each of its grants.                   *)
LEMMA LastFollows ==
  ASSUME IInv, NEW c \in Client, NEW i \in 1 .. Len(granted[c])
  PROVE  Follows(granted[c][i], LastGrant(c), Len(granted[c]) - i)
  <1>1. PICK g : g = granted[c]
    OBVIOUS
  <1>2. g \in Seq(Grant) /\ History(g, clock)
    BY <1>1 DEF IInv, TypeOK
  <1>3. i \in 1 .. Len(g) /\ Len(g) \in 1 .. Len(g) /\ i <= Len(g)
    BY <1>1, <1>2
  <1>4. Follows(g[i], g[Len(g)], Len(g) - i)
    BY <1>2, <1>3 DEF History
  <1> QED
    BY <1>1, <1>4 DEF LastGrant

(* The window of c is over for a caller with time now only long after it    *)
(* was opened.                                                              *)
LEMMA OverIsLongAgo ==
  ASSUME IInv, NEW c \in Client, c \in Tracked, NEW now \in Nat, now <= clock,
         Over(c, now)
  PROVE  /\ granted[c] # <<>>
         /\ clock - LastGrant(c).opened >= Minute - MaxLag
  <1>1. granted[c] # <<>>
    BY DEF IInv, WindowInv, Tracked
  <1>2. LastGrant(c).opened \in Nat /\ windows[c].started \in Nat /\ clock \in Nat
    BY <1>1, LastIsGrant DEF IInv, TypeOK, Window, Grant
  <1> QED
    BY <1>1, <1>2, LimiterAssumption DEF IInv, WindowInv, Tracked, Over

(* What the sweep leaves of a client's window.                              *)
LEMMA SweepKeeps ==
  ASSUME IInv, NEW k \in Caller, caller[k].pc = "read", NEW c \in Client
  PROVE  /\ Swept(k) \in [Client -> Window]
         /\ \/ Swept(k)[c] = windows[c]
            \/ /\ Swept(k)[c].requests = 0
               /\ granted[c] # <<>> => clock - LastGrant(c).opened >= Minute - MaxLag
  <1>1. windows \in [Client -> Window] /\ NoWindow \in Window
    BY LimiterAssumption DEF IInv, TypeOK, Window, NoWindow
  <1>2. Swept(k) \in [Client -> Window]
    BY <1>1 DEF Swept
  <1>3. CASE Swept(k)[c] = windows[c]
    BY <1>2, <1>3
  <1>4. CASE Swept(k)[c] # windows[c]
    <2>1. Swept(k)[c] = NoWindow /\ Over(c, caller[k].now)
      BY <1>1, <1>4 DEF Swept
    <2>2. CASE c \in Tracked
      BY <1>2, <2>1, <2>2, GrantType, OverIsLongAgo DEF NoWindow
    <2>3. CASE c \notin Tracked
      BY <1>2, <2>1, <2>3 DEF NoWindow, IInv, WindowInv, Tracked
    <2> QED
      BY <2>2, <2>3
  <1> QED
    BY <1>3, <1>4

LEMMA ReturnKeepsCallers ==
  ASSUME IInv, NEW k \in Caller, Return(k), clock' = clock
  PROVE  caller' \in [Caller -> Callers] /\ CallersInv'
  BY DEF IInv, TypeOK, CallersInv, Return, Idle, Callers

LEMMA RefuseUntrackedKeeps ==
  ASSUME IInv, NEW k \in Caller, RefuseUntracked(k) PROVE IInv'
  <1>1. caller[k].pc = "read" /\ UNCHANGED <<clock, granted>> /\ windows' = Swept(k)
    BY DEF RefuseUntracked
  <1>2. caller' \in [Caller -> Callers] /\ CallersInv'
    BY <1>1, ReturnKeepsCallers DEF RefuseUntracked
  <1>3. ASSUME NEW c \in Client PROVE History(granted[c], clock)' /\ WindowInv(c)'
    <2>1. History(granted[c], clock)'
      BY <1>1 DEF IInv, History
    <2>2. WindowInv(c)'
      BY <1>1, SweepKeeps DEF IInv, WindowInv, LastGrant
    <2> QED
      BY <2>1, <2>2
  <1>4. TypeOK'
    <2>1. caller[k].client \in Client
      BY <1>1, GrantType
    <2>2. Swept(k) \in [Client -> Window]
      BY <1>1, <2>1, SweepKeeps
    <2> QED
      BY <1>1, <1>2, <2>2 DEF IInv, TypeOK
  <1> QED
    BY <1>2, <1>3, <1>4 DEF IInv

LEMMA OpenWindowKeeps ==
  ASSUME IInv, NEW k \in Caller, OpenWindow(k) PROVE IInv'
  <1>1. PICK c, now : c = caller[k].client /\ now = caller[k].now
    OBVIOUS
  <1>2. /\ c \in Client /\ now \in Nat /\ clock \in Nat /\ now <= clock
        /\ clock - now <= MaxLag /\ granted[c] \in Seq(Grant)
        /\ caller[k].pc = "read" /\ clock' = clock
    BY <1>1, GrantType DEF OpenWindow
  <1>3. PICK e : e = [at |-> clock, opened |-> clock,
                      window |-> NextWindow(c), nth |-> 1]
    OBVIOUS
  <1>4. PICK w : w = [started |-> now, requests |-> 1]
    OBVIOUS
  <1>5. /\ windows' = [Swept(k) EXCEPT ![c] = w]
        /\ granted' = [granted EXCEPT ![c] = Append(granted[c], e)]
        /\ Return(k)
    BY <1>1, <1>3, <1>4 DEF OpenWindow
  <1>6. /\ windows \in [Client -> Window] /\ granted \in [Client -> Seq(Grant)]
        /\ Swept(k) \in [Client -> Window]
    BY <1>2, SweepKeeps DEF IInv, TypeOK
  <1>7. granted[c] # <<>> => clock - LastGrant(c).opened >= Minute - MaxLag
    <2>1. CASE c \in Tracked
      BY <1>1, <1>2, <2>1, OverIsLongAgo DEF OpenWindow
    <2>2. CASE c \notin Tracked
      BY <1>2, <2>2 DEF IInv, WindowInv, Tracked
    <2> QED
      BY <2>1, <2>2
  <1>8. e \in Grant /\ w \in Window
    BY <1>2, <1>3, <1>4, LastIsGrant, LimiterAssumption DEF Grant, Window, NextWindow
  <1>9. \A i \in 1 .. Len(granted[c]) : Follows(granted[c][i], e, Len(granted[c]) + 1 - i)
    <2>1. SUFFICES ASSUME NEW i \in 1 .. Len(granted[c])
                   PROVE  Follows(granted[c][i], e, Len(granted[c]) + 1 - i)
      OBVIOUS
    <2>2. PICK n, a, b : n = Len(granted[c]) /\ a = granted[c][i] /\ b = LastGrant(c)
      OBVIOUS
    <2>3. granted[c] # <<>> /\ n \in Nat /\ i \in 1 .. n
      BY <1>2, <2>2
    <2>4. a \in Grant /\ b \in Grant /\ b.nth <= Limit /\ b.opened <= b.at /\ b.at <= clock
      <3>1. a \in Grant
        BY <1>2, <2>2, <2>3, ElementIsGrant
      <3>2. b.nth \in 1 .. Limit
        BY <1>2, <2>2, <2>3, LastIsGrant
      <3> QED
        BY <1>2, <2>2, <2>3, <3>1, <3>2, LastIsGrant, LimiterAssumption
    <2>5. Follows(a, b, n - i)
      BY <1>2, <2>2, LastFollows
    <2>6. /\ e.window = b.window + 1 /\ e.opened = e.at /\ e.nth = 1 /\ e.at = clock
          /\ e.at - b.opened >= Minute - MaxLag
      BY <1>3, <1>7, <2>2, <2>3 DEF NextWindow
    <2>7. Follows(a, e, (n - i) + 1)
      BY <1>8, <2>3, <2>4, <2>5, <2>6, OpenFollows
    <2>8. (n - i) + 1 = n + 1 - i
      BY <2>3
    <2> QED
      BY <2>2, <2>7, <2>8
  <1>10. ASSUME NEW d \in Client PROVE History(granted[d], clock)' /\ WindowInv(d)'
    <2>1. CASE d = c
      <3>1. granted'[d] = Append(granted[c], e) /\ windows'[d] = w
        BY <1>5, <1>6, <2>1
      <3>2. History(Append(granted[c], e), clock)
        <4>1. History(granted[c], clock)
          BY <1>2 DEF IInv
        <4>2. e.nth \in 1 .. Limit /\ e.opened <= e.at /\ e.at <= clock
          BY <1>2, <1>3, LimiterAssumption
        <4> QED
          BY <1>2, <1>8, <1>9, <4>1, <4>2, AppendHistory
      <3>3. History(granted[d], clock)'
        BY <1>2, <3>1, <3>2
      <3>4. LastGrant(d)' = e /\ granted'[d] # <<>>
        BY <1>2, <1>8, <3>1 DEF LastGrant
      <3> QED
        BY <1>2, <1>3, <1>4, <3>1, <3>3, <3>4 DEF WindowInv
    <2>2. CASE d # c
      <3>1. granted'[d] = granted[d] /\ windows'[d] = Swept(k)[d]
        BY <1>5, <1>6, <2>2
      <3>2. History(granted[d], clock)'
        BY <1>2, <3>1 DEF IInv
      <3>3. LastGrant(d)' = LastGrant(d)
        BY <3>1 DEF LastGrant
      <3>4. WindowInv(d)
        BY DEF IInv
      <3> QED
        BY <1>2, <3>1, <3>2, <3>3, <3>4, SweepKeeps DEF WindowInv
    <2> QED
      BY <2>1, <2>2
  <1>11. caller' \in [Caller -> Callers] /\ CallersInv'
    BY <1>2, <1>5, ReturnKeepsCallers
  <1>12. TypeOK'
    BY <1>2, <1>5, <1>6, <1>8, <1>11 DEF TypeOK
  <1> QED
    BY <1>10, <1>11, <1>12 DEF IInv

LEMMA SpendBudgetKeeps ==
  ASSUME IInv, NEW k \in Caller, SpendBudget(k) PROVE IInv'
  <1>1. PICK c : c = caller[k].client
    OBVIOUS
  <1>2. /\ c \in Client /\ clock \in Nat /\ granted[c] \in Seq(Grant)
        /\ caller[k].pc = "read" /\ clock' = clock
    BY <1>1, GrantType DEF SpendBudget, InWindow
  <1>3. PICK b : b = LastGrant(c)
    OBVIOUS
  <1>4. /\ c \in Tracked /\ windows[c].requests < Limit /\ granted[c] # <<>>
        /\ b.nth = windows[c].requests
    BY <1>1, <1>2, <1>3
       DEF SpendBudget, InWindow, HasBudget, IInv, WindowInv, Tracked
  <1>5. /\ b \in Grant /\ b.nth \in 1 .. Limit /\ b.opened <= b.at /\ b.at <= clock
        /\ Len(granted[c]) \in Nat \ {0}
    BY <1>2, <1>3, <1>4, LastIsGrant
  <1>6. PICK e : e = [b EXCEPT !.at = clock, !.nth = @ + 1]
    OBVIOUS
  <1>7. /\ e \in Grant /\ e.window = b.window /\ e.opened = b.opened
        /\ e.nth = b.nth + 1 /\ e.at = clock
    <2>1. /\ b.opened \in Nat /\ b.window \in Nat /\ b.nth \in Nat
          /\ b = [at |-> b.at, opened |-> b.opened, window |-> b.window, nth |-> b.nth]
      BY <1>5 DEF Grant
    <2>2. e = [at |-> clock, opened |-> b.opened, window |-> b.window, nth |-> b.nth + 1]
      BY <1>6, <2>1
    <2> QED
      BY <1>2, <2>1, <2>2 DEF Grant
  <1>8. /\ windows' = [windows EXCEPT ![c].requests = @ + 1]
        /\ granted' = [granted EXCEPT ![c] = Append(granted[c], e)]
        /\ Return(k)
    BY <1>1, <1>3, <1>6 DEF SpendBudget
  <1>9. windows \in [Client -> Window] /\ granted \in [Client -> Seq(Grant)]
    BY DEF IInv, TypeOK
  <1>10. \A i \in 1 .. Len(granted[c]) : Follows(granted[c][i], e, Len(granted[c]) + 1 - i)
    <2>1. SUFFICES ASSUME NEW i \in 1 .. Len(granted[c])
                   PROVE  Follows(granted[c][i], e, Len(granted[c]) + 1 - i)
      OBVIOUS
    <2>2. PICK n, a : n = Len(granted[c]) /\ a = granted[c][i]
      OBVIOUS
    <2>3. n \in Nat /\ i \in 1 .. n /\ a \in Grant
      BY <1>2, <2>2, ElementIsGrant
    <2>4. Follows(a, b, n - i)
      BY <1>2, <1>3, <2>2, LastFollows
    <2>5. Follows(a, e, (n - i) + 1)
      BY <1>5, <1>7, <2>3, <2>4, SpendFollows
    <2>6. (n - i) + 1 = n + 1 - i
      BY <2>3
    <2> QED
      BY <2>2, <2>5, <2>6
  <1>11. ASSUME NEW d \in Client PROVE History(granted[d], clock)' /\ WindowInv(d)'
    <2>1. CASE d = c
      <3>1. /\ granted'[d] = Append(granted[c], e)
            /\ windows'[d] = [windows[c] EXCEPT !.requests = @ + 1]
        BY <1>8, <1>9, <2>1
      <3>2. History(Append(granted[c], e), clock)
        <4>1. History(granted[c], clock)
          BY <1>2 DEF IInv
        <4>2. e.nth \in 1 .. Limit /\ e.opened <= e.at /\ e.at <= clock
          BY <1>2, <1>4, <1>5, <1>7, LimiterAssumption DEF Grant
        <4> QED
          BY <1>2, <1>7, <1>10, <4>1, <4>2, AppendHistory
      <3>3. History(granted[d], clock)'
        BY <1>2, <3>1, <3>2
      <3>4. LastGrant(d)' = e /\ granted'[d] # <<>>
        BY <1>2, <1>7, <3>1 DEF LastGrant
      <3>5. /\ windows'[d].requests = windows[c].requests + 1
            /\ windows'[d].started = windows[c].started
            /\ windows[c].requests \in Nat
        BY <1>2, <1>9, <3>1 DEF Window
      <3>6. windows[c].started <= b.opened /\ b.opened - windows[c].started <= MaxLag
        BY <1>2, <1>3, <1>4 DEF IInv, WindowInv, Tracked
      <3> QED
        BY <1>4, <1>7, <3>3, <3>4, <3>5, <3>6 DEF WindowInv
    <2>2. CASE d # c
      <3>1. granted'[d] = granted[d] /\ windows'[d] = windows[d]
        BY <1>8, <1>9, <2>2
      <3> QED
        BY <1>2, <3>1 DEF IInv, WindowInv, LastGrant
    <2> QED
      BY <2>1, <2>2
  <1>12. caller' \in [Caller -> Callers] /\ CallersInv'
    BY <1>2, <1>8, ReturnKeepsCallers
  <1>13. TypeOK'
    <2>1. windows' \in [Client -> Window]
      <3>1. windows[c].requests + 1 \in 0 .. Limit
        BY <1>2, <1>4, <1>9, LimiterAssumption DEF Window
      <3> QED
        BY <1>2, <1>8, <1>9, <3>1 DEF Window
    <2>2. granted' \in [Client -> Seq(Grant)]
      BY <1>2, <1>7, <1>8, <1>9
    <2> QED
      BY <1>2, <1>12, <2>1, <2>2 DEF TypeOK
  <1> QED
    BY <1>11, <1>12, <1>13 DEF IInv

LEMMA QuietStepKeeps ==
  ASSUME IInv, NEW k \in Caller, ReadClock(k) \/ RefuseSpent(k) PROVE IInv'
  <1>1. UNCHANGED <<clock, windows, granted>>
    BY DEF ReadClock, RefuseSpent
  <1>2. caller' \in [Caller -> Callers] /\ CallersInv'
    <2>1. CASE ReadClock(k)
      BY <2>1, LimiterAssumption DEF ReadClock, IInv, TypeOK, Callers, CallersInv
    <2>2. CASE RefuseSpent(k)
      BY <1>1, <2>2, ReturnKeepsCallers DEF RefuseSpent
    <2> QED
      BY <2>1, <2>2
  <1>3. ASSUME NEW c \in Client PROVE History(granted[c], clock)' /\ WindowInv(c)'
    BY <1>1 DEF IInv, WindowInv, LastGrant
  <1> QED
    BY <1>1, <1>2, <1>3 DEF IInv, TypeOK

LEMMA TickKeeps ==
  ASSUME IInv, Tick PROVE IInv'
  <1>1. /\ clock \in Nat /\ clock' = clock + 1 /\ UNCHANGED <<windows, caller, granted>>
        /\ caller \in [Caller -> Callers]
    BY DEF Tick, IInv, TypeOK
  <1>2. CallersInv'
    BY <1>1, LimiterAssumption DEF Tick, IInv, CallersInv, Callers
  <1>3. ASSUME NEW c \in Client PROVE History(granted[c], clock)' /\ WindowInv(c)'
    <2>1. granted[c] \in Seq(Grant) /\ History(granted[c], clock) /\ WindowInv(c)
      BY DEF IInv, TypeOK
    <2>2. History(granted[c], clock + 1)
      BY <1>1, <2>1, LaterHistory
    <2>3. granted[c] # <<>> => LastGrant(c).opened \in Nat
      BY LastIsGrant DEF Grant
    <2>4. LastGrant(c)' = LastGrant(c)
      BY <1>1 DEF LastGrant
    <2>5. WindowInv(c)'
      BY <1>1, <2>1, <2>3, <2>4, LimiterAssumption DEF WindowInv
    <2> QED
      BY <1>1, <2>2, <2>5
  <1> QED
    BY <1>1, <1>2, <1>3 DEF IInv, TypeOK

LEMMA NextKeepsIInv ==
  ASSUME IInv, [Next]_vars PROVE IInv'
  <1>1. CASE UNCHANGED vars
    BY <1>1 DEF vars, IInv, TypeOK, CallersInv, WindowInv, LastGrant
  <1> QED
    BY <1>1, QuietStepKeeps, RefuseUntrackedKeeps, OpenWindowKeeps, SpendBudgetKeeps,
       TickKeeps DEF Next

(* IInv, and with it the type invariant, holds of every behaviour.          *)
THEOREM InductiveInvariant == Spec => []IInv
  BY InitEstablishesIInv, NextKeepsIInv, PTL DEF Spec

(* A window never counts more than the limit and a request let through is   *)
(* the nth of its window with nth from 1 (api/rate_limit.go:33-60).         *)
THEOREM TypesHold == Spec => []TypeOK
  <1>1. IInv => TypeOK
    BY DEF IInv
  <1> QED
    BY <1>1, InductiveInvariant, PTL

(* No client gets more than twice its budget in Minute - MaxLag, whatever   *)
(* goroutines wait and whatever windows are swept (api/rate_limit.go:33-60).*)
THEOREM BudgetHolds == Spec => []BurstBound
  BY InductiveInvariant, HistoryBoundsBursts, PTL

-----------------------------------------------------------------------------
(* The size of the map.                                                     *)

TrackedInv == IsFiniteSet(Tracked) /\ TrackedBound

LEMMA SmallerIsTracked ==
  ASSUME TrackedInv, NEW S, S \subseteq Tracked
  PROVE  IsFiniteSet(S) /\ Cardinality(S) \in Nat /\ Cardinality(S) <= MaxTracked
  <1>1. IsFiniteSet(S) /\ Cardinality(S) <= Cardinality(Tracked)
    BY FS_Subset DEF TrackedInv
  <1>2. Cardinality(S) \in Nat /\ Cardinality(Tracked) \in Nat
    BY <1>1, FS_CardinalityType DEF TrackedInv
  <1> QED
    BY <1>1, <1>2, LimiterAssumption DEF TrackedInv, TrackedBound

LEMMA OneMoreIsTracked ==
  ASSUME TrackedInv, NEW S, S \subseteq Tracked, Cardinality(S) < MaxTracked,
         NEW c, Tracked' = S \cup {c}
  PROVE  TrackedInv'
  <1>1. IsFiniteSet(S) /\ Cardinality(S) \in Nat
    BY SmallerIsTracked
  <1>2. IsFiniteSet(S \cup {c}) /\ Cardinality(S \cup {c}) <= Cardinality(S) + 1
    BY <1>1, FS_AddElement
  <1>3. Cardinality(S \cup {c}) \in Nat
    BY <1>2, FS_CardinalityType
  <1> QED
    BY <1>1, <1>2, <1>3, LimiterAssumption DEF TrackedInv, TrackedBound

LEMMA FewerAreTracked ==
  ASSUME TrackedInv, Tracked' \subseteq Tracked PROVE TrackedInv'
  <1>1. PICK S : S = Tracked'
    OBVIOUS
  <1>2. IsFiniteSet(S) /\ Cardinality(S) <= MaxTracked
    BY <1>1, SmallerIsTracked
  <1> QED
    BY <1>1, <1>2 DEF TrackedInv, TrackedBound

(* The sweep leaves the live windows.                                       *)
LEMMA SweepTracks ==
  ASSUME IInv, NEW k \in Caller
  PROVE  {c \in Client : Swept(k)[c].requests # 0}
           = IF Sweeps(k) THEN Live(caller[k].now) ELSE Tracked
  <1>1. CASE Sweeps(k)
    <2>1. \A c \in Client : Swept(k)[c].requests # 0
                              <=> ~Over(c, caller[k].now) /\ windows[c].requests # 0
      BY <1>1 DEF Swept, NoWindow
    <2> QED
      BY <1>1, <2>1 DEF Live, Tracked
  <1>2. CASE ~Sweeps(k)
    BY <1>2 DEF Swept, Tracked
  <1> QED
    BY <1>1, <1>2

LEMMA StepKeepsTracked ==
  ASSUME IInv, TrackedInv, [Next]_vars PROVE TrackedInv'
  <1>1. ASSUME UNCHANGED windows PROVE TrackedInv'
    <2>1. Tracked' \subseteq Tracked
      BY <1>1 DEF Tracked
    <2> QED
      BY <2>1, FewerAreTracked
  <1>2. ASSUME NEW k \in Caller, RefuseUntracked(k) PROVE TrackedInv'
    <2>1. Tracked' \subseteq Tracked
      BY <1>2, SweepTracks DEF RefuseUntracked, Tracked, Live
    <2> QED
      BY <2>1, FewerAreTracked
  <1>3. ASSUME NEW k \in Caller, SpendBudget(k) PROVE TrackedInv'
    <2>1. Tracked' \subseteq Tracked
      BY <1>3 DEF SpendBudget, InWindow, Tracked, IInv, TypeOK, Window
    <2> QED
      BY <2>1, FewerAreTracked
  <1>4. ASSUME NEW k \in Caller, OpenWindow(k) PROVE TrackedInv'
    <2>1. PICK c, S : /\ c = caller[k].client
                      /\ S = IF Sweeps(k) THEN Live(caller[k].now) ELSE Tracked
      OBVIOUS
    <2>2. c \in Client /\ S \subseteq Tracked /\ Swept(k) \in [Client -> Window]
      BY <1>4, <2>1, GrantType, SweepKeeps DEF OpenWindow, Live
    <2>3. Tracked' = S \cup {c}
      <3>1. \A d \in Client : windows'[d].requests # 0
                                <=> d = c \/ Swept(k)[d].requests # 0
        BY <1>4, <2>1, <2>2 DEF OpenWindow
      <3> QED
        BY <2>1, <2>2, <3>1, SweepTracks DEF Tracked
    <2>4. CASE c \in Tracked
      <3>1. S = Tracked
        BY <2>1, <2>4 DEF Sweeps
      <3> QED
        BY <2>3, <2>4, <3>1, FewerAreTracked
    <2>5. CASE c \notin Tracked
      <3>1. Cardinality(S) < MaxTracked
        <4>1. CASE Sweeps(k)
          BY <1>4, <2>1, <2>5, <4>1 DEF OpenWindow, Room
        <4>2. CASE ~Sweeps(k)
          <5>1. Cardinality(Tracked) \in Nat /\ ~(Cardinality(Tracked) >= MaxTracked)
            BY <2>1, <2>5, <4>2, FS_CardinalityType DEF Sweeps, TrackedInv
          <5> QED
            BY <2>1, <4>2, <5>1, LimiterAssumption
        <4> QED
          BY <4>1, <4>2
      <3> QED
        BY <2>2, <2>3, <3>1, OneMoreIsTracked
    <2> QED
      BY <2>4, <2>5
  <1> QED
    BY <1>1, <1>2, <1>3, <1>4 DEF Next, ReadClock, RefuseSpent, Tick, vars

(* The map of windows never outgrows its limit (api/rate_limit.go:38-47).   *)
THEOREM MapIsBounded == Spec => []TrackedBound
  <1>1. Init => TrackedInv
    <2>1. Init => Tracked = {}
      BY DEF Init, Tracked, NoWindow
    <2> QED
      BY <2>1, FS_EmptySet, LimiterAssumption DEF TrackedInv, TrackedBound
  <1>2. IInv /\ TrackedInv /\ [Next]_vars => TrackedInv'
    BY StepKeepsTracked
  <1> QED
    BY <1>1, <1>2, InductiveInvariant, PTL DEF Spec, TrackedInv

=============================================================================

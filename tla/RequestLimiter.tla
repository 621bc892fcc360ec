---------------------------- MODULE RequestLimiter ----------------------------
(***************************************************************************)
(* api.RequestLimiter: the fixed-window budget of every client of the      *)
(* public API.  Request goroutines call Allow concurrently.  Allow reads   *)
(* the clock BEFORE it takes the mutex, so a goroutine that waits decides  *)
(* with a time in the past, after others decided with a later one, and     *)
(* perhaps after they deleted the very window it would have been counted   *)
(* in.  The body under the mutex is one action.                            *)
(***************************************************************************)
EXTENDS Integers, Sequences, FiniteSets

CONSTANTS
    Client,         \* client keys
    NoClient,       \* the client of a goroutine that is not in Allow
    Caller,         \* goroutines that may be inside Allow
    Limit,          \* requests per window (PUBLIC_REQUESTS_PER_MINUTE)
    Minute,         \* the length of a window, in ticks
    MaxTracked,     \* maxTrackedClients
    MaxLag,         \* longest time from the clock read to the mutex, in ticks
    MaxClock        \* bound: the clock stops here

\* positiveEnv makes Limit positive (config/config.go:58).
ASSUME LimiterAssumption ==
    /\ NoClient \notin Client
    /\ Limit \in Nat \ {0}
    /\ Minute \in Nat
    /\ MaxTracked \in Nat
    /\ MaxLag \in Nat
    /\ MaxLag < Minute
    /\ MaxClock \in Nat

VARIABLES
    clock,          \* the monotonic clock
    windows,        \* windows[c]: the requestWindow of c
    caller,         \* caller[k]: a goroutine in Allow
    granted         \* granted[c]: the requests of c that were let through

vars == <<clock, windows, caller, granted>>

\* A window counts one request at least; requests = 0 is a client without an
\* entry in the map.
Window == [started : Nat, requests : 0 .. Limit]

NoWindow == [started |-> 0, requests |-> 0]

Callers == [pc : {"idle", "read"}, client : Client \cup {NoClient}, now : Nat]

Idle == [pc |-> "idle", client |-> NoClient, now |-> 0]

\* A request let through: when, and as which request of which window of the
\* client, opened when.  No part of the program; the properties speak of it.
Grant == [at : Nat, opened : Nat, window : Nat, nth : Nat]

TypeOK ==
    /\ clock \in Nat
    /\ windows \in [Client -> Window]
    /\ caller \in [Caller -> Callers]
    /\ granted \in [Client -> Seq(Grant)]

Init ==
    /\ clock = 0
    /\ windows = [c \in Client |-> NoWindow]
    /\ caller = [k \in Caller |-> Idle]
    /\ granted = [c \in Client |-> <<>>]

Tracked == {c \in Client : windows[c].requests # 0}

\* Variant: a window one tick short.
OverEarly(c, now) == now - windows[c].started >= Minute - 1

Over(c, now) == now - windows[c].started >= Minute

Live(now) == {c \in Tracked : ~Over(c, now)}

-----------------------------------------------------------------------------
(* Allow.                                                                   *)

ReadClock(k) ==
    /\ caller[k].pc = "idle"
    /\ \E c \in Client :
        caller' = [caller EXCEPT ![k] = [pc |-> "read", client |-> c, now |-> clock]]
    /\ UNCHANGED <<clock, windows, granted>>

Return(k) == caller' = [caller EXCEPT ![k] = Idle]

\* Variant: the map is full one client late.
SweepsLate(k) ==
    /\ caller[k].client \notin Tracked
    /\ Cardinality(Tracked) > MaxTracked

\* A client the full map does not know has the map swept first.
Sweeps(k) ==
    /\ caller[k].client \notin Tracked
    /\ Cardinality(Tracked) >= MaxTracked

\* The windows that the caller finds after the sweep.
Swept(k) ==
    IF Sweeps(k)
    THEN [c \in Client |-> IF Over(c, caller[k].now) THEN NoWindow ELSE windows[c]]
    ELSE windows

\* The map stays full: not let through.
RefuseUntracked(k) ==
    /\ caller[k].pc = "read"
    /\ Sweeps(k)
    /\ Cardinality(Live(caller[k].now)) >= MaxTracked
    /\ windows' = Swept(k)
    /\ Return(k)
    /\ UNCHANGED <<clock, granted>>

\* There is room for one more client.
Room(k) ==
    Sweeps(k) => Cardinality(Live(caller[k].now)) < MaxTracked

LastGrant(c) == granted[c][Len(granted[c])]

NextWindow(c) == IF granted[c] = <<>> THEN 1 ELSE LastGrant(c).window + 1

OpenWindow(k) ==
    LET c == caller[k].client
    IN  /\ caller[k].pc = "read"
        /\ IF c \in Tracked THEN Over(c, caller[k].now) ELSE Room(k)
        /\ windows' = [Swept(k) EXCEPT ![c] =
                         [started |-> caller[k].now, requests |-> 1]]
        /\ granted' = [granted EXCEPT ![c] =
                         Append(@, [at |-> clock, opened |-> clock,
                                    window |-> NextWindow(c), nth |-> 1])]
        /\ Return(k)
        /\ UNCHANGED clock

InWindow(k) ==
    /\ caller[k].pc = "read"
    /\ caller[k].client \in Tracked
    /\ ~Over(caller[k].client, caller[k].now)

\* Variant: the request over the limit is let through as well.
HasBudgetOffByOne(c) == windows[c].requests <= Limit

HasBudget(c) == windows[c].requests < Limit

SpendBudget(k) ==
    LET c == caller[k].client
    IN  /\ InWindow(k)
        /\ HasBudget(c)
        /\ windows' = [windows EXCEPT ![c].requests = @ + 1]
        /\ granted' = [granted EXCEPT ![c] =
                         Append(@, [LastGrant(c) EXCEPT !.at = clock,
                                                        !.nth = @ + 1])]
        /\ Return(k)
        /\ UNCHANGED clock

RefuseSpent(k) ==
    /\ InWindow(k)
    /\ ~HasBudget(caller[k].client)
    /\ Return(k)
    /\ UNCHANGED <<clock, windows, granted>>

\* The mutex is free again and again: no goroutine waits longer than MaxLag.
Tick ==
    /\ clock < MaxClock
    /\ \A k \in Caller : caller[k].pc = "read" => clock - caller[k].now < MaxLag
    /\ clock' = clock + 1
    /\ UNCHANGED <<windows, caller, granted>>

Next ==
    \/ \E k \in Caller : \/ ReadClock(k)
                         \/ RefuseUntracked(k) \/ OpenWindow(k)
                         \/ SpendBudget(k) \/ RefuseSpent(k)
    \/ Tick

Spec == Init /\ [][Next]_vars

-----------------------------------------------------------------------------
(* Properties.                                                              *)

\* What the budget amounts to, burst at a window's boundary included
\* (rate_limit.go:48): of 2 * Limit + 1 requests of a client that were let
\* through, the last came at least Minute - MaxLag after the first, whoever
\* waited for the mutex and whatever windows were swept in between.
BurstBound ==
    \A c \in Client : \A i \in 1 .. (Len(granted[c]) - 2 * Limit) :
        granted[c][i + 2 * Limit].at - granted[c][i].at >= Minute - MaxLag

\* The map never outgrows maxTrackedClients.
TrackedBound == Cardinality(Tracked) <= MaxTracked

-----------------------------------------------------------------------------
(* The inductive invariant behind BurstBound.                               *)

CallersInv ==
    \A k \in Caller : caller[k].pc = "read" => /\ caller[k].client \in Client
                                             /\ caller[k].now <= clock
                                             /\ clock - caller[k].now <= MaxLag

\* Grant b comes d grants after grant a of the same client.  Two windows are
\* the least that lies between grants that are 2 * Limit apart.
Follows(a, b, d) ==
    /\ a.window <= b.window
    /\ a.at <= b.at
    /\ a.window = b.window => d = b.nth - a.nth
    /\ a.window < b.window => a.at <= b.opened
    /\ b.window = a.window + 1 => d <= Limit - a.nth + b.nth
    /\ b.window >= a.window + 2 => b.at - a.at >= Minute - MaxLag

\* The grants of one client up to time t.
History(g, t) ==
    /\ \A i \in 1 .. Len(g) : /\ g[i].nth \in 1 .. Limit
                             /\ g[i].opened <= g[i].at
                             /\ g[i].at <= t
    /\ \A i, j \in 1 .. Len(g) : i <= j => Follows(g[i], g[j], j - i)

\* The entry in the map and the last grant agree; a client without an entry
\* had its last window opened long enough ago.
WindowInv(c) ==
    LET w == windows[c]
        last == LastGrant(c)
    IN  /\ w.requests # 0 => /\ granted[c] # <<>>
                             /\ last.nth = w.requests
                             /\ w.started <= last.opened
                             /\ last.opened - w.started <= MaxLag
        /\ w.requests = 0 /\ granted[c] # <<>> =>
             clock - last.opened >= Minute - MaxLag

IInv ==
    /\ TypeOK
    /\ CallersInv
    /\ \A c \in Client : History(granted[c], clock) /\ WindowInv(c)

=============================================================================

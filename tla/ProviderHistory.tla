--------------------------- MODULE ProviderHistory ---------------------------
(***************************************************************************)
(* What the adapters of every chain share: the lists a provider keeps of   *)
(* one address, newest first, the two ways providers page through a list,  *)
(* and the page of transfers an adapter makes of an answer.                *)
(*                                                                         *)
(* An entry is what a provider lists as one item, of which `parts`         *)
(* transfers touch the address.  Entries of one `print` look the same to   *)
(* the adapter; a "broken" one lacks a field the adapter insists on.  A    *)
(* page is the set of places it takes up in a list.                        *)
(***************************************************************************)
EXTENDS Naturals, Sequences, FiniteSets

CONSTANT Limit  \* transfers the client asks for: the limit of a trace

ASSUME LimitAssumption == Limit \in Nat \ {0}

Entries == [n : Nat \ {0}, tx : Nat, block : Nat, parts : Nat, print : Nat,
            shape : {"plain", "broken"}]

-----------------------------------------------------------------------------
(* Providers.                                                              *)

\* Numbered pages of `size` entries: the first k of page p.
Numbered(h, p, size, k) ==
    {i \in DOMAIN h : (p - 1) * size < i /\ i <= (p - 1) * size + k}

\* Keyset pages: a token is the last entry of the page before, 0 at the start.
Position(h, token) == IF token = 0 THEN 0 ELSE CHOOSE i \in DOMAIN h : h[i].n = token

Following(h, token, size) ==
    {i \in DOMAIN h : Position(h, token) < i /\ i <= Position(h, token) + size}

\* The token of the page after it; 0 when nothing is left.
NextToken(h, token, size) ==
    LET last == Position(h, token) + size
    IN  IF last < Len(h) THEN h[last].n ELSE 0

-----------------------------------------------------------------------------
(* Adapters.                                                               *)

Broken(h, places) == \E i \in places : h[i].shape = "broken"

\* TransferItem: part i of an entry, under the transfer id made of the
\* transaction and the adapter's event id.
TransferItem(e, i, eventID) ==
    [n |-> e.n, part |-> i, block |-> e.block, id |-> <<e.tx, eventID>>]

\* The parts of a page's entries, by the entry's place and the place in it, and
\* the transfers they are, with the event id of each.
Parts(h, places) == UNION {{i} \X (1 .. h[i].parts) : i \in places}

Transfers(h, places, eventID) ==
    {TransferItem(h[q[1]], q[2], eventID[q]) : q \in Parts(h, places)}

\* sortTransfers: newest block first.
SortsBefore(t, u) ==
    \/ t.block > u.block
    \/ t.block = u.block /\ (t.n < u.n \/ (t.n = u.n /\ t.part < u.part))

\* The sources' transfers merged and cut to k; what two sources list counts twice.
MergedFirst(items, k) ==
    LET merged == UNION {{s} \X items[s] : s \in DOMAIN items}
    IN  {t \in UNION {items[s] : s \in DOMAIN items} :
            Cardinality({m \in merged : SortsBefore(m[2], t)}) < k}

\* PageStatus: a page with a cursor is not complete.
PageStatus(complete, more) == complete /\ ~more

\* A page without one of its sources carries a warning.
TransferPage(transfers, more, next, warned) ==
    [ok |-> TRUE, transfers |-> transfers, more |-> more, next |-> next,
     warned |-> warned, complete |-> PageStatus(~warned, more)]

Failed == [ok |-> FALSE, transfers |-> {}, more |-> FALSE, next |-> 0,
           warned |-> FALSE, complete |-> FALSE]

=============================================================================

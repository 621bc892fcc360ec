----------------------------- MODULE LabelRegistry -----------------------------
(***************************************************************************)
(* The curated labels (labels/service.go, db/labels.go): every process of  *)
(* the backend imports the seed it was built with, in one transaction,     *)
(* into tables that only grow; a query shows the assertions that are       *)
(* current.                                                                *)
(*                                                                         *)
(* A seed is a sequence of items [key, version, evidence, supersedes,      *)
(* state, from, to, sound]: `supersedes` is the id of another assertion or *)
(* NoID, `to` is 0 when the item does not end, and an item that is not     *)
(* sound lacks a field or has an unknown category.                         *)
(***************************************************************************)
EXTENDS Integers, Sequences, FiniteSets

CONSTANTS
    Processes,  \* backend processes that start
    Seeds,      \* the seeds they were built with
    NoID,       \* the id of no assertion
    MaxNow      \* bound: days that pass

Items ==
    [key : STRING, version : STRING, evidence : STRING,
     supersedes : (STRING \X STRING) \cup {NoID}, state : STRING, from : Nat, to : Nat,
     sound : BOOLEAN]

ASSUME LabelAssumption ==
    NoID \notin STRING \X STRING /\ MaxNow \in Nat /\ Seeds \subseteq Seq(Items)

VARIABLES
    assertions,  \* label_assertions, committed
    import,      \* the transaction of a process
    imported,    \* seeds whose import has succeeded
    now

labelVars == <<assertions, import, imported, now>>

NoImport == [pc |-> "idle", seed |-> << >>, at |-> 1, rows |-> {}]

LabelInit ==
    /\ assertions = {}
    /\ import = [p \in Processes |-> NoImport]
    /\ imported = {}
    /\ now = 0

-----------------------------------------------------------------------------
(* Items and rows.                                                         *)

ID(item) == <<item.key, item.version>>

\* labelEvidenceSnapshot and its hash.
Hash(item) == <<item.evidence, item.version, item.supersedes>>

\* SeedLabels: what it accepts.
Valid(item) ==
    /\ item.sound
    /\ item.state \in {"approved", "rejected", "pending"}
    /\ item.to = 0 \/ item.to > item.from

Row(item) ==
    [id |-> ID(item), key |-> item.key, hash |-> Hash(item), supersedes |-> item.supersedes,
     state |-> item.state, from |-> item.from, to |-> item.to]

-----------------------------------------------------------------------------
(* Import.                                                                 *)

ReadSeed(p) ==
    /\ import[p].pc = "idle"
    /\ \E s \in Seeds :
        /\ \A i \in DOMAIN s : Valid(s[i])
        /\ import' = [import EXCEPT ![p] = [NoImport EXCEPT !.pc = "open", !.seed = s]]
    /\ UNCHANGED <<assertions, imported, now>>

\* What the transaction of p sees.
Visible(p) == assertions \cup import[p].rows

Item(p) == import[p].seed[import[p].at]

\* Rows other transactions have inserted under a unique key that the item has too:
\* the insert waits for their end.
Holders(p) ==
    {q \in Processes \ {p} : \E r \in import[q].rows :
        \/ r.id = ID(Item(p))
        \/ r.supersedes # NoID /\ r.supersedes = Item(p).supersedes}

InTransaction(p) == import[p].pc = "open" /\ import[p].at <= Len(import[p].seed)

Existing(p) == {r \in Visible(p) : r.id = ID(Item(p))}

Advance(p, rows) ==
    import' = [import EXCEPT ![p].at = @ + 1, ![p].rows = @ \cup rows]

\* The foreign key and the unique index of supersedes_id.
MayReplace(p) ==
    LET old == Item(p).supersedes
    IN  old # NoID => /\ \E r \in Visible(p) : r.id = old
                      /\ \A r \in Visible(p) : r.supersedes # old

InsertAssertion(p) ==
    /\ InTransaction(p) /\ Holders(p) = {} /\ Existing(p) = {}
    /\ MayReplace(p)
    /\ Advance(p, {Row(Item(p))})
    /\ UNCHANGED <<assertions, imported, now>>

\* ON CONFLICT DO NOTHING, and the stored evidence is the item's.
KeepAssertion(p) ==
    /\ InTransaction(p) /\ Holders(p) = {}
    /\ \E r \in Existing(p) : r.hash = Hash(Item(p))
    /\ Advance(p, {})
    /\ UNCHANGED <<assertions, imported, now>>

Close(p) == import' = [import EXCEPT ![p] = NoImport]

\* Different evidence, a constraint, a deadlock, a lost connection or a crash:
\* the transaction rolls back and the process ends (main: log.Fatalf).
Rollback(p) ==
    /\ import[p].pc = "open"
    /\ Close(p)
    /\ UNCHANGED <<assertions, imported, now>>

CommitImport(p) ==
    /\ import[p].pc = "open" /\ import[p].at > Len(import[p].seed)
    /\ assertions' = assertions \cup import[p].rows
    /\ imported' = imported \cup {import[p].seed}
    /\ Close(p)
    /\ UNCHANGED now

Tick ==
    /\ now < MaxNow
    /\ now' = now + 1
    /\ UNCHANGED <<assertions, import, imported>>

LabelNext ==
    \/ Tick
    \/ \E p \in Processes :
        ReadSeed(p) \/ InsertAssertion(p) \/ KeepAssertion(p) \/ Rollback(p) \/ CommitImport(p)

LabelSpec == LabelInit /\ [][LabelNext]_labelVars

-----------------------------------------------------------------------------
(* Queries.                                                                *)

\* Approved and in its time.
InForce(r) == r.state = "approved" /\ r.from <= now /\ (r.to = 0 \/ r.to > now)

\* Variant: rows replaced by one that is not in force are left out as well.
CurrentUnreplaced ==
    {r \in assertions : InForce(r) /\ \A s \in assertions : s.supersedes # r.id}

\* currentLabelPredicate, of GetCuratedLabels and SearchCuratedLabels.
Current ==
    {r \in assertions : InForce(r) /\ \A s \in assertions : s.supersedes = r.id => ~InForce(s)}

-----------------------------------------------------------------------------
(* Properties.                                                             *)

\* Types of the variables.
LabelTypeOK ==
    /\ \A r \in assertions : r.from \in Nat /\ r.to \in Nat
    /\ \A p \in Processes : import[p].pc \in {"idle", "open"} /\ import[p].at \in Nat \ {0}
    /\ imported \subseteq Seeds
    /\ now \in 0 .. MaxNow

\* However imports of several processes interleave, fail and are repeated, a seed
\* whose import succeeded has every item in the table with its evidence.
ImportsAgree ==
    \A s \in imported : \A i \in DOMAIN s :
        \E r \in assertions : r.id = ID(s[i]) /\ r.hash = Hash(s[i])

\* Ids that with an assertion's hold those of what it replaced.
Closed(ids) ==
    \A s, t \in assertions : s.id \in ids /\ s.supersedes = t.id => t.id \in ids

\* What stands behind an assertion: those it replaced, directly or not.
Replaced(r) ==
    LET all == {t.id : t \in assertions}
    IN  {id \in all : \A ids \in SUBSET all :
            Closed(ids) /\ (r.supersedes \in all => r.supersedes \in ids) => id \in ids}

\* Whenever some version of an assertion is in force something is shown for it:
\* that version or one that replaced it, directly or over several versions.
StandIn ==
    \A r \in assertions : InForce(r) => \E c \in Current : c.id = r.id \/ r.id \in Replaced(c)

\* InsertLabelAssertions and currentLabelPredicate (db/labels.go): whatever seeds are
\* imported in whatever order, and by several processes at a time, an import that ends
\* well has its seed stored, and a replaced assertion stands in when its replacement
\* is not in force.
LabelsHold == LabelTypeOK /\ ImportsAgree /\ StandIn

\* A version that was replaced is not shown next to the one that stands for it
\* (service_integration_test.go:76 expects the replacement alone).
ReplacedNotShown == \A r, s \in Current : s.id \notin Replaced(r)

\* "Displays reviewed, versioned entity assertions with their source evidence"
\* (README.md:15): what the seed imported last rejects is not shown.  Here every
\* process has one seed, and it is the newer one.
RejectedNotShown ==
    \A s \in imported : \A i \in DOMAIN s :
        s[i].state = "rejected" => \A r \in Current : r.id # ID(s[i])

=============================================================================

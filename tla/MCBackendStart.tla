--------------------------- MODULE MCBackendStart ---------------------------
(* What a release does to a database and then answers from it, for TLC: it    *)
(* migrates, imports its labels and serves lookups.  The three share no       *)
(* variable, so that a behaviour is about one of them, its `subject`, and the *)
(* others stay as they begin.                                                 *)
EXTENDS SchemaMigrations, LabelRegistry, ChainLookup, TLC

CONSTANTS p1, p2

VARIABLE subject    \* "migrations", "labels" or "lookups"

Symmetry == Permutations({p1, p2})

-----------------------------------------------------------------------------
(* Releases and ledgers.                                                    *)

M(v, sum) == [version |-> v, checksum |-> sum]

Original == <<M(1, "a"), M(2, "b"), M(3, "c")>>

\* This release, the next one, one that has edited the second migration and
\* one that has another fourth.
AllReleases ==
    {Original, Append(Original, M(4, "d")), <<M(1, "a"), M(2, "x"), M(3, "c")>>,
     Append(Original, M(4, "y"))}

KnownHistory == [v \in {1, 2} |-> IF v = 1 THEN "a" ELSE "b"]

\* Prefixes, and a ledger of unknown history.
LegacyLedgers == {<< >>, <<M(1, "a")>>, <<M(1, "a"), M(2, "b")>>, <<M(1, "a"), M(9, "z")>>}

-----------------------------------------------------------------------------
(* Seeds.                                                                   *)

Assertion(version, evidence, supersedes, state, from, to) ==
    [key |-> "router", version |-> version, evidence |-> evidence, supersedes |-> supersedes,
     state |-> state, from |-> from, to |-> to, sound |-> TRUE]

Approved(version, evidence, supersedes) ==
    Assertion(version, evidence, supersedes, "approved", 0, 0)

First == Approved("v1", "e1", NoID)

\* The first; one with a second version, in force from day 1; one with other
\* evidence under that version; one that is not sound; one that withdraws the
\* first version; one that replaces a version before it has it.
LabelSeeds ==
    { <<First>>,
      <<First, Assertion("v2", "e2", <<"router", "v1">>, "approved", 1, 0)>>,
      <<Assertion("v2", "e3", NoID, "approved", 0, 2), First>>,
      <<[Approved("v4", "e1", NoID) EXCEPT !.sound = FALSE]>>,
      <<Assertion("v1", "e1", NoID, "rejected", 0, 0)>>,
      <<Approved("v3", "e3", <<"router", "v1">>), First>> }

-----------------------------------------------------------------------------
(* Lookups: an EVM network whose provider fails, and Solana, whose provider *)
(* also answers without a value.                                            *)

EVMAndSolana ==
    { [adapter |-> "etherscan", faults |-> {"fails"}],
      [adapter |-> "solana", faults |-> {"fails", "malformed"}] }

-----------------------------------------------------------------------------
LookupIdle ==
    /\ network.adapter = "etherscan"
    /\ account = [balance |-> 0, nonce |-> 0, code |-> "none"]
    /\ tx = [kind |-> "transfer", value |-> 0, block |-> 0]

MCInit ==
    /\ subject \in {"migrations", "labels", "lookups"}
    /\ Init /\ (subject # "migrations" => ran = << >>)
    /\ LabelInit
    /\ LookupInit /\ (subject # "lookups" => LookupIdle)

MCNext ==
    /\ UNCHANGED subject
    /\ \/ subject = "migrations" /\ Next /\ UNCHANGED <<labelVars, lookupVars>>
       \/ subject = "labels" /\ LabelNext /\ UNCHANGED <<vars, lookupVars>>
       \/ subject = "lookups" /\ LookupNext /\ UNCHANGED <<vars, labelVars>>

MCSpec == MCInit /\ [][MCNext]_<<subject, vars, labelVars, lookupVars>>

=============================================================================

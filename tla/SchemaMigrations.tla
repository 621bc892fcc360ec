--------------------------- MODULE SchemaMigrations ---------------------------
(***************************************************************************)
(* cmd/migrate (db/db.go): every release applies the migrations it embeds  *)
(* in one transaction under an advisory lock, keeps a ledger of versions   *)
(* and checksums, and then, statement by statement, provisions the role    *)
(* of the runtime.                                                         *)
(*                                                                         *)
(* A migration is [version, checksum]; a release is the sequence of its    *)
(* migrations, sorted.  Ledgers older than IntegrityVersion have no        *)
(* checksums: it adds the column and fills in those of History.            *)
(***************************************************************************)
EXTENDS Naturals, Sequences, FiniteSets

CONSTANTS
    Migrators,         \* migration processes
    Releases,          \* what they embed
    IntegrityVersion,  \* 0003_migration_integrity
    History,           \* the checksums it knows: [version -> checksum]
    Legacy,            \* ledgers found at first, without checksums: sequences of migrations
    None               \* no checksum, nobody

\* A sequence of migrations, each version once: their names in a directory.
IsHistory(ms) ==
    /\ ms \in Seq({ms[i] : i \in DOMAIN ms})
    /\ \A i, j \in DOMAIN ms : ms[i].version = ms[j].version => i = j
    /\ \A i \in DOMAIN ms : ms[i].checksum # None

\* The legacy ledgers were written by the texts whose checksums 0003 knows.
ASSUME MigrationAssumption ==
    /\ None \notin Migrators
    /\ \A r \in Releases : IsHistory(r)
    /\ \A l \in Legacy :
          /\ IsHistory(l)
          /\ \A i \in DOMAIN l :
                l[i].version \in DOMAIN History => l[i].checksum = History[l[i].version]

VARIABLES
    lock,    \* pg_advisory_xact_lock
    ran,     \* the migrations executed, in order, committed
    ledger,  \* schema_migrations, committed: version -> checksum
    column,  \* the ledger: "absent", "plain" without checksums, "sums"
    role,    \* runtime role
    run      \* the migration processes

vars == <<lock, ran, ledger, column, role, run>>

NoRun == [pc |-> "idle", release |-> << >>, at |-> 1, seen |-> {}, fresh |-> << >>,
          rows |-> << >>, column |-> "absent", exists |-> FALSE]

Versions(ms) == {ms[i].version : i \in DOMAIN ms}

Init ==
    /\ lock = None
    /\ \/ ran = << >> /\ column = "absent"
       \/ ran \in Legacy /\ column = "plain"
    /\ ledger = [v \in Versions(ran) |-> None]
    /\ role = [exists |-> FALSE, covered |-> {}, defaults |-> FALSE]
    /\ run = [p \in Migrators |-> NoRun]

-----------------------------------------------------------------------------
(* ApplyMigrations.                                                        *)

\* The checksum of a version in a release; it has one entry at most.
Embedded(release) ==
    [v \in Versions(release) |-> (CHOOSE m \in {release[i] : i \in DOMAIN release} :
                                     m.version = v).checksum]

\* Variant: versions the release does not have are not its business.
VerifiesKnown(release, rows) ==
    \A v \in DOMAIN rows \cap Versions(release) : rows[v] = Embedded(release)[v]

\* verifyMigrationLedger.
Verifies(release, rows) ==
    \A v \in DOMAIN rows : v \in Versions(release) /\ rows[v] = Embedded(release)[v]

Begin(p) ==
    /\ run[p].pc = "idle"
    /\ \E r \in Releases :
          run' = [run EXCEPT ![p] = [NoRun EXCEPT !.pc = "begun", !.release = r]]
    /\ UNCHANGED <<lock, ran, ledger, column, role>>

Created == IF column = "absent" THEN "sums" ELSE column

ReadLedger(p) ==
    /\ run[p].pc = "begun"
    /\ Created = "sums" => Verifies(run[p].release, ledger)
    /\ run' = [run EXCEPT ![p].pc = "applying", ![p].seen = DOMAIN ledger,
                          ![p].rows = ledger, ![p].column = Created]
    /\ UNCHANGED <<ran, ledger, column, role>>

\* Variant: no advisory lock.
ReadUnlocked(p) == ReadLedger(p) /\ UNCHANGED lock

\* The lock, CREATE TABLE IF NOT EXISTS, the ledger and its first check; a
\* ledger that fails it only lets Fail.
LockAndRead(p) == lock = None /\ ReadLedger(p) /\ lock' = p

Step(p) == run[p].release[run[p].at]

Skip(p) ==
    /\ run[p].pc = "applying" /\ run[p].at <= Len(run[p].release)
    /\ Step(p).version \in run[p].seen
    /\ run' = [run EXCEPT ![p].at = @ + 1]
    /\ UNCHANGED <<lock, ran, ledger, column, role>>

\* 0003_migration_integrity: the checksums it knows for rows without one.
Filled(rows, release) ==
    [v \in DOMAIN rows |-> IF rows[v] = None /\ v \in DOMAIN History
                           THEN History[v] ELSE rows[v]]

Has(rows, v, sum) == [w \in DOMAIN rows \cup {v} |-> IF w = v THEN sum ELSE rows[w]]

\* Execute a migration and record it.  0003 raises when a row stays without
\* checksum, and a version another process has recorded violates the key.
Apply(p) ==
    LET me   == run[p]
        m    == Step(p)
        isIt == m.version = IntegrityVersion
        rows == IF isIt THEN Filled(me.rows, me.release) ELSE me.rows
        col  == IF isIt THEN "sums" ELSE me.column
    IN  /\ me.pc = "applying" /\ me.at <= Len(me.release)
        /\ m.version \notin me.seen
        /\ m.version \notin DOMAIN ledger
        /\ isIt => \A v \in DOMAIN rows : rows[v] # None
        /\ run' = [run EXCEPT ![p].at = @ + 1,
                              ![p].fresh = Append(@, m),
                              ![p].column = col,
                              ![p].rows = Has(rows, m.version,
                                              IF col = "sums" THEN m.checksum ELSE None)]
        /\ UNCHANGED <<lock, ran, ledger, column, role>>

Unlock(p) == lock' = IF lock = p THEN None ELSE lock

\* The last check and COMMIT.
Commit(p) ==
    LET me == run[p]
    IN  /\ me.pc = "applying" /\ me.at > Len(me.release)
        /\ me.column = "sums"
        /\ Verifies(me.release, me.rows)
        /\ ran' = ran \o me.fresh
        /\ ledger' = me.rows
        /\ column' = me.column
        /\ role' = IF role.defaults THEN [role EXCEPT !.covered = @ \cup Versions(me.fresh)] ELSE role
        /\ run' = [run EXCEPT ![p].pc = "committed"]
        /\ Unlock(p)

\* An error, the 30 seconds of main, a crash: the transaction rolls back, and
\* statements that have been executed outside it stay.
Fail(p) ==
    /\ run[p].pc \notin {"idle", "done"}
    /\ run' = [run EXCEPT ![p] = NoRun]
    /\ Unlock(p)
    /\ UNCHANGED <<ran, ledger, column, role>>

-----------------------------------------------------------------------------
(* ProvisionRuntimeRole, each statement on its own.                        *)

\* No runtime DSN, or the runtime uses the owner's account.
NoRole(p) ==
    /\ run[p].pc = "committed"
    /\ run' = [run EXCEPT ![p] = NoRun]
    /\ UNCHANGED <<lock, ran, ledger, column, role>>

CheckRole(p) ==
    /\ run[p].pc = "committed"
    /\ run' = [run EXCEPT ![p].pc = "checked", ![p].exists = role.exists]
    /\ UNCHANGED <<lock, ran, ledger, column, role>>

\* ALTER ROLE, or CREATE ROLE, which fails when it exists by now.
ConfigureRole(p) ==
    /\ run[p].pc = "checked"
    /\ run[p].exists \/ ~role.exists
    /\ role' = [role EXCEPT !.exists = TRUE]
    /\ run' = [run EXCEPT ![p].pc = "configured"]
    /\ UNCHANGED <<lock, ran, ledger, column>>

\* GRANT ... ON ALL TABLES: those there are.
GrantTables(p) ==
    /\ run[p].pc = "configured"
    /\ role' = [role EXCEPT !.covered = Versions(ran)]
    /\ run' = [run EXCEPT ![p].pc = "granted"]
    /\ UNCHANGED <<lock, ran, ledger, column>>

\* ALTER DEFAULT PRIVILEGES: tables to come.
GrantDefaults(p) ==
    /\ run[p].pc = "granted"
    /\ role' = [role EXCEPT !.defaults = TRUE]
    /\ run' = [run EXCEPT ![p].pc = "done"]
    /\ UNCHANGED <<lock, ran, ledger, column>>

\* The process has ended well and another release comes.
Finish(p) ==
    /\ run[p].pc = "done"
    /\ run' = [run EXCEPT ![p] = NoRun]
    /\ UNCHANGED <<lock, ran, ledger, column, role>>

Migrate(p) == LockAndRead(p) \/ Skip(p) \/ Apply(p) \/ Commit(p)

Provision(p) ==
    NoRole(p) \/ CheckRole(p) \/ ConfigureRole(p) \/ GrantTables(p) \/ GrantDefaults(p)

Next == \E p \in Migrators : Begin(p) \/ Migrate(p) \/ Fail(p) \/ Provision(p) \/ Finish(p)

Spec == Init /\ [][Next]_vars

-----------------------------------------------------------------------------
(* Properties.                                                             *)

\* The ledger is what was executed: every version once, in order, and with the
\* checksum of the text that was executed, also where a release has edited it.
LedgerTrue ==
    /\ Cardinality(Versions(ran)) = Len(ran)
    /\ DOMAIN ledger = Versions(ran)
    /\ \A i \in DOMAIN ran : ledger[ran[i].version] \in {None, ran[i].checksum}
    /\ column = "sums" => \A v \in DOMAIN ledger : ledger[v] # None

\* "ApplyMigrations applies each embedded migration exactly once." (db.go:78): a
\* process never finds, after it has read the ledger, that another one has
\* recorded what it is about to apply.
NoSurprise ==
    \A p \in Migrators : run[p].pc = "applying" => DOMAIN ledger = run[p].seen

\* A release that ends its transaction leaves its own schema behind: one that
\* lacks a migration the database has, or has edited one, never gets there.
CommitsOwnSchema ==
    [][\A p \in Migrators : run[p].pc = "applying" /\ run'[p].pc = "committed" =>
           ledger' = Embedded(run[p].release)]_vars

\* When a migration process ends well the runtime role can use every table of
\* its release, although processes before it may have failed between two grants.
RoleReady ==
    \A p \in Migrators : run[p].pc = "done" => Versions(run[p].release) \subseteq role.covered

\* ApplyMigrations and ConfigureRuntimeRole together: the three above.
SchemaSound == LedgerTrue /\ NoSurprise /\ RoleReady

=============================================================================

--------------------------- MODULE BackendStart_proofs ---------------------------
(***************************************************************************)
(* What the back end has before the first investigation, for every value   *)
(* of the constants: the schema, the labels and the answers of a lookup.   *)
(* Three components that share no state, hence three arguments.            *)
(***************************************************************************)
EXTENDS SchemaMigrations, LabelRegistry, ChainLookup, FiniteSetTheorems, TLAPS

-----------------------------------------------------------------------------
(* The migrations for any number of processes, any releases and any legacy  *)
(* ledger: what is executed is what is recorded, once, whatever fails and   *)
(* whoever else migrates.  Who applies holds the lock, so the ledger stands *)
(* still under it, and its rows are the ledger's and those of what it has   *)
(* executed.                                                                *)

RunFields == {"pc", "release", "at", "seen", "fresh", "rows", "column", "exists"}
RoleFields == {"exists", "covered", "defaults"}

Entries(ms) == {ms[i] : i \in DOMAIN ms}

\* Rows agree with what was executed, and one without a checksum will be given
\* that of the executed text or none.
Recorded(executed, rows) ==
    \A i \in DOMAIN executed :
        /\ rows[executed[i].version] \in {None, executed[i].checksum}
        /\ rows[executed[i].version] = None /\ executed[i].version \in DOMAIN History
             => executed[i].checksum = History[executed[i].version]

IsRows(rows) == rows = [v \in DOMAIN rows |-> rows[v]]

\* A process between the lock and its commit.
Working(me) ==
    /\ me.seen = DOMAIN ledger
    /\ me.release \in Releases
    /\ me.at \in Nat \ {0}
    /\ me.fresh \in Seq(Entries(me.release))
    /\ \A i, j \in DOMAIN me.fresh : me.fresh[i].version = me.fresh[j].version => i = j
    /\ \A i \in DOMAIN me.fresh : \E j \in DOMAIN me.release :
          j < me.at /\ me.fresh[i] = me.release[j]
    /\ \A j \in DOMAIN me.release : j < me.at => me.release[j].version \in DOMAIN me.rows
    /\ DOMAIN me.rows = me.seen \cup Versions(me.fresh)
    /\ me.seen \cap Versions(me.fresh) = {}
    /\ IsRows(me.rows) /\ Recorded(ran, me.rows)

LedgerInv ==
    /\ ran \in Seq(Entries(ran))
    /\ \A i, j \in DOMAIN ran : ran[i].version = ran[j].version => i = j
    /\ DOMAIN ledger = Versions(ran)
    /\ IsRows(ledger) /\ Recorded(ran, ledger)
    /\ column = "sums" => \A v \in DOMAIN ledger : ledger[v] # None

\* Where a process stands, and what it may count on there.
Standing(p, me) ==
    /\ DOMAIN me = RunFields
    /\ me.pc = "begun" => me.release \in Releases /\ me.at = 1 /\ me.fresh = << >>
    /\ me.pc = "applying" => lock = p /\ Working(me)
    /\ me.pc \in {"committed", "checked", "configured"} => Versions(me.release) \subseteq Versions(ran)
    /\ me.pc \in {"granted", "done"} => Versions(me.release) \subseteq role.covered

IInv ==
    /\ LedgerInv
    /\ DOMAIN role = RoleFields /\ role.covered \subseteq Versions(ran)
    /\ DOMAIN run = Migrators /\ \A p \in Migrators : Standing(p, run[p])

LEMMA ReleaseIsHistory ==
  ASSUME NEW r \in Releases
  PROVE  /\ r \in Seq(Entries(r))
         /\ \A i, j \in DOMAIN r : r[i].version = r[j].version => i = j
         /\ \A i \in DOMAIN r : r[i].checksum # None
  BY MigrationAssumption DEF IsHistory, Entries

(* The checksum a release has for one of its migrations is that one's.      *)
LEMMA EmbeddedIs ==
  ASSUME NEW r \in Releases, NEW i \in DOMAIN r
  PROVE  /\ r[i].version \in Versions(r)
         /\ Embedded(r)[r[i].version] = r[i].checksum
  <1>1. r[i].version \in Versions(r)
    BY DEF Versions
  <1>2. \A m \in {r[j] : j \in DOMAIN r} : m.version = r[i].version => m = r[i]
    BY ReleaseIsHistory
  <1>3. (CHOOSE m \in {r[j] : j \in DOMAIN r} : m.version = r[i].version) = r[i]
    BY <1>2
  <1> QED
    BY <1>1, <1>3 DEF Embedded

LEMMA InitIInv == Init => IInv
  <1> SUFFICES ASSUME Init PROVE IInv
    OBVIOUS
  <1>1. ran = << >> \/ ran \in Legacy
    BY DEF Init
  <1>2. /\ ran \in Seq(Entries(ran))
        /\ \A i, j \in DOMAIN ran : ran[i].version = ran[j].version => i = j
        /\ \A i \in DOMAIN ran : ran[i].version \in DOMAIN History
                                   => ran[i].checksum = History[ran[i].version]
    <2>1. CASE ran = << >>
      BY <2>1 DEF Entries
    <2>2. CASE ran \in Legacy
      BY <2>2, MigrationAssumption DEF IsHistory, Entries
    <2> QED
      BY <1>1, <2>1, <2>2
  <1>3. ledger = [v \in Versions(ran) |-> None] /\ column # "sums"
    BY DEF Init
  <1>4. Recorded(ran, ledger)
    BY <1>2, <1>3 DEF Recorded, Versions
  <1>5. DOMAIN role = RoleFields /\ role.covered = {} /\ IsRows(ledger)
    BY <1>3 DEF Init, RoleFields, IsRows
  <1>6. DOMAIN NoRun = RunFields /\ NoRun.pc = "idle"
    BY DEF NoRun, RunFields
  <1>7. \A p \in Migrators : Standing(p, NoRun)
    BY <1>6 DEF Standing
  <1> QED
    BY <1>2, <1>3, <1>4, <1>5, <1>7 DEF IInv, LedgerInv, Init

(* A step that leaves the database alone.                                   *)
LEMMA RunStep ==
  ASSUME IInv, NEW p \in Migrators, NEW me, run' = [run EXCEPT ![p] = me],
         Standing(p, me)', UNCHANGED <<ran, ledger, column, role>>,
         \A q \in Migrators \ {p} : lock = q => lock' = q
  PROVE  IInv'
  <1>1. LedgerInv'
    BY DEF IInv, LedgerInv
  <1>2. ASSUME NEW q \in Migrators \ {p} PROVE Standing(q, run[q])'
    <2>1. run'[q] = run[q] /\ Standing(q, run[q])
      BY DEF IInv
    <2>2. \A x : Working(x) => Working(x)'
      BY DEF Working
    <2> QED
      BY <2>1, <2>2 DEF Standing
  <1>3. run'[p] = me /\ DOMAIN run' = Migrators
    BY DEF IInv
  <1> QED
    BY <1>1, <1>2, <1>3 DEF IInv

(* A process that starts over stands nowhere.                               *)
LEMMA NoRunStands == \A p \in Migrators : Standing(p, NoRun)'
  BY DEF Standing, NoRun, RunFields

LEMMA BeginIInv == ASSUME IInv, NEW p \in Migrators, Begin(p) PROVE IInv'
  <1>1. PICK r \in Releases :
          run' = [run EXCEPT ![p] = [NoRun EXCEPT !.pc = "begun", !.release = r]]
    BY DEF Begin
  <1> DEFINE me == [NoRun EXCEPT !.pc = "begun", !.release = r]
  <1>2. DOMAIN me = RunFields /\ me.pc = "begun" /\ me.release = r /\ me.at = 1 /\ me.fresh = << >>
    BY DEF NoRun, RunFields
  <1> HIDE DEF me
  <1>3. Standing(p, me)'
    BY <1>2 DEF Standing
  <1> QED
    BY <1>1, <1>3, RunStep DEF Begin, me

LEMMA ResetIInv ==
  ASSUME IInv, NEW p \in Migrators, run' = [run EXCEPT ![p] = NoRun],
         UNCHANGED <<ran, ledger, column, role>>, lock' \in {lock} \/ Unlock(p)
  PROVE  IInv'
  <1>1. \A q \in Migrators \ {p} : lock = q => lock' = q
    BY DEF Unlock
  <1> QED
    BY <1>1, NoRunStands, RunStep

LEMMA LockAndReadIInv == ASSUME IInv, NEW p \in Migrators, LockAndRead(p) PROVE IInv'
  <1>0. PICK me : me = [run[p] EXCEPT !.pc = "applying", !.seen = DOMAIN ledger,
                                      !.rows = ledger, !.column = Created]
    OBVIOUS
  <1>1. /\ DOMAIN run = Migrators /\ DOMAIN run[p] = RunFields
        /\ run[p].pc = "begun" /\ run[p].release \in Releases
        /\ run[p].at = 1 /\ run[p].fresh = << >>
    BY DEF IInv, Standing, LockAndRead, ReadLedger
  <1>2. run' = [run EXCEPT ![p] = me]
    BY <1>0, <1>1 DEF LockAndRead, ReadLedger, RunFields
  <1>3. /\ DOMAIN me = RunFields /\ me.pc = "applying" /\ me.release = run[p].release
        /\ me.at = 1 /\ me.fresh = << >> /\ me.seen = DOMAIN ledger /\ me.rows = ledger
    BY <1>0, <1>1 DEF RunFields
  <1>4. /\ me.fresh \in Seq(Entries(me.release)) /\ DOMAIN me.fresh = {} /\ Versions(me.fresh) = {}
    BY <1>3 DEF Versions
  <1>5. \A j \in DOMAIN me.release : ~(j < me.at)
    BY <1>1, <1>3, ReleaseIsHistory
  <1>6. IsRows(me.rows) /\ Recorded(ran, me.rows)
    BY <1>3 DEF IInv, LedgerInv
  <1>7. Working(me)
    <2>1. DOMAIN me.rows = me.seen \cup Versions(me.fresh) /\ me.seen \cap Versions(me.fresh) = {}
      BY <1>3, <1>4
    <2>2. me.at \in Nat \ {0} /\ me.release \in Releases
      BY <1>1, <1>3
    <2> QED
      BY <1>3, <1>4, <1>5, <1>6, <2>1, <2>2 DEF Working
  <1>8. /\ lock = None /\ lock' = p /\ p # None /\ UNCHANGED <<ran, ledger, column, role>>
        /\ \A q \in Migrators : lock # q
    BY MigrationAssumption DEF LockAndRead, ReadLedger
  <1>9. Working(me)'
    BY <1>7, <1>8 DEF Working
  <1>10. Standing(p, me)'
    BY <1>3, <1>8, <1>9 DEF Standing
  <1> QED
    BY <1>2, <1>8, <1>10, RunStep

LEMMA SkipIInv == ASSUME IInv, NEW p \in Migrators, Skip(p) PROVE IInv'
  <1>0. PICK me : me = [run[p] EXCEPT !.at = @ + 1]
    OBVIOUS
  <1>1. /\ DOMAIN run = Migrators /\ DOMAIN run[p] = RunFields /\ run[p].pc = "applying"
        /\ Working(run[p]) /\ lock = p
    BY DEF IInv, Standing, Skip
  <1>2. run' = [run EXCEPT ![p] = me]
    BY <1>0, <1>1 DEF Skip
  <1>3. /\ DOMAIN me = RunFields /\ me.pc = "applying" /\ me.release = run[p].release
        /\ me.at = run[p].at + 1 /\ me.fresh = run[p].fresh /\ me.seen = run[p].seen
        /\ me.rows = run[p].rows
    BY <1>0, <1>1 DEF RunFields
  <1>4. UNCHANGED <<lock, ran, ledger, column, role>> /\ run[p].at \in Nat
        /\ run[p].release[run[p].at].version \in run[p].seen
    BY <1>1 DEF Skip, Step, Working
  <1>5. DOMAIN me.release \subseteq Nat
    BY <1>1, <1>3, ReleaseIsHistory DEF Working
  <1>6. \A j \in DOMAIN me.release : j < me.at => me.release[j].version \in DOMAIN me.rows
    BY <1>1, <1>3, <1>4, <1>5 DEF Working
  <1>7. \A i \in DOMAIN me.fresh : \E j \in DOMAIN me.release :
          j < me.at /\ me.fresh[i] = me.release[j]
    BY <1>1, <1>3, <1>4, <1>5 DEF Working
  <1>8. Working(me)
    BY <1>1, <1>3, <1>4, <1>6, <1>7 DEF Working
  <1>9. Standing(p, me)'
    BY <1>1, <1>3, <1>4, <1>8 DEF Standing, Working
  <1> QED
    BY <1>2, <1>4, <1>9, RunStep

(* Filling in checksums and adding a row keep the rows true.                *)
LEMMA FilledRecorded ==
  ASSUME NEW executed, NEW rows, NEW release, Recorded(executed, rows),
         Versions(executed) \subseteq DOMAIN rows
  PROVE  Recorded(executed, Filled(rows, release)) /\ DOMAIN Filled(rows, release) = DOMAIN rows
  <1>1. \A i \in DOMAIN executed : executed[i].version \in DOMAIN rows
    BY DEF Versions
  <1>2. \A v \in DOMAIN rows : Filled(rows, release)[v] =
          IF rows[v] = None /\ v \in DOMAIN History THEN History[v] ELSE rows[v]
    BY DEF Filled
  <1>3. DOMAIN Filled(rows, release) = DOMAIN rows
    BY DEF Filled
  <1> QED
    BY <1>1, <1>2, <1>3 DEF Recorded

LEMMA HasRecorded ==
  ASSUME NEW executed, NEW rows, NEW v, NEW sum, Recorded(executed, rows),
         Versions(executed) \subseteq DOMAIN rows, v \notin Versions(executed)
  PROVE  Recorded(executed, Has(rows, v, sum))
  <1>1. \A i \in DOMAIN executed : executed[i].version \in DOMAIN rows /\ executed[i].version # v
    BY DEF Versions
  <1>2. \A w \in DOMAIN rows \cup {v} : Has(rows, v, sum)[w] = IF w = v THEN sum ELSE rows[w]
    BY DEF Has
  <1>3. DOMAIN Has(rows, v, sum) = DOMAIN rows \cup {v}
    BY DEF Has
  <1> QED
    BY <1>1, <1>2, <1>3 DEF Recorded

LEMMA AppendVersions ==
  ASSUME NEW S, NEW ms \in Seq(S), NEW m \in S
  PROVE  Versions(Append(ms, m)) = Versions(ms) \cup {m.version}
  <1>1. /\ DOMAIN Append(ms, m) = DOMAIN ms \cup {Len(ms) + 1}
        /\ \A i \in DOMAIN ms : Append(ms, m)[i] = ms[i]
        /\ Append(ms, m)[Len(ms) + 1] = m
    OBVIOUS
  <1> QED
    BY <1>1 DEF Versions

LEMMA ApplyIInv == ASSUME IInv, NEW p \in Migrators, Apply(p) PROVE IInv'
  <1>0. PICK old, m : old = run[p] /\ m = Step(p)
    OBVIOUS
  <1> DEFINE filled == IF m.version = IntegrityVersion THEN Filled(old.rows, old.release)
                       ELSE old.rows
  <1>1. PICK col, sum : run' = [run EXCEPT ![p].at = @ + 1, ![p].fresh = Append(@, m),
                                           ![p].column = col,
                                           ![p].rows = Has(filled, m.version, sum)]
    BY <1>0 DEF Apply
  <1>2. /\ DOMAIN run = Migrators /\ DOMAIN old = RunFields /\ old.pc = "applying"
        /\ Working(old) /\ lock = p /\ old.at <= Len(old.release) /\ m.version \notin old.seen
        /\ UNCHANGED <<lock, ran, ledger, column, role>>
    BY <1>0 DEF IInv, Standing, Apply
  <1>a. PICK me : me = [old EXCEPT !.at = @ + 1, !.fresh = Append(@, m), !.column = col,
                                   !.rows = Has(filled, m.version, sum)]
    OBVIOUS
  <1>3. run' = [run EXCEPT ![p] = me]
    BY <1>0, <1>1, <1>2, <1>a DEF RunFields
  <1>4. /\ DOMAIN me = RunFields /\ me.pc = "applying" /\ me.release = old.release
        /\ me.at = old.at + 1 /\ me.fresh = Append(old.fresh, m) /\ me.seen = old.seen
        /\ me.rows = Has(filled, m.version, sum)
    BY <1>2, <1>a DEF RunFields
  <1>5. /\ old.release \in Seq(Entries(old.release)) /\ old.at \in Nat \ {0}
        /\ DOMAIN old.release = 1 .. Len(old.release) /\ Len(old.release) \in Nat
        /\ \A i, j \in DOMAIN old.release :
              old.release[i].version = old.release[j].version => i = j
        /\ old.fresh \in Seq(Entries(old.release))
    BY <1>2, ReleaseIsHistory DEF Working
  <1>6. old.at \in DOMAIN old.release /\ m = old.release[old.at] /\ m \in Entries(old.release)
    BY <1>0, <1>2, <1>5 DEF Step, Entries
  <1>7. \A i \in DOMAIN old.fresh : old.fresh[i].version # m.version
    <2>1. SUFFICES ASSUME NEW i \in DOMAIN old.fresh PROVE old.fresh[i].version # m.version
      OBVIOUS
    <2>2. PICK j \in DOMAIN old.release : j < old.at /\ old.fresh[i] = old.release[j]
      BY <1>2 DEF Working
    <2> QED
      BY <1>5, <1>6, <2>2
  <1>8. /\ DOMAIN me.fresh = DOMAIN old.fresh \cup {Len(old.fresh) + 1}
        /\ \A i \in DOMAIN old.fresh : me.fresh[i] = old.fresh[i]
        /\ me.fresh[Len(old.fresh) + 1] = m
        /\ me.fresh \in Seq(Entries(me.release))
    BY <1>4, <1>5, <1>6
  <1>9. Versions(me.fresh) = Versions(old.fresh) \cup {m.version}
    BY <1>4, <1>5, <1>6, AppendVersions
  <1>10. DOMAIN ledger = Versions(ran) /\ old.seen = DOMAIN ledger
         /\ DOMAIN old.rows = old.seen \cup Versions(old.fresh) /\ Recorded(ran, old.rows)
    BY <1>2 DEF IInv, LedgerInv, Working
  <1>11. Recorded(ran, filled) /\ DOMAIN filled = DOMAIN old.rows
    <2>1. Versions(ran) \subseteq DOMAIN old.rows
      BY <1>10
    <2> QED
      BY <1>10, <2>1, FilledRecorded
  <1>12. Recorded(ran, me.rows) /\ DOMAIN me.rows = DOMAIN old.rows \cup {m.version}
    <2>1. m.version \notin Versions(ran) /\ Versions(ran) \subseteq DOMAIN filled
      BY <1>2, <1>10, <1>11
    <2>2. PICK rows, v : rows = filled /\ v = m.version
      OBVIOUS
    <2>3. Recorded(ran, rows) /\ DOMAIN rows = DOMAIN old.rows /\ Versions(ran) \subseteq DOMAIN rows
      BY <1>11, <2>1, <2>2
    <2>4. me.rows = Has(rows, v, sum) /\ v \notin Versions(ran)
      BY <1>4, <2>1, <2>2
    <2>5. /\ Recorded(ran, Has(rows, v, sum))
          /\ DOMAIN Has(rows, v, sum) = DOMAIN rows \cup {v}
      <3>1. DOMAIN Has(rows, v, sum) = DOMAIN rows \cup {v}
        BY DEF Has
      <3>2. Recorded(ran, Has(rows, v, sum))
        BY <2>3, <2>4, HasRecorded
      <3> QED
        BY <3>1, <3>2
    <2> QED
      BY <2>2, <2>3, <2>4, <2>5
  <1>13. \A i, j \in DOMAIN me.fresh : me.fresh[i].version = me.fresh[j].version => i = j
    BY <1>2, <1>7, <1>8 DEF Working
  <1>14. \A i \in DOMAIN me.fresh : \E j \in DOMAIN me.release :
           j < me.at /\ me.fresh[i] = me.release[j]
    <2>1. \A i \in DOMAIN old.fresh : \E j \in DOMAIN me.release :
            j < me.at /\ me.fresh[i] = me.release[j]
      <3>1. SUFFICES ASSUME NEW i \in DOMAIN old.fresh
                     PROVE  \E j \in DOMAIN me.release : j < me.at /\ me.fresh[i] = me.release[j]
        OBVIOUS
      <3>2. PICK j \in DOMAIN old.release : j < old.at /\ old.fresh[i] = old.release[j]
        BY <1>2 DEF Working
      <3>3. j < me.at
        BY <1>4, <1>5, <3>2
      <3> QED
        BY <1>4, <1>8, <3>2, <3>3
    <2>2. old.at < me.at
      BY <1>4, <1>5
    <2> QED
      BY <1>4, <1>6, <1>8, <2>1, <2>2
  <1>15. \A j \in DOMAIN me.release : j < me.at => me.release[j].version \in DOMAIN me.rows
    <2>1. \A j \in DOMAIN me.release : j < me.at => j < old.at \/ j = old.at
      BY <1>4, <1>5
    <2> QED
      BY <1>2, <1>4, <1>6, <1>12, <2>1 DEF Working
  <1>16. me.at \in Nat \ {0} /\ me.seen \cap Versions(me.fresh) = {}
    BY <1>2, <1>4, <1>5, <1>9 DEF Working
  <1>17. DOMAIN me.rows = me.seen \cup Versions(me.fresh) /\ IsRows(me.rows)
    <2>1. IsRows(me.rows)
      BY <1>4 DEF Has, IsRows
    <2> QED
      BY <1>4, <1>9, <1>10, <1>12, <2>1
  <1>18. Working(me)
    BY <1>2, <1>4, <1>8, <1>10, <1>12, <1>13, <1>14, <1>15, <1>16, <1>17 DEF Working
  <1>19. Standing(p, me)'
    BY <1>2, <1>4, <1>18 DEF Standing, Working
  <1> QED
    BY <1>2, <1>3, <1>19, RunStep

LEMMA ConcatIs ==
  ASSUME NEW S, NEW T, NEW a \in Seq(S), NEW b \in Seq(T)
  PROVE  /\ a \o b \in Seq(S \cup T) /\ DOMAIN (a \o b) = 1 .. (Len(a) + Len(b))
         /\ \A i \in DOMAIN (a \o b) :
               (a \o b)[i] = IF i \in DOMAIN a THEN a[i] ELSE b[i - Len(a)]
         /\ \A i \in DOMAIN a : i \in DOMAIN (a \o b)
         /\ \A i \in DOMAIN b : i + Len(a) \in DOMAIN (a \o b) /\ (a \o b)[i + Len(a)] = b[i]
         /\ \A i \in DOMAIN (a \o b) : i \in DOMAIN a \/ i - Len(a) \in DOMAIN b
  OBVIOUS

(* What a commit records is what its process has executed after the rest,   *)
(* and the checksums are those of its release.                              *)
LEMMA CommitLedger ==
  ASSUME IInv, NEW p \in Migrators, Commit(p)
  PROVE  /\ LedgerInv'
         /\ Versions(ran) \subseteq Versions(ran')
         /\ Versions(ran') = Versions(ran) \cup Versions(run[p].fresh)
         /\ Versions(run[p].release) = Versions(ran')
         /\ ledger' = Embedded(run[p].release)
  <1>0. PICK me, old : me = run[p] /\ old = ran
    OBVIOUS
  <1>1. /\ Working(me) /\ old \in Seq(Entries(old)) /\ me.fresh \in Seq(Entries(me.release))
        /\ \A i, j \in DOMAIN old : old[i].version = old[j].version => i = j
        /\ DOMAIN ledger = Versions(old) /\ me.seen = Versions(old)
        /\ IsRows(me.rows) /\ Recorded(old, me.rows)
    BY <1>0 DEF IInv, Standing, Commit, LedgerInv, Working
  <1>2. /\ me.at > Len(me.release) /\ Verifies(me.release, me.rows) /\ ran' = old \o me.fresh
        /\ ledger' = me.rows
    BY <1>0 DEF Commit
  <1>3. PICK new : new = old \o me.fresh
    OBVIOUS
  <1>4. /\ new \in Seq(Entries(old) \cup Entries(me.release))
        /\ DOMAIN new = 1 .. (Len(old) + Len(me.fresh))
        /\ \A i \in DOMAIN new : new[i] = IF i \in DOMAIN old THEN old[i] ELSE me.fresh[i - Len(old)]
        /\ \A i \in DOMAIN old : i \in DOMAIN new
        /\ \A i \in DOMAIN me.fresh : i + Len(old) \in DOMAIN new /\ new[i + Len(old)] = me.fresh[i]
        /\ \A i \in DOMAIN new : i \in DOMAIN old \/ i - Len(old) \in DOMAIN me.fresh
    BY <1>1, <1>3, ConcatIs
  <1>5. Versions(new) = Versions(old) \cup Versions(me.fresh)
    <2>1. \A i \in DOMAIN new : new[i].version \in Versions(old) \cup Versions(me.fresh)
      BY <1>4 DEF Versions
    <2>2. \A i \in DOMAIN old : old[i].version \in Versions(new)
      BY <1>4 DEF Versions
    <2>3. \A i \in DOMAIN me.fresh : me.fresh[i].version \in Versions(new)
      <3>1. SUFFICES ASSUME NEW i \in DOMAIN me.fresh PROVE me.fresh[i].version \in Versions(new)
        OBVIOUS
      <3>2. PICK j \in DOMAIN new : new[j] = me.fresh[i]
        BY <1>4
      <3> QED
        BY <3>2 DEF Versions
    <2> QED
      BY <2>1, <2>2, <2>3 DEF Versions
  <1>6. DOMAIN me.rows = Versions(new)
    BY <1>1, <1>5 DEF Working
  <1>7. /\ me.release \in Releases /\ me.release \in Seq(Entries(me.release))
        /\ DOMAIN me.release = 1 .. Len(me.release) /\ Len(me.release) \in Nat /\ me.at \in Nat
    BY <1>1, ReleaseIsHistory DEF Working
  <1>8. \A j \in DOMAIN me.release : me.release[j].version \in DOMAIN me.rows
    BY <1>1, <1>2, <1>7 DEF Working
  <1>9. Versions(me.release) = DOMAIN me.rows
    BY <1>2, <1>8 DEF Verifies, Versions
  <1>10. me.rows = Embedded(me.release)
    <2>1. Embedded(me.release) = [v \in Versions(me.release) |-> Embedded(me.release)[v]]
      BY DEF Embedded
    <2>2. \A v \in DOMAIN me.rows : me.rows[v] = Embedded(me.release)[v]
      BY <1>2 DEF Verifies
    <2> QED
      BY <1>1, <1>9, <2>1, <2>2 DEF IsRows
  <1>11. \A j \in DOMAIN me.release : /\ me.rows[me.release[j].version] = me.release[j].checksum
                                     /\ me.release[j].checksum # None
    BY <1>7, <1>10, EmbeddedIs, ReleaseIsHistory
  <1>12. \A v \in DOMAIN me.rows : me.rows[v] # None
    BY <1>9, <1>11 DEF Versions
  <1>13. \A i \in DOMAIN me.fresh : me.rows[me.fresh[i].version] = me.fresh[i].checksum
    <2>1. SUFFICES ASSUME NEW i \in DOMAIN me.fresh
                   PROVE  me.rows[me.fresh[i].version] = me.fresh[i].checksum
      OBVIOUS
    <2>2. PICK j \in DOMAIN me.release : me.fresh[i] = me.release[j]
      BY <1>1 DEF Working
    <2> QED
      BY <1>11, <2>2
  <1>14. \A i \in DOMAIN old : me.rows[old[i].version] = old[i].checksum
    <2>1. \A i \in DOMAIN old : old[i].version \in DOMAIN me.rows
      BY <1>5, <1>6 DEF Versions
    <2> QED
      BY <1>1, <1>12, <2>1 DEF Recorded
  <1>15. \A i \in DOMAIN new : /\ me.rows[new[i].version] = new[i].checksum
                              /\ me.rows[new[i].version] # None
    <2>1. \A i \in DOMAIN new : me.rows[new[i].version] = new[i].checksum
      BY <1>4, <1>13, <1>14
    <2>2. \A i \in DOMAIN new : new[i].version \in DOMAIN me.rows
      BY <1>6 DEF Versions
    <2> QED
      BY <1>12, <2>1, <2>2
  <1>16. Recorded(new, me.rows)
    BY <1>15 DEF Recorded
  <1>17. \A i, j \in DOMAIN new : new[i].version = new[j].version => i = j
    <2>1. SUFFICES ASSUME NEW i \in DOMAIN new, NEW j \in DOMAIN new,
                          new[i].version = new[j].version
                   PROVE  i = j
      OBVIOUS
    <2>2. CASE i \in DOMAIN old /\ j \in DOMAIN old
      BY <1>1, <1>4, <2>1, <2>2
    <2>3. ASSUME NEW k \in DOMAIN old, NEW l \in DOMAIN me.fresh
          PROVE  old[k].version # me.fresh[l].version
      BY <1>1 DEF Working, Versions
    <2>4. CASE i \notin DOMAIN old /\ j \notin DOMAIN old
      <3>1. me.fresh[i - Len(old)].version = me.fresh[j - Len(old)].version
            /\ i - Len(old) \in DOMAIN me.fresh /\ j - Len(old) \in DOMAIN me.fresh
        BY <1>4, <2>1, <2>4
      <3>2. i - Len(old) = j - Len(old)
        BY <1>1, <3>1 DEF Working
      <3>3. i \in Nat /\ j \in Nat /\ Len(old) \in Nat
        BY <1>1, <1>4
      <3> QED
        BY <3>2, <3>3
    <2> QED
      BY <1>4, <2>1, <2>2, <2>3, <2>4
  <1>18. new \in Seq(Entries(new))
    <2>1. new = [i \in 1 .. (Len(old) + Len(me.fresh)) |-> new[i]] /\ Len(old) + Len(me.fresh) \in Nat
      BY <1>1, <1>4
    <2> QED
      BY <1>4, <2>1 DEF Entries
  <1>19. ran' = new /\ ledger' = me.rows
    BY <1>2, <1>3
  <1>20. LedgerInv'
    BY <1>1, <1>6, <1>12, <1>16, <1>17, <1>18, <1>19 DEF LedgerInv
  <1> QED
    BY <1>0, <1>5, <1>6, <1>9, <1>10, <1>19, <1>20

LEMMA CommitIInv == ASSUME IInv, NEW p \in Migrators, Commit(p) PROVE IInv'
  <1>1. /\ DOMAIN run = Migrators /\ DOMAIN run[p] = RunFields
        /\ lock = p /\ lock' = None /\ run[p].pc = "applying"
        /\ run' = [run EXCEPT ![p].pc = "committed"]
    BY DEF IInv, Standing, Commit, Unlock
  <1>2. DOMAIN role = RoleFields /\ role.covered \subseteq Versions(ran)
    BY DEF IInv
  <1>3. \/ role' = role
        \/ role' = [role EXCEPT !.covered = @ \cup Versions(run[p].fresh)]
    BY DEF Commit
  <1>4. /\ DOMAIN role' = RoleFields /\ role.covered \subseteq role'.covered
        /\ role'.covered \subseteq role.covered \cup Versions(run[p].fresh)
    BY <1>2, <1>3 DEF RoleFields
  <1>5. role'.covered \subseteq Versions(ran')
    BY <1>2, <1>4, CommitLedger
  <1>6. PICK me : me = [run[p] EXCEPT !.pc = "committed"]
    OBVIOUS
  <1>7. /\ run' = [run EXCEPT ![p] = me] /\ DOMAIN me = RunFields /\ me.pc = "committed"
        /\ me.release = run[p].release
    BY <1>1, <1>6 DEF RunFields
  <1>8. Standing(p, run[p])'
    <2>1. run'[p] = me
      BY <1>1, <1>7
    <2>2. Versions(me.release) \subseteq Versions(ran')
      BY <1>7, CommitLedger
    <2> QED
      BY <1>7, <2>1, <2>2 DEF Standing
  <1>9. ASSUME NEW q \in Migrators \ {p} PROVE Standing(q, run[q])'
    <2>1. run'[q] = run[q] /\ Standing(q, run[q])
      BY <1>7 DEF IInv
    <2>2. run[q].pc # "applying"
      BY <1>1, <2>1 DEF Standing
    <2> QED
      BY <1>4, <2>1, <2>2, CommitLedger DEF Standing
  <1> QED
    BY <1>1, <1>4, <1>5, <1>7, <1>8, <1>9, CommitLedger DEF IInv

(* A step of the grants, by a process that has committed.                   *)
LEMMA RoleStep ==
  ASSUME IInv, NEW p \in Migrators, NEW me, NEW covered, run' = [run EXCEPT ![p] = me],
         UNCHANGED <<lock, ran, ledger, column>>, DOMAIN role' = RoleFields,
         role'.covered = covered, covered \in {role.covered, Versions(ran)},
         Standing(p, me)'
  PROVE  IInv'
  <1>1. role.covered \subseteq covered /\ covered \subseteq Versions(ran)
    BY DEF IInv
  <1>2. LedgerInv'
    BY DEF IInv, LedgerInv
  <1>3. ASSUME NEW q \in Migrators \ {p} PROVE Standing(q, run[q])'
    <2>1. run'[q] = run[q] /\ Standing(q, run[q])
      BY DEF IInv
    <2>2. \A x : Working(x) => Working(x)'
      BY DEF Working
    <2> QED
      BY <1>1, <2>1, <2>2 DEF Standing
  <1>4. run'[p] = me /\ DOMAIN run' = Migrators
    BY DEF IInv
  <1> QED
    BY <1>1, <1>2, <1>3, <1>4 DEF IInv

LEMMA CheckRoleIInv == ASSUME IInv, NEW p \in Migrators, CheckRole(p) PROVE IInv'
  <1>0. PICK me : me = [run[p] EXCEPT !.pc = "checked", !.exists = role.exists]
    OBVIOUS
  <1>1. /\ DOMAIN run = Migrators /\ DOMAIN run[p] = RunFields
        /\ Versions(run[p].release) \subseteq Versions(ran)
    BY DEF IInv, Standing, CheckRole
  <1>2. run' = [run EXCEPT ![p] = me] /\ DOMAIN me = RunFields /\ me.pc = "checked"
        /\ me.release = run[p].release
    BY <1>0, <1>1 DEF CheckRole, RunFields
  <1>3. UNCHANGED <<lock, ran, ledger, column, role>>
    BY DEF CheckRole
  <1>4. Standing(p, me)'
    BY <1>1, <1>2, <1>3 DEF Standing
  <1> QED
    BY <1>2, <1>3, <1>4, RunStep

LEMMA GrantIInv ==
  ASSUME IInv, NEW p \in Migrators, ConfigureRole(p) \/ GrantTables(p) \/ GrantDefaults(p)
  PROVE  IInv'
  <1>1. /\ DOMAIN run = Migrators /\ DOMAIN run[p] = RunFields /\ DOMAIN role = RoleFields
        /\ Standing(p, run[p])
    BY DEF IInv, Standing
  <1>2. UNCHANGED <<lock, ran, ledger, column>>
    BY DEF ConfigureRole, GrantTables, GrantDefaults
  <1>3. ASSUME NEW pc, run' = [run EXCEPT ![p].pc = pc],
               DOMAIN role' = RoleFields, role'.covered \in {role.covered, Versions(ran)},
               pc = "configured" => Versions(run[p].release) \subseteq Versions(ran),
               pc \in {"granted", "done"} => Versions(run[p].release) \subseteq role'.covered,
               pc \in {"configured", "granted", "done"}
        PROVE  IInv'
    <2>1. PICK me, covered : me = [run[p] EXCEPT !.pc = pc] /\ covered = role'.covered
      OBVIOUS
    <2>2. run' = [run EXCEPT ![p] = me] /\ DOMAIN me = RunFields /\ me.pc = pc
          /\ me.release = run[p].release
      BY <1>1, <1>3, <2>1 DEF RunFields
    <2>3. Standing(p, me)'
      BY <1>2, <1>3, <2>2 DEF Standing
    <2> QED
      BY <1>2, <1>3, <2>1, <2>2, <2>3, RoleStep
  <1>4. CASE ConfigureRole(p)
    <2>1. role' = [role EXCEPT !.exists = TRUE] /\ run' = [run EXCEPT ![p].pc = "configured"]
          /\ run[p].pc = "checked"
      BY <1>4 DEF ConfigureRole
    <2>2. DOMAIN role' = RoleFields /\ role'.covered = role.covered
      BY <1>1, <2>1 DEF RoleFields
    <2>3. Versions(run[p].release) \subseteq Versions(ran)
      BY <1>1, <2>1 DEF Standing
    <2> QED
      BY <1>3, <2>1, <2>2, <2>3
  <1>5. CASE GrantTables(p)
    <2>1. role' = [role EXCEPT !.covered = Versions(ran)] /\ run' = [run EXCEPT ![p].pc = "granted"]
          /\ run[p].pc = "configured"
      BY <1>5 DEF GrantTables
    <2>2. DOMAIN role' = RoleFields /\ role'.covered = Versions(ran)
      BY <1>1, <2>1 DEF RoleFields
    <2>3. Versions(run[p].release) \subseteq Versions(ran)
      BY <1>1, <2>1 DEF Standing
    <2> QED
      BY <1>3, <2>1, <2>2, <2>3
  <1>6. CASE GrantDefaults(p)
    <2>1. role' = [role EXCEPT !.defaults = TRUE] /\ run' = [run EXCEPT ![p].pc = "done"]
          /\ run[p].pc = "granted"
      BY <1>6 DEF GrantDefaults
    <2>2. DOMAIN role' = RoleFields /\ role'.covered = role.covered
      BY <1>1, <2>1 DEF RoleFields
    <2>3. Versions(run[p].release) \subseteq role.covered
      BY <1>1, <2>1 DEF Standing
    <2> QED
      BY <1>3, <2>1, <2>2, <2>3
  <1> QED
    BY <1>4, <1>5, <1>6

LEMMA NextKeepsIInv == IInv /\ [Next]_vars => IInv'
  <1> SUFFICES ASSUME IInv, [Next]_vars PROVE IInv'
    OBVIOUS
  <1>1. ASSUME NEW p \in Migrators, Begin(p) \/ Migrate(p) PROVE IInv'
    BY <1>1, BeginIInv, LockAndReadIInv, SkipIInv, ApplyIInv, CommitIInv DEF Migrate
  <1>2. ASSUME NEW p \in Migrators, Fail(p) \/ NoRole(p) \/ Finish(p) PROVE IInv'
    BY <1>2, ResetIInv DEF Fail, NoRole, Finish
  <1>3. ASSUME NEW p \in Migrators, Provision(p) PROVE IInv'
    BY <1>2, <1>3, CheckRoleIInv, GrantIInv DEF Provision
  <1>4. CASE UNCHANGED vars
    BY <1>4 DEF vars, IInv, LedgerInv, Standing, Working
  <1> QED
    BY <1>1, <1>2, <1>3, <1>4 DEF Next

LEMMA AlwaysIInv == Spec => []IInv
  BY InitIInv, NextKeepsIInv, PTL DEF Spec

(* ApplyMigrations (db.go:78, "exactly once"): what a process has read of   *)
(* the ledger is what is there until it ends, whoever else migrates.        *)
THEOREM NoSurpriseHolds == Spec => []NoSurprise
  <1>1. IInv => NoSurprise
    BY DEF IInv, Standing, Working, NoSurprise
  <1> QED
    BY <1>1, AlwaysIInv, PTL

(* As many versions as entries when none is there twice.                    *)
LEMMA VersionsCount ==
  ASSUME NEW S, NEW ms \in Seq(S),
         \A i, j \in DOMAIN ms : ms[i].version = ms[j].version => i = j
  PROVE  Cardinality(Versions(ms)) = Len(ms)
  <1>1. Len(ms) \in Nat /\ DOMAIN ms = 1 .. Len(ms)
    OBVIOUS
  <1> DEFINE f == [i \in 1 .. Len(ms) |-> ms[i].version]
  <1>2. f \in Bijection(1 .. Len(ms), Versions(ms))
    BY <1>1 DEF Versions, Bijection, Injection, Surjection, IsInjective
  <1>3. ExistsBijection(1 .. Len(ms), Versions(ms))
    BY <1>2 DEF ExistsBijection
  <1> QED
    BY <1>1, <1>3, FS_CountingElements

(* Ledger and database agree: every migration is executed once and recorded *)
(* with the checksum of the text that was executed (db.go:78-153).          *)
THEOREM LedgerHolds == Spec => []LedgerTrue
  <1>1. IInv => LedgerTrue
    <2> SUFFICES ASSUME LedgerInv PROVE LedgerTrue
      BY DEF IInv
    <2>1. Cardinality(Versions(ran)) = Len(ran)
      BY VersionsCount DEF LedgerInv
    <2> QED
      BY <2>1 DEF LedgerInv, Recorded, LedgerTrue
  <1> QED
    BY <1>1, AlwaysIInv, PTL

(* No release commits a schema that another one has extended or edited      *)
(* (verifyMigrationLedger, db.go:223).                                      *)
THEOREM CommitsOwnSchemaHolds == Spec => CommitsOwnSchema
  <1>1. IInv /\ [Next]_vars =>
          [\A p \in Migrators : run[p].pc = "applying" /\ run'[p].pc = "committed"
               => ledger' = Embedded(run[p].release)]_vars
    <2> SUFFICES ASSUME IInv, Next, NEW p \in Migrators,
                        run[p].pc = "applying", run'[p].pc = "committed"
                 PROVE  ledger' = Embedded(run[p].release)
      OBVIOUS
    <2>1. DOMAIN run = Migrators /\ \A q \in Migrators : DOMAIN run[q] = RunFields
      BY DEF IInv, Standing
    <2>2. PICK q \in Migrators : Begin(q) \/ Migrate(q) \/ Fail(q) \/ Provision(q) \/ Finish(q)
      BY DEF Next
    <2>3. q = p
      <3> SUFFICES ASSUME q # p PROVE run'[p] = run[p]
        OBVIOUS
      <3>1. CASE Begin(q) \/ Fail(q) \/ Finish(q) \/ NoRole(q)
        BY <2>1, <3>1 DEF Begin, Fail, Finish, NoRole
      <3>2. CASE LockAndRead(q)
        BY <2>1, <3>2 DEF LockAndRead, ReadLedger
      <3>3. CASE Skip(q) \/ Commit(q)
        BY <2>1, <3>3 DEF Skip, Commit
      <3>4. CASE Apply(q)
        BY <2>1, <3>4 DEF Apply
      <3>5. CASE CheckRole(q) \/ ConfigureRole(q) \/ GrantTables(q) \/ GrantDefaults(q)
        BY <2>1, <3>5 DEF CheckRole, ConfigureRole, GrantTables, GrantDefaults
      <3> QED
        BY <2>2, <3>1, <3>2, <3>3, <3>4, <3>5 DEF Migrate, Provision
    <2>4. CASE Commit(p)
      BY <2>4, CommitLedger
    <2>5. CASE Skip(p) \/ Apply(p)
      BY <2>1, <2>5 DEF Skip, Apply, RunFields
    <2>6. CASE Fail(p)
      BY <2>1, <2>6 DEF Fail, NoRun
    <2> QED
      BY <2>2, <2>3, <2>4, <2>5, <2>6
         DEF Begin, Migrate, Provision, Finish, LockAndRead, ReadLedger, NoRole, CheckRole,
             ConfigureRole, GrantTables, GrantDefaults
  <1> QED
    BY <1>1, AlwaysIInv, PTL DEF Spec, CommitsOwnSchema

(* ProvisionRuntimeRole (db.go:256): a migration process that ends well     *)
(* leaves a role that can use every table of its release.                   *)
THEOREM RoleReadyHolds == Spec => []RoleReady
  <1>1. IInv => RoleReady
    BY DEF IInv, Standing, RoleReady
  <1> QED
    BY <1>1, AlwaysIInv, PTL

(* ApplyMigrations and ConfigureRuntimeRole together, as the run checks it. *)
THEOREM SchemaIsSound == Spec => []SchemaSound
  <1>1. LedgerTrue /\ NoSurprise /\ RoleReady => SchemaSound
    BY DEF SchemaSound
  <1> QED
    BY <1>1, LedgerHolds, NoSurpriseHolds, RoleReadyHolds, PTL

-----------------------------------------------------------------------------
(* The labels, for any processes and seeds.  A row is inserted under an id  *)
(* no row has, and what it replaces is there already: so what replaces a    *)
(* row, and so on, ends, and the last one in force is shown.                *)

LabelRows == {Row(item) : item \in Items}

Transactions ==
    [pc : {"idle", "open"}, seed : Seeds \cup {<< >>}, at : Nat \ {0}, rows : SUBSET LabelRows]

\* Committed or not.
AllRows == assertions \cup UNION {import[p].rows : p \in Processes}

RegistryTyped ==
    /\ assertions \subseteq LabelRows
    /\ import \in [Processes -> Transactions]
    /\ \A p \in Processes : import[p].pc = "open" => import[p].seed \in Seeds
    /\ imported \subseteq Seeds /\ now \in 0..MaxNow

\* What a transaction has been through is there for it.
ItemsStored ==
    \A p \in Processes : import[p].pc = "open" => \A i \in DOMAIN import[p].seed :
        i < import[p].at =>
            \E r \in Visible(p) :
                r.id = ID(import[p].seed[i]) /\ r.hash = Hash(import[p].seed[i])

Founded(rows) == \A r \in rows : r.supersedes # NoID => \E t \in rows : t.id = r.supersedes

\* Among any rows one is not replaced by another of them.
Ends(rows) == \A S \in SUBSET rows : S # {} => \E t \in S : \A s \in S : s.supersedes # t.id

RegistryInv ==
    /\ RegistryTyped /\ ItemsStored /\ ImportsAgree
    /\ Founded(assertions) /\ \A p \in Processes : Founded(Visible(p))
    /\ Ends(AllRows)

LEMMA LabelRowIs ==
  ASSUME NEW item \in Items
  PROVE  /\ Row(item) \in LabelRows
         /\ Row(item).id = ID(item) /\ Row(item).hash = Hash(item)
         /\ Row(item).supersedes = item.supersedes
         /\ ID(item) \in STRING \X STRING
  BY DEF LabelRows, Row, Items, ID

LEMMA LabelRowTyped ==
  ASSUME NEW r \in LabelRows
  PROVE  r.from \in Nat /\ r.to \in Nat /\ r.id \in STRING \X STRING
  BY DEF LabelRows, Row, Items, ID

LEMMA RegistryInit ==
  ASSUME LabelInit
  PROVE  RegistryInv
  <1>1. /\ assertions = {} /\ imported = {} /\ now = 0
        /\ import = [p \in Processes |-> NoImport]
    BY DEF LabelInit
  <1>2. NoImport \in Transactions /\ NoImport.rows = {} /\ NoImport.pc = "idle"
    BY DEF NoImport, Transactions
  <1>3. RegistryTyped
    BY <1>1, <1>2, LabelAssumption DEF RegistryTyped
  <1>4. AllRows = {} /\ \A p \in Processes : Visible(p) = {}
    BY <1>1, <1>2 DEF AllRows, Visible
  <1> QED
    BY <1>1, <1>2, <1>3, <1>4 DEF RegistryInv, ItemsStored, ImportsAgree, Founded, Ends

(* The item a transaction is at.                                            *)
LEMMA ItemIs ==
  ASSUME RegistryInv, NEW p \in Processes, InTransaction(p)
  PROVE  /\ Item(p) \in Items
         /\ import[p].at \in DOMAIN import[p].seed
         /\ Item(p) = import[p].seed[import[p].at]
  <1>1. import[p].seed \in Seq(Items) /\ import[p].at \in Nat \ {0}
        /\ import[p].at <= Len(import[p].seed)
    BY LabelAssumption DEF RegistryInv, RegistryTyped, Transactions, InTransaction
  <1> QED
    BY <1>1 DEF Item

(* A transaction goes on, with a row or with none.                          *)
LEMMA Advances ==
  ASSUME RegistryInv, NEW p \in Processes, InTransaction(p),
         NEW rows \in SUBSET LabelRows, Advance(p, rows),
         UNCHANGED <<assertions, imported, now>>,
         \E r \in Visible(p) \cup rows :
             r.id = ID(Item(p)) /\ r.hash = Hash(Item(p)),
         \A r \in rows : r.supersedes # NoID =>
             \E t \in Visible(p) : t.id = r.supersedes,
         Ends(AllRows \cup rows)
  PROVE  RegistryInv'
  <1>1. /\ import[p] \in Transactions /\ import \in [Processes -> Transactions]
        /\ import[p].pc = "open" /\ import[p].seed \in Seeds
    BY DEF RegistryInv, RegistryTyped, InTransaction
  <1>2. /\ import'[p].pc = "open" /\ import'[p].seed = import[p].seed
        /\ import'[p].at = import[p].at + 1 /\ import'[p].rows = import[p].rows \cup rows
        /\ import'[p] \in Transactions
        /\ \A q \in Processes : q # p => import'[q] = import[q]
        /\ import' \in [Processes -> Transactions]
    <2>1. import'[p] = [import[p] EXCEPT !.at = import[p].at + 1, !.rows = import[p].rows \cup rows]
          /\ import' = [import EXCEPT ![p] = import'[p]]
      BY <1>1 DEF Advance
    <2>2. import[p].rows \cup rows \in SUBSET LabelRows /\ import[p].at + 1 \in Nat \ {0}
      BY <1>1 DEF Transactions
    <2>3. /\ import'[p].pc = "open" /\ import'[p].seed = import[p].seed
          /\ import'[p].at = import[p].at + 1 /\ import'[p].rows = import[p].rows \cup rows
          /\ import'[p] \in Transactions
      BY <1>1, <2>1, <2>2 DEF Transactions
    <2> QED
      BY <1>1, <2>1, <2>3
  <1>3. RegistryTyped'
    BY <1>1, <1>2 DEF RegistryInv, RegistryTyped
  <1>4. /\ Visible(p)' = Visible(p) \cup rows
        /\ \A q \in Processes : q # p => Visible(q)' = Visible(q)
    BY <1>2 DEF Visible
  <1>5. ItemsStored'
    <2> SUFFICES ASSUME NEW q \in Processes, import'[q].pc = "open",
                        NEW i \in DOMAIN import'[q].seed, i < import'[q].at
                 PROVE  \E r \in Visible(q)' :
                            /\ r.id = ID(import'[q].seed[i])
                            /\ r.hash = Hash(import'[q].seed[i])
      BY DEF ItemsStored, ID, Hash
    <2>1. CASE q # p
      BY <1>2, <1>4, <2>1 DEF RegistryInv, ItemsStored
    <2>2. CASE q = p /\ i = import[p].at
      BY <1>2, <1>4, <2>2, ItemIs
    <2>3. CASE q = p /\ i # import[p].at
      <3>1. i \in Nat /\ import[p].at \in Nat /\ i < import[p].at /\ i \in DOMAIN import[p].seed
        BY <1>1, <1>2, <2>3, LabelAssumption DEF Transactions
      <3> QED
        BY <1>1, <1>2, <1>4, <2>3, <3>1 DEF RegistryInv, ItemsStored
    <2> QED
      BY <2>1, <2>2, <2>3
  <1>6. \A q \in Processes : Founded(Visible(q))'
    BY <1>4 DEF RegistryInv, Founded
  <1>7. Ends(AllRows)'
    <2>1. AllRows' \subseteq AllRows \cup rows
      BY <1>2 DEF AllRows
    <2> QED
      BY <2>1 DEF Ends
  <1>8. ImportsAgree' /\ Founded(assertions)'
    BY DEF RegistryInv, ImportsAgree, Founded, ID, Hash
  <1> QED
    BY <1>3, <1>5, <1>6, <1>7, <1>8 DEF RegistryInv

LEMMA InsertKeeps ==
  ASSUME RegistryInv, NEW p \in Processes, InsertAssertion(p)
  PROVE  RegistryInv'
  <1> DEFINE item == Item(p)
             new == Row(item)
  <1>1. /\ InTransaction(p) /\ Holders(p) = {} /\ Existing(p) = {}
        /\ MayReplace(p) /\ Advance(p, {new}) /\ UNCHANGED <<assertions, imported, now>>
    BY DEF InsertAssertion
  <1>2. item \in Items
    BY <1>1, ItemIs
  <1>3. /\ new \in LabelRows /\ new.id = ID(item) /\ new.hash = Hash(item)
        /\ new.supersedes = item.supersedes /\ new.id # NoID
    BY <1>2, LabelRowIs, LabelAssumption
  <1>4. \A r \in AllRows : r.id # new.id
    BY <1>1, <1>3 DEF AllRows, Holders, Existing, Visible
  <1>5. new.supersedes # NoID => \E t \in Visible(p) : t.id = new.supersedes
    BY <1>1, <1>3 DEF MayReplace
  <1>6. \A r \in AllRows \cup {new} : r.supersedes # new.id
    <2>1. ASSUME NEW r \in AllRows, r.supersedes # NoID
          PROVE  \E t \in AllRows : t.id = r.supersedes
      <3>1. PICK rows : r \in rows /\ rows \subseteq AllRows /\ Founded(rows)
        BY DEF RegistryInv, AllRows, Visible
      <3> QED
        BY <2>1, <3>1 DEF Founded
    <2>2. Visible(p) \subseteq AllRows
      BY DEF AllRows, Visible
    <2> QED
      BY <1>3, <1>4, <1>5, <2>1, <2>2
  <1>7. Ends(AllRows \cup {new})
    <2> SUFFICES ASSUME NEW S \in SUBSET (AllRows \cup {new}), S # {}
                 PROVE  \E t \in S : \A s \in S : s.supersedes # t.id
      BY DEF Ends
    <2>1. CASE new \in S
      BY <1>6, <2>1
    <2>2. CASE new \notin S
      BY <2>2 DEF RegistryInv, Ends
    <2> QED
      BY <2>1, <2>2
  <1> HIDE DEF new
  <1>8. {new} \in SUBSET LabelRows
    BY <1>3
  <1> QED
    BY <1>1, <1>3, <1>5, <1>7, <1>8, Advances

LEMMA KeepKeeps ==
  ASSUME RegistryInv, NEW p \in Processes, KeepAssertion(p)
  PROVE  RegistryInv'
  <1>1. /\ InTransaction(p) /\ Advance(p, {}) /\ UNCHANGED <<assertions, imported, now>>
        /\ \E r \in Visible(p) :
              r.id = ID(Item(p)) /\ r.hash = Hash(Item(p))
    BY DEF KeepAssertion, Existing
  <1>2. Ends(AllRows \cup {})
    BY DEF RegistryInv, Ends
  <1> QED
    BY <1>1, <1>2, Advances

LEMMA ReadSeedKeeps ==
  ASSUME RegistryInv, NEW p \in Processes, ReadSeed(p)
  PROVE  RegistryInv'
  <1>1. PICK s \in Seeds :
          /\ import' = [import EXCEPT ![p] = [NoImport EXCEPT !.pc = "open", !.seed = s]]
          /\ assertions' = assertions /\ imported' = imported /\ now' = now
    BY DEF ReadSeed
  <1>2. import \in [Processes -> Transactions]
    BY DEF RegistryInv, RegistryTyped
  <1>3. /\ import'[p].pc = "open" /\ import'[p].seed = s /\ import'[p].at = 1
        /\ import'[p].rows = {} /\ import'[p] \in Transactions
        /\ \A q \in Processes : q # p => import'[q] = import[q]
        /\ import' \in [Processes -> Transactions]
    <2>1. import'[p] = [pc |-> "open", seed |-> s, at |-> 1, rows |-> {}]
          /\ import' = [import EXCEPT ![p] = import'[p]]
      BY <1>1, <1>2 DEF NoImport
    <2>2. import'[p] \in Transactions
      BY <2>1 DEF Transactions
    <2> QED
      BY <1>2, <2>1, <2>2
  <1>4. RegistryTyped'
    BY <1>1, <1>3 DEF RegistryInv, RegistryTyped
  <1>5. /\ Visible(p)' = assertions
        /\ \A q \in Processes : q # p => Visible(q)' = Visible(q)
    BY <1>1, <1>3 DEF Visible
  <1>6. ItemsStored'
    <2> SUFFICES ASSUME NEW q \in Processes, import'[q].pc = "open",
                        NEW i \in DOMAIN import'[q].seed, i < import'[q].at
                 PROVE  \E r \in Visible(q)' :
                            /\ r.id = ID(import'[q].seed[i])
                            /\ r.hash = Hash(import'[q].seed[i])
      BY DEF ItemsStored, ID, Hash
    <2>1. CASE q = p
      <3>1. s \in Seq(Items)
        BY LabelAssumption
      <3> QED
        BY <1>3, <2>1, <3>1
    <2>2. CASE q # p
      BY <1>3, <1>5, <2>2 DEF RegistryInv, ItemsStored
    <2> QED
      BY <2>1, <2>2
  <1>7. Founded(assertions)' /\ \A q \in Processes : Founded(Visible(q))'
    BY <1>1, <1>5 DEF RegistryInv, Founded
  <1>8. AllRows' \subseteq AllRows
    BY <1>1, <1>3 DEF AllRows
  <1>9. Ends(AllRows)' /\ ImportsAgree'
    BY <1>1, <1>8 DEF RegistryInv, Ends, ImportsAgree, ID, Hash
  <1> QED
    BY <1>4, <1>6, <1>7, <1>9 DEF RegistryInv

LEMMA CloseKeeps ==
  ASSUME RegistryInv, NEW p \in Processes, import[p].pc = "open",
         Close(p), now' = now,
         \/ assertions' = assertions /\ imported' = imported
         \/ /\ assertions' = assertions \cup import[p].rows
            /\ imported' = imported \cup {import[p].seed}
            /\ import[p].at > Len(import[p].seed)
  PROVE  RegistryInv'
  <1>1. import \in [Processes -> Transactions] /\ import[p] \in Transactions
    BY DEF RegistryInv, RegistryTyped
  <1>2. /\ import'[p].pc = "idle" /\ import'[p].rows = {} /\ import'[p] \in Transactions
        /\ \A q \in Processes : q # p => import'[q] = import[q]
        /\ import' \in [Processes -> Transactions]
    BY <1>1 DEF Close, NoImport, Transactions
  <1>3. assertions \subseteq assertions' /\ assertions' \subseteq Visible(p)
    BY DEF Visible
  <1>4. RegistryTyped'
    BY <1>1, <1>2 DEF RegistryInv, RegistryTyped, Transactions
  <1>5. /\ Visible(p)' = assertions'
        /\ \A q \in Processes : q # p => Visible(q)' = Visible(q) \cup assertions'
    BY <1>2, <1>3 DEF Visible
  <1>6. ItemsStored'
    <2> SUFFICES ASSUME NEW q \in Processes, import'[q].pc = "open",
                        NEW i \in DOMAIN import'[q].seed, i < import'[q].at
                 PROVE  \E r \in Visible(q)' :
                            /\ r.id = ID(import'[q].seed[i])
                            /\ r.hash = Hash(import'[q].seed[i])
      BY DEF ItemsStored, ID, Hash
    <2>1. q # p
      BY <1>2
    <2> QED
      BY <1>2, <1>5, <2>1 DEF RegistryInv, ItemsStored
  <1>7. Founded(assertions)'
    BY DEF RegistryInv, Founded, Visible
  <1>8. \A q \in Processes : Founded(Visible(q))'
    BY <1>5, <1>7 DEF RegistryInv, Founded
  <1>9. Ends(AllRows)'
    <2>1. AllRows' \subseteq AllRows
      BY <1>2 DEF AllRows
    <2> QED
      BY <2>1 DEF RegistryInv, Ends
  <1>10. ImportsAgree'
    <2> SUFFICES ASSUME NEW s \in imported', NEW i \in DOMAIN s
                 PROVE  \E r \in assertions' : r.id = ID(s[i]) /\ r.hash = Hash(s[i])
      BY DEF ImportsAgree, ID, Hash
    <2>1. CASE s \in imported
      BY <1>3, <2>1 DEF RegistryInv, ImportsAgree
    <2>2. CASE s \notin imported
      <3>1. /\ s = import[p].seed /\ assertions' = Visible(p)
            /\ import[p].at > Len(import[p].seed)
        BY <2>2 DEF Visible
      <3>2. s \in Seq(Items) /\ import[p].at \in Nat
        BY <1>1, <3>1, LabelAssumption DEF RegistryInv, RegistryTyped, Transactions
      <3>3. i < import[p].at
        BY <3>1, <3>2
      <3> QED
        BY <3>1, <3>3 DEF RegistryInv, ItemsStored
    <2> QED
      BY <2>1, <2>2
  <1> QED
    BY <1>4, <1>6, <1>7, <1>8, <1>9, <1>10 DEF RegistryInv

LEMMA RegistryInductive ==
  ASSUME RegistryInv, [LabelNext]_labelVars
  PROVE  RegistryInv'
  <1>1. CASE Tick \/ UNCHANGED labelVars
    <2>1. /\ assertions' = assertions /\ import' = import /\ imported' = imported
          /\ now' \in 0..MaxNow
      BY <1>1, LabelAssumption DEF Tick, labelVars, RegistryInv, RegistryTyped
    <2>2. RegistryTyped' /\ AllRows' = AllRows /\ \A p \in Processes : Visible(p)' = Visible(p)
      BY <2>1 DEF RegistryInv, RegistryTyped, AllRows, Visible
    <2>3. ItemsStored' /\ ImportsAgree'
      BY <2>1, <2>2 DEF RegistryInv, ItemsStored, ImportsAgree, ID, Hash
    <2> QED
      BY <2>1, <2>2, <2>3 DEF RegistryInv, Founded, Ends
  <1>2. ASSUME NEW p \in Processes, ReadSeed(p) PROVE RegistryInv'
    BY <1>2, ReadSeedKeeps
  <1>3. ASSUME NEW p \in Processes, InsertAssertion(p) PROVE RegistryInv'
    BY <1>3, InsertKeeps
  <1>4. ASSUME NEW p \in Processes, KeepAssertion(p) PROVE RegistryInv'
    BY <1>4, KeepKeeps
  <1>5. ASSUME NEW p \in Processes, Rollback(p) \/ CommitImport(p) PROVE RegistryInv'
    BY <1>5, CloseKeeps DEF Rollback, CommitImport
  <1> QED
    BY <1>1, <1>2, <1>3, <1>4, <1>5 DEF LabelNext

(* A row in force is shown, or the last one in force of those that stand    *)
(* for it is.                                                               *)
LEMMA StandInFollows == RegistryInv => StandIn
  <1> SUFFICES ASSUME RegistryInv, NEW r \in assertions, InForce(r)
               PROVE  \E c \in Current : c.id = r.id \/ r.id \in Replaced(c)
    BY DEF StandIn
  <1> DEFINE S == {t \in assertions : InForce(t) /\ (t.id = r.id \/ r.id \in Replaced(t))}
  <1>1. S \in SUBSET AllRows /\ r \in S
    BY DEF AllRows
  <1>2. PICK c \in S : \A s \in S : s.supersedes # c.id
    BY <1>1 DEF RegistryInv, Ends
  <1>3. ASSUME NEW s \in assertions, s.supersedes = c.id PROVE ~InForce(s)
    <2>1. r.id \in Replaced(s)
      BY <1>2, <1>3 DEF Replaced, Closed
    <2> QED
      BY <1>2, <1>3, <2>1
  <1> QED
    BY <1>2, <1>3 DEF Current

(* A release's labels are stored with their evidence once its import has    *)
(* ended well, and a label that was replaced too early is shown again       *)
(* (InsertLabelAssertions and currentLabelPredicate, db/labels.go).         *)
THEOREM RegistryHolds == LabelSpec => []LabelsHold
  <1>1. LabelInit => RegistryInv
    BY RegistryInit
  <1>2. RegistryInv /\ [LabelNext]_labelVars => RegistryInv'
    BY RegistryInductive
  <1>3. RegistryInv => LabelsHold
    <2>1. RegistryInv => LabelTypeOK
      BY LabelRowTyped DEF RegistryInv, RegistryTyped, LabelTypeOK, Transactions
    <2> QED
      BY <2>1, StandInFollows DEF RegistryInv, LabelsHold
  <1> QED
    BY <1>1, <1>2, <1>3, PTL DEF LabelSpec

-----------------------------------------------------------------------------
(* The lookups, for any adapter and any faults.  What is read is so when it  *)
(* is read, and that moment is remembered until the answer is given.         *)

Codes == {"none", "code", "delegated"}
LabelNames == {"none", "service", "exchange"}

Requests ==
    [pc : {"idle", "balance", "activity", "entity", "labels", "transaction", "answered", "refused"},
     of : {"none", "address", "transaction"}, answer : Fields]

Moments ==
    [balances : SUBSET Amounts, nonces : SUBSET Amounts, codes : SUBSET Codes,
     labels : SUBSET LabelNames, blocks : SUBSET (0..MaxBlock)]

LookupTyped ==
    /\ account \in [balance : Amounts, nonce : Amounts, code : Codes]
    /\ network \in Networks /\ label \in LabelNames
    /\ tx \in [kind : {"transfer", "call", "creation"}, value : Amounts, block : 0..MaxBlock]
    /\ request \in Requests
    /\ seen \in Moments

\* The steps of the two requests; until the answer the present is remembered.
Remembered ==
    /\ request.pc \in {"balance", "activity", "entity", "labels"} =>
         /\ request.of = "address"
         /\ account.balance \in seen.balances /\ account.nonce \in seen.nonces
         /\ account.code \in seen.codes /\ label \in seen.labels
    /\ request.pc = "transaction" => request.of = "transaction" /\ tx.block \in seen.blocks
    /\ request.pc = "idle" => request.of = "none"

NumbersSafe == "malformed" \in Faults => ~ZeroIfMalformed

NumbersSeen ==
    request.of = "address" =>
        /\ request.answer.balance \in seen.balances \cup {Unread}
        /\ request.answer.nonce \in seen.nonces \cup {Unread}

EntitySeen ==
    request.of = "address" =>
        /\ request.answer.entity = "CONTRACT" => "code" \in seen.codes
        /\ request.answer.entity = "EOA" => seen.codes \cap {"none", "delegated"} # {}
        /\ request.answer.entity = "EXCHANGE" => "exchange" \in seen.labels

LookupInv ==
    /\ LookupTyped /\ Remembered
    /\ NumbersSafe => NumbersSeen
    /\ "malformed" \notin Faults => EntitySeen
    /\ Adapter \notin {"tron", "ton"} => FoundWasMined

LEMMA BlankIs ==
  /\ Blank \in Fields
  /\ Blank.balance = Unread /\ Blank.nonce = Unread
  /\ Blank.entity = "UNSPECIFIED"
  /\ 0 \in 0..MaxBlock
  <1>1. 0 \in 0..MaxBlock
    BY LookupAssumption
  <1> QED
    BY <1>1 DEF Blank, Fields, Amounts

LEMMA IdleIs ==
  /\ Idle \in Requests /\ Idle.pc = "idle" /\ Idle.of = "none"
  /\ Nothing \in Moments
  BY BlankIs DEF Idle, Requests, Nothing, Moments

LEMMA InitLookupInv == ASSUME LookupInit PROVE LookupInv
  <1>1. /\ network \in Networks /\ request = Idle /\ seen = Nothing /\ label = "none"
        /\ account \in [balance : Amounts, nonce : {0}, code : {"none", "code"}]
        /\ tx \in [kind : {"transfer", "call", "creation"}, value : Amounts,
                   block : {Absent}]
    BY DEF LookupInit
  <1>2. LookupTyped
    BY <1>1, IdleIs, BlankIs DEF LookupTyped, Codes, LabelNames, Amounts, Absent
  <1> QED
    BY <1>1, <1>2, IdleIs
    DEF LookupInv, Remembered, NumbersSeen, EntitySeen, FoundWasMined, Showing

(* The chain or the labels move, and the moment is remembered.              *)
LEMMA WitnessedKeeps ==
  ASSUME LookupInv, LookupTyped', network' = network, request' = request,
         Witnessed(account', label', tx')
  PROVE  LookupInv'
  <1>1. request \in Requests /\ seen \in Moments /\ request.pc \notin {"answered", "refused"}
    BY DEF LookupInv, LookupTyped, Witnessed
  <1>2. CASE request.of = "address"
    <2>1. seen' = [seen EXCEPT !.balances = seen.balances \cup {account'.balance},
                               !.nonces = seen.nonces \cup {account'.nonce},
                               !.codes = seen.codes \cup {account'.code},
                               !.labels = seen.labels \cup {label'}]
      BY <1>2 DEF Witnessed
    <2>2. /\ seen'.balances = seen.balances \cup {account'.balance}
          /\ seen'.nonces = seen.nonces \cup {account'.nonce}
          /\ seen'.codes = seen.codes \cup {account'.code}
          /\ seen'.labels = seen.labels \cup {label'}
      BY <1>1, <2>1 DEF Moments
    <2> QED
      BY <1>1, <1>2, <2>2
      DEF LookupInv, Remembered, NumbersSafe, NumbersSeen, EntitySeen, FoundWasMined, Showing,
          Adapter, Faults, ZeroIfMalformed
  <1>3. CASE request.of = "transaction"
    <2>1. seen' = [seen EXCEPT !.blocks = seen.blocks \cup {tx'.block}]
      BY <1>3 DEF Witnessed
    <2>2. seen'.blocks = seen.blocks \cup {tx'.block}
      BY <1>1, <2>1 DEF Moments
    <2> QED
      BY <1>1, <1>3, <2>2
      DEF LookupInv, Remembered, NumbersSafe, NumbersSeen, EntitySeen, FoundWasMined, Showing,
          Adapter, Faults, ZeroIfMalformed
  <1>4. CASE request.of = "none"
    BY <1>1, <1>4
    DEF LookupInv, Remembered, NumbersSafe, NumbersSeen, EntitySeen, FoundWasMined, Showing,
          Adapter, Faults, ZeroIfMalformed
  <1> QED
    BY <1>1, <1>2, <1>3, <1>4 DEF Requests

LEMMA WitnessedTyped ==
  ASSUME LookupInv, network' = network, Witnessed(account', label', tx'),
         account' \in [balance : Amounts, nonce : Amounts, code : Codes],
         label' \in LabelNames,
         tx' \in [kind : {"transfer", "call", "creation"}, value : Amounts,
                  block : 0..MaxBlock],
         request' = request
  PROVE  LookupInv'
  <1>1. network' \in Networks /\ seen \in Moments /\ request \in Requests
    BY DEF LookupInv, LookupTyped
  <1>2. seen' \in Moments
    <2>1. CASE request.of = "address"
      <3>1. /\ seen.balances \cup {account'.balance} \in SUBSET Amounts
            /\ seen.nonces \cup {account'.nonce} \in SUBSET Amounts
            /\ seen.codes \cup {account'.code} \in SUBSET Codes
            /\ seen.labels \cup {label'} \in SUBSET LabelNames
        BY <1>1 DEF Moments
      <3> QED
        BY <1>1, <2>1, <3>1 DEF Witnessed, Moments
    <2>2. CASE request.of = "transaction"
      <3>1. seen.blocks \cup {tx'.block} \in SUBSET (0..MaxBlock)
        BY <1>1 DEF Moments
      <3> QED
        BY <1>1, <2>2, <3>1 DEF Witnessed, Moments
    <2>3. CASE request.of = "none"
      BY <1>1, <2>3 DEF Witnessed
    <2> QED
      BY <1>1, <2>1, <2>2, <2>3 DEF Requests
  <1>3. LookupTyped'
    BY <1>1, <1>2 DEF LookupTyped
  <1> QED
    BY <1>3, WitnessedKeeps

LEMMA ChainMoves ==
  ASSUME LookupInv, network' = network,
         AccountMoves \/ Relabel \/ TransactionMoves
  PROVE  LookupInv'
  <1>0. /\ account \in [balance : Amounts, nonce : Amounts, code : Codes]
        /\ label \in LabelNames
        /\ tx \in [kind : {"transfer", "call", "creation"}, value : Amounts,
                   block : 0..MaxBlock]
    BY DEF LookupInv, LookupTyped
  <1>1. CASE AccountMoves
    <2>1. account' \in [balance : Amounts, nonce : Amounts, code : Codes]
      BY <1>0, <1>1 DEF AccountMoves, Codes, Amounts
    <2>2. /\ label' = label /\ tx' = tx /\ request' = request
          /\ Witnessed(account', label, tx)
      BY <1>1 DEF AccountMoves
    <2>3. Witnessed(account', label', tx')
      BY <2>2
    <2> QED
      BY <1>0, <2>1, <2>2, <2>3, WitnessedTyped
  <1>2. CASE Relabel
    <2>1. /\ label' \in LabelNames /\ account' = account /\ tx' = tx /\ request' = request
          /\ Witnessed(account, label', tx)
      BY <1>2 DEF Relabel, LabelNames
    <2>2. Witnessed(account', label', tx')
      BY <2>1
    <2> QED
      BY <1>0, <2>1, <2>2, WitnessedTyped
  <1>3. CASE TransactionMoves
    <2>1. /\ label' = label /\ account' = account /\ request' = request
          /\ Witnessed(account, label, tx')
          /\ tx' \in {[tx EXCEPT !.block = n] : n \in (0..MaxBlock) \ {tx.block}}
      BY <1>3 DEF TransactionMoves
    <2>2. tx' \in [kind : {"transfer", "call", "creation"}, value : Amounts,
                   block : 0..MaxBlock]
      BY <1>0, <2>1
    <2>3. Witnessed(account', label', tx')
      BY <2>1
    <2> QED
      BY <1>0, <2>1, <2>2, <2>3, WitnessedTyped
  <1> QED
    BY <1>1, <1>2, <1>3

(* What the adapters make of a reply.                                       *)
LEMMA NumberOfIs ==
  ASSUME LookupInv, NEW truth \in Amounts, NEW reply \in Replies
  PROVE  /\ NumberOf(reply, truth) \in Amounts \cup {Unread}
         /\ NumbersSafe => NumberOf(reply, truth) \in {truth, Unread}
  <1>1. reply \in {"told", "fails", "malformed"} /\ (reply = "malformed" => "malformed" \in Faults)
    BY LookupAssumption DEF LookupInv, LookupTyped, Faults, Replies
  <1>2. 0 \in Amounts
    BY DEF Amounts
  <1> QED
    BY <1>1, <1>2 DEF NumberOf, NumbersSafe

(* A handler reads, and the chain stands still meanwhile.                   *)
LEMMA RequestSteps ==
  ASSUME LookupInv, network' = network, request' \in Requests, UNCHANGED <<account, label, tx, seen>>,
         Remembered',
         NumbersSafe => NumbersSeen', "malformed" \notin Faults => EntitySeen',
         Adapter \notin {"tron", "ton"} => FoundWasMined'
  PROVE  LookupInv'
  <1>1. LookupTyped'
    BY DEF LookupInv, LookupTyped
  <1> QED
    BY <1>1 DEF LookupInv, NumbersSafe, Adapter, Faults, ZeroIfMalformed

LEMMA BeginKeeps == ASSUME LookupInv, network' = network, BeginLookup PROVE LookupInv'
  <1>0. LookupTyped
    BY DEF LookupInv
  <1>1. CASE /\ request' = [Idle EXCEPT !.pc = "balance", !.of = "address"]
             /\ seen' = [Nothing EXCEPT !.balances = {account.balance},
                            !.nonces = {account.nonce}, !.codes = {account.code}, !.labels = {label}]
    <2>1. /\ request' = [pc |-> "balance", of |-> "address", answer |-> Blank]
          /\ seen' = [balances |-> {account.balance}, nonces |-> {account.nonce},
                      codes |-> {account.code}, labels |-> {label}, blocks |-> {}]
      BY <1>1 DEF Idle, Nothing
    <2>2. request' \in Requests
      BY <2>1, BlankIs DEF Requests
    <2>3. seen' \in Moments
      BY <1>0, <2>1 DEF LookupTyped, Moments
    <2>4. /\ request'.answer = Blank /\ request'.of = "address" /\ request'.pc = "balance"
          /\ seen'.balances = {account.balance} /\ seen'.nonces = {account.nonce}
          /\ seen'.codes = {account.code} /\ seen'.labels = {label}
      BY <2>1
    <2>5. account' = account /\ label' = label /\ tx' = tx
      BY DEF BeginLookup
    <2>6. LookupTyped'
      BY <1>0, <2>2, <2>3, <2>5 DEF LookupTyped
    <2> QED
      BY <2>4, <2>5, <2>6, BlankIs
      DEF LookupInv, Remembered, NumbersSeen, EntitySeen, FoundWasMined, Showing
  <1>2. CASE /\ request' = [Idle EXCEPT !.pc = "transaction", !.of = "transaction"]
             /\ seen' = [Nothing EXCEPT !.blocks = {tx.block}]
    <2>1. /\ request' = [pc |-> "transaction", of |-> "transaction", answer |-> Blank]
          /\ seen' = [balances |-> {}, nonces |-> {}, codes |-> {}, labels |-> {},
                      blocks |-> {tx.block}]
      BY <1>2 DEF Idle, Nothing
    <2>2. request' \in Requests
      BY <2>1, BlankIs DEF Requests
    <2>3. seen' \in Moments
      BY <1>0, <2>1 DEF LookupTyped, Moments
    <2>4. request'.of = "transaction" /\ request'.pc = "transaction" /\ seen'.blocks = {tx.block}
      BY <2>1
    <2>5. account' = account /\ label' = label /\ tx' = tx
      BY DEF BeginLookup
    <2>6. LookupTyped'
      BY <1>0, <2>2, <2>3, <2>5 DEF LookupTyped
    <2> QED
      BY <2>4, <2>5, <2>6
      DEF LookupInv, Remembered, NumbersSeen, EntitySeen, FoundWasMined, Showing
  <1> QED
    BY <1>1, <1>2 DEF BeginLookup

LEMMA DoneKeeps == ASSUME LookupInv, network' = network, Done PROVE LookupInv'
  <1>1. LookupTyped /\ request' = Idle /\ seen' = Nothing
        /\ account' = account /\ label' = label /\ tx' = tx
    BY DEF LookupInv, Done
  <1>2. LookupTyped'
    BY <1>1, IdleIs DEF LookupTyped
  <1> QED
    BY <1>1, <1>2, IdleIs
    DEF LookupInv, Remembered, NumbersSeen, EntitySeen, FoundWasMined, Showing

(* The balance and the activity.                                            *)
LEMMA NumbersRead ==
  ASSUME LookupInv, network' = network, ReadBalance \/ ReadActivity
  PROVE  LookupInv'
  <1>1. /\ request \in Requests /\ account.balance \in Amounts
        /\ account.nonce \in Amounts
        /\ UNCHANGED <<account, label, tx, seen>> /\ request.pc \in {"balance", "activity"}
    BY DEF LookupInv, LookupTyped, ReadBalance, ReadActivity
  <1>2. PICK pc \in {"activity", "entity"}, b \in Amounts \cup {Unread},
             n \in Amounts \cup {Unread} :
          /\ request' = [request EXCEPT !.pc = pc, !.answer.balance = b, !.answer.nonce = n]
          /\ NumbersSafe => b \in {request.answer.balance, account.balance, Unread}
          /\ NumbersSafe => n \in {request.answer.nonce, account.nonce, Unread}
    <2>0. /\ request.answer.balance \in Amounts \cup {Unread}
          /\ request.answer.nonce \in Amounts \cup {Unread}
          /\ request.answer \in Fields
      BY <1>1 DEF Requests, Fields
    <2>1. CASE ReadBalance
      <3>1. PICK reply \in Replies :
              request' = [request EXCEPT !.pc = "activity",
                             !.answer.balance = NumberOf(reply, account.balance)]
        BY <2>1 DEF ReadBalance, BalanceOf
      <3>2. request' = [request EXCEPT !.pc = "activity",
                             !.answer.balance = NumberOf(reply, account.balance),
                             !.answer.nonce = request.answer.nonce]
        BY <1>1, <2>0, <3>1 DEF Requests, Fields
      <3> QED
        BY <1>1, <2>0, <3>2, NumberOfIs
    <2>2. CASE ReadActivity /\ ShowsActivity
      <3>1. PICK reply \in Replies :
              request' = [request EXCEPT !.pc = "entity",
                             !.answer.nonce = NumberOf(reply, account.nonce)]
        BY <2>2 DEF ReadActivity
      <3>2. request' = [request EXCEPT !.pc = "entity",
                             !.answer.balance = request.answer.balance,
                             !.answer.nonce = NumberOf(reply, account.nonce)]
        BY <1>1, <2>0, <3>1 DEF Requests, Fields
      <3> QED
        BY <1>1, <2>0, <3>2, NumberOfIs
    <2>3. CASE ReadActivity /\ ~ShowsActivity
      <3>1. request' = [request EXCEPT !.pc = "entity"]
        BY <2>3 DEF ReadActivity
      <3>2. request' = [request EXCEPT !.pc = "entity",
                             !.answer.balance = request.answer.balance,
                             !.answer.nonce = request.answer.nonce]
        BY <1>1, <2>0, <3>1 DEF Requests, Fields
      <3> QED
        BY <2>0, <3>2
    <2> QED
      BY <2>1, <2>2, <2>3
  <1>3. /\ request' \in Requests /\ request'.pc = pc /\ request'.of = request.of
        /\ request'.answer.balance = b /\ request'.answer.nonce = n
        /\ request'.answer.entity = request.answer.entity
    BY <1>1, <1>2 DEF Requests, Fields
  <1>4. request.of = "address" /\ account.balance \in seen.balances /\ account.nonce \in seen.nonces
    BY <1>1 DEF LookupInv, Remembered
  <1>5. Remembered' /\ FoundWasMined'
    BY <1>1, <1>3, <1>4 DEF LookupInv, Remembered, FoundWasMined, Showing
  <1>6. (NumbersSafe => NumbersSeen') /\ ("malformed" \notin Faults => EntitySeen')
    BY <1>1, <1>2, <1>3, <1>4 DEF LookupInv, NumbersSeen, EntitySeen
  <1> QED
    BY <1>1, <1>3, <1>5, <1>6, RequestSteps

(* The entity type and the labels.                                          *)
LEMMA EntityRead ==
  ASSUME LookupInv, network' = network, ReadEntity \/ ReadLabels
  PROVE  LookupInv'
  <1>1. /\ request \in Requests /\ account.code \in Codes
        /\ UNCHANGED <<account, label, tx, seen>> /\ request.pc \in {"entity", "labels"}
    BY DEF LookupInv, LookupTyped, ReadEntity, ReadLabels
  <1>2. /\ request.of = "address" /\ account.code \in seen.codes /\ label \in seen.labels
    BY <1>1 DEF LookupInv, Remembered
  <1>3. PICK pc \in {"labels", "answered"}, available \in BOOLEAN,
             entity \in {request.answer.entity, "CONTRACT", "EOA", "EXCHANGE"} :
          /\ request' = [request EXCEPT !.pc = pc, !.answer.entity = entity,
                                        !.answer.entityAvailable = available]
          /\ \/ entity = request.answer.entity
             \/ entity = "EXCHANGE" /\ label = "exchange"
             \/ entity = "CONTRACT" /\ account.code = "code"
             \/ entity = "EOA" /\ (account.code # "code" \/ "malformed" \in Faults)
    <2>0. /\ request.answer \in Fields /\ request.answer.entityAvailable \in BOOLEAN
      BY <1>1 DEF Requests, Fields
    <2>1. CASE \E pc \in {"labels", "answered"} : request' = [request EXCEPT !.pc = pc]
      <3>1. PICK pc \in {"labels", "answered"} : request' = [request EXCEPT !.pc = pc]
        BY <2>1
      <3>2. request' = [request EXCEPT !.pc = pc, !.answer.entity = request.answer.entity,
                                       !.answer.entityAvailable = request.answer.entityAvailable]
        BY <1>1, <2>0, <3>1 DEF Requests, Fields
      <3> QED
        BY <2>0, <3>2
    <2>2. CASE \E reply \in Replies \ {"fails"} :
                 request' = [request EXCEPT !.pc = "labels", !.answer.entity = EntityOf(reply),
                                            !.answer.entityAvailable = TRUE]
      <3>1. PICK reply \in Replies \ {"fails"} :
              request' = [request EXCEPT !.pc = "labels", !.answer.entity = EntityOf(reply),
                                         !.answer.entityAvailable = TRUE]
        BY <2>2
      <3>2. reply = "told" \/ "malformed" \in Faults
        BY LookupAssumption DEF LookupInv, LookupTyped, Faults, Replies
      <3>3. \/ EntityOf(reply) = "CONTRACT" /\ account.code = "code"
            \/ /\ EntityOf(reply) = "EOA"
               /\ account.code # "code" \/ "malformed" \in Faults
        BY <3>2 DEF EntityOf, CodeIsContract
      <3> QED
        BY <3>1, <3>3
    <2>3. CASE request' = [request EXCEPT !.pc = "answered", !.answer.entityAvailable = TRUE,
                     !.answer.entity = IF label = "exchange" THEN "EXCHANGE" ELSE @]
      <3>1. PICK entity : entity = IF label = "exchange" THEN "EXCHANGE" ELSE request.answer.entity
        OBVIOUS
      <3>2. request' = [request EXCEPT !.pc = "answered", !.answer.entity = entity,
                                       !.answer.entityAvailable = TRUE]
        BY <1>1, <2>0, <2>3, <3>1 DEF Requests, Fields
      <3> QED
        BY <3>1, <3>2
    <2> QED
      BY <2>1, <2>2, <2>3 DEF ReadEntity, ReadLabels
  <1>4. /\ request' \in Requests /\ request'.pc = pc /\ request'.of = request.of
        /\ request'.answer.balance = request.answer.balance
        /\ request'.answer.nonce = request.answer.nonce
        /\ request'.answer.entity = entity
    <2>1. request.answer \in Fields
      BY <1>1 DEF Requests
    <2>2. entity \in {"UNSPECIFIED", "EOA", "CONTRACT", "EXCHANGE"}
      BY <1>3, <2>1 DEF Fields
    <2> QED
      BY <1>1, <1>3, <2>1, <2>2 DEF Requests, Fields
  <1>5. Remembered' /\ FoundWasMined'
    BY <1>1, <1>2, <1>4 DEF LookupInv, Remembered, FoundWasMined, Showing
  <1>6. NumbersSafe => NumbersSeen'
    BY <1>1, <1>2, <1>4 DEF LookupInv, NumbersSeen
  <1>7. "malformed" \notin Faults => EntitySeen'
    BY <1>1, <1>2, <1>3, <1>4 DEF LookupInv, EntitySeen, Codes
  <1> QED
    BY <1>1, <1>4, <1>5, <1>6, <1>7, RequestSteps

LEMMA TransactionRead ==
  ASSUME LookupInv, network' = network, LookupTransaction
  PROVE  LookupInv'
  <1>1. /\ request \in Requests /\ request.answer \in Fields
        /\ tx.block \in 0..MaxBlock /\ tx.value \in Amounts
        /\ UNCHANGED <<account, label, tx, seen>> /\ request.pc = "transaction"
        /\ request.of = "transaction" /\ tx.block \in seen.blocks
    BY DEF LookupInv, LookupTyped, LookupTransaction, Remembered, Requests
  <1>2. CASE request' = [request EXCEPT !.pc = "refused"]
    <2>1. request' \in Requests /\ request'.of = "transaction" /\ request'.pc = "refused"
      BY <1>1, <1>2 DEF Requests
    <2>2. Remembered' /\ FoundWasMined' /\ NumbersSeen' /\ EntitySeen'
      BY <2>1 DEF Remembered, FoundWasMined, Showing, NumbersSeen, EntitySeen
    <2> QED
      BY <1>1, <2>1, <2>2, RequestSteps
  <1>3. CASE /\ Answered(tx)
             /\ request' = [request EXCEPT !.pc = "answered",
                              !.answer.block = BlockRead(tx),
                              !.answer.value = ValueRead(tx),
                              !.answer.formatted = Formatted(ValueRead(tx))]
    <2>1. BlockRead(tx) \in 0..MaxBlock
      BY <1>1, BlankIs DEF BlockRead
    <2>2. /\ ValueRead(tx) \in Amounts \cup {Unread}
          /\ Formatted(ValueRead(tx)) \in Amounts
      BY <1>1 DEF ValueRead, Formatted, Amounts
    <2>3. request' \in Requests
      BY <1>1, <1>3, <2>1, <2>2 DEF Requests, Fields
    <2>4. /\ request'.of = "transaction" /\ request'.pc = "answered"
          /\ request'.answer.block = BlockRead(tx)
      BY <1>1, <1>3 DEF Requests, Fields
    <2>5. Adapter \notin {"tron", "ton"} => FoundWasMined'
      BY <1>1, <1>3, <2>4
      DEF FoundWasMined, Showing, Answered, InReply, BlockRead,
          Absent
    <2>6. Remembered' /\ NumbersSeen' /\ EntitySeen'
      BY <2>4 DEF Remembered, NumbersSeen, EntitySeen
    <2> QED
      BY <1>1, <2>3, <2>5, <2>6, RequestSteps
  <1> QED
    BY <1>2, <1>3 DEF LookupTransaction

LEMMA LookupInductive ==
  ASSUME LookupInv, [LookupNext]_lookupVars
  PROVE  LookupInv'
  <1>1. CASE UNCHANGED lookupVars
    BY <1>1
    DEF lookupVars, LookupInv, LookupTyped, Remembered, NumbersSafe, NumbersSeen, EntitySeen,
        FoundWasMined, Showing, Adapter, Faults, ZeroIfMalformed
  <1> QED
    BY <1>1, ChainMoves, BeginKeeps, NumbersRead, EntityRead, TransactionRead, DoneKeeps
    DEF LookupNext

(* What an answer says was so at some moment of its request, for every       *)
(* adapter to which AnswersHeld promises it (LookupAddress and               *)
(* LookupTransaction, connect_server.go).                                    *)
THEOREM LookupsHold == LookupSpec => []AnswersHeld
  <1>1. LookupInit => LookupInv
    BY InitLookupInv
  <1>2. LookupInv /\ [LookupNext]_lookupVars => LookupInv'
    BY LookupInductive
  <1>3. LookupInv => AnswersHeld
    <2> SUFFICES ASSUME LookupInv PROVE AnswersHeld
      OBVIOUS
    <2>1. LookupTypeOK
      BY DEF LookupInv, LookupTyped, LookupTypeOK, Requests, Codes, LabelNames
    <2>2. NumbersSafe => NumbersHeld
      BY DEF LookupInv, NumbersSeen, NumbersHeld, Showing
    <2>3. "malformed" \notin Faults => EntityHeld
      BY DEF LookupInv, EntitySeen, EntityHeld, Showing
    <2> QED
      BY <2>1, <2>2, <2>3 DEF LookupInv, NumbersSafe, AnswersHeld
  <1> QED
    BY <1>1, <1>2, <1>3, PTL DEF LookupSpec

=============================================================================

------------------------------ MODULE DataDir ------------------------------
(***************************************************************************)
(* What a process finds in its data directory and leaves there: the SQLite *)
(* schema, brought up to date by migrate (internal/db/migrate.go), and the *)
(* self-signed certificate, made by loadOrCreateCert on first use by each  *)
(* of the TLS listeners at once (internal/services/tlscap.go).  A process  *)
(* may crash at any step and is started again.                             *)
(*                                                                         *)
(* A schema is the set of its features; an event row is its id, and ports  *)
(* are text or numbers.  A certificate or key is the number of the pair it *)
(* was generated with; 0 is a missing or torn file.                        *)
(***************************************************************************)
EXTENDS Naturals, FiniteSets

CONSTANTS
    Listener,    \* the TLS listeners
    Id,          \* ids of the event rows of an old database
    MaxCrashes   \* bound on the crashes

ASSUME DataDirAssumption == MaxCrashes \in Nat

Latest == 3

VARIABLES
    version, schema, events, ports,  \* committed: user_version, features, rows, type of dst_port
    tx,        \* {} or the open transaction: the migration and its uncommitted state
    opening,   \* how far OpenEventDB is
    certFile, keyFile,
    tls,       \* per listener: how far loadOrCreateCert is, and the pair it has
    pairs,     \* pairs generated so far
    crashes,
    oldEvents  \* ghost: the rows the first process found

dbState == <<version, schema, events, ports, tx, opening>>
certState == <<certFile, keyFile, tls, pairs>>
dirVars == <<dbState, certState, crashes, oldEvents>>

Baseline == {"events", "protocol", "banned_ips", "metrics"}
Intel == {"kind", "ip_intel"}

\* What each version promises.
SchemaOf(v) == IF v < 3 THEN Baseline ELSE Baseline \cup Intel
PortsOf(v) == IF v < 2 THEN "text" ELSE "integer"

\* An empty directory; a database older than the protocol column; one older than
\* user_version; the earlier versions.
OldDatabases ==
    {[version |-> 0, schema |-> {}, ports |-> "text"],
     [version |-> 0, schema |-> {"events"}, ports |-> "text"],
     [version |-> 0, schema |-> Baseline, ports |-> "text"],
     [version |-> 1, schema |-> Baseline, ports |-> "text"],
     [version |-> 2, schema |-> Baseline, ports |-> "integer"]}

NoCert == [l \in Listener |-> [at |-> "load", pair |-> 0]]

\* A process opens one of the databases, or (at = "failed") has given up doing so.
DirInitFor(databases, rowSets, at) ==
    /\ \E d \in databases, r \in rowSets :
         /\ version = d.version /\ schema = d.schema /\ ports = d.ports
         /\ events = IF d.schema = {} THEN {} ELSE r
    /\ tx = {} /\ opening = at
    /\ certFile = 0 /\ keyFile = 0 /\ tls = NoCert /\ pairs = 0
    /\ crashes = 0 /\ oldEvents = events

-----------------------------------------------------------------------------
(* migrate *)

\* The statements of a migration: CREATE IF NOT EXISTS, and an ALTER whose error is
\* ignored; the copy into a table that replaces the old one, ids kept and ports cast; new
\* columns and tables.
up(t) ==
    CASE t.to = 1 -> [t EXCEPT !.schema = @ \cup Baseline]
      [] t.to = 2 -> [t EXCEPT !.ports = "integer"]
      [] t.to = 3 -> [t EXCEPT !.schema = @ \cup Intel]

\* The PRAGMA is the last statement of a migration.
Applied(t) == t.version = t.to

Begin ==
    /\ opening = "migrating" /\ tx = {} /\ version < Latest
    /\ tx' = {[to |-> version + 1, version |-> version,
               schema |-> schema, events |-> events, ports |-> ports]}
    /\ UNCHANGED <<version, schema, events, ports, opening, certState, crashes, oldEvents>>

\* m.up and the PRAGMA, in the transaction.
Apply ==
    /\ \E t \in tx : ~Applied(t) /\ tx' = {[up(t) EXCEPT !.version = t.to]}
    /\ UNCHANGED <<version, schema, events, ports, opening, certState, crashes, oldEvents>>

\* A statement or the commit fails: rollback, and OpenEventDB returns the error.
Rollback ==
    /\ tx # {} /\ crashes < MaxCrashes /\ crashes' = crashes + 1
    /\ tx' = {} /\ opening' = "failed"
    /\ UNCHANGED <<version, schema, events, ports, certState, oldEvents>>

\* Plausible bug: the version is set after the transaction, not in it.
CommitApart ==
    /\ \E t \in tx :
         /\ Applied(t)
         /\ schema' = t.schema /\ events' = t.events /\ ports' = t.ports
         /\ \/ version' = t.version /\ UNCHANGED opening
            \/ opening' = "failed" /\ UNCHANGED version
    /\ tx' = {}
    /\ UNCHANGED <<certState, crashes, oldEvents>>

Commit ==
    /\ \E t \in tx :
         /\ Applied(t)
         /\ version' = t.version /\ schema' = t.schema /\ events' = t.events /\ ports' = t.ports
    /\ tx' = {}
    /\ UNCHANGED <<opening, certState, crashes, oldEvents>>

\* All migrations are applied, and OpenEventDB returns.
Opened ==
    /\ opening = "migrating" /\ tx = {} /\ version = Latest
    /\ opening' = "open"
    /\ UNCHANGED <<version, schema, events, ports, tx, certState, crashes, oldEvents>>

-----------------------------------------------------------------------------
(* loadOrCreateCert, called once Run starts the listeners *)

Generating(l) == tls[l].at \in {"cert", "cert2", "key", "key2"}

Step(l, from, to) == tls[l].at = from /\ tls' = [tls EXCEPT ![l].at = to]

\* LoadX509KeyPair succeeds when the two files are of one pair.
LoadPair(l) ==
    /\ opening = "open" /\ tls[l].at = "load"
    /\ IF certFile = keyFile /\ certFile # 0
       THEN tls' = [tls EXCEPT ![l] = [at |-> "ready", pair |-> certFile]] /\ UNCHANGED pairs
       ELSE pairs' = pairs + 1 /\ tls' = [tls EXCEPT ![l] = [at |-> "cert", pair |-> pairs + 1]]
    /\ UNCHANGED <<dbState, certFile, keyFile, crashes, oldEvents>>

\* WriteFile truncates the file and then writes it; an error ends the persisting.
TruncateCert(l) ==
    /\ Step(l, "cert", "cert2") /\ certFile' = 0
    /\ UNCHANGED <<dbState, keyFile, pairs, crashes, oldEvents>>

WriteCert(l) ==
    /\ Step(l, "cert2", "key") /\ certFile' = tls[l].pair
    /\ UNCHANGED <<dbState, keyFile, pairs, crashes, oldEvents>>

TruncateKey(l) ==
    /\ Step(l, "key", "key2") /\ keyFile' = 0
    /\ UNCHANGED <<dbState, certFile, pairs, crashes, oldEvents>>

WriteKey(l) ==
    /\ Step(l, "key2", "ready") /\ keyFile' = tls[l].pair
    /\ UNCHANGED <<dbState, certFile, pairs, crashes, oldEvents>>

WriteFails(l) ==
    /\ Generating(l) /\ Step(l, tls[l].at, "ready")
    /\ UNCHANGED <<dbState, certFile, keyFile, pairs, crashes, oldEvents>>

-----------------------------------------------------------------------------
\* The process crashes, at any step, or has failed; a new one starts.
RestartDir ==
    /\ \/ opening = "failed" /\ UNCHANGED crashes
       \/ opening # "failed" /\ crashes < MaxCrashes /\ crashes' = crashes + 1
    /\ tx' = {} /\ opening' = "migrating" /\ tls' = NoCert
    /\ UNCHANGED <<version, schema, events, ports, certFile, keyFile, pairs, oldEvents>>

Certify(l) ==
    LoadPair(l) \/ TruncateCert(l) \/ WriteCert(l) \/ TruncateKey(l) \/ WriteKey(l) \/ WriteFails(l)

Migrate == Begin \/ Apply \/ Commit \/ Opened \/ (opening = "failed" /\ RestartDir)

DirNext == RestartDir \/ Rollback \/ Migrate \/ \E l \in Listener : Certify(l)

DirSpec == DirInitFor(OldDatabases, {Id}, "migrating") /\ [][DirNext]_dirVars

-----------------------------------------------------------------------------
\* "a crash mid-migration leaves the database at the previous version": whatever the old
\* database and wherever the crashes, what is committed is the schema of user_version.
SchemaMatchesVersion ==
    version > 0 => schema = SchemaOf(version) /\ ports = PortsOf(version)

\* The rebuild of the events table keeps every row.
RowsKept == events = oldEvents

\* "so the fingerprint is stable across restarts": a complete pair that is on disk while
\* no listener is generating another is used by every listener from then on, and is never
\* replaced.  (Two listeners that generate at once may leave files of two pairs.)
CertStable ==
    [][certFile = keyFile /\ certFile # 0 /\ (\A l \in Listener : ~Generating(l)) =>
         /\ certFile' = certFile /\ keyFile' = keyFile
         /\ \A l \in Listener : tls[l].at = "load" => tls'[l].pair \in {0, certFile}]_dirVars

=============================================================================

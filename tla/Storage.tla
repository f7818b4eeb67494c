------------------------------- MODULE Storage -------------------------------
(***************************************************************************)
(* The database of one agent: the processes of a host that open it at once *)
(* and migrate it to the current schema, what they store, and what they    *)
(* read back.  Module Rows has the rows; modules SqliteStore and           *)
(* PostgresStore have the steps of a transaction, which is one step here.  *)
(***************************************************************************)
EXTENDS Rows, FiniteSets

CONSTANTS
  Process,      \* processes that open the database
  Offer,        \* what hosts store: [table, cells]
  Legacy,       \* what a database of an older release may hold
  Cutoff,       \* the instants hosts read as of
  Nobody,       \* holder of a free write lock
  MaxAttempts,  \* OPEN_MAX_ATTEMPTS
  MaxRows, MaxFault, MaxCrash  \* bounds: rows stored, failing statements, process deaths

ASSUME StorageAssumption ==
  /\ Nobody \notin Process /\ Cutoff \subseteq Nat /\ MaxAttempts \in Nat \ {0}
  /\ MaxRows \in Nat /\ MaxFault \in Nat /\ MaxCrash \in Nat

\* An older release stored nothing in the columns that ALTER TABLE added.
ASSUME OfferAssumption ==
  /\ \A record \in Offer \cup Legacy : Fits(record)
  /\ \A record \in Legacy : \A c \in Granularities \cap DOMAIN record.cells :
       record.cells[c] = Null

VARIABLES
  adapter,   \* "sqlite" or "postgres"
  schema,    \* the committed schema: user_version, and the columns ALTER TABLE added
  rows,      \* the committed rows, each with its place in the order of insertion
  wal,       \* whether the file has been converted to WAL
  writer,    \* the process whose transaction holds the write lock
  proc,      \* what each process is doing
  given,     \* all that was ever stored, as the host gave it
  faults, crashes

vars == <<adapter, schema, rows, wal, writer, proc, given, faults, crashes>>

Current == 4
Step    == 1..Current

\* The columns ALTER TABLE adds; v1 and v2 create tables IF NOT EXISTS.
AddedBy(version) ==
  CASE version = 3 -> {"valid_time_start_granularity", "valid_time_end_granularity"}
    [] version = 4 -> {"bound_at_granularity"}
    [] OTHER       -> {}
SchemaAt(version) ==
  [version |-> version, added |-> UNION {AddedBy(v) : v \in 1..version}]

\* The version is the one inside the transaction of its migration.
Closed == [pc |-> "closed", attempts |-> 0, version |-> 0]
Goto(p, l) == proc' = [proc EXCEPT ![p].pc = l]

\* A row of an older release has the cells its schema had.
Older(record, version) ==
  LET row == Row("sqlite", record)
      later == SchemaAt(Current).added \ SchemaAt(version).added
  IN  [row EXCEPT !.cells = [c \in DOMAIN row.cells \ later |-> row.cells[c]]]

Init ==
  /\ \/ /\ adapter = "sqlite" /\ wal \in BOOLEAN
        /\ \E version \in 0..Current :
             /\ schema = SchemaAt(version)
             /\ wal \/ version = 0
             /\ given \in IF version = 0 THEN {{}} ELSE {{[i |-> 1, record |-> l]} : l \in Legacy}
             /\ rows = {[i |-> g.i, row |-> Older(g.record, version)] : g \in given}
     \/ /\ adapter = "postgres" /\ wal = TRUE /\ schema = SchemaAt(Current)
        /\ given = {} /\ rows = {}
  /\ writer = Nobody
  /\ proc = [p \in Process |-> Closed]
  /\ faults = 0 /\ crashes = 0

-----------------------------------------------------------------------------
(* Opening.                                                                *)

\* Connection::open, once more after each SQLITE_BUSY.
Open(p) ==
  /\ proc[p].pc = "closed"
  /\ proc' = [proc EXCEPT ![p] = [@ EXCEPT !.attempts = proc[p].attempts + 1,
                                           !.pc = IF adapter = "sqlite" THEN "pragmas" ELSE "serving"]]
  /\ UNCHANGED <<adapter, schema, rows, wal, writer, given, faults, crashes>>

Pragmas(p) ==
  /\ proc[p].pc = "pragmas"
  /\ wal' = TRUE /\ Goto(p, "begin")
  /\ UNCHANGED <<adapter, schema, rows, writer, given, faults, crashes>>

\* Mutant: a deferred transaction, whose reads take no lock.
Begin_Deferred(p) ==
  /\ proc[p].pc = "begin"
  /\ writer' = p
  /\ proc' = [proc EXCEPT ![p] = [@ EXCEPT !.pc = "migrate", !.version = schema.version]]
  /\ UNCHANGED <<adapter, schema, rows, wal, given, faults, crashes>>

\* BEGIN IMMEDIATE, then PRAGMA user_version.
Begin(p) ==
  /\ proc[p].pc = "begin" /\ writer = Nobody
  /\ writer' = p
  /\ proc' = [proc EXCEPT ![p] = [@ EXCEPT !.pc = "migrate", !.version = schema.version]]
  /\ UNCHANGED <<adapter, schema, rows, wal, given, faults, crashes>>

\* apply_v1 to apply_v4, each for a version that was older when it was read.
Migrate(p) ==
  LET v == proc[p].version + 1
  IN  /\ proc[p].pc = "migrate" /\ v \in Step
      /\ IF AddedBy(v) \cap schema.added = {}
           THEN proc' = [proc EXCEPT ![p].version = v] /\ UNCHANGED writer
           ELSE Goto(p, "broken") /\ writer' = Nobody     \* duplicate column name
      /\ UNCHANGED <<adapter, schema, rows, wal, given, faults, crashes>>

Commit(p) ==
  /\ proc[p].pc = "migrate" /\ proc[p].version = Current
  /\ schema' = SchemaAt(Current) /\ writer' = Nobody
  /\ Goto(p, "serving")
  /\ UNCHANGED <<adapter, rows, wal, given, faults, crashes>>

\* SQLITE_BUSY: another connection is converting the new file, or has kept the lock too long.
Busy(p) ==
  /\ \/ proc[p].pc = "pragmas" /\ ~wal /\ \E q \in Process \ {p} : proc[q].pc = "pragmas"
     \/ proc[p].pc = "begin" /\ writer # Nobody
  /\ Goto(p, IF proc[p].attempts < MaxAttempts THEN "closed" ELSE "failed")
  /\ UNCHANGED <<adapter, schema, rows, wal, writer, given, faults, crashes>>

\* Any other error ends open at once; the transaction is dropped, and rolled back.
Fail(p) ==
  /\ faults < MaxFault /\ faults' = faults + 1
  /\ proc[p].pc \in {"pragmas", "begin", "migrate"}
  /\ Goto(p, "failed")
  /\ writer' = IF writer = p THEN Nobody ELSE writer
  /\ UNCHANGED <<adapter, schema, rows, wal, given, crashes>>

\* The process dies, and may come back.
Crash(p) ==
  /\ crashes < MaxCrash /\ crashes' = crashes + 1
  /\ proc' = [proc EXCEPT ![p] = Closed]
  /\ writer' = IF writer = p THEN Nobody ELSE writer
  /\ UNCHANGED <<adapter, schema, rows, wal, given, faults>>

-----------------------------------------------------------------------------
(* Serving.                                                                *)

\* A statement that names a column the file does not have is refused.
Store(p) ==
  /\ proc[p].pc = "serving" /\ writer = Nobody /\ Cardinality(given) < MaxRows
  /\ \E offer \in Offer :
       LET i == Cardinality(given) + 1
       IN  IF schema # SchemaAt(Current)
             THEN Goto(p, "broken") /\ UNCHANGED <<rows, given>>
             ELSE /\ given' = given \cup {[i |-> i, record |-> offer]}
                  /\ rows' = rows \cup {[i |-> i, row |-> Row(adapter, offer)]}
                  /\ UNCHANGED proc
  /\ UNCHANGED <<adapter, schema, wal, writer, faults, crashes>>

Next ==
  \E p \in Process :
    \/ Open(p) \/ Pragmas(p) \/ Begin(p) \/ Migrate(p) \/ Commit(p) \/ Busy(p)
    \/ Fail(p) \/ Crash(p) \/ Store(p)

Spec == Init /\ [][Next]_vars

-----------------------------------------------------------------------------
(* Reading back.                                                           *)

\* What a query of a table goes by: its cutoff, or for the pending table the deadline.
CutBy(table) ==
  CASE table = "claims" -> "tx_time" [] table = "ledger" -> "recorded_at"
    [] table = "pending" -> "expires_at"

HasCutoff(table) == table \in {"claims", "ledger", "pending"}

\* WHERE column <= cutoff
Selects(row, t) ==
  LET column == CutBy(row.table)
      cell   == Cell(row, column)
  IN  /\ cell # Null
      /\ IF Stamped(adapter, column) THEN cell <= Micro(t) ELSE UpTo(cell, Text(t))

\* load_subject_line, load_ledger_for_claims and list_expired have a cutoff, the others none;
\* one row that cannot be mapped refuses the whole query.
Query(table, t) ==
  LET found == {r \in rows : r.row.table = table /\ (HasCutoff(table) => Selects(r.row, t))}
  IN  IF \E r \in found : ~Readable(adapter, r.row)
        THEN {"refused"}
        ELSE {[i |-> r.i, record |-> RecordOf(adapter, r.row)] : r \in found}

-----------------------------------------------------------------------------
\* Processes that open one file at once, and an open that fails or dies half way, never leave
\* it between two versions: nobody is refused by a column that is there already, and whoever
\* got the file open finds every column its statements name.
OpenedIsCurrent ==
  \A p \in Process :
    /\ proc[p].pc # "broken"
    /\ proc[p].pc = "serving" => schema = SchemaAt(Current)

\* What a host gave, at the precision its columns keep.
Kept(record) ==
  [record EXCEPT !.cells = [c \in DOMAIN @ |->
     IF Stamped(adapter, c) /\ @[c] # Null THEN Micro(@[c]) ELSE @[c]]]

\* Whatever was stored by this or an older release is read back as it was given, field for
\* field, and a query with a cutoff finds exactly what is no later than it: the order of the
\* texts is the order of the instants.  The queue in PostgreSQL keeps microseconds.
ReadsBack ==
  (\E p \in Process : proc[p].pc = "serving") =>
    \A table \in Tables, t \in Cutoff :
      Query(table, t) =
        {[i |-> g.i, record |-> Kept(g.record)] : g \in
          {h \in given : /\ h.record.table = table
                         /\ HasCutoff(table) =>
                              LET due == Kept(h.record).cells[CutBy(table)]
                              IN  due # Null /\ due <= t}}
=============================================================================

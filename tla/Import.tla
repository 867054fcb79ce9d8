------------------------------- MODULE Import -------------------------------
(***************************************************************************)
(* How warehouse data get into the database: the CSV files of a directory  *)
(* (src/ingestion/csv_loader.py, scripts/import_csv.py) or a floor plan    *)
(* (FloorPlan; scripts/import_floor_plan.py) become a script of SQL        *)
(* statements, which the importer applies or an operator feeds to psql.    *)
(*                                                                         *)
(* The database is external: the tables of scripts/init_db.sql with their  *)
(* keys, foreign keys and NOT NULL columns.  A row is its key, the keys it *)
(* refers to and whether a cell of it is bad (of the wrong type, or empty  *)
(* where a value is required) or blank (empty in an optional column that   *)
(* is NOT NULL).                                                           *)
(***************************************************************************)
EXTENDS FloorPlan

CONSTANTS
    Databases,   \* what the database may hold at first
    Directories, \* what may be in a directory: table -> its file
    MaxImports   \* bound: imports in a behaviour

FillOrderByName ==
    <<"carrier_appointments", "dock_doors", "inventory_positions", "locations", "order_lines",
      "outbound_orders", "skus">>

(* TABLE_SPECS, in the order in which tables are filled.                   *)
FillOrder ==
    <<"locations", "dock_doors", "skus", "inventory_positions", "carrier_appointments",
      "outbound_orders", "order_lines">>

EmptyOrder ==
    <<"order_lines", "outbound_orders", "carrier_appointments", "inventory_positions", "skus",
      "dock_doors", "locations">>

Elements(s) == {s[i] : i \in DOMAIN s}

Table == Elements(FillOrder)

(* A database has all the tables.                                          *)
IsDatabase(d) == d = [t \in Table |-> d[t]]

ASSUME ImportAssumption == \A d \in Databases : IsDatabase(d)

Parents(t) ==
    CASE t = "inventory_positions" -> {"skus", "locations"}
      [] t = "outbound_orders" -> {"carrier_appointments"}
      [] t = "order_lines" -> {"outbound_orders", "skus"}
      [] OTHER -> {}

VARIABLES
    db,      \* table -> its rows, as committed
    imports, \* imports begun
    job,     \* the import under way or just over
    script,  \* its statements
    at,      \* statements executed
    tx,      \* "none", "open" or "aborted"
    work,    \* table -> its rows, as the open transaction sees them
    errors,  \* statements that failed, as psql or the driver reported
    outcome  \* "idle", "running", "done", "failed"

dbVars == <<db, imports, job, script, at, tx, work, errors, outcome>>

-----------------------------------------------------------------------------
(* Statements.                                                             *)
Begin == [kind |-> "BEGIN"]
Commit == [kind |-> "COMMIT"]
Truncate(t) == [kind |-> "TRUNCATE", table |-> t]
Insert(t, rows, column) == [kind |-> "INSERT", table |-> t, rows |-> rows, column |-> column]

(* The column a key is in; the floor plan's script has another name for    *)
(* that of dock_doors than the database.                                   *)
KeyColumn(t) == IF t = "dock_doors" THEN "dock_door" ELSE "id"

Wrapped(s, wrap) == IF wrap THEN <<Begin>> \o s \o <<Commit>> ELSE s

(* Tables without rows are left out.                                       *)
Filled(files) ==
    {i \in DOMAIN FillOrder :
        FillOrder[i] \in DOMAIN files /\ files[FillOrder[i]].rows # <<>>}

Nth(S, n) == CHOOSE i \in S : Cardinality({j \in S : j <= i}) = n

Truncates(truncate) ==
    IF truncate THEN [i \in DOMAIN EmptyOrder |-> Truncate(EmptyOrder[i])] ELSE <<>>

InsertInto(t, files) == Insert(t, files[t].rows, KeyColumn(t))

Inserts(files) ==
    [n \in 1..Cardinality(Filled(files)) |-> InsertInto(FillOrder[Nth(Filled(files), n)], files)]

CsvScriptLateBegin(files, truncate, wrap) ==
    Truncates(truncate) \o Wrapped(Inserts(files), wrap)

(* generate_sql of csv_loader.py.                                          *)
CsvScript(files, truncate, wrap) ==
    Wrapped(Truncates(truncate) \o Inserts(files), wrap)

Row(key) == [key |-> key, refs |-> <<>>, cell |-> "fine"]

(* generate_sql of floor_plan_parser.py.                                   *)
PlanScript(truncate) ==
    LET clear == IF truncate THEN <<Truncate("dock_doors"), Truncate("locations")>> ELSE <<>>
        gates == [d \in DOMAIN doors |-> Row(d)]
        places == [n \in DOMAIN plan |-> Row(plan[n].id)]
    IN  clear
        \o (IF gates # <<>> THEN <<Insert("dock_doors", gates, "door_id")>> ELSE <<>>)
        \o (IF places # <<>> THEN <<Insert("locations", places, "id")>> ELSE <<>>)

-----------------------------------------------------------------------------
(* The database.                                                           *)
Keys(d, t) == {r.key : r \in d[t]}

(* Those whose rows refer to rows of a table, and so on.                   *)
Children(ts) == {t \in Table : Parents(t) \cap ts # {}}
Cascade(t) == {t} \cup Children({t}) \cup Children(Children({t}))

Truncated(d, t) == [u \in Table |-> IF u \in Cascade(t) THEN {} ELSE d[u]]

Inserted(d, st) == [d EXCEPT ![st.table] = @ \cup Elements(st.rows)]

Refused(d, st) ==
    \/ st.column # KeyColumn(st.table)
    \/ \E i \in DOMAIN st.rows :
          \/ st.rows[i].cell = "blank"
          \/ st.rows[i].key \in Keys(d, st.table)
          \/ \E j \in DOMAIN st.rows : j # i /\ st.rows[j].key = st.rows[i].key
          \/ \E p \in Parents(st.table) : st.rows[i].refs[p] \notin Keys(d, p)

Effect(d, st) == IF st.kind = "TRUNCATE" THEN Truncated(d, st.table) ELSE Inserted(d, st)

Errs(d, st) == st.kind = "INSERT" /\ Refused(d, st)

-----------------------------------------------------------------------------
NoJob == [by |-> "none"]

Idle == outcome # "running"

ImportInit ==
    /\ FloorPlanInit
    /\ db \in Databases
    /\ imports = 0
    /\ job = NoJob
    /\ script = <<>>
    /\ at = 0
    /\ tx = "none"
    /\ work = db
    /\ errors = 0
    /\ outcome = "idle"

(* Bound: a behaviour imports one drawing or several directories; what     *)
(* either finds in the database is left to Databases.                      *)
ReadDrawing ==
    /\ imports = 0
    /\ FloorPlanNext
    /\ UNCHANGED dbVars

NoDrawing == pc = "read" /\ read = 0

Start(j, s, st) ==
    /\ Idle
    /\ imports < MaxImports
    /\ imports' = imports + 1
    /\ job' = j
    /\ script' = s
    /\ at' = 0
    /\ tx' = IF j.applied THEN "open" ELSE "none"
    /\ work' = db
    /\ errors' = 0
    /\ outcome' = st
    /\ UNCHANGED <<db, planVars>>

Readable(files) ==
    \A t \in DOMAIN files :
        /\ files[t].complete
        /\ \A i \in DOMAIN files[t].rows : files[t].rows[i].cell # "bad"

(* The driver is given the script in one message, hence in one             *)
(* transaction; psql executes it statement by statement.                   *)
ImportCsv(files, truncate, wrap, applied) ==
    LET j == [by |-> "csv", files |-> files, truncate |-> truncate, wrap |-> wrap,
              applied |-> applied, before |-> db]
    IN  /\ NoDrawing
        /\ IF Readable(files) /\ files # <<>>
           THEN Start(j, CsvScript(files, truncate, wrap), "running")
           ELSE Start([j EXCEPT !.applied = FALSE], <<>>, "failed")

(* Only psql takes the script of a floor plan.                             *)
ImportPlan(truncate) ==
    /\ pc = "ready"
    /\ imports = 0
    /\ Start([by |-> "plan", truncate |-> truncate, wrap |-> FALSE, applied |-> FALSE, before |-> db],
             PlanScript(truncate), "running")

-----------------------------------------------------------------------------
Running(kinds) ==
    /\ outcome = "running"
    /\ at < Len(script)
    /\ script[at + 1].kind \in kinds

Advance ==
    /\ at' = at + 1
    /\ UNCHANGED <<imports, job, script, outcome, planVars>>

BeginTransaction ==
    /\ Running({"BEGIN"})
    /\ tx' = "open"
    /\ Advance
    /\ UNCHANGED <<db, work, errors>>

(* An aborted transaction is rolled back.                                  *)
CommitTransaction ==
    /\ Running({"COMMIT"})
    /\ db' = IF tx = "open" THEN work ELSE db
    /\ work' = db'
    /\ tx' = "none"
    /\ Advance
    /\ UNCHANGED errors

StatementSucceeds ==
    /\ Running({"TRUNCATE", "INSERT"})
    /\ tx # "aborted"
    /\ ~ Errs(work, script[at + 1])
    /\ work' = Effect(work, script[at + 1])
    /\ db' = IF tx = "none" THEN work' ELSE db
    /\ Advance
    /\ UNCHANGED <<tx, errors>>

(* psql goes on after an error, if only to be refused until COMMIT.        *)
StatementFails ==
    /\ Running({"TRUNCATE", "INSERT"})
    /\ ~ job.applied
    /\ tx = "aborted" \/ Errs(work, script[at + 1])
    /\ tx' = IF tx = "none" THEN "none" ELSE "aborted"
    /\ work' = db
    /\ errors' = errors + 1
    /\ Advance
    /\ UNCHANGED db

Abort ==
    /\ outcome' = "failed"
    /\ tx' = "none"
    /\ work' = db
    /\ UNCHANGED <<db, imports, job, script, at, planVars>>

(* The driver gives up at the first error.                                 *)
ApplyFails ==
    /\ Running({"INSERT"})
    /\ job.applied
    /\ Errs(work, script[at + 1])
    /\ errors' = errors + 1
    /\ Abort

ConnectionLost ==
    /\ outcome = "running"
    /\ UNCHANGED errors
    /\ Abort

Finish ==
    /\ outcome = "running"
    /\ at = Len(script)
    /\ outcome' = IF errors = 0 THEN "done" ELSE "failed"
    /\ db' = IF tx = "open" THEN work ELSE db
    /\ tx' = "none"
    /\ UNCHANGED <<imports, job, script, at, work, errors, planVars>>

ImportNext ==
    \/ ReadDrawing
    \/ \E files \in Directories, truncate, wrap, applied \in BOOLEAN :
          ImportCsv(files, truncate, wrap, applied)
    \/ \E truncate \in BOOLEAN : ImportPlan(truncate)
    \/ BeginTransaction \/ CommitTransaction \/ StatementSucceeds \/ StatementFails
    \/ ApplyFails \/ ConnectionLost \/ Finish

ImportSpec == ImportInit /\ [][ImportNext]_<<planVars, dbVars>>

-----------------------------------------------------------------------------
Nothing == [t \in Table |-> {}]

(* What the database is to hold after an import of files.                  *)
Base == IF job.truncate THEN Nothing ELSE job.before

RowsOf(t) == IF t \in DOMAIN job.files THEN Elements(job.files[t].rows) ELSE {}

Whole == [t \in Table |-> Base[t] \cup RowsOf(t)]

AllOrNothing == job.by = "csv" /\ (job.wrap \/ job.applied)

(* "so a failed INSERT mid-import rolls back cleanly"                      *)
(* (ingestion/csv_loader.py): while an import in a transaction goes on,    *)
(* fails or loses its connection at any statement, nobody finds anything   *)
(* but what was there before it or all of it; and only what was there      *)
(* before if a statement failed.                                           *)
ImportIsAtomic ==
    AllOrNothing =>
        /\ db \in {job.before, Whole}
        /\ outcome = "failed" /\ at < Len(script) => db = job.before
        /\ errors > 0 => db = job.before

(* Files that fit each other and what is left of the database.             *)
Consistent ==
    /\ \A t \in DOMAIN job.files :
          LET rows == job.files[t].rows
          IN  /\ \A i \in DOMAIN rows : rows[i].cell = "fine" /\ rows[i].key \notin Keys(Base, t)
              /\ \A i, j \in DOMAIN rows : rows[i].key = rows[j].key => i = j
    /\ \A t \in DOMAIN job.files : \A r \in RowsOf(t), p \in Parents(t) :
          r.refs[p] \in Keys(Whole, p)

(* Files that fit are imported, whatever statement comes first and by      *)
(* whichever way: no order of tables in between runs into a foreign key,   *)
(* and the database then holds what it should and nothing else.            *)
ConsistentFilesAreImported ==
    job.by = "csv" /\ Readable(job.files) /\ Consistent =>
        /\ errors = 0
        /\ outcome = "done" => db = Whole

(* "The output is compatible with the locations and dock_doors table       *)
(* schema in scripts/init_db.sql" (ingestion/floor_plan_parser.py).        *)
FloorPlanFitsTables ==
    job.by = "plan" =>
        \A i \in DOMAIN script :
            script[i].kind = "INSERT" => script[i].column = KeyColumn(script[i].table)

(* "clear existing location/dock rows" (scripts/import_floor_plan.py).     *)
OnlyLayoutIsCleared ==
    job.by = "plan" =>
        \A t \in Table \ {"locations", "dock_doors"} : db[t] = job.before[t]
=============================================================================

------------------------------- MODULE SAdapter -------------------------------
(***************************************************************************)
(* sadapter.{h,cpp}: the PostgreSQL adapter that the API, the summaries    *)
(* and the weekly roll-up share.  It has one connection and one mutex,     *)
(* which every call holds from its test of the connection to its commit,   *)
(* so that a call is one step; its outcomes are a set, from which the      *)
(* caller's action takes one.                                              *)
(*                                                                         *)
(* The 18 tables have the same five calls.  Each is described by a record: *)
(* which call uses which prepared statement, or SQL text of its own, or is *)
(* missing.  A row is its key, the row it refers to and its data; the      *)
(* columns that no caller tells apart are left out.                        *)
(*                                                                         *)
(* libpqxx prepares a statement in prepare() since version 7 (Eager) and   *)
(* when it is first executed before.                                       *)
(***************************************************************************)
EXTENDS Naturals, Sequences

CONSTANTS Eager,    \* libpqxx 7: prepare() sends the statement
          None

ASSUME SAdapterAssumption == Eager \in BOOLEAN

VARIABLES conn,     \* the connection: "none", "open", "lost"
          usable,   \* the statements that can be executed on it
          rows      \* what the database holds

sadapterVars == <<conn, usable, rows>>

-----------------------------------------------------------------------------
(* The prepared statements, in their order.                                *)

HistoryStatements ==
  <<"insert_snapshot", "insert_exchange_metrics", "insert_queue_entry",
    "insert_system_metrics", "insert_network_metrics", "insert_database_metrics">>

AlertStatements ==
  <<"insert_alert", "get_alert_by_id", "get_alerts_by_condition", "update_alert",
    "delete_alert", "insert_metric_threshold", "get_metric_threshold_by_id",
    "update_metric_threshold", "delete_metric_threshold">>

WeeklyStatements == <<"insert_weekly_summary", "delete_weekly_summary">>

LogStatements ==
  <<"insert_subscription", "get_subscription_by_id", "delete_subscription",
    "update_subscription", "insert_feed_event", "get_feed_event_by_id",
    "delete_feed_event", "insert_api_request", "get_api_request_by_id",
    "delete_api_request", "insert_exchange_health", "get_exchange_health_by_id",
    "delete_exchange_health", "insert_backtest_job", "get_backtest_job_by_id",
    "delete_backtest_job", "insert_config_version", "get_config_version_by_id",
    "delete_config_version">>

Statements ==
  HistoryStatements \o AlertStatements \o WeeklyStatements \o LogStatements

\* PostgreSQL refuses to prepare an INSERT of 117 values into 113 columns.
Malformed == {"insert_snapshot"}

\* The calls that give their statement one argument less than it has.
ShortOfArguments == {"insert_feed_event", "insert_api_request"}

\* The first statement that fails ends the preparation.
Prepared ==
  { Statements[i] : i \in
      { i \in DOMAIN Statements :
          IF Eager THEN \A j \in 1..i : Statements[j] \notin Malformed
                   ELSE Statements[i] \notin Malformed } }

AllPrepared == Eager => \A i \in DOMAIN Statements : Statements[i] \notin Malformed

-----------------------------------------------------------------------------
(* The tables.  "sql" is text built in the call, "none" a call that is     *)
(* missing or does nothing; onDelete is of the schema's foreign keys.      *)

Table(name, insert, byId, update, delete, text, onDelete) ==
  [name |-> name, insert |-> insert, byId |-> byId, update |-> update,
   delete |-> delete, text |-> text, onDelete |-> onDelete]

NoParent == [t \in {} |-> "null"]
Cascade(name) == [t \in {name} |-> "cascade"]
SetNull(name) == [t \in {name} |-> "null"]

Clients == Table("clients", "sql", "sql", "sql", "sql", TRUE, NoParent)

SessionRows == Table("sessions", "sql", "sql", "sql", "sql", TRUE, SetNull("clients"))

FeedInstances ==
  Table("feed_instances", "sql", "sql", "sql", "sql", TRUE, SetNull("clients"))

Snapshots ==
  Table("feed_metrics_snapshots", "insert_snapshot", "sql", "none", "sql", FALSE,
        Cascade("feed_instances"))

Subscriptions ==
  Table("subscriptions", "insert_subscription", "get_subscription_by_id",
        "update_subscription", "delete_subscription", TRUE,
        [t \in {"clients", "sessions"} |-> IF t = "clients" THEN "cascade" ELSE "null"])

FeedEvents ==
  Table("feed_events", "insert_feed_event", "get_feed_event_by_id", "none",
        "delete_feed_event", TRUE, NoParent)

ApiRequests ==
  Table("api_requests", "insert_api_request", "get_api_request_by_id", "none",
        "delete_api_request", TRUE,
        [t \in {"clients", "sessions", "feed_instances"} |-> "null"])

ExchangeHealths ==
  Table("exchange_health", "insert_exchange_health", "get_exchange_health_by_id", "none",
        "delete_exchange_health", FALSE, NoParent)

BacktestJobs ==
  Table("backtest_jobs", "insert_backtest_job", "get_backtest_job_by_id", "none",
        "delete_backtest_job", TRUE, NoParent)

ConfigVersions ==
  Table("config_versions", "insert_config_version", "get_config_version_by_id", "none",
        "delete_config_version", FALSE, NoParent)

History(name, insert) ==
  Table(name, insert, "none", "none", "sql", FALSE, Cascade("feed_instances"))

ExchangeEntries == History("exchange_metrics_history", "insert_exchange_metrics")
QueueEntries == History("queue_history", "insert_queue_entry")
SystemEntries == History("system_metrics_history", "insert_system_metrics")
NetworkEntries == History("network_metrics_history", "insert_network_metrics")
DatabaseEntries == History("database_metrics_history", "insert_database_metrics")

Alerts ==
  Table("alerts", "insert_alert", "get_alert_by_id", "update_alert", "delete_alert", TRUE,
        SetNull("feed_instances"))

Thresholds ==
  Table("metric_thresholds", "insert_metric_threshold", "get_metric_threshold_by_id",
        "update_metric_threshold", "delete_metric_threshold", FALSE,
        Cascade("feed_instances"))

WeeklySummaries ==
  Table("weekly_metrics_summary", "insert_weekly_summary", "none", "none",
        "delete_weekly_summary", FALSE, Cascade("feed_instances"))

Tables ==
  {Clients, SessionRows, FeedInstances, Snapshots, Subscriptions, FeedEvents, ApiRequests,
   ExchangeHealths, BacktestJobs, ConfigVersions, ExchangeEntries, QueueEntries,
   SystemEntries, NetworkEntries, DatabaseEntries, Alerts, Thresholds, WeeklySummaries}

Row(table, key, parent, data) ==
  [of |-> table.name, key |-> key, parent |-> parent, data |-> data]

Ref(table, key) == [of |-> table.name, key |-> key]

RowsOf(table) == {r \in rows : r.of = table.name}

At(table, key) == {r \in RowsOf(table) : r.key = key}

-----------------------------------------------------------------------------
(* The outcomes of a call: the connection and the rows it leaves and what  *)
(* it answers, as a set that is empty for an empty optional or false.      *)

Outcome(c, s, a) == [conn |-> c, rows |-> s, answer |-> a]

No == {}

\* Not connected, a refused statement, or an exception before the commit.
Refused(a) == {Outcome(conn, rows, a)}

\* The connection breaks: a commit that was sent has taken effect or has not.
Broken(after, a) == {Outcome("lost", s, a) : s \in {rows, after}}

Runs(statement) ==
  /\ conn = "open"
  /\ statement = "sql" \/ statement \in usable

Writes(statement, after, answer) ==
  IF Runs(statement)
    THEN {Outcome(conn, after, answer)} \cup Refused(No) \cup Broken(after, No)
    ELSE Refused(No)

\* create_metric_threshold() reads columns that its INSERT does not return, and
\* throws after the commit.
AnswersCreate(table) == table # Thresholds

Create(table, row) ==
  IF \/ table.insert \in ShortOfArguments
     \/ At(table, row.key) # {}
     \/ row.parent # None /\ ~\E r \in rows : r.of = row.parent.of /\ r.key = row.parent.key
    THEN Refused(No)
    ELSE Writes(table.insert, rows \cup {row}, IF AnswersCreate(table) THEN {row.key} ELSE No)

\* A text key that is empty, here None, is refused before the statement.
KeyGiven(table, key) == table.text => key # None

\* Mutant: the arguments of the statement in the wrong order.
UpdateSwapped(table, key, data) ==
  IF table.update = "none" \/ ~KeyGiven(table, key)
    THEN Refused(No)
    ELSE Writes(table.update,
                (rows \ At(table, key)) \cup {[r EXCEPT !.parent = data] : r \in At(table, key)},
                {r.key : r \in At(table, key)})

\* update_feed_instance() and the others write every column they were given.
Update(table, key, data) ==
  IF table.update = "none" \/ ~KeyGiven(table, key)
    THEN Refused(No)
    ELSE Writes(table.update,
                (rows \ At(table, key)) \cup {[r EXCEPT !.data = data] : r \in At(table, key)},
                {r.key : r \in At(table, key)})

\* Mutant: no foreign keys.
AfterDeleteAlone(table, key) == rows \ At(table, key)

\* What the database does to the rows that refer to a deleted one.
AfterDelete(table, key) ==
  LET onDelete(r) == (CHOOSE t \in Tables : t.name = r.of).onDelete[table.name]
      child(r) == r.parent # None /\ r.parent = Ref(table, key)
  IN  {r \in rows \ At(table, key) : ~child(r)}
      \cup {[r EXCEPT !.parent = None] : r \in {c \in rows : child(c) /\ onDelete(c) = "null"}}

\* Mutant: affected_rows() is not looked at.
DeleteUncounted(table, key) ==
  IF ~KeyGiven(table, key)
    THEN Refused(No)
    ELSE Writes(table.delete, AfterDelete(table, key), {key})

Delete(table, key) ==
  IF ~KeyGiven(table, key)
    THEN Refused(No)
    ELSE Writes(table.delete, AfterDelete(table, key),
                {r.key : r \in At(table, key)})

\* instance_id is read as text, although the schema lets it be NULL, by the tables
\* whose rows go with their instance.
Readable(table, r) ==
  r.parent = None =>
    ~("feed_instances" \in DOMAIN table.onDelete /\ table.onDelete["feed_instances"] = "cascade")

\* A read that breaks the connection or throws answers as if there were nothing.
Find(table, key) ==
  IF table.byId # "none" /\ Runs(table.byId)
    THEN {Outcome(conn, rows, {r \in At(table, key) : Readable(table, r)})}
         \cup {Outcome(c, rows, {}) : c \in {conn, "lost"}}
    ELSE Refused({})

\* "WHERE " goes before whatever clause is not empty: one that starts with ORDER
\* BY is a syntax error (wellFormed is FALSE), and answers an empty list too.  A
\* row that cannot be read ends the list before it.
List(table, matching, wellFormed) ==
  LET readable == {r \in matching : Readable(table, r)}
  IN  IF Runs("sql") /\ wellFormed
        THEN {Outcome(c, rows, {}) : c \in {conn, "lost"}}
             \cup {Outcome(c, rows, s) : c \in {conn, "lost"},
                      s \in IF readable = matching THEN {matching} ELSE SUBSET readable}
        ELSE {Outcome(c, rows, {}) : c \in IF Runs("sql") THEN {conn, "lost"} ELSE {conn}}

\* delete_old_snapshots(): one transaction over six tables, of every instance.
Aged == {Snapshots, ExchangeEntries, QueueEntries, SystemEntries, NetworkEntries, DatabaseEntries}

DeleteOld(old) ==
  Writes("sql", {r \in rows : r \in old => \A t \in Aged : r.of # t.name}, {None})

-----------------------------------------------------------------------------
(* connect(), disconnect().                                                *)

\* A failed preparation answers false and leaves the connection open.
ConnectOutcomes ==
  {[conn |-> conn, usable |-> usable, answer |-> FALSE],
   [conn |-> "open", usable |-> Prepared, answer |-> AllPrepared]}

is_connected == conn = "open"

Disconnect == conn' = "none" /\ UNCHANGED <<usable, rows>>
=============================================================================

---------------------------- MODULE WeeklyRollup ----------------------------
(***************************************************************************)
(* metrics/weekly_rollup.cpp: a thread that looks once an hour whether a   *)
(* week has begun, and then averages the snapshots of the week before into *)
(* one row and deletes what is older than the retention period.            *)
(*                                                                         *)
(* A snapshot's data is the time it was measured at; a summary's key is    *)
(* the week that it is of, which is unique, and its data is sample_count:  *)
(* the averages are left out.                                              *)
(***************************************************************************)
EXTENDS StateManager

CONSTANTS
  Week,        \* a week and
  Retention    \* RetentionDays, in steps of the clock

ASSUME WeeklyRollupAssumption == Week \in Nat \ {0} /\ Retention \in Nat

VARIABLES
  rollupRunning, \* WeeklyRollup::running_
  rollupPc,      \* its thread: "none", "sleep", "list", "create", "delete", "done"
  lastWeek,      \* {last_week_start_}, or {} while has_last_week_ is false
  listed         \* the snapshots it has read

rollupVars == <<rollupRunning, rollupPc, lastWeek, listed>>

WeekOf(time) == time - (time % Week)

MeasuredIn(week, r) == r.of = Snapshots.name /\ WeekOf(r.data) = week

\* The sleep ends: isNewWeek() only takes note of the first week it sees.
\* processWeek() does nothing without a connection.
Wake ==
  /\ rollupPc = "sleep"
  /\ LET newWeek == \E w \in lastWeek : WeekOf(clock) > w
     IN  /\ rollupPc' = IF ~rollupRunning THEN "done"
                        ELSE IF newWeek /\ is_connected THEN "list"
                        ELSE "sleep"
         /\ lastWeek' = IF rollupRunning THEN {WeekOf(clock)} ELSE lastWeek
  /\ UNCHANGED <<clock, counterVars, samplerVars, sadapterVars, rollupRunning, listed>>

WeekEnded == CHOOSE w \in {x - Week : x \in lastWeek} : TRUE

\* Mutant: no end of the week in the clause.
ListSinceWeek ==
  /\ rollupPc = "list"
  /\ \E o \in List(Snapshots, {r \in RowsOf(Snapshots) : r.data >= WeekEnded}, TRUE) :
       /\ conn' = o.conn
       /\ listed' = o.answer
       /\ rollupPc' = IF o.answer = {} THEN "sleep" ELSE "create"
  /\ UNCHANGED <<clock, counterVars, samplerVars, rows, usable, rollupRunning, lastWeek>>

ListWeek ==
  /\ rollupPc = "list"
  /\ \E o \in List(Snapshots, {r \in rows : MeasuredIn(WeekEnded, r)}, TRUE) :
       /\ conn' = o.conn
       /\ listed' = o.answer
       /\ rollupPc' = IF o.answer = {} THEN "sleep" ELSE "create"
  /\ UNCHANGED <<clock, counterVars, samplerVars, rows, usable, rollupRunning, lastWeek>>

CreateSummary ==
  /\ rollupPc = "create"
  /\ \E o \in Create(WeeklySummaries, Row(WeeklySummaries, WeekEnded,
                                         Ref(FeedInstances, Instance), Cardinality(listed))) :
       /\ conn' = o.conn
       /\ rows' = o.rows
       /\ rollupPc' = IF o.answer = No THEN "sleep" ELSE "delete"
  /\ listed' = {}
  /\ UNCHANGED <<clock, counterVars, samplerVars, usable, rollupRunning, lastWeek>>

TooOld(r) == r.data + Retention < clock

\* Mutant: the retention period is not subtracted.
DeleteAllSnapshots ==
  /\ rollupPc = "delete"
  /\ \E o \in DeleteOld({r \in rows : r.data < clock}) : conn' = o.conn /\ rows' = o.rows
  /\ rollupPc' = "sleep"
  /\ UNCHANGED <<clock, counterVars, samplerVars, usable, rollupRunning, lastWeek, listed>>

DeleteOldSnapshots ==
  /\ rollupPc = "delete"
  /\ \E o \in DeleteOld({r \in rows : TooOld(r)}) : conn' = o.conn /\ rows' = o.rows
  /\ rollupPc' = "sleep"
  /\ UNCHANGED <<clock, counterVars, samplerVars, usable, rollupRunning, lastWeek, listed>>

RollupStep == Wake \/ ListWeek \/ CreateSummary \/ DeleteOldSnapshots
=============================================================================

-------------------------- MODULE AdapterCallsProofs --------------------------
(***************************************************************************)
(* Whatever the keys and however many rows: no sequence of the adapter's   *)
(* calls leaves a row that refers to one that is gone, or two with a key.  *)
(***************************************************************************)
EXTENDS AdapterCalls, TLAPS

-----------------------------------------------------------------------------
(* The tables.                                                             *)

\* The tables that others refer to.
ParentNames == {"clients", "sessions", "feed_instances"}

\* They refer to clients at most, and outlive the row that they refer to.
Fits(t) ==
  /\ DOMAIN t.onDelete \subseteq ParentNames
  /\ t.name = "clients" => DOMAIN t.onDelete = {}
  /\ t.name \in {"sessions", "feed_instances"} =>
       DOMAIN t.onDelete = {"clients"} /\ t.onDelete["clients"] = "null"

\* Each of the 18 tables fits.
LEMMA TablesFit == \A t \in Tables : Fits(t)
<1> USE DEF Fits, ParentNames, Table
<1>1. Fits(Clients)
  BY DEF Clients, NoParent
<1>2. Fits(SessionRows)
  BY DEF SessionRows, SetNull
<1>3. Fits(FeedInstances)
  BY DEF FeedInstances, SetNull
<1>4. Fits(Snapshots)
  BY DEF Snapshots, Cascade
<1>5. Fits(Subscriptions)
  BY DEF Subscriptions
<1>6. Fits(FeedEvents)
  BY DEF FeedEvents, NoParent
<1>7. Fits(ApiRequests)
  BY DEF ApiRequests
<1>8. Fits(ExchangeHealths)
  BY DEF ExchangeHealths, NoParent
<1>9. Fits(BacktestJobs)
  BY DEF BacktestJobs, NoParent
<1>10. Fits(ConfigVersions)
  BY DEF ConfigVersions, NoParent
<1>11. Fits(ExchangeEntries)
  BY DEF ExchangeEntries, History, Cascade
<1>12. Fits(QueueEntries)
  BY DEF QueueEntries, History, Cascade
<1>13. Fits(SystemEntries)
  BY DEF SystemEntries, History, Cascade
<1>14. Fits(NetworkEntries)
  BY DEF NetworkEntries, History, Cascade
<1>15. Fits(DatabaseEntries)
  BY DEF DatabaseEntries, History, Cascade
<1>16. Fits(Alerts)
  BY DEF Alerts, SetNull
<1>17. Fits(Thresholds)
  BY DEF Thresholds, Cascade
<1>18. Fits(WeeklySummaries)
  BY DEF WeeklySummaries, Cascade
<1> HIDE DEF Fits
<1> QED
  BY <1>1, <1>2, <1>3, <1>4, <1>5, <1>6, <1>7, <1>8, <1>9, <1>10,
     <1>11, <1>12, <1>13, <1>14, <1>15, <1>16, <1>17, <1>18 DEF Tables

\* No row refers to one of a table that is cleared by age.
LEMMA AgedAreNoParents == \A t \in Aged : t.name \notin ParentNames
BY DEF Aged, ParentNames, Table, History, Snapshots, ExchangeEntries, QueueEntries, SystemEntries,
       NetworkEntries, DatabaseEntries

-----------------------------------------------------------------------------
(* Sound sets of rows.                                                     *)

Names == {t.name : t \in Tables}
RefSet == [of : Names, key : Keys]
RowSet == [of : Names, key : Keys, parent : RefSet \cup {None}, data : Values]

\* Which rows may refer to which.
Placed(r) ==
  r.parent # None =>
    /\ r.parent.of \in ParentNames
    /\ r.of # "clients"
    /\ r.of \in {"sessions", "feed_instances"} => r.parent.of = "clients"

Has(S, ref) == \E p \in S : p.of = ref.of /\ p.key = ref.key

Sound(S) ==
  /\ S \subseteq RowSet
  /\ \A r \in S : Placed(r) /\ (r.parent # None => Has(S, r.parent))
  /\ \A r, s \in S : s.of = r.of /\ s.key = r.key => s = r

\* A new row has a key of its own, and what it refers to is there.
LEMMA CreateSound ==
  ASSUME NEW S, Sound(S), NEW t \in Tables, NEW k \in Keys, NEW p \in Parents(t) \cup {None},
         NEW d \in Values,
         \A r \in S : ~(r.of = t.name /\ r.key = k),
         p # None => Has(S, p)
  PROVE  Sound(S \cup {Row(t, k, p, d)})
<1> DEFINE new == Row(t, k, p, d)
<1>1. Fits(t)
  BY TablesFit
<1>2. p # None =>
        /\ p \in RefSet
        /\ p.of \in DOMAIN t.onDelete
  BY DEF Parents, Ref, RefSet, Names
<1>3. new \in RowSet /\ new.of = t.name /\ new.key = k /\ new.parent = p
  BY <1>2 DEF Row, RowSet, Names
<1>4. Placed(new)
  BY <1>1, <1>2, <1>3 DEF Placed, Fits
<1> HIDE DEF new
<1>5. \A q \in S : q.parent # None => Has(S \cup {new}, q.parent)
  BY DEF Sound, Has
<1>6. p # None => Has(S \cup {new}, p)
  BY DEF Has
<1>7. \A r, s \in S \cup {new} : s.of = r.of /\ s.key = r.key => s = r
  BY <1>3 DEF Sound
<1>8. Sound(S \cup {new})
  BY <1>3, <1>4, <1>5, <1>6, <1>7 DEF Sound
<1> QED
  BY <1>8 DEF new

\* An update leaves the key and what the row refers to.
LEMMA UpdateSound ==
  ASSUME NEW S, Sound(S), NEW T \in SUBSET S, NEW d \in Values
  PROVE  Sound((S \ T) \cup {[r EXCEPT !.data = d] : r \in T})
<1> DEFINE after == (S \ T) \cup {[r EXCEPT !.data = d] : r \in T}
           image(r) == IF r \in T THEN [r EXCEPT !.data = d] ELSE r
<1>1. \A r \in S : /\ image(r) \in after /\ image(r) \in RowSet
                   /\ image(r).of = r.of /\ image(r).key = r.key /\ image(r).parent = r.parent
  BY DEF Sound, RowSet
<1>2. \A q \in after : \E r \in S : q = image(r)
  OBVIOUS
<1> HIDE DEF after, image
<1>3. ASSUME NEW q \in after
      PROVE  q \in RowSet /\ Placed(q) /\ (q.parent # None => Has(after, q.parent))
  <2>1. PICK r \in S : q = image(r)
    BY <1>2
  <2>2. q.of = r.of /\ q.parent = r.parent /\ q \in RowSet
    BY <1>1, <2>1
  <2>3. Placed(q)
    BY <2>2 DEF Sound, Placed
  <2>4. ASSUME q.parent # None PROVE Has(after, q.parent)
    <3>1. PICK p \in S : p.of = q.parent.of /\ p.key = q.parent.key
      BY <2>2, <2>4 DEF Sound, Has
    <3> QED
      BY <1>1, <3>1 DEF Has
  <2> QED
    BY <2>2, <2>3, <2>4
<1>4. ASSUME NEW q \in after, NEW s \in after, s.of = q.of, s.key = q.key PROVE s = q
  <2>1. PICK r \in S : q = image(r)
    BY <1>2
  <2>2. PICK u \in S : s = image(u)
    BY <1>2
  <2>3. u = r
    BY <1>1, <1>4, <2>1, <2>2 DEF Sound
  <2> QED
    BY <2>1, <2>2, <2>3
<1>5. Sound(after)
  BY <1>3, <1>4 DEF Sound
<1> QED
  BY <1>5 DEF after

\* What a row refers to is deleted: the row goes too or refers to nothing.  Those that
\* others refer to never go in that way.
LEMMA DeleteSound ==
  ASSUME Sound(rows), NEW t \in Tables, NEW k \in Keys
  PROVE  Sound(AfterDelete(t, k))
<1> DEFINE after == AfterDelete(t, k)
           onDelete(r) == (CHOOSE u \in Tables : u.name = r.of).onDelete[t.name]
           child(r) == r.parent # None /\ r.parent = Ref(t, k)
           free(r) == [r EXCEPT !.parent = None]
<1>1. \A q : q \in after <=>
        \/ q \in rows \ At(t, k) /\ ~child(q)
        \/ \E r \in rows : child(r) /\ onDelete(r) = "null" /\ q = free(r)
  BY DEF AfterDelete
<1>2. \A r \in rows : /\ r \in RowSet /\ Placed(r)
                      /\ free(r) \in RowSet /\ free(r).of = r.of /\ free(r).key = r.key
                      /\ free(r).parent = None
  BY DEF Sound, RowSet
<1>3. ASSUME NEW r \in rows, child(r), r.of \in ParentNames PROVE onDelete(r) = "null"
  <2>1. r.parent.of = t.name
    BY <1>3 DEF Ref
  <2>2. r.of \in {"sessions", "feed_instances"} /\ t.name = "clients"
    BY <1>2, <1>3, <2>1 DEF Placed, ParentNames
  <2>3. \E u \in Tables : u.name = r.of
    BY <1>2 DEF RowSet, Names
  <2> DEFINE u == CHOOSE u \in Tables : u.name = r.of
  <2>4. u \in Tables /\ u.name = r.of
    BY <2>3
  <2> HIDE DEF u
  <2>5. u.onDelete["clients"] = "null"
    BY <2>2, <2>4, TablesFit DEF Fits
  <2> QED
    BY <2>2, <2>5 DEF u
<1> HIDE DEF after, onDelete, free
<1>4. ASSUME NEW q \in after, q.parent # None
      PROVE  q \in rows /\ ~child(q)
  BY <1>1, <1>2, <1>4
<1>5. ASSUME NEW q \in after, q.parent # None
      PROVE  Has(after, q.parent)
  <2>1. q \in rows /\ ~child(q) /\ q.parent \in RefSet /\ q.parent.of \in ParentNames
    BY <1>2, <1>4, <1>5 DEF RowSet, Placed
  <2>2. PICK p \in rows : p.of = q.parent.of /\ p.key = q.parent.key
    BY <1>5, <2>1 DEF Sound, Has
  <2>3. p \notin At(t, k)
    <3>1. ~(q.parent.of = t.name /\ q.parent.key = k)
      BY <1>5, <2>1 DEF Ref, RefSet
    <3> QED
      BY <2>2, <3>1 DEF At, RowsOf
  <2>4. CASE ~child(p)
    BY <1>1, <2>2, <2>3, <2>4 DEF Has
  <2>5. CASE child(p)
    <3>1. onDelete(p) = "null"
      BY <1>3, <2>1, <2>2, <2>5
    <3>2. free(p) \in after
      BY <1>1, <2>5, <3>1
    <3> QED
      BY <1>2, <2>2, <3>2 DEF Has
  <2> QED
    BY <2>4, <2>5
<1>6. ASSUME NEW q \in after PROVE q \in RowSet /\ Placed(q)
  BY <1>1, <1>2 DEF Placed
<1>7. ASSUME NEW q \in after, NEW s \in after, s.of = q.of, s.key = q.key PROVE s = q
  <2>1. PICK r \in rows : /\ r.of = q.of /\ r.key = q.key
                         /\ q = IF child(r) THEN free(r) ELSE r
    BY <1>1, <1>2
  <2>2. PICK u \in rows : /\ u.of = s.of /\ u.key = s.key
                         /\ s = IF child(u) THEN free(u) ELSE u
    BY <1>1, <1>2
  <2>3. u = r
    BY <1>7, <2>1, <2>2 DEF Sound
  <2> QED
    BY <2>1, <2>2, <2>3
<1>8. Sound(after)
  BY <1>5, <1>6, <1>7 DEF Sound
<1> QED
  BY <1>8 DEF after

\* The aged tables are referred to by none.
LEMMA DeleteOldSound ==
  ASSUME Sound(rows), NEW old
  PROVE  Sound({r \in rows : r \in old => \A t \in Aged : r.of # t.name})
<1> DEFINE after == {r \in rows : r \in old => \A t \in Aged : r.of # t.name}
<1>1. ASSUME NEW r \in after, r.parent # None PROVE Has(after, r.parent)
  <2>1. r \in rows /\ r.parent.of \in ParentNames
    BY <1>1 DEF Sound, Placed
  <2>2. PICK p \in rows : p.of = r.parent.of /\ p.key = r.parent.key
    BY <1>1, <2>1 DEF Sound, Has
  <2> QED
    BY <2>1, <2>2, AgedAreNoParents DEF Has
<1> QED
  BY <1>1 DEF Sound

-----------------------------------------------------------------------------
(* The calls.                                                              *)

\* Whether it is answered or not, a call that writes leaves the rows or what it makes
\* of them.
LEMMA WritesRows ==
  ASSUME NEW s, NEW after, NEW a, NEW o \in Writes(s, after, a)
  PROVE  o.rows \in {rows, after}
BY DEF Writes, Refused, Broken, Outcome

\* Every call of every table keeps the rows sound.
LEMMA CallsKeepSound ==
  ASSUME Sound(rows), Next
  PROVE  Sound(rows')
<1>1. ASSUME Connect \/ Disconnects PROVE Sound(rows')
  BY <1>1 DEF Connect, Disconnects, Disconnect
<1>2. ASSUME NEW t \in Tables, NEW k \in Keys, CallCreate(t, k) PROVE Sound(rows')
  <2>1. PICK p \in Parents(t) \cup {None}, d \in Values :
          Ends(Create(t, Row(t, k, p, d)), "create", Ref(t, k))
    BY <1>2 DEF CallCreate
  <2> DEFINE row == Row(t, k, p, d)
  <2>2. PICK o \in Create(t, row) : rows' = o.rows
    BY <2>1 DEF Ends
  <2>3. row.key = k /\ row.parent = p
    BY DEF Row
  <2> HIDE DEF row
  <2>4. CASE o \in Refused(No)
    BY <2>2, <2>4 DEF Refused, Outcome
  <2>5. CASE o \notin Refused(No)
    <3>1. /\ At(t, k) = {}
          /\ p # None => \E r \in rows : r.of = p.of /\ r.key = p.key
          /\ \E a : o \in Writes(t.insert, rows \cup {row}, a)
      BY <2>2, <2>3, <2>5 DEF Create
    <3>2. rows' \in {rows, rows \cup {row}}
      BY <2>2, <3>1, WritesRows
    <3>3. (\A r \in rows : ~(r.of = t.name /\ r.key = k)) /\ (p # None => Has(rows, p))
      BY <3>1 DEF At, RowsOf, Has
    <3>4. Sound(rows \cup {row})
      BY <3>3, CreateSound DEF row
    <3> QED
      BY <3>2, <3>4
  <2> QED
    BY <2>4, <2>5
<1>3. ASSUME NEW t \in Tables, NEW k \in Keys, CallUpdate(t, k) PROVE Sound(rows')
  <2>1. PICK d \in Values : Ends(Update(t, k, d), "update", Ref(t, k))
    BY <1>3 DEF CallUpdate
  <2>2. PICK o \in Update(t, k, d) : rows' = o.rows
    BY <2>1 DEF Ends
  <2> DEFINE after == (rows \ At(t, k)) \cup {[r EXCEPT !.data = d] : r \in At(t, k)}
  <2>3. Sound(after)
    BY UpdateSound DEF At, RowsOf
  <2> HIDE DEF after
  <2>4. o \in Refused(No) \/ \E a : o \in Writes(t.update, after, a)
    BY <2>2 DEF Update, after
  <2>5. rows' \in {rows, after}
    BY <2>2, <2>4, WritesRows DEF Refused, Outcome
  <2> QED
    BY <2>3, <2>5
<1>4. ASSUME NEW t \in Tables, NEW k \in Keys, CallDelete(t, k) PROVE Sound(rows')
  <2>1. PICK o \in Delete(t, k) : rows' = o.rows
    BY <1>4 DEF CallDelete, Ends
  <2>2. o \in Refused(No) \/ \E a : o \in Writes(t.delete, AfterDelete(t, k), a)
    BY <2>1 DEF Delete
  <2>3. rows' \in {rows, AfterDelete(t, k)}
    BY <2>1, <2>2, WritesRows DEF Refused, Outcome
  <2> QED
    BY <2>3, DeleteSound
<1>5. ASSUME NEW t \in Tables, NEW k \in Keys, CallFind(t, k) PROVE Sound(rows')
  BY <1>5 DEF CallFind, Reads, Find, Refused, Outcome
<1>6. ASSUME NEW t \in Tables, CallList(t) PROVE Sound(rows')
  BY <1>6 DEF CallList, Reads, List, Outcome
<1>7. ASSUME CallDeleteOld PROVE Sound(rows')
  <2> DEFINE old == {r \in rows : r.data = "old"}
             after == {r \in rows : r \in old => \A t \in Aged : r.of # t.name}
  <2>1. PICK o \in Writes("sql", after, {None}) : rows' = o.rows
    BY <1>7 DEF CallDeleteOld, DeleteOld, Ends
  <2>2. rows' \in {rows, after}
    BY <2>1, WritesRows
  <2>3. Sound(after)
    BY DeleteOldSound
  <2> QED
    BY <2>2, <2>3
<1> QED
  BY <1>1, <1>2, <1>3, <1>4, <1>5, <1>6, <1>7 DEF Next

\* No row refers to one that is gone, and no key is held twice.
THEOREM ReferencesAlwaysHold == Spec => []ReferencesHold
<1>1. Init => Sound(rows)
  BY DEF Init, Sound
<1>2. Sound(rows) /\ [Next]_callVars => Sound(rows)'
  BY CallsKeepSound DEF callVars, sadapterVars
<1>3. Sound(rows) => ReferencesHold
  BY DEF Sound, Has, ReferencesHold
<1> QED
  BY <1>1, <1>2, <1>3, PTL DEF Spec

-----------------------------------------------------------------------------
(* Answers.                                                                *)

\* A call that writes: an answer means that it is done, and none on a connection as it
\* was, that it is not.
LEMMA WritesAnswer ==
  ASSUME NEW s, NEW after, NEW a, NEW o \in Writes(s, after, a)
  PROVE  /\ o.answer # No => o.answer = a /\ o.rows = after
         /\ o.answer = No /\ o.conn = conn => o.rows = rows \/ (a = No /\ o.rows = after)
BY DEF Writes, Refused, Broken, Outcome, Runs, No

\* The rows with a table's key are those that the answer is about.
LEMMA RowsAt ==
  ASSUME NEW t, NEW k, NEW r
  PROVE  (Ref([name |-> r.of], r.key) = Ref(t, k)) <=> (r.of = t.name /\ r.key = k)
BY DEF Ref

\* What a call answered is about the rows of its key.
AtIn(S, t, k) == {r \in S : r.of = t.name /\ r.key = k}

\* The answer of a call on a row, for each of the three calls.
CreateTrue(t, k, o) ==
  /\ o.answer # No =>
       AtIn(rows, t, k) = {} /\ AtIn(o.rows, t, k) # {} /\ o.rows = rows \cup AtIn(o.rows, t, k)
  /\ o.answer = No /\ o.conn = conn /\ t.name # "metric_thresholds" => o.rows = rows

UpdateTrue(t, k, o) ==
  /\ o.answer # No =>
       AtIn(o.rows, t, k) # {} /\ o.rows \ AtIn(o.rows, t, k) = rows \ AtIn(rows, t, k)
  /\ o.answer = No /\ o.conn = conn => o.rows = rows

DeleteTrue(t, k, o) ==
  /\ o.answer # No =>
       /\ AtIn(rows, t, k) # {} /\ AtIn(o.rows, t, k) = {}
       /\ \A r \in rows \ o.rows :
            r \in AtIn(rows, t, k) \/ (r.parent # None /\ r.parent = Ref(t, k))
  /\ o.answer = No /\ o.conn = conn => o.rows = rows

\* A row is created where there was none.
LEMMA CreateAnswer ==
  ASSUME NEW t \in Tables, NEW k, NEW p, NEW d, NEW o \in Create(t, Row(t, k, p, d))
  PROVE  CreateTrue(t, k, o)
<1> DEFINE row == Row(t, k, p, d)
<1>1. row.of = t.name /\ row.key = k
  BY DEF Row
<1> HIDE DEF row
<1>2. CASE o \in Refused(No)
  BY <1>2 DEF Refused, Outcome, CreateTrue
<1>3. CASE o \notin Refused(No)
  <2> DEFINE a == IF AnswersCreate(t) THEN {row.key} ELSE No
  <2>1. At(t, k) = {} /\ o \in Writes(t.insert, rows \cup {row}, a)
    BY <1>1, <1>3 DEF Create, row
  <2>2. AtIn(rows, t, k) = {}
    BY <2>1 DEF At, RowsOf, AtIn
  <2>3. AtIn(rows \cup {row}, t, k) = {row}
    BY <1>1, <2>2 DEF AtIn
  <2>4. t.name # "metric_thresholds" => a # No
    BY DEF AnswersCreate, Thresholds, Table, No
  <2> DEFINE after == rows \cup {row}
  <2> HIDE DEF a, after
  <2>5. o \in Writes(t.insert, after, a)
    BY <2>1 DEF after
  <2>6. /\ o.answer # No => o.rows = after
        /\ o.answer = No /\ o.conn = conn => o.rows = rows \/ a = No
    BY <2>5, WritesAnswer
  <2>7. AtIn(after, t, k) = {row} /\ after = rows \cup {row}
    BY <2>3 DEF after
  <2> QED
    BY <2>2, <2>4, <2>6, <2>7 DEF CreateTrue
<1> QED
  BY <1>2, <1>3

\* A row is updated in its place, if there is one.
LEMMA UpdateAnswer ==
  ASSUME Sound(rows), NEW t \in Tables, NEW k, NEW d, NEW o \in Update(t, k, d)
  PROVE  UpdateTrue(t, k, o)
<1> DEFINE a == {r.key : r \in At(t, k)}
           after == (rows \ At(t, k)) \cup {[r EXCEPT !.data = d] : r \in At(t, k)}
<1>1. At(t, k) = AtIn(rows, t, k)
  BY DEF At, RowsOf, AtIn
<1>2. \A r \in rows : [r EXCEPT !.data = d].of = r.of /\ [r EXCEPT !.data = d].key = r.key
  BY DEF Sound, RowSet
<1>3. AtIn(after, t, k) = {[r EXCEPT !.data = d] : r \in At(t, k)}
  BY <1>1, <1>2 DEF AtIn
<1>4. after \ AtIn(after, t, k) = rows \ AtIn(rows, t, k)
  BY <1>1, <1>2, <1>3 DEF AtIn
<1>5. a # No => AtIn(after, t, k) # {}
  BY <1>3 DEF No
<1>6. a = No => after = rows
  BY DEF No
<1>7. o \in Refused(No) \/ o \in Writes(t.update, after, a)
  BY DEF Update
<1> HIDE DEF a, after
<1> QED
  BY <1>4, <1>5, <1>6, <1>7, WritesAnswer DEF UpdateTrue, Refused, Outcome

\* A row that others refer to goes, and with it or changed only those.
LEMMA DeleteAnswer ==
  ASSUME Sound(rows), NEW t \in Tables, NEW k, NEW o \in Delete(t, k)
  PROVE  DeleteTrue(t, k, o)
<1> DEFINE a == {r.key : r \in At(t, k)}
           after == AfterDelete(t, k)
           onDelete(r) == (CHOOSE u \in Tables : u.name = r.of).onDelete[t.name]
           child(r) == r.parent # None /\ r.parent = Ref(t, k)
           free(r) == [r EXCEPT !.parent = None]
<1>1. At(t, k) = AtIn(rows, t, k)
  BY DEF At, RowsOf, AtIn
<1>2. \A q : q \in after <=>
        \/ q \in rows \ At(t, k) /\ ~child(q)
        \/ \E r \in rows : child(r) /\ onDelete(r) = "null" /\ q = free(r)
  BY DEF AfterDelete
<1>3. \A r \in rows : free(r).of = r.of /\ free(r).key = r.key
  BY DEF Sound, RowSet
<1>4. \A r \in rows : child(r) => r.of # t.name
  <2> SUFFICES ASSUME NEW r \in rows, child(r) PROVE r.of # t.name
    OBVIOUS
  <2>1. r.parent.of = t.name /\ Placed(r) /\ r.parent # None
    BY DEF Sound, Ref
  <2> QED
    BY <2>1 DEF Placed, ParentNames
<1> HIDE DEF after, onDelete, free
<1>5. AtIn(after, t, k) = {}
  BY <1>1, <1>2, <1>3, <1>4 DEF AtIn
<1>6. \A r \in rows \ after : r \in AtIn(rows, t, k) \/ child(r)
  BY <1>1, <1>2
<1>7. ASSUME a = No PROVE after = rows
  <2>1. At(t, k) = {}
    BY <1>7 DEF No
  <2>2. \A r \in rows : ~child(r)
    <3> SUFFICES ASSUME NEW r \in rows, child(r) PROVE FALSE
      OBVIOUS
    <3>1. PICK p \in rows : p.of = r.parent.of /\ p.key = r.parent.key
      BY DEF Sound, Has
    <3>2. p.of = t.name /\ p.key = k
      BY <3>1 DEF Ref
    <3> QED
      BY <1>1, <2>1, <3>2 DEF AtIn
  <2> QED
    BY <1>2, <2>1, <2>2
<1>8. a # No => AtIn(rows, t, k) # {}
  BY <1>1 DEF No
<1>9. o \in Refused(No) \/ o \in Writes(t.delete, after, a)
  BY DEF Delete, after
<1> HIDE DEF a
<1> QED
  BY <1>5, <1>6, <1>7, <1>8, <1>9, WritesAnswer DEF DeleteTrue, Refused, Outcome

\* Every step answers truly.
LEMMA CallsAnswer ==
  ASSUME Sound(rows), Next
  PROVE  AnswerIsTrue
<1>1. CASE Connect \/ Disconnects
  BY <1>1 DEF Connect, Disconnects, Nothing, AnswerIsTrue
<1>2. ASSUME NEW t \in Tables, NEW k \in Keys, CallCreate(t, k) PROVE AnswerIsTrue
  <2>1. PICK o : /\ CreateTrue(t, k, o) /\ conn' = o.conn /\ rows' = o.rows
                 /\ did' = [call |-> "create", ref |-> Ref(t, k), answer |-> o.answer]
    BY <1>2, CreateAnswer DEF CallCreate, Ends
  <2>2. did'.ref = Ref(t, k) /\ Ref(t, k).of = t.name /\ did'.call = "create" /\ did'.answer = o.answer
    BY <2>1 DEF Ref
  <2> QED
    BY <2>1, <2>2, RowsAt DEF AnswerIsTrue, CreateTrue, AtIn
<1>3. ASSUME NEW t \in Tables, NEW k \in Keys, CallUpdate(t, k) PROVE AnswerIsTrue
  <2>1. PICK o : /\ UpdateTrue(t, k, o) /\ conn' = o.conn /\ rows' = o.rows
                 /\ did' = [call |-> "update", ref |-> Ref(t, k), answer |-> o.answer]
    BY <1>3, UpdateAnswer DEF CallUpdate, Ends
  <2>2. did'.ref = Ref(t, k) /\ did'.call = "update" /\ did'.answer = o.answer
    BY <2>1
  <2> QED
    BY <2>1, <2>2, RowsAt DEF AnswerIsTrue, UpdateTrue, AtIn
<1>4. ASSUME NEW t \in Tables, NEW k \in Keys, CallDelete(t, k) PROVE AnswerIsTrue
  <2>1. PICK o : /\ DeleteTrue(t, k, o) /\ conn' = o.conn /\ rows' = o.rows
                 /\ did' = [call |-> "delete", ref |-> Ref(t, k), answer |-> o.answer]
    BY <1>4, DeleteAnswer DEF CallDelete, Ends
  <2>2. did'.ref = Ref(t, k) /\ did'.call = "delete" /\ did'.answer = o.answer
    BY <2>1
  <2> QED
    BY <2>1, <2>2, RowsAt DEF AnswerIsTrue, DeleteTrue, AtIn
<1>5. ASSUME \E t \in Tables : CallList(t) \/ \E k \in Keys : CallFind(t, k) PROVE AnswerIsTrue
  <2>1. rows' = rows /\ did'.call = "read"
    BY <1>5 DEF CallList, CallFind, Reads, List, Find, Refused, Outcome, Nothing
  <2> QED
    BY <2>1 DEF AnswerIsTrue
<1>6. CASE CallDeleteOld
  <2>1. did'.call = "deleteOld"
    BY <1>6 DEF CallDeleteOld, Ends
  <2> QED
    BY <2>1 DEF AnswerIsTrue
<1> QED
  BY <1>1, <1>2, <1>3, <1>4, <1>5, <1>6 DEF Next

\* What a call answers is what happened to the rows.
THEOREM AnswersStayTrue == Spec => AnswersAreTrue
<1>1. Init => Sound(rows)
  BY DEF Init, Sound
<1>2. Sound(rows) /\ [Next]_callVars => Sound(rows)' /\ [AnswerIsTrue]_callVars
  BY CallsKeepSound, CallsAnswer DEF callVars, sadapterVars
<1> QED
  BY <1>1, <1>2, PTL DEF Spec, AnswersAreTrue

-----------------------------------------------------------------------------
(* Types.                                                                  *)

OfType(r) ==
  \E t \in Tables : /\ r.of = t.name /\ r.key \in Keys
                    /\ r.parent \in Parents(t) \cup {None} /\ r.data \in Values

\* The connection and the statements, which calls other than connect() do not change.
ConnTyped == conn \in {"none", "open", "lost"} /\ usable \subseteq {Statements[i] : i \in DOMAIN Statements}

\* A call leaves rows that are, but for data and a reference dropped, those before it, or
\* adds one.
LEMMA CallsKeepRowTypes ==
  ASSUME Sound(rows), \A r \in rows : OfType(r), Next
  PROVE  \A r \in rows' : OfType(r)
<1>1. ASSUME NEW t \in Tables, NEW k \in Keys, CallCreate(t, k) PROVE \A r \in rows' : OfType(r)
  <2>1. PICK p \in Parents(t) \cup {None}, d \in Values :
          Ends(Create(t, Row(t, k, p, d)), "create", Ref(t, k))
    BY <1>1 DEF CallCreate
  <2>2. rows' \in {rows, rows \cup {Row(t, k, p, d)}}
    BY <2>1 DEF Ends, Create, Writes, Refused, Broken, Outcome
  <2>3. OfType(Row(t, k, p, d))
    BY DEF OfType, Row
  <2> QED
    BY <2>2, <2>3
<1>2. ASSUME NEW t \in Tables, NEW k \in Keys, CallUpdate(t, k) PROVE \A r \in rows' : OfType(r)
  <2>1. PICK d \in Values : Ends(Update(t, k, d), "update", Ref(t, k))
    BY <1>2 DEF CallUpdate
  <2> DEFINE after == (rows \ At(t, k)) \cup {[r EXCEPT !.data = d] : r \in At(t, k)}
  <2>2. rows' \in {rows, after}
    BY <2>1 DEF Ends, Update, Writes, Refused, Broken, Outcome
  <2>3. \A r \in rows : OfType([r EXCEPT !.data = d])
    <3> SUFFICES ASSUME NEW r \in rows PROVE OfType([r EXCEPT !.data = d])
      OBVIOUS
    <3> DEFINE q == [r EXCEPT !.data = d]
    <3>1. q.of = r.of /\ q.key = r.key /\ q.parent = r.parent /\ q.data = d
      BY DEF Sound, RowSet
    <3> HIDE DEF q
    <3>2. OfType(q)
      BY <3>1 DEF OfType
    <3> QED
      BY <3>2 DEF q
  <2>4. \A q \in after : OfType(q)
    BY <2>3 DEF At, RowsOf
  <2> QED
    BY <2>2, <2>4
<1>3. ASSUME NEW t \in Tables, NEW k \in Keys, CallDelete(t, k) PROVE \A r \in rows' : OfType(r)
  <2>1. PICK o \in Delete(t, k) : rows' = o.rows
    BY <1>3 DEF CallDelete, Ends
  <2>2. rows' \in {rows, AfterDelete(t, k)}
    BY <2>1 DEF Delete, Writes, Refused, Broken, Outcome
  <2>3. \A r \in rows : OfType([r EXCEPT !.parent = None])
    <3> SUFFICES ASSUME NEW r \in rows PROVE OfType([r EXCEPT !.parent = None])
      OBVIOUS
    <3> DEFINE q == [r EXCEPT !.parent = None]
    <3>1. q.of = r.of /\ q.key = r.key /\ q.parent = None /\ q.data = r.data
      BY DEF Sound, RowSet
    <3> HIDE DEF q
    <3>2. OfType(q)
      BY <3>1 DEF OfType
    <3> QED
      BY <3>2 DEF q
  <2>4. \A q \in AfterDelete(t, k) : q \in rows \/ \E r \in rows : q = [r EXCEPT !.parent = None]
    BY DEF AfterDelete
  <2> QED
    BY <2>2, <2>3, <2>4
<1>4. ASSUME Connect \/ Disconnects \/ \E t \in Tables : CallList(t) \/ \E k \in Keys : CallFind(t, k)
      PROVE  rows' = rows
  BY <1>4 DEF Connect, Disconnects, Disconnect, CallList, CallFind, Reads, List, Find, Refused, Outcome
<1>5. CASE CallDeleteOld
  BY <1>5 DEF CallDeleteOld, DeleteOld, Ends, Writes, Refused, Broken, Outcome
<1> QED
  BY <1>1, <1>2, <1>3, <1>4, <1>5 DEF Next

\* A call keeps the connection or breaks it; connect() prepares statements of the list.
LEMMA CallsKeepConn ==
  ASSUME ConnTyped, Next
  PROVE  ConnTyped' /\ did'.call \in {"none", "create", "update", "delete", "read", "deleteOld"}
<1>1. CASE Connect
  <2>1. Prepared \subseteq {Statements[i] : i \in DOMAIN Statements}
    BY DEF Prepared
  <2> QED
    BY <1>1, <2>1 DEF Connect, ConnectOutcomes, ConnTyped, Nothing
<1>2. CASE Disconnects
  BY <1>2 DEF Disconnects, Disconnect, ConnTyped, Nothing
<1>3. \A s, after, a : \A o \in Writes(s, after, a) : o.conn \in {conn, "lost"}
  BY DEF Writes, Refused, Broken, Outcome
<1>4. \A o \in Refused(No) : o.conn = conn
  BY DEF Refused, Outcome
<1>5. ASSUME NEW outcomes, NEW call \in {"create", "update", "delete", "deleteOld"}, NEW ref,
             Ends(outcomes, call, ref), \A o \in outcomes : o.conn \in {conn, "lost"}
      PROVE  ConnTyped' /\ did'.call = call
  BY <1>5 DEF Ends, ConnTyped
<1>6. ASSUME NEW t \in Tables, NEW k \in Keys, CallCreate(t, k)
      PROVE  ConnTyped' /\ did'.call = "create"
  <2>1. \A row : \A o \in Create(t, row) : o.conn \in {conn, "lost"}
    BY <1>3, <1>4 DEF Create
  <2> QED
    BY <1>5, <1>6, <2>1 DEF CallCreate
<1>7. ASSUME NEW t \in Tables, NEW k \in Keys, CallUpdate(t, k)
      PROVE  ConnTyped' /\ did'.call = "update"
  <2>1. \A d : \A o \in Update(t, k, d) : o.conn \in {conn, "lost"}
    BY <1>3, <1>4 DEF Update
  <2> QED
    BY <1>5, <1>7, <2>1 DEF CallUpdate
<1>8. ASSUME NEW t \in Tables, NEW k \in Keys, CallDelete(t, k)
      PROVE  ConnTyped' /\ did'.call = "delete"
  <2>1. \A o \in Delete(t, k) : o.conn \in {conn, "lost"}
    BY <1>3, <1>4 DEF Delete
  <2> QED
    BY <1>5, <1>8, <2>1 DEF CallDelete
<1>9. CASE CallDeleteOld
  <2>1. \A old : \A o \in DeleteOld(old) : o.conn \in {conn, "lost"}
    BY <1>3 DEF DeleteOld
  <2> QED
    BY <1>5, <1>9, <2>1 DEF CallDeleteOld
<1>10. ASSUME NEW t \in Tables, CallList(t) \/ \E k \in Keys : CallFind(t, k)
       PROVE  ConnTyped' /\ did'.call = "read"
  BY <1>10 DEF CallList, CallFind, Reads, List, Find, Refused, Outcome, Nothing, ConnTyped
<1> QED
  BY <1>1, <1>2, <1>6, <1>7, <1>8, <1>9, <1>10 DEF Next

\* The connection, the statements and the rows of all the tables keep their types.
THEOREM AdapterTyped == Spec => []AdapterTypeOK
<1> DEFINE Inv == Sound(rows) /\ AdapterTypeOK
<1>1. Init => Inv
  BY DEF Init, Sound, AdapterTypeOK, Nothing
<1>2. AdapterTypeOK <=>
        /\ ConnTyped /\ \A r \in rows : OfType(r)
        /\ did.call \in {"none", "create", "update", "delete", "read", "deleteOld"}
  BY DEF AdapterTypeOK, ConnTyped, OfType
<1>3. ASSUME Inv, Next PROVE Inv'
  <2>1. Sound(rows)' /\ ConnTyped' /\ (\A r \in rows : OfType(r))'
        /\ did'.call \in {"none", "create", "update", "delete", "read", "deleteOld"}
    BY <1>2, <1>3, CallsKeepSound, CallsKeepRowTypes, CallsKeepConn
  <2> QED
    BY <2>1 DEF AdapterTypeOK, ConnTyped, OfType
<1>4. Inv /\ UNCHANGED callVars => Inv'
  BY DEF callVars, sadapterVars, AdapterTypeOK
<1> QED
  BY <1>1, <1>3, <1>4, PTL DEF Spec
=============================================================================

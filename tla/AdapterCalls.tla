----------------------------- MODULE AdapterCalls -----------------------------
(***************************************************************************)
(* The adapter on its own: any thread may make any of its calls in any     *)
(* order, and the database serves them.  What a call answered is kept, to  *)
(* compare it with what became of the rows.                                *)
(***************************************************************************)
EXTENDS SAdapter, FiniteSets

CONSTANTS Keys,      \* bound: the keys a table can have
          MaxRows    \* bound: the rows of the database

ASSUME AdapterCallsAssumption ==
  /\ None \notin Keys
  /\ MaxRows \in Nat

VARIABLE did         \* the last call: what it was, on which row, and its answer

callVars == <<sadapterVars, did>>

Values == {"old", "new"}

Refs == {Ref(t, k) : t \in Tables, k \in Keys}

\* The tables that a row of a table may refer to, whose columns the model keeps.
Parents(table) == {Ref(t, k) : t \in {u \in Tables : u.name \in DOMAIN table.onDelete}, k \in Keys}

Nothing == [call |-> "none", ref |-> None, answer |-> No]

AdapterTypeOK ==
  /\ conn \in {"none", "open", "lost"}
  /\ usable \subseteq {Statements[i] : i \in DOMAIN Statements}
  /\ \A r \in rows : \E t \in Tables :
       /\ r.of = t.name
       /\ r.key \in Keys
       /\ r.parent \in Parents(t) \cup {None}
       /\ r.data \in Values
  /\ did.call \in {"none", "create", "update", "delete", "read", "deleteOld"}

Init ==
  /\ conn = "none"
  /\ usable = {}
  /\ rows = {}
  /\ did = Nothing

-----------------------------------------------------------------------------
Connect ==
  /\ conn = "none"
  /\ \E o \in ConnectOutcomes : conn' = o.conn /\ usable' = o.usable
  /\ did' = Nothing
  /\ UNCHANGED rows

Disconnects == Disconnect /\ did' = Nothing

Ends(outcomes, call, ref) ==
  /\ \E o \in outcomes :
       /\ conn' = o.conn
       /\ rows' = o.rows
       /\ did' = [call |-> call, ref |-> ref, answer |-> o.answer]
  /\ UNCHANGED usable

CallCreate(t, k) ==
  /\ Cardinality(rows) < MaxRows
  /\ \E p \in Parents(t) \cup {None}, d \in Values :
       Ends(Create(t, Row(t, k, p, d)), "create", Ref(t, k))

CallUpdate(t, k) == \E d \in Values : Ends(Update(t, k, d), "update", Ref(t, k))

CallDelete(t, k) == Ends(Delete(t, k), "delete", Ref(t, k))

\* What a read answers changes nothing here and is not kept.
Reads(outcomes) ==
  /\ \E o \in outcomes : conn' = o.conn /\ rows' = o.rows
  /\ did' = [Nothing EXCEPT !.call = "read"]
  /\ UNCHANGED usable

CallFind(t, k) == Reads(Find(t, k))

CallList(t) ==
  \E wellFormed \in BOOLEAN, d \in Values :
    Reads(List(t, {r \in RowsOf(t) : r.data = d}, wellFormed))

CallDeleteOld == Ends(DeleteOld({r \in rows : r.data = "old"}), "deleteOld", None)

Next ==
  \/ Connect
  \/ Disconnects
  \/ \E t \in Tables, k \in Keys :
       CallCreate(t, k) \/ CallUpdate(t, k) \/ CallDelete(t, k) \/ CallFind(t, k)
  \/ \E t \in Tables : CallList(t)
  \/ CallDeleteOld

Spec == Init /\ [][Next]_callVars

-----------------------------------------------------------------------------
(* Properties.                                                             *)

\* However calls and deletions mix, no row refers to one that is gone, and no
\* key is held twice (schema.sql's foreign keys, sadapter.cpp:2592-2624).
ReferencesHold ==
  \A r \in rows :
    /\ r.parent # None => \E p \in rows : p.of = r.parent.of /\ p.key = r.parent.key
    /\ \A s \in rows : s.of = r.of /\ s.key = r.key => s = r

AnswerIsTrue ==
  LET at(s) == {r \in s : Ref([name |-> r.of], r.key) = did'.ref}
      refers(r) == r.parent # None /\ r.parent = did'.ref
      yes == did'.answer # No
      failed == ~yes /\ conn' = conn
      call == did'.call
  IN  /\ call = "create" /\ yes => at(rows) = {} /\ at(rows') # {} /\ rows' = rows \cup at(rows')
      /\ call = "update" /\ yes => at(rows') # {} /\ rows' \ at(rows') = rows \ at(rows)
      /\ call = "delete" /\ yes =>
           /\ at(rows) # {} /\ at(rows') = {}
           /\ \A r \in rows \ rows' : r \in at(rows) \/ refers(r)
      /\ call \in {"create", "update", "delete"} /\ failed /\ did'.ref.of # "metric_thresholds"
           => rows' = rows
      /\ call = "read" => rows' = rows

\* What an answer tells the caller: a success took effect, on that row and, for
\* what refers to it, no further; a failure on a connection that is still open
\* changed nothing.  create_metric_threshold() breaks the latter.
AnswersAreTrue == [][AnswerIsTrue]_callVars
=============================================================================

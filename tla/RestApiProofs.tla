---------------------------- MODULE RestApiProofs ----------------------------
(***************************************************************************)
(* Whatever the requests, the threads that serve them and the outcomes of  *)
(* the adapter's calls: a reply claims the writes that were made, a write  *)
(* from an up-to-date copy overwrites no other's, and each of the 41       *)
(* routes is reached.                                                      *)
(***************************************************************************)
EXTENDS RestApi, FiniteSetTheorems, TLAPS

-----------------------------------------------------------------------------
(* The calls.                                                              *)

\* What the handlers rely on: a call never mends the connection, and without an answer
\* on one that is still open it has changed nothing.
Honest(o) ==
  /\ o.conn \in {conn, "lost"}
  /\ o.answer = {} /\ o.conn = "open" => o.rows = rows

\* A write of a table is honest, and leaves the rows as they were or as it was to leave them.
LEMMA WritesHonest ==
  ASSUME NEW s, NEW after, NEW a, a = {} => after = rows, NEW o \in Writes(s, after, a)
  PROVE  Honest(o) /\ o.rows \in {rows, after}
BY DEF Writes, Honest, Refused, Broken, Outcome, No

\* A call that only reads is honest and leaves the rows.
LEMMA ReadsHonest ==
  /\ \A t, k : \A o \in Find(t, k) : Honest(o) /\ o.rows = rows
  /\ \A t, m, w : \A o \in List(t, m, w) : Honest(o) /\ o.rows = rows
  /\ \A a : \A o \in Refused(a) : Honest(o) /\ o.rows = rows
BY DEF Find, List, Refused, Outcome, Honest

\* The rows of the model: records, of which none refers to a client.
IsRow(r) == r = [of |-> r.of, key |-> r.key, parent |-> r.parent, data |-> r.data]

RowsFit(S) == \A r \in S : IsRow(r) /\ r.parent \in {None, Ref(FeedInstances, Instance)}

\* The creation of a client is honest, and adds a row that fits.
LEMMA CreateHonest ==
  ASSUME RowsFit(rows), NEW t, NEW o \in Create(Clients, Row(Clients, t, None, Fresh))
  PROVE  Honest(o) /\ RowsFit(o.rows)
<1> DEFINE row == Row(Clients, t, None, Fresh)
<1>1. IsRow(row) /\ row.parent = None
  BY DEF Row, IsRow
<1>2. RowsFit(rows \cup {row})
  BY <1>1 DEF RowsFit
<1> HIDE DEF row
<1>3. CASE o \in Refused(No)
  BY <1>3, ReadsHonest DEF RowsFit
<1>4. CASE o \notin Refused(No)
  <2>1. o \in Writes(Clients.insert, rows \cup {row},
                     IF AnswersCreate(Clients) THEN {row.key} ELSE No)
    BY <1>4 DEF Create, row
  <2>2. AnswersCreate(Clients)
    BY DEF AnswersCreate, Clients, Thresholds, Table
  <2>3. Honest(o) /\ o.rows \in {rows, rows \cup {row}}
    BY <2>1, <2>2, WritesHonest
  <2> QED
    BY <1>2, <2>3 DEF RowsFit
<1> QED
  BY <1>3, <1>4

\* Of a row that is gone an update makes nothing.
LEMMA UpdateHonest ==
  ASSUME RowsFit(rows), NEW t, NEW k, NEW d, NEW o \in Update(t, k, d)
  PROVE  Honest(o) /\ RowsFit(o.rows)
<1> DEFINE after == (rows \ At(t, k)) \cup {[r EXCEPT !.data = d] : r \in At(t, k)}
           keys == {r.key : r \in At(t, k)}
<1>1. keys = {} => after = rows
  OBVIOUS
<1>2. \A r : IsRow(r) => IsRow([r EXCEPT !.data = d]) /\ [r EXCEPT !.data = d].parent = r.parent
  BY DEF IsRow
<1>3. RowsFit(after)
  BY <1>2 DEF RowsFit, At, RowsOf
<1>4. o \in Refused(No) \/ o \in Writes(t.update, after, keys)
  BY DEF Update
<1> HIDE DEF after, keys
<1> QED
  BY <1>1, <1>3, <1>4, WritesHonest, ReadsHonest DEF RowsFit

\* Nor does a deletion: no row refers to a client that is gone.
LEMMA DeleteHonest ==
  ASSUME RowsFit(rows), NEW k, NEW o \in Delete(Clients, k)
  PROVE  Honest(o) /\ RowsFit(o.rows)
<1> DEFINE after == AfterDelete(Clients, k)
           keys == {r.key : r \in At(Clients, k)}
<1>1. \A r \in rows : r.parent # None => r.parent # Ref(Clients, k)
  BY DEF RowsFit, Ref, FeedInstances, Clients, Table
<1>2. after = rows \ At(Clients, k)
  BY <1>1 DEF AfterDelete
<1>3. (keys = {} => after = rows) /\ RowsFit(after)
  BY <1>2 DEF RowsFit
<1>4. o \in Refused(No) \/ o \in Writes(Clients.delete, after, keys)
  BY DEF Delete
<1> HIDE DEF after, keys
<1> QED
  BY <1>3, <1>4, WritesHonest, ReadsHonest DEF RowsFit

-----------------------------------------------------------------------------
(* The invariant.                                                          *)

ApiTyped ==
  /\ pc \in [Threads -> {"idle", "call", "write", "reply"}]
  /\ handler = [t \in Threads |-> handler[t]]
  /\ at \in [Threads -> Nat] /\ value \in [Threads -> Nat] /\ wrote \in [Threads -> Nat]
  /\ status \in [Threads -> Statuses]

\* While a thread serves, it has counted what it wrote; a request that is not one for
\* several thresholds replies with its first write.
Counted(t) ==
  /\ pc[t] = "idle" => value[t] = 0 /\ wrote[t] = 0 /\ at[t] = 1
  /\ pc[t] \in {"call", "write"} =>
       /\ value[t] <= wrote[t] /\ at[t] >= 1
       /\ conn = "open" => value[t] = wrote[t]
       /\ handler[t] # "updateThresholds" \/ at[t] = 1 => value[t] = 0 /\ wrote[t] = 0

Claimed(t) == IF status[t] \in {"ok", "created", "no_content"} THEN value[t] ELSE 0

Truthful(t) ==
  pc[t] = "reply" =>
    /\ Claimed(t) <= wrote[t]
    /\ conn = "open" /\ status[t] # "bad_request" => Claimed(t) = wrote[t]

ReplyInv == ApiTyped /\ RowsFit(rows) /\ \A t \in Threads : Counted(t) /\ Truthful(t)

\* A step of one thread that keeps the connection or breaks it leaves the others as true
\* as they were.
LEMMA OthersKept ==
  ASSUME ReplyInv, NEW t \in Threads, ApiTyped', RowsFit(rows)', Counted(t)', Truthful(t)',
         conn' \in {conn, "lost"},
         \A u \in Threads : u # t =>
           /\ pc'[u] = pc[u] /\ handler'[u] = handler[u] /\ at'[u] = at[u]
           /\ status'[u] = status[u] /\ value'[u] = value[u] /\ wrote'[u] = wrote[u]
  PROVE  ReplyInv'
<1> SUFFICES ASSUME NEW u \in Threads, u # t PROVE Counted(u)' /\ Truthful(u)'
  BY DEF ReplyInv
<1> QED
  BY DEF ReplyInv, Counted, Truthful, Claimed

-----------------------------------------------------------------------------
(* The steps of a thread.                                                  *)

\* What a thread's steps leave alone of the others.
LEMMA ReplyAlone ==
  ASSUME ApiTyped, NEW t \in Threads, NEW s \in Statuses, NEW v \in Nat, Reply(t, s, v)
  PROVE  /\ pc' \in [Threads -> {"idle", "call", "write", "reply"}]
         /\ status' \in [Threads -> Statuses] /\ value' \in [Threads -> Nat]
         /\ pc'[t] = "reply" /\ status'[t] = s /\ value'[t] = v
         /\ \A u \in Threads : u # t =>
              pc'[u] = pc[u] /\ status'[u] = status[u] /\ value'[u] = value[u]
BY DEF ApiTyped, Reply

\* Replies that claim nothing, of requests that wrote nothing.
LEMMA EmptyReply ==
  ASSUME ReplyInv, NEW t \in Threads, pc[t] = "call", value[t] = 0, wrote[t] = 0,
         NEW s \in Statuses, Reply(t, s, 0),
         UNCHANGED <<handler, at, wrote>>, RowsFit(rows)', conn' \in {conn, "lost"}
  PROVE  ReplyInv'
<1>1. ApiTyped' /\ Counted(t)' /\ Truthful(t)'
  BY ReplyAlone DEF ReplyInv, ApiTyped, Counted, Truthful, Claimed
<1> QED
  BY <1>1, ReplyAlone, OthersKept DEF ReplyInv

\* The arrival of a request has claimed nothing.
LEMMA RequestKept ==
  ASSUME ReplyInv, NEW t \in Threads, OnRead(t) \/ Replied(t)
  PROVE  ReplyInv'
<1> USE DEF ReplyInv, ApiTyped, sadapterVars
<1>1. CASE OnRead(t)
  <2>1. Counted(t)' /\ Truthful(t)'
    BY <1>1 DEF OnRead, Counted, Truthful
  <2>2. ApiTyped' /\ RowsFit(rows)'
    BY <1>1 DEF OnRead
  <2> QED
    BY <1>1, <2>1, <2>2, OthersKept DEF OnRead
<1>2. CASE Replied(t)
  <2>1. Counted(t)' /\ Truthful(t)'
    BY <1>2 DEF Replied, Counted, Truthful
  <2>2. ApiTyped' /\ RowsFit(rows)'
    BY <1>2 DEF Replied, Statuses
  <2> QED
    BY <1>2, <2>1, <2>2, OthersKept DEF Replied
<1> QED
  BY <1>1, <1>2

\* A handler that at most reads one row replies without a claim.
LEMMA ReadingHandlersKept ==
  ASSUME ReplyInv, NEW t \in Threads,
         \/ NotFound(t) \/ LiveView(t) \/ GetClientById(t) \/ UpdateConfig(t)
  PROVE  ReplyInv'
<1>1. /\ pc[t] = "call" /\ handler[t] # "updateThresholds"
      /\ UNCHANGED <<handler, at, wrote>>
      /\ \E s \in Statuses : Reply(t, s, 0)
  BY DEF NotFound, LiveView, GetClientById, UpdateConfig, Serving, LiveViews, Statuses
<1>2. rows' = rows /\ conn' \in {conn, "lost"}
  <2>1. CASE NotFound(t) \/ LiveView(t) \/ UpdateConfig(t)
    BY <2>1 DEF NotFound, LiveView, UpdateConfig, sadapterVars
  <2>2. CASE GetClientById(t)
    BY <2>2, ReadsHonest DEF GetClientById, Called, Honest
  <2> QED
    BY <2>1, <2>2
<1> QED
  BY <1>1, <1>2, EmptyReply DEF ReplyInv, Counted

\* Nor does one that makes several listings.
LEMMA ListersKept ==
  ASSUME ReplyInv, NEW t \in Threads, ListNext(t) \/ GetFeedStatus(t)
  PROVE  ReplyInv'
<1>1. /\ pc[t] = "call" /\ handler[t] # "updateThresholds"
      /\ UNCHANGED <<handler, wrote>>
  BY DEF ListNext, GetFeedStatus, Serving, Listers, HistoryOf
<1>2. rows' = rows /\ conn' \in {conn, "lost"}
  <2>1. CASE ListNext(t)
    <3>1. \/ UNCHANGED sadapterVars
          \/ \E table, matching, wellFormed :
               \E o \in List(table, matching, wellFormed) : Called(o)
      BY <2>1 DEF ListNext
    <3> QED
      BY <3>1, ReadsHonest DEF Called, Honest, sadapterVars
  <2>2. CASE GetFeedStatus(t)
    BY <2>2, ReadsHonest DEF GetFeedStatus, Called, Honest
  <2> QED
    BY <2>1, <2>2
<1>3. \/ (\E s \in Statuses : Reply(t, s, 0)) /\ UNCHANGED at
      \/ UNCHANGED <<pc, status, value>> /\ \E n \in Nat \ {0} : at' = [at EXCEPT ![t] = n]
  <2>1. at[t] \in Nat \ {0}
    BY <1>1 DEF ReplyInv, ApiTyped, Counted
  <2>2. CASE ListNext(t)
    BY <2>1, <2>2 DEF ListNext, Statuses
  <2>3. CASE GetFeedStatus(t)
    BY <2>1, <2>3 DEF GetFeedStatus, Statuses
  <2> QED
    BY <2>2, <2>3
<1>4. CASE (\E s \in Statuses : Reply(t, s, 0)) /\ UNCHANGED at
  BY <1>1, <1>2, <1>4, EmptyReply DEF ReplyInv, Counted
<1>5. CASE UNCHANGED <<pc, status, value>> /\ \E n \in Nat \ {0} : at' = [at EXCEPT ![t] = n]
  <2>1. ApiTyped' /\ Counted(t)' /\ Truthful(t)'
    BY <1>1, <1>2, <1>5 DEF ReplyInv, ApiTyped, Counted, Truthful
  <2> QED
    BY <1>1, <1>2, <1>5, <2>1, OthersKept DEF ReplyInv, ApiTyped
<1> QED
  BY <1>3, <1>4, <1>5

\* A handler of one write: what it claims is its answer, and what it wrote its effect.
LEMMA OneWrite ==
  ASSUME ReplyInv, NEW t \in Threads, pc[t] \in {"call", "write"}, value[t] = 0, wrote[t] = 0,
         NEW o, Honest(o), RowsFit(o.rows), Called(o), Wrote(t, o), UNCHANGED <<handler, at>>,
         NEW yes \in {"ok", "created", "no_content"}, NEW no \in {"error", "not_found", "server_error"},
         IF o.answer = {} THEN Reply(t, no, 0) ELSE Reply(t, yes, 1)
  PROVE  ReplyInv'
<1>1. conn' = o.conn /\ rows' = o.rows
  BY DEF Called
<1>2. wrote' = [wrote EXCEPT ![t] = IF Effective(o) THEN 1 ELSE 0]
  BY DEF Wrote, ReplyInv, ApiTyped
<1>3. Effective(o) <=> o.answer # {} \/ o.rows # rows
  BY DEF Effective
<1>4. yes \in Statuses /\ no \in Statuses /\ ApiTyped
  BY DEF Statuses, ReplyInv
<1>5. CASE o.answer = {}
  <2>1. Reply(t, no, 0)
    BY <1>5
  <2>2. ApiTyped' /\ Counted(t)' /\ Truthful(t)'
    BY <1>1, <1>2, <1>3, <1>4, <1>5, <2>1, ReplyAlone
       DEF ApiTyped, Counted, Truthful, Claimed, Honest
  <2> QED
    BY <1>1, <1>2, <1>4, <2>1, <2>2, ReplyAlone, OthersKept DEF ApiTyped, Honest
<1>6. CASE o.answer # {}
  <2>1. Reply(t, yes, 1)
    BY <1>6
  <2>2. ApiTyped' /\ Counted(t)' /\ Truthful(t)'
    BY <1>1, <1>2, <1>3, <1>4, <1>6, <2>1, ReplyAlone
       DEF ApiTyped, Counted, Truthful, Claimed, Honest
  <2> QED
    BY <1>1, <1>2, <1>4, <2>1, <2>2, ReplyAlone, OthersKept DEF ApiTyped, Honest
<1> QED
  BY <1>5, <1>6

\* A client is created or deleted by one call, whose answer is the reply.
LEMMA ClientWritesKept ==
  ASSUME ReplyInv, NEW t \in Threads, CreateClient(t) \/ DeleteClient(t)
  PROVE  ReplyInv'
<1>1. /\ pc[t] = "call" /\ value[t] = 0 /\ wrote[t] = 0 /\ UNCHANGED <<handler, at>>
  BY DEF CreateClient, DeleteClient, Serving, ReplyInv, Counted
<1>2. CASE CreateClient(t) /\ task[t].ask = "malformed"
  BY <1>1, <1>2, EmptyReply DEF CreateClient, Statuses, sadapterVars, ReplyInv
<1>3. CASE CreateClient(t) /\ task[t].ask # "malformed"
  <2>1. PICK o \in Create(Clients, Row(Clients, t, None, Fresh)) :
          /\ Called(o) /\ Wrote(t, o)
          /\ IF o.answer = {} THEN Reply(t, "server_error", 0) ELSE Reply(t, "created", 1)
    BY <1>3 DEF CreateClient
  <2>2. Honest(o) /\ RowsFit(o.rows)
    BY CreateHonest DEF ReplyInv
  <2> QED
    BY <1>1, <2>1, <2>2, OneWrite
<1>4. CASE DeleteClient(t)
  <2>1. PICK o \in Delete(Clients, task[t].path[4]) :
          /\ Called(o) /\ Wrote(t, o)
          /\ IF o.answer = {} THEN Reply(t, "not_found", 0) ELSE Reply(t, "no_content", 1)
    BY <1>4 DEF DeleteClient
  <2>2. Honest(o) /\ RowsFit(o.rows)
    BY DeleteHonest DEF ReplyInv
  <2> QED
    BY <1>1, <2>1, <2>2, OneWrite
<1> QED
  BY <1>2, <1>3, <1>4

\* An acknowledgement reads, and then claims its write if it has an answer.
LEMMA AlertKept ==
  ASSUME ReplyInv, NEW t \in Threads, ReadAlert(t) \/ WriteAlert(t)
  PROVE  ReplyInv'
<1>1. CASE ReadAlert(t)
  <2>1. /\ pc[t] = "call" /\ value[t] = 0 /\ wrote[t] = 0 /\ UNCHANGED <<handler, at, wrote>>
    BY <1>1 DEF ReadAlert, Serving, ReplyInv, Counted
  <2>2. rows' = rows /\ conn' \in {conn, "lost"}
    BY <1>1, ReadsHonest DEF ReadAlert, Called, Honest
  <2>3. CASE \E s \in Statuses : Reply(t, s, 0)
    BY <2>1, <2>2, <2>3, EmptyReply DEF ReplyInv
  <2>4. CASE pc' = [pc EXCEPT ![t] = "write"] /\ UNCHANGED <<status, value>>
    <3>1. ApiTyped' /\ Counted(t)' /\ Truthful(t)'
      BY <2>1, <2>2, <2>4 DEF ReplyInv, ApiTyped, Counted, Truthful
    <3> QED
      BY <2>1, <2>2, <2>4, <3>1, OthersKept DEF ReplyInv, ApiTyped
  <2> QED
    BY <1>1, <2>3, <2>4 DEF ReadAlert, Statuses
<1>2. CASE WriteAlert(t)
  <2>1. /\ pc[t] = "write" /\ value[t] = 0 /\ wrote[t] = 0 /\ UNCHANGED <<handler, at>>
    BY <1>2 DEF WriteAlert, ReplyInv, Counted
  <2>4. PICK r \in copy[t] : \E o \in Update(Alerts, r.key, Acknowledged(r.data)) :
          /\ Called(o) /\ Wrote(t, o)
          /\ IF o.answer = {} THEN Reply(t, "error", 0) ELSE Reply(t, "ok", 1)
    BY <1>2 DEF WriteAlert
  <2>2. PICK o \in Update(Alerts, r.key, Acknowledged(r.data)) :
          /\ Called(o) /\ Wrote(t, o)
          /\ IF o.answer = {} THEN Reply(t, "error", 0) ELSE Reply(t, "ok", 1)
    BY <2>4
  <2>3. Honest(o) /\ RowsFit(o.rows)
    BY UpdateHonest DEF ReplyInv
  <2> QED
    BY <2>1, <2>2, <2>3, OneWrite
<1> QED
  BY <1>1, <1>2

\* The read of an item of an update changes nothing that is claimed.
LEMMA ThresholdReadKept ==
  ASSUME ReplyInv, NEW t \in Threads, ReadThreshold(t)
  PROVE  ReplyInv'
<1> DEFINE item == task[t].body[at[t]]
<1>1. PICK o \in IF item.id = None THEN Refused(No) ELSE Find(Thresholds, item.id) :
        /\ Called(o)
        /\ IF at[t] = 1 /\ ~is_connected
             THEN Reply(t, "error", 0) /\ UNCHANGED <<at, copy>>
           ELSE IF o.answer = {}
             THEN at' = [at EXCEPT ![t] = @ + 1] /\ UNCHANGED <<pc, status, value, copy>>
           ELSE IF item.sets = "mistyped"
             THEN Reply(t, "bad_request", 0) /\ UNCHANGED <<at, copy>>
             ELSE /\ pc' = [pc EXCEPT ![t] = "write"]
                  /\ copy' = [copy EXCEPT ![t] = o.answer]
                  /\ UNCHANGED <<status, value, at>>
  BY DEF ReadThreshold
<1>2. rows' = rows /\ conn' \in {conn, "lost"}
  BY <1>1, ReadsHonest DEF Called, Honest
<1>3. /\ pc[t] = "call" /\ at[t] \in Nat \ {0} /\ handler' = handler /\ wrote' = wrote
      /\ value[t] <= wrote[t] /\ value[t] \in Nat /\ wrote[t] \in Nat
      /\ conn = "open" => value[t] = wrote[t]
  BY DEF ReadThreshold, Serving, ReplyInv, ApiTyped, Counted
<1> HIDE DEF item
<1>4. CASE at[t] = 1 /\ Reply(t, "error", 0) /\ UNCHANGED at
  BY <1>2, <1>3, <1>4, EmptyReply DEF Statuses, ReplyInv, Counted
<1>5. CASE at' = [at EXCEPT ![t] = @ + 1] /\ UNCHANGED <<pc, status, value>>
  <2>1. ApiTyped' /\ Counted(t)' /\ Truthful(t)'
    BY <1>2, <1>3, <1>5 DEF ReplyInv, ApiTyped, Counted, Truthful
  <2> QED
    BY <1>2, <1>3, <1>5, <2>1, OthersKept DEF ReplyInv, ApiTyped
<1>6. CASE Reply(t, "bad_request", 0) /\ UNCHANGED at
  <2>1. "bad_request" \in Statuses /\ ApiTyped
    BY DEF Statuses, ReplyInv
  <2>2. ApiTyped' /\ Counted(t)' /\ Truthful(t)'
    BY <1>2, <1>3, <1>6, <2>1, ReplyAlone DEF ApiTyped, Counted, Truthful, Claimed
  <2> QED
    BY <1>2, <1>3, <1>6, <2>1, <2>2, ReplyAlone, OthersKept DEF ReplyInv
<1>7. CASE pc' = [pc EXCEPT ![t] = "write"] /\ UNCHANGED <<status, value, at>>
  <2>1. ApiTyped' /\ Counted(t)' /\ Truthful(t)'
    BY <1>2, <1>3, <1>7 DEF ReplyInv, ApiTyped, Counted, Truthful
  <2> QED
    BY <1>2, <1>3, <1>7, <2>1, OthersKept DEF ReplyInv, ApiTyped
<1> QED
  BY <1>1, <1>4, <1>5, <1>6, <1>7

\* The write of an item is counted when it has an answer.
LEMMA ThresholdWriteKept ==
  ASSUME ReplyInv, NEW t \in Threads, WriteThreshold(t)
  PROVE  ReplyInv'
<1> DEFINE item == task[t].body[at[t]]
<1>0. PICK r \in copy[t] : \E o \in Update(Thresholds, r.key, Edited(r.data, item)) :
        /\ Called(o) /\ Wrote(t, o)
        /\ value' = [value EXCEPT ![t] = @ + IF o.answer = {} THEN 0 ELSE 1]
  BY DEF WriteThreshold
<1>1. PICK o \in Update(Thresholds, r.key, Edited(r.data, item)) :
        /\ Called(o) /\ Wrote(t, o)
        /\ value' = [value EXCEPT ![t] = @ + IF o.answer = {} THEN 0 ELSE 1]
  BY <1>0
<1>2. Honest(o) /\ RowsFit(o.rows)
  BY UpdateHonest DEF ReplyInv
<1>3. conn' = o.conn /\ rows' = o.rows
  BY <1>1 DEF Called
<1>4. wrote' = [wrote EXCEPT ![t] = @ + IF o.answer # {} \/ o.rows # rows THEN 1 ELSE 0]
  BY <1>1 DEF Wrote, Effective
<1>5. /\ pc[t] = "write" /\ pc' = [pc EXCEPT ![t] = "call"]
      /\ at' = [at EXCEPT ![t] = @ + 1] /\ handler[t] = "updateThresholds"
      /\ UNCHANGED <<handler, status>>
  BY DEF WriteThreshold
<1>6. /\ at[t] \in Nat \ {0} /\ value[t] <= wrote[t] /\ value[t] \in Nat /\ wrote[t] \in Nat
      /\ conn = "open" => value[t] = wrote[t]
  BY <1>5 DEF ReplyInv, ApiTyped, Counted
<1>7. ApiTyped'
  BY <1>1, <1>4, <1>5 DEF ReplyInv, ApiTyped
<1>8. Counted(t)' /\ Truthful(t)'
  <2>1. /\ pc'[t] = "call" /\ at'[t] = at[t] + 1
        /\ value'[t] = value[t] + (IF o.answer = {} THEN 0 ELSE 1)
        /\ wrote'[t] = wrote[t] + (IF o.answer # {} \/ o.rows # rows THEN 1 ELSE 0)
    BY <1>1, <1>4, <1>5 DEF ReplyInv, ApiTyped
  <2>2. conn' = "open" => conn = "open" /\ (o.answer = {} => o.rows = rows)
    BY <1>2, <1>3 DEF Honest
  <2> QED
    BY <1>5, <1>6, <2>1, <2>2 DEF Counted, Truthful
<1> QED
  BY <1>1, <1>2, <1>3, <1>4, <1>5, <1>7, <1>8, OthersKept DEF ReplyInv, ApiTyped, Honest

\* The end of the items makes the reply claim what was counted.
LEMMA ThresholdsDoneKept ==
  ASSUME ReplyInv, NEW t \in Threads, ThresholdsDone(t)
  PROVE  ReplyInv'
<1>1. /\ pc[t] = "call" /\ Reply(t, "ok", value[t])
      /\ UNCHANGED <<conn, rows, handler, at, wrote>>
  BY DEF ThresholdsDone, Serving, sadapterVars
<1>2. "ok" \in Statuses /\ ApiTyped /\ value[t] \in Nat
  BY DEF Statuses, ReplyInv, ApiTyped
<1>3. ApiTyped' /\ Counted(t)' /\ Truthful(t)'
  BY <1>1, <1>2, ReplyAlone DEF ReplyInv, ApiTyped, Counted, Truthful, Claimed
<1> QED
  BY <1>1, <1>2, <1>3, ReplyAlone, OthersKept DEF ReplyInv

\* Other programs change rows, and nothing else.
LEMMA WorldKept ==
  ASSUME ReplyInv, Resolve \/ Purge
  PROVE  ReplyInv'
<1>1. UNCHANGED <<conn, threadVars>>
  BY DEF Resolve, Purge
<1>2. RowsFit(rows)'
  <2>1. CASE Resolve
    <3>1. PICK r \in rows, b \in BOOLEAN :
            rows' = (rows \ {r}) \cup {[r EXCEPT !.data.right = b]}
      BY <2>1 DEF Resolve, At, RowsOf
    <3>2. IsRow([r EXCEPT !.data.right = b]) /\ [r EXCEPT !.data.right = b].parent = r.parent
      BY DEF ReplyInv, RowsFit, IsRow
    <3> QED
      BY <3>1, <3>2 DEF ReplyInv, RowsFit
  <2>2. CASE Purge
    BY <2>2 DEF Purge, ReplyInv, RowsFit
  <2> QED
    BY <2>1, <2>2
<1> QED
  BY <1>1, <1>2 DEF ReplyInv, ApiTyped, Counted, Truthful, Claimed, threadVars

-----------------------------------------------------------------------------
(* The theorem.                                                            *)

\* No thread has written or claimed anything.
LEMMA ReplyInit == Init => ReplyInv
<1> SUFFICES ASSUME Init PROVE ReplyInv
  OBVIOUS
<1>1. RowsFit(rows)
  BY DEF Init, RowsFit, IsRow, Row
<1>2. ApiTyped
  BY DEF Init, ApiTyped, Statuses
<1>3. \A t \in Threads : Counted(t) /\ Truthful(t)
  BY DEF Init, Counted, Truthful
<1> QED
  BY <1>1, <1>2, <1>3 DEF ReplyInv

\* Every step keeps what is claimed true.
LEMMA ReplyStep == ReplyInv /\ [Next]_vars => ReplyInv'
<1>1. ASSUME ReplyInv, UNCHANGED vars PROVE ReplyInv'
  BY <1>1 DEF vars, threadVars, sadapterVars, ReplyInv, ApiTyped, Counted, Truthful, Claimed
<1> QED
  BY <1>1, RequestKept, ReadingHandlersKept, ListersKept, ClientWritesKept, AlertKept,
     ThresholdReadKept, ThresholdWriteKept, ThresholdsDoneKept, WorldKept DEF Next, Handle

\* A reply never claims a write that did not happen, and claims each that did unless the
\* connection broke or a later item was refused.
THEOREM RepliesStayTrue == Spec => []RepliesAreTrue
<1>1. ReplyInv => RepliesAreTrue
  BY DEF ReplyInv, Truthful, Claimed, RepliesAreTrue
<1> QED
  BY <1>1, ReplyInit, ReplyStep, PTL DEF Spec

-----------------------------------------------------------------------------
(* The columns of the shared rows.                                         *)

\* A key has one row: the alerts' is unique, and the thresholds' is the only one that can
\* be read.
OneEach(S) ==
  \A r, s \in S :
    /\ r.of = Alerts.name /\ s.of = Alerts.name => r = s
    /\ r.of = Thresholds.name /\ s.of = Thresholds.name /\ r.parent # None /\ s.parent # None =>
         r = s

RowsTyped(S) ==
  /\ \A r \in S : r.of \in {"feed_instances", "alerts", "metric_thresholds", "clients"}
  /\ \A r \in S : r.data \in Columns

\* The columns are those that were asked for.
AsWanted(S, w) ==
  \A r \in S : RefOf(r) \in Shared => r.data = w[RefOf(r)]

\* The tables that a handler reads a row of to write it back.
TableOf(h) ==
  CASE h = "acknowledgeAlert" -> Alerts.name
    [] h = "updateThresholds" -> Thresholds.name
    [] OTHER -> "none"

\* A thread that has read a row, and no other, holds a copy of it.
CopyFits(t) ==
  IF pc[t] = "write"
    THEN /\ handler[t] \in {"acknowledgeAlert", "updateThresholds"}
         /\ \E r : copy[t] = {r} /\ r.data \in Columns /\ r.of = TableOf(handler[t])
    ELSE copy[t] = {}

ColumnInv ==
  /\ RowsTyped(rows) /\ OneEach(rows)
  /\ wanted \in [Shared -> Columns] /\ AsWanted(rows, wanted)
  /\ copy = [t \in Threads |-> copy[t]]
  /\ \A t \in Threads : CopyFits(t)

\* A thread's step that leaves rows and wishes alone.
LEMMA ReadKeepsColumns ==
  ASSUME ColumnInv, NEW t \in Threads, UNCHANGED <<rows, wanted>>, CopyFits(t)',
         copy' = [u \in Threads |-> copy'[u]],
         \A u \in Threads : u # t => pc'[u] = pc[u] /\ handler'[u] = handler[u] /\ copy'[u] = copy[u]
  PROVE  ColumnInv'
<1>1. \A u \in Threads : CopyFits(u)'
  BY DEF ColumnInv, CopyFits
<1> QED
  BY <1>1 DEF ColumnInv

\* One that neither reads for a write nor writes.
LEMMA OtherStepsKeepColumns ==
  ASSUME ReplyInv, ColumnInv, NEW t \in Threads,
         \/ OnRead(t) \/ Replied(t) \/ NotFound(t) \/ LiveView(t) \/ ListNext(t) \/ GetFeedStatus(t)
         \/ GetClientById(t) \/ UpdateConfig(t) \/ ThresholdsDone(t)
  PROVE  ColumnInv'
<1>1. rows' = rows
  <2>1. CASE ListNext(t)
    <3>1. \/ UNCHANGED sadapterVars
          \/ \E table, matching, wellFormed :
               \E o \in List(table, matching, wellFormed) : Called(o)
      BY <2>1 DEF ListNext
    <3> QED
      BY <3>1, ReadsHonest DEF Called, sadapterVars
  <2>2. CASE GetFeedStatus(t) \/ GetClientById(t)
    <3>1. \/ \E table, matching, wellFormed :
               \E o \in List(table, matching, wellFormed) : Called(o)
          \/ \E table, key : \E o \in Find(table, key) : Called(o)
      BY <2>2 DEF GetFeedStatus, GetClientById
    <3> QED
      BY <3>1, ReadsHonest DEF Called
  <2>3. CASE ~(ListNext(t) \/ GetFeedStatus(t) \/ GetClientById(t))
    BY <2>3 DEF OnRead, Replied, NotFound, LiveView, UpdateConfig, ThresholdsDone, sadapterVars
  <2> QED
    BY <2>1, <2>2, <2>3
<1>2. UNCHANGED <<copy, wanted>>
  BY DEF OnRead, Replied, NotFound, LiveView, ListNext, GetFeedStatus, GetClientById, UpdateConfig,
         ThresholdsDone
<1>3. pc[t] # "write" /\ pc'[t] # "write"
      /\ \A u \in Threads : u # t => pc'[u] = pc[u] /\ handler'[u] = handler[u]
  <2> USE DEF ReplyInv, ApiTyped
  <2>1. CASE OnRead(t) \/ Replied(t)
    BY <2>1 DEF OnRead, Replied
  <2>2. CASE NotFound(t) \/ LiveView(t) \/ UpdateConfig(t) \/ ThresholdsDone(t) \/ GetClientById(t)
    BY <2>2 DEF NotFound, LiveView, UpdateConfig, ThresholdsDone, GetClientById, Serving, Reply
  <2>3. CASE ListNext(t)
    BY <2>3 DEF ListNext, Serving, Reply
  <2>4. CASE GetFeedStatus(t)
    BY <2>4 DEF GetFeedStatus, Serving, Reply
  <2> QED
    BY <2>1, <2>2, <2>3, <2>4
<1> QED
  BY <1>1, <1>2, <1>3, ReadKeepsColumns DEF ColumnInv, CopyFits

\* What is found for a write is one row, of its table.
LEMMA FoundIsOne ==
  ASSUME ColumnInv, NEW table \in {Alerts, Thresholds}, NEW key, NEW o \in Find(table, key),
         o.answer # {}
  PROVE  \E r \in rows : o.answer = {r} /\ r.of = table.name
<1> DEFINE found == {r \in At(table, key) : Readable(table, r)}
<1>1. o.answer = found
  BY DEF Find, Refused, Outcome
<1>2. PICK r \in found : TRUE
  BY <1>1
<1>3. \A s \in found : s \in rows /\ s.of = table.name
  BY DEF At, RowsOf
<1>4. table = Thresholds => \A s \in found : s.parent # None
  BY DEF Readable, Thresholds, Table, Cascade
<1>5. \A s \in found : s = r
  BY <1>2, <1>3, <1>4 DEF ColumnInv, OneEach
<1> QED
  BY <1>1, <1>2, <1>3, <1>5

\* A handler that reads for its write.
LEMMA ReadForWriteKeepsColumns ==
  ASSUME ReplyInv, ColumnInv, NEW t \in Threads, ReadAlert(t) \/ ReadThreshold(t)
  PROVE  ColumnInv'
<1>1. PICK table \in {Alerts, Thresholds} :
        /\ handler[t] \in {"acknowledgeAlert", "updateThresholds"} /\ table.name = TableOf(handler[t])
        /\ \E o : /\ Called(o)
                  /\ o \in Refused(No) \/ \E key : o \in Find(table, key)
                  /\ \/ UNCHANGED copy /\ (UNCHANGED pc \/ pc' = [pc EXCEPT ![t] = "reply"])
                     \/ /\ o.answer # {} /\ pc' = [pc EXCEPT ![t] = "write"]
                        /\ copy' = [copy EXCEPT ![t] = o.answer]
  <2>1. CASE ReadAlert(t)
    BY <2>1 DEF ReadAlert, Serving, TableOf, Reply
  <2>2. CASE ReadThreshold(t)
    BY <2>2 DEF ReadThreshold, Serving, TableOf, Reply
  <2> QED
    BY <2>1, <2>2
<1>2. PICK o : /\ Called(o)
               /\ o \in Refused(No) \/ \E key : o \in Find(table, key)
               /\ \/ UNCHANGED copy /\ (UNCHANGED pc \/ pc' = [pc EXCEPT ![t] = "reply"])
                  \/ /\ o.answer # {} /\ pc' = [pc EXCEPT ![t] = "write"]
                     /\ copy' = [copy EXCEPT ![t] = o.answer]
  BY <1>1
<1>3. rows' = rows
  BY <1>2, ReadsHonest DEF Called
<1>4. pc[t] = "call" /\ UNCHANGED <<handler, wanted>> /\ copy[t] = {}
  BY DEF ReadAlert, ReadThreshold, Serving, ColumnInv, CopyFits
<1>5. /\ pc = [u \in Threads |-> pc[u]]
      /\ copy = [u \in Threads |-> copy[u]]
  BY DEF ReplyInv, ApiTyped, ColumnInv
<1>6. CASE UNCHANGED copy /\ (UNCHANGED pc \/ pc' = [pc EXCEPT ![t] = "reply"])
  <2>1. CopyFits(t)'
    BY <1>4, <1>5, <1>6 DEF CopyFits
  <2> QED
    BY <1>3, <1>4, <1>5, <1>6, <2>1, ReadKeepsColumns
<1>7. CASE /\ o.answer # {} /\ pc' = [pc EXCEPT ![t] = "write"]
           /\ copy' = [copy EXCEPT ![t] = o.answer]
  <2>1. \E key : o \in Find(table, key)
    BY <1>2, <1>7 DEF Refused, Outcome, No
  <2>2. PICK r \in rows : o.answer = {r} /\ r.of = table.name
    BY <1>7, <2>1, FoundIsOne
  <2>3. CopyFits(t)'
    BY <1>1, <1>4, <1>5, <1>7, <2>2 DEF CopyFits, ColumnInv, RowsTyped
  <2> QED
    BY <1>3, <1>4, <1>5, <1>7, <2>3, ReadKeepsColumns
<1> QED
  BY <1>2, <1>6, <1>7

\* The creation or deletion of a client, whose rows are not shared.
LEMMA ClientKeepsColumns ==
  ASSUME ReplyInv, ColumnInv, NEW t \in Threads, CreateClient(t) \/ DeleteClient(t)
  PROVE  ColumnInv'
<1> DEFINE row == Row(Clients, t, None, Fresh)
<1>1. rows' \subseteq rows \cup {row}
  <2>1. CASE CreateClient(t)
    <3>1. UNCHANGED rows \/ \E o \in Create(Clients, row) : rows' = o.rows
      BY <2>1 DEF CreateClient, Called, sadapterVars
    <3>2. \A o \in Create(Clients, row) : o.rows \in {rows, rows \cup {row}}
      BY DEF Create, Writes, Refused, Broken, Outcome
    <3> QED
      BY <3>1, <3>2
  <2>2. CASE DeleteClient(t)
    <3>1. PICK o \in Delete(Clients, task[t].path[4]) : rows' = o.rows
      BY <2>2 DEF DeleteClient, Called
    <3>2. o.rows \in {rows, AfterDelete(Clients, task[t].path[4])}
      BY DEF Delete, Writes, Refused, Broken, Outcome
    <3>3. \A r \in rows : r.parent # None => r.parent # Ref(Clients, task[t].path[4])
      BY DEF ReplyInv, RowsFit, Ref, FeedInstances, Clients, Table
    <3>4. AfterDelete(Clients, task[t].path[4]) \subseteq rows
      BY <3>3 DEF AfterDelete
    <3> QED
      BY <3>1, <3>2, <3>4
  <2> QED
    BY <2>1, <2>2
<1>2. row.of = "clients" /\ row.data = Fresh
  BY DEF Row, Clients, Table
<1>3. Fresh \in Columns
  BY DEF Fresh, Columns
<1>4. Alerts.name # "clients" /\ Thresholds.name # "clients"
  BY DEF Alerts, Thresholds, Table
<1>5. RefOf(row) \notin Shared
  BY <1>2, <1>4 DEF Shared, Ref, RefOf
<1> HIDE DEF row
<1>6. RowsTyped(rows') /\ OneEach(rows') /\ AsWanted(rows', wanted)
  BY <1>1, <1>2, <1>3, <1>4, <1>5 DEF ColumnInv, RowsTyped, OneEach, AsWanted
<1>7. UNCHANGED <<handler, copy, wanted>> /\ pc[t] = "call" /\ pc' = [pc EXCEPT ![t] = "reply"]
  BY DEF CreateClient, DeleteClient, Serving, Reply
<1>8. \A u \in Threads : CopyFits(u)'
  BY <1>7 DEF ColumnInv, CopyFits, ReplyInv, ApiTyped
<1> QED
  BY <1>6, <1>7, <1>8 DEF ColumnInv

\* The rows after an update that has taken effect.
Updated(table, key, d) ==
  (rows \ At(table, key)) \cup {[r EXCEPT !.data = d] : r \in At(table, key)}

\* An update takes effect on the rows of its key, or not at all.
LEMMA UpdateEffect ==
  ASSUME NEW table, NEW key, NEW d, NEW o \in Update(table, key, d)
  PROVE  IF Effective(o) THEN o.rows = Updated(table, key, d) /\ At(table, key) # {}
                         ELSE o.rows = rows
<1> DEFINE after == Updated(table, key, d)
           keys == {r.key : r \in At(table, key)}
<1>1. At(table, key) = {} => after = rows /\ keys = {}
  BY DEF Updated
<1>2. o \in Refused(No) \/ o \in Writes(table.update, after, keys)
  BY DEF Update, Updated
<1> HIDE DEF after, keys
<1>3. o.rows \in {rows, after} /\ (o.answer # {} => o.rows = after /\ o.answer = keys)
  BY <1>2 DEF Writes, Refused, Broken, Outcome, No
<1> QED
  BY <1>1, <1>3 DEF Effective, after

\* A thread writes one row back; what it asked for is what the row then holds.
LEMMA WriteKeepsColumns ==
  ASSUME ReplyInv, ColumnInv, NEW t \in Threads,
         NEW table \in {Alerts, Thresholds}, NEW key, NEW d \in Columns,
         NEW o \in Update(table, key, d), rows' = o.rows,
         copy' = [copy EXCEPT ![t] = {}], pc'[t] # "write",
         \A u \in Threads : u # t => pc'[u] = pc[u] /\ handler'[u] = handler[u],
         wanted' = IF Effective(o) /\ Ref(table, key) \in Shared
                     THEN [wanted EXCEPT ![Ref(table, key)] = d] ELSE wanted
  PROVE  ColumnInv'
<1>1. CASE ~Effective(o)
  <2>1. rows' = rows /\ wanted' = wanted
    BY <1>1, UpdateEffect
  <2>2. CopyFits(t)' /\ copy' = [u \in Threads |-> copy'[u]]
    BY DEF ColumnInv, CopyFits
  <2> QED
    BY <2>1, <2>2, ReadKeepsColumns DEF ColumnInv
<1>2. CASE Effective(o)
  <2>1. rows' = Updated(table, key, d)
    BY <1>2, UpdateEffect
  <2> DEFINE At1(r) == r.of = table.name /\ r.key = key
             Changed(r, s) == r = [s EXCEPT !.data = d] /\ r.data = d /\ At1(r) /\ At1(s)
  <2>2. ASSUME NEW r \in rows'
        PROVE  \E s \in rows : /\ s.of = r.of /\ s.parent = r.parent
                               /\ (r = s /\ ~At1(r)) \/ Changed(r, s)
    <3>1. CASE r \in rows \ At(table, key)
      BY <3>1 DEF At, RowsOf
    <3>2. CASE r \notin rows \ At(table, key)
      <4>1. PICK s \in At(table, key) : r = [s EXCEPT !.data = d]
        BY <2>1, <3>2 DEF Updated
      <4>2. s \in rows /\ s.of = table.name /\ s.key = key /\ IsRow(s)
        BY <4>1 DEF At, RowsOf, ReplyInv, RowsFit
      <4>3. r.data = d /\ r.of = s.of /\ r.key = s.key /\ r.parent = s.parent
        BY <4>1, <4>2 DEF IsRow
      <4> QED
        BY <4>1, <4>2, <4>3
    <3> QED
      BY <3>1, <3>2
  <2> HIDE DEF At1
  <2>3. RowsTyped(rows')
    <3> SUFFICES ASSUME NEW r \in rows'
                 PROVE  /\ r.of \in {"feed_instances", "alerts", "metric_thresholds", "clients"}
                        /\ r.data \in Columns
      BY DEF RowsTyped
    <3>1. PICK s \in rows : s.of = r.of /\ (r = s \/ r.data = d)
      BY <2>2
    <3> QED
      BY <3>1 DEF ColumnInv, RowsTyped
  <2>4. OneEach(rows')
    <3> SUFFICES ASSUME NEW r \in rows', NEW s \in rows',
                        \/ r.of = Alerts.name /\ s.of = Alerts.name
                        \/ /\ r.of = Thresholds.name /\ s.of = Thresholds.name
                           /\ r.parent # None /\ s.parent # None
                 PROVE  r = s
      BY DEF OneEach
    <3>1. PICK q \in rows : q.of = r.of /\ q.parent = r.parent /\ ((r = q /\ ~At1(r)) \/ Changed(r, q))
      BY <2>2
    <3>2. PICK p \in rows : p.of = s.of /\ p.parent = s.parent /\ ((s = p /\ ~At1(s)) \/ Changed(s, p))
      BY <2>2
    <3>3. p = q
      BY <3>1, <3>2 DEF ColumnInv, OneEach
    <3> QED
      BY <3>1, <3>2, <3>3
  <2>5. AsWanted(rows', wanted')
    <3> SUFFICES ASSUME NEW r \in rows', RefOf(r) \in Shared
                 PROVE  r.data = wanted'[RefOf(r)]
      BY DEF AsWanted
    <3>0. RefOf(r) = Ref(table, key) <=> At1(r)
      BY DEF Ref, RefOf, At1
    <3>1. CASE At1(r)
      BY <1>2, <2>2, <3>0, <3>1 DEF ColumnInv
    <3>2. CASE ~At1(r)
      <4>1. r \in rows /\ RefOf(r) # Ref(table, key)
        BY <2>2, <3>0, <3>2
      <4>2. wanted'[RefOf(r)] = wanted[RefOf(r)]
        BY <4>1 DEF ColumnInv
      <4> QED
        BY <4>1, <4>2 DEF ColumnInv, AsWanted
    <3> QED
      BY <3>1, <3>2
  <2>6. wanted' \in [Shared -> Columns]
    BY DEF ColumnInv
  <2>7. copy' = [u \in Threads |-> copy'[u]] /\ \A u \in Threads : CopyFits(u)'
    BY DEF ColumnInv, CopyFits
  <2> QED
    BY <2>3, <2>4, <2>5, <2>6, <2>7 DEF ColumnInv
<1> QED
  BY <1>1, <1>2

\* A change to a copy that is up to date is the change that was asked for.
LEMMA CopyUpToDate ==
  ASSUME ColumnInv, NEW table \in {Alerts, Thresholds}, NEW r \in rows, r.of = table.name,
         Ref(table, r.key) \in Shared
  PROVE  r.data = wanted[Ref(table, r.key)]
<1>1. RefOf(r) = Ref(table, r.key)
  BY DEF Ref, RefOf
<1> QED
  BY <1>1 DEF ColumnInv, AsWanted

\* The columns keep their type.
LEMMA ChangesTyped ==
  ASSUME NEW d \in Columns, NEW item, item.to \in BOOLEAN
  PROVE  Acknowledged(d) \in Columns /\ Edited(d, item) \in Columns
<1>1. Acknowledged(d) \in Columns
  BY Zenon DEF Acknowledged, Columns
<1>2. Edited(d, item) \in Columns
  BY Zenon DEF Edited, Columns
<1> QED
  BY <1>1, <1>2

\* After a write over a copy that was out of date the wish is what the row holds.
LEMMA FoundAgain ==
  ASSUME ReplyInv, NEW table, NEW key, NEW d, At(table, key) # {}
  PROVE  DataAt(Ref(table, key), Updated(table, key, d)) = d
<1> DEFINE S == Updated(table, key, d)
           Is(r) == RefOf(r) = Ref(table, key)
<1>1. PICK q \in At(table, key) : TRUE
  OBVIOUS
<1>2. ASSUME NEW s \in At(table, key)
      PROVE  /\ [s EXCEPT !.data = d].of = table.name /\ [s EXCEPT !.data = d].key = key
             /\ [s EXCEPT !.data = d].data = d
  <2>1. IsRow(s) /\ s.of = table.name /\ s.key = key
    BY DEF At, RowsOf, ReplyInv, RowsFit
  <2> QED
    BY <2>1 DEF IsRow
<1>3. [q EXCEPT !.data = d] \in S /\ Is([q EXCEPT !.data = d])
  BY <1>1, <1>2 DEF Updated, Ref, RefOf
<1>4. ASSUME NEW s \in S, Is(s) PROVE s.data = d
  <2>1. s.of = table.name /\ s.key = key
    BY <1>4 DEF Ref, RefOf
  <2>2. s \notin rows \ At(table, key)
    BY <2>1 DEF At, RowsOf
  <2> QED
    BY <1>2, <2>2 DEF Updated
<1> HIDE DEF S, Is
<1>5. \E s \in S : Is(s)
  BY <1>3
<1>6. (CHOOSE s \in S : Is(s)) \in S /\ Is(CHOOSE s \in S : Is(s))
  BY <1>5
<1>7. (CHOOSE s \in S : Is(s)).data = d
  BY <1>4, <1>6
<1> QED
  BY <1>7 DEF DataAt, S, Is

\* A write over a copy that is up to date is what was asked for; one over a copy that is
\* not is what the wish is then set to.
LEMMA WishIsWritten ==
  ASSUME ReplyInv, ColumnInv, NEW t \in Threads, NEW table \in {Alerts, Thresholds},
         NEW r, r.of = table.name, copy[t] = {r},
         NEW d, NEW asked, NEW o \in Update(table, r.key, d),
         Ref(table, r.key) \in Shared /\ r.data = wanted[Ref(table, r.key)] => asked = d,
         wanted' = IF ~Effective(o) THEN wanted
                   ELSE IF copy[t] \subseteq rows
                     THEN [wanted EXCEPT ![Ref(table, r.key)] = asked]
                     ELSE [wanted EXCEPT ![Ref(table, r.key)] =
                             DataAt(Ref(table, r.key), o.rows)]
  PROVE  wanted' = IF Effective(o) /\ Ref(table, r.key) \in Shared
                     THEN [wanted EXCEPT ![Ref(table, r.key)] = d] ELSE wanted
<1> DEFINE ref == Ref(table, r.key)
<1>1. wanted = [s \in Shared |-> wanted[s]]
  BY DEF ColumnInv
<1>2. ASSUME ref \notin Shared, NEW x PROVE [wanted EXCEPT ![ref] = x] = wanted
  BY <1>1, <1>2
<1>3. ASSUME ref \in Shared, copy[t] \subseteq rows PROVE asked = d
  BY <1>3, CopyUpToDate
<1>4. ASSUME Effective(o)
      PROVE  DataAt(Ref(table, r.key), o.rows) = d
  BY <1>4, UpdateEffect, FoundAgain
<1> QED
  BY <1>2, <1>3, <1>4

\* An acknowledgement writes back what it has read, acknowledged.
LEMMA WriteAlertKeepsColumns ==
  ASSUME ReplyInv, ColumnInv, NEW t \in Threads, WriteAlert(t)
  PROVE  ColumnInv'
<1>1. PICK r : copy[t] = {r} /\ r.data \in Columns /\ r.of = Alerts.name
  BY DEF WriteAlert, ColumnInv, CopyFits, TableOf
<1> DEFINE d == Acknowledged(r.data)
           asked == Acknowledged(wanted[Ref(Alerts, r.key)])
<1>2. PICK o \in Update(Alerts, r.key, d) :
        /\ rows' = o.rows
        /\ wanted' = IF ~Effective(o) THEN wanted
                     ELSE IF copy[t] \subseteq rows
                       THEN [wanted EXCEPT ![Ref(Alerts, r.key)] = asked]
                       ELSE [wanted EXCEPT ![Ref(Alerts, r.key)] =
                               DataAt(Ref(Alerts, r.key), o.rows)]
        /\ pc' = [pc EXCEPT ![t] = "reply"]
  BY <1>1 DEF WriteAlert, Called, Wanted, Reply
<1>3. d \in Columns
  BY <1>1, Zenon DEF Acknowledged, Columns
<1>4. r.data = wanted[Ref(Alerts, r.key)] => asked = d
  OBVIOUS
<1>5. copy' = [copy EXCEPT ![t] = {}] /\ UNCHANGED handler
  BY DEF WriteAlert
<1> HIDE DEF d, asked
<1>6. wanted' = IF Effective(o) /\ Ref(Alerts, r.key) \in Shared
                  THEN [wanted EXCEPT ![Ref(Alerts, r.key)] = d] ELSE wanted
  BY <1>1, <1>2, <1>4, WishIsWritten
<1>7. pc'[t] # "write" /\ \A u \in Threads : u # t => pc'[u] = pc[u] /\ handler'[u] = handler[u]
  BY <1>2, <1>5 DEF ReplyInv, ApiTyped
<1> QED
  BY <1>2, <1>3, <1>5, <1>6, <1>7, WriteKeepsColumns

\* A thread serves one of its requests by the handler of its route; one with a copy of a
\* threshold is at an item of its request; and it has written no more often than it has
\* come to an item.
TaskFits(t) ==
  /\ task[t] \in IF pc[t] = "idle" THEN {NoTask} ELSE Serves[t]
  /\ pc[t] # "idle" => handler[t] = Dispatch(task[t].method, task[t].path)
  /\ pc[t] = "write" /\ handler[t] = "updateThresholds" => at[t] <= Len(task[t].body)
  /\ at[t] >= 1 /\ wrote[t] <= at[t]
  /\ pc[t] \in {"call", "write"} => wrote[t] < at[t]

TaskInv ==
  /\ task = [t \in Threads |-> task[t]]
  /\ \A t \in Threads : TaskFits(t)

\* An update of a threshold writes back what it has read, edited by the item.
LEMMA WriteThresholdKeepsColumns ==
  ASSUME ReplyInv, TaskInv, ColumnInv, NEW t \in Threads, WriteThreshold(t)
  PROVE  ColumnInv'
<1> DEFINE item == task[t].body[at[t]]
<1>0. item.to \in BOOLEAN
  <2>1. pc[t] = "write" /\ at[t] \in Nat /\ at[t] >= 1 /\ at[t] <= Len(task[t].body)
    BY DEF WriteThreshold, TaskInv, TaskFits, ReplyInv, ApiTyped
  <2>2. task[t] \in Requests
    BY <2>1, RestApiAssumption DEF TaskInv, TaskFits
  <2> QED
    BY <2>1, <2>2, RestApiAssumption
<1>1. PICK r : copy[t] = {r} /\ r.data \in Columns /\ r.of = Thresholds.name
  BY DEF WriteThreshold, ColumnInv, CopyFits, TableOf
<1> DEFINE d == Edited(r.data, item)
           asked == Edited(wanted[Ref(Thresholds, r.key)], item)
<1>2. PICK o \in Update(Thresholds, r.key, d) :
        /\ rows' = o.rows
        /\ wanted' = IF ~Effective(o) THEN wanted
                     ELSE IF copy[t] \subseteq rows
                       THEN [wanted EXCEPT ![Ref(Thresholds, r.key)] = asked]
                       ELSE [wanted EXCEPT ![Ref(Thresholds, r.key)] =
                               DataAt(Ref(Thresholds, r.key), o.rows)]
  BY <1>1 DEF WriteThreshold, Called, Wanted
<1>3. d \in Columns
  BY <1>0, <1>1, ChangesTyped
<1>4. r.data = wanted[Ref(Thresholds, r.key)] => asked = d
  OBVIOUS
<1>5. copy' = [copy EXCEPT ![t] = {}] /\ UNCHANGED handler /\ pc' = [pc EXCEPT ![t] = "call"]
  BY DEF WriteThreshold
<1> HIDE DEF d, asked
<1>6. wanted' = IF Effective(o) /\ Ref(Thresholds, r.key) \in Shared
                  THEN [wanted EXCEPT ![Ref(Thresholds, r.key)] = d] ELSE wanted
  BY <1>1, <1>2, <1>4, WishIsWritten
<1>7. pc'[t] # "write" /\ \A u \in Threads : u # t => pc'[u] = pc[u] /\ handler'[u] = handler[u]
  BY <1>5 DEF ReplyInv, ApiTyped
<1> QED
  BY <1>2, <1>3, <1>5, <1>6, <1>7, WriteKeepsColumns

\* The programs that resolve and purge the alert change the row and the wish together.
LEMMA WorldKeepsColumns ==
  ASSUME ReplyInv, ColumnInv, Resolve \/ Purge
  PROVE  ColumnInv'
<1> DEFINE ref == Ref(Alerts, Alert)
<1>1. UNCHANGED <<pc, handler, copy>>
  BY DEF Resolve, Purge, threadVars
<1>2. \A u \in Threads : CopyFits(u)'
  BY <1>1 DEF ColumnInv, CopyFits
<1>3. ref \in Shared /\ \A r : r.of = Alerts.name /\ r.key = Alert <=> RefOf(r) = ref
  BY DEF Shared, Ref, RefOf
<1>4. CASE Purge
  <2>1. rows' = rows \ At(Alerts, Alert) /\ wanted' = [wanted EXCEPT ![ref] = Fresh]
    BY <1>4 DEF Purge
  <2>2. Fresh \in Columns
    BY DEF Fresh, Columns
  <2>3. \A r \in rows' : r \in rows /\ RefOf(r) # ref
    BY <1>3, <2>1 DEF At, RowsOf
  <2> HIDE DEF ref
  <2>4. wanted' \in [Shared -> Columns] /\ \A s \in Shared : s # ref => wanted'[s] = wanted[s]
    BY <2>1, <2>2 DEF ColumnInv
  <2>5. AsWanted(rows', wanted')
    BY <2>3, <2>4 DEF ColumnInv, AsWanted
  <2>6. RowsTyped(rows') /\ OneEach(rows')
    BY <2>3 DEF ColumnInv, RowsTyped, OneEach
  <2> QED
    BY <1>1, <1>2, <2>4, <2>5, <2>6 DEF ColumnInv
<1>5. CASE Resolve
  <2>1. PICK r \in At(Alerts, Alert), b \in BOOLEAN :
          /\ rows' = (rows \ {r}) \cup {[r EXCEPT !.data.right = b]}
          /\ wanted' = [wanted EXCEPT ![ref].right = b]
    BY <1>5 DEF Resolve
  <2>2. r \in rows /\ r.of = Alerts.name /\ r.key = Alert /\ IsRow(r) /\ r.data \in Columns
    BY <2>1 DEF At, RowsOf, ReplyInv, RowsFit, ColumnInv, RowsTyped
  <2> DEFINE q == [r EXCEPT !.data.right = b]
             d == [r.data EXCEPT !.right = b]
  <2>3. d \in Columns
    BY <2>2, Zenon DEF Columns
  <2>4. q.of = r.of /\ q.key = r.key /\ q.parent = r.parent /\ q.data = d
    BY <2>2 DEF IsRow
  <2>5. wanted[ref] = r.data
    BY <1>3, <2>2 DEF ColumnInv, AsWanted
  <2>6. wanted' = [wanted EXCEPT ![ref] = d]
    BY <2>1, <2>5
  <2>7. rows' = (rows \ {r}) \cup {q}
    BY <2>1
  <2>8. \A s \in rows : s.of = Alerts.name => s = r
    BY <2>2 DEF ColumnInv, OneEach
  <2> HIDE DEF q, d, ref
  <2>9. Alerts.name # Thresholds.name
    BY DEF Alerts, Thresholds, Table
  <2>10. RowsTyped(rows') /\ OneEach(rows')
    BY <2>2, <2>3, <2>4, <2>7, <2>8, <2>9 DEF ColumnInv, RowsTyped, OneEach
  <2>11. wanted' \in [Shared -> Columns] /\ wanted'[ref] = d
         /\ \A s \in Shared : s # ref => wanted'[s] = wanted[s]
    BY <1>3, <2>3, <2>6 DEF ColumnInv
  <2>12. AsWanted(rows', wanted')
    BY <1>3, <2>2, <2>4, <2>7, <2>8, <2>11 DEF ColumnInv, AsWanted
  <2> QED
    BY <1>1, <1>2, <2>10, <2>11, <2>12 DEF ColumnInv
<1> QED
  BY <1>4, <1>5

\* The rows keep their columns, as wished for, in every step.
LEMMA ColumnStep == ReplyInv /\ TaskInv /\ ColumnInv /\ [Next]_vars => ColumnInv'
<1>1. ASSUME ColumnInv, UNCHANGED vars PROVE ColumnInv'
  BY <1>1 DEF vars, sadapterVars, threadVars, ColumnInv, CopyFits
<1> QED
  BY <1>1, OtherStepsKeepColumns, ReadForWriteKeepsColumns, ClientKeepsColumns,
     WriteAlertKeepsColumns, WriteThresholdKeepsColumns, WorldKeepsColumns DEF Next, Handle

-----------------------------------------------------------------------------
(* The requests in service.                                                *)

\* A step of the handler of a request: it goes on to another item, to a write or to its
\* reply, and writes once at most, after which it is at another item or replies.
LEMMA ServingKeepsTask ==
  ASSUME ReplyInv, ReplyInv', TaskInv, NEW t \in Threads, UNCHANGED <<task, handler>>,
         \A u \in Threads : u # t => pc'[u] = pc[u] /\ at'[u] = at[u] /\ wrote'[u] = wrote[u],
         pc[t] \in {"call", "write"},
         \/ pc'[t] = "reply" /\ at'[t] = at[t] /\ wrote'[t] <= wrote[t] + 1
         \/ pc'[t] = "call" /\ at'[t] = at[t] + 1 /\ wrote'[t] <= wrote[t] + 1
         \/ /\ pc'[t] = "write" /\ at'[t] = at[t] /\ wrote'[t] = wrote[t]
            /\ handler[t] = "updateThresholds" => at[t] <= Len(task[t].body)
  PROVE  TaskInv'
<1>1. /\ at[t] \in Nat /\ wrote[t] \in Nat /\ at'[t] \in Nat /\ wrote'[t] \in Nat
  BY DEF ReplyInv, ApiTyped
<1>2. TaskFits(t)'
  BY <1>1 DEF TaskInv, TaskFits
<1>3. \A u \in Threads : u # t => TaskFits(u)'
  BY DEF TaskInv, TaskFits
<1> QED
  BY <1>2, <1>3 DEF TaskInv

\* Of the readers,
LEMMA ReadersKeepTask ==
  ASSUME ReplyInv, ReplyInv', TaskInv, NEW t \in Threads,
         \/ NotFound(t) \/ LiveView(t) \/ ListNext(t) \/ GetFeedStatus(t) \/ GetClientById(t)
         \/ UpdateConfig(t) \/ ReadAlert(t) \/ ReadThreshold(t) \/ ThresholdsDone(t)
  PROVE  TaskInv'
<1> USE DEF Serving, Reply
<1>1. UNCHANGED <<task, handler, wrote>> /\ pc[t] = "call"
  BY DEF NotFound, LiveView, ListNext, GetFeedStatus, GetClientById, UpdateConfig, ReadAlert,
         ReadThreshold, ThresholdsDone
<1>2. /\ pc = [u \in Threads |-> pc[u]] /\ at \in [Threads -> Nat] /\ wrote[t] \in Nat
  BY DEF ReplyInv, ApiTyped
<1>3. \/ pc' = [pc EXCEPT ![t] = "reply"] /\ at' = at
      \/ pc' = pc /\ at' = [at EXCEPT ![t] = @ + 1]
      \/ /\ pc' = [pc EXCEPT ![t] = "write"] /\ at' = at
         /\ handler[t] = "updateThresholds" => at[t] <= Len(task[t].body)
  <2>1. CASE NotFound(t) \/ LiveView(t) \/ GetClientById(t) \/ UpdateConfig(t) \/ ThresholdsDone(t)
    BY <2>1 DEF NotFound, LiveView, GetClientById, UpdateConfig, ThresholdsDone
  <2>2. CASE ListNext(t)
    BY <2>2 DEF ListNext
  <2>3. CASE GetFeedStatus(t)
    BY <2>3 DEF GetFeedStatus
  <2>4. CASE ReadAlert(t)
    BY <2>4 DEF ReadAlert
  <2>5. CASE ReadThreshold(t)
    BY <2>5 DEF ReadThreshold
  <2> QED
    BY <2>1, <2>2, <2>3, <2>4, <2>5
<1> QED
  BY <1>1, <1>2, <1>3, ServingKeepsTask

\* and of the writers.
LEMMA WritersKeepTask ==
  ASSUME ReplyInv, ReplyInv', TaskInv, NEW t \in Threads,
         CreateClient(t) \/ DeleteClient(t) \/ WriteAlert(t) \/ WriteThreshold(t)
  PROVE  TaskInv'
<1> USE DEF Serving, Reply
<1>1. UNCHANGED <<task, handler>> /\ pc[t] \in {"call", "write"}
  BY DEF CreateClient, DeleteClient, WriteAlert, WriteThreshold
<1>2. /\ pc = [u \in Threads |-> pc[u]] /\ at \in [Threads -> Nat] /\ wrote \in [Threads -> Nat]
  BY DEF ReplyInv, ApiTyped
<1>3. \/ pc' = [pc EXCEPT ![t] = "reply"] /\ at' = at
      \/ pc' = [pc EXCEPT ![t] = "call"] /\ at' = [at EXCEPT ![t] = @ + 1]
  BY DEF CreateClient, DeleteClient, WriteAlert, WriteThreshold
<1>4. wrote' = wrote \/ \E o : Wrote(t, o)
  BY DEF CreateClient, DeleteClient, WriteAlert, WriteThreshold
<1>5. /\ wrote'[t] <= wrote[t] + 1
      /\ \A u \in Threads : u # t => wrote'[u] = wrote[u]
  BY <1>2, <1>4 DEF Wrote
<1> QED
  BY <1>1, <1>2, <1>3, <1>5, ServingKeepsTask

\* A thread takes one of its requests, and has none when it has replied.
LEMMA TaskStep == ReplyInv /\ ReplyInv' /\ TaskInv /\ [Next]_vars => TaskInv'
<1> SUFFICES ASSUME ReplyInv, ReplyInv', TaskInv, [Next]_vars PROVE TaskInv'
  OBVIOUS
<1> USE DEF ReplyInv, ApiTyped
<1>1. ASSUME NEW t \in Threads, OnRead(t) PROVE TaskInv'
  <2>1. PICK q \in Serves[t] : /\ task' = [task EXCEPT ![t] = q]
                               /\ handler' = [handler EXCEPT ![t] = Dispatch(q.method, q.path)]
    BY <1>1 DEF OnRead
  <2>2. pc[t] = "idle" /\ pc' = [pc EXCEPT ![t] = "call"] /\ UNCHANGED <<at, wrote>>
    BY <1>1 DEF OnRead
  <2>3. at[t] = 1 /\ wrote[t] = 0
    BY <2>2 DEF Counted
  <2>4. TaskFits(t)'
    <3>1. /\ task'[t] = q /\ pc'[t] = "call" /\ at'[t] = 1 /\ wrote'[t] = 0
          /\ handler'[t] = Dispatch(q.method, q.path)
      BY <2>1, <2>2, <2>3 DEF TaskInv
    <3> QED
      BY <3>1 DEF TaskFits
  <2>5. \A u \in Threads : u # t => TaskFits(u)'
    BY <2>1, <2>2 DEF TaskInv, TaskFits
  <2> QED
    BY <2>1, <2>4, <2>5 DEF TaskInv
<1>2. ASSUME NEW t \in Threads, Replied(t) PROVE TaskInv'
  <2>1. /\ task' = [task EXCEPT ![t] = NoTask] /\ handler' = [handler EXCEPT ![t] = "none"]
        /\ pc' = [pc EXCEPT ![t] = "idle"]
        /\ at' = [at EXCEPT ![t] = 1] /\ wrote' = [wrote EXCEPT ![t] = 0]
    BY <1>2 DEF Replied
  <2>2. TaskFits(t)'
    <3>1. task'[t] = NoTask /\ pc'[t] = "idle" /\ at'[t] = 1 /\ wrote'[t] = 0
      BY <2>1 DEF TaskInv
    <3> QED
      BY <3>1 DEF TaskFits
  <2>3. \A u \in Threads : u # t => TaskFits(u)'
    BY <2>1 DEF TaskInv, TaskFits
  <2> QED
    BY <2>1, <2>2, <2>3 DEF TaskInv
<1>3. CASE Resolve \/ Purge
  BY <1>3 DEF Resolve, Purge, threadVars, TaskInv, TaskFits
<1>4. CASE UNCHANGED vars
  BY <1>4 DEF vars, threadVars, TaskInv, TaskFits
<1> QED
  BY <1>1, <1>2, <1>3, <1>4, ReadersKeepTask, WritersKeepTask DEF Next, Handle

-----------------------------------------------------------------------------
(* The connection.                                                         *)

\* A call keeps the connection or loses it; the API never connects.
ConnKept == conn' \in {conn, "lost"} /\ usable' = usable

\* Each of the adapter's calls does.
LEMMA CallsKeepConn ==
  /\ \A t, k : \A o \in Find(t, k) : o.conn \in {conn, "lost"}
  /\ \A t, m, w : \A o \in List(t, m, w) : o.conn \in {conn, "lost"}
  /\ \A t, r : \A o \in Create(t, r) : o.conn \in {conn, "lost"}
  /\ \A t, k, d : \A o \in Update(t, k, d) : o.conn \in {conn, "lost"}
  /\ \A t, k : \A o \in Delete(t, k) : o.conn \in {conn, "lost"}
  /\ \A o \in Refused(No) : o.conn \in {conn, "lost"}
<1>1. \A s, after, a : \A o \in Writes(s, after, a) : o.conn \in {conn, "lost"}
  BY DEF Writes, Refused, Broken, Outcome
<1>2. \A a : \A o \in Refused(a) : o.conn \in {conn, "lost"}
  BY DEF Refused, Outcome
<1>3. \A t, k, d : \A o \in Update(t, k, d) : o.conn \in {conn, "lost"}
  <2> TAKE t, k, d
  <2> DEFINE after == (rows \ At(t, k)) \cup {[r EXCEPT !.data = d] : r \in At(t, k)}
             keys == {r.key : r \in At(t, k)}
  <2>1. Update(t, k, d) \in {Refused(No), Writes(t.update, after, keys)}
    BY DEF Update
  <2> HIDE DEF after, keys
  <2> QED
    BY <1>1, <1>2, <2>1
<1>4. \A t, k : \A o \in Delete(t, k) : o.conn \in {conn, "lost"}
  <2> TAKE t, k
  <2> DEFINE keys == {r.key : r \in At(t, k)}
  <2>1. Delete(t, k) \in {Refused(No), Writes(t.delete, AfterDelete(t, k), keys)}
    BY DEF Delete
  <2> HIDE DEF keys
  <2> QED
    BY <1>1, <1>2, <2>1
<1>5. \A t, r : \A o \in Create(t, r) : o.conn \in {conn, "lost"}
  <2> TAKE t, r
  <2> DEFINE a == IF AnswersCreate(t) THEN {r.key} ELSE No
  <2>1. Create(t, r) \in {Refused(No), Writes(t.insert, rows \cup {r}, a)}
    BY DEF Create
  <2> HIDE DEF a
  <2> QED
    BY <1>1, <1>2, <2>1
<1>6. \A t, k : \A o \in Find(t, k) : o.conn \in {conn, "lost"}
  BY DEF Find, Refused, Outcome
<1>7. \A t, m, w : \A o \in List(t, m, w) : o.conn \in {conn, "lost"}
  BY DEF List, Outcome
<1> QED
  BY <1>2, <1>3, <1>4, <1>5, <1>6, <1>7

\* So does every step.
LEMMA StepKeepsConn ==
  ASSUME Next
  PROVE  ConnKept
<1> USE CallsKeepConn DEF ConnKept, Called, sadapterVars
<1>1. ASSUME NEW t \in Threads, OnRead(t) \/ Replied(t) \/ NotFound(t) \/ LiveView(t) \/ UpdateConfig(t)
                                \/ ThresholdsDone(t)
      PROVE  ConnKept
  BY <1>1 DEF OnRead, Replied, NotFound, LiveView, UpdateConfig, ThresholdsDone
<1>2. ASSUME NEW t \in Threads, ListNext(t) PROVE ConnKept
  <2>1. \/ UNCHANGED sadapterVars
        \/ \E table, matching, wellFormed :
             \E o \in List(table, matching, wellFormed) : Called(o)
    BY <1>2 DEF ListNext
  <2> QED
    BY <2>1
<1>3. ASSUME NEW t \in Threads, GetFeedStatus(t) PROVE ConnKept
  BY <1>3 DEF GetFeedStatus
<1>4. ASSUME NEW t \in Threads, GetClientById(t) \/ ReadAlert(t) PROVE ConnKept
  BY <1>4 DEF GetClientById, ReadAlert
<1>5. ASSUME NEW t \in Threads, ReadThreshold(t) PROVE ConnKept
  <2>1. \E o : (o \in Refused(No) \/ \E key : o \in Find(Thresholds, key)) /\ Called(o)
    BY <1>5 DEF ReadThreshold
  <2> QED
    BY <2>1
<1>6. ASSUME NEW t \in Threads, CreateClient(t) PROVE ConnKept
  <2>1. UNCHANGED sadapterVars \/ \E row : \E o \in Create(Clients, row) : Called(o)
    BY <1>6 DEF CreateClient
  <2> QED
    BY <2>1
<1>7. ASSUME NEW t \in Threads, DeleteClient(t) PROVE ConnKept
  BY <1>7 DEF DeleteClient
<1>8. ASSUME NEW t \in Threads, WriteAlert(t) \/ WriteThreshold(t) PROVE ConnKept
  <2>1. \E table, key, d : \E o \in Update(table, key, d) : Called(o)
    BY <1>8 DEF WriteAlert, WriteThreshold
  <2> QED
    BY <2>1
<1>9. CASE Resolve \/ Purge
  BY <1>9 DEF Resolve, Purge
<1> QED
  BY <1>1, <1>2, <1>3, <1>4, <1>5, <1>6, <1>7, <1>8, <1>9 DEF Next, Handle

-----------------------------------------------------------------------------
(* The routes.                                                             *)

\* The table of routes turned round: the only row that a request can be for, by its
\* method, its number of segments, and the third and the fourth of them.
RowOfThree(third) ==
  CASE third = "clients" -> 2
    [] third = "dashboard" -> 6
    [] third = "exchanges" -> 15
    [] third = "analytics" -> 28
    [] third = "timeline" -> 29
    [] third = "dependencies" -> 30
    [] third = "topology" -> 31
    [] third = "alerts" -> 32
    [] third = "audit" -> 35
    [] third = "config" -> 36
    [] third = "thresholds" -> 38
    [] OTHER -> 40

LiveRow(third) ==
  CASE third = "metrics" -> 7
    [] third = "performance" -> 9
    [] third = "throughput" -> 11
    [] third = "feed" -> 13
    [] third = "queues" -> 18
    [] third = "network" -> 20
    [] third = "database" -> 22
    [] third = "system" -> 24
    [] OTHER -> 26

RowOfFour(third, fourth) ==
  IF third \in {"clients", "exchange", "alerts"}
  THEN CASE third = "clients" -> 3 [] third = "exchange" -> 16 [] third = "alerts" -> 34
  ELSE CASE fourth = "status" -> 1
         [] fourth = "live" -> LiveRow(third)
         [] OTHER -> LiveRow(third) + 1

RowOf(method, n, third, fourth) ==
  CASE n = 1 -> 41
    [] method = "DELETE" -> 5
    [] method = "POST" -> IF n = 3 THEN 4 ELSE 33
    [] method = "PUT" -> IF third = "config" THEN 37 ELSE 39
    [] OTHER -> IF n = 5 THEN 17
                ELSE IF n = 3 THEN RowOfThree(third)
                ELSE RowOfFour(third, fourth)

\* Route r is row n: all that it matches is for that row. If it has a parameter, that is
\* its fourth segment, and its first segment is a word.
IsRoute(r, n) ==
  /\ DOMAIN r.path = 1..Len(r.path)
  /\ r.handler # "none"
  /\ 1 \in DOMAIN r.path /\ r.path[1] \notin {"", Param}
  /\ \A i \in DOMAIN r.path : r.path[i] = Param => i = 4
  /\ \A path : Matches(path, r.path) => RowOf(r.method, Len(path), path[3], path[4]) = n

\* What a route says: its method, its segments and its handler.
Reads(r, method, n, third, fourth, name) ==
  /\ r.method = method /\ r.handler = name
  /\ Len(r.path) = n /\ DOMAIN r.path = 1..n
  /\ r.path[1] = "api" /\ r.path[2] = "v1" /\ r.path[3] = third
  /\ n >= 4 => r.path[4] = fourth
  /\ n >= 5 => r.path[5] # Param

\* The fields of a route.
LEMMA RouteParts ==
  ASSUME NEW m, NEW p, NEW h
  PROVE  Route(m, p, h).path = p /\ Route(m, p, h).method = m /\ Route(m, p, h).handler = h
BY DEF Route

\* A route of GET with one segment, or two, after the prefix; the first has no fourth.
LEMMA GetThree ==
  ASSUME NEW x, NEW y, NEW h
  PROVE  Reads(Get(<<x>>, h), "GET", 3, x, y, h)
<1> DEFINE p == <<"api", "v1">> \o <<x>>
<1>1. DOMAIN p = 1..3 /\ Len(p) = 3 /\ p[1] = "api" /\ p[2] = "v1" /\ p[3] = x
  OBVIOUS
<1>2. Get(<<x>>, h) = Route("GET", p, h)
  BY DEF Get
<1> HIDE DEF p
<1> QED
  BY <1>1, <1>2, RouteParts DEF Reads

\* The same of a path of four segments.
LEMMA GetFour ==
  ASSUME NEW x, NEW y, NEW h
  PROVE  Reads(Get(<<x, y>>, h), "GET", 4, x, y, h)
<1> DEFINE p == <<"api", "v1">> \o <<x, y>>
<1>1. DOMAIN p = 1..4 /\ Len(p) = 4 /\ p[1] = "api" /\ p[2] = "v1" /\ p[3] = x /\ p[4] = y
  OBVIOUS
<1>2. Get(<<x, y>>, h) = Route("GET", p, h)
  BY DEF Get
<1> HIDE DEF p
<1> QED
  BY <1>1, <1>2, RouteParts DEF Reads

\* What such a route matches is for row k.
Leads(m, n, x, y, k) ==
  \A fourth : (n >= 4 => y = Param \/ fourth = y) => RowOf(m, n, x, fourth) = k

\* Such a route is row k if what it matches is for row k.
LEMMA SingledOut ==
  ASSUME NEW r, NEW m, NEW n \in {3, 4, 5}, NEW x, NEW y, NEW h, NEW k,
         Reads(r, m, n, x, y, h), Leads(m, n, x, y, k), x # Param, h # "none"
  PROVE  IsRoute(r, k)
<1>1. DOMAIN r.path = 1..n /\ Len(r.path) = n /\ r.method = m /\ r.handler # "none" /\ 1 \in 1..n
  BY DEF Reads
<1>2. r.path[1] \notin {"", Param}
  BY DEF Reads, Param
<1>3. ASSUME NEW i \in DOMAIN r.path, r.path[i] = Param
      PROVE  i = 4
  <2>1. i \in 1..n /\ i \in {1, 2, 3, 4, 5}
    BY <1>1
  <2> QED
    BY <1>3, <2>1 DEF Reads, Param
<1>4. ASSUME NEW path, Matches(path, r.path)
      PROVE  RowOf(m, Len(path), path[3], path[4]) = k
  <2>1. Len(path) = n
    BY <1>1, <1>4 DEF Matches
  <2>2. \A i \in 1..n : r.path[i] # Param => path[i] = r.path[i]
    BY <1>1, <1>4 DEF Matches
  <2>3. path[3] = x
    BY <2>2 DEF Reads
  <2>4. n >= 4 => y = Param \/ path[4] = y
    BY <2>2 DEF Reads
  <2> QED
    BY <2>1, <2>3, <2>4 DEF Leads
<1> QED
  BY <1>1, <1>2, <1>3, <1>4 DEF IsRoute

\* The same of the routes of GET.
LEMMA RowOfGetThree ==
  ASSUME NEW x, NEW h, NEW k, x # Param, h # "none", Leads("GET", 3, x, x, k)
  PROVE  IsRoute(Get(<<x>>, h), k)
BY GetThree, SingledOut

\* The same of a path of four segments.
LEMMA RowOfGetFour ==
  ASSUME NEW x, NEW y, NEW h, NEW k, x # Param, h # "none", Leads("GET", 4, x, y, k)
  PROVE  IsRoute(Get(<<x, y>>, h), k)
BY GetFour, SingledOut

\* The four parts of the table, row by row.
LEMMA ClientRows ==
  \A i \in 1..5 : IsRoute(ClientRoutes[i], i)
<1> USE DEF Leads, RowOf, RowOfThree, RowOfFour, LiveRow, Param
<1>1. Leads("GET", 4, "feed", "status", 1)
  OBVIOUS
<1>2. Leads("GET", 3, "clients", "clients", 2)
  OBVIOUS
<1>3. Leads("GET", 4, "clients", Param, 3)
  OBVIOUS
<1>4. Leads("POST", 3, "clients", "clients", 4)
  OBVIOUS
<1>5. Leads("DELETE", 4, "clients", Param, 5)
  OBVIOUS
<1> HIDE DEF Leads, RowOf, RowOfThree, RowOfFour, LiveRow
<1>21. IsRoute(ClientRoutes[1], 1)
  BY <1>1, RowOfGetFour DEF ClientRoutes
<1>22. IsRoute(ClientRoutes[2], 2)
  BY <1>2, RowOfGetThree DEF ClientRoutes
<1>23. IsRoute(ClientRoutes[3], 3)
  BY <1>3, RowOfGetFour DEF ClientRoutes
<1>24. IsRoute(ClientRoutes[4], 4)
  <2>1. Reads(ClientRoutes[4], "POST", 3, "clients", "clients", "createClient")
    BY DEF ClientRoutes, Route, Reads
  <2> QED
    BY <1>4, <2>1, SingledOut
<1>25. IsRoute(ClientRoutes[5], 5)
  <2>1. Reads(ClientRoutes[5], "DELETE", 4, "clients", Param, "deleteClient")
    BY DEF ClientRoutes, Route, Reads
  <2> QED
    BY <1>5, <2>1, SingledOut
<1> QED
  BY <1>21, <1>22, <1>23, <1>24, <1>25

\* The routes of the live snapshot.
LEMMA LiveRows ==
  \A i \in 1..12 : IsRoute(LiveRoutes[i], 5 + i)
<1> USE DEF Leads, RowOf, RowOfThree, RowOfFour, LiveRow, Param
<1>1. Leads("GET", 3, "dashboard", "dashboard", 6)
  OBVIOUS
<1>2. Leads("GET", 4, "metrics", "live", 7)
  OBVIOUS
<1>3. Leads("GET", 4, "metrics", "history", 8)
  OBVIOUS
<1>4. Leads("GET", 4, "performance", "live", 9)
  OBVIOUS
<1>5. Leads("GET", 4, "performance", "history", 10)
  OBVIOUS
<1>6. Leads("GET", 4, "throughput", "live", 11)
  OBVIOUS
<1>7. Leads("GET", 4, "throughput", "history", 12)
  OBVIOUS
<1>8. Leads("GET", 4, "feed", "live", 13)
  OBVIOUS
<1>9. Leads("GET", 4, "feed", "history", 14)
  OBVIOUS
<1>10. Leads("GET", 3, "exchanges", "exchanges", 15)
  OBVIOUS
<1>11. Leads("GET", 4, "exchange", Param, 16)
  OBVIOUS
<1>12. Leads("GET", 5, "exchange", Param, 17)
  OBVIOUS
<1> HIDE DEF Leads, RowOf, RowOfThree, RowOfFour, LiveRow
<1>21. IsRoute(LiveRoutes[1], 6)
  BY <1>1, RowOfGetThree DEF LiveRoutes
<1>22. IsRoute(LiveRoutes[2], 7)
  BY <1>2, RowOfGetFour DEF LiveRoutes
<1>23. IsRoute(LiveRoutes[3], 8)
  BY <1>3, RowOfGetFour DEF LiveRoutes
<1>24. IsRoute(LiveRoutes[4], 9)
  BY <1>4, RowOfGetFour DEF LiveRoutes
<1>25. IsRoute(LiveRoutes[5], 10)
  BY <1>5, RowOfGetFour DEF LiveRoutes
<1>26. IsRoute(LiveRoutes[6], 11)
  BY <1>6, RowOfGetFour DEF LiveRoutes
<1>27. IsRoute(LiveRoutes[7], 12)
  BY <1>7, RowOfGetFour DEF LiveRoutes
<1>28. IsRoute(LiveRoutes[8], 13)
  BY <1>8, RowOfGetFour DEF LiveRoutes
<1>29. IsRoute(LiveRoutes[9], 14)
  BY <1>9, RowOfGetFour DEF LiveRoutes
<1>30. IsRoute(LiveRoutes[10], 15)
  BY <1>10, RowOfGetThree DEF LiveRoutes
<1>31. IsRoute(LiveRoutes[11], 16)
  BY <1>11, RowOfGetFour DEF LiveRoutes
<1>32. IsRoute(LiveRoutes[12], 17)
  <2>1. Reads(LiveRoutes[12], "GET", 5, "exchange", Param, "getExchangeHistory")
    BY DEF LiveRoutes, Route, Reads, Get
  <2> QED
    BY <1>12, <2>1, SingledOut
<1> QED
  BY <1>21, <1>22, <1>23, <1>24, <1>25, <1>26, <1>27, <1>28, <1>29, <1>30, <1>31, <1>32

\* The routes of the other resources.
LEMMA ResourceRows ==
  \A i \in 1..14 : IsRoute(ResourceRoutes[i], 17 + i)
<1> USE DEF Leads, RowOf, RowOfThree, RowOfFour, LiveRow, Param
<1>1. Leads("GET", 4, "queues", "live", 18)
  OBVIOUS
<1>2. Leads("GET", 4, "queues", "history", 19)
  OBVIOUS
<1>3. Leads("GET", 4, "network", "live", 20)
  OBVIOUS
<1>4. Leads("GET", 4, "network", "history", 21)
  OBVIOUS
<1>5. Leads("GET", 4, "database", "live", 22)
  OBVIOUS
<1>6. Leads("GET", 4, "database", "history", 23)
  OBVIOUS
<1>7. Leads("GET", 4, "system", "live", 24)
  OBVIOUS
<1>8. Leads("GET", 4, "system", "history", 25)
  OBVIOUS
<1>9. Leads("GET", 4, "sessions", "live", 26)
  OBVIOUS
<1>10. Leads("GET", 4, "sessions", "history", 27)
  OBVIOUS
<1>11. Leads("GET", 3, "analytics", "analytics", 28)
  OBVIOUS
<1>12. Leads("GET", 3, "timeline", "timeline", 29)
  OBVIOUS
<1>13. Leads("GET", 3, "dependencies", "dependencies", 30)
  OBVIOUS
<1>14. Leads("GET", 3, "topology", "topology", 31)
  OBVIOUS
<1> HIDE DEF Leads, RowOf, RowOfThree, RowOfFour, LiveRow
<1>21. IsRoute(ResourceRoutes[1], 18)
  BY <1>1, RowOfGetFour DEF ResourceRoutes
<1>22. IsRoute(ResourceRoutes[2], 19)
  BY <1>2, RowOfGetFour DEF ResourceRoutes
<1>23. IsRoute(ResourceRoutes[3], 20)
  BY <1>3, RowOfGetFour DEF ResourceRoutes
<1>24. IsRoute(ResourceRoutes[4], 21)
  BY <1>4, RowOfGetFour DEF ResourceRoutes
<1>25. IsRoute(ResourceRoutes[5], 22)
  BY <1>5, RowOfGetFour DEF ResourceRoutes
<1>26. IsRoute(ResourceRoutes[6], 23)
  BY <1>6, RowOfGetFour DEF ResourceRoutes
<1>27. IsRoute(ResourceRoutes[7], 24)
  BY <1>7, RowOfGetFour DEF ResourceRoutes
<1>28. IsRoute(ResourceRoutes[8], 25)
  BY <1>8, RowOfGetFour DEF ResourceRoutes
<1>29. IsRoute(ResourceRoutes[9], 26)
  BY <1>9, RowOfGetFour DEF ResourceRoutes
<1>30. IsRoute(ResourceRoutes[10], 27)
  BY <1>10, RowOfGetFour DEF ResourceRoutes
<1>31. IsRoute(ResourceRoutes[11], 28)
  BY <1>11, RowOfGetThree DEF ResourceRoutes
<1>32. IsRoute(ResourceRoutes[12], 29)
  BY <1>12, RowOfGetThree DEF ResourceRoutes
<1>33. IsRoute(ResourceRoutes[13], 30)
  BY <1>13, RowOfGetThree DEF ResourceRoutes
<1>34. IsRoute(ResourceRoutes[14], 31)
  BY <1>14, RowOfGetThree DEF ResourceRoutes
<1> QED
  BY <1>21, <1>22, <1>23, <1>24, <1>25, <1>26, <1>27, <1>28, <1>29, <1>30, <1>31, <1>32, <1>33, <1>34

\* The routes that configure and administrate.
LEMMA AdminRows ==
  \A i \in 1..10 : IsRoute(AdminRoutes[i], 31 + i)
<1> USE DEF Leads, RowOf, RowOfThree, RowOfFour, LiveRow, Param
<1>1. Leads("GET", 3, "alerts", "alerts", 32)
  OBVIOUS
<1>2. Leads("POST", 5, "alerts", Param, 33)
  OBVIOUS
<1>3. Leads("GET", 4, "alerts", "history", 34)
  OBVIOUS
<1>4. Leads("GET", 3, "audit", "audit", 35)
  OBVIOUS
<1>5. Leads("GET", 3, "config", "config", 36)
  OBVIOUS
<1>6. Leads("PUT", 3, "config", "config", 37)
  OBVIOUS
<1>7. Leads("GET", 3, "thresholds", "thresholds", 38)
  OBVIOUS
<1>8. Leads("PUT", 3, "thresholds", "thresholds", 39)
  OBVIOUS
<1>9. Leads("GET", 3, "search", "search", 40)
  OBVIOUS
<1> HIDE DEF Leads, RowOf, RowOfThree, RowOfFour, LiveRow
<1>21. IsRoute(AdminRoutes[1], 32)
  BY <1>1, RowOfGetThree DEF AdminRoutes
<1>22. IsRoute(AdminRoutes[2], 33)
  <2>1. Reads(AdminRoutes[2], "POST", 5, "alerts", Param, "acknowledgeAlert")
    BY DEF AdminRoutes, Route, Reads
  <2> QED
    BY <1>2, <2>1, SingledOut
<1>23. IsRoute(AdminRoutes[3], 34)
  BY <1>3, RowOfGetFour DEF AdminRoutes
<1>24. IsRoute(AdminRoutes[4], 35)
  BY <1>4, RowOfGetThree DEF AdminRoutes
<1>25. IsRoute(AdminRoutes[5], 36)
  BY <1>5, RowOfGetThree DEF AdminRoutes
<1>26. IsRoute(AdminRoutes[6], 37)
  <2>1. Reads(AdminRoutes[6], "PUT", 3, "config", "config", "updateConfig")
    BY DEF AdminRoutes, Route, Reads
  <2> QED
    BY <1>6, <2>1, SingledOut
<1>27. IsRoute(AdminRoutes[7], 38)
  BY <1>7, RowOfGetThree DEF AdminRoutes
<1>28. IsRoute(AdminRoutes[8], 39)
  <2>1. Reads(AdminRoutes[8], "PUT", 3, "thresholds", "thresholds", "updateThresholds")
    BY DEF AdminRoutes, Route, Reads
  <2> QED
    BY <1>8, <2>1, SingledOut
<1>29. IsRoute(AdminRoutes[9], 40)
  BY <1>9, RowOfGetThree DEF AdminRoutes
<1>30. IsRoute(AdminRoutes[10], 41)
  <2>1. /\ AdminRoutes[10].method = "GET" /\ AdminRoutes[10].handler = "health"
        /\ Len(AdminRoutes[10].path) = 1 /\ DOMAIN AdminRoutes[10].path = 1..1
        /\ AdminRoutes[10].path[1] = "health"
    BY DEF AdminRoutes, Route
  <2> QED
    BY <2>1 DEF IsRoute, Matches, RowOf
<1> QED
  BY <1>21, <1>22, <1>23, <1>24, <1>25, <1>26, <1>27, <1>28, <1>29, <1>30

\* Their lengths.
LEMMA PartsLen == /\ Len(ClientRoutes) = 5 /\ Len(LiveRoutes) = 12 /\ Len(ResourceRoutes) = 14 /\ Len(AdminRoutes) = 10
BY DEF ClientRoutes, LiveRoutes, ResourceRoutes, AdminRoutes

\* They are sequences.
LEMMA PartsSeq ==
  /\ ClientRoutes = [i \in 1..5 |-> ClientRoutes[i]]
  /\ LiveRoutes = [i \in 1..12 |-> LiveRoutes[i]]
  /\ ResourceRoutes = [i \in 1..14 |-> ResourceRoutes[i]]
  /\ AdminRoutes = [i \in 1..10 |-> AdminRoutes[i]]
BY DEF ClientRoutes, LiveRoutes, ResourceRoutes, AdminRoutes

\* A sequence s of n1 + n2 places holds s1 and then s2.
Joins(s, s1, n1, s2, n2) ==
  /\ DOMAIN s = 1..(n1 + n2)
  /\ \A i \in 1..n1 : s[i] = s1[i]
  /\ \A i \in 1..n2 : s[n1 + i] = s2[i]

\* Concatenation is just that.
LEMMA Concatenated ==
  ASSUME NEW S, NEW s1 \in Seq(S), NEW s2 \in Seq(S)
  PROVE  /\ s1 \o s2 \in Seq(S) /\ Len(s1 \o s2) = Len(s1) + Len(s2)
         /\ Joins(s1 \o s2, s1, Len(s1), s2, Len(s2))
<1>1. s1 \o s2 \in Seq(S) /\ Len(s1 \o s2) = Len(s1) + Len(s2)
  OBVIOUS
<1>2. \A i \in 1..Len(s1) : (s1 \o s2)[i] = s1[i]
  OBVIOUS
<1>3. \A i \in 1..Len(s2) : (s1 \o s2)[Len(s1) + i] = s2[i]
  OBVIOUS
<1>4. DOMAIN (s1 \o s2) = 1..(Len(s1) + Len(s2))
  BY <1>1
<1> QED
  BY <1>1, <1>2, <1>3, <1>4 DEF Joins

\* The routes are the parts' one after the other.
LEMMA Placed ==
  /\ DOMAIN routes = 1..41
  /\ \A i \in 1..5 : routes[i] = ClientRoutes[i]
  /\ \A i \in 1..12 : routes[5 + i] = LiveRoutes[i]
  /\ \A i \in 1..14 : routes[17 + i] = ResourceRoutes[i]
  /\ \A i \in 1..10 : routes[31 + i] = AdminRoutes[i]
<1> DEFINE S == {ClientRoutes[i] : i \in 1..5} \cup {LiveRoutes[i] : i \in 1..12}
                \cup {ResourceRoutes[i] : i \in 1..14} \cup {AdminRoutes[i] : i \in 1..10}
           two == ClientRoutes \o LiveRoutes
           three == two \o ResourceRoutes
<1>1. ClientRoutes \in Seq(S) /\ LiveRoutes \in Seq(S)
      /\ ResourceRoutes \in Seq(S) /\ AdminRoutes \in Seq(S)
  BY PartsSeq
<1>2. two = ClientRoutes \o LiveRoutes /\ three = two \o ResourceRoutes
      /\ routes = three \o AdminRoutes
  BY DEF routes
<1> HIDE DEF S, two, three
<1>3. two \in Seq(S) /\ Len(two) = 17
  <2>1. two \in Seq(S) /\ Len(two) = Len(ClientRoutes) + Len(LiveRoutes)
    BY <1>1, <1>2, Concatenated, Zenon
  <2> QED
    BY <2>1, PartsLen
<1>4. three \in Seq(S) /\ Len(three) = 31
  <2>1. three \in Seq(S) /\ Len(three) = Len(two) + Len(ResourceRoutes)
    BY <1>1, <1>2, <1>3, Concatenated, Zenon
  <2> QED
    BY <1>3, <2>1, PartsLen
<1>5. Joins(two, ClientRoutes, 5, LiveRoutes, 12)
  BY <1>1, <1>2, PartsLen, Concatenated, Zenon
<1>6. Joins(three, two, 17, ResourceRoutes, 14)
  BY <1>1, <1>2, <1>3, PartsLen, Concatenated, Zenon
<1>7. Joins(routes, three, 31, AdminRoutes, 10)
  BY <1>1, <1>2, <1>4, PartsLen, Concatenated, Zenon
<1>8. DOMAIN routes = 1..41
  BY <1>7 DEF Joins
<1>9. \A i \in 1..5 : routes[i] = ClientRoutes[i]
  BY <1>5, <1>6, <1>7 DEF Joins
<1>10. \A i \in 1..12 : routes[5 + i] = LiveRoutes[i]
  BY <1>5, <1>6, <1>7 DEF Joins
<1>11. \A i \in 1..14 : routes[17 + i] = ResourceRoutes[i]
  BY <1>6, <1>7 DEF Joins
<1>12. \A i \in 1..10 : routes[31 + i] = AdminRoutes[i]
  BY <1>7 DEF Joins
<1> QED
  BY <1>8, <1>9, <1>10, <1>11, <1>12

\* Every route is the only one for what it matches.
LEMMA Rows ==
  DOMAIN routes = 1..41 /\ \A i \in 1..41 : IsRoute(routes[i], i)
<1>1. \A i \in 1..41 : \/ i \in 1..5
                       \/ \E j \in 1..12 : i = 5 + j
                       \/ \E j \in 1..14 : i = 17 + j
                       \/ \E j \in 1..10 : i = 31 + j
  <2> TAKE i \in 1..41
  <2>1. CASE i \in 1..5
    BY <2>1
  <2>2. CASE i \in 6..17
    <3>1. i - 5 \in 1..12 /\ i = 5 + (i - 5)
      BY <2>2
    <3> QED
      BY <3>1
  <2>3. CASE i \in 18..31
    <3>1. i - 17 \in 1..14 /\ i = 17 + (i - 17)
      BY <2>3
    <3> QED
      BY <3>1
  <2>4. CASE i \in 32..41
    <3>1. i - 31 \in 1..10 /\ i = 31 + (i - 31)
      BY <2>4
    <3> QED
      BY <3>1
  <2> QED
    BY <2>1, <2>2, <2>3, <2>4
<1> QED
  BY <1>1, Placed, ClientRows, LiveRows, ResourceRows, AdminRows
\* A request that a route matches is the route with one of its words in the
\* place of the parameter, and the other way round.
LEMMA MatchesOrFits ==
  ASSUME NEW r, NEW n, IsRoute(r, n), NEW path, Len(path) \in Nat,
         path = [i \in 1..Len(path) |-> path[i]]
  PROVE  Matches(path, r.path) <=>
           /\ Len(r.path) = Len(path)
           /\ \E k \in DOMAIN path : path[k] # "" /\ path = PathOf(r, path[k])
<1>1. DOMAIN path = 1..Len(path)
  OBVIOUS
<1>2. ASSUME Len(r.path) = Len(path), NEW k \in DOMAIN path, path[k] # "", path = PathOf(r, path[k])
      PROVE  Matches(path, r.path)
  <2>1. \A i \in DOMAIN r.path : path[i] = IF r.path[i] = Param THEN path[k] ELSE r.path[i]
    BY <1>2 DEF PathOf
  <2> QED
    BY <1>2, <2>1 DEF Matches
<1>3. ASSUME Matches(path, r.path)
      PROVE  Len(r.path) = Len(path)
             /\ \E k \in DOMAIN path : path[k] # "" /\ path = PathOf(r, path[k])
  <2>1. Len(r.path) = Len(path) /\ DOMAIN r.path = 1..Len(path)
    BY <1>3 DEF Matches, IsRoute
  <2>2. \A i \in 1..Len(path) : IF r.path[i] = Param THEN path[i] # "" ELSE path[i] = r.path[i]
    BY <1>3, <2>1 DEF Matches
  <2> DEFINE k == IF 4 \in 1..Len(path) /\ r.path[4] = Param THEN 4 ELSE 1
  <2>3. k \in 1..Len(path) /\ path[k] # ""
    BY <2>1, <2>2 DEF IsRoute
  <2>4. \A i \in 1..Len(path) : r.path[i] = Param => i = k
    BY <2>1 DEF IsRoute
  <2> HIDE DEF k
  <2>5. \A i \in 1..Len(path) : path[i] = IF r.path[i] = Param THEN path[k] ELSE r.path[i]
    BY <2>2, <2>4
  <2>6. path = PathOf(r, path[k])
    BY <2>1, <2>5 DEF PathOf
  <2> QED
    BY <1>1, <2>1, <2>3, <2>6
<1> QED
  BY <1>2, <1>3

\* The first route that matches a request is the only one that fits it.
LEMMA FittingServes ==
  ASSUME NEW q, Len(q.path) \in Nat, q.path = [i \in 1..Len(q.path) |-> q.path[i]]
  PROVE  Fitting(q) = {Dispatch(q.method, q.path)} \ {"none"}
<1> DEFINE Matching == {i \in DOMAIN routes : routes[i].method = q.method /\ Matches(q.path, routes[i].path)}
           row == RowOf(q.method, Len(q.path), q.path[3], q.path[4])
<1>1. Fitting(q) = {routes[i].handler : i \in Matching}
  <2>1. \A j \in DOMAIN routes :
          Matches(q.path, routes[j].path) <=>
            /\ Len(routes[j].path) = Len(q.path)
            /\ \E k \in DOMAIN q.path : q.path[k] # "" /\ q.path = PathOf(routes[j], q.path[k])
    <3> TAKE j \in DOMAIN routes
    <3>1. IsRoute(routes[j], j)
      BY Rows
    <3> QED
      BY <3>1, MatchesOrFits
  <2> QED
    BY <2>1, Zenon DEF Fitting
<1>2. \A i \in Matching : i = row /\ i \in 1..41 /\ routes[i].handler # "none"
  BY Rows DEF IsRoute
<1>3. Dispatch(q.method, q.path) =
        IF Matching = {} THEN "none"
        ELSE routes[CHOOSE i \in Matching : \A j \in Matching : i <= j].handler
  BY DEF Dispatch
<1> HIDE DEF Matching, row
<1>4. CASE Matching = {}
  BY <1>1, <1>3, <1>4
<1>5. CASE Matching # {}
  <2>1. Matching = {row} /\ row \in 1..41
    BY <1>2, <1>5
  <2>2. (CHOOSE i \in Matching : \A j \in Matching : i <= j) = row
    BY <2>1
  <2>3. Dispatch(q.method, q.path) = routes[row].handler
    BY <1>3, <1>5, <2>2
  <2> QED
    BY <1>1, <1>2, <2>1, <2>3
<1> QED
  BY <1>4, <1>5

-----------------------------------------------------------------------------
(* The theorems.                                                           *)

\* The connection is one that main has opened, or not.
ConnTyped == conn \in {"none", "open", "lost"} /\ usable \in {{}, Prepared}

ApiInv == ReplyInv /\ TaskInv /\ ColumnInv /\ ConnTyped

\* main starts with up-to-date rows and no request.
LEMMA ApiInit == Init => ApiInv
<1> SUFFICES ASSUME Init PROVE ApiInv
  OBVIOUS
<1>1. TaskInv
  BY DEF Init, TaskInv, TaskFits
<1>2. Fresh \in Columns
  BY DEF Fresh, Columns
<1> DEFINE instance == Row(FeedInstances, Instance, None, Fresh)
           alert == Row(Alerts, Alert, None, Fresh)
           threshold == Row(Thresholds, Threshold, Ref(FeedInstances, Instance), Fresh)
           orphan == Row(Thresholds, Orphan, None, Fresh)
<1>3. rows = {instance, alert, threshold, orphan}
  BY DEF Init
<1>4. /\ instance.of = "feed_instances" /\ alert.of = "alerts"
      /\ threshold.of = "metric_thresholds" /\ orphan.of = "metric_thresholds" /\ orphan.parent = None
      /\ instance.data = Fresh /\ alert.data = Fresh /\ threshold.data = Fresh /\ orphan.data = Fresh
      /\ Alerts.name = "alerts" /\ Thresholds.name = "metric_thresholds"
  BY DEF Row, FeedInstances, Alerts, Thresholds, Table
<1> HIDE DEF instance, alert, threshold, orphan
<1>5. RowsTyped(rows) /\ OneEach(rows)
  BY <1>2, <1>3, <1>4 DEF RowsTyped, OneEach
<1>6. wanted \in [Shared -> Columns] /\ AsWanted(rows, wanted)
  BY <1>2, <1>3, <1>4 DEF Init, AsWanted
<1>7. copy = [t \in Threads |-> copy[t]] /\ \A t \in Threads : CopyFits(t)
  BY DEF Init, CopyFits
<1> QED
  BY <1>1, <1>5, <1>6, <1>7, ReplyInit DEF Init, ApiInv, ColumnInv, ConnTyped

\* Every step keeps every part.
LEMMA ApiStep == ApiInv /\ [Next]_vars => ApiInv'
<1>1. ConnTyped /\ [Next]_vars => ConnTyped'
  BY StepKeepsConn DEF ConnTyped, ConnKept, vars, sadapterVars
<1> QED
  BY <1>1, ReplyStep, TaskStep, ColumnStep DEF ApiInv

\* Whatever the threads read and write, and whenever: no column that was asked for is lost
\* unless the copy that was written was out of date.
THEOREM WritesAreKept == Spec => []NoLostWrite
<1>1. ApiInv => NoLostWrite
  BY DEF ApiInv, ColumnInv, AsWanted, NoLostWrite
<1> QED
  BY <1>1, ApiInit, ApiStep, PTL DEF Spec

\* The types hold; in particular a thread that is to write has exactly one row in hand.
THEOREM RestApiTyped == Spec => []RestApiTypeOK
<1>1. ASSUME ApiInv PROVE RestApiTypeOK
  <2>1. \A t \in Threads : (pc[t] = "write") = (Cardinality(copy[t]) = 1)
    <3> TAKE t \in Threads
    <3>1. CASE pc[t] = "write"
      <4>1. PICK r : copy[t] = {r}
        BY <1>1, <3>1 DEF ApiInv, ColumnInv, CopyFits
      <4>2. Cardinality(copy[t]) = 1
        BY <4>1, FS_Singleton
      <4> QED
        BY <3>1, <4>2
    <3>2. CASE pc[t] # "write"
      <4>1. copy[t] = {}
        BY <1>1, <3>2 DEF ApiInv, ColumnInv, CopyFits
      <4>2. Cardinality(copy[t]) = 0
        BY <4>1, FS_EmptySet
      <4> QED
        BY <3>2, <4>2
    <3> QED
      BY <3>1, <3>2
  <2>2. at \in [Threads -> Nat \ {0}]
    BY <1>1 DEF ApiInv, ReplyInv, ApiTyped, TaskInv, TaskFits
  <2>3. \A t \in Threads :
          /\ task[t] \in IF pc[t] = "idle" THEN {NoTask} ELSE Serves[t]
          /\ pc[t] = "write" /\ handler[t] = "updateThresholds" => at[t] <= Len(task[t].body)
          /\ wrote[t] <= at[t]
    BY <1>1 DEF ApiInv, TaskInv, TaskFits
  <2>4. /\ pc \in [Threads -> {"idle", "call", "write", "reply"}]
        /\ status \in [Threads -> Statuses]
        /\ value \in [Threads -> Nat] /\ wrote \in [Threads -> Nat]
    BY <1>1 DEF ApiInv, ReplyInv, ApiTyped
  <2>5. /\ \A r \in rows : r.of \in {"feed_instances", "alerts", "metric_thresholds", "clients"}
        /\ \A r \in rows : r.data \in Columns
        /\ wanted \in [Shared -> Columns]
    BY <1>1 DEF ApiInv, ColumnInv, RowsTyped
  <2>6. conn \in {"none", "open", "lost"} /\ usable \in {{}, Prepared}
    BY <1>1 DEF ApiInv, ConnTyped
  <2> QED
    BY <2>1, <2>2, <2>3, <2>4, <2>5, <2>6 DEF RestApiTypeOK
<1> QED
  BY <1>1, ApiInit, ApiStep, PTL DEF Spec

\* A request is served by the only route that fits it, and by none if there is none.
THEOREM RoutesAreReached == Spec => []RoutesReached
<1>1. ASSUME ApiInv PROVE RoutesReached
  <2> SUFFICES ASSUME NEW t \in Threads, pc[t] = "call"
               PROVE  Fitting(task[t]) = {handler[t]} \ {"none"}
    BY DEF RoutesReached
  <2>1. handler[t] = Dispatch(task[t].method, task[t].path) /\ task[t] \in Requests
    BY <1>1, RestApiAssumption DEF ApiInv, TaskInv, TaskFits
  <2> QED
    BY <2>1, PathAssumption, FittingServes
<1> QED
  BY <1>1, ApiInit, ApiStep, PTL DEF Spec
=============================================================================

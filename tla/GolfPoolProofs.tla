---------------------------- MODULE GolfPoolProofs ----------------------------
(* Theorems about GolfPool, for any number of requests, administrators and  *)
(* passes, and every limit of entries per e-mail, set or not.               *)
EXTENDS GolfPool, FiniteSetTheorems, TLAPS

DeletedRow == [status : {"deleted"}, deadline : Times, starts : Times, scoring : BOOLEAN,
               limit : Limits]
RequestRow == [pc : {"idle", "rows", "commit"}, kind : {"self", "csv"},
               email : Emails \cup {None}, rows : SUBSET Entry, left : 0 .. UploadRows,
               limit : Limits \cup {DefaultMax, None}]
EditRow == [saw : PoolStatus \cup {None}, to : PoolStatus \cup {None}, enable : BOOLEAN]
PassRow == [pc : {"idle", "lock", "look", "activate", "load", "leaderboard", "write"},
            saw : PoolStatus \cup {None}, now : 0 .. MaxClock,
            field : SUBSET (1 .. MaxIds), round : 0 .. MaxRounds]

(* A request has an e-mail for each row to come.  What it inserted is its   *)
(* own, and keeps the pool from being deleted.                              *)
RequestFits(r, q) ==
    /\ q.pc = "rows" => q.email \in Emails /\ q.left # 0
    /\ q.rows # {} => Exists
    /\ IsFiniteSet(q.rows)
    /\ \A e \in q.rows : e.by = r

(* What administrators and passes decided on was in the table, or due, when *)
(* they read the row.                                                       *)
EditFits(d) == d # NoEdit => <<d.saw, d.to>> \in ValidTransitions
PassFits(p) ==
    /\ p.pc = "lock" => p.saw \in PreLock
    /\ p.pc = "activate" => p.saw \in PreLive
    /\ p.pc = "write" => p.round # 0

(* The limit with what a request has inserted and not committed; ids are    *)
(* given in the order of the inserts.                                       *)
Counted(r, rows) == {e \in entries \cup rows : e.by = r}
Bounded(r, rows) == InLimit(Counted(r, rows))
Numbered ==
    /\ \A e \in entries : e.id < nextId
    /\ \A r \in Requests : \A e \in request[r].rows : e.id < nextId

GolfInv ==
    /\ GolfTypeOK
    /\ IsFiniteSet(entries)
    /\ \A r \in Requests : RequestFits(r, request[r]) /\ Bounded(r, request[r].rows)
    /\ Numbered
    /\ \A a \in Admins : EditFits(edit[a])
    /\ \A s \in Passes : PassFits(scorer[s])
-----------------------------------------------------------------------------
LEMMA InitGolf == Init => GolfInv
<1> SUFFICES ASSUME Init PROVE GolfInv
    OBVIOUS
<1>1. /\ clock \in 0 .. MaxClock /\ pool \in PoolRow /\ nextId \in 1 .. MaxIds + 1
      /\ round \in 0 .. MaxRounds /\ faults \in 0 .. MaxFaults
    BY GolfAssumption DEF Init
<1>2. entries = {} /\ DOMAIN board = {} /\ board \in [DOMAIN board -> Pass]
    BY DEF Init
<1>3. request \in [Requests -> RequestRow]
    BY GolfAssumption DEF Init, NoRequest, RequestRow
<1>4. edit \in [Admins -> EditRow] /\ \A a \in Admins : EditFits(edit[a])
    BY DEF Init, NoEdit, EditRow, EditFits
<1>5. scorer \in [Passes -> PassRow] /\ \A s \in Passes : PassFits(scorer[s])
    BY GolfAssumption DEF Init, NoPass, PassRow, PassFits
<1>6. ASSUME NEW r \in Requests
      PROVE  RequestFits(r, request[r]) /\ Bounded(r, request[r].rows)
    <2>1. request[r] = NoRequest
        BY DEF Init
    <2>2. RequestFits(r, request[r])
        BY <2>1, FS_EmptySet DEF RequestFits, NoRequest
    <2>3. Counted(r, request[r].rows) = {}
        BY <1>2, <2>1 DEF Counted, NoRequest
    <2> QED
        BY <2>2, <2>3 DEF Bounded, InLimit
<1>7. IsFiniteSet(entries)
    BY <1>2, FS_EmptySet
<1>8. GolfTypeOK
    BY <1>1, <1>2, <1>3, <1>4, <1>5
    DEF GolfTypeOK, RequestRow, EditRow, PassRow, Ids
<1>9. Numbered
    BY <1>2 DEF Init, NoRequest, Numbered
<1> QED
    BY <1>4, <1>5, <1>6, <1>7, <1>8, <1>9 DEF GolfInv
-----------------------------------------------------------------------------
(* A request goes on to state q; the pool and the entries are as they were. *)
LEMMA RequestGoesOn ==
    ASSUME GolfInv, NEW r \in Requests, NEW q \in RequestRow,
           request' = [request EXCEPT ![r] = q],
           RequestFits(r, q), Bounded(r, q.rows), \A e \in q.rows : e.id < nextId',
           nextId' \in 1 .. MaxIds + 1, nextId <= nextId',
           UNCHANGED <<clock, pool, entries, board, round, edit, scorer, faults>>
    PROVE  GolfInv'
<1>1. request' \in [Requests -> RequestRow]
    BY DEF GolfInv, GolfTypeOK, RequestRow
<1>2. ASSUME NEW u \in Requests
      PROVE  (RequestFits(u, request[u]) /\ Bounded(u, request[u].rows))'
    <2>1. request'[u] = IF u = r THEN q ELSE request[u]
        BY DEF GolfInv, GolfTypeOK
    <2> QED
        BY <2>1 DEF GolfInv, RequestFits, Bounded, Counted, Exists
<1>3. (\A a \in Admins : EditFits(edit[a]))' /\ (\A s \in Passes : PassFits(scorer[s]))'
    BY DEF GolfInv
<1>4. GolfTypeOK'
    BY <1>1 DEF GolfInv, GolfTypeOK, RequestRow, Exists
<1>5. Numbered'
    <2>1. ASSUME NEW e \in Entry, e.id < nextId PROVE e.id < nextId'
        <3>1. e.id \in Nat /\ nextId \in Nat /\ nextId' \in Nat
            BY GolfAssumption DEF Entry, GolfInv, GolfTypeOK
        <3> QED
            BY <2>1, <3>1
    <2>2. entries \subseteq Entry /\ \A u \in Requests : request[u].rows \subseteq Entry
        BY DEF GolfInv, GolfTypeOK
    <2>3. \A u \in Requests : request'[u] = IF u = r THEN q ELSE request[u]
        BY DEF GolfInv, GolfTypeOK
    <2>4. Numbered
        BY DEF GolfInv
    <2> QED
        BY <2>1, <2>2, <2>3, <2>4 DEF Numbered
<1> QED
    BY <1>2, <1>3, <1>4, <1>5 DEF GolfInv

(* A limit is a number, unless there is none.                               *)
LEMMA EntryLimit == \A e \in Entry : e.id \in Nat /\ (e.limit # None => e.limit \in Nat)
<1> SUFFICES ASSUME NEW e \in Entry
             PROVE  e.id \in Nat /\ (e.limit # None => e.limit \in Nat)
    OBVIOUS
<1>1. e.id \in 1 .. MaxIds /\ e.limit \in Limits \cup {DefaultMax, None}
    BY DEF Entry
<1>2. MaxIds \in Nat /\ DefaultMax \in Nat /\ Limits \subseteq Nat \cup {None}
    BY GolfAssumption
<1>3. e.id \in Nat
    BY <1>1, <1>2
<1>4. e.limit # None => e.limit \in Nat
    BY <1>1, <1>2
<1> QED
    BY <1>3, <1>4

(* Fewer rows exceed no limit.                                              *)
LEMMA FewerInLimit ==
    ASSUME NEW rows \in SUBSET Entry, NEW fewer \in SUBSET rows,
           IsFiniteSet(rows), InLimit(rows)
    PROVE  InLimit(fewer)
<1> SUFFICES ASSUME NEW e \in fewer, e.limit # None
             PROVE  Cardinality(UpTo(e, fewer)) <= e.limit
    BY DEF InLimit
<1>1. e.limit \in Nat /\ Cardinality(UpTo(e, rows)) <= e.limit
    BY EntryLimit DEF InLimit
<1>2. IsFiniteSet(UpTo(e, rows))
    BY FS_Subset DEF UpTo
<1>3. UpTo(e, fewer) \subseteq UpTo(e, rows)
    BY DEF UpTo
<1>4. /\ Cardinality(UpTo(e, fewer)) \in Nat /\ Cardinality(UpTo(e, rows)) \in Nat
      /\ Cardinality(UpTo(e, fewer)) <= Cardinality(UpTo(e, rows))
    BY <1>2, <1>3, FS_Subset, FS_CardinalityType
<1> QED
    BY <1>1, <1>4

(* What a slot of requests has added.                                       *)
LEMMA CountedType ==
    ASSUME GolfInv, NEW r \in Requests
    PROVE  /\ Counted(r, request[r].rows) \in SUBSET Entry
           /\ IsFiniteSet(Counted(r, request[r].rows))
<1>1. entries \cup request[r].rows \subseteq Entry
    BY DEF GolfInv, GolfTypeOK
<1>2. IsFiniteSet(entries \cup request[r].rows)
    BY FS_Union DEF GolfInv, RequestFits
<1>3. Counted(r, request[r].rows) \subseteq entries \cup request[r].rows
    BY DEF Counted
<1> QED
    BY <1>1, <1>2, <1>3, FS_Subset

LEMMA FewerBounded ==
    ASSUME GolfInv, NEW r \in Requests, NEW rows, rows \subseteq request[r].rows
    PROVE  /\ Bounded(r, rows)
           /\ \A e \in rows : e.id < nextId
<1>1. Counted(r, rows) \in SUBSET Counted(r, request[r].rows)
    BY DEF Counted
<1>2. InLimit(Counted(r, request[r].rows))
    BY DEF GolfInv, Bounded
<1>3. Bounded(r, rows)
    BY <1>1, <1>2, CountedType, FewerInLimit DEF Bounded
<1> QED
    BY <1>3 DEF GolfInv, Numbered

(* A request that goes on with some of the rows it has, or none.            *)
LEMMA RequestKeeps ==
    ASSUME GolfInv, NEW r \in Requests, NEW q \in RequestRow,
           request' = [request EXCEPT ![r] = q],
           RequestFits(r, q), q.rows \subseteq request[r].rows,
           UNCHANGED <<clock, pool, entries, nextId, board, round, edit, scorer, faults>>
    PROVE  GolfInv'
<1>1. nextId \in 1 .. MaxIds + 1 /\ nextId <= nextId
    BY GolfAssumption DEF GolfInv, GolfTypeOK
<1> QED
    BY <1>1, FewerBounded, RequestGoesOn

LEMMA NoRequestFits ==
    /\ NoRequest \in RequestRow /\ NoRequest.rows = {}
    /\ \A r \in Requests : RequestFits(r, NoRequest)
BY FS_EmptySet, GolfAssumption DEF NoRequest, RequestRow, RequestFits

(* The limit of a request is that of the pool as it is read.                *)
LEMMA PoolLimit ==
    ASSUME GolfInv
    PROVE  /\ (IF pool.limit = None THEN DefaultMax ELSE pool.limit)
                 \in Limits \cup {DefaultMax, None}
           /\ (IF pool.limit = 0 THEN None ELSE pool.limit) \in Limits \cup {DefaultMax, None}
<1>1. pool.limit \in Limits
    BY DEF GolfInv, GolfTypeOK, PoolRow
<1> QED
    BY <1>1

LEMMA SubmitStep ==
    ASSUME GolfInv, NEW r \in Requests, NEW email \in Emails, Submit(r, email)
    PROVE  GolfInv'
<1>1. PICK limit \in Limits \cup {DefaultMax, None} :
         limit = IF pool.limit = None THEN DefaultMax ELSE pool.limit
    BY PoolLimit
<1> DEFINE q == [NoRequest EXCEPT !.pc = "rows", !.email = email, !.left = 1, !.limit = limit]
<1>2. q \in RequestRow /\ q.rows = {}
    <2>1. 1 \in 0 .. UploadRows
        BY GolfAssumption
    <2> QED
        BY <2>1, NoRequestFits DEF RequestRow
<1>3. RequestFits(r, q)
    BY FS_EmptySet DEF RequestFits, NoRequest
<1>4. request' = [request EXCEPT ![r] = q]
    BY <1>1 DEF Submit
<1> HIDE DEF q
<1> QED
    BY <1>2, <1>3, <1>4, RequestKeeps DEF Submit

LEMMA UploadStep ==
    ASSUME GolfInv, NEW r \in Requests, Upload(r)
    PROVE  GolfInv'
<1>1. PICK limit \in Limits \cup {DefaultMax, None} :
         limit = IF pool.limit = 0 THEN None ELSE pool.limit
    BY PoolLimit
<1>2. PICK email \in Emails, rows \in 1 .. UploadRows :
         request' = [request EXCEPT ![r] =
                       [NoRequest EXCEPT !.pc = "rows", !.kind = "csv", !.email = email,
                                         !.left = rows, !.limit = limit]]
    BY <1>1 DEF Upload
<1> DEFINE q == [NoRequest EXCEPT !.pc = "rows", !.kind = "csv", !.email = email,
                                  !.left = rows, !.limit = limit]
<1>3. q \in RequestRow /\ q.rows = {}
    <2>1. rows \in 0 .. UploadRows
        BY GolfAssumption
    <2> QED
        BY <2>1, NoRequestFits DEF RequestRow
<1>4. RequestFits(r, q)
    <2>1. rows # 0
        BY GolfAssumption
    <2> QED
        BY <2>1, FS_EmptySet DEF RequestFits, NoRequest
<1>5. request' = [request EXCEPT ![r] = q]
    BY <1>2
<1> HIDE DEF q
<1> QED
    BY <1>3, <1>4, <1>5, RequestKeeps DEF Upload

(* The next row of a request that has one to come.                          *)
LEMMA NextRowFits ==
    ASSUME NEW r \in Requests, NEW q \in RequestRow, q.pc = "rows", RequestFits(r, q),
           NEW q2 \in NextRow(q)
    PROVE  q2 \in RequestRow /\ RequestFits(r, q2) /\ q2.rows = q.rows
<1>1. CASE q.left > 1
    <2>1. PICK m \in Emails : q2 = [q EXCEPT !.left = @ - 1, !.email = m]
        BY <1>1 DEF NextRow
    <2>2. q.left - 1 \in 0 .. UploadRows /\ q.left - 1 # 0
        BY <1>1, GolfAssumption DEF RequestRow
    <2> QED
        BY <2>1, <2>2 DEF RequestRow, RequestFits
<1>2. CASE ~ (q.left > 1)
    <2>1. q2 = [NoRequest EXCEPT !.pc = "commit", !.rows = q.rows]
        BY <1>2 DEF NextRow
    <2>2. q2 \in RequestRow /\ q2.pc = "commit" /\ q2.rows = q.rows
        BY <2>1, NoRequestFits DEF RequestRow
    <2> QED
        BY <2>2 DEF RequestFits
<1> QED
    BY <1>1, <1>2

(* The count comes before the insert: one more row is at most the limit.    *)
LEMMA OneMoreInLimit ==
    ASSUME NEW rows \in SUBSET Entry, NEW row \in Entry, IsFiniteSet(rows), InLimit(rows),
           \A e \in rows : e.id < row.id,
           row.limit # None => Cardinality(UpTo(row, rows)) < row.limit
    PROVE  InLimit(rows \cup {row})
<1> SUFFICES ASSUME NEW e \in rows \cup {row}, e.limit # None
             PROVE  Cardinality(UpTo(e, rows \cup {row})) <= e.limit
    BY DEF InLimit
<1>1. CASE e \in rows
    <2>1. ~ (row.id <= e.id)
        BY <1>1, EntryLimit
    <2>2. UpTo(e, rows \cup {row}) = UpTo(e, rows)
        BY <2>1 DEF UpTo
    <2>3. Cardinality(UpTo(e, rows \cup {row})) = Cardinality(UpTo(e, rows))
        BY <2>2
    <2> QED
        BY <1>1, <2>3 DEF InLimit
<1>2. CASE e = row
    <2> DEFINE before == UpTo(row, rows)
    <2>1. row.id <= row.id
        BY EntryLimit
    <2>2. UpTo(row, rows \cup {row}) = before \cup {row}
        BY <2>1 DEF UpTo
    <2>3. IsFiniteSet(before)
        BY FS_Subset DEF UpTo
    <2>4. Cardinality(before) < row.limit /\ row.limit \in Nat
        BY <1>2, EntryLimit
    <2> HIDE DEF before
    <2>5. \/ Cardinality(before \cup {row}) = Cardinality(before)
          \/ Cardinality(before \cup {row}) = Cardinality(before) + 1
        BY <2>3, FS_AddElement
    <2>6. Cardinality(before) \in Nat
        BY <2>3, FS_CardinalityType
    <2>7. Cardinality(before \cup {row}) <= row.limit
        BY <2>4, <2>5, <2>6
    <2>8. Cardinality(UpTo(row, rows \cup {row})) = Cardinality(before \cup {row})
        BY <2>2, Zenon
    <2> QED
        BY <1>2, <2>7, <2>8
<1> QED
    BY <1>1, <1>2

LEMMA CreateEntryStep ==
    ASSUME GolfInv, NEW r \in Requests, CreateEntry(r)
    PROVE  GolfInv'
<1> DEFINE q == request[r]
           row == [id |-> nextId, email |-> q.email, by |-> r, limit |-> q.limit]
           grown == [q EXCEPT !.rows = @ \cup {row}]
           before == Counted(r, q.rows)
<1>1. q \in RequestRow /\ q.pc = "rows" /\ RequestFits(r, q) /\ q.email \in Emails
    BY DEF CreateEntry, GolfInv, GolfTypeOK, RequestRow, RequestFits
<1>2. /\ nextId \in 1 .. MaxIds /\ nextId' \in 1 .. MaxIds + 1
      /\ nextId <= nextId' /\ nextId < nextId'
    BY GolfAssumption DEF CreateEntry, GolfInv, GolfTypeOK
<1>3. row \in Entry
    BY <1>1, <1>2 DEF Entry, RequestRow
<1>4. IsFiniteSet(q.rows \cup {row})
    BY <1>1, FS_AddElement DEF RequestFits
<1>5. /\ grown \in RequestRow /\ grown.pc = "rows" /\ RequestFits(r, grown)
      /\ grown.rows = q.rows \cup {row}
    BY <1>1, <1>3, <1>4 DEF RequestRow, RequestFits, CreateEntry
<1>6. \A e \in before : e.id < row.id
    BY DEF GolfInv, Numbered, Counted
<1>7. row.limit # None => Cardinality(UpTo(row, before)) < row.limit
    <2> SUFFICES ASSUME q.limit # None PROVE Cardinality(UpTo(row, before)) < q.limit
        OBVIOUS
    <2> DEFINE all == {e \in entries \cup q.rows : e.email = q.email}
    <2>1. Cardinality(all) < q.limit
        BY DEF CreateEntry, HasRoom, CountEntries
    <2>2. IsFiniteSet(entries \cup q.rows)
        BY <1>1, FS_Union DEF GolfInv, RequestFits
    <2>3. IsFiniteSet(all)
        BY <2>2, FS_Subset
    <2>4. UpTo(row, before) \subseteq all
        BY DEF UpTo, Counted
    <2>5. q.limit \in Nat
        BY <1>3, EntryLimit
    <2> HIDE DEF all, row, before
    <2>6. /\ Cardinality(UpTo(row, before)) \in Nat /\ Cardinality(all) \in Nat
          /\ Cardinality(UpTo(row, before)) <= Cardinality(all)
        BY <2>3, <2>4, FS_Subset, FS_CardinalityType
    <2> QED
        BY <2>1, <2>5, <2>6
<1>8. InLimit(before \cup {row})
    <2>1. InLimit(before)
        BY DEF GolfInv, Bounded
    <2> HIDE DEF row
    <2> QED
        BY <1>3, <1>6, <1>7, <2>1, CountedType, OneMoreInLimit
<1>9. Bounded(r, q.rows \cup {row})
    <2>1. Counted(r, q.rows \cup {row}) = before \cup {row}
        BY DEF Counted
    <2> QED
        BY <1>8, <2>1 DEF Bounded
<1>10. \A e \in q.rows \cup {row} : e.id < nextId'
    <2>1. \A e \in q.rows : e \in Entry /\ e.id < nextId
        BY <1>1 DEF RequestRow, GolfInv, Numbered
    <2>2. \A e \in q.rows : e.id < nextId'
        <3>1. nextId \in Nat /\ nextId' \in Nat
            BY <1>2, GolfAssumption
        <3> QED
            BY <1>2, <2>1, <3>1, EntryLimit
    <2> QED
        BY <1>2, <2>2
<1>11. PICK q2 \in NextRow(grown) : request' = [request EXCEPT ![r] = q2]
    BY DEF CreateEntry
<1> HIDE DEF q, row, grown
<1>12. q2 \in RequestRow /\ RequestFits(r, q2) /\ q2.rows = q.rows \cup {row}
    BY <1>5, <1>11, NextRowFits
<1> QED
    BY <1>2, <1>9, <1>10, <1>11, <1>12, RequestGoesOn DEF CreateEntry

LEMMA RefuseEntryStep ==
    ASSUME GolfInv, NEW r \in Requests, RefuseEntry(r)
    PROVE  GolfInv'
<1> DEFINE q == request[r]
<1>1. q \in RequestRow /\ q.pc = "rows" /\ RequestFits(r, q)
    BY DEF RefuseEntry, GolfInv, GolfTypeOK, RequestRow
<1>2. PICK q2 \in IF q.kind = "self" THEN {NoRequest} ELSE NextRow(q) :
         request' = [request EXCEPT ![r] = q2]
    BY DEF RefuseEntry
<1>3. q2 \in RequestRow /\ RequestFits(r, q2) /\ q2.rows \subseteq q.rows
    <2>1. CASE q2 = NoRequest
        BY <2>1, NoRequestFits
    <2>2. CASE q2 \in NextRow(q)
        BY <1>1, <2>2, NextRowFits
    <2> QED
        BY <1>2, <2>1, <2>2
<1> QED
    BY <1>2, <1>3, RequestKeeps DEF RefuseEntry

LEMMA AbortStep ==
    ASSUME GolfInv, NEW r \in Requests, AbortEntries(r)
    PROVE  GolfInv'
<1>1. NoRequest \in RequestRow /\ RequestFits(r, NoRequest) /\ NoRequest.rows = {}
    BY NoRequestFits
<1> QED
    BY <1>1, RequestKeeps DEF AbortEntries

(* A commit moves rows of a request to the entries, which counts none twice *)
(* and none of another request.                                             *)
LEMMA CommitStep ==
    ASSUME GolfInv, NEW r \in Requests, CommitEntries(r)
    PROVE  GolfInv'
<1>1. request[r] \in RequestRow /\ RequestFits(r, request[r])
    BY DEF GolfInv, GolfTypeOK, RequestRow
<1>2. /\ entries' = entries \cup request[r].rows
      /\ request' = [request EXCEPT ![r] = NoRequest]
      /\ UNCHANGED <<clock, pool, nextId, board, round, edit, scorer, faults>>
    BY DEF CommitEntries
<1>3. entries' \subseteq Entry /\ IsFiniteSet(entries')
    BY <1>1, <1>2, FS_Union DEF RequestRow, RequestFits, GolfInv, GolfTypeOK
<1>4. entries' # {} => Exists
    BY <1>1, <1>2 DEF RequestFits, GolfInv, GolfTypeOK
<1>5. request' \in [Requests -> RequestRow]
    BY <1>2, GolfAssumption DEF GolfInv, GolfTypeOK, RequestRow, NoRequest
<1>6. ASSUME NEW u \in Requests
      PROVE  (RequestFits(u, request[u]) /\ Bounded(u, request[u].rows))'
    <2>1. request'[u] = IF u = r THEN NoRequest ELSE request[u]
        BY <1>2 DEF GolfInv, GolfTypeOK
    <2>2. RequestFits(u, request[u])'
        BY <1>2, <2>1, FS_EmptySet DEF GolfInv, RequestFits, NoRequest, Exists
    <2>3. Counted(u, request[u].rows)' = Counted(u, request[u].rows)
        <3>1. CASE u = r
            BY <1>2, <2>1, <3>1 DEF Counted, NoRequest
        <3>2. CASE u # r
            BY <1>1, <1>2, <2>1, <3>2 DEF Counted, RequestFits
        <3> QED
            BY <3>1, <3>2
    <2>4. Bounded(u, request[u].rows)
        BY DEF GolfInv
    <2>5. Bounded(u, request[u].rows)'
        BY <2>3, <2>4 DEF Bounded
    <2> QED
        BY <2>2, <2>5
<1>7. (\A a \in Admins : EditFits(edit[a]))' /\ (\A s \in Passes : PassFits(scorer[s]))'
    BY <1>2 DEF GolfInv
<1>8. DOMAIN board' \subseteq Ids(entries')
    BY <1>2 DEF Ids, GolfInv, GolfTypeOK
<1>9. GolfTypeOK'
    BY <1>2, <1>3, <1>4, <1>5, <1>8 DEF GolfInv, GolfTypeOK, RequestRow, Exists
<1>10. Numbered'
    <2>1. \A u \in Requests : request'[u] = IF u = r THEN NoRequest ELSE request[u]
        BY <1>2 DEF GolfInv, GolfTypeOK
    <2>2. Numbered
        BY DEF GolfInv
    <2> QED
        BY <1>2, <2>1, <2>2 DEF Numbered, NoRequest
<1> QED
    BY <1>3, <1>6, <1>7, <1>9, <1>10 DEF GolfInv
-----------------------------------------------------------------------------
(* The rest of a step that changes the pool, the board, the entries or a    *)
(* pass and leaves the requests: fewer entries exceed no limit.             *)
LEMMA RequestsStayFit ==
    ASSUME GolfInv, entries' \subseteq entries, UNCHANGED <<nextId, request>>,
           Exists => Exists' \/ \A r \in Requests : request[r].rows = {}
    PROVE  /\ IsFiniteSet(entries') /\ Numbered'
           /\ \A r \in Requests : (RequestFits(r, request[r]) /\ Bounded(r, request[r].rows))'
<1>1. IsFiniteSet(entries')
    BY FS_Subset DEF GolfInv
<1>2. ASSUME NEW r \in Requests
      PROVE  (RequestFits(r, request[r]) /\ Bounded(r, request[r].rows))'
    <2>1. RequestFits(r, request[r])'
        BY DEF GolfInv, RequestFits
    <2>2. Counted(r, request[r].rows)' \in SUBSET Counted(r, request[r].rows)
        BY DEF Counted
    <2>3. Bounded(r, request[r].rows)
        BY DEF GolfInv
    <2>4. InLimit(Counted(r, request[r].rows)')
        BY <2>2, <2>3, CountedType, FewerInLimit DEF Bounded
    <2>5. Bounded(r, request[r].rows)'
        BY <2>4 DEF Bounded, InLimit, UpTo
    <2> QED
        BY <2>1, <2>5
<1>3. Numbered'
    BY DEF GolfInv, Numbered
<1> QED
    BY <1>1, <1>2, <1>3

LEMMA FaultType ==
    ASSUME GolfTypeOK, Fault PROVE faults' \in 0 .. MaxFaults
BY GolfAssumption DEF GolfTypeOK, Fault

LEMMA DeleteEntryStep ==
    ASSUME GolfInv, DeleteEntry
    PROVE  GolfInv'
<1>1. PICK e \in entries : entries' = entries \ {e} /\ board' = Without({e.id})
    BY DEF DeleteEntry
<1>2. UNCHANGED <<clock, pool, nextId, round, request, edit, scorer>>
    BY DEF DeleteEntry
<1>3. DOMAIN board' \subseteq Ids(entries')
    BY <1>1 DEF Without, Ids, GolfInv, GolfTypeOK
<1>4. board' \in [DOMAIN board' -> Pass]
    BY <1>1 DEF Without, GolfInv, GolfTypeOK
<1>5. GolfTypeOK'
    BY <1>1, <1>2, <1>3, <1>4, FaultType DEF DeleteEntry, GolfInv, GolfTypeOK, Exists
<1>6. /\ IsFiniteSet(entries') /\ Numbered'
      /\ \A r \in Requests : (RequestFits(r, request[r]) /\ Bounded(r, request[r].rows))'
    BY <1>1, <1>2, RequestsStayFit DEF Exists
<1> QED
    BY <1>2, <1>5, <1>6 DEF GolfInv

(* Steps that leave requests and entries alone.                             *)
LEMMA RestFits ==
    ASSUME GolfInv, UNCHANGED <<entries, nextId, request>>,
           clock' \in 0 .. MaxClock, round' \in 0 .. MaxRounds, faults' \in 0 .. MaxFaults,
           pool' \in PoolRow \cup DeletedRow, Exists => Exists',
           board' \in [DOMAIN board' -> Pass], DOMAIN board' \subseteq Ids(entries),
           edit' \in [Admins -> EditRow], \A a \in Admins : EditFits(edit'[a]),
           scorer' \in [Passes -> PassRow], \A s \in Passes : PassFits(scorer'[s])
    PROVE  GolfInv'
<1>1. GolfTypeOK'
    BY DEF GolfInv, GolfTypeOK, DeletedRow, EditRow, PassRow, Ids
<1>2. /\ IsFiniteSet(entries') /\ Numbered'
      /\ \A r \in Requests : (RequestFits(r, request[r]) /\ Bounded(r, request[r].rows))'
    BY RequestsStayFit
<1>3. (\A a \in Admins : EditFits(edit[a]))' /\ (\A s \in Passes : PassFits(scorer[s]))'
    OBVIOUS
<1> QED
    BY <1>1, <1>2, <1>3 DEF GolfInv

LEMMA DecideStep ==
    ASSUME GolfInv, NEW a \in Admins, Decide(a)
    PROVE  GolfInv'
<1>1. PICK to \in PoolStatus :
         /\ <<pool.status, to>> \in ValidTransitions
         /\ edit' = [edit EXCEPT ![a] = [saw |-> pool.status, to |-> to,
                                         enable |-> to = "live" /\ ~pool.scoring]]
    BY DEF Decide
<1> DEFINE d == [saw |-> pool.status, to |-> to, enable |-> to = "live" /\ ~pool.scoring]
<1>2. pool.status \in PoolStatus
    BY <1>1 DEF ValidTransitions, PoolStatus, PreLive
<1>3. d \in EditRow /\ EditFits(d)
    BY <1>1, <1>2 DEF EditRow, EditFits
<1>4. edit' = [edit EXCEPT ![a] = d]
    BY <1>1
<1> HIDE DEF d
<1>5. edit' \in [Admins -> EditRow] /\ \A b \in Admins : EditFits(edit'[b])
    BY <1>3, <1>4 DEF GolfInv, GolfTypeOK, EditRow
<1> QED
    BY <1>5, RestFits DEF Decide, GolfInv, GolfTypeOK, DeletedRow, PassRow, Exists

(* The row with a new status.                                               *)
LEMMA StatusWritten ==
    ASSUME GolfTypeOK, Exists, NEW status \in PoolStatus, NEW scoring \in BOOLEAN
    PROVE  [pool EXCEPT !.status = status, !.scoring = scoring] \in PoolRow
BY DEF GolfTypeOK, Exists, PoolRow

LEMMA RowExists == \A row \in PoolRow : row.status # "deleted"
BY DEF PoolRow, PoolStatus, PreLive

LEMMA ApplyStep ==
    ASSUME GolfInv, NEW a \in Admins, Apply(a)
    PROVE  GolfInv'
<1>1. edit[a].to \in PoolStatus /\ edit[a].enable \in BOOLEAN
    BY DEF Apply, GolfInv, GolfTypeOK, EditFits, ValidTransitions, PoolStatus, PreLive
<1>2. pool' \in PoolRow \cup DeletedRow /\ (Exists => Exists')
    <2>1. CASE Exists
        <3>1. pool' = [pool EXCEPT !.status = edit[a].to,
                                   !.scoring = pool.scoring \/ edit[a].enable]
            BY <2>1 DEF Apply
        <3>2. (pool.scoring \/ edit[a].enable) \in BOOLEAN
            OBVIOUS
        <3>3. pool' \in PoolRow
            BY <1>1, <2>1, <3>1, <3>2, StatusWritten DEF GolfInv
        <3> QED
            BY <3>3, RowExists DEF Exists
    <2>2. CASE ~Exists
        BY <2>2 DEF Apply, GolfInv, GolfTypeOK, DeletedRow
    <2> QED
        BY <2>1, <2>2
<1>3. edit' \in [Admins -> EditRow] /\ \A b \in Admins : EditFits(edit'[b])
    BY DEF Apply, GolfInv, GolfTypeOK, EditRow, EditFits, NoEdit
<1> QED
    BY <1>2, <1>3, RestFits DEF Apply, GolfInv, GolfTypeOK, PassRow

LEMMA UpdatePoolStep ==
    ASSUME GolfInv, UpdatePool
    PROVE  GolfInv'
<1>1. pool \in PoolRow
    BY DEF UpdatePool, Exists, GolfInv, GolfTypeOK
<1>2. pool' \in PoolRow
    BY <1>1 DEF UpdatePool, PoolRow, Times
<1>3. Exists'
    BY <1>2, RowExists DEF Exists
<1>4. faults' \in 0 .. MaxFaults
    BY FaultType DEF UpdatePool, GolfInv
<1> QED
    BY <1>2, <1>3, <1>4, RestFits DEF UpdatePool, GolfInv, GolfTypeOK, EditRow, PassRow

LEMMA DeletePoolStep ==
    ASSUME GolfInv, DeletePool
    PROVE  GolfInv'
<1>1. pool' \in DeletedRow
    BY DEF DeletePool, Exists, GolfInv, GolfTypeOK, PoolRow, DeletedRow
<1>2. entries' = {} /\ DOMAIN board' = {} /\ board' \in [DOMAIN board' -> Pass]
    BY DEF DeletePool, Without
<1>3. /\ IsFiniteSet(entries') /\ Numbered'
      /\ \A r \in Requests : (RequestFits(r, request[r]) /\ Bounded(r, request[r].rows))'
    BY <1>2, RequestsStayFit DEF DeletePool
<1>4. GolfTypeOK'
    BY <1>1, <1>2, FaultType DEF DeletePool, GolfInv, GolfTypeOK, DeletedRow
<1> QED
    BY <1>3, <1>4 DEF DeletePool, GolfInv
-----------------------------------------------------------------------------
(* A pass goes on to state p.                                               *)
LEMMA PassGoesOn ==
    ASSUME GolfInv, NEW s \in Passes, NEW p \in PassRow, PassFits(p), ToStep(s, p),
           pool' \in PoolRow \cup DeletedRow, Exists => Exists',
           board' \in [DOMAIN board' -> Pass], DOMAIN board' \subseteq Ids(entries),
           faults' \in 0 .. MaxFaults
    PROVE  GolfInv'
<1>1. scorer' \in [Passes -> PassRow] /\ \A u \in Passes : PassFits(scorer'[u])
    BY DEF ToStep, GolfInv, GolfTypeOK, PassRow
<1> QED
    BY <1>1, RestFits DEF ToStep, GolfInv, GolfTypeOK, EditRow

LEMMA NoPassFits == NoPass \in PassRow /\ PassFits(NoPass)
BY GolfAssumption DEF NoPass, PassRow, PassFits

LEMMA EntryIds == GolfInv => Ids(entries) \subseteq 1 .. MaxIds
BY DEF Ids, Entry, GolfInv, GolfTypeOK

LEMMA ReadingStep ==
    ASSUME GolfInv, NEW s \in Passes, Tick(s) \/ LookActivate(s) \/ LoadPool(s)
    PROVE  GolfInv'
<1>1. UNCHANGED <<pool, board, faults>>
    BY DEF Tick, LookActivate, LoadPool
<1>2. clock \in 0 .. MaxClock
    BY DEF GolfInv, GolfTypeOK
<1>3. CASE Tick(s)
    <2> DEFINE lock == [NoPass EXCEPT !.pc = "lock", !.saw = pool.status, !.now = clock]
               look == [NoPass EXCEPT !.pc = "look", !.now = clock]
    <2>1. look \in PassRow /\ PassFits(look)
        BY <1>2, NoPassFits DEF PassRow, PassFits
    <2>2. pool.status \in PreLock => lock \in PassRow /\ PassFits(lock)
        BY <1>2, NoPassFits DEF PassRow, PassFits, PreLock, PoolStatus, PreLive
    <2>3. ToStep(s, look) \/ (pool.status \in PreLock /\ ToStep(s, lock))
        BY <1>3 DEF Tick
    <2> QED
        BY <1>1, <2>1, <2>2, <2>3, PassGoesOn DEF GolfInv, GolfTypeOK, DeletedRow, Exists
<1>4. CASE LookActivate(s)
    <2> DEFINE act == [NoPass EXCEPT !.pc = "activate", !.saw = pool.status]
               load == [NoPass EXCEPT !.pc = "load"]
    <2>1. load \in PassRow /\ PassFits(load)
        BY GolfAssumption DEF NoPass, PassRow, PassFits
    <2>2. pool.status \in PreLive => act \in PassRow /\ PassFits(act)
        BY NoPassFits DEF PassRow, PassFits, PoolStatus
    <2>3. ToStep(s, load) \/ (pool.status \in PreLive /\ ToStep(s, act))
        BY <1>4 DEF LookActivate
    <2> QED
        BY <1>1, <2>1, <2>2, <2>3, PassGoesOn DEF GolfInv, GolfTypeOK, DeletedRow, Exists
<1>5. CASE LoadPool(s)
    <2> DEFINE found == [NoPass EXCEPT !.pc = "leaderboard", !.field = Ids(entries)]
    <2>1. found \in PassRow /\ PassFits(found)
        BY NoPassFits, EntryIds DEF PassRow, PassFits
    <2>2. ToStep(s, found) \/ ToStep(s, NoPass)
        BY <1>5 DEF LoadPool
    <2> QED
        BY <1>1, <2>1, <2>2, NoPassFits, PassGoesOn DEF GolfInv, GolfTypeOK, DeletedRow, Exists
<1> QED
    BY <1>3, <1>4, <1>5

LEMMA AutoLockStep ==
    ASSUME GolfInv, NEW s \in Passes, AutoLock(s) \/ AutoActivate(s)
    PROVE  GolfInv'
<1>1. UNCHANGED <<board, faults>>
    BY DEF AutoLock, AutoActivate
<1>2. pool' \in PoolRow \cup DeletedRow /\ (Exists => Exists')
    <2>1. CASE Exists
        <3>1. pool \in PoolRow
            BY <2>1 DEF Exists, GolfInv, GolfTypeOK
        <3>2. Activated(pool) \in PoolRow
            BY <3>1 DEF Activated, PoolRow, PoolStatus
        <3>3. [pool EXCEPT !.status = "locked"] \in PoolRow
            BY <3>1 DEF PoolRow, PoolStatus, PreLive
        <3>4. pool' \in {Activated(pool), [pool EXCEPT !.status = "locked"]}
            BY <2>1 DEF AutoLock, AutoActivate
        <3> QED
            BY <3>2, <3>3, <3>4, RowExists DEF Exists
    <2>2. CASE ~Exists
        <3>1. pool' = pool
            BY <2>2 DEF AutoLock, AutoActivate
        <3> QED
            BY <2>2, <3>1 DEF GolfInv, GolfTypeOK, DeletedRow
    <2> QED
        BY <2>1, <2>2
<1>3. [NoPass EXCEPT !.pc = "load"] \in PassRow /\ PassFits([NoPass EXCEPT !.pc = "load"])
    BY GolfAssumption DEF NoPass, PassRow, PassFits
<1>4. ToStep(s, [NoPass EXCEPT !.pc = "load"])
    BY DEF AutoLock, AutoActivate
<1> QED
    BY <1>1, <1>2, <1>3, <1>4, PassGoesOn DEF GolfInv, GolfTypeOK

LEMMA LoadLeaderboardStep ==
    ASSUME GolfInv, NEW s \in Passes, LoadLeaderboard(s)
    PROVE  GolfInv'
<1> DEFINE p == [scorer[s] EXCEPT !.pc = "write", !.round = round]
<1>1. round # 0 => p \in PassRow /\ PassFits(p)
    BY DEF PassRow, PassFits, GolfInv, GolfTypeOK
<1>2. ToStep(s, NoPass) \/ (round # 0 /\ ToStep(s, p))
    BY DEF LoadLeaderboard
<1>3. UNCHANGED <<pool, board, faults>>
    BY DEF LoadLeaderboard
<1> HIDE DEF p
<1> QED
    BY <1>1, <1>2, <1>3, NoPassFits, PassGoesOn DEF GolfInv, GolfTypeOK, DeletedRow, Exists

(* The keys of the scores are those of entries that exist.                  *)
LEMMA UpsertScoresStep ==
    ASSUME GolfInv, NEW s \in Passes, UpsertScores(s)
    PROVE  GolfInv'
<1>1. /\ scorer[s].round \in 1 .. MaxRounds
      /\ scorer[s].field \subseteq 1 .. MaxIds
    BY GolfAssumption DEF UpsertScores, GolfInv, GolfTypeOK, PassFits
<1>2. [round |-> scorer[s].round, field |-> scorer[s].field] \in Pass
    BY <1>1 DEF Pass
<1>3. board \in [DOMAIN board -> Pass] /\ DOMAIN board \subseteq Ids(entries)
    BY DEF GolfInv, GolfTypeOK
<1>4. board' \in [DOMAIN board' -> Pass] /\ DOMAIN board' \subseteq Ids(entries)
    <2>1. CASE scorer[s].field \subseteq Ids(entries)
        <3>1. board' = Written(s)
            BY <2>1 DEF UpsertScores
        <3> QED
            BY <1>2, <1>3, <2>1, <3>1 DEF Written
    <2>2. CASE ~ (scorer[s].field \subseteq Ids(entries))
        BY <1>3, <2>2 DEF UpsertScores
    <2> QED
        BY <2>1, <2>2
<1> QED
    BY <1>4, NoPassFits, PassGoesOn
    DEF UpsertScores, GolfInv, GolfTypeOK, DeletedRow, Exists

LEMMA FaultyPassStep ==
    ASSUME GolfInv, NEW s \in Passes, Rescore(s) \/ PassLost(s)
    PROVE  GolfInv'
<1>1. UNCHANGED <<pool, board>> /\ faults' \in 0 .. MaxFaults
    BY FaultType DEF Rescore, PassLost, GolfInv
<1> DEFINE found == [NoPass EXCEPT !.pc = "leaderboard", !.field = Ids(entries)]
<1>2. found \in PassRow /\ PassFits(found)
    BY NoPassFits, EntryIds DEF PassRow, PassFits
<1>3. ToStep(s, found) \/ ToStep(s, NoPass)
    BY DEF Rescore, PassLost
<1> HIDE DEF found
<1> QED
    BY <1>1, <1>2, <1>3, NoPassFits, PassGoesOn DEF GolfInv, GolfTypeOK, DeletedRow, Exists

LEMMA ClockStep ==
    ASSUME GolfInv, SyncLeaderboard \/ Elapse \/ UNCHANGED vars
    PROVE  GolfInv'
<1>1. clock' \in 0 .. MaxClock /\ round' \in 0 .. MaxRounds
    BY GolfAssumption DEF SyncLeaderboard, Elapse, vars, GolfInv, GolfTypeOK
<1>2. UNCHANGED <<pool, entries, nextId, board, request, edit, scorer, faults>>
    BY DEF SyncLeaderboard, Elapse, vars
<1> QED
    BY <1>1, <1>2, RestFits DEF GolfInv, GolfTypeOK, DeletedRow, EditRow, PassRow, Exists
-----------------------------------------------------------------------------
LEMMA NextGolf == GolfInv /\ [Next]_vars => GolfInv'
<1> SUFFICES ASSUME GolfInv, [Next]_vars PROVE GolfInv'
    OBVIOUS
<1>1. ASSUME NEW r \in Requests, RequestStep(r) PROVE GolfInv'
    BY <1>1, SubmitStep, UploadStep, CreateEntryStep, RefuseEntryStep, CommitStep, AbortStep
    DEF RequestStep
<1>2. ASSUME NEW a \in Admins, AdminStep(a) PROVE GolfInv'
    BY <1>2, DecideStep, ApplyStep DEF AdminStep
<1>3. ASSUME NEW s \in Scorers, Activation(s) PROVE GolfInv'
    BY <1>3, ReadingStep, AutoLockStep DEF Activation, Passes
<1>4. ASSUME NEW s \in Rescorers, Rescore(s) PROVE GolfInv'
    BY <1>4, FaultyPassStep DEF Passes
<1>5. ASSUME NEW s \in Passes, Scoring(s) \/ PassLost(s) PROVE GolfInv'
    BY <1>5, LoadLeaderboardStep, UpsertScoresStep, FaultyPassStep DEF Scoring
<1> QED
    BY <1>1, <1>2, <1>3, <1>4, <1>5, DeleteEntryStep, UpdatePoolStep, DeletePoolStep, ClockStep
    DEF Next

THEOREM GolfInvariant == Spec => []GolfInv
BY InitGolf, NextGolf, PTL DEF Spec

(* No row refers to one that is deleted: scores to entries, entries to the  *)
(* pool, although passes score what they read before.                       *)
THEOREM TypeCorrect == Spec => []GolfTypeOK
<1>1. GolfInv => GolfTypeOK
    BY DEF GolfInv
<1> QED
    BY <1>1, GolfInvariant, PTL

(* However many requests overlap, what a request adds under a limit is, of  *)
(* its e-mail and those that its slot of requests added one after the       *)
(* other, within that limit, whether the pool had it or lost it since.      *)
THEOREM EntriesBounded == Spec => []EntriesPerEmailBounded
<1>1. GolfInv => EntriesPerEmailBounded
    <2> SUFFICES ASSUME GolfInv, NEW e \in entries, e.limit # None
                 PROVE  Cardinality(UpTo(e, entries)) <= e.limit
        BY DEF EntriesPerEmailBounded, InLimit
    <2>1. PICK r \in Requests : r = e.by
        BY DEF GolfInv, GolfTypeOK, Entry
    <2> DEFINE mine == {f \in entries : f.by = r}
    <2>2. mine \in SUBSET Counted(r, request[r].rows) /\ e \in mine
        BY <2>1 DEF Counted
    <2>3. InLimit(Counted(r, request[r].rows))
        BY DEF GolfInv, Bounded
    <2>4. InLimit(mine)
        <3> HIDE DEF mine
        <3> QED
            BY <2>2, <2>3, CountedType, FewerInLimit
    <2>5. UpTo(e, entries) = UpTo(e, mine)
        BY <2>1 DEF UpTo
    <2>6. Cardinality(UpTo(e, entries)) = Cardinality(UpTo(e, mine))
        BY <2>5
    <2> QED
        BY <2>2, <2>4, <2>6 DEF InLimit
<1> QED
    BY <1>1, GolfInvariant, PTL
-----------------------------------------------------------------------------
LateWrite ==
    pool.status = "final" /\ pool'.status # "final" =>
         \/ pool'.status = "deleted"
         \/ \E a \in Admins : edit[a].saw \notin {None, "final"} /\ edit'[a] = NoEdit
         \/ \E s \in Scorers : scorer[s].saw \in PreLive /\ scorer[s].pc \in {"lock", "activate"}

LEMMA OnlyLateWrites ==
    ASSUME GolfInv, Next
    PROVE  LateWrite
<1> SUFFICES ASSUME pool.status = "final", pool'.status # "final",
                    pool'.status # "deleted"
             PROVE  \/ \E a \in Admins : edit[a].saw \notin {None, "final"} /\ edit'[a] = NoEdit
                    \/ \E s \in Scorers : /\ scorer[s].saw \in PreLive
                                          /\ scorer[s].pc \in {"lock", "activate"}
    BY DEF LateWrite
<1>1. CASE \E a \in Admins : Apply(a)
    <2>1. PICK a \in Admins : Apply(a)
        BY <1>1
    <2>2. <<edit[a].saw, edit[a].to>> \in ValidTransitions
        BY <2>1 DEF Apply, GolfInv, EditFits
    <2>3. edit[a].saw \notin {None, "final"}
        BY <2>2, GolfAssumption DEF ValidTransitions, PoolStatus, PreLive
    <2>4. edit'[a] = NoEdit
        BY <2>1 DEF Apply, GolfInv, GolfTypeOK
    <2> QED
        BY <2>3, <2>4
<1>2. CASE \E s \in Scorers : AutoLock(s) \/ AutoActivate(s)
    <2>1. PICK s \in Scorers : AutoLock(s) \/ AutoActivate(s)
        BY <1>2
    <2>2. PassFits(scorer[s])
        BY DEF GolfInv, Passes
    <2> QED
        BY <2>1, <2>2 DEF AutoLock, AutoActivate, PassFits, PreLock, PreLive
<1>3. CASE UpdatePool
    BY <1>3 DEF UpdatePool, GolfInv, GolfTypeOK, PoolRow
<1>4. CASE DeletePool
    BY <1>4 DEF DeletePool, GolfInv, GolfTypeOK, PoolRow
<1>5. CASE UNCHANGED pool
    BY <1>5
<1> QED
    BY <1>1, <1>2, <1>3, <1>4, <1>5
    DEF Next, RequestStep, Submit, Upload, CreateEntry, RefuseEntry, CommitEntries, AbortEntries,
        AdminStep, Decide, Activation, Tick, LookActivate, LoadPool, Rescore, Scoring,
        LoadLeaderboard, UpsertScores, PassLost, DeleteEntry, SyncLeaderboard, Elapse

(* A final pool leaves that status only by its deletion or by a write that  *)
(* was decided on before: by an administrator on a transition of the table, *)
(* or by a pass that found it not yet live.                                 *)
THEOREM FinalPoolsStay == Spec => FinalStays
<1>1. GolfInv /\ [Next]_vars => [LateWrite]_vars
    BY OnlyLateWrites
<1> QED
    BY <1>1, GolfInvariant, PTL DEF Spec, FinalStays, LateWrite
=============================================================================

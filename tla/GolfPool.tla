------------------------------ MODULE GolfPool ------------------------------
(* One golf pool: entries and their CSV upload (routers/golf/pools.py,      *)
(* pools_admin.py, pools_helpers.py), the transitions of an administrator   *)
(* (services/pool_lifecycle.py) and the scraper's passes, which lock,       *)
(* activate and score it (golf/pool_scoring.py, jobs/golf_tasks.py).        *)
(*                                                                          *)
(* Nobody selects the row FOR UPDATE: each handler reads it, decides, and   *)
(* updates it by its id; READ COMMITTED shows a handler what is committed   *)
(* when its statement runs, and its own writes.                             *)
EXTENDS Naturals, FiniteSets

CONSTANTS
    Requests,    \* entry submissions and uploads at a time
    Admins,      \* transitions by administrators at a time
    Scorers,     \* scheduled passes at a time: no lock keeps them apart
    Rescorers,   \* rescores by administrators at a time
    Emails,
    Created,     \* the rows a pool may be created with in this instance
    Limits,      \* what max_entries_per_email may be in this instance
    DefaultMax,  \* _DEFAULT_MAX_ENTRIES_PER_EMAIL
    None,
    Never,       \* no deadline, no start
    UploadRows,  \* bound: rows of a CSV file
    MaxIds,      \* bound: ids given to entries
    MaxClock,    \* bound: the clock
    MaxRounds,   \* bound: versions of the leaderboard
    MaxFaults    \* bound: patches, deletions, rescores and failed passes

VARIABLES
    clock,
    pool,     \* the committed row
    entries,  \* committed entries
    nextId,   \* the sequence behind golf_pool_entries.id
    board,    \* [id -> the pass that wrote its golf_pool_entry_scores row]
    round,    \* version of golf_leaderboard, 0 while it is empty
    request,  \* [Requests -> a submission or upload]
    edit,     \* [Admins -> a transition that was decided]
    scorer,   \* [Scorers and Rescorers -> a pass]
    faults    \* history: patches, deletions, rescores and failed passes

vars == <<clock, pool, entries, nextId, board, round, request, edit, scorer, faults>>

PreLock == {"draft", "open"}              \* _PRE_LOCK_STATUSES
PreLive == {"draft", "open", "locked"}    \* _PRE_LIVE_STATUSES
PoolStatus == PreLive \cup {"live", "final"}
ValidTransitions == {<<"draft", "open">>, <<"open", "locked">>,
                     <<"locked", "live">>, <<"live", "final">>}

Times == 0 .. MaxClock \cup {Never}
PoolRow == [status : PoolStatus, deadline : Times, starts : Times, scoring : BOOLEAN,
            limit : Limits]

ASSUME GolfAssumption ==
    /\ IsFiniteSet(Requests)
    /\ Scorers \cap Rescorers = {}
    /\ Limits \subseteq Nat \cup {None} /\ DefaultMax \in Nat /\ UploadRows \in Nat \ {0} /\ MaxIds \in Nat
    /\ MaxClock \in Nat /\ MaxRounds \in Nat /\ MaxFaults \in Nat
    /\ Never \notin 0 .. MaxClock /\ None \notin PoolStatus \cup Nat
    /\ Created \subseteq PoolRow

Exists == pool.status # "deleted"
Passed(time, now) == time # Never /\ time <= now
Ids(rows) == {e.id : e \in rows}
Passes == Scorers \cup Rescorers

(* by, limit: history, who added the entry and under which limit, if any.   *)
Entry == [id : 1 .. MaxIds, email : Emails, by : Requests,
          limit : Limits \cup {DefaultMax, None}]
Pass == [round : 1 .. MaxRounds, field : SUBSET (1 .. MaxIds)]

NoRequest == [pc |-> "idle", kind |-> "self", email |-> None, rows |-> {}, left |-> 0,
              limit |-> None]
NoEdit == [saw |-> None, to |-> None, enable |-> FALSE]
NoPass == [pc |-> "idle", saw |-> None, now |-> 0, field |-> {}, round |-> 0]

(* Rows refer to rows that exist: a score to an entry, an entry to a pool.  *)
GolfTypeOK ==
    /\ clock \in 0 .. MaxClock
    /\ pool \in PoolRow \cup [status : {"deleted"}, deadline : Times, starts : Times,
                             scoring : BOOLEAN, limit : Limits]
    /\ entries \subseteq Entry /\ (entries # {} => Exists)
    /\ nextId \in 1 .. MaxIds + 1
    /\ board \in [DOMAIN board -> Pass] /\ DOMAIN board \subseteq Ids(entries)
    /\ round \in 0 .. MaxRounds
    /\ request \in [Requests -> [pc : {"idle", "rows", "commit"},
                                 kind : {"self", "csv"}, email : Emails \cup {None},
                                 rows : SUBSET Entry, left : 0 .. UploadRows,
                                 limit : Limits \cup {DefaultMax, None}]]
    /\ edit \in [Admins -> [saw : PoolStatus \cup {None}, to : PoolStatus \cup {None},
                            enable : BOOLEAN]]
    /\ scorer \in [Passes -> [pc : {"idle", "lock", "look", "activate", "load", "leaderboard",
                                     "write"},
                               saw : PoolStatus \cup {None}, now : 0 .. MaxClock,
                               field : SUBSET (1 .. MaxIds), round : 0 .. MaxRounds]]
    /\ faults \in 0 .. MaxFaults

(* create_pool, duplicate_pool, provisioning and the scripts: a pool may be *)
(* created in any status.                                                   *)
Init ==
    /\ clock = 0
    /\ pool \in Created
    /\ entries = {}
    /\ nextId = 1
    /\ board = [i \in {} |-> None]
    /\ round = 0
    /\ request = [r \in Requests |-> NoRequest]
    /\ edit = [a \in Admins |-> NoEdit]
    /\ scorer = [s \in Passes |-> NoPass]
    /\ faults = 0

Fault == faults < MaxFaults /\ faults' = faults + 1
-----------------------------------------------------------------------------
(* ENTRIES                                                                  *)

(* submit_entry reads the pool and refuses after the lock or the deadline.  *)
(* Its limit is 3 if the pool has none.                                     *)
Submit(r, email) ==
    /\ request[r].pc = "idle"
    /\ pool.status \in {"open", "draft"}
    /\ ~ (pool.deadline # Never /\ pool.deadline < clock)
    /\ request' = [request EXCEPT ![r] =
                     [NoRequest EXCEPT !.pc = "rows", !.email = email, !.left = 1,
                         !.limit = IF pool.limit = None THEN DefaultMax ELSE pool.limit]]
    /\ UNCHANGED <<clock, pool, entries, nextId, board, round, edit, scorer, faults>>

(* upload_entries_csv asks for neither, and has a limit only if the pool    *)
(* has one that is not 0.                                                   *)
Upload(r) ==
    /\ request[r].pc = "idle"
    /\ Exists
    /\ \E email \in Emails, rows \in 1 .. UploadRows :
         request' = [request EXCEPT ![r] =
                       [NoRequest EXCEPT !.pc = "rows", !.kind = "csv", !.email = email,
                                         !.left = rows,
                          !.limit = IF pool.limit = 0 THEN None ELSE pool.limit]]
    /\ UNCHANGED <<clock, pool, entries, nextId, board, round, edit, scorer, faults>>

(* (Mutant of CountEntries) Own rows are not counted.                       *)
CountCommitted(r, email) == Cardinality({e \in entries : e.email = email})

(* count_entries_for_email: committed entries and the request's own.        *)
CountEntries(r, email) == Cardinality({e \in entries \cup request[r].rows : e.email = email})

(* The request goes on with its next row, or to its commit.                 *)
NextRow(q) ==
    IF q.left > 1 THEN {[q EXCEPT !.left = @ - 1, !.email = m] : m \in Emails}
                  ELSE {[NoRequest EXCEPT !.pc = "commit", !.rows = q.rows]}

(* The limit is that of the row as the request read it.                     *)
HasRoom(r, q) == q.limit # None => CountEntries(r, q.email) < q.limit

(* create_entry_and_picks, for an e-mail under its limit: entry, picks and  *)
(* duplicate names.  The key of a deleted pool is refused.  Count and       *)
(* insert are one step here: the race is that of both with the commit.      *)
CreateEntry(r) ==
    LET q == request[r]
        row == [id |-> nextId, email |-> q.email, by |-> r, limit |-> q.limit]
    IN /\ q.pc = "rows"
       /\ HasRoom(r, q)
       /\ Exists /\ nextId <= MaxIds
       /\ nextId' = nextId + 1
       /\ \E q2 \in NextRow([q EXCEPT !.rows = @ \cup {row}]) :
            request' = [request EXCEPT ![r] = q2]
       /\ UNCHANGED <<clock, pool, entries, board, round, edit, scorer, faults>>

(* Over the limit a submission ends, a row of a file is skipped.            *)
RefuseEntry(r) ==
    LET q == request[r]
    IN /\ q.pc = "rows"
       /\ ~HasRoom(r, q)
       /\ \E q2 \in IF q.kind = "self" THEN {NoRequest} ELSE NextRow(q) :
            request' = [request EXCEPT ![r] = q2]
       /\ UNCHANGED <<clock, pool, entries, nextId, board, round, edit, scorer, faults>>

(* get_db commits; before that the request may fail or be refused.          *)
CommitEntries(r) ==
    /\ request[r].pc = "commit"
    /\ entries' = entries \cup request[r].rows
    /\ request' = [request EXCEPT ![r] = NoRequest]
    /\ UNCHANGED <<clock, pool, nextId, board, round, edit, scorer, faults>>

AbortEntries(r) ==
    /\ request[r].pc # "idle"
    /\ request' = [request EXCEPT ![r] = NoRequest]
    /\ UNCHANGED <<clock, pool, entries, nextId, board, round, edit, scorer, faults>>

Without(ids) == [i \in DOMAIN board \ ids |-> board[i]]

(* delete_entry and the score rows that refer to it.                        *)
DeleteEntry ==
    /\ Fault
    /\ \E e \in entries : entries' = entries \ {e} /\ board' = Without({e.id})
    /\ UNCHANGED <<clock, pool, nextId, round, request, edit, scorer>>
-----------------------------------------------------------------------------
(* ADMINISTRATORS                                                           *)

(* PoolStateMachine: the guards of a transition, on the row and the entries *)
(* as they are read.                                                        *)
Decide(a) ==
    /\ edit[a] = NoEdit
    /\ \E to \in PoolStatus :
         /\ <<pool.status, to>> \in ValidTransitions
         /\ to = "open" => pool.deadline # Never
         /\ to = "locked" => entries # {}
         /\ edit' = [edit EXCEPT ![a] = [saw |-> pool.status, to |-> to,
                                         enable |-> to = "live" /\ ~pool.scoring]]
    /\ UNCHANGED <<clock, pool, entries, nextId, board, round, request, scorer, faults>>

(* _apply and the commit: UPDATE ... WHERE id, whatever the row is by then. *)
(* The session writes scoring_enabled only if it read FALSE.                *)
Apply(a) ==
    /\ edit[a] # NoEdit
    /\ pool' = IF Exists THEN [pool EXCEPT !.status = edit[a].to,
                                           !.scoring = @ \/ edit[a].enable]
                         ELSE pool
    /\ edit' = [edit EXCEPT ![a] = NoEdit]
    /\ UNCHANGED <<clock, entries, nextId, board, round, request, scorer, faults>>

(* update_pool without a status.  Rules that pass their validation have no  *)
(* scoring_starts_at (PoolConfigValidator forbids other keys).              *)
UpdatePool ==
    /\ Fault /\ Exists
    /\ \/ pool' = [pool EXCEPT !.starts = Never]
       \/ \E t \in Times \ {Never} : pool' = [pool EXCEPT !.deadline = t]
       \/ pool' = [pool EXCEPT !.scoring = ~ @]
       \/ \E n \in Limits \ {None} : pool' = [pool EXCEPT !.limit = n]
    /\ UNCHANGED <<clock, entries, nextId, board, round, request, edit, scorer>>

(* delete_pool waits for the inserts that refer to the pool.                *)
DeletePool ==
    /\ Fault /\ Exists
    /\ \A r \in Requests : request[r].rows = {}
    /\ pool' = [pool EXCEPT !.status = "deleted"]
    /\ entries' = {}
    /\ board' = Without(DOMAIN board)
    /\ UNCHANGED <<clock, nextId, round, request, edit, scorer>>
-----------------------------------------------------------------------------
(* THE SCRAPER                                                              *)

ToStep(s, pass) ==
    /\ scorer' = [scorer EXCEPT ![s] = pass]
    /\ UNCHANGED <<clock, entries, nextId, round, request, edit>>

(* _auto_activate_pools: "now", and the pools past their deadline.          *)
Tick(s) ==
    /\ scorer[s].pc = "idle"
    /\ ToStep(s, IF pool.status \in PreLock /\ Passed(pool.deadline, clock)
                 THEN [NoPass EXCEPT !.pc = "lock", !.saw = pool.status, !.now = clock]
                 ELSE [NoPass EXCEPT !.pc = "look", !.now = clock])
    /\ UNCHANGED <<pool, board, faults>>

Activated(row) == [row EXCEPT !.status = "live", !.scoring = TRUE]

(* A locked pool is locked by id and, in the same transaction, found again  *)
(* by the second query if its start has passed too.                         *)
AutoLock(s) ==
    /\ scorer[s].pc = "lock"
    /\ pool' = CASE ~Exists -> pool
                 [] Exists /\ Passed(pool.starts, scorer[s].now) -> Activated(pool)
                 [] OTHER -> [pool EXCEPT !.status = "locked"]
    /\ ToStep(s, [NoPass EXCEPT !.pc = "load"])
    /\ UNCHANGED <<board, faults>>

(* (Mutants of LookActivate)                                                *)
LookActivateLocked(s) ==
    /\ scorer[s].pc = "look"
    /\ ToStep(s, IF pool.status = "locked" /\ Passed(pool.starts, scorer[s].now)
                 THEN [NoPass EXCEPT !.pc = "activate", !.saw = pool.status]
                 ELSE [NoPass EXCEPT !.pc = "load"])
    /\ UNCHANGED <<pool, board, faults>>

LookActivateAny(s) ==
    /\ scorer[s].pc = "look"
    /\ ToStep(s, IF Exists /\ Passed(pool.starts, scorer[s].now)
                 THEN [NoPass EXCEPT !.pc = "activate", !.saw = pool.status]
                 ELSE [NoPass EXCEPT !.pc = "load"])
    /\ UNCHANGED <<pool, board, faults>>

LookActivate(s) ==
    /\ scorer[s].pc = "look"
    /\ ToStep(s, IF pool.status \in PreLive /\ Passed(pool.starts, scorer[s].now)
                 THEN [NoPass EXCEPT !.pc = "activate", !.saw = pool.status]
                 ELSE [NoPass EXCEPT !.pc = "load"])
    /\ UNCHANGED <<pool, board, faults>>

AutoActivate(s) ==
    /\ scorer[s].pc = "activate"
    /\ pool' = IF Exists THEN Activated(pool) ELSE pool
    /\ ToStep(s, [NoPass EXCEPT !.pc = "load"])
    /\ UNCHANGED <<board, faults>>

(* (Mutant of LoadPool) Only what has no score yet.                         *)
LoadPoolUnscored(s) ==
    LET found == Ids(entries) \ DOMAIN board
    IN /\ scorer[s].pc = "load"
       /\ ToStep(s, IF pool.status = "live" /\ pool.scoring /\ found # {}
                    THEN [NoPass EXCEPT !.pc = "leaderboard", !.field = found] ELSE NoPass)
       /\ UNCHANGED <<pool, board, faults>>

(* _load_live_pools, _load_entries_and_picks.                               *)
LoadPool(s) ==
    /\ scorer[s].pc = "load"
    /\ ToStep(s, IF pool.status = "live" /\ pool.scoring /\ entries # {}
                 THEN [NoPass EXCEPT !.pc = "leaderboard", !.field = Ids(entries)] ELSE NoPass)
    /\ UNCHANGED <<pool, board, faults>>

(* score_single_pool: a rescore asks for no status.                         *)
Rescore(s) ==
    /\ scorer[s].pc = "idle" /\ Fault
    /\ entries # {}
    /\ ToStep(s, [NoPass EXCEPT !.pc = "leaderboard", !.field = Ids(entries)])
    /\ UNCHANGED <<pool, board>>

LoadLeaderboard(s) ==
    /\ scorer[s].pc = "leaderboard"
    /\ ToStep(s, IF round = 0 THEN NoPass ELSE [scorer[s] EXCEPT !.pc = "write", !.round = round])
    /\ UNCHANGED <<pool, board, faults>>

Written(s) == [i \in DOMAIN board \cup scorer[s].field |->
                 IF i \in scorer[s].field
                 THEN [round |-> scorer[s].round, field |-> scorer[s].field] ELSE board[i]]

(* (Mutant of UpsertScores) No foreign key.                                 *)
UpsertScoresOrphans(s) ==
    /\ scorer[s].pc = "write"
    /\ board' = Written(s)
    /\ ToStep(s, NoPass)
    /\ UNCHANGED <<pool, faults>>

(* _upsert_entry_score, _upsert_score_players for all entries, and commit.  *)
(* The key of an entry deleted meanwhile is refused and all is rolled back. *)
UpsertScores(s) ==
    /\ scorer[s].pc = "write"
    /\ board' = IF scorer[s].field \subseteq Ids(entries) THEN Written(s) ELSE board
    /\ ToStep(s, NoPass)
    /\ UNCHANGED <<pool, faults>>

(* A pass fails, in a deadlock of two passes for instance, or its worker is *)
(* lost: what it did not commit is undone.                                  *)
PassLost(s) ==
    /\ scorer[s].pc # "idle" /\ Fault
    /\ ToStep(s, NoPass)
    /\ UNCHANGED <<pool, board>>

SyncLeaderboard ==
    /\ round < MaxRounds
    /\ round' = round + 1
    /\ UNCHANGED <<clock, pool, entries, nextId, board, request, edit, scorer, faults>>

Elapse ==
    /\ clock < MaxClock
    /\ clock' = clock + 1
    /\ UNCHANGED <<pool, entries, nextId, board, round, request, edit, scorer, faults>>
-----------------------------------------------------------------------------
RequestStep(r) ==
    \/ \E email \in Emails : Submit(r, email)
    \/ Upload(r)
    \/ CreateEntry(r) \/ RefuseEntry(r) \/ CommitEntries(r) \/ AbortEntries(r)
AdminStep(a) == Decide(a) \/ Apply(a)
Activation(s) == Tick(s) \/ AutoLock(s) \/ LookActivate(s) \/ AutoActivate(s) \/ LoadPool(s)
Scoring(s) == LoadLeaderboard(s) \/ UpsertScores(s)

Next ==
    \/ \E r \in Requests : RequestStep(r)
    \/ \E a \in Admins : AdminStep(a)
    \/ \E s \in Scorers : Activation(s)
    \/ \E s \in Rescorers : Rescore(s)
    \/ \E s \in Passes : Scoring(s) \/ PassLost(s)
    \/ DeleteEntry \/ UpdatePool \/ DeletePool \/ SyncLeaderboard \/ Elapse

Spec == Init /\ [][Next]_vars

(* Celery's schedule starts a pass every five minutes, and a pass ends.     *)
FairSpec ==
    /\ Spec
    /\ \A s \in Scorers : WF_vars(Activation(s) \/ Scoring(s))
    /\ \A s \in Rescorers : WF_vars(Scoring(s))
-----------------------------------------------------------------------------
(* Requests that overlap may exceed the limit of an e-mail together, since  *)
(* the count comes before the insert and nothing keeps them apart; those    *)
(* that come one after the other (by one of Requests) never do, whatever    *)
(* the others insert: what one adds under a limit of n is at most the n'th  *)
(* of its e-mail.  An upload to a pool without a limit has none, and the    *)
(* limit of a pool may change; what was added stays.                        *)
UpTo(e, rows) == {f \in rows : f.email = e.email /\ f.by = e.by /\ f.id <= e.id}
InLimit(rows) == \A e \in rows : e.limit # None => Cardinality(UpTo(e, rows)) <= e.limit
EntriesPerEmailBounded == InLimit(entries)

(* Nobody decides to take a pool out of "final": it leaves that status only *)
(* by the update of an administrator or of a pass that read an earlier one. *)
FinalStays ==
    [][pool.status = "final" /\ pool'.status # "final" =>
         \/ pool'.status = "deleted"
         \/ \E a \in Admins : edit[a].saw \notin {None, "final"} /\ edit'[a] = NoEdit
         \/ \E s \in Scorers : scorer[s].saw \in PreLive /\ scorer[s].pc \in {"lock", "activate"}
      ]_vars

(* A pool whose start has passed goes live whatever status it was left in,  *)
(* also if an administrator's update undoes an activation.                  *)
Due == pool.status \in PreLive /\ Passed(pool.starts, clock)
ScoringStarts == Due ~> ~Due

(* Once entries and the leaderboard of a live pool rest, every score is     *)
(* that of the last leaderboard, ranked among all entries, although passes  *)
(* overlap and an older one may write last.                                 *)
Scored == pool.status = "live" /\ pool.scoring /\ entries # {} /\ round > 0
Current == board = [i \in Ids(entries) |-> [round |-> round, field |-> Ids(entries)]]
BoardCatchesUp == <>[]Scored => <>[]Current
=============================================================================

-------------------------- MODULE RealtimeListener --------------------------
(* How database changes become realtime events in one API process:          *)
(* api/app/realtime/listener.py, with the first-subscriber catch-up of      *)
(* poller.py and the writers whose transactions call pg_notify.             *)
(*                                                                          *)
(* Postgres delivers the notifications of a committed transaction to every  *)
(* connection that listens at that moment, in commit order.  Each one       *)
(* starts a task of its own, and tasks interleave at their awaits: the      *)
(* query (its snapshot is taken when Postgres runs it), the answer coming   *)
(* back, and each publish().  The plays of a game are numbered by one       *)
(* sequence when they are inserted, which is not when they are committed.   *)
EXTENDS Naturals, Sequences, FiniteSets

CONSTANTS
    Games,
    Writes,          \* kinds of writes in this instance
    Statuses,        \* game statuses
    None,            \* no game
    PbpBatchMax,     \* _PBP_BATCH_MAX
    CacheMax,        \* _PBP_MAX_GAMES and the size of the status cache
    Incidents,       \* what may go wrong in this instance
    MaxWrites,       \* bound: transactions
    MaxSubscriptions \* bound: subscriptions

WriteKinds == {"score", "plays", "odds", "flow"}
IncidentKinds == {"listen_lost", "query_error", "publish_error", "overlapping_writes"}

ASSUME ListenerAssumption ==
    /\ IsFiniteSet(Games)
    /\ Writes \subseteq WriteKinds
    /\ None \notin Games \cup Statuses
    /\ Statuses # {}
    /\ PbpBatchMax \in Nat \ {0}
    /\ CacheMax \in Nat \ {0}
    /\ Incidents \subseteq IncidentKinds
    /\ MaxWrites \in Nat
    /\ MaxSubscriptions \in Nat

Summary(g) == [kind |-> "summary", game |-> g]
Pbp(g) == [kind |-> "pbp", game |-> g]
List == [kind |-> "list", game |-> None]
Odds == [kind |-> "odds", game |-> None]
Channels == {Summary(g) : g \in Games} \cup {Pbp(g) : g \in Games} \cup {List, Odds}

VARIABLES
    \* Postgres
    row,         \* [Games -> [version, status]]: sports_games
    plays,       \* [Games -> SUBSET Nat]: ids of the committed sports_game_plays
    open,        \* inserted and not yet committed plays
    writes,      \* transactions so far; numbers rows and plays
    \* the listener's connection
    listening,   \* the LISTEN connection is up
    inbox,       \* notifications on their way
    missed,      \* history: games of which a notification was lost
                 \* or a task failed
    \* the process
    subs,        \* channels with a subscriber
    subscribed,  \* subscriptions so far
    since,       \* history: events of the channel, of play-by-play the
                 \* transactions, from before the running subscription
    owed,        \* history: per channel, the version of each row at the
                 \* last notification or when the subscription started
    cursor,      \* _pbp_cursor (0: no entry)
    cursorOrder, \* its games, the one set longest ago first
    statusCache, \* _game_status_cache (None: no entry)
    statusOrder, \* its games, likewise
    tasks,       \* running handlers and catch-ups
    published,   \* [Channels -> Seq(Event)]: what this process published
    failed       \* history: plays whose publish() failed

dbVars == <<row, plays, open, writes>>
connectionVars == <<listening, inbox, missed>>
subVars == <<subs, subscribed, since, owed>>
cursorVars == <<cursor, cursorOrder>>
statusVars == <<statusCache, statusOrder>>
cacheVars == <<cursorVars, statusVars>>
vars == <<dbVars, connectionVars, subVars, cacheVars, tasks, published, failed>>

Row == [version : Nat, status : Statuses]
Notification == [kind : WriteKinds \ {"odds"}, game : Games] \cup [kind : {"odds"}, game : {None}]
Event == [game : Games \cup {None}, version : Nat, plays : SUBSET Nat,
          type : {"patch", "phase_change", "pbp_append", "fairbet_patch",
                  "flow_published", "game_patch"}]

(* What a task is about, where it is suspended and what it holds there.     *)
Task == [id : Nat, kind : WriteKinds \cup {"catchup"}, channel : Channels,
         stage : {"query", "answer", "publish"}, summary : BOOLEAN, list : BOOLEAN,
         after : Nat, last : Nat, batch : SUBSET Nat, rows : [Games -> Row],
         events : Seq([channel : Channels, event : Event])]

(* _LRUDict: `set` moves the key to the end and evicts the oldest, `get`    *)
(* does not count as a use.                                                 *)
Evicted(order, g) ==
    IF Len(order) >= CacheMax /\ \A i \in 1 .. Len(order) : order[i] # g
    THEN {Head(order)} ELSE {}

OrderAfterSet(order, g) ==
    IF \E k \in 1 .. Len(order) : order[k] = g
    THEN LET k == CHOOSE n \in 1 .. Len(order) : order[n] = g
         IN  Append(SubSeq(order, 1, k - 1) \o SubSeq(order, k + 1, Len(order)), g)
    ELSE Append(IF Len(order) >= CacheMax THEN Tail(order) ELSE order, g)

CacheAfterSet(cache, order, g, value, absent) ==
    [h \in Games |-> IF h = g THEN value
                     ELSE IF h \in Evicted(order, g) THEN absent ELSE cache[h]]

NothingOwed == [g \in Games |-> 0]

TypeOK ==
    /\ row \in [Games -> Row]
    /\ plays \in [Games -> SUBSET Nat]
    /\ open \subseteq [game : Games, id : Nat]
    /\ writes \in Nat
    /\ listening \in BOOLEAN
    /\ inbox \in Seq(Notification)
    /\ missed \subseteq Games
    /\ subs \subseteq Channels
    /\ subscribed \in Nat
    /\ since \in [Channels -> Nat]
    /\ owed \in [Channels -> [Games -> Nat]]
    /\ cursor \in [Games -> Nat]
    /\ cursorOrder \in Seq(Games)
    /\ statusCache \in [Games -> Statuses \cup {None}]
    /\ statusOrder \in Seq(Games)
    /\ tasks \subseteq Task
    /\ published \in [Channels -> Seq(Event)]
    /\ failed \subseteq Nat

Init ==
    /\ \E s \in Statuses : row = [g \in Games |-> [version |-> 0, status |-> s]]
    /\ plays = [g \in Games |-> {}]
    /\ open = {}
    /\ writes = 0
    /\ listening = FALSE
    /\ inbox = <<>>
    /\ missed = {}
    /\ subs = {}
    /\ subscribed = 0
    /\ since = [ch \in Channels |-> 0]
    /\ owed = [ch \in Channels |-> NothingOwed]
    /\ cursor = [g \in Games |-> 0]
    /\ cursorOrder = <<>>
    /\ statusCache = [g \in Games |-> None]
    /\ statusOrder = <<>>
    /\ tasks = {}
    /\ published = [ch \in Channels |-> <<>>]
    /\ failed = {}

-----------------------------------------------------------------------------
(* The writers.  pg_notify is part of the transaction: it is delivered when *)
(* the transaction commits, to whoever listens then.                        *)
Notify(kind, g) ==
    /\ inbox' = IF listening THEN Append(inbox, [kind |-> kind, game |-> g]) ELSE inbox
    /\ missed' = IF listening THEN missed ELSE missed \cup ({g} \cap Games)
    /\ UNCHANGED listening

(* The scores or the status of a game change. *)
Change(g, s) ==
    /\ "score" \in Writes
    /\ writes < MaxWrites
    /\ writes' = writes + 1
    /\ row' = [row EXCEPT ![g] = [version |-> @.version + 1, status |-> s]]

(* The feeds and odds of persistence/games.py notify.                       *)
UpdateGame(g, s) ==
    /\ Change(g, s)
    /\ Notify("score", g)
    /\ owed' = [ch \in Channels |->
          IF ch \in subs THEN [owed[ch] EXCEPT ![g] = row[g].version + 1] ELSE owed[ch]]
    /\ UNCHANGED <<plays, open, subs, subscribed, since, cacheVars, tasks, published, failed>>

(* Boxscores, the updater, the sweep and the flow trigger do not.           *)
UpdateUnnotified(g, s) ==
    /\ Change(g, s)
    /\ UNCHANGED <<plays, open, connectionVars, subVars, cacheVars, tasks, published, failed>>

(* upsert_plays inserts a play, raises the scores of the game if the plays  *)
(* are ahead, and notifies of the plays; then the transaction commits.  Two *)
(* transactions for one game overlap when two workers ingest it at a time.  *)
InsertPlay(g) ==
    /\ "plays" \in Writes
    /\ writes < MaxWrites
    /\ (\A t \in open : t.game # g) \/ "overlapping_writes" \in Incidents
    /\ writes' = writes + 1
    /\ open' = open \cup {[game |-> g, id |-> writes + 1]}
    /\ UNCHANGED <<row, plays, connectionVars, subVars, cacheVars, tasks, published, failed>>

CommitPlay(t) ==
    /\ t \in open
    /\ open' = open \ {t}
    /\ plays' = [plays EXCEPT ![t.game] = @ \cup {t.id}]
    /\ Notify("plays", t.game)
    /\ row' \in {row, [row EXCEPT ![t.game].version = @ + 1]}
    /\ UNCHANGED <<writes, subVars, cacheVars, tasks, published, failed>>

(* Odds are stored, a flow is published (finalize_moments). *)
OtherWrite(kind, g) ==
    /\ kind \in Writes \cap {"odds", "flow"}
    /\ writes < MaxWrites
    /\ writes' = writes + 1
    /\ Notify(kind, g)
    /\ UNCHANGED <<row, plays, open, subVars, cacheVars, tasks, published, failed>>

-----------------------------------------------------------------------------
(* _listen_loop: connect and LISTEN; the connection may break, and what is  *)
(* sent until the loop has noticed and connected again is lost.             *)
Listen ==
    /\ ~listening
    /\ listening' = TRUE
    /\ UNCHANGED <<dbVars, inbox, missed, subVars, cacheVars, tasks, published, failed>>

ListenLost ==
    /\ "listen_lost" \in Incidents
    /\ listening
    /\ listening' = FALSE
    /\ inbox' = <<>>
    /\ missed' = missed \cup ({inbox[i].game : i \in 1 .. Len(inbox)} \cap Games)
    /\ UNCHANGED <<dbVars, subVars, cacheVars, tasks, published, failed>>

-----------------------------------------------------------------------------
(* Tasks. *)

NoRows == [g \in Games |-> [version |-> 0, status |-> CHOOSE s \in Statuses : TRUE]]

NewTask(kind, ch) ==
    [id |-> 0, kind |-> kind, channel |-> ch, stage |-> "query",
     summary |-> FALSE, list |-> FALSE, after |-> 0, last |-> 0, batch |-> {},
     rows |-> NoRows, events |-> <<>>]

(* The identity of a task is the least number that is not in use. *)
Start(t) ==
    \E n \in 1 .. MaxWrites + MaxSubscriptions :
        /\ \A u \in tasks : u.id # n
        /\ \A m \in 1 .. n - 1 : \E u \in tasks : u.id = m
        /\ tasks' = tasks \cup {[t EXCEPT !.id = n]}

Become(t, u) == tasks' = (tasks \ {t}) \cup {u}
End(t) == tasks' = tasks \ {t}

(* A task with events publishes them one after the other; with none it ends.*)
Publishing(t, events) ==
    IF events = <<>> THEN End(t)
    ELSE Become(t, [t EXCEPT !.stage = "publish", !.events = events, !.rows = NoRows,
                              !.summary = FALSE, !.list = FALSE, !.after = 0, !.last = 0])

EventOf(ch, g, type, version, ids) ==
    [channel |-> ch,
     event |-> [game |-> g, type |-> type, version |-> version, plays |-> ids]]

(* Each handler until its first await.  Nobody subscribed: nothing is done. *)
StartScore(g) ==
    IF Summary(g) \in subs \/ List \in subs
    THEN Start([NewTask("score", Summary(g)) EXCEPT !.summary = Summary(g) \in subs,
                                                   !.list = List \in subs])
    ELSE UNCHANGED tasks

(* Mutant of StartPlays: one task per game at a time. *)
StartPlaysOnce(g) ==
    IF Pbp(g) \in subs /\ \A t \in tasks : t.channel # Pbp(g)
    THEN Start([NewTask("plays", Pbp(g)) EXCEPT !.after = cursor[g]])
    ELSE UNCHANGED tasks

StartPlays(g) ==
    IF Pbp(g) \in subs
    THEN Start([NewTask("plays", Pbp(g)) EXCEPT !.after = cursor[g]])
    ELSE UNCHANGED tasks

StartPublish(kind, ch, type) ==
    IF ch \in subs
    THEN Start([NewTask(kind, ch) EXCEPT !.stage = "publish",
                                         !.events = <<EventOf(ch, ch.game, type, 0, {})>>])
    ELSE UNCHANGED tasks

(* _on_notify: asyncio.ensure_future(self._dispatch(channel, data)). *)
OnNotify ==
    /\ inbox # <<>>
    /\ inbox' = Tail(inbox)
    /\ LET n == Head(inbox)
       IN  \/ n.kind = "score" /\ StartScore(n.game)
           \/ n.kind = "plays" /\ StartPlays(n.game)
           \/ n.kind = "odds" /\ StartPublish("odds", Odds, "fairbet_patch")
           \/ n.kind = "flow" /\ StartPublish("flow", Summary(n.game), "flow_published")
    /\ UNCHANGED <<dbVars, listening, missed, subVars, cacheVars, published, failed>>

(* Mutant of Subscribe: no catch-up for the list. *)
SubscribeNoList(ch) ==
    /\ ch \notin subs
    /\ subscribed < MaxSubscriptions
    /\ subscribed' = subscribed + 1
    /\ subs' = subs \cup {ch}
    /\ since' = [since EXCEPT ![ch] =
          IF ch.kind = "pbp" THEN writes ELSE Len(published[ch])]
    /\ owed' = [owed EXCEPT ![ch] = [g \in Games |-> row[g].version]]
    /\ IF ch.kind = "summary" THEN Start(NewTask("catchup", ch)) ELSE UNCHANGED tasks
    /\ UNCHANGED <<dbVars, connectionVars, cacheVars, published, failed>>

(* The first subscriber of a channel schedules a catch-up; play-by-play has *)
(* none, and that of the odds needs no query.                               *)
Subscribe(ch) ==
    /\ ch \notin subs
    /\ subscribed < MaxSubscriptions
    /\ subscribed' = subscribed + 1
    /\ subs' = subs \cup {ch}
    /\ since' = [since EXCEPT ![ch] =
          IF ch.kind = "pbp" THEN writes ELSE Len(published[ch])]
    /\ owed' = [owed EXCEPT ![ch] = [g \in Games |-> row[g].version]]
    /\ \/ ch.kind \in {"summary", "list"} /\ Start(NewTask("catchup", ch))
       \/ ch.kind = "odds"
          /\ Start([NewTask("catchup", ch) EXCEPT
                       !.stage = "publish",
                       !.events = <<EventOf(ch, None, "fairbet_patch", 0, {})>>])
       \/ ch.kind = "pbp" /\ UNCHANGED tasks
    /\ UNCHANGED <<dbVars, connectionVars, cacheVars, published, failed>>

Unsubscribe(ch) ==
    /\ ch \in subs
    /\ subs' = subs \ {ch}
    /\ since' = [since EXCEPT ![ch] = 0]
    /\ owed' = [owed EXCEPT ![ch] = NothingOwed]
    /\ UNCHANGED <<dbVars, connectionVars, subscribed, cacheVars, tasks, published, failed>>

(* Postgres runs a task's query: for play-by-play, the plays after the      *)
(* cursor, in the order of their ids and at most _PBP_BATCH_MAX of them.    *)
Query(t) ==
    /\ t \in tasks
    /\ t.stage = "query"
    /\ \/ /\ t.kind = "plays"
          /\ LET unseen == {n \in plays[t.channel.game] : n > t.after}
             IN  \E last \in unseen \cup {t.after} :
                    LET batch == {n \in unseen : n <= last}
                    IN  /\ Cardinality(batch) <= PbpBatchMax
                        /\ batch = unseen \/ Cardinality(batch) = PbpBatchMax
                        /\ Become(t, [t EXCEPT !.stage = "answer", !.last = last,
                                               !.batch = batch])
       \/ /\ t.kind \in {"score", "catchup"}
          /\ Become(t, [t EXCEPT !.stage = "answer", !.rows = row])
    /\ UNCHANGED <<dbVars, connectionVars, subVars, cacheVars, published, failed>>

TaskFails(t) ==
    /\ End(t)
    /\ missed' = missed \cup (IF t.channel \in {List, Odds} THEN Games ELSE {t.channel.game})

QueryError(t) ==
    /\ "query_error" \in Incidents
    /\ t \in tasks
    /\ t.stage = "query"
    /\ TaskFails(t)
    /\ UNCHANGED <<dbVars, listening, inbox, subVars, cacheVars, published, failed>>

(* A score task has its row: a status other than the cached one makes it a  *)
(* phase change.  The list channel is checked again before it is published. *)
ListChecked(events) ==
    IF events # <<>> /\ Head(events).channel = List /\ List \notin subs
    THEN <<>> ELSE events

ResumeScore(t) ==
    LET g == t.channel.game
        got == t.rows[g]
        type == IF statusCache[g] \notin {None, got.status} THEN "phase_change" ELSE "patch"
    IN  /\ t \in tasks
        /\ t.kind = "score" /\ t.stage = "answer"
        /\ statusCache' = CacheAfterSet(statusCache, statusOrder, g, got.status, None)
        /\ statusOrder' = OrderAfterSet(statusOrder, g)
        /\ Publishing(t, ListChecked(
              (IF t.summary THEN <<EventOf(Summary(g), g, type, got.version, {})>> ELSE <<>>)
              \o (IF t.list THEN <<EventOf(List, g, type, got.version, {})>> ELSE <<>>)))
        /\ UNCHANGED <<dbVars, connectionVars, subVars, cursorVars, published, failed>>

(* Mutant of ResumePlays: the cursor follows the table. *)
ResumePlaysToEnd(t) ==
    LET g == t.channel.game
        Last == CHOOSE n \in plays[g] : \A m \in plays[g] : m <= n
    IN  /\ t \in tasks
        /\ t.kind = "plays" /\ t.stage = "answer"
        /\ IF t.batch = {}
           THEN End(t) /\ UNCHANGED cursorVars
           ELSE /\ cursor' = CacheAfterSet(cursor, cursorOrder, g, Last, 0)
                /\ cursorOrder' = OrderAfterSet(cursorOrder, g)
                /\ Publishing(t, <<EventOf(Pbp(g), g, "pbp_append", 0, t.batch)>>)
        /\ UNCHANGED <<dbVars, connectionVars, subVars, statusVars, published, failed>>

(* A play-by-play task has its batch: the cursor moves before the event is  *)
(* published, to the last play of the batch whatever it says by now.        *)
ResumePlays(t) ==
    LET g == t.channel.game
    IN  /\ t \in tasks
        /\ t.kind = "plays" /\ t.stage = "answer"
        /\ IF t.batch = {}
           THEN End(t) /\ UNCHANGED cursorVars
           ELSE /\ cursor' = CacheAfterSet(cursor, cursorOrder, g, t.last, 0)
                /\ cursorOrder' = OrderAfterSet(cursorOrder, g)
                /\ Publishing(t, <<EventOf(Pbp(g), g, "pbp_append", 0, t.batch)>>)
        /\ UNCHANGED <<dbVars, connectionVars, subVars, statusVars, published, failed>>

(* A catch-up has its rows, and publishes each. *)
ResumeCatchUp(t) ==
    /\ t \in tasks
    /\ t.kind = "catchup" /\ t.stage = "answer"
    /\ \E order \in {o \in [1 .. Cardinality(Games) -> Games] :
                        \A i, j \in DOMAIN o : o[i] = o[j] => i = j} :
          Publishing(t, IF t.channel.kind = "summary"
             THEN <<EventOf(t.channel, t.channel.game, "game_patch", t.rows[t.channel.game].version, {})>>
             ELSE [i \in DOMAIN order |->
                      EventOf(List, order[i], "game_patch", t.rows[order[i]].version, {})])
    /\ UNCHANGED <<dbVars, connectionVars, subVars, cacheVars, published, failed>>

(* publish() has appended the event to the stream; the task goes on. *)
Publish(t) ==
    /\ t \in tasks
    /\ t.stage = "publish"
    /\ published' = [published EXCEPT ![Head(t.events).channel] =
          Append(@, Head(t.events).event)]
    /\ Publishing(t, IF t.kind = "score" THEN ListChecked(Tail(t.events))
                                         ELSE Tail(t.events))
    /\ UNCHANGED <<dbVars, connectionVars, subVars, cacheVars, failed>>

(* publish() raises: _dispatch logs it and the task is over. *)
PublishError(t) ==
    /\ "publish_error" \in Incidents
    /\ t \in tasks
    /\ t.stage = "publish"
    /\ TaskFails(t)
    /\ failed' = failed \cup t.batch
    /\ UNCHANGED <<dbVars, listening, inbox, subVars, cacheVars, published>>

-----------------------------------------------------------------------------
Next ==
    \/ \E g \in Games : \/ InsertPlay(g)
                        \/ OtherWrite("flow", g)
                        \/ \E s \in Statuses : UpdateGame(g, s) \/ UpdateUnnotified(g, s)
    \/ \E t \in open : CommitPlay(t)
    \/ OtherWrite("odds", None)
    \/ Listen \/ ListenLost \/ OnNotify
    \/ \E ch \in Channels : Subscribe(ch) \/ Unsubscribe(ch)
    \/ \E t \in tasks :
          \/ Query(t) \/ QueryError(t)
          \/ ResumeScore(t) \/ ResumePlays(t) \/ ResumeCatchUp(t)
          \/ Publish(t) \/ PublishError(t)

Spec == Init /\ [][Next]_vars

-----------------------------------------------------------------------------
PlaysIn(g) ==
    UNION {published[Pbp(g)][i].plays : i \in 1 .. Len(published[Pbp(g)])}
PlaysHeld(g) ==
    UNION {t.batch : t \in {u \in tasks : u.stage = "publish" /\ u.channel = Pbp(g)}}

Covered(g, n) == n \in PlaysIn(g) \cup PlaysHeld(g) \cup failed

(* The cursor never passes a play: whatever tasks for a game run at a time, *)
(* and though the cursor may go back, a play it has passed is published, or *)
(* will be by a task that holds it, or was lost by a failed publish().      *)
NoPlaySkipped ==
    \A g \in Games : \A n \in plays[g] : n <= cursor[g] => Covered(g, n)

(* Why it is kept when transactions for a game do not overlap: its plays    *)
(* are committed in the order of their numbers, so that a query misses none *)
(* below its last one,                                                      *)
CommittedInOrder ==
    /\ \A g \in Games : plays[g] \subseteq 1 .. writes
    /\ \A t \in open : t.id \in 1 .. writes /\ \A n \in plays[t.game] : n < t.id
    /\ \A t, u \in open : t.game = u.game => t = u

(* and what was covered when a task read the cursor is covered when the     *)
(* task moves it: the task itself holds the rest.                           *)
TaskCovers(t) ==
    LET g == t.channel.game
    IN  /\ t.stage \in {"query", "answer"} =>
              /\ t.after \in plays[g] \cup {0}
              /\ \A n \in plays[g] : n <= t.after => Covered(g, n)
        /\ t.stage = "answer" =>
              /\ t.last \in plays[g] \cup {0}
              /\ \A n \in plays[g] : t.after < n /\ n <= t.last => n \in t.batch
        /\ t.stage = "publish" =>
              t.events = <<EventOf(t.channel, g, "pbp_append", 0, t.batch)>>

TasksCover == \A t \in tasks : t.kind = "plays" => TaskCovers(t)

CursorInTable == \A g \in Games : cursor[g] \in plays[g] \cup {0}

(* What a task is about follows from its kind. *)
TaskShape ==
    \A t \in tasks :
        /\ t.channel.kind = "pbp" <=> t.kind = "plays"
        /\ t.kind = "score" => t.channel.kind = "summary"
        /\ t.stage = "publish" => t.events # <<>>

(* The inductive invariant of the listener. *)
ListenerInv ==
    /\ TypeOK
    /\ TaskShape
    /\ CommittedInOrder
    /\ CursorInTable
    /\ TasksCover
    /\ NoPlaySkipped

(* What subscribers have been sent once everything that was notified has   *)
(* been dealt with.                                                         *)
Quiet == inbox = <<>> /\ tasks = {}

(* A play inserted while somebody was subscribed has been published, when   *)
(* it is among the first _PBP_BATCH_MAX of its game: no task is left whose  *)
(* batch would have had it.                                                 *)
PlaysAnnounced ==
    Quiet => \A g \in Games \ missed : Pbp(g) \in subs =>
        \A n \in plays[g] :
            n > since[Pbp(g)] /\ Cardinality({m \in plays[g] : m <= n}) <= PbpBatchMax
            => n \in PlaysIn(g)

(* Whoever is subscribed to a game's summary or to its list has been sent   *)
(* its row as of the last notification and of the start of the subscription *)
(* or a newer one, whenever he subscribed: an update that found nobody      *)
(* subscribed, and one that was not notified, is covered by the catch-up of *)
(* the first subscriber.                                                    *)
Shows(ch, g, v) ==
    \E i \in since[ch] + 1 .. Len(published[ch]) :
        LET e == published[ch][i]
        IN  e.game = g /\ e.type # "flow_published" /\ e.version >= v

NotifiedRowServed ==
    Quiet => \A g \in Games \ missed : \A ch \in subs \cap {Summary(g), List} :
        Shows(ch, g, owed[ch][g])
=============================================================================

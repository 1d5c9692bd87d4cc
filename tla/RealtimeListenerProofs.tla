----------------------- MODULE RealtimeListenerProofs -----------------------
(* Theorems about RealtimeListener for every number of games, writes and    *)
(* subscriptions, every batch and cache size, and whatever fails.           *)
EXTENDS RealtimeListener, SequenceTheorems, FiniteSetTheorems, TLAPS

Publication == [channel : Channels, event : Event]

(* Channels and the games in their names. *)
LEMMA ChannelType ==
    /\ \A g \in Games : Summary(g) \in Channels /\ Pbp(g) \in Channels
    /\ List \in Channels /\ Odds \in Channels
    /\ \A ch \in Channels :
          /\ ch.kind \in {"summary", "pbp", "list", "odds"}
          /\ ch.game \in Games \cup {None}
          /\ ch.kind \in {"summary", "pbp"} => ch.game \in Games
          /\ ch \notin {List, Odds} => ch.game \in Games
          /\ ch.kind = "pbp" => ch = Pbp(ch.game)
    /\ \A g : Summary(g).kind = "summary" /\ Pbp(g).kind = "pbp"
    /\ \A g : Summary(g).game = g /\ Pbp(g).game = g
    /\ List.kind = "list" /\ Odds.kind = "odds"
    /\ List.game = None /\ Odds.game = None
<1>1. ASSUME NEW ch \in Channels
      PROVE  \/ \E g \in Games : ch = Summary(g)
             \/ \E g \in Games : ch = Pbp(g)
             \/ ch = List
             \/ ch = Odds
    BY DEF Channels
<1>2. /\ \A g : Summary(g).kind = "summary" /\ Pbp(g).kind = "pbp"
      /\ \A g : Summary(g).game = g /\ Pbp(g).game = g
      /\ List.kind = "list" /\ Odds.kind = "odds"
      /\ List.game = None /\ Odds.game = None
    BY DEF Summary, Pbp, List, Odds
<1>3. /\ \A g \in Games : Summary(g) \in Channels /\ Pbp(g) \in Channels
      /\ List \in Channels /\ Odds \in Channels
    BY DEF Channels
<1>4. ASSUME NEW ch \in Channels
      PROVE  /\ ch.kind \in {"summary", "pbp", "list", "odds"}
             /\ ch.game \in Games \cup {None}
             /\ ch.kind \in {"summary", "pbp"} => ch.game \in Games
             /\ ch \notin {List, Odds} => ch.game \in Games
             /\ ch.kind = "pbp" => ch = Pbp(ch.game)
    BY <1>1, <1>2
<1> QED
    BY <1>2, <1>3, <1>4

LEMMA NoRowsType == NoRows \in [Games -> Row]
<1>1. (CHOOSE s \in Statuses : TRUE) \in Statuses
    BY ListenerAssumption
<1> QED
    BY <1>1 DEF NoRows, Row

LEMMA NewTaskType ==
    ASSUME NEW kind \in WriteKinds \cup {"catchup"}, NEW ch \in Channels
    PROVE  /\ NewTask(kind, ch) \in Task
           /\ NewTask(kind, ch).kind = kind
           /\ NewTask(kind, ch).channel = ch
           /\ NewTask(kind, ch).stage = "query"
BY NoRowsType DEF NewTask, Task

(* Tasks differ from a new one in what the handler found so far.            *)
LEMMA TaskExcept ==
    ASSUME NEW t \in Task
    PROVE  /\ \A a, b \in BOOLEAN : [t EXCEPT !.summary = a, !.list = b] \in Task
           /\ \A n \in Nat : [t EXCEPT !.after = n] \in Task
           /\ \A e \in Seq(Publication) : [t EXCEPT !.stage = "publish", !.events = e] \in Task
<1>1. ASSUME NEW a \in BOOLEAN, NEW b \in BOOLEAN
      PROVE  [t EXCEPT !.summary = a, !.list = b] \in Task
    BY DEF Task
<1>2. ASSUME NEW n \in Nat PROVE [t EXCEPT !.after = n] \in Task
    BY DEF Task
<1>3. ASSUME NEW e \in Seq(Publication)
      PROVE  [t EXCEPT !.stage = "publish", !.events = e] \in Task
    BY DEF Task, Publication
<1> QED
    BY <1>1, <1>2, <1>3

LEMMA EventOfType ==
    ASSUME NEW ch \in Channels, NEW g \in Games \cup {None},
           NEW type \in {"patch", "phase_change", "pbp_append", "fairbet_patch",
                         "flow_published", "game_patch"},
           NEW version \in Nat, NEW ids \in SUBSET Nat
    PROVE  /\ EventOf(ch, g, type, version, ids) \in Publication
           /\ EventOf(ch, g, type, version, ids).channel = ch
           /\ EventOf(ch, g, type, version, ids).event.plays = ids
BY DEF EventOf, Publication, Event

(* A task that is started is one of the given task's, but for its identity. *)
LEMMA StartAdds ==
    ASSUME NEW t \in Task, Start(t)
    PROVE  \E n \in Nat : /\ [t EXCEPT !.id = n] \in Task
                          /\ tasks' = tasks \cup {[t EXCEPT !.id = n]}
<1>1. MaxWrites \in Nat /\ MaxSubscriptions \in Nat
    BY ListenerAssumption
<1>2. PICK n \in 1 .. MaxWrites + MaxSubscriptions :
        tasks' = tasks \cup {[t EXCEPT !.id = n]}
    BY DEF Start
<1>3. n \in Nat
    BY <1>1
<1>4. [t EXCEPT !.id = n] \in Task
    BY <1>3 DEF Task
<1> QED
    BY <1>2, <1>3, <1>4

(* A task that publishes is over, or holds the events it is to publish.     *)
Holding(t, events) ==
    [t EXCEPT !.stage = "publish", !.events = events, !.rows = NoRows,
              !.summary = FALSE, !.list = FALSE, !.after = 0, !.last = 0]

LEMMA PublishingCases ==
    ASSUME NEW t \in Task, NEW events \in Seq(Publication), Publishing(t, events)
    PROVE  \/ events = <<>> /\ tasks' = tasks \ {t}
           \/ /\ events # <<>>
              /\ Holding(t, events) \in Task
              /\ tasks' = (tasks \ {t}) \cup {Holding(t, events)}
BY NoRowsType DEF Publishing, End, Become, Holding, Task, Publication

LEMMA TypeInit == Init => TypeOK
<1> SUFFICES ASSUME Init PROVE TypeOK
    OBVIOUS
<1>1. row \in [Games -> Row]
    BY DEF Init, Row
<1>2. /\ plays \in [Games -> SUBSET Nat]
      /\ open \subseteq [game : Games, id : Nat]
      /\ missed \subseteq Games /\ subs \subseteq Channels
      /\ tasks \subseteq Task /\ failed \subseteq Nat
    BY DEF Init
<1>3. /\ writes \in Nat /\ listening \in BOOLEAN /\ subscribed \in Nat
      /\ since \in [Channels -> Nat] /\ owed \in [Channels -> [Games -> Nat]]
      /\ cursor \in [Games -> Nat]
      /\ statusCache \in [Games -> Statuses \cup {None}]
    BY DEF Init, NothingOwed
<1>4. /\ inbox \in Seq(Notification)
      /\ cursorOrder \in Seq(Games) /\ statusOrder \in Seq(Games)
      /\ published \in [Channels -> Seq(Event)]
    BY DEF Init
<1> QED
    BY <1>1, <1>2, <1>3, <1>4 DEF TypeOK

-----------------------------------------------------------------------------
(* Types. *)

LEMMA NotifyType ==
    ASSUME TypeOK, NEW kind \in WriteKinds, NEW g \in Games \cup {None},
           kind = "odds" <=> g = None, Notify(kind, g)
    PROVE  /\ inbox' \in Seq(Notification)
           /\ missed' \subseteq Games
           /\ listening' \in BOOLEAN
<1>1. [kind |-> kind, game |-> g] \in Notification
    BY DEF Notification
<1> QED
    BY <1>1 DEF Notify, TypeOK

LEMMA StartType ==
    ASSUME TypeOK, NEW t \in Task, Start(t)
    PROVE  tasks' \subseteq Task
BY StartAdds DEF TypeOK

LEMMA PublishingType ==
    ASSUME TypeOK, NEW t \in tasks, NEW events \in Seq(Publication), Publishing(t, events)
    PROVE  tasks' \subseteq Task
BY PublishingCases DEF TypeOK

LEMMA CacheType ==
    ASSUME NEW S, NEW cache \in [Games -> S], NEW order \in Seq(Games),
           NEW g \in Games, NEW value \in S, NEW absent \in S
    PROVE  /\ CacheAfterSet(cache, order, g, value, absent) \in [Games -> S]
           /\ OrderAfterSet(order, g) \in Seq(Games)
<1>1. CacheAfterSet(cache, order, g, value, absent) \in [Games -> S]
    BY DEF CacheAfterSet
<1>2. CASE \E k \in 1 .. Len(order) : order[k] = g
    <2> DEFINE k == CHOOSE n \in 1 .. Len(order) : order[n] = g
    <2>1. k \in 1 .. Len(order)
        BY <1>2
    <2> HIDE DEF k
    <2>2. k - 1 \in Int /\ k + 1 \in Int /\ Len(order) \in Int
        BY <2>1
    <2>3. \A i \in 1 .. k - 1 : order[i] \in Games
        BY <2>1
    <2>4. \A i \in k + 1 .. Len(order) : order[i] \in Games
        BY <2>1
    <2>5. SubSeq(order, 1, k - 1) \in Seq(Games)
        BY <2>2, <2>3, SubSeqProperties
    <2>6. SubSeq(order, k + 1, Len(order)) \in Seq(Games)
        BY <2>2, <2>4, SubSeqProperties
    <2>7. Append(SubSeq(order, 1, k - 1) \o SubSeq(order, k + 1, Len(order)), g) \in Seq(Games)
        BY <2>5, <2>6
    <2> QED
        BY <1>1, <1>2, <2>7 DEF OrderAfterSet, k
<1>3. CASE ~ \E k \in 1 .. Len(order) : order[k] = g
    <2>1. Len(order) >= CacheMax => order # <<>>
        BY ListenerAssumption
    <2>2. (IF Len(order) >= CacheMax THEN Tail(order) ELSE order) \in Seq(Games)
        BY <2>1
    <2> QED
        BY <1>1, <1>3, <2>2 DEF OrderAfterSet
<1> QED
    BY <1>2, <1>3

(* The row a score or catch-up task has read. *)
LEMMA TaskFields ==
    ASSUME TypeOK, NEW t \in tasks
    PROVE  /\ t \in Task
           /\ t.channel \in Channels
           /\ \A g \in Games : t.rows[g].version \in Nat /\ t.rows[g].status \in Statuses
           /\ t.batch \in SUBSET Nat
           /\ t.events \in Seq(Publication)
BY DEF TypeOK, Task, Row, Publication

LEMMA ListCheckedType ==
    ASSUME NEW events \in Seq(Publication)
    PROVE  ListChecked(events) \in Seq(Publication)
BY DEF ListChecked

(* The events of a score task and of a catch-up. *)
LEMMA ScoreEventsType ==
    ASSUME NEW g \in Games, NEW type \in {"patch", "phase_change"}, NEW version \in Nat,
           NEW summary \in BOOLEAN, NEW list \in BOOLEAN
    PROVE  ListChecked(
              (IF summary THEN <<EventOf(Summary(g), g, type, version, {})>> ELSE <<>>)
              \o (IF list THEN <<EventOf(List, g, type, version, {})>> ELSE <<>>))
           \in Seq(Publication)
<1>1. /\ EventOf(Summary(g), g, type, version, {}) \in Publication
      /\ EventOf(List, g, type, version, {}) \in Publication
    BY ChannelType, EventOfType
<1>2. /\ (IF summary THEN <<EventOf(Summary(g), g, type, version, {})>> ELSE <<>>) \in Seq(Publication)
      /\ (IF list THEN <<EventOf(List, g, type, version, {})>> ELSE <<>>) \in Seq(Publication)
    BY <1>1
<1>3. \A a, b \in Seq(Publication) : a \o b \in Seq(Publication)
    OBVIOUS
<1> QED
    BY <1>2, <1>3, ListCheckedType

LEMMA CatchUpEventsType ==
    ASSUME TypeOK, NEW t \in tasks, NEW order \in [1 .. Cardinality(Games) -> Games]
    PROVE  (IF t.channel.kind = "summary"
             THEN <<EventOf(t.channel, t.channel.game, "game_patch", t.rows[t.channel.game].version, {})>>
             ELSE [i \in DOMAIN order |->
                      EventOf(List, order[i], "game_patch", t.rows[order[i]].version, {})])
           \in Seq(Publication)
<1>1. Cardinality(Games) \in Nat
    BY ListenerAssumption, FS_CardinalityType
<1>2. ASSUME t.channel.kind = "summary"
      PROVE  EventOf(t.channel, t.channel.game, "game_patch", t.rows[t.channel.game].version, {})
             \in Publication
    <2>1. t.channel \in Channels /\ t.channel.game \in Games
        BY <1>2, TaskFields, ChannelType
    <2>2. t.rows[t.channel.game].version \in Nat
        BY <2>1, TaskFields
    <2> QED
        BY <2>1, <2>2, EventOfType
<1>3. ASSUME NEW i \in 1 .. Cardinality(Games)
      PROVE  EventOf(List, order[i], "game_patch", t.rows[order[i]].version, {}) \in Publication
    <2>1. order[i] \in Games
        OBVIOUS
    <2>2. t.rows[order[i]].version \in Nat
        BY <2>1, TaskFields
    <2> QED
        BY <2>1, <2>2, ChannelType, EventOfType
<1>4. [i \in DOMAIN order |-> EventOf(List, order[i], "game_patch", t.rows[order[i]].version, {})]
      \in [1 .. Cardinality(Games) -> Publication]
    BY <1>3
<1>5. [i \in DOMAIN order |-> EventOf(List, order[i], "game_patch", t.rows[order[i]].version, {})]
      \in Seq(Publication)
    BY <1>1, <1>4, SeqDef
<1> QED
    BY <1>2, <1>5

LEMMA ChangeType ==
    ASSUME TypeOK, NEW g \in Games, NEW s \in Statuses, Change(g, s)
    PROVE  /\ row' \in [Games -> Row]
           /\ writes' \in Nat
           /\ row'[g].version = row[g].version + 1
           /\ \A h \in Games : row[h].version <= row'[h].version
BY DEF TypeOK, Change, Row

LEMMA TypeStep == TypeOK /\ TaskShape /\ [Next]_vars => TypeOK'
<1> SUFFICES ASSUME TypeOK, TaskShape, [Next]_vars PROVE TypeOK'
    OBVIOUS
<1>1. ASSUME NEW g \in Games, NEW s \in Statuses, UpdateGame(g, s) PROVE TypeOK'
    <2>1. inbox' \in Seq(Notification) /\ missed' \subseteq Games /\ listening' \in BOOLEAN
        BY <1>1, NotifyType, ListenerAssumption DEF UpdateGame, WriteKinds
    <2>2. row' \in [Games -> Row] /\ writes' \in Nat
        BY <1>1, ChangeType DEF UpdateGame
    <2>3. owed' \in [Channels -> [Games -> Nat]]
        <3>1. row[g].version + 1 \in Nat
            BY DEF TypeOK, Row
        <3>2. \A ch \in Channels : [owed[ch] EXCEPT ![g] = row[g].version + 1] \in [Games -> Nat]
            BY <3>1 DEF TypeOK
        <3> QED
            BY <1>1, <3>2 DEF TypeOK, UpdateGame
    <2> QED
        BY <1>1, <2>1, <2>2, <2>3 DEF TypeOK, UpdateGame, cacheVars, cursorVars, statusVars
<1>1a. ASSUME NEW g \in Games, NEW s \in Statuses, UpdateUnnotified(g, s) PROVE TypeOK'
    <2>1. row' \in [Games -> Row] /\ writes' \in Nat
        BY <1>1a, ChangeType DEF UpdateUnnotified
    <2> QED
        BY <1>1a, <2>1 DEF TypeOK, UpdateUnnotified, connectionVars, subVars, cacheVars, cursorVars,
                           statusVars
<1>2. ASSUME NEW g \in Games, InsertPlay(g) PROVE TypeOK'
    BY <1>2 DEF TypeOK, InsertPlay, connectionVars, subVars, cacheVars, cursorVars, statusVars
<1>3. ASSUME NEW t \in open, CommitPlay(t) PROVE TypeOK'
    <2>0. t.game \in Games /\ t.id \in Nat
        BY DEF TypeOK
    <2>1. inbox' \in Seq(Notification) /\ missed' \subseteq Games /\ listening' \in BOOLEAN
        BY <1>3, <2>0, NotifyType, ListenerAssumption DEF CommitPlay, WriteKinds
    <2>2. plays' \in [Games -> SUBSET Nat]
        BY <1>3, <2>0 DEF TypeOK, CommitPlay
    <2>3. row' \in [Games -> Row]
        <3>1. row[t.game].version + 1 \in Nat /\ row[t.game] \in Row
            BY <2>0 DEF TypeOK, Row
        <3>2. [row[t.game] EXCEPT !.version = @ + 1] \in Row
            BY <3>1 DEF Row
        <3>3. row' = row \/ row' = [row EXCEPT ![t.game].version = @ + 1]
            BY <1>3 DEF CommitPlay
        <3>4. [row EXCEPT ![t.game].version = @ + 1] \in [Games -> Row]
            BY <2>0, <3>2 DEF TypeOK
        <3> QED
            BY <3>3, <3>4 DEF TypeOK
    <2> QED
        BY <1>3, <2>1, <2>2, <2>3 DEF TypeOK, CommitPlay, subVars, cacheVars, cursorVars, statusVars
<1>4. ASSUME NEW kind, NEW g \in Games \cup {None}, kind = "odds" <=> g = None,
             OtherWrite(kind, g)
      PROVE  TypeOK'
    <2>1. inbox' \in Seq(Notification) /\ missed' \subseteq Games /\ listening' \in BOOLEAN
        BY <1>4, NotifyType DEF OtherWrite, WriteKinds
    <2> QED
        BY <1>4, <2>1 DEF TypeOK, OtherWrite, subVars, cacheVars, cursorVars, statusVars
<1>5. ASSUME Listen \/ ListenLost PROVE TypeOK'
    <2>1. inbox' \in Seq(Notification) /\ missed' \subseteq Games /\ listening' \in BOOLEAN
        <3>1. CASE Listen
            BY <3>1 DEF TypeOK, Listen
        <3>2. CASE ListenLost
            <4>1. \A i \in 1 .. Len(inbox) : inbox[i] \in Notification
                BY DEF TypeOK
            <4>2. inbox' \in Seq(Notification)
                BY <3>2 DEF ListenLost
            <4>3. listening' \in BOOLEAN
                BY <3>2 DEF ListenLost
            <4>4. missed' \subseteq Games
                BY <3>2 DEF TypeOK, ListenLost
            <4> QED
                BY <4>2, <4>3, <4>4
        <3> QED
            BY <1>5, <3>1, <3>2
    <2> QED
        BY <1>5, <2>1 DEF TypeOK, Listen, ListenLost, dbVars, subVars, cacheVars, cursorVars,
                          statusVars
<1>6. ASSUME OnNotify PROVE TypeOK'
    <2> DEFINE n == Head(inbox)
    <2>1. inbox' \in Seq(Notification) /\ n \in Notification
        BY <1>6 DEF TypeOK, OnNotify
    <2>2. ASSUME n.kind = "score" /\ StartScore(n.game) PROVE tasks' \subseteq Task
        <3>1. n.game \in Games
            BY <2>1, <2>2 DEF Notification
        <3>2. [NewTask("score", Summary(n.game)) EXCEPT !.summary = Summary(n.game) \in subs,
                                                        !.list = List \in subs] \in Task
            <4>1. /\ NewTask("score", Summary(n.game)) \in Task
                  /\ (Summary(n.game) \in subs) \in BOOLEAN
                  /\ (List \in subs) \in BOOLEAN
                BY <3>1, NewTaskType, ChannelType DEF WriteKinds
            <4> QED
                BY <4>1, TaskExcept
        <3> QED
            BY <2>2, <3>2, StartType DEF StartScore, TypeOK
    <2>3. ASSUME n.kind = "plays" /\ StartPlays(n.game) PROVE tasks' \subseteq Task
        <3>1. n.game \in Games
            BY <2>1, <2>3 DEF Notification
        <3>2. [NewTask("plays", Pbp(n.game)) EXCEPT !.after = cursor[n.game]] \in Task
            BY <3>1, NewTaskType, TaskExcept, ChannelType DEF WriteKinds, TypeOK
        <3> QED
            BY <2>3, <3>2, StartType DEF StartPlays, TypeOK
    <2>4. ASSUME NEW kind \in WriteKinds, NEW ch \in Channels,
                 NEW type \in {"fairbet_patch", "flow_published"}, StartPublish(kind, ch, type)
          PROVE  tasks' \subseteq Task
        <3>1. <<EventOf(ch, ch.game, type, 0, {})>> \in Seq(Publication)
            BY ChannelType, EventOfType
        <3>2. [NewTask(kind, ch) EXCEPT !.stage = "publish",
                 !.events = <<EventOf(ch, ch.game, type, 0, {})>>] \in Task
            BY <3>1, NewTaskType, TaskExcept
        <3> QED
            BY <2>4, <3>2, StartType DEF StartPublish, TypeOK
    <2>5. ASSUME n.kind = "odds" /\ StartPublish("odds", Odds, "fairbet_patch")
          PROVE  tasks' \subseteq Task
        BY <2>4, <2>5, ChannelType DEF WriteKinds
    <2>6. ASSUME n.kind = "flow" /\ StartPublish("flow", Summary(n.game), "flow_published")
          PROVE  tasks' \subseteq Task
        <3>1. n.game \in Games
            BY <2>1, <2>6 DEF Notification
        <3> QED
            BY <2>4, <2>6, <3>1, ChannelType DEF WriteKinds
    <2>7. tasks' \subseteq Task
        BY <1>6, <2>2, <2>3, <2>5, <2>6 DEF OnNotify
    <2> QED
        BY <1>6, <2>1, <2>7 DEF TypeOK, OnNotify, dbVars, subVars, cacheVars, cursorVars, statusVars
<1>7. ASSUME NEW ch \in Channels, Subscribe(ch) PROVE TypeOK'
    <2>1. subs' \subseteq Channels /\ subscribed' \in Nat /\ since' \in [Channels -> Nat]
        BY <1>7 DEF TypeOK, Subscribe
    <2>2. ASSUME ch.kind \in {"summary", "list"} /\ Start(NewTask("catchup", ch))
          PROVE  tasks' \subseteq Task
        BY <2>2, NewTaskType, StartType
    <2>3. ASSUME Start([NewTask("catchup", ch) EXCEPT
                       !.stage = "publish",
                       !.events = <<EventOf(ch, None, "fairbet_patch", 0, {})>>])
          PROVE  tasks' \subseteq Task
        <3>1. <<EventOf(ch, None, "fairbet_patch", 0, {})>> \in Seq(Publication)
            BY EventOfType
        <3>2. [NewTask("catchup", ch) EXCEPT !.stage = "publish",
                 !.events = <<EventOf(ch, None, "fairbet_patch", 0, {})>>] \in Task
            BY <3>1, NewTaskType, TaskExcept
        <3> QED
            BY <2>3, <3>2, StartType
    <2>4. tasks' \subseteq Task
        BY <1>7, <2>2, <2>3 DEF TypeOK, Subscribe
    <2>5. owed' \in [Channels -> [Games -> Nat]]
        <3>1. [g \in Games |-> row[g].version] \in [Games -> Nat]
            BY DEF TypeOK, Row
        <3> QED
            BY <1>7, <3>1 DEF TypeOK, Subscribe
    <2> QED
        BY <1>7, <2>1, <2>4, <2>5 DEF TypeOK, Subscribe, dbVars, connectionVars, cacheVars, cursorVars,
                                statusVars
<1>8. ASSUME NEW ch \in Channels, Unsubscribe(ch) PROVE TypeOK'
    <2>1. owed' \in [Channels -> [Games -> Nat]]
        BY <1>8 DEF TypeOK, Unsubscribe, NothingOwed
    <2> QED
        BY <1>8, <2>1 DEF TypeOK, Unsubscribe, dbVars, connectionVars, cacheVars, cursorVars,
                          statusVars
<1>9. ASSUME NEW t \in tasks, Query(t) PROVE TypeOK'
    <2>1. t \in Task /\ t.channel \in Channels
        BY TaskFields
    <2>2. ASSUME t.kind = "plays" PROVE tasks' \subseteq Task
        <3>1. t.channel.game \in Games /\ t.after \in Nat
            BY <2>1, <2>2, ChannelType DEF TaskShape, Task
        <3>2. PICK last \in {n \in plays[t.channel.game] : n > t.after} \cup {t.after} :
                Become(t, [t EXCEPT !.stage = "answer", !.last = last,
                             !.batch = {n \in {n \in plays[t.channel.game] : n > t.after} : n <= last}])
            BY <1>9, <2>2 DEF Query
        <3>3. last \in Nat /\ {n \in {n \in plays[t.channel.game] : n > t.after} : n <= last} \in SUBSET Nat
            BY <3>1 DEF TypeOK
        <3>4. [t EXCEPT !.stage = "answer", !.last = last,
                        !.batch = {n \in {n \in plays[t.channel.game] : n > t.after} : n <= last}] \in Task
            BY <2>1, <3>3 DEF Task
        <3> QED
            BY <3>2, <3>4 DEF Become, TypeOK
    <2>3. ASSUME t.kind # "plays" PROVE tasks' \subseteq Task
        <3>1. [t EXCEPT !.stage = "answer", !.rows = row] \in Task
            BY <2>1 DEF Task, TypeOK
        <3>2. Become(t, [t EXCEPT !.stage = "answer", !.rows = row])
            BY <1>9, <2>3 DEF Query
        <3> QED
            BY <3>1, <3>2 DEF Become, TypeOK
    <2>4. tasks' \subseteq Task
        BY <2>2, <2>3
    <2> QED
        BY <1>9, <2>4 DEF TypeOK, Query, dbVars, connectionVars, subVars, cacheVars, cursorVars,
                          statusVars
<1>10. ASSUME NEW t \in tasks, TaskFails(t)
       PROVE  missed' \subseteq Games /\ tasks' \subseteq Task
    <2>1. t.channel \notin {List, Odds} => t.channel.game \in Games
        BY TaskFields, ChannelType
    <2> QED
        BY <1>10, <2>1 DEF TypeOK, TaskFails, End
<1>11. ASSUME NEW t \in tasks, QueryError(t) PROVE TypeOK'
    <2>1. missed' \subseteq Games /\ tasks' \subseteq Task
        BY <1>10, <1>11 DEF QueryError
    <2> QED
        BY <1>11, <2>1 DEF TypeOK, QueryError, dbVars, subVars, cacheVars, cursorVars, statusVars
<1>12. ASSUME NEW t \in tasks, ResumeScore(t) PROVE TypeOK'
    <2> DEFINE g == t.channel.game
               got == t.rows[g]
               type == IF statusCache[g] \notin {None, got.status} THEN "phase_change" ELSE "patch"
    <2>1. g \in Games
        BY <1>12, TaskFields, ChannelType DEF ResumeScore, TaskShape
    <2>2. got.version \in Nat /\ got.status \in Statuses
        BY <2>1, TaskFields
    <2>3. type \in {"patch", "phase_change"} /\ t.summary \in BOOLEAN /\ t.list \in BOOLEAN
        BY TaskFields DEF Task
    <2>4. Publishing(t, ListChecked(
              (IF t.summary THEN <<EventOf(Summary(g), g, type, got.version, {})>> ELSE <<>>)
              \o (IF t.list THEN <<EventOf(List, g, type, got.version, {})>> ELSE <<>>)))
        BY <1>12 DEF ResumeScore
    <2>5. /\ statusCache' = CacheAfterSet(statusCache, statusOrder, g, got.status, None)
          /\ statusOrder' = OrderAfterSet(statusOrder, g)
        BY <1>12 DEF ResumeScore
    <2> HIDE DEF g, got, type
    <2>6. tasks' \subseteq Task
        BY <2>1, <2>2, <2>3, <2>4, ScoreEventsType, PublishingType
    <2>7. statusCache' \in [Games -> Statuses \cup {None}] /\ statusOrder' \in Seq(Games)
        BY <2>1, <2>2, <2>5, CacheType DEF TypeOK
    <2> QED
        BY <1>12, <2>6, <2>7 DEF TypeOK, ResumeScore, dbVars, connectionVars, subVars, cursorVars
<1>13. ASSUME NEW t \in tasks, ResumePlays(t) PROVE TypeOK'
    <2>1. t.channel = Pbp(t.channel.game) /\ t.channel.game \in Games /\ t.last \in Nat
        BY <1>13, TaskFields, ChannelType DEF ResumePlays, TaskShape, Task
    <2>2. CASE t.batch = {}
        BY <1>13, <2>2 DEF TypeOK, ResumePlays, End, dbVars, connectionVars, subVars, statusVars,
                           cursorVars
    <2>3. CASE t.batch # {}
        <3>1. /\ cursor' = CacheAfterSet(cursor, cursorOrder, t.channel.game, t.last, 0)
              /\ cursorOrder' = OrderAfterSet(cursorOrder, t.channel.game)
              /\ Publishing(t, <<EventOf(Pbp(t.channel.game), t.channel.game, "pbp_append", 0, t.batch)>>)
            BY <1>13, <2>3 DEF ResumePlays
        <3>2. cursor' \in [Games -> Nat] /\ cursorOrder' \in Seq(Games)
            BY <2>1, <3>1, CacheType DEF TypeOK
        <3>3. <<EventOf(Pbp(t.channel.game), t.channel.game, "pbp_append", 0, t.batch)>> \in Seq(Publication)
            <4>1. EventOf(Pbp(t.channel.game), t.channel.game, "pbp_append", 0, t.batch) \in Publication
                BY <2>1, EventOfType, TaskFields
            <4> QED
                BY <4>1
        <3>4. tasks' \subseteq Task
            BY <3>1, <3>3, PublishingType
        <3> QED
            BY <1>13, <3>2, <3>4 DEF TypeOK, ResumePlays, dbVars, connectionVars, subVars, statusVars
    <2> QED
        BY <2>2, <2>3
<1>14. ASSUME NEW t \in tasks, ResumeCatchUp(t) PROVE TypeOK'
    <2>1. PICK order \in {o \in [1 .. Cardinality(Games) -> Games] :
                            \A i, j \in DOMAIN o : o[i] = o[j] => i = j} :
              Publishing(t, IF t.channel.kind = "summary"
                 THEN <<EventOf(t.channel, t.channel.game, "game_patch", t.rows[t.channel.game].version, {})>>
                 ELSE [i \in DOMAIN order |->
                          EventOf(List, order[i], "game_patch", t.rows[order[i]].version, {})])
        BY <1>14 DEF ResumeCatchUp
    <2>2. tasks' \subseteq Task
        BY <2>1, CatchUpEventsType, PublishingType
    <2> QED
        BY <1>14, <2>2 DEF TypeOK, ResumeCatchUp, dbVars, connectionVars, subVars, cacheVars,
                           cursorVars, statusVars
<1>15. ASSUME NEW t \in tasks, Publish(t) PROVE TypeOK'
    <2>1. t.events \in Seq(Publication) /\ t.events # <<>>
        BY <1>15, TaskFields DEF Publish, TaskShape
    <2>2. Head(t.events) \in Publication /\ Tail(t.events) \in Seq(Publication)
        BY <2>1
    <2>3. published' \in [Channels -> Seq(Event)]
        BY <1>15, <2>2 DEF Publish, TypeOK, Publication
    <2>4. tasks' \subseteq Task
        BY <1>15, <2>2, ListCheckedType, PublishingType DEF Publish
    <2> QED
        BY <1>15, <2>3, <2>4 DEF TypeOK, Publish, dbVars, connectionVars, subVars, cacheVars,
                                 cursorVars, statusVars
<1>16. ASSUME NEW t \in tasks, PublishError(t) PROVE TypeOK'
    <2>1. missed' \subseteq Games /\ tasks' \subseteq Task
        BY <1>10, <1>16 DEF PublishError
    <2>2. failed' \subseteq Nat
        BY <1>16, TaskFields DEF TypeOK, PublishError
    <2> QED
        BY <1>16, <2>1, <2>2 DEF TypeOK, PublishError, dbVars, subVars, cacheVars, cursorVars,
                                 statusVars
<1>17. CASE UNCHANGED vars
    BY <1>17 DEF TypeOK, vars, dbVars, connectionVars, subVars, cacheVars, cursorVars, statusVars
<1> QED
    BY <1>1, <1>1a, <1>2, <1>3, <1>4, <1>5, <1>6, <1>7, <1>8, <1>9, <1>11, <1>12, <1>13, <1>14,
       <1>15, <1>16, <1>17, ListenerAssumption DEF Next

-----------------------------------------------------------------------------
(* The table of plays. *)

NoOverlap == "overlapping_writes" \notin Incidents

LEMMA CommittedInit == Init => CommittedInOrder
BY DEF Init, CommittedInOrder

(* The table only grows, and by numbers above all of its game's.            *)
PlaysGrow ==
    \A g \in Games :
        /\ plays[g] \subseteq plays'[g]
        /\ \A n \in plays'[g] \ plays[g] : n \in Nat /\ n >= 1 /\ \A m \in plays[g] : m < n

(* A step of the writers, or one that leaves their tables alone.            *)
LEMMA WriterCases ==
    ASSUME [Next]_vars
    PROVE  \/ \E g \in Games : InsertPlay(g)
           \/ \E t \in open : CommitPlay(t)
           \/ UNCHANGED <<plays, open>> /\ writes' \in {writes, writes + 1}
<1>1. ASSUME NEW g \in Games, NEW s \in Statuses, UpdateGame(g, s) \/ UpdateUnnotified(g, s)
      PROVE  UNCHANGED <<plays, open>> /\ writes' \in {writes, writes + 1}
    BY <1>1 DEF UpdateGame, UpdateUnnotified, Change
<1>2. ASSUME NEW kind, NEW g, OtherWrite(kind, g)
      PROVE  UNCHANGED <<plays, open>> /\ writes' \in {writes, writes + 1}
    BY <1>2 DEF OtherWrite
<1>3. ASSUME Listen \/ ListenLost \/ OnNotify
      PROVE  UNCHANGED <<plays, open>> /\ writes' \in {writes, writes + 1}
    BY <1>3 DEF Listen, ListenLost, OnNotify, dbVars
<1>4. ASSUME NEW ch \in Channels, Subscribe(ch) \/ Unsubscribe(ch)
      PROVE  UNCHANGED <<plays, open>> /\ writes' \in {writes, writes + 1}
    BY <1>4 DEF Subscribe, Unsubscribe, dbVars
<1>5. ASSUME NEW t \in tasks,
             \/ Query(t) \/ QueryError(t)
             \/ ResumeScore(t) \/ ResumePlays(t) \/ ResumeCatchUp(t)
             \/ Publish(t) \/ PublishError(t)
      PROVE  UNCHANGED <<plays, open>> /\ writes' \in {writes, writes + 1}
    BY <1>5 DEF Query, QueryError, ResumeScore, ResumePlays, ResumeCatchUp, Publish,
                PublishError, dbVars
<1>6. CASE UNCHANGED vars
    BY <1>6 DEF vars, dbVars
<1> QED
    BY <1>1, <1>2, <1>3, <1>4, <1>5, <1>6 DEF Next

LEMMA TableStep ==
    ASSUME NoOverlap, TypeOK, CommittedInOrder, [Next]_vars
    PROVE  PlaysGrow /\ CommittedInOrder'
<1>1. ASSUME NEW g \in Games, InsertPlay(g) PROVE PlaysGrow /\ CommittedInOrder'
    <2>1. plays' = plays /\ writes' = writes + 1 /\ writes \in Nat
        BY <1>1 DEF InsertPlay, TypeOK
    <2>2. open' = open \cup {[game |-> g, id |-> writes + 1]} /\ \A t \in open : t.game # g
        BY <1>1 DEF InsertPlay, NoOverlap
    <2>3. \A h \in Games : plays'[h] \subseteq 1 .. writes'
        BY <2>1 DEF CommittedInOrder
    <2>4. \A t \in open' : t.id \in 1 .. writes' /\ \A n \in plays'[t.game] : n < t.id
        <3>1. \A t \in open : t.id \in 1 .. writes' /\ \A n \in plays'[t.game] : n < t.id
            BY <2>1 DEF CommittedInOrder
        <3>2. \A n \in plays[g] : n < writes + 1
            BY <2>1 DEF CommittedInOrder
        <3> QED
            BY <2>1, <2>2, <3>1, <3>2
    <2>5. \A t, u \in open' : t.game = u.game => t = u
        BY <2>2 DEF CommittedInOrder
    <2> QED
        BY <2>1, <2>3, <2>4, <2>5 DEF PlaysGrow, CommittedInOrder
<1>2. ASSUME NEW t \in open, CommitPlay(t) PROVE PlaysGrow /\ CommittedInOrder'
    <2>1. t.game \in Games /\ t.id \in 1 .. writes /\ \A n \in plays[t.game] : n < t.id
        BY DEF TypeOK, CommittedInOrder
    <2>2. /\ plays' = [plays EXCEPT ![t.game] = @ \cup {t.id}]
          /\ open' = open \ {t} /\ writes' = writes
        BY <1>2 DEF CommitPlay
    <2>3. \A g \in Games : plays'[g] = IF g = t.game THEN plays[g] \cup {t.id} ELSE plays[g]
        BY <2>1, <2>2 DEF TypeOK
    <2>4. PlaysGrow
        <3>1. t.id \in Nat /\ t.id >= 1
            BY <2>1 DEF TypeOK
        <3> QED
            BY <2>1, <2>3, <3>1 DEF PlaysGrow
    <2>5. \A g \in Games : plays'[g] \subseteq 1 .. writes'
        BY <2>1, <2>2, <2>3 DEF CommittedInOrder
    <2>6. \A u \in open' : u.game \in Games /\ u.game # t.game
        BY <2>2 DEF TypeOK, CommittedInOrder
    <2>7. \A u \in open' : u.id \in 1 .. writes' /\ \A n \in plays'[u.game] : n < u.id
        BY <2>2, <2>3, <2>6 DEF CommittedInOrder
    <2>8. \A u, v \in open' : u.game = v.game => u = v
        BY <2>2 DEF CommittedInOrder
    <2> QED
        BY <2>4, <2>5, <2>7, <2>8 DEF CommittedInOrder
<1>3. ASSUME UNCHANGED <<plays, open>>, writes' \in {writes, writes + 1}
      PROVE  PlaysGrow /\ CommittedInOrder'
    <2>1. writes \in Nat
        BY DEF TypeOK
    <2>2. 1 .. writes \subseteq 1 .. writes'
        BY <1>3, <2>1
    <2>3. CommittedInOrder'
        BY <1>3, <2>2 DEF CommittedInOrder
    <2> QED
        BY <1>3, <2>3 DEF PlaysGrow
<1> QED
    BY <1>1, <1>2, <1>3, WriterCases

-----------------------------------------------------------------------------
(* What is covered stays covered.                                           *)

LEMMA CoveredKept ==
    ASSUME NEW g \in Games, NEW n, Covered(g, n),
           PlaysIn(g) \subseteq PlaysIn(g)', failed \subseteq failed',
           \A t \in tasks : t.stage = "publish" /\ t.channel = Pbp(g) /\ n \in t.batch
               => t \in tasks' \/ n \in PlaysIn(g)' \cup failed'
    PROVE  Covered(g, n)'
<1>1. CASE n \in PlaysIn(g) \cup failed
    BY <1>1 DEF Covered
<1>2. CASE n \in PlaysHeld(g)
    <2>1. PICK t \in tasks : t.stage = "publish" /\ t.channel = Pbp(g) /\ n \in t.batch
        BY <1>2 DEF PlaysHeld
    <2>2. CASE t \in tasks'
        <3>1. n \in PlaysHeld(g)'
            BY <2>1, <2>2 DEF PlaysHeld
        <3> QED
            BY <3>1 DEF Covered
    <2> QED
        BY <2>1, <2>2 DEF Covered
<1> QED
    BY <1>1, <1>2 DEF Covered

(* How a step may treat the tasks and what has been published.              *)
LEMMA TaskCases ==
    ASSUME TypeOK, [Next]_vars
    PROVE  \/ tasks \subseteq tasks' /\ UNCHANGED <<published, failed>>
           \/ /\ UNCHANGED <<published, failed>>
              /\ \E t \in tasks : t.stage # "publish" /\ tasks \ {t} \subseteq tasks'
           \/ \E t \in tasks : Publish(t) \/ PublishError(t)
<1>1. ASSUME NEW g \in Games, NEW s \in Statuses, UpdateGame(g, s) \/ UpdateUnnotified(g, s)
      PROVE  tasks \subseteq tasks' /\ UNCHANGED <<published, failed>>
    BY <1>1 DEF UpdateGame, UpdateUnnotified
<1>2. ASSUME NEW kind, NEW g, OtherWrite(kind, g)
      PROVE  tasks \subseteq tasks' /\ UNCHANGED <<published, failed>>
    BY <1>2 DEF OtherWrite
<1>3. ASSUME Listen \/ ListenLost
      PROVE  tasks \subseteq tasks' /\ UNCHANGED <<published, failed>>
    BY <1>3 DEF Listen, ListenLost
<1>4. ASSUME OnNotify
      PROVE  tasks \subseteq tasks' /\ UNCHANGED <<published, failed>>
    BY <1>4 DEF OnNotify, StartScore, StartPlays, StartPublish, Start
<1>5. ASSUME NEW ch \in Channels, Subscribe(ch) \/ Unsubscribe(ch)
      PROVE  tasks \subseteq tasks' /\ UNCHANGED <<published, failed>>
    BY <1>5 DEF Subscribe, Unsubscribe, Start
<1>6. ASSUME NEW g \in Games, InsertPlay(g)
      PROVE  tasks \subseteq tasks' /\ UNCHANGED <<published, failed>>
    BY <1>6 DEF InsertPlay
<1>7. ASSUME NEW t \in open, CommitPlay(t)
      PROVE  tasks \subseteq tasks' /\ UNCHANGED <<published, failed>>
    BY <1>7 DEF CommitPlay
<1>8. ASSUME NEW t \in tasks, Query(t) \/ QueryError(t)
      PROVE  /\ UNCHANGED <<published, failed>>
             /\ t.stage # "publish" /\ tasks \ {t} \subseteq tasks'
    BY <1>8 DEF Query, QueryError, TaskFails, Become, End
<1>9. ASSUME NEW t \in tasks, ResumeScore(t) \/ ResumePlays(t) \/ ResumeCatchUp(t)
      PROVE  /\ UNCHANGED <<published, failed>>
             /\ t.stage # "publish" /\ tasks \ {t} \subseteq tasks'
    BY <1>9 DEF ResumeScore, ResumePlays, ResumeCatchUp, Publishing, Become, End
<1>10. CASE UNCHANGED vars
    BY <1>10 DEF vars
<1> QED
    BY <1>1, <1>2, <1>3, <1>4, <1>5, <1>6, <1>7, <1>8, <1>9, <1>10 DEF Next

CoverageKept == \A g \in Games : \A n : Covered(g, n) => Covered(g, n)'

LEMMA CoverageStep ==
    ASSUME TypeOK, TaskShape, TasksCover, [Next]_vars
    PROVE  CoverageKept
<1> SUFFICES ASSUME NEW g \in Games, NEW n, Covered(g, n) PROVE Covered(g, n)'
    BY DEF CoverageKept
<1>1. CASE tasks \subseteq tasks' /\ UNCHANGED <<published, failed>>
    BY <1>1, CoveredKept DEF PlaysIn
<1>2. ASSUME UNCHANGED <<published, failed>>,
             NEW t \in tasks, t.stage # "publish", tasks \ {t} \subseteq tasks'
      PROVE  Covered(g, n)'
    BY <1>2, CoveredKept DEF PlaysIn
<1>3. ASSUME NEW t \in tasks, Publish(t) PROVE Covered(g, n)'
    <2> DEFINE ch == Head(t.events).channel
               e == Head(t.events).event
    <2>1. /\ t.events \in Seq(Publication) /\ t.events # <<>>
          /\ t.channel \in Channels /\ failed' = failed
          /\ tasks \ {t} \subseteq tasks'
        BY <1>3, TaskFields DEF Publish, TaskShape, Publishing, Become, End
    <2>2. ch \in Channels /\ e \in Event
        <3>1. Head(t.events) \in Publication
            BY <2>1
        <3> QED
            BY <3>1 DEF Publication
    <2>3. published' = [published EXCEPT ![ch] = Append(@, e)]
        BY <1>3 DEF Publish
    <2> HIDE DEF ch, e
    <2>4. Pbp(g) \in Channels /\ published[Pbp(g)] \in Seq(Event)
        BY ChannelType DEF TypeOK
    <2>5. CASE ch = Pbp(g)
        <3>1. published'[Pbp(g)] = Append(published[Pbp(g)], e)
            BY <2>3, <2>4, <2>5 DEF TypeOK
        <3>2. Len(published'[Pbp(g)]) = Len(published[Pbp(g)]) + 1
            BY <2>2, <2>4, <3>1
        <3>3. \A i \in 1 .. Len(published[Pbp(g)]) : published'[Pbp(g)][i] = published[Pbp(g)][i]
            BY <2>2, <2>4, <3>1
        <3>4. published'[Pbp(g)][Len(published[Pbp(g)]) + 1] = e
            BY <2>2, <2>4, <3>1
        <3>5. Len(published[Pbp(g)]) \in Nat
            BY <2>4
        <3>6. PlaysIn(g) \subseteq PlaysIn(g)'
            BY <3>2, <3>3, <3>5 DEF PlaysIn
        <3>7. e.plays \subseteq PlaysIn(g)'
            BY <3>2, <3>4, <3>5 DEF PlaysIn
        <3>8. ASSUME t.stage = "publish", t.channel = Pbp(g) PROVE t.batch \subseteq PlaysIn(g)'
            <4>1. t.kind = "plays"
                BY <3>8, ChannelType DEF TaskShape
            <4>2. t.events = <<EventOf(t.channel, t.channel.game, "pbp_append", 0, t.batch)>>
                BY <3>8, <4>1 DEF TasksCover, TaskCovers
            <4>3. e.plays = t.batch
                BY <4>2 DEF e, EventOf
            <4> QED
                BY <3>7, <4>3
        <3> QED
            BY <2>1, <3>6, <3>8, CoveredKept
    <2>6. CASE ch # Pbp(g)
        <3>1. published'[Pbp(g)] = published[Pbp(g)]
            BY <2>3, <2>4, <2>6 DEF TypeOK
        <3>2. PlaysIn(g)' = PlaysIn(g)
            BY <3>1 DEF PlaysIn
        <3>3. ~(t.stage = "publish" /\ t.channel = Pbp(g))
            <4> SUFFICES ASSUME t.stage = "publish", t.channel = Pbp(g) PROVE FALSE
                OBVIOUS
            <4>1. t.kind = "plays"
                BY ChannelType DEF TaskShape
            <4>2. t.events = <<EventOf(t.channel, t.channel.game, "pbp_append", 0, t.batch)>>
                BY <4>1 DEF TasksCover, TaskCovers
            <4>3. ch = Pbp(g)
                BY <4>2 DEF ch, EventOf
            <4> QED
                BY <2>6, <4>3
        <3> QED
            BY <2>1, <3>2, <3>3, CoveredKept
    <2> QED
        BY <2>5, <2>6
<1>4. ASSUME NEW t \in tasks, PublishError(t) PROVE Covered(g, n)'
    <2>1. /\ failed' = failed \cup t.batch /\ published' = published
          /\ tasks' = tasks \ {t}
        BY <1>4 DEF PublishError, TaskFails, End
    <2> QED
        BY <2>1, CoveredKept DEF PlaysIn
<1> QED
    BY <1>1, <1>2, <1>3, <1>4, TaskCases

-----------------------------------------------------------------------------
(* Tasks. *)

(* A task that is not touched covers what it covered: new plays are above   *)
(* its cursor and its batch.                                                *)
LEMMA TaskStays ==
    ASSUME TypeOK, TaskShape, CommittedInOrder, PlaysGrow, CoverageKept,
           NEW t \in tasks, t.kind = "plays", TaskCovers(t)
    PROVE  TaskCovers(t)'
<1> DEFINE g == t.channel.game
<1>1. g \in Games /\ t.after \in Nat /\ t.last \in Nat
    BY TaskFields, ChannelType DEF TaskShape, Task
<1>2. \A n \in plays[g] : n \in Nat
    BY <1>1 DEF TypeOK
<1>3. \A n \in plays'[g] \ plays[g] : n \in Nat /\ n >= 1 /\ \A m \in plays[g] : m < n
    BY <1>1 DEF PlaysGrow
<1>4. ASSUME t.stage \in {"query", "answer"}
      PROVE  /\ t.after \in plays'[g] \cup {0}
             /\ \A n \in plays'[g] : n <= t.after => Covered(g, n)'
    <2>1. t.after \in plays[g] \cup {0} /\ \A n \in plays[g] : n <= t.after => Covered(g, n)
        BY <1>4 DEF TaskCovers
    <2>2. \A n \in plays'[g] : n <= t.after => n \in plays[g]
        BY <1>1, <1>2, <1>3, <2>1
    <2> QED
        BY <1>1, <2>1, <2>2 DEF PlaysGrow, CoverageKept
<1>5. ASSUME t.stage = "answer"
      PROVE  /\ t.last \in plays'[g] \cup {0}
             /\ \A n \in plays'[g] : t.after < n /\ n <= t.last => n \in t.batch
    <2>1. /\ t.last \in plays[g] \cup {0}
          /\ \A n \in plays[g] : t.after < n /\ n <= t.last => n \in t.batch
        BY <1>5 DEF TaskCovers
    <2>2. \A n \in plays'[g] : n <= t.last => n \in plays[g]
        BY <1>1, <1>2, <1>3, <2>1
    <2> QED
        BY <1>1, <2>1, <2>2 DEF PlaysGrow
<1>6. t.stage = "publish" => t.events = <<EventOf(t.channel, g, "pbp_append", 0, t.batch)>>
    BY DEF TaskCovers
<1> QED
    BY <1>4, <1>5, <1>6 DEF TaskCovers

LEMMA PublishingNew ==
    ASSUME NEW t \in Task, NEW events \in Seq(Publication), Publishing(t, events),
           NEW u \in tasks', u \notin tasks
    PROVE  /\ u.kind = t.kind /\ u.channel = t.channel /\ u.stage = "publish"
           /\ u.events = events /\ u.batch = t.batch
           /\ events # <<>>
<1>1. u = Holding(t, events) /\ events # <<>>
    BY PublishingCases
<1> QED
    BY <1>1 DEF Task, Holding

(* What a step makes of the tasks. *)

(* What a task keeps when it gets its identity. *)
Begun(u, t) ==
    /\ u.kind = t.kind /\ u.channel = t.channel /\ u.stage = t.stage
    /\ u.events = t.events /\ u.after = t.after
    /\ u.summary = t.summary /\ u.list = t.list /\ u.batch = t.batch

LEMMA StartFound ==
    ASSUME NEW t \in Task, Start(t)
    PROVE  /\ tasks \subseteq tasks'
           /\ \E u \in tasks' : Begun(u, t)
           /\ \A u \in tasks' \ tasks : Begun(u, t)
<1>1. PICK n \in Nat : tasks' = tasks \cup {[t EXCEPT !.id = n]}
    BY StartAdds
<1> DEFINE v == [t EXCEPT !.id = n]
<1>2. Begun(v, t)
    BY DEF Task, Begun
<1>3. v \in tasks'
    BY <1>1
<1>4. \A u \in tasks' \ tasks : u = v
    BY <1>1
<1> HIDE DEF v
<1> QED
    BY <1>1, <1>2, <1>3, <1>4

(* The task each notification starts, if its channel has a subscriber.      *)
ScoreTask(u, g) ==
    /\ u.kind = "score" /\ u.channel = Summary(g) /\ u.stage = "query"
    /\ u.summary = (Summary(g) \in subs) /\ u.list = (List \in subs) /\ u.batch = {}

PlaysTask(u, g) ==
    /\ u.kind = "plays" /\ u.channel = Pbp(g) /\ u.stage = "query"
    /\ u.after = cursor[g] /\ u.batch = {}

PublishTask(u) ==
    /\ u.kind \in {"odds", "flow"} /\ u.channel.kind # "pbp" /\ u.events # <<>> /\ u.batch = {}

LEMMA StartScoreNew ==
    ASSUME NEW g \in Games, StartScore(g)
    PROVE  /\ tasks \subseteq tasks'
           /\ (Summary(g) \in subs \/ List \in subs) => \E u \in tasks' : ScoreTask(u, g)
           /\ \A u \in tasks' \ tasks : ScoreTask(u, g)
<1> DEFINE new == NewTask("score", Summary(g))
           t == [new EXCEPT !.summary = Summary(g) \in subs, !.list = List \in subs]
<1>1. /\ new \in Task /\ new.kind = "score" /\ new.channel = Summary(g) /\ new.stage = "query"
      /\ new.batch = {}
    BY NewTaskType, ChannelType DEF WriteKinds, NewTask
<1>2. (Summary(g) \in subs) \in BOOLEAN /\ (List \in subs) \in BOOLEAN
    OBVIOUS
<1>3. \/ UNCHANGED tasks /\ ~(Summary(g) \in subs \/ List \in subs)
      \/ Start(t)
    BY DEF StartScore
<1> HIDE DEF new
<1>4. t \in Task
    BY <1>1, <1>2, TaskExcept
<1>5. ScoreTask(t, g)
    BY <1>1 DEF Task, ScoreTask
<1> HIDE DEF t
<1>6. \A u : Begun(u, t) => ScoreTask(u, g)
    BY <1>5 DEF Begun, ScoreTask
<1> QED
    BY <1>3, <1>4, <1>6, StartFound

LEMMA StartPlaysNew ==
    ASSUME TypeOK, NEW g \in Games, StartPlays(g)
    PROVE  /\ tasks \subseteq tasks'
           /\ Pbp(g) \in subs => \E u \in tasks' : PlaysTask(u, g)
           /\ \A u \in tasks' \ tasks : PlaysTask(u, g)
<1> DEFINE new == NewTask("plays", Pbp(g))
           t == [new EXCEPT !.after = cursor[g]]
<1>1. /\ new \in Task /\ new.kind = "plays" /\ new.channel = Pbp(g) /\ new.stage = "query"
      /\ new.batch = {}
    BY NewTaskType, ChannelType DEF WriteKinds, NewTask
<1>2. cursor[g] \in Nat
    BY DEF TypeOK
<1>3. (UNCHANGED tasks /\ Pbp(g) \notin subs) \/ Start(t)
    BY DEF StartPlays
<1> HIDE DEF new
<1>4. t \in Task
    BY <1>1, <1>2, TaskExcept
<1>5. PlaysTask(t, g)
    BY <1>1 DEF Task, PlaysTask
<1> HIDE DEF t
<1>6. \A u : Begun(u, t) => PlaysTask(u, g)
    BY <1>5 DEF Begun, PlaysTask
<1> QED
    BY <1>3, <1>4, <1>6, StartFound

LEMMA StartPublishNew ==
    ASSUME NEW kind \in {"odds", "flow"}, NEW ch \in Channels, ch.kind # "pbp",
           NEW type \in {"fairbet_patch", "flow_published"}, StartPublish(kind, ch, type)
    PROVE  /\ tasks \subseteq tasks'
           /\ \A u \in tasks' \ tasks : PublishTask(u)
<1> DEFINE new == NewTask(kind, ch)
           e == <<EventOf(ch, ch.game, type, 0, {})>>
           t == [new EXCEPT !.stage = "publish", !.events = e]
<1>1. e \in Seq(Publication) /\ e # <<>>
    <2>1. EventOf(ch, ch.game, type, 0, {}) \in Publication
        BY ChannelType, EventOfType
    <2> QED
        BY <2>1
<1>2. new \in Task /\ new.kind = kind /\ new.channel = ch /\ new.batch = {}
    BY NewTaskType DEF WriteKinds, NewTask
<1>3. UNCHANGED tasks \/ Start(t)
    BY DEF StartPublish
<1> HIDE DEF new, e
<1>4. t \in Task
    BY <1>1, <1>2, TaskExcept
<1>5. PublishTask(t)
    BY <1>1, <1>2 DEF Task, PublishTask
<1> HIDE DEF t
<1>6. \A u : Begun(u, t) => PublishTask(u)
    BY <1>5 DEF Begun, PublishTask
<1> QED
    BY <1>3, <1>4, <1>6, StartFound

LEMMA OnNotifyNew ==
    ASSUME TypeOK, OnNotify
    PROVE  /\ tasks \subseteq tasks'
           /\ \A u \in tasks' \ tasks :
                 (\E g \in Games : ScoreTask(u, g) \/ PlaysTask(u, g)) \/ PublishTask(u)
           /\ \A g \in Games :
                 /\ Head(inbox) = [kind |-> "score", game |-> g]
                    /\ (Summary(g) \in subs \/ List \in subs)
                    => \E u \in tasks' : ScoreTask(u, g)
                 /\ Head(inbox) = [kind |-> "plays", game |-> g] /\ Pbp(g) \in subs
                    => \E u \in tasks' : PlaysTask(u, g)
<1> DEFINE n == Head(inbox)
<1>1. n \in Notification
    BY DEF TypeOK, OnNotify
<1>2. n.kind # "odds" => n.game \in Games
    BY <1>1 DEF Notification
<1>3. \/ n.kind = "score" /\ StartScore(n.game)
      \/ n.kind = "plays" /\ StartPlays(n.game)
      \/ n.kind = "odds" /\ StartPublish("odds", Odds, "fairbet_patch")
      \/ n.kind = "flow" /\ StartPublish("flow", Summary(n.game), "flow_published")
    BY DEF OnNotify
<1>4. \A g : [kind |-> "score", game |-> g].kind = "score" /\ [kind |-> "score", game |-> g].game = g
    OBVIOUS
<1>5. \A g : [kind |-> "plays", game |-> g].kind = "plays" /\ [kind |-> "plays", game |-> g].game = g
    OBVIOUS
<1> HIDE DEF n
<1>6. CASE n.kind = "score" /\ StartScore(n.game)
    <2>1. \A g : n # [kind |-> "plays", game |-> g]
        BY <1>5, <1>6
    <2>2. \A g : n = [kind |-> "score", game |-> g] => g = n.game
        BY <1>4
    <2> QED
        BY <1>2, <1>6, <2>1, <2>2, StartScoreNew DEF n
<1>7. CASE n.kind = "plays" /\ StartPlays(n.game)
    <2>1. \A g : n # [kind |-> "score", game |-> g]
        BY <1>4, <1>7
    <2>2. \A g : n = [kind |-> "plays", game |-> g] => g = n.game
        BY <1>5
    <2> QED
        BY <1>2, <1>7, <2>1, <2>2, StartPlaysNew DEF n
<1>8. CASE n.kind = "odds" /\ StartPublish("odds", Odds, "fairbet_patch")
    <2>1. \A g : n # [kind |-> "score", game |-> g] /\ n # [kind |-> "plays", game |-> g]
        BY <1>4, <1>5, <1>8
    <2> QED
        BY <1>8, <2>1, StartPublishNew, ChannelType DEF n
<1>9. CASE n.kind = "flow" /\ StartPublish("flow", Summary(n.game), "flow_published")
    <2>1. \A g : n # [kind |-> "score", game |-> g] /\ n # [kind |-> "plays", game |-> g]
        BY <1>4, <1>5, <1>9
    <2>2. Summary(n.game) \in Channels /\ Summary(n.game).kind # "pbp"
        BY <1>2, <1>9, ChannelType
    <2> QED
        BY <1>9, <2>1, <2>2, StartPublishNew DEF n
<1> QED
    BY <1>3, <1>6, <1>7, <1>8, <1>9

(* The first subscriber's catch-up. *)
CatchUpTask(u, ch) ==
    /\ u.kind = "catchup" /\ u.channel = ch
    /\ IF ch.kind = "odds" THEN u.events # <<>> ELSE u.stage = "query"
    /\ u.batch = {}

LEMMA SubscribeNew ==
    ASSUME NEW ch \in Channels, Subscribe(ch)
    PROVE  /\ tasks \subseteq tasks'
           /\ ch.kind \in {"summary", "list"} => \E u \in tasks' : CatchUpTask(u, ch)
           /\ \A u \in tasks' \ tasks : ch.kind # "pbp" /\ CatchUpTask(u, ch)
<1> DEFINE new == NewTask("catchup", ch)
           e == <<EventOf(ch, None, "fairbet_patch", 0, {})>>
           t == [new EXCEPT !.stage = "publish", !.events = e]
<1>1. /\ new \in Task /\ new.kind = "catchup" /\ new.channel = ch /\ new.stage = "query"
      /\ new.batch = {}
    BY NewTaskType DEF NewTask
<1>2. e \in Seq(Publication) /\ e # <<>>
    BY EventOfType
<1>3. \/ ch.kind \in {"summary", "list"} /\ Start(new)
      \/ ch.kind = "odds" /\ Start(t)
      \/ ch.kind = "pbp" /\ UNCHANGED tasks
    BY DEF Subscribe
<1> HIDE DEF new, e
<1>4. CASE ch.kind \in {"summary", "list"} /\ Start(new)
    <2>1. \A u : Begun(u, new) => CatchUpTask(u, ch)
        BY <1>1, <1>4 DEF Begun, CatchUpTask
    <2> QED
        BY <1>1, <1>4, <2>1, StartFound
<1>5. CASE ch.kind = "odds" /\ Start(t)
    <2>1. t \in Task
        BY <1>1, <1>2, TaskExcept
    <2>2. t.kind = "catchup" /\ t.channel = ch /\ t.events = e /\ t.batch = {}
        BY <1>1 DEF Task
    <2> HIDE DEF t
    <2>3. \A u : Begun(u, t) => CatchUpTask(u, ch)
        BY <1>2, <1>5, <2>2 DEF Begun, CatchUpTask
    <2> QED
        BY <1>5, <2>1, <2>3, StartFound
<1> QED
    BY <1>3, <1>4, <1>5

(* A task that goes on is about what it was. *)
GoesOn(u, t) ==
    /\ u.kind = t.kind /\ u.channel = t.channel
    /\ u.stage = "publish" => u.events # <<>>
    /\ u.batch = t.batch \/ (t.kind = "plays" /\ u.batch \subseteq plays[t.channel.game])

LEMMA PublishingGoesOn ==
    ASSUME NEW t \in Task, NEW events \in Seq(Publication), Publishing(t, events)
    PROVE  tasks \ {t} \subseteq tasks' /\ \A u \in tasks' \ tasks : GoesOn(u, t)
<1>1. \A u \in tasks' \ tasks : GoesOn(u, t)
    BY PublishingNew DEF GoesOn
<1>2. tasks \ {t} \subseteq tasks'
    BY DEF Publishing, End, Become
<1> QED
    BY <1>1, <1>2

LEMMA QueryGoesOn ==
    ASSUME TypeOK, NEW t \in tasks, Query(t)
    PROVE  tasks \ {t} \subseteq tasks' /\ \A u \in tasks' \ tasks : GoesOn(u, t)
<1>1. t \in Task
    BY TaskFields
<1>2. \/ \E last : \E batch \in SUBSET plays[t.channel.game] :
            /\ t.kind = "plays"
            /\ Become(t, [t EXCEPT !.stage = "answer", !.last = last, !.batch = batch])
      \/ Become(t, [t EXCEPT !.stage = "answer", !.rows = row])
    <2> DEFINE unseen == {n \in plays[t.channel.game] : n > t.after}
    <2>1. CASE t.kind = "plays"
        <3>1. PICK last \in unseen \cup {t.after} :
                Become(t, [t EXCEPT !.stage = "answer", !.last = last,
                             !.batch = {n \in unseen : n <= last}])
            BY <2>1 DEF Query
        <3>2. {n \in unseen : n <= last} \in SUBSET plays[t.channel.game]
            OBVIOUS
        <3> HIDE DEF unseen
        <3> QED
            BY <2>1, <3>1, <3>2
    <2>2. CASE t.kind # "plays"
        BY <2>2 DEF Query
    <2> QED
        BY <2>1, <2>2
<1>3. ASSUME NEW last, NEW batch \in SUBSET plays[t.channel.game], t.kind = "plays",
             Become(t, [t EXCEPT !.stage = "answer", !.last = last, !.batch = batch])
      PROVE  tasks \ {t} \subseteq tasks' /\ \A u \in tasks' \ tasks : GoesOn(u, t)
    BY <1>1, <1>3 DEF Become, GoesOn, Task
<1>4. ASSUME Become(t, [t EXCEPT !.stage = "answer", !.rows = row])
      PROVE  tasks \ {t} \subseteq tasks' /\ \A u \in tasks' \ tasks : GoesOn(u, t)
    BY <1>1, <1>4 DEF Become, GoesOn, Task
<1> QED
    BY <1>2, <1>3, <1>4

(* The events of a score task, of a play-by-play task and of a catch-up.    *)
ScoreEvents(t) ==
    LET g == t.channel.game
        got == t.rows[g]
        type == IF statusCache[g] \notin {None, got.status} THEN "phase_change" ELSE "patch"
    IN  ListChecked(
            (IF t.summary THEN <<EventOf(Summary(g), g, type, got.version, {})>> ELSE <<>>)
            \o (IF t.list THEN <<EventOf(List, g, type, got.version, {})>> ELSE <<>>))

PlaysEvents(t) == <<EventOf(Pbp(t.channel.game), t.channel.game, "pbp_append", 0, t.batch)>>

CatchUpEvents(t, order) ==
    IF t.channel.kind = "summary"
    THEN <<EventOf(t.channel, t.channel.game, "game_patch", t.rows[t.channel.game].version, {})>>
    ELSE [i \in DOMAIN order |->
             EventOf(List, order[i], "game_patch", t.rows[order[i]].version, {})]

LEMMA ResumeScoreEvents ==
    ASSUME TypeOK, TaskShape, NEW t \in tasks, ResumeScore(t)
    PROVE  Publishing(t, ScoreEvents(t)) /\ ScoreEvents(t) \in Seq(Publication)
<1> DEFINE g == t.channel.game
           got == t.rows[g]
           type == IF statusCache[g] \notin {None, got.status} THEN "phase_change" ELSE "patch"
<1>1. g \in Games
    BY TaskFields, ChannelType DEF ResumeScore, TaskShape
<1>2. got.version \in Nat
    BY <1>1, TaskFields
<1>3. type \in {"patch", "phase_change"} /\ t.summary \in BOOLEAN /\ t.list \in BOOLEAN
    BY TaskFields DEF Task
<1>4. Publishing(t, ScoreEvents(t))
    BY DEF ResumeScore, ScoreEvents
<1>5. ScoreEvents(t) = ListChecked(
        (IF t.summary THEN <<EventOf(Summary(g), g, type, got.version, {})>> ELSE <<>>)
        \o (IF t.list THEN <<EventOf(List, g, type, got.version, {})>> ELSE <<>>))
    BY DEF ScoreEvents
<1> HIDE DEF g, got, type
<1> QED
    BY <1>1, <1>2, <1>3, <1>4, <1>5, ScoreEventsType

LEMMA ResumePlaysEvents ==
    ASSUME TypeOK, TaskShape, NEW t \in tasks, ResumePlays(t)
    PROVE  /\ t.batch = {} => tasks' = tasks \ {t}
           /\ t.batch # {} => Publishing(t, PlaysEvents(t))
           /\ PlaysEvents(t) \in Seq(Publication)
<1>1. t.channel.game \in Games
    BY TaskFields, ChannelType DEF ResumePlays, TaskShape
<1>2. EventOf(Pbp(t.channel.game), t.channel.game, "pbp_append", 0, t.batch) \in Publication
    BY <1>1, EventOfType, TaskFields, ChannelType
<1>3. PlaysEvents(t) \in Seq(Publication)
    BY <1>2 DEF PlaysEvents
<1> QED
    BY <1>3 DEF ResumePlays, PlaysEvents, End

LEMMA ResumeCatchUpEvents ==
    ASSUME TypeOK, NEW t \in tasks, ResumeCatchUp(t)
    PROVE  \E order \in [1 .. Cardinality(Games) -> Games] :
              /\ \A i, j \in DOMAIN order : order[i] = order[j] => i = j
              /\ Publishing(t, CatchUpEvents(t, order))
              /\ CatchUpEvents(t, order) \in Seq(Publication)
<1>1. PICK order \in {o \in [1 .. Cardinality(Games) -> Games] :
                        \A i, j \in DOMAIN o : o[i] = o[j] => i = j} :
         Publishing(t, CatchUpEvents(t, order))
    BY DEF ResumeCatchUp, CatchUpEvents
<1>2. CatchUpEvents(t, order) \in Seq(Publication)
    BY CatchUpEventsType DEF CatchUpEvents
<1> QED
    BY <1>1, <1>2

LEMMA ResumeGoesOn ==
    ASSUME TypeOK, TaskShape, NEW t \in tasks, ResumeScore(t) \/ ResumePlays(t) \/ ResumeCatchUp(t)
    PROVE  tasks \ {t} \subseteq tasks' /\ \A u \in tasks' \ tasks : GoesOn(u, t)
<1>1. t \in Task
    BY TaskFields
<1>2. CASE ResumeScore(t)
    BY <1>1, <1>2, ResumeScoreEvents, PublishingGoesOn
<1>3. CASE ResumePlays(t)
    <2>1. CASE t.batch = {}
        BY <1>3, <2>1, ResumePlaysEvents
    <2>2. CASE t.batch # {}
        BY <1>1, <1>3, <2>2, ResumePlaysEvents, PublishingGoesOn
    <2> QED
        BY <2>1, <2>2
<1>4. CASE ResumeCatchUp(t)
    BY <1>1, <1>4, ResumeCatchUpEvents, PublishingGoesOn
<1> QED
    BY <1>2, <1>3, <1>4

(* A published event is appended to its channel. *)
LEMMA PublishEvents ==
    ASSUME TypeOK, TaskShape, NEW t \in tasks, Publish(t)
    PROVE  /\ t.events \in Seq(Publication) /\ t.events # <<>>
           /\ Head(t.events) \in Publication
           /\ published' = [published EXCEPT ![Head(t.events).channel] =
                               Append(@, Head(t.events).event)]
           /\ \E rest \in Seq(Publication) :
                 /\ rest \in {Tail(t.events), ListChecked(Tail(t.events))}
                 /\ Publishing(t, rest)
<1>1. t.events \in Seq(Publication) /\ t.events # <<>>
    BY TaskFields DEF Publish, TaskShape
<1>2. Head(t.events) \in Publication /\ Tail(t.events) \in Seq(Publication)
    BY <1>1
<1>3. ListChecked(Tail(t.events)) \in Seq(Publication)
    BY <1>2, ListCheckedType
<1> QED
    BY <1>1, <1>2, <1>3 DEF Publish

LEMMA PublishGoesOn ==
    ASSUME TypeOK, TaskShape, NEW t \in tasks, Publish(t)
    PROVE  tasks \ {t} \subseteq tasks' /\ \A u \in tasks' \ tasks : GoesOn(u, t)
BY PublishEvents, PublishingGoesOn, TaskFields

(* Tasks that a step did not begin, go on or end. *)
LEMMA TaskSteps ==
    ASSUME [Next]_vars
    PROVE  \/ UNCHANGED tasks
           \/ OnNotify
           \/ \E ch \in Channels : Subscribe(ch)
           \/ \E t \in tasks :
                 \/ Query(t) \/ ResumeScore(t) \/ ResumePlays(t) \/ ResumeCatchUp(t) \/ Publish(t)
                 \/ QueryError(t) \/ PublishError(t)
<1>1. ASSUME NEW g \in Games, NEW s \in Statuses,
             InsertPlay(g) \/ UpdateGame(g, s) \/ UpdateUnnotified(g, s)
      PROVE  UNCHANGED tasks
    BY <1>1 DEF InsertPlay, UpdateGame, UpdateUnnotified
<1>2. ASSUME NEW kind, NEW g, OtherWrite(kind, g) PROVE UNCHANGED tasks
    BY <1>2 DEF OtherWrite
<1>3. ASSUME NEW t \in open, CommitPlay(t) PROVE UNCHANGED tasks
    BY <1>3 DEF CommitPlay
<1>4. ASSUME NEW ch \in Channels, Listen \/ ListenLost \/ Unsubscribe(ch) PROVE UNCHANGED tasks
    BY <1>4 DEF Listen, ListenLost, Unsubscribe
<1>5. UNCHANGED vars => UNCHANGED tasks
    BY DEF vars
<1> QED
    BY <1>1, <1>2, <1>3, <1>4, <1>5, ListenerAssumption, ChannelType DEF Next

Shaped(u) ==
    /\ u.channel.kind = "pbp" <=> u.kind = "plays"
    /\ u.kind = "score" => u.channel.kind = "summary"
    /\ u.stage = "publish" => u.events # <<>>

LEMMA ShapeStep ==
    ASSUME TypeOK, TaskShape, [Next]_vars
    PROVE  TaskShape'
<1>1. ASSUME NEW u \in tasks PROVE Shaped(u)
    BY DEF TaskShape, Shaped
<1>2. ASSUME NEW u \in tasks' \ tasks PROVE Shaped(u)
    <2>1. CASE OnNotify
        <3>1. (\E g \in Games : ScoreTask(u, g) \/ PlaysTask(u, g)) \/ PublishTask(u)
            BY <2>1, OnNotifyNew
        <3> QED
            BY <3>1, ChannelType DEF ScoreTask, PlaysTask, PublishTask, Shaped
    <2>2. ASSUME NEW ch \in Channels, Subscribe(ch) PROVE Shaped(u)
        <3>1. ch.kind # "pbp" /\ CatchUpTask(u, ch)
            BY <2>2, SubscribeNew
        <3> QED
            BY <3>1 DEF CatchUpTask, Shaped
    <2>3. ASSUME NEW t \in tasks, GoesOn(u, t) PROVE Shaped(u)
        BY <1>1, <2>3 DEF GoesOn, Shaped
    <2>4. ASSUME NEW t \in tasks, QueryError(t) \/ PublishError(t) PROVE FALSE
        BY <2>4 DEF QueryError, PublishError, TaskFails, End
    <2> QED
        BY <2>1, <2>2, <2>3, <2>4, TaskSteps, QueryGoesOn, ResumeGoesOn, PublishGoesOn
<1> QED
    BY <1>1, <1>2 DEF TaskShape, Shaped

Sound(u) == u.kind = "plays" => TaskCovers(u)'

(* It starts at the cursor. *)
LEMMA OnNotifySound ==
    ASSUME TypeOK, CursorInTable, NoPlaySkipped, CoverageKept, OnNotify,
           NEW u \in tasks' \ tasks
    PROVE  Sound(u)
<1> SUFFICES ASSUME u.kind = "plays" PROVE TaskCovers(u)'
    BY DEF Sound
<1>1. PICK g \in Games : PlaysTask(u, g)
    BY OnNotifyNew DEF ScoreTask, PublishTask
<1>2. u.channel.game = g /\ u.stage = "query" /\ u.after = cursor[g]
    BY <1>1, ChannelType DEF PlaysTask
<1>3. plays' = plays
    BY DEF OnNotify, dbVars
<1>4. /\ cursor[g] \in plays'[g] \cup {0}
      /\ \A m \in plays'[g] : m <= cursor[g] => Covered(g, m)'
    BY <1>3 DEF CursorInTable, NoPlaySkipped, CoverageKept
<1> QED
    BY <1>2, <1>4 DEF TaskCovers

(* Its batch has all between the cursor it started at and its last play.    *)
LEMMA QuerySound ==
    ASSUME TypeOK, TaskShape, TasksCover, CoverageKept,
           NEW t \in tasks, Query(t), NEW u \in tasks' \ tasks
    PROVE  Sound(u)
<1> DEFINE g == t.channel.game
           unseen == {n \in plays[g] : n > t.after}
<1>1. t \in Task /\ t.stage = "query" /\ plays' = plays
    BY TaskFields DEF Query, dbVars
<1>2. ASSUME t.kind = "plays" PROVE Sound(u)
    <2>1. g \in Games /\ t.channel.kind = "pbp"
        BY <1>2, TaskFields, ChannelType DEF TaskShape
    <2>2. PICK last \in unseen \cup {t.after} :
            Become(t, [t EXCEPT !.stage = "answer", !.last = last,
                         !.batch = {n \in unseen : n <= last}])
        BY <1>2 DEF Query
    <2>3. u = [t EXCEPT !.stage = "answer", !.last = last, !.batch = {n \in unseen : n <= last}]
        BY <2>2 DEF Become
    <2>4. /\ u.kind = "plays" /\ u.channel = t.channel /\ u.stage = "answer"
          /\ u.after = t.after /\ u.last = last /\ u.batch = {n \in unseen : n <= last}
        BY <1>1, <1>2, <2>3 DEF Task
    <2>5. /\ t.after \in plays[g] \cup {0}
          /\ \A n \in plays[g] : n <= t.after => Covered(g, n)
        BY <1>1, <1>2 DEF TasksCover, TaskCovers
    <2>6. /\ u.after \in plays'[g] \cup {0}
          /\ \A n \in plays'[g] : n <= u.after => Covered(g, n)'
        BY <1>1, <2>1, <2>4, <2>5 DEF CoverageKept
    <2>7. /\ u.last \in plays'[g] \cup {0}
          /\ \A n \in plays'[g] : u.after < n /\ n <= u.last => n \in u.batch
        <3>1. \A n \in plays[g] : n \in Nat
            BY <2>1 DEF TypeOK
        <3>2. t.after \in Nat
            BY <1>1 DEF Task
        <3>3. \A n \in plays[g] : t.after < n => n \in unseen
            BY <3>1, <3>2
        <3> QED
            BY <1>1, <2>4, <2>5, <3>3
    <2>8. TaskCovers(u)'
        BY <2>4, <2>6, <2>7 DEF TaskCovers
    <2> QED
        BY <2>8 DEF Sound
<1>3. u.kind = "plays" => t.kind = "plays"
    BY QueryGoesOn DEF GoesOn
<1> QED
    BY <1>2, <1>3 DEF Sound

(* Its event has its batch. *)
LEMMA ResumeSound ==
    ASSUME TypeOK, TaskShape, TasksCover,
           NEW t \in tasks, ResumeScore(t) \/ ResumePlays(t) \/ ResumeCatchUp(t),
           NEW u \in tasks' \ tasks
    PROVE  Sound(u)
<1> SUFFICES ASSUME u.kind = "plays" PROVE TaskCovers(u)'
    BY DEF Sound
<1>1. t \in Task /\ t.kind = "plays"
    BY TaskFields, ResumeGoesOn DEF GoesOn
<1>2. ResumePlays(t) /\ t.channel = Pbp(t.channel.game)
    BY <1>1, TaskFields, ChannelType DEF ResumeScore, ResumeCatchUp, TaskShape
<1>3. Publishing(t, PlaysEvents(t)) /\ PlaysEvents(t) \in Seq(Publication)
    BY <1>2, ResumePlaysEvents
<1>4. u.channel = t.channel /\ u.stage = "publish" /\ u.events = PlaysEvents(t) /\ u.batch = t.batch
    BY <1>1, <1>3, PublishingNew
<1>5. u.events = <<EventOf(u.channel, u.channel.game, "pbp_append", 0, u.batch)>>
    BY <1>2, <1>4 DEF PlaysEvents
<1> QED
    BY <1>4, <1>5 DEF TaskCovers

(* It has no second event. *)
LEMMA PublishSound ==
    ASSUME TypeOK, TaskShape, TasksCover,
           NEW t \in tasks, Publish(t), NEW u \in tasks' \ tasks
    PROVE  Sound(u)
<1> SUFFICES ASSUME u.kind = "plays" PROVE FALSE
    BY DEF Sound
<1>1. t.kind = "plays" /\ t.stage = "publish"
    BY PublishGoesOn DEF GoesOn, Publish
<1>2. PICK e : t.events = <<e>>
    BY <1>1 DEF TasksCover, TaskCovers
<1>3. Tail(t.events) = <<>>
    BY <1>2
<1> QED
    BY <1>1, <1>3 DEF Publish, Publishing, End

LEMMA TasksStep ==
    ASSUME TypeOK, TaskShape, CommittedInOrder, CursorInTable, TasksCover, NoPlaySkipped,
           PlaysGrow, CoverageKept, [Next]_vars
    PROVE  TaskShape' /\ TasksCover'
<1>1. ASSUME NEW u \in tasks PROVE Sound(u)
    BY TaskStays DEF TasksCover, Sound
<1>2. ASSUME NEW u \in tasks' \ tasks PROVE Sound(u)
    <2>1. ASSUME NEW ch \in Channels, Subscribe(ch) PROVE Sound(u)
        BY <1>2, <2>1, SubscribeNew DEF CatchUpTask, Sound
    <2>2. ASSUME NEW t \in tasks, QueryError(t) \/ PublishError(t) PROVE FALSE
        BY <1>2, <2>2 DEF QueryError, PublishError, TaskFails, End
    <2> QED
        BY <1>2, <2>1, <2>2, TaskSteps, OnNotifySound, QuerySound, ResumeSound, PublishSound
<1>3. TasksCover'
    BY <1>1, <1>2 DEF Sound, TasksCover
<1> QED
    BY <1>3, ShapeStep

-----------------------------------------------------------------------------
(* The cursor. *)

(* It moves when a batch is to be published, to the last play of the batch, *)
(* and is lost when its entry is evicted.                                   *)
LEMMA CursorCases ==
    ASSUME TypeOK, TaskShape, [Next]_vars
    PROVE  \/ UNCHANGED cursor
           \/ \E t \in tasks :
                 /\ ResumePlays(t) /\ t.kind = "plays" /\ t.stage = "answer"
                 /\ t.channel = Pbp(t.channel.game)
                 /\ \A g \in Games : cursor'[g] =
                        IF g = t.channel.game THEN t.last
                        ELSE IF g \in Evicted(cursorOrder, t.channel.game) THEN 0 ELSE cursor[g]
                 /\ Holding(t, <<EventOf(Pbp(t.channel.game), t.channel.game, "pbp_append", 0, t.batch)>>)
                    \in tasks'
<1>1. ASSUME NEW g \in Games, NEW s \in Statuses,
             \/ InsertPlay(g) \/ OtherWrite("flow", g) \/ UpdateGame(g, s)
             \/ UpdateUnnotified(g, s)
      PROVE  UNCHANGED cursor
    BY <1>1 DEF InsertPlay, OtherWrite, UpdateGame, UpdateUnnotified, cacheVars, cursorVars
<1>2. ASSUME OtherWrite("odds", None) \/ Listen \/ ListenLost \/ OnNotify PROVE UNCHANGED cursor
    BY <1>2 DEF OtherWrite, Listen, ListenLost, OnNotify, cacheVars, cursorVars
<1>3. ASSUME NEW t \in open, CommitPlay(t) PROVE UNCHANGED cursor
    BY <1>3 DEF CommitPlay, cacheVars, cursorVars
<1>4. ASSUME NEW ch \in Channels, Subscribe(ch) \/ Unsubscribe(ch) PROVE UNCHANGED cursor
    BY <1>4 DEF Subscribe, Unsubscribe, cacheVars, cursorVars
<1>5. ASSUME NEW t \in tasks,
             \/ Query(t) \/ QueryError(t) \/ ResumeScore(t) \/ ResumeCatchUp(t)
             \/ Publish(t) \/ PublishError(t)
      PROVE  UNCHANGED cursor
    BY <1>5 DEF Query, QueryError, ResumeScore, ResumeCatchUp, Publish, PublishError, cacheVars,
                cursorVars
<1>6. ASSUME NEW t \in tasks, ResumePlays(t), t.batch = {} PROVE UNCHANGED cursor
    BY <1>6 DEF ResumePlays, cursorVars
<1>7. ASSUME NEW t \in tasks, ResumePlays(t), t.batch # {}
      PROVE  /\ t.kind = "plays" /\ t.stage = "answer" /\ t.channel = Pbp(t.channel.game)
             /\ \A g \in Games : cursor'[g] =
                    IF g = t.channel.game THEN t.last
                    ELSE IF g \in Evicted(cursorOrder, t.channel.game) THEN 0 ELSE cursor[g]
             /\ Holding(t, <<EventOf(Pbp(t.channel.game), t.channel.game, "pbp_append", 0, t.batch)>>)
                \in tasks'
    <2> DEFINE e == <<EventOf(Pbp(t.channel.game), t.channel.game, "pbp_append", 0, t.batch)>>
    <2>1. /\ t.kind = "plays" /\ t.stage = "answer"
          /\ t.channel = Pbp(t.channel.game) /\ t.channel.game \in Games
        BY <1>7, TaskFields, ChannelType DEF ResumePlays, TaskShape
    <2>2. cursor' = CacheAfterSet(cursor, cursorOrder, t.channel.game, t.last, 0) /\ Publishing(t, e)
        BY <1>7 DEF ResumePlays
    <2>3. e # <<>> /\ e \in Seq(Publication)
        <3>1. EventOf(Pbp(t.channel.game), t.channel.game, "pbp_append", 0, t.batch) \in Publication
            BY <2>1, EventOfType, TaskFields
        <3> QED
            BY <3>1
    <2> HIDE DEF e
    <2>4. Holding(t, e) \in tasks'
        BY <2>2, <2>3, PublishingCases, TaskFields
    <2> QED
        BY <2>1, <2>2, <2>4 DEF CacheAfterSet, e
<1>8. CASE UNCHANGED vars
    BY <1>8 DEF vars, cacheVars, cursorVars
<1>9. UNCHANGED cursor \/ \E t \in tasks : ResumePlays(t) /\ t.batch # {}
    BY <1>1, <1>2, <1>3, <1>4, <1>5, <1>6, <1>8, ListenerAssumption DEF Next
<1> QED
    BY <1>7, <1>9

LEMMA CursorStep ==
    ASSUME ListenerInv, PlaysGrow, CoverageKept, [Next]_vars
    PROVE  CursorInTable' /\ NoPlaySkipped'
<1> USE DEF ListenerInv
<1>1. \A g \in Games : /\ plays[g] \subseteq plays'[g] /\ plays[g] \subseteq Nat
                       /\ \A n \in plays'[g] \ plays[g] :
                             n \in Nat /\ n >= 1 /\ \A m \in plays[g] : m < n
    BY DEF PlaysGrow, TypeOK
(* A value below which the table was covered, still is one.                 *)
<1>2. ASSUME NEW g \in Games, NEW c \in plays[g] \cup {0},
             \A n \in plays[g] : n <= c => Covered(g, n)'
      PROVE  c \in plays'[g] \cup {0} /\ \A n \in plays'[g] : n <= c => Covered(g, n)'
    <2>1. \A n \in plays'[g] : n <= c => n \in plays[g]
        BY <1>1
    <2> QED
        BY <1>1, <1>2, <2>1
<1>3. ASSUME NEW g \in Games, cursor'[g] \in {cursor[g], 0}
      PROVE  cursor'[g] \in plays'[g] \cup {0} /\ \A n \in plays'[g] : n <= cursor'[g] => Covered(g, n)'
    <2>1. CASE cursor'[g] = cursor[g]
        <3>1. cursor[g] \in plays[g] \cup {0} /\ \A n \in plays[g] : n <= cursor[g] => Covered(g, n)'
            BY DEF CursorInTable, NoPlaySkipped, CoverageKept
        <3>2. /\ cursor[g] \in plays'[g] \cup {0}
              /\ \A n \in plays'[g] : n <= cursor[g] => Covered(g, n)'
            BY <1>2, <3>1
        <3> QED
            BY <2>1, <3>2
    <2>2. CASE cursor'[g] = 0
        <3>1. \A n \in plays[g] : n >= 1
            BY DEF CommittedInOrder, TypeOK
        <3>2. \A n \in plays'[g] : n \in Nat /\ n >= 1
            BY <1>1, <3>1
        <3> QED
            BY <2>2, <3>2
    <2> QED
        BY <1>3, <2>1, <2>2
<1>4. ASSUME NEW t \in tasks, ResumePlays(t), t.kind = "plays", t.stage = "answer",
             t.channel = Pbp(t.channel.game), t.channel.game \in Games,
             Holding(t, <<EventOf(Pbp(t.channel.game), t.channel.game, "pbp_append", 0, t.batch)>>) \in tasks'
      PROVE  /\ t.last \in plays'[t.channel.game] \cup {0}
             /\ \A n \in plays'[t.channel.game] : n <= t.last => Covered(t.channel.game, n)'
    <2> DEFINE g == t.channel.game
               u == Holding(t, <<EventOf(Pbp(g), g, "pbp_append", 0, t.batch)>>)
    <2>1. t \in Task /\ t.after \in Nat /\ t.last \in Nat
        BY TaskFields DEF Task
    <2>2. u.stage = "publish" /\ u.channel = Pbp(g) /\ u.batch = t.batch
        BY <1>4, <2>1 DEF Holding, Task
    <2>3. \A n \in t.batch : Covered(g, n)'
        <3>1. u \in tasks'
            BY <1>4
        <3> HIDE DEF u
        <3>2. t.batch \subseteq PlaysHeld(g)'
            BY <2>2, <3>1 DEF PlaysHeld
        <3> QED
            BY <3>2 DEF Covered
    <2>4. /\ \A n \in plays[g] : n <= t.after => Covered(g, n)
          /\ t.last \in plays[g] \cup {0}
          /\ \A n \in plays[g] : t.after < n /\ n <= t.last => n \in t.batch
        BY <1>4 DEF TasksCover, TaskCovers
    <2>5. \A n \in plays[g] : n <= t.last => Covered(g, n)'
        BY <1>1, <1>4, <2>1, <2>3, <2>4 DEF CoverageKept
    <2> QED
        BY <1>2, <1>4, <2>4, <2>5
<1>5. ASSUME NEW g \in Games
      PROVE  cursor'[g] \in plays'[g] \cup {0} /\ \A n \in plays'[g] : n <= cursor'[g] => Covered(g, n)'
    <2>1. CASE UNCHANGED cursor
        BY <1>3, <2>1
    <2>2. ASSUME NEW t \in tasks, ResumePlays(t), t.kind = "plays", t.stage = "answer",
                 t.channel = Pbp(t.channel.game),
                 cursor'[g] = IF g = t.channel.game THEN t.last
                              ELSE IF g \in Evicted(cursorOrder, t.channel.game) THEN 0 ELSE cursor[g],
                 Holding(t, <<EventOf(Pbp(t.channel.game), t.channel.game, "pbp_append", 0, t.batch)>>) \in tasks'
          PROVE  cursor'[g] \in plays'[g] \cup {0} /\ \A n \in plays'[g] : n <= cursor'[g] => Covered(g, n)'
        <3>1. CASE g = t.channel.game
            BY <1>4, <2>2, <3>1
        <3>2. CASE g # t.channel.game
            BY <1>3, <2>2, <3>2
        <3> QED
            BY <3>1, <3>2
    <2> QED
        BY <2>1, <2>2, CursorCases
<1> QED
    BY <1>5 DEF CursorInTable, NoPlaySkipped

-----------------------------------------------------------------------------
LEMMA ListenerInit == Init => ListenerInv
<1> SUFFICES ASSUME Init PROVE ListenerInv
    OBVIOUS
<1>1. TypeOK /\ CommittedInOrder
    BY TypeInit, CommittedInit
<1>2. TaskShape /\ TasksCover
    BY DEF Init, TaskShape, TasksCover
<1>3. CursorInTable /\ NoPlaySkipped
    BY DEF Init, CursorInTable, NoPlaySkipped
<1> QED
    BY <1>1, <1>2, <1>3 DEF ListenerInv

LEMMA ListenerStep == NoOverlap /\ ListenerInv /\ [Next]_vars => ListenerInv'
<1> SUFFICES ASSUME NoOverlap, ListenerInv, [Next]_vars PROVE ListenerInv'
    OBVIOUS
<1>1. TypeOK'
    BY TypeStep DEF ListenerInv
<1>2. PlaysGrow /\ CommittedInOrder'
    BY TableStep DEF ListenerInv
<1>3. CoverageKept
    BY CoverageStep DEF ListenerInv
<1>4. TaskShape' /\ TasksCover'
    BY <1>2, <1>3, TasksStep DEF ListenerInv
<1>5. CursorInTable' /\ NoPlaySkipped'
    BY <1>2, <1>3, CursorStep
<1> QED
    BY <1>1, <1>2, <1>4, <1>5 DEF ListenerInv

(* The inductive invariant of one process' listener, for any number of      *)
(* games, subscriptions and tasks: what _handle_pbp_change and its cursor   *)
(* keep when the transactions that write a game's plays do not overlap.     *)
THEOREM ListenerInvariant == NoOverlap => (Spec => []ListenerInv)
<1> SUFFICES ASSUME NoOverlap PROVE Spec => []ListenerInv
    OBVIOUS
<1>1. Init => ListenerInv
    BY ListenerInit
<1>2. ListenerInv /\ [Next]_vars => ListenerInv'
    BY ListenerStep
<1> QED
    BY <1>1, <1>2, PTL DEF Spec

(* The cursor of a game never passes a committed play that was neither      *)
(* published nor is about to be nor was lost by a failed publish(), however *)
(* the tasks interleave and whatever is evicted, lost or fails.             *)
THEOREM CursorSkipsNoPlay == NoOverlap => (Spec => []NoPlaySkipped)
<1>1. ListenerInv => NoPlaySkipped
    BY DEF ListenerInv
<1> QED
    BY <1>1, ListenerInvariant, PTL

-----------------------------------------------------------------------------
(* Why NotifiedRowServed is kept: until the subscribers of a channel have   *)
(* been sent the row they are owed, a notification of it is on its way, or  *)
(* a task will query it, has read it or is about to publish it.  What a     *)
(* task does for a channel it does unless the list is without subscribers.  *)
NotifiedOf(kind, g) == \E i \in 1 .. Len(inbox) : inbox[i] = [kind |-> kind, game |-> g]

Asks(t, ch, g) ==
    \/ t.kind = "catchup" /\ t.channel = ch
    \/ /\ t.kind = "score" /\ t.channel = Summary(g)
       /\ ch = Summary(g) => t.summary
       /\ ch = List => t.list

Serves(e, ch, g, version) ==
    /\ e.channel = ch /\ e.event.game = g /\ e.event.type # "flow_published"
    /\ e.event.version >= version

Holds(events, ch, g, version) ==
    \E i \in 1 .. Len(events) : Serves(events[i], ch, g, version) /\ (ch = List \/ i = 1)

WillShow(t, ch, g, version) ==
    /\ t.channel \in {Summary(g), List}
    /\ \/ t.stage = "query" /\ Asks(t, ch, g)
       \/ t.stage = "answer" /\ Asks(t, ch, g) /\ t.rows[g].version >= version
       \/ t.stage = "publish" /\ Holds(t.events, ch, g, version)

InHand(ch, g) ==
    \/ Shows(ch, g, owed[ch][g])
    \/ NotifiedOf("score", g)
    \/ \E t \in tasks : WillShow(t, ch, g, owed[ch][g])

RowInHand == \A g \in Games \ missed : \A ch \in subs \cap {Summary(g), List} : InHand(ch, g)

(* Nobody is owed more than the table has. *)
OwedInTable == \A ch \in Channels, g \in Games : owed[ch][g] <= row[g].version

SinceInPublished == \A ch \in Channels : ch.kind # "pbp" => since[ch] <= Len(published[ch])

(* Events are only appended, and a running subscription goes on. *)
PublishedGrows ==
    \A ch \in Channels :
        /\ Len(published[ch]) <= Len(published'[ch])
        /\ \A i \in 1 .. Len(published[ch]) : published'[ch][i] = published[ch][i]

LEMMA PublishGrows ==
    ASSUME TypeOK, TaskShape, NEW t \in tasks, Publish(t)
    PROVE  /\ PublishedGrows
           /\ LET ch == Head(t.events).channel
              IN  /\ ch \in Channels
                  /\ Len(published'[ch]) = Len(published[ch]) + 1
                  /\ published'[ch][Len(published[ch]) + 1] = Head(t.events).event
<1> DEFINE c == Head(t.events).channel
           e == Head(t.events).event
<1>1. c \in Channels /\ e \in Event /\ published' = [published EXCEPT ![c] = Append(@, e)]
    BY PublishEvents DEF Publication
<1> HIDE DEF c, e
<1>2. ASSUME NEW ch \in Channels
      PROVE  /\ published[ch] \in Seq(Event)
             /\ published'[ch] = IF ch = c THEN Append(published[ch], e) ELSE published[ch]
    BY <1>1 DEF TypeOK
<1>3. ASSUME NEW ch \in Channels
      PROVE  /\ Len(published[ch]) <= Len(published'[ch])
             /\ \A i \in 1 .. Len(published[ch]) : published'[ch][i] = published[ch][i]
    BY <1>1, <1>2
<1>4. Len(published'[c]) = Len(published[c]) + 1 /\ published'[c][Len(published[c]) + 1] = e
    <2>1. published[c] \in Seq(Event) /\ published'[c] = Append(published[c], e)
        BY <1>1, <1>2
    <2> QED
        BY <1>1, <2>1
<1> QED
    BY <1>1, <1>3, <1>4 DEF PublishedGrows, c, e

(* Only Publish publishes. *)
LEMMA PublishedStep ==
    ASSUME TypeOK, TaskShape, [Next]_vars
    PROVE  PublishedGrows
<1>1. UNCHANGED published => PublishedGrows
    BY DEF PublishedGrows, TypeOK
<1>2. UNCHANGED published \/ \E t \in tasks : Publish(t)
    <2>1. ASSUME NEW t \in tasks, PublishError(t) PROVE UNCHANGED published
        BY <2>1 DEF PublishError
    <2> QED
        BY <2>1, TaskCases
<1> QED
    BY <1>1, <1>2, PublishGrows

LEMMA SinceStep ==
    ASSUME TypeOK, TaskShape, SinceInPublished, [Next]_vars
    PROVE  SinceInPublished'
<1>1. \/ UNCHANGED since
      \/ \E ch \in Channels : Subscribe(ch) \/ Unsubscribe(ch)
    <2>1. ASSUME NEW g \in Games, NEW s \in Statuses,
                 InsertPlay(g) \/ UpdateGame(g, s) \/ UpdateUnnotified(g, s)
          PROVE  UNCHANGED since
        BY <2>1 DEF InsertPlay, UpdateGame, UpdateUnnotified, subVars
    <2>2. ASSUME NEW kind, NEW g, OtherWrite(kind, g) PROVE UNCHANGED since
        BY <2>2 DEF OtherWrite, subVars
    <2>3. ASSUME NEW t \in open, CommitPlay(t) PROVE UNCHANGED since
        BY <2>3 DEF CommitPlay, subVars
    <2>4. ASSUME Listen \/ ListenLost \/ OnNotify PROVE UNCHANGED since
        BY <2>4 DEF Listen, ListenLost, OnNotify, subVars
    <2>5. ASSUME NEW t \in tasks,
                 \/ Query(t) \/ QueryError(t) \/ ResumeScore(t) \/ ResumePlays(t)
                 \/ ResumeCatchUp(t) \/ Publish(t) \/ PublishError(t)
          PROVE  UNCHANGED since
        BY <2>5 DEF Query, QueryError, ResumeScore, ResumePlays, ResumeCatchUp, Publish,
                    PublishError, subVars
    <2>6. UNCHANGED vars => UNCHANGED since
        BY DEF vars, subVars
    <2> QED
        BY <2>1, <2>2, <2>3, <2>4, <2>5, <2>6, ListenerAssumption DEF Next
<1>2. PublishedGrows /\ TypeOK'
    BY PublishedStep, TypeStep
<1>3. ASSUME NEW ch \in Channels
      PROVE  /\ since[ch] \in Nat /\ Len(published[ch]) \in Nat /\ Len(published'[ch]) \in Nat
             /\ Len(published[ch]) <= Len(published'[ch])
    <2>1. since[ch] \in Nat /\ published[ch] \in Seq(Event)
        BY DEF TypeOK
    <2>2. published'[ch] \in Seq(Event)
        BY <1>2 DEF TypeOK
    <2> QED
        BY <1>2, <2>1, <2>2 DEF PublishedGrows
<1>4. ASSUME NEW ch \in Channels, ch.kind # "pbp",
             since'[ch] \in {since[ch], 0, Len(published[ch])}
      PROVE  since'[ch] <= Len(published'[ch])
    BY <1>3, <1>4 DEF SinceInPublished
<1>5. ASSUME NEW ch \in Channels, ch.kind # "pbp"
      PROVE  since'[ch] \in {since[ch], 0, Len(published[ch])}
    <2>1. ASSUME NEW c \in Channels, Subscribe(c)
          PROVE  since'[ch] \in {since[ch], 0, Len(published[ch])}
        BY <1>5, <2>1 DEF Subscribe, TypeOK
    <2>2. ASSUME NEW c \in Channels, Unsubscribe(c)
          PROVE  since'[ch] \in {since[ch], 0, Len(published[ch])}
        BY <2>2 DEF Unsubscribe, TypeOK
    <2> QED
        BY <1>1, <2>1, <2>2
<1> QED
    BY <1>4, <1>5 DEF SinceInPublished

(* What was shown stays shown, as long as no more is owed.                  *)
LEMMA ShownKept ==
    ASSUME TypeOK, TypeOK', PublishedGrows, NEW ch \in Channels, NEW g,
           owed'[ch][g] = owed[ch][g], since'[ch] = since[ch], Shows(ch, g, owed[ch][g])
    PROVE  Shows(ch, g, owed[ch][g])'
<1>1. PICK i \in since[ch] + 1 .. Len(published[ch]) :
        /\ published[ch][i].game = g
        /\ published[ch][i].type # "flow_published"
        /\ published[ch][i].version >= owed[ch][g]
    BY DEF Shows
<1>2. since[ch] \in Nat /\ published[ch] \in Seq(Event) /\ published'[ch] \in Seq(Event)
    BY DEF TypeOK
<1>3. i \in 1 .. Len(published[ch])
    BY <1>1, <1>2
<1>4. published'[ch][i] = published[ch][i] /\ i \in since'[ch] + 1 .. Len(published'[ch])
    BY <1>1, <1>2, <1>3 DEF PublishedGrows
<1>5. /\ published'[ch][i].game = g
      /\ published'[ch][i].type # "flow_published"
      /\ published'[ch][i].version >= owed'[ch][g]
    BY <1>1, <1>4
<1> QED
    BY <1>4, <1>5 DEF Shows

(* A step that leaves what is owed and a subscription as they are keeps the *)
(* row in hand, if it does not drop the notification and the tasks.         *)
LEMMA HandKept ==
    ASSUME TypeOK, TypeOK', PublishedGrows, NEW ch \in Channels, NEW g, InHand(ch, g),
           owed'[ch][g] = owed[ch][g], since'[ch] = since[ch],
           NotifiedOf("score", g) => InHand(ch, g)',
           \A t \in tasks : WillShow(t, ch, g, owed[ch][g]) => t \in tasks' \/ InHand(ch, g)'
    PROVE  InHand(ch, g)'
<1>1. CASE Shows(ch, g, owed[ch][g])
    BY <1>1, ShownKept DEF InHand
<1>2. ASSUME NEW t \in tasks, WillShow(t, ch, g, owed[ch][g]), t \in tasks'
      PROVE  InHand(ch, g)'
    BY <1>2 DEF InHand
<1> QED
    BY <1>1, <1>2 DEF InHand

(* The steps of the writers.                                                *)
LEMMA NotifyKeeps ==
    ASSUME TypeOK, NEW kind \in WriteKinds, NEW g \in Games \cup {None},
           kind = "odds" <=> g = None, Notify(kind, g)
    PROVE  /\ missed \subseteq missed'
           /\ \A k, h : NotifiedOf(k, h) => NotifiedOf(k, h)'
           /\ g \in Games \ missed' => NotifiedOf(kind, g)'
<1> DEFINE n == [kind |-> kind, game |-> g]
<1>1. n \in Notification /\ inbox \in Seq(Notification)
    BY DEF Notification, TypeOK
<1>2. \/ inbox' = inbox /\ missed' = missed \cup ({g} \cap Games)
      \/ inbox' = Append(inbox, n) /\ missed' = missed
    BY DEF Notify
<1> HIDE DEF n
<1>3. ASSUME inbox' = Append(inbox, n)
      PROVE  /\ \A k, h : NotifiedOf(k, h) => NotifiedOf(k, h)'
             /\ \E i \in 1 .. Len(inbox') : inbox'[i] = n
    <2>1. /\ Len(inbox') = Len(inbox) + 1 /\ inbox'[Len(inbox) + 1] = n
          /\ \A i \in 1 .. Len(inbox) : inbox'[i] = inbox[i] /\ i \in 1 .. Len(inbox')
        BY <1>1, <1>3
    <2>2. Len(inbox) + 1 \in 1 .. Len(inbox')
        BY <1>1, <2>1
    <2> QED
        BY <2>1, <2>2 DEF NotifiedOf
<1>4. inbox' = inbox => \A k, h : NotifiedOf(k, h) => NotifiedOf(k, h)'
    BY DEF NotifiedOf
<1>5. (\E i \in 1 .. Len(inbox') : inbox'[i] = n) => NotifiedOf(kind, g)'
    BY DEF NotifiedOf, n
<1> QED
    BY <1>2, <1>3, <1>4, <1>5

(* What notifies of a game has it in hand; what changes no row keeps it.    *)
LEMMA HandWritten ==
    ASSUME TypeOK, TypeOK', RowInHand, PublishedGrows,
           UNCHANGED <<subs, since, tasks>>, missed \subseteq missed',
           \A h : NotifiedOf("score", h) => NotifiedOf("score", h)',
           \A g \in Games \ missed' :
               (\A ch \in Channels : owed'[ch][g] = owed[ch][g]) \/ NotifiedOf("score", g)'
    PROVE  RowInHand'
<1> SUFFICES ASSUME NEW g \in Games \ missed', NEW ch \in subs' \cap {Summary(g), List}
             PROVE  InHand(ch, g)'
    BY DEF RowInHand
<1>1. g \in Games \ missed /\ ch \in subs \cap {Summary(g), List} /\ ch \in Channels
    BY DEF TypeOK
<1>2. InHand(ch, g)
    BY <1>1 DEF RowInHand
<1>3. NotifiedOf("score", g)' => InHand(ch, g)'
    BY DEF InHand
<1> QED
    BY <1>1, <1>2, <1>3, HandKept

LEMMA WriterKeepsHand ==
    ASSUME TypeOK, TypeOK', RowInHand, PublishedGrows,
           \/ \E g \in Games : InsertPlay(g)
           \/ \E g \in Games, s \in Statuses : UpdateGame(g, s) \/ UpdateUnnotified(g, s)
           \/ \E t \in open : CommitPlay(t)
           \/ \E kind \in WriteKinds, g \in Games \cup {None} :
                 (kind = "odds" <=> g = None) /\ OtherWrite(kind, g)
    PROVE  RowInHand'
<1>1. ASSUME NEW g \in Games, InsertPlay(g) PROVE RowInHand'
    <2>1. UNCHANGED <<owed, inbox, missed, subs, since, tasks>>
        BY <1>1 DEF InsertPlay, connectionVars, subVars
    <2> QED
        BY <2>1, HandWritten DEF NotifiedOf
<1>2. ASSUME NEW g \in Games, NEW s \in Statuses, UpdateGame(g, s) PROVE RowInHand'
    <2>1. Notify("score", g) /\ "score" \in WriteKinds /\ g # None
        BY <1>2, ListenerAssumption DEF UpdateGame, WriteKinds
    <2>2. /\ missed \subseteq missed'
          /\ \A k, h : NotifiedOf(k, h) => NotifiedOf(k, h)'
          /\ g \in Games \ missed' => NotifiedOf("score", g)'
        BY <2>1, NotifyKeeps
    <2>3. \A h \in Games : h # g => \A ch \in Channels : owed'[ch][h] = owed[ch][h]
        BY <1>2 DEF UpdateGame, TypeOK
    <2>4. UNCHANGED <<subs, since, tasks>>
        BY <1>2 DEF UpdateGame
    <2> QED
        BY <2>2, <2>3, <2>4, HandWritten
<1>2a. ASSUME NEW g \in Games, NEW s \in Statuses, UpdateUnnotified(g, s) PROVE RowInHand'
    <2>1. UNCHANGED <<owed, inbox, missed, subs, since, tasks>>
        BY <1>2a DEF UpdateUnnotified, connectionVars, subVars
    <2> QED
        BY <2>1, HandWritten DEF NotifiedOf
<1>3. ASSUME NEW t \in open, CommitPlay(t) PROVE RowInHand'
    <2>1. Notify("plays", t.game) /\ "plays" \in WriteKinds /\ t.game \in Games /\ t.game # None
        BY <1>3, ListenerAssumption DEF CommitPlay, WriteKinds, TypeOK
    <2>2. missed \subseteq missed' /\ \A k, h : NotifiedOf(k, h) => NotifiedOf(k, h)'
        BY <2>1, NotifyKeeps
    <2>3. UNCHANGED <<owed, subs, since, tasks>>
        BY <1>3 DEF CommitPlay, subVars
    <2> QED
        BY <2>2, <2>3, HandWritten
<1>4. ASSUME NEW kind \in WriteKinds, NEW g \in Games \cup {None}, kind = "odds" <=> g = None,
             OtherWrite(kind, g)
      PROVE  RowInHand'
    <2>1. Notify(kind, g)
        BY <1>4 DEF OtherWrite
    <2>2. missed \subseteq missed' /\ \A k, h : NotifiedOf(k, h) => NotifiedOf(k, h)'
        BY <1>4, <2>1, NotifyKeeps
    <2>3. UNCHANGED <<owed, subs, since, tasks>>
        BY <1>4 DEF OtherWrite, subVars
    <2> QED
        BY <2>2, <2>3, HandWritten
<1> QED
    BY <1>1, <1>2, <1>2a, <1>3, <1>4

(* A lost connection: what was on its way is missed. *)
LEMMA ConnectionKeepsHand ==
    ASSUME TypeOK, TypeOK', RowInHand, PublishedGrows, Listen \/ ListenLost
    PROVE  RowInHand'
<1> SUFFICES ASSUME NEW g \in Games \ missed', NEW ch \in subs' \cap {Summary(g), List}
             PROVE  InHand(ch, g)'
    BY DEF RowInHand
<1>1. UNCHANGED <<owed, subs, since, tasks>> /\ missed \subseteq missed'
    BY DEF Listen, ListenLost, dbVars, subVars
<1>2. ch \in Channels /\ InHand(ch, g)
    BY <1>1 DEF TypeOK, RowInHand
<1>3. CASE Listen
    <2>1. NotifiedOf("score", g) => NotifiedOf("score", g)'
        BY <1>3 DEF Listen, NotifiedOf
    <2> QED
        BY <1>1, <1>2, <2>1, HandKept DEF InHand
<1>4. CASE ListenLost
    <2>1. ASSUME NotifiedOf("score", g) PROVE FALSE
        <3>1. PICK i \in 1 .. Len(inbox) : inbox[i] = [kind |-> "score", game |-> g]
            BY <2>1 DEF NotifiedOf
        <3>2. inbox[i].game = g
            BY <3>1
        <3> QED
            BY <1>4, <3>2 DEF ListenLost
    <2> QED
        BY <1>1, <1>2, <2>1, HandKept
<1> QED
    BY <1>3, <1>4

(* A notification that is taken starts a task, when anybody is subscribed.  *)
LEMMA NotifyKeepsHand ==
    ASSUME TypeOK, TypeOK', RowInHand, PublishedGrows, OnNotify
    PROVE  RowInHand'
<1> SUFFICES ASSUME NEW g \in Games \ missed', NEW ch \in subs' \cap {Summary(g), List}
             PROVE  InHand(ch, g)'
    BY DEF RowInHand
<1>1. UNCHANGED <<owed, missed, subs, since>> /\ inbox' = Tail(inbox) /\ inbox # <<>>
    BY DEF OnNotify, dbVars, subVars
<1>2. ch \in Channels /\ InHand(ch, g)
    BY <1>1 DEF TypeOK, RowInHand
<1>3. ASSUME NotifiedOf("score", g) PROVE InHand(ch, g)'
    <2>1. PICK i \in 1 .. Len(inbox) : inbox[i] = [kind |-> "score", game |-> g]
        BY <1>3 DEF NotifiedOf
    <2>2. inbox \in Seq(Notification)
        BY DEF TypeOK
    <2>3. CASE i = 1
        <3>1. Head(inbox) = [kind |-> "score", game |-> g]
            BY <1>1, <2>1, <2>2, <2>3
        <3>2. ch \in subs /\ ch \in {Summary(g), List}
            BY <1>1
        <3>3. PICK u \in tasks' : ScoreTask(u, g)
            BY <3>1, <3>2, OnNotifyNew
        <3>4. WillShow(u, ch, g, owed'[ch][g])
            BY <3>2, <3>3 DEF ScoreTask, WillShow, Asks
        <3> QED
            BY <3>4 DEF InHand
    <2>4. CASE i # 1
        <3>1. i - 1 \in 1 .. Len(inbox') /\ inbox'[i - 1] = inbox[i]
            BY <1>1, <2>1, <2>2, <2>4
        <3>2. NotifiedOf("score", g)'
            BY <2>1, <3>1 DEF NotifiedOf
        <3> QED
            BY <3>2 DEF InHand
    <2> QED
        BY <2>3, <2>4
<1> QED
    BY <1>1, <1>2, <1>3, OnNotifyNew, HandKept

(* The first subscriber of a channel has its catch-up. *)
LEMMA SubscribersKeepHand ==
    ASSUME TypeOK, TypeOK', RowInHand, PublishedGrows, NEW c \in Channels,
           Subscribe(c) \/ Unsubscribe(c)
    PROVE  RowInHand'
<1> SUFFICES ASSUME NEW g \in Games \ missed', NEW ch \in subs' \cap {Summary(g), List}
             PROVE  InHand(ch, g)'
    BY DEF RowInHand
<1>1. UNCHANGED <<missed, inbox>> /\ ch \in Channels /\ tasks \subseteq tasks'
    BY SubscribeNew DEF Subscribe, Unsubscribe, dbVars, connectionVars, TypeOK
<1>2. CASE ch # c
    <2>1. ch \in subs /\ since'[ch] = since[ch] /\ owed'[ch] = owed[ch]
        BY <1>1, <1>2 DEF Subscribe, Unsubscribe, TypeOK
    <2>2. InHand(ch, g)
        BY <1>1, <2>1 DEF RowInHand
    <2>3. NotifiedOf("score", g) => InHand(ch, g)'
        BY <1>1 DEF NotifiedOf, InHand
    <2> QED
        BY <1>1, <2>1, <2>2, <2>3, HandKept
<1>3. CASE ch = c
    <2>1. Subscribe(c)
        BY <1>3 DEF Unsubscribe
    <2>2. ch.kind \in {"summary", "list"}
        BY ChannelType
    <2>3. PICK u \in tasks' : CatchUpTask(u, c)
        BY <1>3, <2>1, <2>2, SubscribeNew
    <2>4. WillShow(u, ch, g, owed'[ch][g])
        BY <1>3, <2>2, <2>3 DEF CatchUpTask, WillShow, Asks
    <2> QED
        BY <2>3, <2>4 DEF InHand
<1> QED
    BY <1>2, <1>3

(* A task in hand may only end by publishing. *)
LEMMA TaskKeepsHand ==
    ASSUME TypeOK, TypeOK', RowInHand, PublishedGrows, NEW t \in tasks,
           tasks \ {t} \subseteq tasks', UNCHANGED <<owed, inbox, subs, since>>,
           missed \subseteq missed',
           \A g \in Games \ missed' : \A ch \in subs \cap {Summary(g), List} :
               WillShow(t, ch, g, owed[ch][g]) => InHand(ch, g)'
    PROVE  RowInHand'
<1> SUFFICES ASSUME NEW g \in Games \ missed', NEW ch \in subs' \cap {Summary(g), List}
             PROVE  InHand(ch, g)'
    BY DEF RowInHand
<1>1. g \in Games \ missed /\ ch \in subs \cap {Summary(g), List} /\ ch \in Channels
    BY DEF TypeOK
<1>2. InHand(ch, g)
    BY <1>1 DEF RowInHand
<1>3. NotifiedOf("score", g) => InHand(ch, g)'
    BY DEF NotifiedOf, InHand
<1>4. ASSUME NEW u \in tasks, WillShow(u, ch, g, owed[ch][g])
      PROVE  u \in tasks' \/ InHand(ch, g)'
    <2>1. CASE u = t
        BY <1>1, <1>4, <2>1
    <2>2. CASE u # t
        BY <2>2
    <2> QED
        BY <2>1, <2>2
<1> QED
    BY <1>1, <1>2, <1>3, <1>4, HandKept

LEMMA QueryKeepsHand ==
    ASSUME TypeOK, TypeOK', OwedInTable, RowInHand, PublishedGrows, NEW t \in tasks, Query(t)
    PROVE  RowInHand'
<1>1. /\ tasks \ {t} \subseteq tasks' /\ t \in Task /\ t.stage = "query"
      /\ UNCHANGED <<owed, inbox, missed, subs, since>>
    BY QueryGoesOn, TaskFields DEF Query, dbVars, connectionVars, subVars
<1>2. ASSUME NEW g \in Games, NEW ch \in subs \cap {Summary(g), List},
             WillShow(t, ch, g, owed[ch][g])
      PROVE  InHand(ch, g)'
    <2> DEFINE u == [t EXCEPT !.stage = "answer", !.rows = row]
    <2>1. t.kind \in {"score", "catchup"}
        BY <1>1, <1>2 DEF WillShow, Asks
    <2>2. u \in tasks'
        BY <2>1 DEF Query, Become
    <2>3. /\ u.channel = t.channel /\ u.kind = t.kind /\ u.stage = "answer"
          /\ u.summary = t.summary /\ u.list = t.list /\ u.rows = row
        BY <1>1 DEF Task
    <2>4. u.rows[g].version >= owed'[ch][g]
        <3>1. row[g].version \in Nat /\ owed[ch][g] \in Nat /\ owed[ch][g] <= row[g].version
            BY DEF TypeOK, Row, OwedInTable
        <3> QED
            BY <1>1, <2>3, <3>1
    <2> HIDE DEF u
    <2>5. WillShow(u, ch, g, owed'[ch][g])
        BY <1>1, <1>2, <2>3, <2>4 DEF WillShow, Asks
    <2> QED
        BY <2>2, <2>5 DEF InHand
<1> QED
    BY <1>1, <1>2, TaskKeepsHand

LEMMA FailureKeepsHand ==
    ASSUME TypeOK, TypeOK', RowInHand, PublishedGrows, NEW t \in tasks,
           QueryError(t) \/ PublishError(t)
    PROVE  RowInHand'
<1>1. /\ tasks' = tasks \ {t} /\ UNCHANGED <<owed, inbox, subs, since>>
      /\ missed' = missed \cup (IF t.channel \in {List, Odds} THEN Games ELSE {t.channel.game})
    BY DEF QueryError, PublishError, TaskFails, End, dbVars, subVars
<1>2. ASSUME NEW g \in Games \ missed', NEW ch, WillShow(t, ch, g, owed[ch][g])
      PROVE  FALSE
    <2>1. t.channel \in {Summary(g), List}
        BY <1>2 DEF WillShow
    <2> QED
        BY <1>1, <2>1, ChannelType
<1> QED
    BY <1>1, <1>2, TaskKeepsHand

LEMMA PublishingHolds ==
    ASSUME NEW t \in Task, NEW events \in Seq(Publication), Publishing(t, events),
           NEW g, NEW ch, NEW v, t.channel \in {Summary(g), List}, Holds(events, ch, g, v)
    PROVE  \E u \in tasks' : WillShow(u, ch, g, v)
<1> DEFINE u == Holding(t, events)
<1>1. events # <<>>
    BY DEF Holds
<1>2. u \in tasks'
    BY <1>1, PublishingCases
<1>3. u.channel = t.channel /\ u.stage = "publish" /\ u.events = events
    BY DEF Holding, Task
<1> HIDE DEF u
<1>4. WillShow(u, ch, g, v)
    BY <1>3 DEF WillShow
<1> QED
    BY <1>2, <1>4

(* What a score task has read is in its events. *)
LEMMA ScoreEventsHold ==
    ASSUME TypeOK, TaskShape, NEW t \in tasks, t.kind = "score",
           NEW g \in Games, NEW ch \in subs \cap {Summary(g), List}, NEW v \in Nat,
           Asks(t, ch, g), t.rows[g].version >= v
    PROVE  Holds(ScoreEvents(t), ch, g, v)
<1> DEFINE got == t.rows[g]
           type == IF statusCache[g] \notin {None, got.status} THEN "phase_change" ELSE "patch"
           forSummary == EventOf(Summary(g), g, type, got.version, {})
           forList == EventOf(List, g, type, got.version, {})
           A == IF t.summary THEN <<forSummary>> ELSE <<>>
           B == IF t.list THEN <<forList>> ELSE <<>>
<1>1. /\ t.channel = Summary(g) /\ t.channel.game = g
      /\ ch = Summary(g) => t.summary
      /\ ch = List => t.list
    BY ChannelType DEF Asks
<1>2. ScoreEvents(t) = ListChecked(A \o B)
    BY <1>1 DEF ScoreEvents
<1>3. /\ forSummary.channel = Summary(g) /\ forList.channel = List
      /\ Serves(forSummary, Summary(g), g, v) /\ Serves(forList, List, g, v)
    BY DEF EventOf, Serves
<1> HIDE DEF forSummary, forList
<1>4. Summary(g) # List
    BY ChannelType
<1>5. CASE ch = Summary(g)
    <2>1. A = <<forSummary>>
        BY <1>1, <1>5
    <2>2. 1 \in 1 .. Len(A \o B) /\ A \o B # <<>> /\ (A \o B)[1] = forSummary
        BY <2>1
    <2>3. ScoreEvents(t) = A \o B
        BY <1>2, <1>3, <1>4, <2>1, <2>2 DEF ListChecked
    <2> HIDE DEF A, B, type, got
    <2>4. 1 \in 1 .. Len(ScoreEvents(t)) /\ Serves(ScoreEvents(t)[1], ch, g, v)
        BY <1>3, <1>5, <2>2, <2>3
    <2> QED
        BY <2>4 DEF Holds
<1>6. CASE ch = List
    <2>1. B = <<forList>>
        BY <1>1, <1>6
    <2>2. ScoreEvents(t) = A \o B
        BY <1>2, <1>6 DEF ListChecked
    <2>3. PICK i \in 1 .. Len(A \o B) : (A \o B)[i] = forList
        BY <2>1
    <2> HIDE DEF A, B
    <2>4. i \in 1 .. Len(ScoreEvents(t)) /\ Serves(ScoreEvents(t)[i], ch, g, v)
        BY <1>3, <1>6, <2>2, <2>3
    <2> HIDE DEF type, got
    <2>5. \E k \in 1 .. Len(ScoreEvents(t)) : Serves(ScoreEvents(t)[k], ch, g, v) /\ (ch = List \/ k = 1)
        BY <1>6, <2>4
    <2> QED
        BY <2>5 DEF Holds
<1> QED
    BY <1>5, <1>6

(* A catch-up of the list publishes every game. *)
LEMMA OrderOnto ==
    ASSUME NEW order \in [1 .. Cardinality(Games) -> Games],
           \A i, j \in DOMAIN order : order[i] = order[j] => i = j,
           NEW g \in Games
    PROVE  \E i \in 1 .. Cardinality(Games) : order[i] = g
<1> DEFINE S == 1 .. Cardinality(Games)
<1>1. Cardinality(Games) \in Nat /\ IsFiniteSet(Games)
    BY ListenerAssumption, FS_CardinalityType
<1>2. Cardinality(S) = Cardinality(Games)
    BY <1>1, FS_Interval
<1>3. order \in Injection(S, Games)
    BY DEF Injection, IsInjective
<1>4. order \in Surjection(S, Games)
    BY <1>1, <1>2, <1>3, FS_Injection
<1> QED
    BY <1>4 DEF Surjection

LEMMA CatchUpEventsHold ==
    ASSUME TypeOK, NEW t \in tasks, NEW g \in Games, NEW ch \in {Summary(g), List}, NEW v \in Nat,
           t.channel = ch, t.rows[g].version >= v,
           NEW order \in [1 .. Cardinality(Games) -> Games],
           \A i, j \in DOMAIN order : order[i] = order[j] => i = j
    PROVE  Holds(CatchUpEvents(t, order), ch, g, v)
<1>1. CASE ch = Summary(g)
    <2>1. CatchUpEvents(t, order) = <<EventOf(ch, g, "game_patch", t.rows[g].version, {})>>
        BY <1>1, ChannelType DEF CatchUpEvents
    <2>2. Serves(EventOf(ch, g, "game_patch", t.rows[g].version, {}), ch, g, v)
        BY DEF EventOf, Serves
    <2> QED
        BY <2>1, <2>2 DEF Holds
<1>2. CASE ch = List
    <2>1. CatchUpEvents(t, order) = [i \in DOMAIN order |->
             EventOf(List, order[i], "game_patch", t.rows[order[i]].version, {})]
        BY <1>2, ChannelType DEF CatchUpEvents
    <2>2. PICK i \in 1 .. Cardinality(Games) : order[i] = g
        BY OrderOnto
    <2>3. Serves(EventOf(List, g, "game_patch", t.rows[g].version, {}), List, g, v)
        BY DEF EventOf, Serves
    <2>4. CatchUpEvents(t, order)[i] = EventOf(List, g, "game_patch", t.rows[g].version, {})
        BY <2>1, <2>2
    <2>5. Len(CatchUpEvents(t, order)) = Cardinality(Games)
        BY <2>1, ListenerAssumption, FS_CardinalityType
    <2> QED
        BY <1>2, <2>2, <2>3, <2>4, <2>5 DEF Holds
<1> QED
    BY <1>1, <1>2

LEMMA ResumeKeepsHand ==
    ASSUME TypeOK, TypeOK', TaskShape, RowInHand, PublishedGrows, NEW t \in tasks,
           ResumeScore(t) \/ ResumePlays(t) \/ ResumeCatchUp(t)
    PROVE  RowInHand'
<1>1. /\ tasks \ {t} \subseteq tasks' /\ t \in Task /\ t.stage = "answer"
      /\ UNCHANGED <<owed, inbox, missed, subs, since>>
    BY ResumeGoesOn, TaskFields
    DEF ResumeScore, ResumePlays, ResumeCatchUp, dbVars, connectionVars, subVars
<1>2. ASSUME NEW g \in Games, NEW ch \in subs \cap {Summary(g), List},
             WillShow(t, ch, g, owed[ch][g])
      PROVE  InHand(ch, g)'
    <2> DEFINE v == owed[ch][g]
    <2>1. v \in Nat /\ v = owed'[ch][g]
        BY <1>1 DEF TypeOK, Row
    <2>2. Asks(t, ch, g) /\ t.rows[g].version >= v /\ t.channel \in {Summary(g), List}
        BY <1>1, <1>2 DEF WillShow
    <2> HIDE DEF v
    <2>3. ASSUME NEW events \in Seq(Publication), Publishing(t, events), Holds(events, ch, g, v)
          PROVE  InHand(ch, g)'
        <3>1. \E u \in tasks' : WillShow(u, ch, g, v)
            <4>1. ASSUME NEW w, w = v PROVE \E u \in tasks' : WillShow(u, ch, g, w)
                <5>1. Holds(events, ch, g, w)
                    BY <2>3, <4>1
                <5> QED
                    BY <1>1, <2>2, <2>3, <5>1, PublishingHolds
            <4> QED
                BY <4>1
        <3> QED
            BY <2>1, <3>1 DEF InHand
    <2>4. CASE ResumeScore(t)
        <3>1. t.kind = "score"
            BY <2>4 DEF ResumeScore
        <3>2. Holds(ScoreEvents(t), ch, g, v)
            BY <2>1, <2>2, <3>1, ScoreEventsHold
        <3> QED
            BY <2>3, <2>4, <3>2, ResumeScoreEvents
    <2>5. CASE ResumePlays(t)
        BY <2>2, <2>5 DEF ResumePlays, Asks
    <2>6. CASE ResumeCatchUp(t)
        <3>1. t.channel = ch
            BY <2>2, <2>6 DEF ResumeCatchUp, Asks
        <3>2. PICK order \in [1 .. Cardinality(Games) -> Games] :
                 /\ \A i, j \in DOMAIN order : order[i] = order[j] => i = j
                 /\ Publishing(t, CatchUpEvents(t, order))
                 /\ CatchUpEvents(t, order) \in Seq(Publication)
            BY <2>6, ResumeCatchUpEvents
        <3>3. Holds(CatchUpEvents(t, order), ch, g, v)
            BY <2>1, <2>2, <3>1, <3>2, CatchUpEventsHold
        <3> QED
            BY <2>3, <3>2, <3>3
    <2> QED
        BY <2>4, <2>5, <2>6
<1> QED
    BY <1>1, <1>2, TaskKeepsHand

(* The event at the head is shown, one of the list behind it is kept.       *)
LEMMA PublishKeepsHand ==
    ASSUME TypeOK, TypeOK', TaskShape, SinceInPublished, RowInHand, PublishedGrows,
           NEW t \in tasks, Publish(t)
    PROVE  RowInHand'
<1> DEFINE e == Head(t.events)
<1>1. /\ tasks \ {t} \subseteq tasks' /\ t \in Task /\ t.stage = "publish"
      /\ UNCHANGED <<owed, inbox, missed, subs, since>>
    BY PublishGoesOn, TaskFields DEF Publish, dbVars, connectionVars, subVars
<1>2. t.events \in Seq(Publication) /\ t.events # <<>>
    BY PublishEvents
<1>3. ASSUME NEW g \in Games, NEW ch \in subs \cap {Summary(g), List},
             WillShow(t, ch, g, owed[ch][g])
      PROVE  InHand(ch, g)'
    <2> DEFINE v == owed[ch][g]
    <2>1. v \in Nat /\ v = owed'[ch][g]
        BY <1>1 DEF TypeOK, Row
    <2>2. Holds(t.events, ch, g, v) /\ t.channel \in {Summary(g), List}
        BY <1>1, <1>3 DEF WillShow
    <2>3. PICK i \in 1 .. Len(t.events) : Serves(t.events[i], ch, g, v) /\ (ch = List \/ i = 1)
        BY <2>2 DEF Holds
    <2> HIDE DEF v
    <2>4. CASE i = 1
        <3>1. Serves(e, ch, g, v)
            BY <1>2, <2>3, <2>4
        <3>2. ch \in Channels /\ ch.kind # "pbp" /\ e.channel = ch
            BY <3>1, ChannelType DEF Serves
        <3>3. /\ Len(published'[ch]) = Len(published[ch]) + 1
              /\ published'[ch][Len(published[ch]) + 1] = e.event
            BY <3>2, PublishGrows
        <3>4. since'[ch] <= Len(published[ch]) /\ since'[ch] \in Nat /\ Len(published[ch]) \in Nat
            <4>1. since[ch] \in Nat /\ published[ch] \in Seq(Event)
                BY <3>2 DEF TypeOK
            <4> QED
                BY <1>1, <3>2, <4>1 DEF SinceInPublished
        <3>5. Len(published[ch]) + 1 \in since'[ch] + 1 .. Len(published'[ch])
            BY <3>3, <3>4
        <3> HIDE DEF e
        <3>6. Shows(ch, g, owed[ch][g])'
            BY <2>1, <3>1, <3>3, <3>5 DEF Shows, Serves
        <3> QED
            BY <3>6 DEF InHand
    <2>5. CASE i # 1
        <3>1. ch = List /\ List \in subs
            BY <2>3, <2>5
        <3>2. Tail(t.events) \in Seq(Publication) /\ ListChecked(Tail(t.events)) = Tail(t.events)
            BY <1>2, <3>1 DEF ListChecked
        <3>3. Publishing(t, Tail(t.events))
            BY <3>2, PublishEvents
        <3>4. i - 1 \in 1 .. Len(Tail(t.events)) /\ Tail(t.events)[i - 1] = t.events[i]
            BY <1>2, <2>5
        <3>5. ASSUME NEW w, w = v PROVE \E u \in tasks' : WillShow(u, ch, g, w)
            <4> DEFINE rest == Tail(t.events)
            <4>1. Holds(rest, ch, g, w)
                BY <2>3, <3>1, <3>4, <3>5 DEF Holds
            <4>2. rest \in Seq(Publication) /\ Publishing(t, rest)
                BY <3>2, <3>3
            <4> HIDE DEF rest
            <4> QED
                BY <1>1, <2>2, <4>1, <4>2, PublishingHolds
        <3> QED
            BY <2>1, <3>5 DEF InHand
    <2> QED
        BY <2>4, <2>5
<1> QED
    BY <1>1, <1>3, TaskKeepsHand

LEMMA RowStep ==
    ASSUME TypeOK, TaskShape, SinceInPublished, OwedInTable, RowInHand, [Next]_vars
    PROVE  RowInHand'
<1>1. TypeOK' /\ PublishedGrows
    BY TypeStep, PublishedStep
<1>2. CASE UNCHANGED vars
    <2>1. UNCHANGED <<owed, inbox, missed, subs, since, tasks>>
        BY <1>2 DEF vars, dbVars, connectionVars, subVars
    <2> QED
        BY <1>1, <2>1, HandWritten DEF NotifiedOf
<1>3. CASE Next
    <2>1. ASSUME NEW g \in Games, NEW s \in Statuses,
                 InsertPlay(g) \/ UpdateGame(g, s) \/ UpdateUnnotified(g, s)
          PROVE  RowInHand'
        BY <1>1, <2>1, WriterKeepsHand
    <2>2. ASSUME NEW t \in open, CommitPlay(t) PROVE RowInHand'
        BY <1>1, <2>2, WriterKeepsHand
    <2>3. ASSUME NEW kind \in WriteKinds, NEW g \in Games \cup {None}, kind = "odds" <=> g = None,
                 OtherWrite(kind, g)
          PROVE  RowInHand'
        BY <1>1, <2>3, WriterKeepsHand
    <2>4. /\ \A g \in Games : g # None /\ g \in Games \cup {None}
          /\ {"odds", "flow"} \subseteq WriteKinds
        BY ListenerAssumption DEF WriteKinds
    <2>5. ASSUME NEW g \in Games, OtherWrite("flow", g) PROVE RowInHand'
        BY <2>3, <2>4, <2>5
    <2>6. OtherWrite("odds", None) => RowInHand'
        BY <2>3, <2>4
    <2>7. Listen \/ ListenLost \/ OnNotify => RowInHand'
        BY <1>1, ConnectionKeepsHand, NotifyKeepsHand
    <2>8. ASSUME NEW ch \in Channels, Subscribe(ch) \/ Unsubscribe(ch) PROVE RowInHand'
        BY <1>1, <2>8, SubscribersKeepHand
    <2>9. ASSUME NEW t \in tasks,
                 \/ Query(t) \/ QueryError(t) \/ ResumeScore(t) \/ ResumePlays(t)
                 \/ ResumeCatchUp(t) \/ Publish(t) \/ PublishError(t)
          PROVE  RowInHand'
        BY <1>1, <2>9, QueryKeepsHand, FailureKeepsHand, ResumeKeepsHand, PublishKeepsHand
    <2> QED
        BY <1>3, <2>1, <2>2, <2>5, <2>6, <2>7, <2>8, <2>9, ListenerAssumption DEF Next
<1> QED
    BY <1>2, <1>3

(* Versions only grow, and nobody comes to be owed more than the table has. *)
LEMMA OwedStep ==
    ASSUME TypeOK, OwedInTable, [Next]_vars
    PROVE  OwedInTable'
<1>1. ASSUME UNCHANGED owed, \A g \in Games : row[g].version <= row'[g].version,
             \A g \in Games : row'[g].version \in Nat
      PROVE  OwedInTable'
    <2> SUFFICES ASSUME NEW ch \in Channels, NEW g \in Games
                 PROVE  owed'[ch][g] <= row'[g].version
        BY DEF OwedInTable
    <2>1. /\ owed[ch][g] \in Nat /\ row[g].version \in Nat
          /\ owed[ch][g] <= row[g].version
        BY DEF TypeOK, Row, OwedInTable
    <2> QED
        BY <1>1, <2>1
<1>2. ASSUME UNCHANGED <<owed, row>> PROVE OwedInTable'
    BY <1>2 DEF OwedInTable
<1>3. \A g \in Games : row[g].version \in Nat
    BY DEF TypeOK, Row
<1>4. ASSUME NEW g \in Games, NEW s \in Statuses, UpdateGame(g, s) PROVE OwedInTable'
    <2>1. /\ row'[g].version = row[g].version + 1
          /\ \A h \in Games : h # g => row'[h] = row[h]
        BY <1>4 DEF UpdateGame, Change, TypeOK
    <2>2. ASSUME NEW ch \in Channels, NEW h \in Games PROVE owed'[ch][h] <= row'[h].version
        <3>1. owed[ch][h] \in Nat /\ owed[ch][h] <= row[h].version
            BY DEF TypeOK, OwedInTable
        <3>2. owed'[ch][h] \in {owed[ch][h], IF h = g THEN row[g].version + 1 ELSE owed[ch][h]}
            BY <1>4 DEF UpdateGame, TypeOK
        <3> QED
            BY <1>3, <2>1, <3>1, <3>2
    <2> QED
        BY <2>2 DEF OwedInTable
<1>5. ASSUME NEW g \in Games, NEW s \in Statuses, UpdateUnnotified(g, s) PROVE OwedInTable'
    <2>1. \A h \in Games : row'[h].version \in Nat /\ row[h].version <= row'[h].version
        BY <1>3, <1>5 DEF UpdateUnnotified, Change, TypeOK
    <2>2. UNCHANGED owed
        BY <1>5 DEF UpdateUnnotified, subVars
    <2> QED
        BY <1>1, <2>1, <2>2
<1>6. ASSUME NEW t \in open, CommitPlay(t) PROVE OwedInTable'
    <2>1. \A h \in Games : row'[h].version \in Nat /\ row[h].version <= row'[h].version
        <3>1. t.game \in Games
            BY DEF TypeOK
        <3>2. CASE row' = row
            BY <1>3, <3>2
        <3>3. CASE row' = [row EXCEPT ![t.game].version = @ + 1]
            <4>1. ASSUME NEW h \in Games
                  PROVE  row'[h].version = IF h = t.game THEN row[h].version + 1 ELSE row[h].version
                BY <3>1, <3>3 DEF TypeOK, Row
            <4> QED
                BY <1>3, <4>1
        <3> QED
            BY <1>6, <3>2, <3>3 DEF CommitPlay
    <2>2. UNCHANGED owed
        BY <1>6 DEF CommitPlay, subVars
    <2> QED
        BY <1>1, <2>1, <2>2
<1>7. ASSUME NEW c \in Channels, Subscribe(c) \/ Unsubscribe(c) PROVE OwedInTable'
    <2>1. UNCHANGED row
        BY <1>7 DEF Subscribe, Unsubscribe, dbVars
    <2>2. ASSUME NEW ch \in Channels, NEW g \in Games PROVE owed'[ch][g] <= row'[g].version
        <3>1. owed[ch][g] \in Nat /\ owed[ch][g] <= row[g].version
            BY DEF TypeOK, OwedInTable
        <3>2. owed'[ch][g] \in {owed[ch][g], 0, row[g].version}
            <4>1. CASE ch = c
                BY <1>7, <4>1 DEF Subscribe, Unsubscribe, NothingOwed, TypeOK
            <4>2. CASE ch # c
                BY <1>7, <4>2 DEF Subscribe, Unsubscribe, TypeOK
            <4> QED
                BY <4>1, <4>2
        <3> QED
            BY <1>3, <2>1, <3>1, <3>2
    <2> QED
        BY <2>2 DEF OwedInTable
<1>8. ASSUME NEW g \in Games, InsertPlay(g) PROVE OwedInTable'
    BY <1>2, <1>8 DEF InsertPlay, subVars
<1>9. ASSUME NEW kind, NEW g, OtherWrite(kind, g) PROVE OwedInTable'
    BY <1>2, <1>9 DEF OtherWrite, subVars
<1>10. ASSUME Listen \/ ListenLost \/ OnNotify PROVE OwedInTable'
    BY <1>2, <1>10 DEF Listen, ListenLost, OnNotify, dbVars, subVars
<1>11. ASSUME NEW t \in tasks,
              \/ Query(t) \/ QueryError(t) \/ ResumeScore(t) \/ ResumePlays(t)
              \/ ResumeCatchUp(t) \/ Publish(t) \/ PublishError(t)
       PROVE  OwedInTable'
    BY <1>2, <1>11 DEF Query, QueryError, ResumeScore, ResumePlays, ResumeCatchUp, Publish,
                       PublishError, dbVars, subVars
<1>12. CASE UNCHANGED vars
    BY <1>2, <1>12 DEF vars, dbVars, subVars
<1> QED
    BY <1>4, <1>5, <1>6, <1>7, <1>8, <1>9, <1>10, <1>11, <1>12, ListenerAssumption DEF Next

(* What the service to the subscribers of a row rests on, whatever is lost, *)
(* evicted or fails and whether or not the writers overlap.                 *)
ServiceInv == TypeOK /\ TaskShape /\ SinceInPublished /\ OwedInTable /\ RowInHand

THEOREM ServiceInvariant == Spec => []ServiceInv
<1>1. Init => ServiceInv
    <2> SUFFICES ASSUME Init PROVE ServiceInv
        OBVIOUS
    <2>1. TypeOK
        BY TypeInit
    <2>2. TaskShape /\ RowInHand
        BY DEF Init, TaskShape, RowInHand
    <2>3. \A ch \in Channels : since[ch] = 0 /\ Len(published[ch]) = 0
        BY DEF Init
    <2>4. OwedInTable
        BY DEF Init, NothingOwed, OwedInTable
    <2> QED
        BY <2>1, <2>2, <2>3, <2>4 DEF ServiceInv, SinceInPublished
<1>2. ServiceInv /\ [Next]_vars => ServiceInv'
    BY TypeStep, ShapeStep, SinceStep, OwedStep, RowStep DEF ServiceInv
<1> QED
    BY <1>1, <1>2, PTL DEF Spec

(* Whoever is subscribed to a game's summary or to the list has been sent   *)
(* the row as of its last notification and of the start of the subscription *)
(* when nothing is under way.                                               *)
THEOREM RowsServed == Spec => []NotifiedRowServed
<1>1. ServiceInv => NotifiedRowServed
    BY DEF ServiceInv, RowInHand, InHand, NotifiedOf, NotifiedRowServed, Quiet
<1> QED
    BY <1>1, ServiceInvariant, PTL

-----------------------------------------------------------------------------
(* Why PlaysAnnounced is kept.  Until a play inserted since a subscription  *)
(* is published, a notification of its game is on its way, a task will      *)
(* query from a cursor before it, or a task holds it; and a play that a     *)
(* failed publish() lost is of a game that counts as missed, because plays  *)
(* and batches belong to one game.                                          *)
WillAnnounce(t, g, n) ==
    /\ t.kind = "plays" /\ t.channel = Pbp(g)
    /\ IF t.stage = "query" THEN t.after < n ELSE n \in t.batch

PlayInHand(g, n) ==
    \/ n \in PlaysIn(g)
    \/ NotifiedOf("plays", g)
    \/ \E t \in tasks : WillAnnounce(t, g, n)

Expected(g, n) ==
    /\ n \in plays[g]
    /\ n > since[Pbp(g)]
    /\ Cardinality({m \in plays[g] : m <= n}) <= PbpBatchMax

PlaysInHand ==
    \A g \in Games \ missed : Pbp(g) \in subs => \A n \in Nat : Expected(g, n) => PlayInHand(g, n)

PlaysOwned ==
    /\ \A g, h \in Games : g # h => plays[g] \cap plays[h] = {}
    /\ \A t \in open : \A g \in Games : t.id \notin plays[g]
    /\ \A t, u \in open : t.id = u.id => t = u

BatchOwned(t) == t.batch \subseteq IF t.kind = "plays" THEN plays[t.channel.game] ELSE {}
BatchesOwned == \A t \in tasks : BatchOwned(t)

FailuresOwned ==
    /\ \A n \in failed : \E g \in Games : n \in plays[g]
    /\ \A g \in Games \ missed : failed \cap plays[g] = {}

LEMMA PlaysOwnedStep ==
    ASSUME TypeOK, CommittedInOrder, PlaysOwned, [Next]_vars
    PROVE  PlaysOwned'
<1>1. ASSUME NEW g \in Games, InsertPlay(g) PROVE PlaysOwned'
    <2>1. /\ plays' = plays /\ open' = open \cup {[game |-> g, id |-> writes + 1]}
          /\ writes \in Nat
        BY <1>1 DEF InsertPlay, TypeOK
    <2>2. \A h \in Games : \A n \in plays[h] : n \in 1 .. writes
        BY DEF CommittedInOrder
    <2>3. \A t \in open : t.id \in 1 .. writes
        BY DEF CommittedInOrder
    <2>4. writes + 1 \notin 1 .. writes
        BY <2>1
    <2>5. \A t \in open' : t \in open \/ (t.id = writes + 1 /\ t = [game |-> g, id |-> writes + 1])
        BY <2>1
    <2> QED
        BY <2>1, <2>2, <2>3, <2>4, <2>5 DEF PlaysOwned
<1>2. ASSUME NEW t \in open, CommitPlay(t) PROVE PlaysOwned'
    <2>1. open' = open \ {t} /\ t.game \in Games
        BY <1>2 DEF CommitPlay, TypeOK
    <2>2. \A g \in Games : plays'[g] = IF g = t.game THEN plays[g] \cup {t.id} ELSE plays[g]
        BY <1>2, <2>1 DEF CommitPlay, TypeOK
    <2>3. ASSUME NEW g \in Games, NEW h \in Games, g # h PROVE plays'[g] \cap plays'[h] = {}
        <3>1. plays[g] \cap plays[h] = {} /\ t.id \notin plays[g] /\ t.id \notin plays[h]
            BY <2>3 DEF PlaysOwned
        <3>2. CASE g = t.game
            BY <2>2, <2>3, <3>1, <3>2
        <3>3. CASE h = t.game
            BY <2>2, <2>3, <3>1, <3>3
        <3>4. CASE g # t.game /\ h # t.game
            BY <2>2, <3>1, <3>4
        <3> QED
            BY <3>2, <3>3, <3>4
    <2>4. \A u \in open' : u \in open /\ u.id # t.id
        BY <2>1 DEF PlaysOwned
    <2>5. \A u \in open' : \A g \in Games : u.id \notin plays'[g]
        BY <2>2, <2>4 DEF PlaysOwned
    <2> QED
        BY <2>3, <2>4, <2>5 DEF PlaysOwned
<1>3. UNCHANGED <<plays, open>> => PlaysOwned'
    BY DEF PlaysOwned
<1> QED
    BY <1>1, <1>2, <1>3, WriterCases

(* Tasks are begun with no batch, and take plays of their game only. *)
LEMMA BatchesStep ==
    ASSUME TypeOK, TaskShape, PlaysGrow, BatchesOwned, [Next]_vars
    PROVE  BatchesOwned'
<1>1. ASSUME NEW u \in tasks PROVE BatchOwned(u)'
    <2>1. u.kind = "plays" => plays[u.channel.game] \subseteq plays'[u.channel.game]
        BY TaskFields, ChannelType DEF TaskShape, PlaysGrow
    <2> QED
        BY <2>1 DEF BatchesOwned, BatchOwned
<1>2. ASSUME NEW u \in tasks' \ tasks PROVE BatchOwned(u)'
    <2>1. CASE OnNotify
        BY <1>2, <2>1, OnNotifyNew DEF ScoreTask, PlaysTask, PublishTask, BatchOwned
    <2>2. ASSUME NEW ch \in Channels, Subscribe(ch) PROVE BatchOwned(u)'
        BY <1>2, <2>2, SubscribeNew DEF CatchUpTask, BatchOwned
    <2>3. ASSUME NEW t \in tasks, GoesOn(u, t) PROVE BatchOwned(u)'
        <3>1. t.kind = "plays" => plays[t.channel.game] \subseteq plays'[t.channel.game]
            BY TaskFields, ChannelType DEF TaskShape, PlaysGrow
        <3>2. BatchOwned(t)
            BY DEF BatchesOwned
        <3> QED
            BY <2>3, <3>1, <3>2 DEF GoesOn, BatchOwned
    <2>4. ASSUME NEW t \in tasks, QueryError(t) \/ PublishError(t) PROVE FALSE
        BY <1>2, <2>4 DEF QueryError, PublishError, TaskFails, End
    <2> QED
        BY <1>2, <2>1, <2>2, <2>3, <2>4, TaskSteps, QueryGoesOn, ResumeGoesOn, PublishGoesOn
<1> QED
    BY <1>1, <1>2 DEF BatchesOwned

(* Nothing is taken back from what is missed or has failed.                 *)
LEMMA MissedGrows ==
    ASSUME [Next]_vars
    PROVE  missed \subseteq missed'
<1>1. \A kind, g : Notify(kind, g) => missed \subseteq missed'
    BY DEF Notify
<1>2. ASSUME NEW g \in Games, NEW s \in Statuses,
             InsertPlay(g) \/ UpdateGame(g, s) \/ UpdateUnnotified(g, s)
      PROVE  missed \subseteq missed'
    BY <1>1, <1>2 DEF InsertPlay, UpdateGame, UpdateUnnotified, connectionVars
<1>3. ASSUME NEW kind, NEW g, OtherWrite(kind, g) PROVE missed \subseteq missed'
    BY <1>1, <1>3 DEF OtherWrite
<1>4. ASSUME NEW t \in open, CommitPlay(t) PROVE missed \subseteq missed'
    BY <1>1, <1>4 DEF CommitPlay
<1>5. Listen \/ ListenLost \/ OnNotify => missed \subseteq missed'
    BY DEF Listen, ListenLost, OnNotify
<1>6. ASSUME NEW ch \in Channels, Subscribe(ch) \/ Unsubscribe(ch) PROVE missed \subseteq missed'
    BY <1>6 DEF Subscribe, Unsubscribe, connectionVars
<1>7. ASSUME NEW t \in tasks,
             \/ Query(t) \/ QueryError(t) \/ ResumeScore(t) \/ ResumePlays(t)
             \/ ResumeCatchUp(t) \/ Publish(t) \/ PublishError(t)
      PROVE  missed \subseteq missed'
    BY <1>7 DEF Query, QueryError, ResumeScore, ResumePlays, ResumeCatchUp, Publish,
                PublishError, TaskFails, connectionVars
<1>8. UNCHANGED vars => missed \subseteq missed'
    BY DEF vars, connectionVars
<1> QED
    BY <1>2, <1>3, <1>4, <1>5, <1>6, <1>7, <1>8, ListenerAssumption DEF Next

LEMMA FailuresStep ==
    ASSUME TypeOK, TaskShape, CommittedInOrder, PlaysOwned, BatchesOwned, FailuresOwned, [Next]_vars
    PROVE  FailuresOwned'
<1>1. missed \subseteq missed'
    BY MissedGrows
<1>2. ASSUME NEW t \in tasks, PublishError(t) PROVE FailuresOwned'
    <2>1. /\ failed' = failed \cup t.batch /\ plays' = plays
          /\ missed' = missed \cup (IF t.channel \in {List, Odds} THEN Games ELSE {t.channel.game})
        BY <1>2 DEF PublishError, TaskFails, dbVars
    <2>2. CASE t.kind = "plays"
        <3>1. t.channel.game \in Games /\ t.channel.kind = "pbp" /\ t.batch \subseteq plays[t.channel.game]
            BY <2>2, TaskFields, ChannelType DEF TaskShape, BatchesOwned, BatchOwned
        <3>2. t.channel.game \in missed'
            BY <2>1, <3>1
        <3>3. \A g \in Games \ missed' : t.batch \cap plays[g] = {}
            BY <3>1, <3>2 DEF PlaysOwned
        <3> QED
            BY <1>1, <2>1, <3>1, <3>3 DEF FailuresOwned
    <2>3. CASE t.kind # "plays"
        <3>1. t.batch = {}
            BY <2>3 DEF BatchesOwned, BatchOwned
        <3> QED
            BY <1>1, <2>1, <3>1 DEF FailuresOwned
    <2> QED
        BY <2>2, <2>3
<1>3. CASE UNCHANGED failed
    <2>1. ASSUME NEW t \in open, CommitPlay(t) PROVE FailuresOwned'
        <3>1. \A g \in Games : plays'[g] = IF g = t.game THEN plays[g] \cup {t.id} ELSE plays[g]
            BY <2>1 DEF CommitPlay, TypeOK
        <3>2. t.id \notin failed
            BY DEF FailuresOwned, PlaysOwned
        <3> QED
            BY <1>1, <1>3, <3>1, <3>2 DEF FailuresOwned
    <2>2. UNCHANGED plays => FailuresOwned'
        BY <1>1, <1>3 DEF FailuresOwned
    <2>3. ASSUME NEW g \in Games, InsertPlay(g) PROVE UNCHANGED plays
        BY <2>3 DEF InsertPlay
    <2> QED
        BY <2>1, <2>2, <2>3, WriterCases
<1>4. ASSUME NEW t \in tasks, Publish(t) PROVE UNCHANGED failed
    BY <1>4 DEF Publish
<1> QED
    BY <1>2, <1>3, <1>4, TaskCases

(* Plays that are published stay so. *)
LEMMA PlaysInGrows ==
    ASSUME TypeOK, TypeOK', PublishedGrows, NEW g \in Games
    PROVE  PlaysIn(g) \subseteq PlaysIn(g)'
<1>1. Pbp(g) \in Channels
    BY ChannelType
<1>2. published[Pbp(g)] \in Seq(Event) /\ published'[Pbp(g)] \in Seq(Event)
    BY <1>1 DEF TypeOK
<1>3. \A i \in 1 .. Len(published[Pbp(g)]) :
        i \in 1 .. Len(published'[Pbp(g)]) /\ published'[Pbp(g)][i] = published[Pbp(g)][i]
    BY <1>1, <1>2 DEF PublishedGrows
<1> QED
    BY <1>3 DEF PlaysIn

(* A step that leaves the plays and a subscription as they are keeps a play *)
(* in hand, if it does not drop the notification and the tasks.             *)
LEMMA PlayKept ==
    ASSUME TypeOK, TypeOK', PublishedGrows, PlaysInHand, missed \subseteq missed',
           NEW g \in Games \ missed', Pbp(g) \in subs, NEW n \in Nat, Expected(g, n)',
           plays'[g] = plays[g], since'[Pbp(g)] = since[Pbp(g)],
           NotifiedOf("plays", g) => PlayInHand(g, n)',
           \A t \in tasks : WillAnnounce(t, g, n) => t \in tasks' \/ PlayInHand(g, n)'
    PROVE  PlayInHand(g, n)'
<1>1. Expected(g, n)
    BY DEF Expected
<1>2. PlayInHand(g, n)
    BY <1>1 DEF PlaysInHand
<1>3. n \in PlaysIn(g) => PlayInHand(g, n)'
    BY PlaysInGrows DEF PlayInHand
<1>4. ASSUME NEW t \in tasks, WillAnnounce(t, g, n), t \in tasks' PROVE PlayInHand(g, n)'
    BY <1>4 DEF PlayInHand
<1> QED
    BY <1>2, <1>3, <1>4 DEF PlayInHand

(* A commit notifies; other writes, and what they notify, concern no play.  *)
LEMMA PlaysWritten ==
    ASSUME TypeOK, TypeOK', PlaysInHand, PublishedGrows,
           UNCHANGED <<subs, since, tasks>>, missed \subseteq missed',
           \A h : NotifiedOf("plays", h) => NotifiedOf("plays", h)',
           \A g \in Games \ missed' : plays'[g] = plays[g] \/ NotifiedOf("plays", g)'
    PROVE  PlaysInHand'
<1> SUFFICES ASSUME NEW g \in Games \ missed', Pbp(g) \in subs', NEW n \in Nat, Expected(g, n)'
             PROVE  PlayInHand(g, n)'
    BY DEF PlaysInHand
<1>1. NotifiedOf("plays", g)' => PlayInHand(g, n)'
    BY DEF PlayInHand
<1> QED
    BY <1>1, PlayKept

LEMMA WriterKeepsPlays ==
    ASSUME TypeOK, TypeOK', PlaysInHand, PublishedGrows,
           \/ \E g \in Games : InsertPlay(g)
           \/ \E g \in Games, s \in Statuses : UpdateGame(g, s) \/ UpdateUnnotified(g, s)
           \/ \E t \in open : CommitPlay(t)
           \/ \E kind \in WriteKinds, g \in Games \cup {None} :
                 (kind = "odds" <=> g = None) /\ OtherWrite(kind, g)
    PROVE  PlaysInHand'
<1>1. ASSUME NEW g \in Games, InsertPlay(g) PROVE PlaysInHand'
    <2>1. UNCHANGED <<plays, inbox, missed, subs, since, tasks>>
        BY <1>1 DEF InsertPlay, connectionVars, subVars
    <2> QED
        BY <2>1, PlaysWritten DEF NotifiedOf
<1>2a. ASSUME NEW g \in Games, NEW s \in Statuses, UpdateUnnotified(g, s) PROVE PlaysInHand'
    <2>1. UNCHANGED <<plays, inbox, missed, subs, since, tasks>>
        BY <1>2a DEF UpdateUnnotified, connectionVars, subVars
    <2> QED
        BY <2>1, PlaysWritten DEF NotifiedOf
<1>2. ASSUME NEW g \in Games, NEW s \in Statuses, UpdateGame(g, s) PROVE PlaysInHand'
    <2>1. Notify("score", g) /\ "score" \in WriteKinds /\ g # None
        BY <1>2, ListenerAssumption DEF UpdateGame, WriteKinds
    <2>2. missed \subseteq missed' /\ \A k, h : NotifiedOf(k, h) => NotifiedOf(k, h)'
        BY <2>1, NotifyKeeps
    <2>3. UNCHANGED <<plays, subs, since, tasks>>
        BY <1>2 DEF UpdateGame
    <2> QED
        BY <2>2, <2>3, PlaysWritten
<1>3. ASSUME NEW t \in open, CommitPlay(t) PROVE PlaysInHand'
    <2>1. Notify("plays", t.game) /\ "plays" \in WriteKinds /\ t.game \in Games /\ t.game # None
        BY <1>3, ListenerAssumption DEF CommitPlay, WriteKinds, TypeOK
    <2>2. /\ missed \subseteq missed'
          /\ \A k, h : NotifiedOf(k, h) => NotifiedOf(k, h)'
          /\ t.game \in Games \ missed' => NotifiedOf("plays", t.game)'
        BY <2>1, NotifyKeeps
    <2>3. \A h \in Games : h # t.game => plays'[h] = plays[h]
        BY <1>3, <2>1 DEF CommitPlay, TypeOK
    <2>4. UNCHANGED <<subs, since, tasks>>
        BY <1>3 DEF CommitPlay, subVars
    <2> QED
        BY <2>2, <2>3, <2>4, PlaysWritten
<1>4. ASSUME NEW kind \in WriteKinds, NEW g \in Games \cup {None}, kind = "odds" <=> g = None,
             OtherWrite(kind, g)
      PROVE  PlaysInHand'
    <2>1. Notify(kind, g)
        BY <1>4 DEF OtherWrite
    <2>2. missed \subseteq missed' /\ \A k, h : NotifiedOf(k, h) => NotifiedOf(k, h)'
        BY <1>4, <2>1, NotifyKeeps
    <2>3. UNCHANGED <<plays, subs, since, tasks>>
        BY <1>4 DEF OtherWrite, subVars
    <2> QED
        BY <2>2, <2>3, PlaysWritten
<1> QED
    BY <1>1, <1>2, <1>2a, <1>3, <1>4

LEMMA ConnectionKeepsPlays ==
    ASSUME TypeOK, TypeOK', PlaysInHand, PublishedGrows, Listen \/ ListenLost
    PROVE  PlaysInHand'
<1> SUFFICES ASSUME NEW g \in Games \ missed', Pbp(g) \in subs', NEW n \in Nat, Expected(g, n)'
             PROVE  PlayInHand(g, n)'
    BY DEF PlaysInHand
<1>1. UNCHANGED <<plays, subs, since, tasks>> /\ missed \subseteq missed'
    BY DEF Listen, ListenLost, dbVars, subVars
<1>2. CASE Listen
    <2>1. NotifiedOf("plays", g) => PlayInHand(g, n)'
        BY <1>2 DEF Listen, NotifiedOf, PlayInHand
    <2> QED
        BY <1>1, <2>1, PlayKept
<1>3. CASE ListenLost
    <2>1. ASSUME NotifiedOf("plays", g) PROVE FALSE
        <3>1. PICK i \in 1 .. Len(inbox) : inbox[i] = [kind |-> "plays", game |-> g]
            BY <2>1 DEF NotifiedOf
        <3>2. inbox[i].game = g
            BY <3>1
        <3> QED
            BY <1>3, <3>2 DEF ListenLost
    <2> QED
        BY <1>1, <2>1, PlayKept
<1> QED
    BY <1>2, <1>3

(* A task begins at the cursor: what the cursor has passed is published, or *)
(* held by another task.                                                    *)
LEMMA NotifyKeepsPlays ==
    ASSUME TypeOK, TypeOK', TaskShape, NoPlaySkipped, FailuresOwned, PlaysInHand, PublishedGrows,
           OnNotify
    PROVE  PlaysInHand'
<1> SUFFICES ASSUME NEW g \in Games \ missed', Pbp(g) \in subs', NEW n \in Nat, Expected(g, n)'
             PROVE  PlayInHand(g, n)'
    BY DEF PlaysInHand
<1>1. /\ UNCHANGED <<plays, missed, subs, since>> /\ inbox' = Tail(inbox) /\ inbox # <<>>
      /\ tasks \subseteq tasks'
    BY OnNotifyNew DEF OnNotify, dbVars, subVars
<1>2. n \in plays[g]
    BY <1>1 DEF Expected
<1>3. ASSUME NotifiedOf("plays", g) PROVE PlayInHand(g, n)'
    <2>1. PICK i \in 1 .. Len(inbox) : inbox[i] = [kind |-> "plays", game |-> g]
        BY <1>3 DEF NotifiedOf
    <2>2. inbox \in Seq(Notification)
        BY DEF TypeOK
    <2>3. CASE i = 1
        <3>1. Head(inbox) = [kind |-> "plays", game |-> g]
            BY <1>1, <2>1, <2>2, <2>3
        <3>2. PICK u \in tasks' : PlaysTask(u, g)
            BY <1>1, <3>1, OnNotifyNew
        <3>3. CASE cursor[g] < n
            BY <3>2, <3>3 DEF PlaysTask, WillAnnounce, PlayInHand
        <3>4. CASE ~(cursor[g] < n)
            <4>1. Covered(g, n)
                <5>1. cursor[g] \in Nat
                    BY DEF TypeOK
                <5> QED
                    BY <1>2, <3>4, <5>1 DEF NoPlaySkipped
            <4>2. n \notin failed
                BY <1>1, <1>2 DEF FailuresOwned
            <4>3. CASE n \in PlaysIn(g)
                BY <4>3, PlaysInGrows DEF PlayInHand
            <4>4. CASE n \in PlaysHeld(g)
                <5>1. PICK t \in tasks : t.stage = "publish" /\ t.channel = Pbp(g) /\ n \in t.batch
                    BY <4>4 DEF PlaysHeld
                <5>2. t.kind = "plays"
                    BY <5>1, ChannelType DEF TaskShape
                <5>3. WillAnnounce(t, g, n) /\ t \in tasks'
                    BY <1>1, <5>1, <5>2 DEF WillAnnounce
                <5> QED
                    BY <5>3 DEF PlayInHand
            <4> QED
                BY <4>1, <4>2, <4>3, <4>4 DEF Covered
        <3> QED
            BY <3>3, <3>4
    <2>4. CASE i # 1
        <3>1. i - 1 \in 1 .. Len(inbox') /\ inbox'[i - 1] = inbox[i]
            BY <1>1, <2>1, <2>2, <2>4
        <3>2. NotifiedOf("plays", g)'
            BY <2>1, <3>1 DEF NotifiedOf
        <3> QED
            BY <3>2 DEF PlayInHand
    <2> QED
        BY <2>3, <2>4
<1> QED
    BY <1>1, <1>3, PlayKept

(* Whoever subscribes expects what is inserted from now on. *)
LEMMA SubscribersKeepPlays ==
    ASSUME TypeOK, TypeOK', CommittedInOrder, PlaysInHand, PublishedGrows, NEW c \in Channels,
           Subscribe(c) \/ Unsubscribe(c)
    PROVE  PlaysInHand'
<1> SUFFICES ASSUME NEW g \in Games \ missed', Pbp(g) \in subs', NEW n \in Nat, Expected(g, n)'
             PROVE  PlayInHand(g, n)'
    BY DEF PlaysInHand
<1>1. UNCHANGED <<plays, missed, inbox>> /\ Pbp(g) \in Channels /\ tasks \subseteq tasks'
    BY SubscribeNew, ChannelType DEF Subscribe, Unsubscribe, dbVars, connectionVars
<1>2. CASE Pbp(g) # c
    <2>1. Pbp(g) \in subs /\ since'[Pbp(g)] = since[Pbp(g)]
        <3>1. CASE Subscribe(c)
            BY <1>1, <1>2, <3>1 DEF Subscribe, TypeOK
        <3>2. CASE Unsubscribe(c)
            BY <1>1, <1>2, <3>2 DEF Unsubscribe, TypeOK
        <3> QED
            BY <3>1, <3>2
    <2>2. NotifiedOf("plays", g) => PlayInHand(g, n)'
        BY <1>1 DEF NotifiedOf, PlayInHand
    <2> QED
        BY <1>1, <2>1, <2>2, PlayKept
<1>3. CASE Pbp(g) = c
    <2>1. Subscribe(c) /\ c.kind = "pbp"
        BY <1>3, ChannelType DEF Unsubscribe
    <2>2. since'[Pbp(g)] = writes /\ writes \in Nat
        BY <1>1, <1>3, <2>1 DEF Subscribe, TypeOK
    <2>3. n \in 1 .. writes /\ n > writes
        BY <1>1, <2>2 DEF Expected, CommittedInOrder
    <2> QED
        BY <2>2, <2>3
<1> QED
    BY <1>2, <1>3

(* A task that has a play in hand may only end by publishing it. *)
LEMMA TaskKeepsPlays ==
    ASSUME TypeOK, TypeOK', PlaysInHand, PublishedGrows, NEW t \in tasks,
           tasks \ {t} \subseteq tasks', UNCHANGED <<plays, inbox, subs, since>>,
           missed \subseteq missed',
           \A g \in Games \ missed' : \A n \in Nat :
               WillAnnounce(t, g, n) /\ Expected(g, n) => PlayInHand(g, n)'
    PROVE  PlaysInHand'
<1> SUFFICES ASSUME NEW g \in Games \ missed', Pbp(g) \in subs', NEW n \in Nat, Expected(g, n)'
             PROVE  PlayInHand(g, n)'
    BY DEF PlaysInHand
<1>1. Expected(g, n) /\ Pbp(g) \in subs
    BY DEF Expected
<1>2. NotifiedOf("plays", g) => PlayInHand(g, n)'
    BY DEF NotifiedOf, PlayInHand
<1>3. ASSUME NEW u \in tasks, WillAnnounce(u, g, n)
      PROVE  u \in tasks' \/ PlayInHand(g, n)'
    <2>1. CASE u = t
        BY <1>1, <1>3, <2>1
    <2>2. CASE u # t
        BY <2>2
    <2> QED
        BY <2>1, <2>2
<1> QED
    BY <1>1, <1>2, <1>3, PlayKept

(* A batch stops before a play only when it is full of earlier ones.        *)
LEMMA BatchHasEarly ==
    ASSUME NEW P \in SUBSET Nat, NEW n \in P, NEW after \in Nat, after < n, NEW last \in Nat,
           LET unseen == {m \in P : m > after}
               batch == {m \in unseen : m <= last}
           IN  batch = unseen \/ Cardinality(batch) = PbpBatchMax,
           Cardinality({m \in P : m <= n}) <= PbpBatchMax
    PROVE  n <= last
<1> SUFFICES ASSUME ~(n <= last) PROVE FALSE
    OBVIOUS
<1> DEFINE unseen == {m \in P : m > after}
           batch == {m \in unseen : m <= last}
           early == {m \in P : m <= n}
<1>1. n \in unseen /\ n \notin batch
    OBVIOUS
<1>2. Cardinality(batch) = PbpBatchMax
    BY <1>1
<1>3. early \in SUBSET Nat /\ \A m \in early : m <= n
    OBVIOUS
<1>4. batch \cup {n} \in SUBSET early /\ batch \in SUBSET early
    <2>1. n \in Nat /\ n > last /\ \A m \in P : m \in Nat
        OBVIOUS
    <2>2. \A m \in batch : m \in P /\ m <= n
        BY <2>1
    <2>3. n \in P /\ n <= n
        BY <2>1
    <2> QED
        BY <2>2, <2>3
<1>5. Cardinality(early) <= PbpBatchMax
    OBVIOUS
<1>6. n \in Nat
    OBVIOUS
<1> HIDE DEF unseen, batch, early
<1>7. IsFiniteSet(early)
    BY <1>3, <1>6, FS_BoundedSetOfNaturals
<1>8. IsFiniteSet(batch) /\ Cardinality(batch \cup {n}) <= Cardinality(early)
    BY <1>4, <1>7, FS_Subset
<1>9. Cardinality(batch \cup {n}) = Cardinality(batch) + 1
    BY <1>1, <1>8, FS_AddElement
<1>10. Cardinality(early) \in Nat
    BY <1>7, FS_CardinalityType
<1> QED
    BY <1>2, <1>5, <1>8, <1>9, <1>10, ListenerAssumption

LEMMA QueryKeepsPlays ==
    ASSUME TypeOK, TypeOK', TaskShape, PlaysInHand, PublishedGrows, NEW t \in tasks, Query(t)
    PROVE  PlaysInHand'
<1>1. /\ tasks \ {t} \subseteq tasks' /\ t \in Task /\ t.stage = "query"
      /\ UNCHANGED <<plays, inbox, missed, subs, since>>
    BY QueryGoesOn, TaskFields DEF Query, dbVars, connectionVars, subVars
<1>2. ASSUME NEW g \in Games, NEW n \in Nat, WillAnnounce(t, g, n), Expected(g, n)
      PROVE  PlayInHand(g, n)'
    <2> DEFINE unseen == {m \in plays[g] : m > t.after}
    <2>1. t.kind = "plays" /\ t.channel = Pbp(g) /\ t.after < n /\ t.channel.game = g
        BY <1>1, <1>2, ChannelType DEF WillAnnounce
    <2>2. PICK last \in unseen \cup {t.after} :
             LET batch == {m \in unseen : m <= last}
             IN  /\ batch = unseen \/ Cardinality(batch) = PbpBatchMax
                 /\ Become(t, [t EXCEPT !.stage = "answer", !.last = last, !.batch = batch])
        BY <2>1 DEF Query
    <2>3. t.after \in Nat /\ plays[g] \in SUBSET Nat /\ last \in Nat
        BY <1>1 DEF Task, TypeOK
    <2>4. n \in plays[g] /\ Cardinality({m \in plays[g] : m <= n}) <= PbpBatchMax
        BY <1>2 DEF Expected
    <2>5. n <= last
        BY <2>1, <2>2, <2>3, <2>4, BatchHasEarly
    <2> DEFINE batch == {m \in unseen : m <= last}
               u == [t EXCEPT !.stage = "answer", !.last = last, !.batch = batch]
    <2>6. n \in batch
        BY <2>1, <2>4, <2>5
    <2>7. u \in tasks'
        BY <2>2 DEF Become
    <2> HIDE DEF unseen, batch
    <2>8. u.kind = t.kind /\ u.channel = t.channel /\ u.stage = "answer" /\ u.batch = batch
        BY <1>1 DEF Task
    <2> HIDE DEF u
    <2>9. WillAnnounce(u, g, n)
        BY <2>1, <2>6, <2>8 DEF WillAnnounce
    <2> QED
        BY <2>7, <2>9 DEF PlayInHand
<1> QED
    BY <1>1, <1>2, TaskKeepsPlays

LEMMA FailureKeepsPlays ==
    ASSUME TypeOK, TypeOK', PlaysInHand, PublishedGrows, NEW t \in tasks,
           QueryError(t) \/ PublishError(t)
    PROVE  PlaysInHand'
<1>1. /\ tasks' = tasks \ {t} /\ UNCHANGED <<plays, inbox, subs, since>>
      /\ missed' = missed \cup (IF t.channel \in {List, Odds} THEN Games ELSE {t.channel.game})
    BY DEF QueryError, PublishError, TaskFails, End, dbVars, subVars
<1>2. ASSUME NEW g \in Games \ missed', NEW n, WillAnnounce(t, g, n)
      PROVE  FALSE
    BY <1>1, <1>2, ChannelType DEF WillAnnounce
<1> QED
    BY <1>1, <1>2, TaskKeepsPlays

LEMMA ResumeKeepsPlays ==
    ASSUME TypeOK, TypeOK', TaskShape, PlaysInHand, PublishedGrows, NEW t \in tasks,
           ResumeScore(t) \/ ResumePlays(t) \/ ResumeCatchUp(t)
    PROVE  PlaysInHand'
<1>1. /\ tasks \ {t} \subseteq tasks' /\ t \in Task /\ t.stage = "answer"
      /\ UNCHANGED <<plays, inbox, missed, subs, since>>
    BY ResumeGoesOn, TaskFields
    DEF ResumeScore, ResumePlays, ResumeCatchUp, dbVars, connectionVars, subVars
<1>2. ASSUME NEW g \in Games, NEW n \in Nat, WillAnnounce(t, g, n)
      PROVE  PlayInHand(g, n)'
    <2>1. t.kind = "plays" /\ t.channel = Pbp(g) /\ n \in t.batch
        BY <1>1, <1>2 DEF WillAnnounce
    <2>2. ResumePlays(t)
        BY <2>1 DEF ResumeScore, ResumeCatchUp
    <2>3. Publishing(t, PlaysEvents(t)) /\ PlaysEvents(t) \in Seq(Publication)
        BY <2>1, <2>2, ResumePlaysEvents
    <2>4. PlaysEvents(t) # <<>>
        BY DEF PlaysEvents
    <2> DEFINE u == Holding(t, PlaysEvents(t))
    <2>5. u \in tasks'
        BY <1>1, <2>3, <2>4, PublishingCases
    <2>6. u.kind = t.kind /\ u.channel = t.channel /\ u.stage = "publish" /\ u.batch = t.batch
        BY <1>1 DEF Holding, Task
    <2> HIDE DEF u
    <2>7. WillAnnounce(u, g, n)
        BY <2>1, <2>6 DEF WillAnnounce
    <2> QED
        BY <2>5, <2>7 DEF PlayInHand
<1> QED
    BY <1>1, <1>2, TaskKeepsPlays

(* The event of a task has the plays the task holds.                        *)
LEMMA PublishKeepsPlays ==
    ASSUME TypeOK, TypeOK', TaskShape, TasksCover, PlaysInHand, PublishedGrows,
           NEW t \in tasks, Publish(t)
    PROVE  PlaysInHand'
<1>1. /\ tasks \ {t} \subseteq tasks' /\ t \in Task /\ t.stage = "publish"
      /\ UNCHANGED <<plays, inbox, missed, subs, since>>
    BY PublishGoesOn, TaskFields DEF Publish, dbVars, connectionVars, subVars
<1>2. ASSUME NEW g \in Games, NEW n \in Nat, WillAnnounce(t, g, n)
      PROVE  PlayInHand(g, n)'
    <2> DEFINE ch == Pbp(g)
               e == EventOf(ch, g, "pbp_append", 0, t.batch)
    <2>1. t.kind = "plays" /\ t.channel = ch /\ n \in t.batch /\ ch.game = g /\ ch \in Channels
        BY <1>1, <1>2, ChannelType DEF WillAnnounce
    <2>2. t.events = <<e>>
        BY <1>1, <2>1 DEF TasksCover, TaskCovers
    <2>3. Head(t.events) = e /\ e.channel = ch /\ e.event.plays = t.batch
        BY <2>2 DEF EventOf
    <2> HIDE DEF e, ch
    <2>4. /\ Len(published'[ch]) = Len(published[ch]) + 1
          /\ published'[ch][Len(published[ch]) + 1].plays = t.batch
        BY <2>3, PublishGrows
    <2>5. Len(published[ch]) + 1 \in 1 .. Len(published'[ch])
        <3>1. published[ch] \in Seq(Event)
            BY <2>1 DEF TypeOK
        <3> QED
            BY <2>4, <3>1
    <2>6. n \in PlaysIn(g)'
        BY <2>1, <2>4, <2>5 DEF PlaysIn, ch
    <2> QED
        BY <2>6 DEF PlayInHand
<1> QED
    BY <1>1, <1>2, TaskKeepsPlays

LEMMA PlaysStep ==
    ASSUME ListenerInv, ListenerInv', FailuresOwned, PlaysInHand, [Next]_vars
    PROVE  PlaysInHand'
<1>1. TypeOK /\ TypeOK' /\ TaskShape /\ CommittedInOrder /\ TasksCover /\ NoPlaySkipped
    BY DEF ListenerInv
<1>2. PublishedGrows
    BY <1>1, PublishedStep
<1>3. CASE UNCHANGED vars
    <2>1. UNCHANGED <<plays, inbox, missed, subs, since, tasks>>
        BY <1>3 DEF vars, dbVars, connectionVars, subVars
    <2> QED
        BY <1>1, <1>2, <2>1, PlaysWritten DEF NotifiedOf
<1>4. CASE Next
    <2>1. ASSUME NEW g \in Games, NEW s \in Statuses,
                 InsertPlay(g) \/ UpdateGame(g, s) \/ UpdateUnnotified(g, s)
          PROVE  PlaysInHand'
        BY <1>1, <1>2, <2>1, WriterKeepsPlays
    <2>2. ASSUME NEW t \in open, CommitPlay(t) PROVE PlaysInHand'
        BY <1>1, <1>2, <2>2, WriterKeepsPlays
    <2>3. ASSUME NEW kind \in WriteKinds, NEW g \in Games \cup {None}, kind = "odds" <=> g = None,
                 OtherWrite(kind, g)
          PROVE  PlaysInHand'
        BY <1>1, <1>2, <2>3, WriterKeepsPlays
    <2>4. /\ \A g \in Games : g # None /\ g \in Games \cup {None}
          /\ {"odds", "flow"} \subseteq WriteKinds
        BY ListenerAssumption DEF WriteKinds
    <2>5. ASSUME NEW g \in Games, OtherWrite("flow", g) PROVE PlaysInHand'
        BY <2>3, <2>4, <2>5
    <2>6. OtherWrite("odds", None) => PlaysInHand'
        BY <2>3, <2>4
    <2>7. Listen \/ ListenLost \/ OnNotify => PlaysInHand'
        BY <1>1, <1>2, ConnectionKeepsPlays, NotifyKeepsPlays
    <2>8. ASSUME NEW ch \in Channels, Subscribe(ch) \/ Unsubscribe(ch) PROVE PlaysInHand'
        BY <1>1, <1>2, <2>8, SubscribersKeepPlays
    <2>9. ASSUME NEW t \in tasks,
                 \/ Query(t) \/ QueryError(t) \/ ResumeScore(t) \/ ResumePlays(t)
                 \/ ResumeCatchUp(t) \/ Publish(t) \/ PublishError(t)
          PROVE  PlaysInHand'
        BY <1>1, <1>2, <2>9, QueryKeepsPlays, FailureKeepsPlays, ResumeKeepsPlays, PublishKeepsPlays
    <2> QED
        BY <1>4, <2>1, <2>2, <2>5, <2>6, <2>7, <2>8, <2>9, ListenerAssumption DEF Next
<1> QED
    BY <1>3, <1>4

AnnouncedInv == ListenerInv /\ PlaysOwned /\ BatchesOwned /\ FailuresOwned /\ PlaysInHand

THEOREM AnnouncedInvariant == NoOverlap => (Spec => []AnnouncedInv)
<1> SUFFICES ASSUME NoOverlap PROVE Spec => []AnnouncedInv
    OBVIOUS
<1>1. Init => AnnouncedInv
    <2> SUFFICES ASSUME Init PROVE AnnouncedInv
        OBVIOUS
    <2>1. ListenerInv
        BY ListenerInit
    <2>2. PlaysOwned /\ BatchesOwned /\ FailuresOwned
        BY DEF Init, PlaysOwned, BatchesOwned, FailuresOwned
    <2>3. PlaysInHand
        BY DEF Init, PlaysInHand, Expected
    <2> QED
        BY <2>1, <2>2, <2>3 DEF AnnouncedInv
<1>2. AnnouncedInv /\ [Next]_vars => AnnouncedInv'
    <2> SUFFICES ASSUME AnnouncedInv, [Next]_vars PROVE AnnouncedInv'
        OBVIOUS
    <2>1. ListenerInv /\ ListenerInv'
        BY ListenerStep DEF AnnouncedInv
    <2>2. TypeOK /\ TaskShape /\ CommittedInOrder
        BY <2>1 DEF ListenerInv
    <2>3. PlaysGrow
        BY <2>2, TableStep
    <2>4. PlaysOwned' /\ BatchesOwned' /\ FailuresOwned'
        BY <2>2, <2>3, PlaysOwnedStep, BatchesStep, FailuresStep DEF AnnouncedInv
    <2>5. PlaysInHand'
        BY <2>1, PlaysStep DEF AnnouncedInv
    <2> QED
        BY <2>1, <2>4, <2>5 DEF AnnouncedInv
<1> QED
    BY <1>1, <1>2, PTL DEF Spec

(* Whoever is subscribed to a game's play-by-play has been sent the plays   *)
(* inserted since, the first _PBP_BATCH_MAX of the game, when nothing is    *)
(* under way: the cursor they are queried from passes none of them.         *)
THEOREM PlaysReachSubscribers == NoOverlap => (Spec => []PlaysAnnounced)
<1>1. AnnouncedInv => PlaysAnnounced
    <2> SUFFICES ASSUME AnnouncedInv, Quiet, NEW g \in Games \ missed, Pbp(g) \in subs,
                        NEW n \in plays[g], n > since[Pbp(g)],
                        Cardinality({m \in plays[g] : m <= n}) <= PbpBatchMax
                 PROVE  n \in PlaysIn(g)
        BY DEF PlaysAnnounced
    <2>1. n \in Nat /\ Expected(g, n)
        BY DEF AnnouncedInv, ListenerInv, TypeOK, Expected
    <2>2. PlayInHand(g, n)
        BY <2>1 DEF AnnouncedInv, PlaysInHand
    <2> QED
        BY <2>2 DEF PlayInHand, NotifiedOf, Quiet
<1> QED
    BY <1>1, AnnouncedInvariant, PTL
=============================================================================

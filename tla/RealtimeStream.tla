--------------------------- MODULE RealtimeStream ---------------------------
(* The realtime fan-out of the API: api/app/realtime/manager.py (channel    *)
(* registry and local dispatch of one process) and streams.py (the Redis    *)
(* Stream every process publishes to and reads through a consumer group of  *)
(* its own), with the connections that ws.py and sse.py open.               *)
(*                                                                          *)
(* Redis executes one command at a time; a process is one event loop that   *)
(* switches tasks only at awaits.  So one action is one Redis command, or   *)
(* the code a task runs between two suspensions.  An event is known by its  *)
(* channel, its sequence number and the boot epoch of the process that      *)
(* published it; its payload plays no part here.                            *)
EXTENDS Naturals, Sequences, FiniteSets

CONSTANTS
    Procs,           \* API processes
    Channels,        \* channel names that is_valid_channel accepts
    CatchupChannels, \* those DBPoller has a catch-up for (all but pbp)
    SSEConns,        \* connection objects: SSEConnection
    WSConns,         \* connection objects: WSConnection
    None,            \* no process, no connection
    SSEQueueMax,     \* SSE_QUEUE_MAX
    MaxChannels,     \* MAX_CHANNELS_PER_CONNECTION
    ReadCount,       \* RedisStreamsBridge._READ_COUNT
    ScanLimit,       \* STREAM_MAXLEN: how many entries a backlog scan reads
    Incidents,          \* what may happen in this instance
    MaxEvents,       \* bound: sequence numbers handed out
    MaxBoots         \* bound: process boots

IncidentKinds == {"crash", "publish_error", "lost_reply", "reused_group",
               "send_error", "catchup_error", "late_reader", "trim", "ws_replay"}

Conns == SSEConns \cup WSConns

ASSUME ConstantsAssumption ==
    /\ CatchupChannels \subseteq Channels
    /\ SSEConns \cap WSConns = {}
    /\ None \notin Procs \cup Conns
    /\ SSEQueueMax \in Nat \ {0}
    /\ MaxChannels \in Nat \ {0}
    /\ ReadCount \in Nat \ {0}
    /\ ScanLimit \in Nat \ {0}
    /\ Incidents \subseteq IncidentKinds
    /\ MaxEvents \in Nat
    /\ MaxBoots \in Nat

ASSUME FiniteAssumption == IsFiniteSet(Conns) /\ IsFiniteSet(Channels)

VARIABLES
    \* Redis, which outlives the processes
    seqOf,       \* hash realtime:seq, per channel
    stream,      \* stream realtime:events, every entry ever added
    trimmed,     \* how many of its oldest entries MINID has removed
    group,       \* per process group: last delivered entry (a position)
    \* each API process
    epoch,       \* boot epoch while up, 0 while down
    boots,       \* boots so far: epochs are unique
    publishing,  \* publish() calls between HINCRBY and XADD
    catchups,    \* scheduled first-subscriber callbacks
    done,        \* entries the consumer loop is done with (a position)
    current,     \* the suspended _dispatch_local call, if any
    subscribers, \* manager._subscribers
    \* each connection
    connChannels,\* manager._conn_channels
    home,        \* the process that holds the connection object
    queue,       \* SSEConnection._queue: positions of queued entries
    received,    \* what the dispatch has had written to an open connection
    used,        \* connection objects that exist or existed
    joined,      \* history: where in the stream a subscription starts
    \* the replay that the WebSocket endpoint writes itself
    askedSince,  \* lastSeq of the subscription (MaxEvents: asks for nothing)
    toFetch,     \* channels whose backlog is still to be read
    toReplay,    \* entries read and still to be sent: positions
    replayed     \* history: positions of the entries sent

redisVars == <<seqOf, stream, trimmed, group>>
procVars == <<epoch, boots, publishing, catchups, done, current, subscribers>>
replayVars == <<askedSince, toFetch, toReplay, replayed>>
connVars == <<connChannels, home, queue, received, used, joined, replayVars>>
vars == <<seqOf, stream, trimmed, group, epoch, boots, publishing, catchups,
          done, current, subscribers, connChannels, home, queue, received,
          used, joined, replayVars>>

Up(p) == epoch[p] # 0

Event == [channel : Channels, seq : Nat \ {0}, epoch : Nat \ {0}]
Publication == [proc : Procs, channel : Channels, seq : Nat \ {0}, epoch : Nat \ {0}]

(* A dispatch that is suspended in `await conn.send_event` of connection    *)
(* `sending`: the rest of its snapshot and the connections found dead.      *)
Idle == [sending |-> None, todo |-> {}, dead |-> {}]
Dispatch == [sending : WSConns \cup {None}, todo : SUBSET Conns, dead : SUBSET Conns]

ReplayOK ==
    /\ askedSince \in [Conns -> [Channels -> Nat]]
    /\ toFetch \in [Conns -> SUBSET Channels]
    /\ toReplay \in [Conns -> Seq(Nat)]
    /\ replayed \in [Conns -> SUBSET Nat]

TypeOK ==
    /\ seqOf \in [Channels -> Nat]
    /\ stream \in Seq(Event)
    /\ trimmed \in Nat
    /\ group \in [Procs -> Nat]
    /\ epoch \in [Procs -> Nat]
    /\ boots \in Nat
    /\ publishing \subseteq Publication
    /\ catchups \subseteq Procs \X Channels
    /\ done \in [Procs -> Nat]
    /\ current \in [Procs -> Dispatch]
    /\ subscribers \in [Procs -> [Channels -> SUBSET Conns]]
    /\ connChannels \in [Conns -> SUBSET Channels]
    /\ home \in [Conns -> Procs \cup {None}]
    /\ queue \in [Conns -> Seq(Nat)]
    /\ received \in [Conns -> Seq(Nat)]
    /\ used \subseteq Conns
    /\ joined \in [Conns -> [Channels -> Nat]]
    /\ ReplayOK

Init ==
    /\ seqOf = [ch \in Channels |-> 0]
    /\ stream = <<>>
    /\ trimmed = 0
    /\ group = [p \in Procs |-> 0]
    /\ epoch = [p \in Procs |-> 0]
    /\ boots = 0
    /\ publishing = {}
    /\ catchups = {}
    /\ done = [p \in Procs |-> 0]
    /\ current = [p \in Procs |-> Idle]
    /\ subscribers = [p \in Procs |-> [ch \in Channels |-> {}]]
    /\ connChannels = [c \in Conns |-> {}]
    /\ home = [c \in Conns |-> None]
    /\ queue = [c \in Conns |-> <<>>]
    /\ received = [c \in Conns |-> <<>>]
    /\ used = {}
    /\ joined = [c \in Conns |-> [ch \in Channels |-> 0]]
    /\ askedSince = [c \in Conns |-> [ch \in Channels |-> MaxEvents]]
    /\ toFetch = [c \in Conns |-> {}]
    /\ toReplay = [c \in Conns |-> <<>>]
    /\ replayed = [c \in Conns |-> {}]

-----------------------------------------------------------------------------
(* Process lifecycle.                                                       *)

(* Mutant of Boot: the group is created with id "0". *)
BootFromStart(p) ==
    /\ ~Up(p)
    /\ boots < MaxBoots
    /\ boots' = boots + 1
    /\ epoch' = [epoch EXCEPT ![p] = boots + 1]
    /\ group' = [group EXCEPT ![p] = 0]
    /\ done' = [done EXCEPT ![p] = 0]
    /\ UNCHANGED <<seqOf, stream, trimmed, publishing, catchups, current,
                   subscribers, connVars>>

(* start(): a new epoch, then XGROUP CREATE with id "$".  The group is named *)
(* after host and pid: a process that comes back under both finds its old   *)
(* group (BUSYGROUP, ignored) and reads on where that one stopped.          *)
Boot(p) ==
    /\ ~Up(p)
    /\ boots < MaxBoots
    /\ boots' = boots + 1
    /\ epoch' = [epoch EXCEPT ![p] = boots + 1]
    /\ \/ /\ group' = [group EXCEPT ![p] = Len(stream)]
          /\ done' = [done EXCEPT ![p] = Len(stream)]
       \/ /\ "reused_group" \in Incidents
          /\ done' = [done EXCEPT ![p] = group[p]]
          /\ UNCHANGED group
    /\ UNCHANGED <<seqOf, stream, trimmed, publishing, catchups, current,
                   subscribers, connVars>>

(* The endpoints of connections cs end, and what they were replaying.       *)
ReplayEnds(cs) ==
    /\ askedSince' = [c \in Conns |-> IF c \in cs THEN [ch \in Channels |-> MaxEvents]
                                      ELSE askedSince[c]]
    /\ toFetch' = [c \in Conns |-> IF c \in cs THEN {} ELSE toFetch[c]]
    /\ toReplay' = [c \in Conns |-> IF c \in cs THEN <<>> ELSE toReplay[c]]
    /\ replayed' = [c \in Conns |-> IF c \in cs THEN {} ELSE replayed[c]]

(* A crash, or stop() and exit: what the process held in memory is gone and *)
(* so are its connections; an event whose XADD was not sent is never added. *)
Crash(p) ==
    /\ "crash" \in Incidents
    /\ Up(p)
    /\ epoch' = [epoch EXCEPT ![p] = 0]
    /\ publishing' = {r \in publishing : r.proc # p}
    /\ catchups' = {t \in catchups : t[1] # p}
    /\ current' = [current EXCEPT ![p] = Idle]
    /\ subscribers' = [subscribers EXCEPT ![p] = [ch \in Channels |-> {}]]
    /\ connChannels' = [c \in Conns |-> IF home[c] = p THEN {} ELSE connChannels[c]]
    /\ home' = [c \in Conns |-> IF home[c] = p THEN None ELSE home[c]]
    /\ queue' = [c \in Conns |-> IF home[c] = p THEN <<>> ELSE queue[c]]
    /\ received' = [c \in Conns |-> IF home[c] = p THEN <<>> ELSE received[c]]
    /\ ReplayEnds({c \in Conns : home[c] = p})
    /\ UNCHANGED <<redisVars, boots, done, used, joined>>

-----------------------------------------------------------------------------
(* Publishing: two Redis commands with an await between them.               *)

(* HINCRBY realtime:seq channel 1 *)
HIncrBy(p, ch) ==
    /\ Up(p)
    /\ seqOf[ch] < MaxEvents
    /\ seqOf' = [seqOf EXCEPT ![ch] = @ + 1]
    /\ publishing' = publishing \cup
          {[proc |-> p, channel |-> ch, seq |-> seqOf[ch] + 1, epoch |-> epoch[p]]}

Publish(p, ch) ==
    /\ HIncrBy(p, ch)
    /\ UNCHANGED <<stream, trimmed, group, epoch, boots, catchups, done, current,
                   subscribers, connVars>>

(* Mutant of CatchUp: nothing for a channel without events. *)
CatchUpKnownOnly(p, ch) ==
    /\ <<p, ch>> \in catchups
    /\ catchups' = catchups \ {<<p, ch>>}
    /\ IF seqOf[ch] > 0 THEN HIncrBy(p, ch) ELSE UNCHANGED <<seqOf, publishing>>
    /\ UNCHANGED <<stream, trimmed, group, epoch, boots, done, current,
                   subscribers, connVars>>

(* The scheduled _on_first_subscriber callback publishes the current state; *)
(* it publishes nothing when the row is missing or the database fails.      *)
CatchUp(p, ch) ==
    /\ <<p, ch>> \in catchups
    /\ catchups' = catchups \ {<<p, ch>>}
    /\ \/ HIncrBy(p, ch)
       \/ "catchup_error" \in Incidents /\ UNCHANGED <<seqOf, publishing>>
    /\ UNCHANGED <<stream, trimmed, group, epoch, boots, done, current,
                   subscribers, connVars>>

(* XADD realtime:events MINID ~ (now - retention): the entry goes to the    *)
(* end and entries older than the retention may go; how many is up to the   *)
(* clock.  A group that is more than the retention behind misses entries.   *)
XAdd(r) ==
    /\ r \in publishing
    /\ publishing' = publishing \ {r}
    /\ stream' = Append(stream, [channel |-> r.channel, seq |-> r.seq, epoch |-> r.epoch])
    /\ trimmed' \in trimmed .. Len(stream)
    /\ \/ trimmed' = trimmed
       \/ "trim" \in Incidents /\ \A p \in Procs : Up(p) => trimmed' <= group[p]
       \/ "late_reader" \in Incidents
    /\ UNCHANGED <<seqOf, group, epoch, boots, catchups, done, current,
                   subscribers, connVars>>

(* XADD fails: publish() raises, the sequence number is used up. *)
PublishError(r) ==
    /\ "publish_error" \in Incidents
    /\ r \in publishing
    /\ publishing' = publishing \ {r}
    /\ UNCHANGED <<redisVars, epoch, boots, catchups, done, current, subscribers,
                   connVars>>

-----------------------------------------------------------------------------
(* The consumer loop of a process.  Entries done[p] + 1 .. group[p] are the *)
(* batch it holds: Redis has counted them as delivered to its group.        *)

Smaller(m, n) == IF m <= n THEN m ELSE n
Larger(m, n) == IF m <= n THEN n ELSE m

(* XREADGROUP group consumer COUNT n STREAMS realtime:events ">": only      *)
(* entries never delivered to the group, so those of a reply that is lost   *)
(* with the connection (the loop backs off and reads on) are not seen again.*)
XReadGroup(p) ==
    LET first == Larger(group[p], trimmed)
        last == Smaller(first + ReadCount, Len(stream))
    IN  /\ Up(p)
        /\ current[p] = Idle
        /\ done[p] = group[p]
        /\ first < Len(stream)
        /\ group' = [group EXCEPT ![p] = last]
        /\ \/ done' = [done EXCEPT ![p] = first]
           \/ "lost_reply" \in Incidents /\ done' = [done EXCEPT ![p] = last]
        /\ UNCHANGED <<seqOf, stream, trimmed, epoch, boots, publishing, catchups,
                       current, subscribers, connVars>>

(* manager.disconnect for a set of connections of p. *)
DropFromRegistry(p, cs) ==
    /\ subscribers' = [subscribers EXCEPT ![p] = [ch \in Channels |-> @[ch] \ cs]]
    /\ connChannels' = [c \in Conns |-> IF c \in cs THEN {} ELSE connChannels[c]]

(* send_event on the SSE connections in `put`: put_nowait never suspends,   *)
(* and overflows when the queue is full.                                    *)
Overflowing(put) == {c \in put : Len(queue[c]) >= SSEQueueMax}

Enqueue(p, put) ==
    queue' = [c \in Conns |->
        IF c \in put \ Overflowing(put) /\ home[c] # None
        THEN Append(queue[c], done[p] + 1) ELSE queue[c]]

(* Mutant of FinishEntry: acknowledged only when everybody got it. *)
FinishEntryIfDelivered(p, dead) ==
    /\ DropFromRegistry(p, dead)
    /\ done' = [done EXCEPT ![p] = IF dead = {} THEN @ + 1 ELSE @]
    /\ current' = [current EXCEPT ![p] = Idle]

(* Mutant of FinishEntry: the dead are only logged. *)
FinishEntryKeepsDead(p, dead) ==
    /\ done' = [done EXCEPT ![p] = @ + 1]
    /\ current' = [current EXCEPT ![p] = Idle]
    /\ UNCHANGED <<subscribers, connChannels>>

(* The end of a dispatch: the dead are disconnected, the entry acknowledged.*)
FinishEntry(p, dead) ==
    /\ DropFromRegistry(p, dead)
    /\ done' = [done EXCEPT ![p] = @ + 1]
    /\ current' = [current EXCEPT ![p] = Idle]

(* send_event on a WebSocket suspends the dispatch. *)
SuspendIn(p, c, todo, dead) ==
    /\ current' = [current EXCEPT ![p] = [sending |-> c, todo |-> todo, dead |-> dead]]
    /\ UNCHANGED <<done, subscribers, connChannels>>

(* _dispatch_local from one suspension to the next, over what is left of    *)
(* its snapshot, a set of connections that is gone through in any order.    *)
RunDispatch(p, todo, dead) ==
    \E put \in SUBSET (todo \cap SSEConns) :
        /\ Enqueue(p, put)
        /\ \/ put = todo /\ FinishEntry(p, dead \cup Overflowing(put))
           \/ \E c \in todo \cap WSConns :
                 SuspendIn(p, c, todo \ (put \cup {c}), dead \cup Overflowing(put))

(* _handle_entry: a snapshot of the channel's local subscribers is taken    *)
(* and the event sent to each of them.                                      *)
HandleEntry(p) ==
    /\ Up(p)
    /\ current[p] = Idle
    /\ done[p] < group[p]
    /\ RunDispatch(p, subscribers[p][stream[done[p] + 1].channel], {})
    /\ UNCHANGED <<redisVars, epoch, boots, publishing, catchups, home, received,
                   used, joined, replayVars>>

(* Mutant of EndSend: no time limit on a send. *)
EndSendUntimed(p) ==
    LET c == current[p].sending
    IN  /\ c # None
        /\ home[c] # None
        /\ received' = [received EXCEPT ![c] = Append(@, done[p] + 1)]
        /\ RunDispatch(p, current[p].todo, current[p].dead)
        /\ UNCHANGED <<redisVars, epoch, boots, publishing, catchups, home, used, joined,
                       replayVars>>

(* The send the dispatch waits for succeeds, or fails or times out: the     *)
(* connection is dead, whether or not the event was written by then.        *)
EndSend(p) ==
    LET c == current[p].sending
        written == received' = [received EXCEPT ![c] = Append(@, done[p] + 1)]
    IN  /\ c # None
        /\ \/ home[c] # None /\ written /\ RunDispatch(p, current[p].todo, current[p].dead)
           \/ /\ home[c] = None \/ "send_error" \in Incidents
              /\ UNCHANGED received \/ (home[c] # None /\ written)
              /\ RunDispatch(p, current[p].todo, current[p].dead \cup {c})
        /\ UNCHANGED <<redisVars, epoch, boots, publishing, catchups, home, used, joined,
                       replayVars>>

-----------------------------------------------------------------------------
(* Connections.                                                             *)

(* Mutant of Backlog: starts one event too late. *)
BacklogLate(p, ch, since) ==
    {n \in trimmed + 1 .. Smaller(trimmed + ScanLimit, Len(stream)) :
        /\ stream[n].channel = ch
        /\ stream[n].epoch = epoch[p]
        /\ stream[n].seq > since + 1}

(* Mutant of Subscribe: registered with the channel before the limit check. *)
SubscribeBeforeLimit(p, c, chs) ==
    \E accepted \in SUBSET chs :
        /\ Cardinality(connChannels[c] \cup accepted) <= MaxChannels
        /\ subscribers' = [subscribers EXCEPT ![p] = [ch \in Channels |->
              IF ch \in chs THEN @[ch] \cup {c} ELSE @[ch]]]
        /\ connChannels' = [connChannels EXCEPT ![c] = @ \cup accepted]
        /\ UNCHANGED <<catchups, joined>>

(* manager.subscribe, called for each channel of chs: channels over the     *)
(* limit are refused.  The first subscriber of a channel schedules the      *)
(* catch-up callback.  `joined` records the entry after which the           *)
(* subscription counts: the one being dispatched has its snapshot already.  *)
Subscribe(p, c, chs) ==
    \E accepted \in SUBSET chs :
        /\ chs \cap connChannels[c] \subseteq accepted
        /\ Cardinality(connChannels[c] \cup accepted) <= MaxChannels
        /\ \/ accepted = chs
           \/ Cardinality(connChannels[c] \cup accepted) = MaxChannels
        /\ subscribers' = [subscribers EXCEPT ![p] = [ch \in Channels |->
              IF ch \in accepted THEN @[ch] \cup {c} ELSE @[ch]]]
        /\ connChannels' = [connChannels EXCEPT ![c] = @ \cup accepted]
        /\ catchups' = catchups \cup
              {<<p, ch>> : ch \in {x \in accepted \cap CatchupChannels :
                                      subscribers[p][x] = {}}}
        /\ joined' = [joined EXCEPT ![c] = [ch \in Channels |->
              IF ch \notin accepted \ connChannels[c] THEN @[ch]
              ELSE IF current[p] = Idle THEN done[p] ELSE done[p] + 1]]

Opens(p, c) ==
    /\ Up(p)
    /\ c \notin used
    /\ used' = used \cup {c}
    /\ home' = [home EXCEPT ![c] = p]

(* GET /v1/sse?channels=...: all valid channels at once. *)
OpenSSE(p, c, chs) ==
    /\ c \in SSEConns
    /\ chs # {}
    /\ Opens(p, c)
    /\ Subscribe(p, c, chs)
    /\ UNCHANGED <<redisVars, epoch, boots, publishing, done, current, queue, received,
                   replayVars>>

(* WS /v1/ws is accepted; channels come with later messages. *)
OpenWS(p, c) ==
    /\ c \in WSConns
    /\ Opens(p, c)
    /\ UNCHANGED <<redisVars, procVars, connChannels, queue, received, joined, replayVars>>

(* The endpoint takes a message only when it is done with the one before.   *)
Listening(c) == toFetch[c] = {} /\ toReplay[c] = <<>>

(* A subscribe message without lastSeq, or of another epoch (answered with  *)
(* epoch_changed), asks for no replay; what is newly subscribed has none.   *)
AskNothing(c) ==
    /\ askedSince' = [askedSince EXCEPT ![c] = [ch \in Channels |->
          IF ch \in connChannels'[c] \ connChannels[c] THEN MaxEvents ELSE @[ch]]]
    /\ UNCHANGED toFetch

(* One of this epoch asks for what came after lastSeq in each channel that  *)
(* was accepted, new or not.                                                *)
AskSince(c, chs, last) ==
    LET accepted == chs \cap connChannels'[c]
    IN  /\ "ws_replay" \in Incidents
        /\ askedSince' = [askedSince EXCEPT ![c] = [ch \in Channels |->
              IF ch \in accepted THEN last ELSE @[ch]]]
        /\ toFetch' = [toFetch EXCEPT ![c] = accepted]

SubscribeWS(p, c, chs) ==
    /\ c \in WSConns
    /\ home[c] = p
    /\ chs # {}
    /\ Listening(c)
    /\ Subscribe(p, c, chs)
    /\ AskNothing(c) \/ \E last \in 0 .. MaxEvents - 1 : AskSince(c, chs, last)
    /\ UNCHANGED <<redisVars, epoch, boots, publishing, done, current, home,
                   queue, received, used, toReplay, replayed>>

(* fetch_backlog: XRANGE from the start of the retention, at most ScanLimit *)
(* entries, of which those of the channel, of this process's own epoch and  *)
(* with a larger number are kept.                                           *)
Backlog(p, ch, since) ==
    {n \in trimmed + 1 .. Smaller(trimmed + ScanLimit, Len(stream)) :
        /\ stream[n].channel = ch
        /\ stream[n].epoch = epoch[p]
        /\ stream[n].seq > since}

InOrder(ns) ==
    {s \in [1 .. Cardinality(ns) -> ns] : \A i, j \in DOMAIN s : i < j => s[i] < s[j]}

(* The endpoint reads the backlog of the next channel of the message, which *)
(* goes on when the dispatch has dropped the connection meanwhile.          *)
FetchReplay(c, ch) ==
    /\ home[c] # None
    /\ ch \in toFetch[c]
    /\ toReplay[c] = <<>>
    /\ toFetch' = [toFetch EXCEPT ![c] = @ \ {ch}]
    /\ \E s \in InOrder(Backlog(home[c], ch, askedSince[c][ch])) :
          toReplay' = [toReplay EXCEPT ![c] = s]
    /\ UNCHANGED <<redisVars, procVars, connChannels, home, queue, received, used, joined,
                   askedSince, replayed>>

(* `await websocket.send_json`: straight to the socket, beside the sends of *)
(* the dispatch and without their time limit; when it fails the endpoint    *)
(* closes.                                                                  *)
SendReplay(c) ==
    /\ home[c] # None
    /\ toReplay[c] # <<>>
    /\ toReplay' = [toReplay EXCEPT ![c] = Tail(@)]
    /\ replayed' = [replayed EXCEPT ![c] = @ \cup {Head(toReplay[c])}]
    /\ UNCHANGED <<redisVars, procVars, connChannels, home, queue, received, used, joined,
                   askedSince, toFetch>>

UnsubscribeWS(p, c, chs) ==
    /\ c \in WSConns
    /\ home[c] = p
    /\ Listening(c)
    /\ subscribers' = [subscribers EXCEPT ![p] = [ch \in Channels |->
          IF ch \in chs THEN @[ch] \ {c} ELSE @[ch]]]
    /\ connChannels' = [connChannels EXCEPT ![c] = @ \ chs]
    /\ UNCHANGED <<redisVars, epoch, boots, publishing, catchups, done, current,
                   home, queue, received, used, joined, replayVars>>

(* The SSE generator writes the next queued event. *)
WriteSSE(c) ==
    /\ home[c] # None
    /\ queue[c] # <<>>
    /\ received' = [received EXCEPT ![c] = Append(@, Head(queue[c]))]
    /\ queue' = [queue EXCEPT ![c] = Tail(@)]
    /\ UNCHANGED <<redisVars, procVars, connChannels, home, used, joined, replayVars>>

(* The client is gone: `finally: realtime_manager.disconnect(conn)`. *)
Close(p, c) ==
    /\ home[c] = p
    /\ home' = [home EXCEPT ![c] = None]
    /\ queue' = [queue EXCEPT ![c] = <<>>]
    /\ received' = [received EXCEPT ![c] = <<>>]
    /\ DropFromRegistry(p, {c})
    /\ ReplayEnds({c})
    /\ UNCHANGED <<redisVars, epoch, boots, publishing, catchups, done, current,
                   used, joined>>

-----------------------------------------------------------------------------
Next ==
    \/ \E p \in Procs : Boot(p) \/ Crash(p) \/ XReadGroup(p) \/ HandleEntry(p) \/ EndSend(p)
    \/ \E p \in Procs, ch \in Channels : Publish(p, ch) \/ CatchUp(p, ch)
    \/ \E r \in publishing : XAdd(r) \/ PublishError(r)
    \/ \E p \in Procs, c \in Conns :
          \/ OpenWS(p, c) \/ Close(p, c)
          \/ \E chs \in SUBSET Channels :
                OpenSSE(p, c, chs) \/ SubscribeWS(p, c, chs) \/ UnsubscribeWS(p, c, chs)
    \/ \E c \in Conns :
          \/ WriteSSE(c) \/ SendReplay(c)
          \/ \E ch \in Channels : FetchReplay(c, ch)

(* A process goes on reading and dispatching, and a send ends: WS_SEND_     *)
(* TIMEOUT_S bounds it.  A publish() and a callback that have started go    *)
(* on.  Nothing forces boots, new events, or what clients do.               *)
Fairness ==
    /\ \A p \in Procs : /\ WF_vars(XReadGroup(p))
                        /\ WF_vars(HandleEntry(p))
                        /\ WF_vars(EndSend(p))
                        /\ \A ch \in Channels : WF_vars(CatchUp(p, ch))
    /\ WF_vars(\E r \in publishing : XAdd(r) \/ PublishError(r))
    /\ \A c \in SSEConns : WF_vars(WriteSSE(c))

Spec == Init /\ [][Next]_vars

LiveSpec == Spec /\ Fairness

-----------------------------------------------------------------------------
(* No two events of a channel ever share a sequence number, in the stream   *)
(* or on their way to it, whatever processes publish, crash and restart.    *)
SeqUnique ==
    /\ \A m, n \in 1 .. Len(stream) :
          stream[m].channel = stream[n].channel /\ stream[m].seq = stream[n].seq => m = n
    /\ \A r, s \in publishing :
          r.channel = s.channel /\ r.seq = s.seq => r = s
    /\ \A n \in 1 .. Len(stream), r \in publishing :
          ~(stream[n].channel = r.channel /\ stream[n].seq = r.seq)

(* The manager's two maps say the same, about open connections of this      *)
(* process only: a dispatch that disconnects the dead, an unsubscribe in    *)
(* the middle of it and a closing endpoint leave no entry behind.           *)
RegistryConsistent ==
    /\ \A p \in Procs, c \in Conns, ch \in Channels :
          c \in subscribers[p][ch] <=> home[c] = p /\ ch \in connChannels[c]
    /\ \A c \in Conns : home[c] = None => connChannels[c] = {}

Handed(c) == received[c] \o queue[c]

(* The dispatch hands a connection every entry at most once and in stream   *)
(* order, also when the connection unsubscribes, subscribes again, is       *)
(* dropped or is replayed the backlog during a dispatch.  What the endpoint *)
(* of a WebSocket replays beside it is in no order with it: an entry may    *)
(* come twice, or after a newer one.                                        *)
InStreamOrder ==
    \A c \in Conns : \A i, j \in 1 .. Len(Handed(c)) :
        i < j => Handed(c)[i] < Handed(c)[j]

(* As long as a connection is registered for a channel it is handed every   *)
(* entry of the channel its process has dispatched since: a full queue or   *)
(* a failed send ends the registration, it never leaves a silent gap.       *)
NoGapWhileSubscribed ==
    \A c \in Conns : \A ch \in connChannels[c] :
        \A n \in joined[c][ch] + 1 .. done[home[c]] :
            stream[n].channel = ch => \E i \in 1 .. Len(Handed(c)) : Handed(c)[i] = n

(* "Same epoch + lastSeq: replay missed events": once the endpoint has sent *)
(* what it has read, each retained entry of this process's own epoch that   *)
(* is numbered after lastSeq was sent, or will be by the dispatch since it  *)
(* comes after the point where the subscription starts.                     *)
ReplayLeavesNoGap ==
    \A c \in WSConns : \A ch \in connChannels[c] :
        ch \notin toFetch[c] =>
            \A n \in trimmed + 1 .. joined[c][ch] :
                (/\ stream[n].channel = ch
                 /\ stream[n].epoch = epoch[home[c]]
                 /\ stream[n].seq > askedSince[c][ch])
                => \/ \E i \in 1 .. Len(toReplay[c]) : toReplay[c][i] = n
                   \/ n \in replayed[c]

(* The batch a process holds lies between what it is done with and the end  *)
(* of the stream, and a dispatch is suspended only inside a batch.          *)
BatchInStream ==
    /\ trimmed <= Len(stream)
    /\ \A p \in Procs :
          /\ done[p] <= group[p]
          /\ group[p] <= Len(stream)
          /\ current[p].sending # None => Up(p) /\ done[p] < group[p]

(* Why SeqUnique is kept: no number has been used that HINCRBY did not give  *)
(* out, so the next one is new.                                             *)
NumbersGivenOut ==
    /\ \A ch \in Channels : seqOf[ch] <= MaxEvents
    /\ \A n \in 1 .. Len(stream) : stream[n].seq <= seqOf[stream[n].channel]
    /\ \A r \in publishing : r.seq <= seqOf[r.channel]

(* Why RegistryConsistent is kept: the connections a suspended dispatch     *)
(* still refers to are of its own process, or closed by now.                *)
InDispatch(p) == current[p].todo \cup current[p].dead \cup ({current[p].sending} \ {None})

DispatchRefersToOwn ==
    /\ \A p \in Procs : \A c \in InDispatch(p) : c \in used /\ home[c] \in {p, None}
    /\ \A c \in Conns : home[c] # None => c \in used

(* Why InStreamOrder is kept: a connection has been handed nothing behind   *)
(* the entry its process is done with, but for the one being dispatched if  *)
(* the dispatch has passed it; what is closed has nothing, and only SSE     *)
(* connections queue.                                                       *)
Unserved(p) == current[p].todo \cup ({current[p].sending} \ {None})

HandedLimit(p, c) ==
    IF current[p].sending = None \/ c \in Unserved(p) THEN done[p] ELSE done[p] + 1

HandedSoFar ==
    /\ \A p \in Procs :
          /\ current[p].sending = None => current[p] = Idle
          /\ current[p].sending \notin current[p].todo
    /\ \A c \in Conns :
          /\ home[c] = None => received[c] = <<>>
          /\ home[c] = None \/ c \in WSConns => queue[c] = <<>>
          /\ home[c] # None =>
                /\ Up(home[c])
                /\ \A i \in 1 .. Len(Handed(c)) : Handed(c)[i] <= HandedLimit(home[c], c)

(* Why NoGapWhileSubscribed is kept: a subscriber of the channel of the     *)
(* entry being dispatched has it already, is still to get it, or is known   *)
(* to be dead and about to be dropped; or it has subscribed since.          *)
EntryInHand ==
    \A p \in Procs, c \in Conns, ch \in Channels :
        (/\ current[p].sending # None
         /\ home[c] = p
         /\ ch \in connChannels[c]
         /\ stream[done[p] + 1].channel = ch
         /\ joined[c][ch] <= done[p])
        => c \in InDispatch(p) \/ \E i \in 1 .. Len(Handed(c)) : Handed(c)[i] = done[p] + 1

(* The inductive invariant of the server side. *)
StreamInv ==
    /\ TypeOK
    /\ NumbersGivenOut
    /\ SeqUnique
    /\ BatchInStream
    /\ DispatchRefersToOwn
    /\ RegistryConsistent

(* The documented promise of the bridge: see BroadcastLog. *)
Log == INSTANCE BroadcastLog WITH
    Readers <- Procs,
    Entries <- Channels \X (1 .. MaxEvents),
    log <- [n \in 1 .. Len(stream) |-> <<stream[n].channel, stream[n].seq>>],
    attached <- {p \in Procs : Up(p)},
    position <- done

EveryProcessReadsTheLog == Log!Spec

(* The incidents under which it is kept: no reply of XREADGROUP is lost, no *)
(* process comes back to the group of a dead one, and none falls behind by  *)
(* more than the retention.                                                 *)
ReliableReads == Incidents \cap {"lost_reply", "reused_group", "late_reader"} = {}

(* What the argument rests on: entries are trimmed behind all readers.      *)
TrimBehindReaders == \A p \in Procs : Up(p) => trimmed <= group[p]

(* Every entry reaches the clients: a connection that stays subscribed gets *)
(* each later entry of the channel, however slow the other clients are.     *)
SubscriberServed ==
    \A c \in Conns, ch \in Channels, n \in 1 .. (MaxEvents * Cardinality(Channels)) :
        (/\ ch \in connChannels[c]
         /\ n \in joined[c][ch] + 1 .. Len(stream)
         /\ stream[n].channel = ch)
        ~> (ch \notin connChannels[c] \/ \E i \in 1 .. Len(received[c]) : received[c][i] = n)

(* The first subscriber of a channel is sent an event without waiting for   *)
(* the next change: the catch-up publishes one (bound: while numbers last). *)
FirstSubscriberCaughtUp ==
    \A p \in Procs, c \in Conns, ch \in CatchupChannels :
        (<<p, ch>> \in catchups /\ c \in subscribers[p][ch])
        ~> (\/ c \notin subscribers[p][ch]
            \/ seqOf[ch] = MaxEvents
            \/ \E i \in 1 .. Len(received[c]) : stream[received[c][i]].channel = ch)
=============================================================================

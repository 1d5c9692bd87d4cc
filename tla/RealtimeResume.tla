--------------------------- MODULE RealtimeResume ---------------------------
(* Resuming a Server-Sent-Events stream: the endpoint of api/app/realtime/  *)
(* sse.py, which replays the backlog of the Redis Stream, and the web       *)
(* client that reconnects to it (web/src/lib/hooks/useLiveGameScore.ts),    *)
(* on top of the fan-out of RealtimeStream.  A client follows one channel.  *)
(* The replay of ws.py, which has no queue, is in RealtimeStream.           *)
EXTENDS RealtimeStream

CONSTANTS
    Clients,      \* mounted hooks
    channelOf,    \* [Clients -> Channels]
    ClientIncidents \* what may happen to a hook in this instance

ASSUME ResumeAssumption ==
    /\ channelOf \in [Clients -> Channels]
    /\ ClientIncidents \subseteq {"refetch_error"}

VARIABLES
    \* the endpoint, per SSE connection
    phase,       \* how far _event_generator is
    request,     \* the query parameters (lastSeq, lastEpoch 0: absent)
    wire,        \* bytes on their way to the client
    written,     \* history: positions of the entries written, replayed or live
    \* the hook, per client
    conn,        \* esRef: the connection it reads from
    lastSeq,     \* lastSeqRef (0: null)
    lastEpoch,   \* lastEpochRef (0: null)
    refetching,  \* epochs whose fetchFullState is under way
    synced       \* history: epochs the client has a full state of

endpointVars == <<phase, request, wire, written>>
clientVars == <<conn, lastSeq, lastEpoch, refetching, synced>>
resumeVars == <<vars, endpointVars, clientVars>>

EpochChanged(e) == [type |-> "epoch_changed", epoch |-> e, position |-> 0]
EventAt(n, e) == [type |-> "event", epoch |-> e, position |-> n]

Message == [type : {"epoch_changed", "event"}, epoch : Nat, position : Nat]

ResumeTypeOK ==
    /\ phase \in [SSEConns -> {"none", "opening", "replaying", "live"}]
    /\ request \in [SSEConns -> [channel : Channels \cup {None},
                              lastSeq : Nat, lastEpoch : Nat]]
    /\ wire \in [SSEConns -> Seq(Message)]
    /\ written \in [SSEConns -> SUBSET (1 .. Len(stream))]
    /\ conn \in [Clients -> SSEConns \cup {None}]
    /\ lastSeq \in [Clients -> Nat]
    /\ lastEpoch \in [Clients -> Nat]
    /\ refetching \in [Clients -> SUBSET Nat]
    /\ synced \in [Clients -> SUBSET Nat]

ResumeInit ==
    /\ Init
    /\ phase = [c \in SSEConns |-> "none"]
    /\ request = [c \in SSEConns |-> [channel |-> None, lastSeq |-> 0, lastEpoch |-> 0]]
    /\ wire = [c \in SSEConns |-> <<>>]
    /\ written = [c \in SSEConns |-> {}]
    /\ conn = [k \in Clients |-> None]
    /\ lastSeq = [k \in Clients |-> 0]
    /\ lastEpoch = [k \in Clients |-> 0]
    /\ refetching = [k \in Clients |-> {}]
    /\ synced = [k \in Clients |-> {}]

-----------------------------------------------------------------------------
(* connect(): a new EventSource, to whichever process answers, with what    *)
(* the hook remembers.  sse_endpoint subscribes before it answers.          *)
Connect(k, p, c) ==
    /\ conn[k] = None
    /\ OpenSSE(p, c, {channelOf[k]})
    /\ conn' = [conn EXCEPT ![k] = c]
    /\ phase' = [phase EXCEPT ![c] = "opening"]
    /\ request' = [request EXCEPT ![c] =
          [channel |-> channelOf[k], lastSeq |-> lastSeq[k], lastEpoch |-> lastEpoch[k]]]
    /\ UNCHANGED <<wire, written, lastSeq, lastEpoch, refetching, synced>>

(* _event_generator starts: an epoch other than this process's is answered  *)
(* with epoch_changed; the same epoch with a lastSeq goes on to the backlog.*)
StartStream(c) ==
    LET here == epoch[home[c]]
        r == request[c]
    IN  /\ phase[c] = "opening"
        /\ home[c] # None
        /\ \/ /\ r.lastEpoch \notin {0, here}
              /\ wire' = [wire EXCEPT ![c] = Append(@, EpochChanged(here))]
              /\ phase' = [phase EXCEPT ![c] = "live"]
           \/ /\ r.lastSeq # 0 /\ r.lastEpoch = here
              /\ phase' = [phase EXCEPT ![c] = "replaying"]
              /\ UNCHANGED wire
           \/ /\ r.lastEpoch \in {0, here} /\ ~(r.lastSeq # 0 /\ r.lastEpoch = here)
              /\ phase' = [phase EXCEPT ![c] = "live"]
              /\ UNCHANGED wire
        /\ UNCHANGED <<vars, request, written, clientVars>>

(* The endpoint writes the whole backlog before it turns to the queue.      *)
ReplayBacklog(c) ==
    LET r == request[c]
        here == epoch[home[c]]
        missed == Backlog(home[c], r.channel, r.lastSeq)
    IN  /\ phase[c] = "replaying"
        /\ home[c] # None
        /\ \E s \in InOrder(missed) :
              wire' = [wire EXCEPT ![c] = @ \o [i \in DOMAIN s |-> EventAt(s[i], here)]]
        /\ written' = [written EXCEPT ![c] = @ \cup missed]
        /\ phase' = [phase EXCEPT ![c] = "live"]
        /\ UNCHANGED <<vars, request, clientVars>>

(* The loop of the generator writes what the dispatch has queued. *)
WriteLive(c) ==
    /\ phase[c] = "live"
    /\ WriteSSE(c)
    /\ wire' = [wire EXCEPT ![c] = Append(@, EventAt(Head(queue[c]), epoch[home[c]]))]
    /\ written' = [written EXCEPT ![c] = @ \cup {Head(queue[c])}]
    /\ UNCHANGED <<phase, request, clientVars>>

(* The generator finds the client gone. *)
EndStream(p, c) ==
    /\ \A k \in Clients : conn[k] # c
    /\ phase[c] \in {"replaying", "live"}
    /\ Close(p, c)
    /\ UNCHANGED <<endpointVars, clientVars>>

-----------------------------------------------------------------------------
(* The hook.                                                                *)

(* Mutant of OnMessage: epoch_changed only resets the resume point. *)
OnMessageNoRefetch(k) ==
    LET c == conn[k]
        m == Head(wire[c])
    IN  /\ c # None
        /\ wire[c] # <<>>
        /\ wire' = [wire EXCEPT ![c] = Tail(@)]
        /\ lastEpoch' = [lastEpoch EXCEPT ![k] = m.epoch]
        /\ lastSeq' = [lastSeq EXCEPT ![k] =
              IF m.type = "event" THEN stream[m.position].seq ELSE 0]
        /\ synced' = IF m.type = "event" /\ lastEpoch[k] = 0
                     THEN [synced EXCEPT ![k] = @ \cup {m.epoch}] ELSE synced
        /\ UNCHANGED <<vars, phase, request, written, conn, refetching>>

(* onmessage.  A patch or a phase change moves the resume point, to a       *)
(* smaller number too; a phase change also refetches the full state.        *)
OnMessage(k) ==
    LET c == conn[k]
        m == Head(wire[c])
    IN  /\ c # None
        /\ wire[c] # <<>>
        /\ wire' = [wire EXCEPT ![c] = Tail(@)]
        /\ lastEpoch' = [lastEpoch EXCEPT ![k] = m.epoch]
        /\ IF m.type = "epoch_changed"
           THEN /\ lastSeq' = [lastSeq EXCEPT ![k] = 0]
                /\ refetching' = [refetching EXCEPT ![k] = @ \cup {m.epoch}]
                /\ UNCHANGED synced
           ELSE /\ lastSeq' = [lastSeq EXCEPT ![k] = stream[m.position].seq]
                /\ synced' = IF lastEpoch[k] # 0 THEN synced
                             ELSE [synced EXCEPT ![k] = @ \cup {m.epoch}]
                /\ UNCHANGED refetching
        /\ UNCHANGED <<vars, phase, request, written, conn>>

(* onerror: the hook closes the stream and will connect again. *)
OnError(k) ==
    /\ conn[k] # None
    /\ wire' = [wire EXCEPT ![conn[k]] = <<>>]
    /\ conn' = [conn EXCEPT ![k] = None]
    /\ UNCHANGED <<vars, phase, request, written, lastSeq, lastEpoch, refetching, synced>>

(* fetchFullState ends, with the full state or with an error that is        *)
(* swallowed ("will recover on next reconnect").                            *)
Refetched(k, e) ==
    /\ e \in refetching[k]
    /\ refetching' = [refetching EXCEPT ![k] = @ \ {e}]
    /\ \/ synced' = [synced EXCEPT ![k] = @ \cup {e}]
       \/ "refetch_error" \in ClientIncidents /\ UNCHANGED synced
    /\ UNCHANGED <<vars, endpointVars, conn, lastSeq, lastEpoch>>

-----------------------------------------------------------------------------
ServerStep ==
    /\ \/ \E p \in Procs :
             \/ Boot(p) \/ Crash(p) \/ XReadGroup(p) \/ HandleEntry(p)
             \/ \E ch \in Channels : Publish(p, ch) \/ CatchUp(p, ch)
       \/ \E r \in publishing : XAdd(r) \/ PublishError(r)
    /\ UNCHANGED <<endpointVars, clientVars>>

ResumeNext ==
    \/ ServerStep
    \/ \E c \in SSEConns :
          \/ StartStream(c) \/ ReplayBacklog(c) \/ WriteLive(c)
          \/ \E p \in Procs : EndStream(p, c) \/ \E k \in Clients : Connect(k, p, c)
    \/ \E k \in Clients :
          \/ OnMessage(k) \/ OnError(k)
          \/ \E e \in refetching[k] : Refetched(k, e)

ResumeSpec == ResumeInit /\ [][ResumeNext]_resumeVars

-----------------------------------------------------------------------------
(* "Reconnect with ?lastSeq=N&lastEpoch=<uuid> to receive missed events     *)
(* since seq N": once the stream is live and its queue is written out, every *)
(* entry of the channel that comes after entry N, is numbered after it, is   *)
(* still retained and was dispatched by the process has been written: the   *)
(* subscription taken before the backlog is read leaves no gap between them.*)
MissedSince(r, n) ==
    /\ stream[n].channel = r.channel
    /\ stream[n].seq > r.lastSeq
    /\ \E m \in 1 .. n : stream[m].channel = r.channel /\ stream[m].seq = r.lastSeq

ResumeComplete ==
    \A c \in SSEConns :
        LET r == request[c]
        IN  (/\ phase[c] = "live"
             /\ home[c] # None
             /\ r.lastSeq # 0 /\ r.lastEpoch = epoch[home[c]]
             /\ r.channel \in connChannels[c]
             /\ queue[c] = <<>>)
            => \A n \in trimmed + 1 .. done[home[c]] : MissedSince(r, n) => n \in written[c]

(* "server restarted, client must full-refetch": a hook that goes on from   *)
(* one epoch to another refetches in that step; no event of the new epoch   *)
(* reaches it first and hides the restart.                                  *)
RestartRefetched ==
    [][\A k \in Clients :
          lastEpoch[k] # 0 /\ lastEpoch'[k] # lastEpoch[k]
          => lastEpoch'[k] \in refetching'[k]]_resumeVars

=============================================================================

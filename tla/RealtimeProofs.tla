--------------------------- MODULE RealtimeProofs ---------------------------
(* Theorems about the realtime server. First RealtimeStream, for every      *)
(* number of processes, channels, connections and events, and whatever      *)
(* incidents are allowed; then RealtimeResume, for any number of hooks too: *)
(* what needs one process or reads that are not lost says so. The           *)
(* invariants of the fan-out hold there as well, because the endpoint and   *)
(* the hook only add to its steps.                                          *)
EXTENDS RealtimeResume, FiniteSetTheorems, TLAPS

-----------------------------------------------------------------------------
(* THE FAN-OUT                                                              *)

USE DEF Conns

(* What a run of the dispatch loop leaves behind is of the right types. *)
LEMMA RunDispatchType ==
    ASSUME TypeOK, NEW p \in Procs, NEW todo \in SUBSET Conns,
           NEW dead \in SUBSET Conns, RunDispatch(p, todo, dead)
    PROVE  /\ queue' \in [Conns -> Seq(Nat)]
           /\ done' \in [Procs -> Nat]
           /\ current' \in [Procs -> Dispatch]
           /\ subscribers' \in [Procs -> [Channels -> SUBSET Conns]]
           /\ connChannels' \in [Conns -> SUBSET Channels]
<1> PICK put \in SUBSET (todo \cap SSEConns) :
        /\ Enqueue(p, put)
        /\ \/ put = todo /\ FinishEntry(p, dead \cup Overflowing(put))
           \/ \E c \in todo \cap WSConns :
                 SuspendIn(p, c, todo \ (put \cup {c}), dead \cup Overflowing(put))
    BY DEF RunDispatch
<1>1. done[p] + 1 \in Nat
    BY DEF TypeOK
<1>2. queue' \in [Conns -> Seq(Nat)]
    BY <1>1 DEF TypeOK, Enqueue
<1>3. dead \cup Overflowing(put) \in SUBSET Conns
    BY DEF Overflowing
<1>4. CASE FinishEntry(p, dead \cup Overflowing(put))
    <2>1. /\ subscribers' \in [Procs -> [Channels -> SUBSET Conns]]
          /\ connChannels' \in [Conns -> SUBSET Channels]
        BY <1>4 DEF TypeOK, FinishEntry, DropFromRegistry
    <2>2. done' \in [Procs -> Nat]
        BY <1>1, <1>4 DEF TypeOK, FinishEntry
    <2>3. Idle \in Dispatch
        BY DEF Idle, Dispatch
    <2>4. current' \in [Procs -> Dispatch]
        BY <1>4, <2>3 DEF TypeOK, FinishEntry
    <2> QED
        BY <1>2, <2>1, <2>2, <2>4
<1>5. ASSUME NEW c \in todo \cap WSConns,
             SuspendIn(p, c, todo \ (put \cup {c}), dead \cup Overflowing(put))
      PROVE  /\ current' \in [Procs -> Dispatch]
             /\ UNCHANGED <<done, subscribers, connChannels>>
    <2>1. [sending |-> c, todo |-> todo \ (put \cup {c}),
           dead |-> dead \cup Overflowing(put)] \in Dispatch
        BY <1>3 DEF Dispatch
    <2> QED
        BY <1>5, <2>1 DEF TypeOK, SuspendIn
<1> QED
    BY <1>2, <1>4, <1>5 DEF TypeOK


(* The fields of an entry of the stream. *)
LEMMA EntryType ==
    ASSUME TypeOK, NEW n \in 1 .. Len(stream)
    PROVE  /\ stream[n].channel \in Channels
           /\ stream[n].seq \in Nat \ {0}
           /\ stream[n].epoch \in Nat \ {0}
<1>1. stream[n] \in Event
    BY DEF TypeOK
<1> QED
    BY <1>1 DEF Event

LEMMA TypeInit == Init => TypeOK
<1> SUFFICES ASSUME Init PROVE TypeOK
    OBVIOUS
<1>1. ReplayOK
    BY ConstantsAssumption DEF Init, ReplayOK
<1> QED
    BY <1>1 DEF Init, TypeOK, Idle, Dispatch

LEMMA SubscribeType ==
    ASSUME TypeOK, NEW p \in Procs, NEW c \in Conns, NEW chs \in SUBSET Channels,
           Subscribe(p, c, chs)
    PROVE  /\ subscribers' \in [Procs -> [Channels -> SUBSET Conns]]
           /\ connChannels' \in [Conns -> SUBSET Channels]
           /\ catchups' \subseteq Procs \X Channels
           /\ joined' \in [Conns -> [Channels -> Nat]]
<1>1. done[p] \in Nat /\ done[p] + 1 \in Nat
    BY DEF TypeOK
<1>2. joined' \in [Conns -> [Channels -> Nat]]
    BY <1>1 DEF TypeOK, Subscribe
<1> QED
    BY <1>2, ConstantsAssumption DEF TypeOK, Subscribe

(* HINCRBY hands out the next number of the channel, to a publication. *)
LEMMA HIncrByType ==
    ASSUME TypeOK, NEW p \in Procs, NEW ch \in Channels, HIncrBy(p, ch)
    PROVE  seqOf' \in [Channels -> Nat] /\ publishing' \subseteq Publication
<1>1. /\ seqOf[ch] + 1 \in Nat \ {0}
      /\ epoch[p] \in Nat \ {0}
    BY DEF TypeOK, HIncrBy, Up
<1> QED
    BY <1>1 DEF TypeOK, HIncrBy, Publication

(* The entries of a backlog, and what is replayed: all of them, in order.   *)
LEMMA BacklogType ==
    ASSUME TypeOK, NEW p \in Procs, NEW ch, NEW since \in Nat
    PROVE  Backlog(p, ch, since) \subseteq 1 .. Len(stream)
<1>1. trimmed \in Nat /\ Len(stream) \in Nat
    BY DEF TypeOK
<1>2. ScanLimit \in Nat
    BY ConstantsAssumption
<1> QED
    BY <1>1, <1>2 DEF Backlog, Smaller

LEMMA OrderedIsSequence ==
    ASSUME NEW n \in Nat, NEW ns \in SUBSET (1 .. n), NEW s \in InOrder(ns)
    PROVE  s \in Seq(Nat) /\ \A m \in ns : \E i \in 1 .. Len(s) : s[i] = m
<1> DEFINE k == Cardinality(ns)
           D == 1 .. k
<1>1. IsFiniteSet(ns)
    BY FS_Interval, FS_Subset, 1 \in Int, n \in Int
<1>2. k \in Nat
    BY <1>1, FS_CardinalityType
<1>3. Cardinality(D) = k
    <2>1. Cardinality(D) = IF 1 > k THEN 0 ELSE k - 1 + 1
        BY <1>2, FS_Interval, 1 \in Int, k \in Int
    <2> QED
        BY <1>2, <2>1
<1>4. s \in [D -> ns] /\ \A i, j \in D : i < j => s[i] < s[j]
    BY DEF InOrder
<1>5. \A i \in D : i \in Nat /\ s[i] \in Nat
    <2>1. \A m \in ns : m \in Nat
        OBVIOUS
    <2>2. \A i \in D : i \in Nat
        BY <1>2
    <2> QED
        BY <1>4, <2>1, <2>2, Zenon
<1>6. \A i, j \in D : s[i] = s[j] => i = j
    <2> SUFFICES ASSUME NEW i \in D, NEW j \in D, s[i] = s[j] PROVE i = j
        OBVIOUS
    <2>1. ~(i < j) /\ ~(j < i)
        BY <1>4, <1>5
    <2> QED
        BY <1>5, <2>1
<1>7. s \in Seq(Nat) /\ Len(s) = k
    BY <1>2, <1>4, <1>5
<1> HIDE DEF k, D
<1>8. s \in Injection(D, ns)
    BY <1>4, <1>6 DEF Injection, IsInjective
<1>9. s \in Surjection(D, ns)
    BY <1>1, <1>3, <1>8, FS_Injection DEF k
<1>10. \A m \in ns : \E i \in D : s[i] = m
    BY <1>9 DEF Surjection
<1> QED
    BY <1>7, <1>10 DEF D

(* The replay touches nothing that the dispatch works on.                   *)
fanoutVars == <<seqOf, stream, trimmed, group, epoch, boots, publishing, catchups, done,
                current, subscribers, connChannels, home, queue, received, used, joined>>

LEMMA ReplayBeside ==
    /\ UNCHANGED vars => UNCHANGED fanoutVars
    /\ \A c \in Conns : SendReplay(c) => UNCHANGED fanoutVars
    /\ \A c \in Conns, ch \in Channels : FetchReplay(c, ch) => UNCHANGED fanoutVars
<1>1. ASSUME NEW c \in Conns, SendReplay(c) PROVE UNCHANGED fanoutVars
    BY <1>1 DEF SendReplay, fanoutVars, redisVars, procVars
<1>2. ASSUME NEW c \in Conns, NEW ch \in Channels, FetchReplay(c, ch)
      PROVE  UNCHANGED fanoutVars
    BY <1>2 DEF FetchReplay, fanoutVars, redisVars, procVars
<1>3. UNCHANGED vars => UNCHANGED fanoutVars
    BY DEF vars, fanoutVars
<1> QED
    BY <1>1, <1>2, <1>3

(* What the endpoint is replaying keeps its type in every step.             *)
LEMMA ReplayTypeStep ==
    ASSUME TypeOK, [Next]_vars
    PROVE  ReplayOK'
<1> USE DEF replayVars, connVars
<1>1. ReplayOK /\ MaxEvents \in Nat
    BY ConstantsAssumption DEF TypeOK
<1>2. ASSUME UNCHANGED replayVars PROVE ReplayOK'
    BY <1>1, <1>2 DEF ReplayOK
<1>3. ASSUME NEW cs, ReplayEnds(cs) PROVE ReplayOK'
    BY <1>1, <1>3 DEF ReplayOK, ReplayEnds
<1>4. ASSUME NEW p \in Procs, NEW c \in Conns, NEW chs \in SUBSET Channels,
             SubscribeWS(p, c, chs)
      PROVE  ReplayOK'
    <2>1. UNCHANGED <<toReplay, replayed>>
        BY <1>4 DEF SubscribeWS
    <2>2. CASE AskNothing(c)
        BY <1>1, <2>1, <2>2 DEF AskNothing, ReplayOK
    <2>3. ASSUME NEW last \in 0 .. MaxEvents - 1, AskSince(c, chs, last) PROVE ReplayOK'
        BY <1>1, <2>1, <2>3 DEF AskSince, ReplayOK
    <2> QED
        BY <1>4, <2>2, <2>3 DEF SubscribeWS
<1>5. ASSUME NEW c \in Conns, NEW ch \in Channels, FetchReplay(c, ch) PROVE ReplayOK'
    <2> DEFINE ns == Backlog(home[c], ch, askedSince[c][ch])
    <2>1. home[c] \in Procs /\ askedSince[c][ch] \in Nat /\ Len(stream) \in Nat
        BY <1>1, <1>5 DEF TypeOK, ReplayOK, FetchReplay
    <2>2. ns \in SUBSET (1 .. Len(stream))
        BY <2>1, BacklogType
    <2>3. PICK s \in InOrder(ns) : toReplay' = [toReplay EXCEPT ![c] = s]
        BY <1>5 DEF FetchReplay
    <2> HIDE DEF ns
    <2>4. s \in Seq(Nat)
        BY <2>1, <2>2, OrderedIsSequence
    <2> QED
        BY <1>1, <1>5, <2>3, <2>4 DEF FetchReplay, ReplayOK
<1>6. ASSUME NEW c \in Conns, SendReplay(c) PROVE ReplayOK'
    <2>1. toReplay[c] \in Seq(Nat) /\ toReplay[c] # <<>>
        BY <1>1, <1>6 DEF SendReplay, ReplayOK, TypeOK
    <2>2. Head(toReplay[c]) \in Nat /\ Tail(toReplay[c]) \in Seq(Nat)
        BY <2>1
    <2> QED
        BY <1>1, <1>6, <2>2 DEF SendReplay, ReplayOK
<1>7. ASSUME NEW p \in Procs,
             \/ Boot(p) \/ Crash(p) \/ XReadGroup(p) \/ HandleEntry(p) \/ EndSend(p)
             \/ \E ch \in Channels : Publish(p, ch) \/ CatchUp(p, ch)
      PROVE  ReplayOK'
    BY <1>2, <1>3, <1>7 DEF Boot, Crash, XReadGroup, HandleEntry, EndSend, Publish, CatchUp
<1>8. ASSUME NEW r \in publishing, XAdd(r) \/ PublishError(r) PROVE ReplayOK'
    BY <1>2, <1>8 DEF XAdd, PublishError
<1>9. ASSUME NEW p \in Procs, NEW c \in Conns,
             \/ OpenWS(p, c) \/ Close(p, c)
             \/ \E chs \in SUBSET Channels : OpenSSE(p, c, chs) \/ UnsubscribeWS(p, c, chs)
      PROVE  ReplayOK'
    BY <1>2, <1>3, <1>9 DEF OpenWS, Close, OpenSSE, UnsubscribeWS
<1>10. ASSUME NEW c \in Conns, WriteSSE(c) PROVE ReplayOK'
    BY <1>2, <1>10 DEF WriteSSE
<1>11. CASE UNCHANGED vars
    BY <1>2, <1>11 DEF vars
<1> QED
    BY <1>4, <1>5, <1>6, <1>7, <1>8, <1>9, <1>10, <1>11 DEF Next

(* Every step keeps the variables within their types. *)
LEMMA TypeStep == TypeOK /\ BatchInStream /\ [Next]_vars => TypeOK'
<1> SUFFICES ASSUME TypeOK, BatchInStream, [Next]_vars PROVE TypeOK'
    OBVIOUS
<1>0. ReplayOK'
    BY ReplayTypeStep
<1> USE <1>0 DEF redisVars, procVars, connVars
<1>1. ASSUME NEW p \in Procs, Boot(p) PROVE TypeOK'
    <2>1. Len(stream) \in Nat /\ boots + 1 \in Nat /\ group[p] \in Nat
        BY DEF TypeOK
    <2>2. /\ group' \in [Procs -> Nat]
          /\ done' \in [Procs -> Nat]
          /\ epoch' \in [Procs -> Nat]
          /\ boots' \in Nat
        BY <1>1, <2>1 DEF TypeOK, Boot
    <2> QED
        BY <1>1, <2>2 DEF TypeOK, Boot
<1>2. ASSUME NEW p \in Procs, Crash(p) PROVE TypeOK'
    <2>1. Idle \in Dispatch
        BY DEF Idle, Dispatch
    <2>2. /\ epoch' \in [Procs -> Nat]
          /\ current' \in [Procs -> Dispatch]
          /\ subscribers' \in [Procs -> [Channels -> SUBSET Conns]]
          /\ publishing' \subseteq Publication
          /\ catchups' \subseteq Procs \X Channels
        BY <1>2, <2>1 DEF TypeOK, Crash
    <2>3. /\ connChannels' \in [Conns -> SUBSET Channels]
          /\ home' \in [Conns -> Procs \cup {None}]
          /\ queue' \in [Conns -> Seq(Nat)]
          /\ received' \in [Conns -> Seq(Nat)]
        BY <1>2 DEF TypeOK, Crash
    <2> QED
        BY <1>2, <2>2, <2>3 DEF TypeOK, Crash
<1>3. ASSUME NEW p \in Procs, XReadGroup(p) PROVE TypeOK'
    <2> DEFINE first == Larger(group[p], trimmed)
               last == Smaller(first + ReadCount, Len(stream))
    <2>1. first \in Nat /\ last \in Nat
        BY ConstantsAssumption DEF TypeOK, Larger, Smaller
    <2>2. group' \in [Procs -> Nat]
        BY <1>3, <2>1 DEF TypeOK, XReadGroup
    <2>3. done' \in [Procs -> Nat]
        BY <1>3, <2>1 DEF TypeOK, XReadGroup
    <2> QED
        BY <1>3, <2>2, <2>3 DEF TypeOK, XReadGroup
<1>4. ASSUME NEW p \in Procs, HandleEntry(p) PROVE TypeOK'
    <2> DEFINE snapshot == subscribers[p][stream[done[p] + 1].channel]
    <2>1. PICK subs \in SUBSET Conns : RunDispatch(p, subs, {})
        <3>1. done[p] + 1 \in 1 .. Len(stream)
            BY <1>4 DEF HandleEntry, TypeOK, BatchInStream
        <3>2. stream[done[p] + 1].channel \in Channels
            BY <3>1, EntryType
        <3>3. snapshot \in SUBSET Conns
            BY <3>2 DEF TypeOK
        <3> QED
            BY <1>4, <3>3 DEF HandleEntry
    <2> QED
        BY <1>4, <2>1, RunDispatchType DEF TypeOK, HandleEntry
<1>5. ASSUME NEW p \in Procs, EndSend(p) PROVE TypeOK'
    <2> DEFINE c == current[p].sending
    <2>1. /\ c \in WSConns
          /\ current[p].todo \in SUBSET Conns
          /\ current[p].dead \in SUBSET Conns
          /\ current[p].dead \cup {c} \in SUBSET Conns
        BY <1>5 DEF TypeOK, EndSend, Dispatch
    <2>2. Append(received[c], done[p] + 1) \in Seq(Nat)
        BY <2>1 DEF TypeOK
    <2>4. received' \in [Conns -> Seq(Nat)]
        BY <1>5, <2>1, <2>2 DEF TypeOK, EndSend
    <2>3. PICK dead \in SUBSET Conns : RunDispatch(p, current[p].todo, dead)
        BY <1>5, <2>1 DEF EndSend
    <2> QED
        BY <1>5, <2>1, <2>3, <2>4, RunDispatchType DEF TypeOK, EndSend
<1>6. ASSUME NEW p \in Procs, NEW ch \in Channels, Publish(p, ch) PROVE TypeOK'
    BY <1>6, HIncrByType DEF TypeOK, Publish
<1>7. ASSUME NEW p \in Procs, NEW ch \in Channels, CatchUp(p, ch) PROVE TypeOK'
    <2>1. seqOf' \in [Channels -> Nat] /\ publishing' \subseteq Publication
        BY <1>7, HIncrByType DEF TypeOK, CatchUp
    <2> QED
        BY <1>7, <2>1 DEF TypeOK, CatchUp
<1>8. ASSUME NEW r \in publishing, XAdd(r) PROVE TypeOK'
    <2>1. [channel |-> r.channel, seq |-> r.seq, epoch |-> r.epoch] \in Event
        BY DEF TypeOK, Publication, Event
    <2>2. stream' \in Seq(Event)
        BY <1>8, <2>1 DEF TypeOK, XAdd
    <2>3. trimmed' \in Nat
        BY <1>8 DEF TypeOK, XAdd
    <2> QED
        BY <1>8, <2>2, <2>3 DEF TypeOK, XAdd
<1>9. ASSUME NEW r \in publishing, PublishError(r) PROVE TypeOK'
    BY <1>9 DEF TypeOK, PublishError
<1>10. ASSUME NEW p \in Procs, NEW c \in Conns, OpenWS(p, c) PROVE TypeOK'
    BY <1>10 DEF TypeOK, OpenWS, Opens
<1>11. ASSUME NEW p \in Procs, NEW c \in Conns, Close(p, c) PROVE TypeOK'
    BY <1>11 DEF TypeOK, Close, DropFromRegistry
<1>12. ASSUME NEW p \in Procs, NEW c \in Conns, NEW chs \in SUBSET Channels,
              OpenSSE(p, c, chs)
       PROVE  TypeOK'
    BY <1>12, SubscribeType DEF TypeOK, OpenSSE, Opens
<1>13. ASSUME NEW p \in Procs, NEW c \in Conns, NEW chs \in SUBSET Channels,
              SubscribeWS(p, c, chs)
       PROVE  TypeOK'
    BY <1>13, SubscribeType DEF TypeOK, SubscribeWS
<1>14. ASSUME NEW p \in Procs, NEW c \in Conns, NEW chs \in SUBSET Channels,
              UnsubscribeWS(p, c, chs)
       PROVE  TypeOK'
    BY <1>14 DEF TypeOK, UnsubscribeWS
<1>15. ASSUME NEW c \in Conns, WriteSSE(c) PROVE TypeOK'
    <2>1. Head(queue[c]) \in Nat /\ Tail(queue[c]) \in Seq(Nat)
        BY <1>15 DEF TypeOK, WriteSSE
    <2>2. Append(received[c], Head(queue[c])) \in Seq(Nat)
        BY <2>1 DEF TypeOK
    <2>3. received' \in [Conns -> Seq(Nat)]
        BY <1>15, <2>2 DEF TypeOK, WriteSSE
    <2>4. queue' \in [Conns -> Seq(Nat)]
        BY <1>15, <2>1 DEF TypeOK, WriteSSE
    <2> QED
        BY <1>15, <2>3, <2>4 DEF TypeOK, WriteSSE
<1>16. CASE UNCHANGED fanoutVars
    BY <1>16 DEF TypeOK, fanoutVars
<1> QED
    BY ReplayBeside, <1>1, <1>2, <1>3, <1>4, <1>5, <1>6, <1>7, <1>8, <1>9, <1>10, <1>11, <1>12,
       <1>13, <1>14, <1>15, <1>16 DEF Next

-----------------------------------------------------------------------------
(* HINCRBY keeps the numbers below the counter and gives out a new one.     *)
LEMMA HIncrByNumbers ==
    ASSUME TypeOK, NumbersGivenOut, SeqUnique,
           NEW p \in Procs, NEW ch \in Channels, HIncrBy(p, ch), stream' = stream
    PROVE  NumbersGivenOut' /\ SeqUnique'
<1> DEFINE new == [proc |-> p, channel |-> ch, seq |-> seqOf[ch] + 1, epoch |-> epoch[p]]
<1>1. /\ publishing' = publishing \cup {new}
      /\ seqOf' = [seqOf EXCEPT ![ch] = seqOf[ch] + 1]
      /\ seqOf[ch] < MaxEvents
    BY DEF HIncrBy
<1>2. \A x \in Channels : seqOf[x] \in Nat /\ seqOf'[x] \in Nat /\ seqOf[x] <= seqOf'[x]
    BY <1>1 DEF TypeOK
<1>3. seqOf'[ch] = seqOf[ch] + 1
    BY <1>1 DEF TypeOK
<1>4. \A r \in publishing : r.channel \in Channels /\ r.seq \in Nat
    BY DEF TypeOK, Publication
<1>5. \A n \in 1 .. Len(stream) : stream[n].channel \in Channels /\ stream[n].seq \in Nat
    BY EntryType
<1>6. NumbersGivenOut'
    <2>1. \A x \in Channels : seqOf'[x] <= MaxEvents
        BY <1>1, <1>2, ConstantsAssumption DEF NumbersGivenOut, TypeOK
    <2>2. \A n \in 1 .. Len(stream) : stream[n].seq <= seqOf'[stream[n].channel]
        BY <1>2, <1>5 DEF NumbersGivenOut
    <2>3. \A r \in publishing : r.seq <= seqOf'[r.channel]
        BY <1>2, <1>4 DEF NumbersGivenOut
    <2>4. new.seq <= seqOf'[new.channel]
        BY <1>2, <1>3
    <2> QED
        BY <1>1, <2>1, <2>2, <2>3, <2>4 DEF NumbersGivenOut
<1>7. \A r \in publishing : ~(r.channel = new.channel /\ r.seq = new.seq)
    BY <1>2, <1>4 DEF NumbersGivenOut
<1>8. \A n \in 1 .. Len(stream) : ~(stream[n].channel = new.channel /\ stream[n].seq = new.seq)
    BY <1>2, <1>5 DEF NumbersGivenOut
<1>9. SeqUnique'
    BY <1>1, <1>7, <1>8 DEF SeqUnique
<1> QED
    BY <1>6, <1>9

(* XADD moves a number from the publication to the stream. *)
LEMMA XAddNumbers ==
    ASSUME TypeOK, NumbersGivenOut, SeqUnique, NEW r \in publishing, XAdd(r)
    PROVE  NumbersGivenOut' /\ SeqUnique'
<1> DEFINE e == [channel |-> r.channel, seq |-> r.seq, epoch |-> r.epoch]
<1>1. e \in Event
    BY DEF TypeOK, Publication, Event
<1>2. /\ stream' = Append(stream, e)
      /\ publishing' = publishing \ {r}
      /\ seqOf' = seqOf
    BY DEF XAdd
<1>3. /\ Len(stream) \in Nat
      /\ Len(stream') = Len(stream) + 1
      /\ stream'[Len(stream) + 1] = e
      /\ \A n \in 1 .. Len(stream) : stream'[n] = stream[n]
    BY <1>1, <1>2 DEF TypeOK
<1>4. NumbersGivenOut'
    <2>1. e.seq <= seqOf[e.channel]
        BY DEF NumbersGivenOut
    <2>2. \A n \in 1 .. Len(stream') : stream'[n].seq <= seqOf[stream'[n].channel]
        BY <1>3, <2>1 DEF NumbersGivenOut
    <2> QED
        BY <1>2, <2>2 DEF NumbersGivenOut
<1>5. SeqUnique'
    <2>1. \A n \in 1 .. Len(stream) : ~(stream[n].channel = e.channel /\ stream[n].seq = e.seq)
        BY DEF SeqUnique
    <2>2. \A s \in publishing' : ~(e.channel = s.channel /\ e.seq = s.seq)
        BY <1>2 DEF SeqUnique
    <2>3. \A m, n \in 1 .. Len(stream') :
             stream'[m].channel = stream'[n].channel /\ stream'[m].seq = stream'[n].seq => m = n
        BY <1>3, <2>1 DEF SeqUnique
    <2>4. \A n \in 1 .. Len(stream'), s \in publishing' :
             ~(stream'[n].channel = s.channel /\ stream'[n].seq = s.seq)
        BY <1>2, <1>3, <2>2 DEF SeqUnique
    <2>5. \A s, t \in publishing' : s.channel = t.channel /\ s.seq = t.seq => s = t
        BY <1>2 DEF SeqUnique
    <2> QED
        BY <2>3, <2>4, <2>5 DEF SeqUnique
<1> QED
    BY <1>4, <1>5

LEMMA NumbersStep ==
    TypeOK /\ NumbersGivenOut /\ SeqUnique /\ [Next]_vars => NumbersGivenOut' /\ SeqUnique'
<1> SUFFICES ASSUME TypeOK, NumbersGivenOut, SeqUnique, [Next]_vars
             PROVE  NumbersGivenOut' /\ SeqUnique'
    OBVIOUS
<1> USE DEF redisVars, procVars, connVars
<1>1. ASSUME NEW p \in Procs, NEW ch \in Channels, Publish(p, ch)
      PROVE  NumbersGivenOut' /\ SeqUnique'
    BY <1>1, HIncrByNumbers DEF Publish
<1>2. ASSUME publishing' \subseteq publishing, UNCHANGED <<seqOf, stream>>
      PROVE  NumbersGivenOut' /\ SeqUnique'
    BY <1>2 DEF NumbersGivenOut, SeqUnique
<1>3. ASSUME NEW p \in Procs, NEW ch \in Channels, CatchUp(p, ch)
      PROVE  NumbersGivenOut' /\ SeqUnique'
    BY <1>2, <1>3, HIncrByNumbers DEF CatchUp
<1>4. ASSUME NEW r \in publishing, XAdd(r)
      PROVE  NumbersGivenOut' /\ SeqUnique'
    BY <1>4, XAddNumbers
<1>5. ASSUME NEW p \in Procs,
             Boot(p) \/ Crash(p) \/ XReadGroup(p) \/ HandleEntry(p) \/ EndSend(p)
      PROVE  NumbersGivenOut' /\ SeqUnique'
    BY <1>2, <1>5 DEF Boot, Crash, XReadGroup, HandleEntry, EndSend
<1>6. ASSUME NEW r \in publishing, PublishError(r)
      PROVE  NumbersGivenOut' /\ SeqUnique'
    BY <1>2, <1>6 DEF PublishError
<1>7. ASSUME NEW p \in Procs, NEW c \in Conns, OpenWS(p, c) \/ Close(p, c)
      PROVE  NumbersGivenOut' /\ SeqUnique'
    BY <1>2, <1>7 DEF OpenWS, Close
<1>8. ASSUME NEW p \in Procs, NEW c \in Conns, NEW chs \in SUBSET Channels,
             OpenSSE(p, c, chs) \/ SubscribeWS(p, c, chs) \/ UnsubscribeWS(p, c, chs)
      PROVE  NumbersGivenOut' /\ SeqUnique'
    BY <1>2, <1>8 DEF OpenSSE, SubscribeWS, UnsubscribeWS
<1>9. ASSUME NEW c \in Conns, WriteSSE(c)
      PROVE  NumbersGivenOut' /\ SeqUnique'
    BY <1>2, <1>9 DEF WriteSSE
<1>10. CASE UNCHANGED fanoutVars
    BY <1>2, <1>10 DEF fanoutVars
<1> QED
    BY ReplayBeside, <1>1, <1>3, <1>4, <1>5, <1>6, <1>7, <1>8, <1>9, <1>10 DEF Next

-----------------------------------------------------------------------------
(* A run of the dispatch loop finishes the entry, or suspends it with       *)
(* connections of the snapshot only.                                        *)
LEMMA RunDispatchCases ==
    ASSUME TypeOK, NEW p \in Procs, NEW todo \in SUBSET Conns,
           NEW dead \in SUBSET Conns, RunDispatch(p, todo, dead)
    PROVE  \/ \E cs \in SUBSET (dead \cup todo) : FinishEntry(p, cs)
           \/ \E c \in todo \cap WSConns, rest \in SUBSET todo, cs \in SUBSET (dead \cup todo) :
                 SuspendIn(p, c, rest, cs)
<1> PICK put \in SUBSET (todo \cap SSEConns) :
        /\ Enqueue(p, put)
        /\ \/ put = todo /\ FinishEntry(p, dead \cup Overflowing(put))
           \/ \E c \in todo \cap WSConns :
                 SuspendIn(p, c, todo \ (put \cup {c}), dead \cup Overflowing(put))
    BY DEF RunDispatch
<1>1. dead \cup Overflowing(put) \in SUBSET (dead \cup todo)
    BY DEF Overflowing
<1> QED
    BY <1>1

LEMMA RunDispatchBatch ==
    ASSUME TypeOK, BatchInStream, NEW p \in Procs, Up(p), done[p] < group[p],
           NEW todo \in SUBSET Conns, NEW dead \in SUBSET Conns,
           RunDispatch(p, todo, dead), UNCHANGED <<stream, trimmed, group, epoch>>
    PROVE  BatchInStream'
<1>1. done[p] \in Nat /\ group[p] \in Nat /\ done[p] + 1 <= group[p]
    BY DEF TypeOK
<1>2. ASSUME NEW cs \in SUBSET (dead \cup todo), FinishEntry(p, cs)
      PROVE  BatchInStream'
    BY <1>1, <1>2 DEF FinishEntry, BatchInStream, TypeOK, Idle, Up
<1>3. ASSUME NEW c, NEW rest, NEW cs, SuspendIn(p, c, rest, cs)
      PROVE  BatchInStream'
    BY <1>3 DEF SuspendIn, BatchInStream, TypeOK, Up
<1> QED
    BY <1>2, <1>3, RunDispatchCases

(* The snapshot a dispatch starts from. *)
LEMMA SnapshotType ==
    ASSUME TypeOK, BatchInStream, NEW p \in Procs, done[p] < group[p]
    PROVE  /\ stream[done[p] + 1].channel \in Channels
           /\ subscribers[p][stream[done[p] + 1].channel] \in SUBSET Conns
<1>1. done[p] + 1 \in 1 .. Len(stream)
    BY DEF TypeOK, BatchInStream
<1>2. stream[done[p] + 1].channel \in Channels
    BY <1>1, EntryType
<1> QED
    BY <1>2 DEF TypeOK

(* What a suspended dispatch holds. *)
LEMMA SuspendedType ==
    ASSUME TypeOK, NEW p \in Procs
    PROVE  /\ current[p].sending \in WSConns \cup {None}
           /\ current[p].todo \in SUBSET Conns
           /\ current[p].dead \in SUBSET Conns
BY DEF TypeOK, Dispatch

LEMMA BatchStep == TypeOK /\ BatchInStream /\ [Next]_vars => BatchInStream'
<1> SUFFICES ASSUME TypeOK, BatchInStream, [Next]_vars PROVE BatchInStream'
    OBVIOUS
<1> USE DEF redisVars, procVars, connVars
<1>1. ASSUME UNCHANGED <<stream, trimmed, group, epoch, done, current>>
      PROVE  BatchInStream'
    BY <1>1 DEF BatchInStream, Up
<1>2. ASSUME NEW p \in Procs, Boot(p) PROVE BatchInStream'
    <2>1. Len(stream) \in Nat /\ boots + 1 \in Nat \ {0}
        BY DEF TypeOK
    <2> QED
        BY <1>2, <2>1 DEF Boot, BatchInStream, TypeOK, Up
<1>3. ASSUME NEW p \in Procs, Crash(p) PROVE BatchInStream'
    BY <1>3 DEF Crash, BatchInStream, TypeOK, Up, Idle
<1>4. ASSUME NEW p \in Procs, XReadGroup(p) PROVE BatchInStream'
    <2> DEFINE first == Larger(group[p], trimmed)
               last == Smaller(first + ReadCount, Len(stream))
    <2>1. /\ first \in Nat
          /\ last \in Nat
          /\ first <= last
          /\ last <= Len(stream)
        BY <1>4, ConstantsAssumption DEF XReadGroup, Larger, Smaller, TypeOK, BatchInStream
    <2>2. /\ group' = [group EXCEPT ![p] = last]
          /\ done' = [done EXCEPT ![p] = first] \/ done' = [done EXCEPT ![p] = last]
          /\ current[p] = Idle
          /\ UNCHANGED <<stream, trimmed, epoch, current>>
        BY <1>4 DEF XReadGroup
    <2> QED
        BY <2>1, <2>2 DEF BatchInStream, TypeOK, Up, Idle
<1>5. ASSUME NEW p \in Procs, HandleEntry(p) PROVE BatchInStream'
    <2> DEFINE snapshot == subscribers[p][stream[done[p] + 1].channel]
    <2>1. /\ Up(p)
          /\ done[p] < group[p]
          /\ RunDispatch(p, snapshot, {})
          /\ UNCHANGED <<stream, trimmed, group, epoch>>
        BY <1>5 DEF HandleEntry
    <2>2. snapshot \in SUBSET Conns
        BY <2>1, SnapshotType
    <2> QED
        BY <2>1, <2>2, RunDispatchBatch
<1>6. ASSUME NEW p \in Procs, EndSend(p) PROVE BatchInStream'
    <2>1. /\ Up(p)
          /\ done[p] < group[p]
          /\ UNCHANGED <<stream, trimmed, group, epoch>>
        BY <1>6 DEF EndSend, BatchInStream
    <2>2. PICK dead \in SUBSET Conns : RunDispatch(p, current[p].todo, dead)
        BY <1>6, SuspendedType DEF EndSend
    <2> QED
        BY <2>1, <2>2, SuspendedType, RunDispatchBatch
<1>7. ASSUME NEW r \in publishing, XAdd(r) PROVE BatchInStream'
    <2>1. [channel |-> r.channel, seq |-> r.seq, epoch |-> r.epoch] \in Event
        BY DEF TypeOK, Publication, Event
    <2>2. Len(stream) \in Nat /\ Len(stream') = Len(stream) + 1
        BY <1>7, <2>1 DEF TypeOK, XAdd
    <2>3. trimmed' \in Nat /\ trimmed' <= Len(stream)
        BY <1>7, <2>2 DEF XAdd, TypeOK
    <2> QED
        BY <1>7, <2>2, <2>3 DEF XAdd, BatchInStream, TypeOK, Up
<1>8. ASSUME NEW p \in Procs, NEW ch \in Channels, Publish(p, ch) \/ CatchUp(p, ch)
      PROVE  BatchInStream'
    BY <1>1, <1>8 DEF Publish, CatchUp
<1>9. ASSUME NEW r \in publishing, PublishError(r) PROVE BatchInStream'
    BY <1>1, <1>9 DEF PublishError
<1>10. ASSUME NEW p \in Procs, NEW c \in Conns, OpenWS(p, c) \/ Close(p, c)
       PROVE  BatchInStream'
    BY <1>1, <1>10 DEF OpenWS, Close
<1>11. ASSUME NEW p \in Procs, NEW c \in Conns, NEW chs \in SUBSET Channels,
              OpenSSE(p, c, chs) \/ SubscribeWS(p, c, chs) \/ UnsubscribeWS(p, c, chs)
       PROVE  BatchInStream'
    BY <1>1, <1>11 DEF OpenSSE, SubscribeWS, UnsubscribeWS
<1>12. ASSUME NEW c \in Conns, WriteSSE(c) PROVE BatchInStream'
    BY <1>1, <1>12 DEF WriteSSE
<1>13. CASE UNCHANGED fanoutVars
    BY <1>1, <1>13 DEF fanoutVars
<1> QED
    BY ReplayBeside, <1>2, <1>3, <1>4, <1>5, <1>6, <1>7, <1>8, <1>9, <1>10, <1>11, <1>12, <1>13
       DEF Next

-----------------------------------------------------------------------------
(* The registry of p without the connections of cs, all of them connections *)
(* of p or closed ones.                                                     *)
LEMMA DropKeepsRegistry ==
    ASSUME TypeOK, RegistryConsistent, NEW p \in Procs, NEW cs \in SUBSET Conns,
           \A c \in cs : home[c] \in {p, None},
           DropFromRegistry(p, cs), home' = home
    PROVE  RegistryConsistent'
<1>1. ASSUME NEW q \in Procs, NEW c \in Conns, NEW ch \in Channels
      PROVE  (c \in subscribers'[q][ch] <=> home[c] = q /\ ch \in connChannels'[c])
    <2>1. /\ subscribers'[q][ch] = IF q = p THEN subscribers[q][ch] \ cs ELSE subscribers[q][ch]
          /\ connChannels'[c] = IF c \in cs THEN {} ELSE connChannels[c]
        BY DEF DropFromRegistry, TypeOK
    <2>2. c \in subscribers[q][ch] <=> home[c] = q /\ ch \in connChannels[c]
        BY DEF RegistryConsistent
    <2>3. None \notin Procs
        BY ConstantsAssumption
    <2> QED
        BY <2>1, <2>2, <2>3
<1>2. \A c \in Conns : home[c] = None => connChannels'[c] = {}
    BY DEF DropFromRegistry, RegistryConsistent
<1> QED
    BY <1>1, <1>2 DEF RegistryConsistent

RegistryInv == RegistryConsistent /\ DispatchRefersToOwn

(* A run of the dispatch loop over connections of p, or closed ones. *)
LEMMA RunDispatchRegistry ==
    ASSUME TypeOK, RegistryInv, NEW p \in Procs,
           NEW todo \in SUBSET Conns, NEW dead \in SUBSET Conns,
           \A c \in todo \cup dead : c \in used /\ home[c] \in {p, None},
           RunDispatch(p, todo, dead), UNCHANGED <<home, used>>
    PROVE  RegistryInv'
<1>1. ASSUME NEW cs \in SUBSET (dead \cup todo), FinishEntry(p, cs)
      PROVE  RegistryInv'
    <2>1. RegistryConsistent'
        BY <1>1, DropKeepsRegistry DEF FinishEntry, RegistryInv
    <2>2. \A q \in Procs : InDispatch(q)' \subseteq InDispatch(q)
        BY <1>1 DEF FinishEntry, TypeOK, InDispatch, Idle
    <2>3. DispatchRefersToOwn'
        BY <2>2 DEF DispatchRefersToOwn, RegistryInv
    <2> QED
        BY <2>1, <2>3 DEF RegistryInv
<1>2. ASSUME NEW c \in todo \cap WSConns, NEW rest \in SUBSET todo,
             NEW cs \in SUBSET (dead \cup todo), SuspendIn(p, c, rest, cs)
      PROVE  RegistryInv'
    <2>1. RegistryConsistent'
        BY <1>2 DEF SuspendIn, RegistryConsistent, RegistryInv
    <2>2. /\ InDispatch(p)' \subseteq todo \cup dead
          /\ \A q \in Procs \ {p} : InDispatch(q)' = InDispatch(q)
        BY <1>2 DEF SuspendIn, TypeOK, InDispatch
    <2>3. DispatchRefersToOwn'
        BY <2>2 DEF DispatchRefersToOwn, RegistryInv
    <2> QED
        BY <2>1, <2>3 DEF RegistryInv
<1> QED
    BY <1>1, <1>2, RunDispatchCases

(* subscribe() enters a connection of p, or a new one, in both maps.        *)
LEMMA SubscribeRegistry ==
    ASSUME TypeOK, RegistryInv, NEW p \in Procs, NEW c \in Conns,
           NEW chs \in SUBSET Channels, Subscribe(p, c, chs),
           home[c] = p \/ c \notin used,
           home' = [home EXCEPT ![c] = p], used' = used \cup {c},
           current' = current
    PROVE  RegistryInv'
<1> PICK accepted \in SUBSET chs :
        /\ subscribers' = [subscribers EXCEPT ![p] = [ch \in Channels |->
              IF ch \in accepted THEN subscribers[p][ch] \cup {c} ELSE subscribers[p][ch]]]
        /\ connChannels' = [connChannels EXCEPT ![c] = connChannels[c] \cup accepted]
    BY DEF Subscribe
<1>1. None \notin Procs
    BY ConstantsAssumption
<1>2. \/ home[c] = p
      \/ home[c] = None /\ connChannels[c] = {} /\ \A q \in Procs : c \notin InDispatch(q)
    BY DEF RegistryInv, DispatchRefersToOwn, RegistryConsistent
<1>3. ASSUME NEW q \in Procs, NEW d \in Conns, NEW ch \in Channels
      PROVE  d \in subscribers'[q][ch] <=> home'[d] = q /\ ch \in connChannels'[d]
    <2>1. d \in subscribers[q][ch] <=> home[d] = q /\ ch \in connChannels[d]
        BY DEF RegistryInv, RegistryConsistent
    <2>2. d \in subscribers'[q][ch] <=>
             d \in subscribers[q][ch] \/ (q = p /\ d = c /\ ch \in accepted)
        BY DEF TypeOK
    <2>3. /\ home'[d] = IF d = c THEN p ELSE home[d]
          /\ connChannels'[d] = IF d = c THEN connChannels[d] \cup accepted ELSE connChannels[d]
        BY DEF TypeOK
    <2> QED
        BY <1>1, <1>2, <2>1, <2>2, <2>3
<1>4. \A d \in Conns : home'[d] = None => connChannels'[d] = {}
    BY <1>1 DEF RegistryInv, RegistryConsistent, TypeOK
<1>5. DispatchRefersToOwn'
    <2>1. \A q \in Procs : InDispatch(q)' = InDispatch(q) /\ InDispatch(q) \subseteq Conns
        BY SuspendedType DEF InDispatch
    <2>2. \A d \in Conns : home'[d] = IF d = c THEN p ELSE home[d]
        BY DEF TypeOK
    <2>3. \A q \in Procs : c \in InDispatch(q) => home[c] = p /\ q = p
        BY <1>1, <1>2 DEF RegistryInv, DispatchRefersToOwn
    <2> QED
        BY <2>1, <2>2, <2>3 DEF RegistryInv, DispatchRefersToOwn
<1> QED
    BY <1>3, <1>4, <1>5 DEF RegistryInv, RegistryConsistent

LEMMA CrashRegistry ==
    ASSUME TypeOK, RegistryInv, NEW p \in Procs, Crash(p)
    PROVE  RegistryInv'
<1>1. None \notin Procs
    BY ConstantsAssumption
<1>2. \A d \in Conns :
         /\ home'[d] = IF home[d] = p THEN None ELSE home[d]
         /\ connChannels'[d] = IF home[d] = p THEN {} ELSE connChannels[d]
    BY DEF Crash
<1>3. \A q \in Procs, ch \in Channels :
         subscribers'[q][ch] = IF q = p THEN {} ELSE subscribers[q][ch]
    BY DEF Crash, TypeOK
<1>4. RegistryConsistent'
    BY <1>1, <1>2, <1>3 DEF RegistryInv, RegistryConsistent
<1>5. /\ InDispatch(p)' = {}
      /\ \A q \in Procs \ {p} : InDispatch(q)' = InDispatch(q)
      /\ \A q \in Procs : InDispatch(q) \subseteq Conns
      /\ used' = used
    BY SuspendedType DEF Crash, TypeOK, InDispatch, Idle
<1>6. DispatchRefersToOwn'
    BY <1>2, <1>5 DEF RegistryInv, DispatchRefersToOwn
<1> QED
    BY <1>4, <1>6 DEF RegistryInv

LEMMA RegistryStep ==
    TypeOK /\ BatchInStream /\ RegistryInv /\ [Next]_vars => RegistryInv'
<1> SUFFICES ASSUME TypeOK, BatchInStream, RegistryInv, [Next]_vars PROVE RegistryInv'
    OBVIOUS
<1> USE DEF redisVars, procVars, connVars
<1>1. ASSUME UNCHANGED <<current, subscribers, connChannels, home, used>>
      PROVE  RegistryInv'
    BY <1>1 DEF RegistryInv, RegistryConsistent, DispatchRefersToOwn, InDispatch
<1>2. ASSUME NEW p \in Procs, Boot(p) \/ XReadGroup(p) PROVE RegistryInv'
    BY <1>1, <1>2 DEF Boot, XReadGroup
<1>3. ASSUME NEW p \in Procs, Crash(p) PROVE RegistryInv'
    BY <1>3, CrashRegistry
<1>4. ASSUME NEW p \in Procs, HandleEntry(p) PROVE RegistryInv'
    <2> DEFINE channel == stream[done[p] + 1].channel
               snapshot == subscribers[p][channel]
    <2>1. /\ done[p] < group[p]
          /\ RunDispatch(p, snapshot, {})
          /\ UNCHANGED <<home, used>>
        BY <1>4 DEF HandleEntry
    <2>2. channel \in Channels /\ snapshot \in SUBSET Conns
        BY <2>1, SnapshotType
    <2>3. \A c \in snapshot : home[c] = p
        BY <2>2 DEF RegistryInv, RegistryConsistent
    <2>4. \A c \in snapshot \cup {} : c \in used /\ home[c] \in {p, None}
        BY <2>2, <2>3, ConstantsAssumption DEF RegistryInv, DispatchRefersToOwn
    <2> QED
        BY <2>1, <2>2, <2>4, RunDispatchRegistry
<1>5. ASSUME NEW p \in Procs, EndSend(p) PROVE RegistryInv'
    <2> DEFINE c == current[p].sending
    <2>1. PICK dead \in {current[p].dead, current[p].dead \cup {c}} :
             RunDispatch(p, current[p].todo, dead)
        BY <1>5 DEF EndSend
    <2>2. c # None /\ UNCHANGED <<home, used>>
        BY <1>5 DEF EndSend
    <2>3. dead \in SUBSET Conns /\ current[p].todo \in SUBSET Conns
        BY <2>2, SuspendedType
    <2>4. \A d \in current[p].todo \cup dead : d \in used /\ home[d] \in {p, None}
        BY <2>2 DEF RegistryInv, DispatchRefersToOwn, InDispatch
    <2> QED
        BY <2>1, <2>2, <2>3, <2>4, RunDispatchRegistry
<1>6. ASSUME NEW p \in Procs, NEW ch \in Channels, Publish(p, ch) \/ CatchUp(p, ch)
      PROVE  RegistryInv'
    BY <1>1, <1>6 DEF Publish, CatchUp
<1>7. ASSUME NEW r \in publishing, XAdd(r) \/ PublishError(r) PROVE RegistryInv'
    BY <1>1, <1>7 DEF XAdd, PublishError
<1>8. ASSUME NEW p \in Procs, NEW c \in Conns, OpenWS(p, c) PROVE RegistryInv'
    <2>1. /\ home' = [home EXCEPT ![c] = p]
          /\ used' = used \cup {c}
          /\ c \notin used
          /\ UNCHANGED <<current, subscribers, connChannels>>
        BY <1>8 DEF OpenWS, Opens
    <2>2. /\ home[c] = None /\ connChannels[c] = {}
          /\ \A q \in Procs : c \notin InDispatch(q)
        BY <2>1 DEF RegistryInv, DispatchRefersToOwn, RegistryConsistent
    <2>3. \A q \in Procs : InDispatch(q)' = InDispatch(q) /\ InDispatch(q) \subseteq Conns
        BY <2>1, SuspendedType DEF InDispatch
    <2>4. \A d \in Conns : home'[d] = IF d = c THEN p ELSE home[d]
        BY <2>1 DEF TypeOK
    <2>5. DispatchRefersToOwn'
        BY <2>1, <2>2, <2>3, <2>4 DEF RegistryInv, DispatchRefersToOwn
    <2>6. RegistryConsistent'
        BY <2>1, <2>2, <2>4, ConstantsAssumption DEF RegistryInv, RegistryConsistent
    <2> QED
        BY <2>5, <2>6 DEF RegistryInv
<1>9. ASSUME NEW p \in Procs, NEW c \in Conns, Close(p, c) PROVE RegistryInv'
    <2>1. /\ home[c] = p
          /\ home' = [home EXCEPT ![c] = None]
          /\ DropFromRegistry(p, {c})
          /\ UNCHANGED <<current, used>>
        BY <1>9 DEF Close
    <2>2. None \notin Procs
        BY ConstantsAssumption
    <2>3. \A d \in Conns : /\ home'[d] = IF d = c THEN None ELSE home[d]
                           /\ connChannels'[d] = IF d = c THEN {} ELSE connChannels[d]
        BY <2>1 DEF TypeOK, DropFromRegistry
    <2>4. \A q \in Procs, ch \in Channels :
             subscribers'[q][ch] = IF q = p THEN subscribers[q][ch] \ {c} ELSE subscribers[q][ch]
        BY <2>1 DEF TypeOK, DropFromRegistry
    <2>8. ASSUME NEW q \in Procs, NEW d \in Conns, NEW ch \in Channels
          PROVE  d \in subscribers'[q][ch] <=> home'[d] = q /\ ch \in connChannels'[d]
        <3>1. d \in subscribers[q][ch] <=> home[d] = q /\ ch \in connChannels[d]
            BY DEF RegistryInv, RegistryConsistent
        <3>2. d \in subscribers'[q][ch] <=> d \in subscribers[q][ch] /\ ~(q = p /\ d = c)
            BY <2>4
        <3>3. home[c] = p
            BY <2>1
        <3>4. home'[d] = (IF d = c THEN None ELSE home[d])
            BY <2>3
        <3>5. ch \in connChannels'[d] <=> d # c /\ ch \in connChannels[d]
            BY <2>3
        <3> QED
            BY <2>2, <3>1, <3>2, <3>3, <3>4, <3>5
    <2>9. \A d \in Conns : home'[d] = None => connChannels'[d] = {}
        BY <2>3 DEF RegistryInv, RegistryConsistent
    <2>5. RegistryConsistent'
        BY <2>8, <2>9 DEF RegistryConsistent
    <2>6. \A q \in Procs : InDispatch(q)' = InDispatch(q) /\ InDispatch(q) \subseteq Conns
        BY <2>1, SuspendedType DEF InDispatch
    <2>7. DispatchRefersToOwn'
        BY <2>1, <2>3, <2>6 DEF RegistryInv, DispatchRefersToOwn
    <2> QED
        BY <2>5, <2>7 DEF RegistryInv
<1>10. ASSUME NEW p \in Procs, NEW c \in Conns, NEW chs \in SUBSET Channels,
              OpenSSE(p, c, chs)
       PROVE  RegistryInv'
    BY <1>10, SubscribeRegistry DEF OpenSSE, Opens
<1>11. ASSUME NEW p \in Procs, NEW c \in Conns, NEW chs \in SUBSET Channels,
              SubscribeWS(p, c, chs)
       PROVE  RegistryInv'
    <2>1. /\ home[c] = p /\ Subscribe(p, c, chs)
          /\ home' = home /\ used' = used /\ current' = current
        BY <1>11 DEF SubscribeWS
    <2>2. home' = [home EXCEPT ![c] = p] /\ used' = used \cup {c}
        BY <2>1, ConstantsAssumption DEF RegistryInv, DispatchRefersToOwn, TypeOK
    <2> QED
        BY <2>1, <2>2, SubscribeRegistry
<1>12. ASSUME NEW p \in Procs, NEW c \in Conns, NEW chs \in SUBSET Channels,
              UnsubscribeWS(p, c, chs)
       PROVE  RegistryInv'
    <2>1. /\ home[c] = p
          /\ UNCHANGED <<home, used, current>>
          /\ connChannels' = [connChannels EXCEPT ![c] = @ \ chs]
        BY <1>12 DEF UnsubscribeWS
    <2>4. /\ \A d \in Conns :
                connChannels'[d] = IF d = c THEN connChannels[d] \ chs ELSE connChannels[d]
          /\ \A q \in Procs, ch \in Channels : subscribers'[q][ch] =
                IF q = p /\ ch \in chs THEN subscribers[q][ch] \ {c} ELSE subscribers[q][ch]
        BY <1>12, <2>1 DEF UnsubscribeWS, TypeOK
    <2>5. ASSUME NEW q \in Procs, NEW d \in Conns, NEW ch \in Channels
          PROVE  d \in subscribers'[q][ch] <=> home'[d] = q /\ ch \in connChannels'[d]
        <3>1. d \in subscribers[q][ch] <=> home[d] = q /\ ch \in connChannels[d]
            BY DEF RegistryInv, RegistryConsistent
        <3>2. d \in subscribers'[q][ch] <=>
                 d \in subscribers[q][ch] /\ ~(q = p /\ ch \in chs /\ d = c)
            <4>1. CASE q = p /\ ch \in chs
                BY <2>4, <4>1
            <4>2. CASE ~(q = p /\ ch \in chs)
                <5>1. subscribers'[q][ch] = subscribers[q][ch]
                    BY <2>4, <4>2
                <5> QED
                    BY <4>2, <5>1
            <4> QED
                BY <4>1, <4>2
        <3>3. ch \in connChannels'[d] <=> ch \in connChannels[d] /\ ~(d = c /\ ch \in chs)
            BY <2>4
        <3>4. home[c] = p /\ home'[d] = home[d]
            BY <2>1
        <3> QED
            BY <3>1, <3>2, <3>3, <3>4
    <2>6. \A d \in Conns : home'[d] = None => connChannels'[d] = {}
        BY <2>1, <2>4 DEF RegistryInv, RegistryConsistent
    <2>2. RegistryConsistent'
        BY <2>5, <2>6 DEF RegistryConsistent
    <2>3. DispatchRefersToOwn'
        BY <2>1 DEF RegistryInv, DispatchRefersToOwn, InDispatch
    <2> QED
        BY <2>2, <2>3 DEF RegistryInv
<1>13. ASSUME NEW c \in Conns, WriteSSE(c) PROVE RegistryInv'
    BY <1>1, <1>13 DEF WriteSSE
<1>14. CASE UNCHANGED fanoutVars
    BY <1>1, <1>14 DEF fanoutVars
<1> QED
    BY ReplayBeside, <1>2, <1>3, <1>4, <1>5, <1>6, <1>7, <1>8, <1>9, <1>10, <1>11, <1>12, <1>13,
       <1>14 DEF Next

-----------------------------------------------------------------------------
LEMMA StreamInvInit == Init => StreamInv
<1> SUFFICES ASSUME Init PROVE StreamInv
    OBVIOUS
<1>1. TypeOK
    BY TypeInit
<1>2. Len(stream) = 0
    BY DEF Init
<1>3. NumbersGivenOut /\ SeqUnique
    BY <1>2, ConstantsAssumption DEF Init, NumbersGivenOut, SeqUnique
<1>4. BatchInStream
    BY <1>2 DEF Init, BatchInStream, Idle
<1>5. DispatchRefersToOwn /\ RegistryConsistent
    BY ConstantsAssumption
       DEF Init, DispatchRefersToOwn, InDispatch, Idle, RegistryConsistent
<1> QED
    BY <1>1, <1>3, <1>4, <1>5 DEF StreamInv

LEMMA StreamInvStep == StreamInv /\ [Next]_vars => StreamInv'
BY TypeStep, NumbersStep, BatchStep, RegistryStep DEF StreamInv, RegistryInv

(* The inductive invariant holds for every instance and every incident. *)
THEOREM StreamInvariant == Spec => []StreamInv
<1> QED
    BY StreamInvInit, StreamInvStep, PTL DEF Spec

(* Every variable keeps its type. *)
THEOREM TypeCorrect == Spec => []TypeOK
<1>1. StreamInv => TypeOK
    BY DEF StreamInv
<1> QED
    BY <1>1, StreamInvariant, PTL

(* No number of a channel is ever given to two events. *)
THEOREM NumbersUnique == Spec => []SeqUnique
<1>1. StreamInv => SeqUnique
    BY DEF StreamInv
<1> QED
    BY <1>1, StreamInvariant, PTL

(* The two maps of the manager always agree. *)
THEOREM RegistryCorrect == Spec => []RegistryConsistent
<1>1. StreamInv => RegistryConsistent
    BY DEF StreamInv
<1> QED
    BY <1>1, StreamInvariant, PTL

-----------------------------------------------------------------------------
(* With reliable reads nothing is trimmed before every process has read it. *)
LEMMA TrimStep ==
    ASSUME ReliableReads
    PROVE  TypeOK /\ BatchInStream /\ TrimBehindReaders /\ [Next]_vars => TrimBehindReaders'
<1> SUFFICES ASSUME TypeOK, BatchInStream, TrimBehindReaders, [Next]_vars
             PROVE  TrimBehindReaders'
    OBVIOUS
<1> USE DEF redisVars, procVars, connVars
<1>1. ASSUME UNCHANGED <<trimmed, group, epoch>> PROVE TrimBehindReaders'
    BY <1>1 DEF TrimBehindReaders, Up
<1>2. ASSUME NEW p \in Procs, Boot(p) PROVE TrimBehindReaders'
    <2>1. "reused_group" \notin Incidents
        BY DEF ReliableReads
    <2> QED
        BY <1>2, <2>1 DEF Boot, TrimBehindReaders, BatchInStream, TypeOK, Up
<1>3. ASSUME NEW p \in Procs, Crash(p) PROVE TrimBehindReaders'
    BY <1>3 DEF Crash, TrimBehindReaders, TypeOK, Up
<1>4. ASSUME NEW p \in Procs, XReadGroup(p) PROVE TrimBehindReaders'
    <2> DEFINE first == Larger(group[p], trimmed)
               last == Smaller(first + ReadCount, Len(stream))
    <2>1. first = group[p]
        BY <1>4 DEF XReadGroup, Larger, TrimBehindReaders, TypeOK
    <2>2. group[p] <= last /\ last \in Nat
        BY <1>4, <2>1, ConstantsAssumption DEF XReadGroup, Smaller, TypeOK
    <2>3. group' = [group EXCEPT ![p] = last] /\ UNCHANGED <<trimmed, epoch>>
        BY <1>4 DEF XReadGroup
    <2> QED
        BY <2>2, <2>3 DEF TrimBehindReaders, TypeOK, Up
<1>5. ASSUME NEW r \in publishing, XAdd(r) PROVE TrimBehindReaders'
    <2>1. "late_reader" \notin Incidents
        BY DEF ReliableReads
    <2> QED
        BY <1>5, <2>1 DEF XAdd, TrimBehindReaders, Up
<1>6. ASSUME NEW p \in Procs, HandleEntry(p) \/ EndSend(p) PROVE TrimBehindReaders'
    BY <1>1, <1>6 DEF HandleEntry, EndSend
<1>7. ASSUME NEW p \in Procs, NEW ch \in Channels, Publish(p, ch) \/ CatchUp(p, ch)
      PROVE  TrimBehindReaders'
    BY <1>1, <1>7 DEF Publish, CatchUp
<1>8. ASSUME NEW r \in publishing, PublishError(r) PROVE TrimBehindReaders'
    BY <1>1, <1>8 DEF PublishError
<1>9. ASSUME NEW p \in Procs, NEW c \in Conns, OpenWS(p, c) \/ Close(p, c)
      PROVE  TrimBehindReaders'
    BY <1>1, <1>9 DEF OpenWS, Close
<1>10. ASSUME NEW p \in Procs, NEW c \in Conns, NEW chs \in SUBSET Channels,
              OpenSSE(p, c, chs) \/ SubscribeWS(p, c, chs) \/ UnsubscribeWS(p, c, chs)
       PROVE  TrimBehindReaders'
    BY <1>1, <1>10 DEF OpenSSE, SubscribeWS, UnsubscribeWS
<1>11. ASSUME NEW c \in Conns, WriteSSE(c) PROVE TrimBehindReaders'
    BY <1>1, <1>11 DEF WriteSSE
<1>12. CASE UNCHANGED fanoutVars
    BY <1>1, <1>12 DEF fanoutVars
<1> QED
    BY ReplayBeside, <1>2, <1>3, <1>4, <1>5, <1>6, <1>7, <1>8, <1>9, <1>10, <1>11, <1>12 DEF Next

-----------------------------------------------------------------------------
(* The refinement mapping.                                                  *)
LogOf == [n \in 1 .. Len(stream) |-> <<stream[n].channel, stream[n].seq>>]
UpProcs == {p \in Procs : Up(p)}

(* XADD appends a new entry to the abstract log. *)
LEMMA XAddPublishes ==
    ASSUME StreamInv, NEW r \in publishing, XAdd(r)
    PROVE  Log!Publish(<<r.channel, r.seq>>) /\ <<r.channel, r.seq>> \in Channels \X (1 .. MaxEvents)
<1> DEFINE e == [channel |-> r.channel, seq |-> r.seq, epoch |-> r.epoch]
<1>1. /\ r.channel \in Channels
      /\ r.seq \in 1 .. MaxEvents
      /\ e \in Event
    BY ConstantsAssumption DEF StreamInv, TypeOK, Publication, Event, NumbersGivenOut
<1>2. /\ Len(stream) \in Nat
      /\ Len(stream') = Len(stream) + 1
      /\ stream'[Len(stream) + 1] = e
      /\ \A n \in 1 .. Len(stream) : stream'[n] = stream[n]
    BY <1>1 DEF StreamInv, TypeOK, XAdd
<1>3. Len(LogOf) = Len(stream) /\ LogOf \in Seq(Channels \X (1 .. MaxEvents))
    <2>1. \A n \in 1 .. Len(stream) : stream[n].channel \in Channels /\ stream[n].seq \in 1 .. MaxEvents
        BY EntryType, ConstantsAssumption DEF StreamInv, NumbersGivenOut, TypeOK
    <2> QED
        BY <1>2, <2>1 DEF LogOf
<1>4. LogOf' = Append(LogOf, <<r.channel, r.seq>>)
    BY <1>2, <1>3 DEF LogOf
<1>5. \A n \in 1 .. Len(LogOf) : LogOf[n] # <<r.channel, r.seq>>
    BY <1>3 DEF LogOf, StreamInv, SeqUnique
<1>6. UNCHANGED <<UpProcs, done>>
    BY <1>1 DEF XAdd, UpProcs, Up
<1> QED
    BY <1>1, <1>4, <1>5, <1>6 DEF Log!Publish, LogOf, UpProcs

(* The end of an entry is one read of the abstract log, a suspension none.  *)
LEMMA RunDispatchReads ==
    ASSUME StreamInv, NEW p \in Procs, Up(p), done[p] < group[p],
           NEW todo \in SUBSET Conns, NEW dead \in SUBSET Conns,
           RunDispatch(p, todo, dead), UNCHANGED <<stream, epoch>>
    PROVE  Log!Read(p) \/ UNCHANGED Log!vars
<1>1. ASSUME NEW cs, FinishEntry(p, cs) PROVE Log!Read(p)
    <2>1. done[p] < Len(stream) /\ Len(LogOf) = Len(stream)
        BY DEF StreamInv, BatchInStream, TypeOK, LogOf
    <2>2. LogOf' = LogOf /\ UpProcs' = UpProcs
        BY DEF LogOf, UpProcs, Up
    <2> QED
        BY <1>1, <2>1, <2>2 DEF FinishEntry, Log!Read, LogOf, UpProcs
<1>2. ASSUME NEW c, NEW rest, NEW cs, SuspendIn(p, c, rest, cs) PROVE UNCHANGED Log!vars
    BY <1>2 DEF SuspendIn, Log!vars, Up
<1> QED
    BY <1>1, <1>2, RunDispatchCases DEF StreamInv

LEMMA StepReads ==
    ASSUME ReliableReads, StreamInv, TrimBehindReaders, [Next]_vars
    PROVE  [Log!Next]_(Log!vars)
<1> USE DEF redisVars, procVars, connVars
<1>1. ASSUME UNCHANGED <<stream, epoch, done>> PROVE UNCHANGED Log!vars
    BY <1>1 DEF Log!vars, Up
<1>2. ASSUME NEW p \in Procs, Boot(p) PROVE Log!Attach(p)
    <2>1. /\ done' = [done EXCEPT ![p] = Len(stream)]
          /\ ~Up(p) /\ stream' = stream
          /\ epoch' = [epoch EXCEPT ![p] = boots + 1]
          /\ boots + 1 # 0
        BY <1>2 DEF Boot, ReliableReads, StreamInv, TypeOK
    <2>2. UpProcs' = UpProcs \cup {p} /\ p \notin UpProcs
        BY <2>1 DEF UpProcs, Up, StreamInv, TypeOK
    <2>3. Len(LogOf) = Len(stream) /\ LogOf' = LogOf
        BY <2>1 DEF LogOf, StreamInv, TypeOK
    <2> QED
        BY <2>1, <2>2, <2>3 DEF Log!Attach, LogOf, UpProcs
<1>3. ASSUME NEW p \in Procs, Crash(p) PROVE Log!Detach(p)
    <2>1. p \in UpProcs /\ UpProcs' = UpProcs \ {p}
        BY <1>3 DEF Crash, UpProcs, Up, StreamInv, TypeOK
    <2>2. UNCHANGED <<LogOf, done>>
        BY <1>3 DEF Crash, LogOf
    <2> QED
        BY <2>1, <2>2 DEF Log!Detach, LogOf, UpProcs
<1>4. ASSUME NEW p \in Procs, XReadGroup(p) PROVE UNCHANGED <<stream, epoch, done>>
    <2>1. Larger(group[p], trimmed) = group[p]
        BY <1>4 DEF XReadGroup, Larger, TrimBehindReaders, StreamInv, TypeOK
    <2>2. done' = [done EXCEPT ![p] = group[p]] /\ done[p] = group[p]
        BY <1>4, <2>1 DEF XReadGroup, ReliableReads
    <2> QED
        BY <1>4, <2>2 DEF XReadGroup, StreamInv, TypeOK
<1>5. ASSUME NEW p \in Procs, HandleEntry(p) PROVE Log!Read(p) \/ UNCHANGED Log!vars
    <2> DEFINE snapshot == subscribers[p][stream[done[p] + 1].channel]
    <2>1. /\ Up(p)
          /\ done[p] < group[p]
          /\ RunDispatch(p, snapshot, {})
          /\ UNCHANGED <<stream, epoch>>
        BY <1>5 DEF HandleEntry
    <2>2. snapshot \in SUBSET Conns
        BY <2>1, SnapshotType DEF StreamInv
    <2> QED
        BY <2>1, <2>2, RunDispatchReads
<1>6. ASSUME NEW p \in Procs, EndSend(p) PROVE Log!Read(p) \/ UNCHANGED Log!vars
    <2>1. /\ Up(p)
          /\ done[p] < group[p]
          /\ UNCHANGED <<stream, epoch>>
        BY <1>6 DEF EndSend, StreamInv, BatchInStream
    <2>2. TypeOK
        BY DEF StreamInv
    <2>3. PICK dead \in SUBSET Conns : RunDispatch(p, current[p].todo, dead)
        BY <1>6, <2>2, SuspendedType DEF EndSend
    <2> QED
        BY <2>1, <2>2, <2>3, SuspendedType, RunDispatchReads
<1>7. ASSUME NEW r \in publishing, XAdd(r) PROVE \E e \in Channels \X (1 .. MaxEvents) : Log!Publish(e)
    BY <1>7, XAddPublishes
<1>8. ASSUME NEW p \in Procs, NEW ch \in Channels, Publish(p, ch) \/ CatchUp(p, ch)
      PROVE  UNCHANGED <<stream, epoch, done>>
    BY <1>8 DEF Publish, CatchUp
<1>9. ASSUME NEW r \in publishing, PublishError(r) PROVE UNCHANGED <<stream, epoch, done>>
    BY <1>9 DEF PublishError
<1>10. ASSUME NEW p \in Procs, NEW c \in Conns, OpenWS(p, c) \/ Close(p, c)
       PROVE  UNCHANGED <<stream, epoch, done>>
    BY <1>10 DEF OpenWS, Close
<1>11. ASSUME NEW p \in Procs, NEW c \in Conns, NEW chs \in SUBSET Channels,
              OpenSSE(p, c, chs) \/ SubscribeWS(p, c, chs) \/ UnsubscribeWS(p, c, chs)
       PROVE  UNCHANGED <<stream, epoch, done>>
    BY <1>11 DEF OpenSSE, SubscribeWS, UnsubscribeWS
<1>12. ASSUME NEW c \in Conns, WriteSSE(c) PROVE UNCHANGED <<stream, epoch, done>>
    BY <1>12 DEF WriteSSE
<1>13. CASE UNCHANGED fanoutVars
    BY <1>1, <1>13 DEF fanoutVars
<1> QED
    BY ReplayBeside, <1>1, <1>2, <1>3, <1>4, <1>5, <1>6, <1>7, <1>8, <1>9, <1>10, <1>11, <1>12, <1>13
       DEF Next, Log!Next

LEMMA InitReads == Init => Log!Init /\ TrimBehindReaders
<1> SUFFICES ASSUME Init PROVE Log!Init /\ TrimBehindReaders
    OBVIOUS
<1>1. Len(stream) = 0
    BY DEF Init
<1>2. LogOf = <<>>
    BY <1>1 DEF LogOf
<1>3. UpProcs = {}
    BY DEF Init, UpProcs, Up
<1> QED
    BY <1>2, <1>3 DEF Init, Log!Init, LogOf, UpProcs, TrimBehindReaders, Up

(* The bridge keeps its promise: with reliable reads every process reads    *)
(* every entry added after its boot, once and in the order of the stream.   *)
THEOREM BridgeImplementsLog ==
    ASSUME ReliableReads
    PROVE  Spec => EveryProcessReadsTheLog
<1>1. StreamInv /\ TrimBehindReaders /\ [Next]_vars => TrimBehindReaders'
    BY TrimStep DEF StreamInv
<1>2. StreamInv /\ TrimBehindReaders /\ [Next]_vars => [Log!Next]_(Log!vars)
    BY StepReads
<1> QED
    BY <1>1, <1>2, InitReads, StreamInvariant, PTL DEF Spec, EveryProcessReadsTheLog, Log!Spec

-----------------------------------------------------------------------------
(* A sequence that grows at its end by one element, and one that is cut in  *)
(* two elsewhere.                                                           *)
LEMMA AppendToSecond ==
    ASSUME NEW r \in Seq(Nat), NEW q \in Seq(Nat), NEW x \in Nat
    PROVE  r \o Append(q, x) = Append(r \o q, x)
OBVIOUS

LEMMA AppendToFirst ==
    ASSUME NEW r \in Seq(Nat), NEW x \in Nat
    PROVE  Append(r, x) \o <<>> = Append(r \o <<>>, x)
OBVIOUS

LEMMA MoveHead ==
    ASSUME NEW r \in Seq(Nat), NEW q \in Seq(Nat), q # <<>>
    PROVE  Append(r, Head(q)) \o Tail(q) = r \o q
OBVIOUS

LEMMA NothingHanded == Len(<<>> \o <<>>) = 0
OBVIOUS

LEMMA HandedType ==
    ASSUME TypeOK, NEW c \in Conns
    PROVE  /\ received[c] \in Seq(Nat)
           /\ queue[c] \in Seq(Nat)
           /\ Handed(c) \in Seq(Nat)
           /\ \A i \in 1 .. Len(Handed(c)) : Handed(c)[i] \in Nat
<1>1. received[c] \in Seq(Nat) /\ queue[c] \in Seq(Nat)
    BY DEF TypeOK
<1>2. Handed(c) \in Seq(Nat)
    BY <1>1 DEF Handed
<1> QED
    BY <1>1, <1>2

(* A strictly increasing sequence stays one when a larger element is added. *)
Increasing(s) == \A i, j \in 1 .. Len(s) : i < j => s[i] < s[j]

LEMMA AppendIncreasing ==
    ASSUME NEW s \in Seq(Nat), NEW k \in Nat, Increasing(s),
           \A i \in 1 .. Len(s) : s[i] <= k
    PROVE  /\ Increasing(Append(s, k + 1))
           /\ \A i \in 1 .. Len(Append(s, k + 1)) : Append(s, k + 1)[i] <= k + 1
           /\ \E i \in 1 .. Len(Append(s, k + 1)) : Append(s, k + 1)[i] = k + 1
           /\ \A i \in 1 .. Len(s) : Append(s, k + 1)[i] = s[i]
<1> DEFINE t == Append(s, k + 1)
<1>1. /\ Len(s) \in Nat
      /\ Len(t) = Len(s) + 1
      /\ t[Len(s) + 1] = k + 1
      /\ \A i \in 1 .. Len(s) : t[i] = s[i] /\ s[i] \in Nat
    OBVIOUS
<1>2. \A i \in 1 .. Len(t) : i = Len(s) + 1 \/ i \in 1 .. Len(s)
    BY <1>1
<1> HIDE DEF t
<1>3. \A i \in 1 .. Len(t) : t[i] <= k + 1
    BY <1>1, <1>2
<1>4. Increasing(t)
    <2> SUFFICES ASSUME NEW i \in 1 .. Len(t), NEW j \in 1 .. Len(t), i < j
                 PROVE  t[i] < t[j]
        BY DEF Increasing
    <2>1. i \in 1 .. Len(s)
        BY <1>1, <1>2
    <2>2. CASE j \in 1 .. Len(s)
        BY <1>1, <2>1, <2>2 DEF Increasing
    <2>3. CASE j = Len(s) + 1
        BY <1>1, <2>1, <2>3
    <2> QED
        BY <1>2, <2>2, <2>3
<1>5. Len(s) + 1 \in 1 .. Len(t)
    BY <1>1
<1>6. \E i \in 1 .. Len(t) : t[i] = k + 1
    BY <1>1, <1>5
<1> QED
    BY <1>1, <1>3, <1>4, <1>6 DEF t

-----------------------------------------------------------------------------
(* What one run of the dispatch loop hands out: the SSE connections it put  *)
(* the entry on the queue of, and those of `wrote`, whose send has ended.   *)
RunHands(p, todo, dead, wrote, got, rest, cs) ==
    /\ wrote \subseteq got
    /\ got \subseteq wrote \cup (todo \ rest)
    /\ dead \subseteq cs
    /\ \A d \in got : d \in wrote \/ home[d] # None
    /\ \A d \in todo : home[d] # None => d \in rest \cup got \cup cs
    /\ \A d \in Conns : Handed(d)' =
          IF d \in got THEN Append(Handed(d), done[p] + 1) ELSE Handed(d)
    /\ \A d \in Conns : home[d] = None \/ d \in WSConns => queue'[d] = queue[d]
    /\ \/ rest = {} /\ FinishEntry(p, cs)
       \/ \E x \in rest \cap WSConns : SuspendIn(p, x, rest \ {x}, cs)

LEMMA RunDispatchHands ==
    ASSUME TypeOK, HandedSoFar, NEW p \in Procs,
           NEW todo \in SUBSET Conns, NEW dead \in SUBSET Conns,
           RunDispatch(p, todo, dead),
           NEW wrote \in SUBSET WSConns,
           \A d \in Conns : received'[d] =
               IF d \in wrote THEN Append(received[d], done[p] + 1) ELSE received[d]
    PROVE  \E got \in SUBSET Conns, rest \in SUBSET todo, cs \in SUBSET Conns :
              RunHands(p, todo, dead, wrote, got, rest, cs)
<1> PICK put \in SUBSET (todo \cap SSEConns) :
        /\ Enqueue(p, put)
        /\ \/ put = todo /\ FinishEntry(p, dead \cup Overflowing(put))
           \/ \E c \in todo \cap WSConns :
                 SuspendIn(p, c, todo \ (put \cup {c}), dead \cup Overflowing(put))
    BY DEF RunDispatch
<1> DEFINE put1 == {d \in put \ Overflowing(put) : home[d] # None}
           got == wrote \cup put1
           rest == todo \ put
           cs == dead \cup Overflowing(put)
<1>1. done[p] + 1 \in Nat /\ wrote \cap put = {}
    BY ConstantsAssumption DEF TypeOK
<1>2. \A d \in Conns : queue'[d] =
         IF d \in put1 THEN Append(queue[d], done[p] + 1) ELSE queue[d]
    BY DEF Enqueue
<1>3. ASSUME NEW d \in Conns
      PROVE  Handed(d)' = IF d \in got THEN Append(Handed(d), done[p] + 1) ELSE Handed(d)
    <2>1. received[d] \in Seq(Nat) /\ queue[d] \in Seq(Nat)
        BY HandedType
    <2>2. CASE d \in put1
        <3>1. queue'[d] = Append(queue[d], done[p] + 1) /\ received'[d] = received[d]
            BY <1>1, <1>2, <2>2
        <3>2. received[d] \o Append(queue[d], done[p] + 1)
                 = Append(received[d] \o queue[d], done[p] + 1)
            BY <1>1, <2>1, AppendToSecond, Zenon
        <3> QED
            BY <2>2, <3>1, <3>2, Zenon DEF Handed
    <2>3. CASE d \in wrote
        <3>1. queue'[d] = queue[d] /\ received'[d] = Append(received[d], done[p] + 1)
            BY <1>1, <1>2, <2>3
        <3>2. queue[d] = <<>>
            BY <2>3 DEF HandedSoFar
        <3>3. Append(received[d], done[p] + 1) \o <<>> = Append(received[d] \o <<>>, done[p] + 1)
            BY <1>1, <2>1, AppendToFirst, Zenon
        <3> QED
            BY <2>3, <3>1, <3>2, <3>3, Zenon DEF Handed
    <2>4. CASE d \notin got
        <3>1. queue'[d] = queue[d] /\ received'[d] = received[d]
            BY <1>2, <2>4
        <3> QED
            BY <2>4, <3>1, Zenon DEF Handed
    <2> QED
        BY <2>2, <2>3, <2>4
<1>4. \A d \in Conns : home[d] = None \/ d \in WSConns => queue'[d] = queue[d]
    BY <1>2, ConstantsAssumption
<1>5. \/ rest = {} /\ FinishEntry(p, cs)
      \/ \E x \in rest \cap WSConns : SuspendIn(p, x, rest \ {x}, cs)
    <2>1. CASE put = todo /\ FinishEntry(p, cs)
        BY <2>1
    <2>2. ASSUME NEW c \in todo \cap WSConns, SuspendIn(p, c, todo \ (put \cup {c}), cs)
          PROVE  \E x \in rest \cap WSConns : SuspendIn(p, x, rest \ {x}, cs)
        <3>1. c \in rest /\ todo \ (put \cup {c}) = rest \ {c}
            BY ConstantsAssumption
        <3> QED
            BY <2>2, <3>1
    <2> QED
        BY <2>1, <2>2
<1>6. /\ got \in SUBSET Conns /\ rest \in SUBSET todo /\ cs \in SUBSET Conns
      /\ wrote \subseteq got
      /\ got \subseteq wrote \cup (todo \ rest)
      /\ dead \subseteq cs
    BY DEF Overflowing
<1>7. \A d \in got : d \in wrote \/ home[d] # None
    OBVIOUS
<1>8. \A d \in todo : home[d] # None => d \in rest \cup got \cup cs
    BY DEF Overflowing
<1> HIDE DEF got, rest, cs
<1> QED
    BY <1>3, <1>4, <1>5, <1>6, <1>7, <1>8 DEF RunHands

(* The connections that a dispatch is still to serve: its snapshot when it  *)
(* starts, then what it is suspended with.                                  *)
Serving(p) ==
    IF current[p] = Idle THEN subscribers[p][stream[done[p] + 1].channel] ELSE Unserved(p)

(* What a step of a dispatch does to the connections: those of `got` are    *)
(* handed the entry, `rest` is what is left to serve, `cs` is dead.         *)
Hands(p, got, rest, cs) ==
    /\ rest \subseteq Serving(p)
    /\ got \subseteq Serving(p) \ rest
    /\ \A d \in got : home[d] = p
    /\ current[p].dead \subseteq cs
    /\ \A d \in Serving(p) : home[d] = p => d \in rest \cup got \cup cs
    /\ \A d \in Conns :
          Handed(d)' = IF d \in got THEN Append(Handed(d), done[p] + 1) ELSE Handed(d)
    /\ \/ rest = {} /\ FinishEntry(p, cs)
       \/ \E x \in rest \cap WSConns : SuspendIn(p, x, rest \ {x}, cs)

LEMMA HandleEntryHands ==
    ASSUME StreamInv, HandedSoFar, NEW p \in Procs, HandleEntry(p)
    PROVE  /\ \E got \in SUBSET Conns, rest \in SUBSET Conns, cs \in SUBSET Conns :
                 Hands(p, got, rest, cs)
           /\ \A d \in Conns : home[d] = None => received'[d] = received[d]
           /\ \A d \in Conns : home[d] = None \/ d \in WSConns => queue'[d] = queue[d]
<1> DEFINE snapshot == subscribers[p][stream[done[p] + 1].channel]
<1>1. /\ RunDispatch(p, snapshot, {})
      /\ done[p] < group[p]
      /\ current[p] = Idle
      /\ received' = received
    BY DEF HandleEntry
<1>2. TypeOK /\ BatchInStream /\ stream[done[p] + 1].channel \in Channels
      /\ snapshot \in SUBSET Conns
    BY <1>1, SnapshotType DEF StreamInv
<1>3. snapshot = Serving(p) /\ current[p].dead = {}
    BY <1>1 DEF Serving, Idle
<1>4. \A d \in snapshot : home[d] = p
    BY <1>2 DEF StreamInv, RegistryConsistent
<1>5. \A d \in Conns : received'[d] =
         IF d \in {} THEN Append(received[d], done[p] + 1) ELSE received[d]
    BY <1>1
<1>6. {} \in SUBSET WSConns /\ {} \in SUBSET Conns
    OBVIOUS
<1> HIDE DEF snapshot
<1>7. PICK got \in SUBSET Conns, rest \in SUBSET snapshot, cs \in SUBSET Conns :
              RunHands(p, snapshot, {}, {}, got, rest, cs)
    BY <1>1, <1>2, <1>5, <1>6, RunDispatchHands, Zenon
<1>8. Hands(p, got, rest, cs)
    BY <1>3, <1>4, <1>7, ConstantsAssumption DEF Hands, RunHands
<1> QED
    BY <1>1, <1>2, <1>7, <1>8 DEF RunHands

LEMMA EndSendHands ==
    ASSUME StreamInv, HandedSoFar, NEW p \in Procs, EndSend(p)
    PROVE  /\ \E got \in SUBSET Conns, rest \in SUBSET Conns, cs \in SUBSET Conns :
                 Hands(p, got, rest, cs)
           /\ \A d \in Conns : home[d] = None => received'[d] = received[d]
           /\ \A d \in Conns : home[d] = None \/ d \in WSConns => queue'[d] = queue[d]
<1> DEFINE c == current[p].sending
           todo == current[p].todo
<1>1. /\ TypeOK
      /\ c \in WSConns /\ c # None
      /\ todo \in SUBSET Conns
      /\ current[p].dead \in SUBSET Conns
      /\ c \notin todo
    BY SuspendedType DEF EndSend, StreamInv, HandedSoFar
<1>2. Serving(p) = todo \cup {c}
    BY <1>1 DEF Serving, Unserved, Idle
<1>3. \A d \in Serving(p) : home[d] \in {p, None}
    BY <1>1, <1>2 DEF StreamInv, DispatchRefersToOwn, InDispatch
<1>4. PICK wrote \in SUBSET {c}, dead \in SUBSET Conns :
         /\ RunDispatch(p, todo, dead)
         /\ wrote # {} => home[c] # None
         /\ \A d \in Conns : received'[d] =
               IF d \in wrote THEN Append(received[d], done[p] + 1) ELSE received[d]
         /\ current[p].dead \subseteq dead
         /\ home[c] # None => c \in wrote \cup dead
    <2>1. \/ home[c] # None /\ RunDispatch(p, todo, current[p].dead)
             /\ received' = [received EXCEPT ![c] = Append(@, done[p] + 1)]
          \/ RunDispatch(p, todo, current[p].dead \cup {c}) /\ UNCHANGED received
          \/ home[c] # None /\ RunDispatch(p, todo, current[p].dead \cup {c})
             /\ received' = [received EXCEPT ![c] = Append(@, done[p] + 1)]
        BY DEF EndSend
    <2>2. received' = [received EXCEPT ![c] = Append(@, done[p] + 1)] =>
             \A d \in Conns : received'[d] =
               IF d \in {c} THEN Append(received[d], done[p] + 1) ELSE received[d]
        BY <1>1 DEF TypeOK
    <2>3. UNCHANGED received =>
             \A d \in Conns : received'[d] =
               IF d \in {} THEN Append(received[d], done[p] + 1) ELSE received[d]
        OBVIOUS
    <2>4. /\ current[p].dead \cup {c} \in SUBSET Conns
          /\ {c} \in SUBSET {c} /\ {} \in SUBSET {c}
          /\ current[p].dead \subseteq current[p].dead \cup {c}
          /\ c \in current[p].dead \cup {c}
        BY <1>1
    <2> HIDE DEF c, todo
    <2> QED
        BY <1>1, <2>1, <2>2, <2>3, <2>4
<1>5. wrote \in SUBSET WSConns
    BY <1>1
<1> HIDE DEF c, todo
<1>6. PICK got \in SUBSET Conns, rest \in SUBSET todo, cs \in SUBSET Conns :
              RunHands(p, todo, dead, wrote, got, rest, cs)
    BY <1>1, <1>4, <1>5, RunDispatchHands, Zenon
<1>7. \A d \in got : home[d] # None
    BY <1>4, <1>6 DEF RunHands
<1>8. got \subseteq Serving(p) \ rest /\ rest \subseteq Serving(p)
    BY <1>1, <1>2, <1>4, <1>6 DEF RunHands
<1>9. \A d \in got : home[d] = p
    BY <1>3, <1>7, <1>8
<1>10. \A d \in Serving(p) : home[d] = p => d \in rest \cup got \cup cs
    BY <1>2, <1>4, <1>6, ConstantsAssumption DEF RunHands
<1>11. Hands(p, got, rest, cs)
    BY <1>4, <1>6, <1>8, <1>9, <1>10 DEF Hands, RunHands
<1>12. \A d \in Conns : home[d] = None => received'[d] = received[d]
    BY <1>4
<1> QED
    BY <1>1, <1>6, <1>11, <1>12 DEF RunHands

(* One of the connections of a process may be handed the entry in hand.     *)
LEMMA ServingLimit ==
    ASSUME TypeOK, HandedSoFar, NEW p \in Procs, NEW d \in Conns, home[d] = p
    PROVE  /\ \A i \in 1 .. Len(Handed(d)) : Handed(d)[i] <= done[p] + 1
           /\ d \in Serving(p) => \A i \in 1 .. Len(Handed(d)) : Handed(d)[i] <= done[p]
<1>1. /\ done[p] \in Nat
      /\ \A i \in 1 .. Len(Handed(d)) : Handed(d)[i] \in Nat
      /\ p # None
    BY HandedType, ConstantsAssumption DEF TypeOK
<1>2. \A i \in 1 .. Len(Handed(d)) : Handed(d)[i] <= HandedLimit(p, d)
    BY <1>1 DEF HandedSoFar
<1>3. HandedLimit(p, d) \in {done[p], done[p] + 1}
    BY DEF HandedLimit
<1>4. d \in Serving(p) => HandedLimit(p, d) = done[p]
    BY DEF HandedLimit, Serving, Idle
<1>5. \A i \in 1 .. Len(Handed(d)) : Handed(d)[i] <= done[p] + 1
    BY <1>1, <1>2, <1>3
<1> QED
    BY <1>2, <1>4, <1>5

LEMMA HandsKeepOrder ==
    ASSUME StreamInv, HandedSoFar, InStreamOrder, NEW p \in Procs,
           NEW got \in SUBSET Conns, NEW rest \in SUBSET Conns, NEW cs \in SUBSET Conns,
           Hands(p, got, rest, cs), UNCHANGED <<home, epoch>>,
           \A d \in Conns : home[d] = None => received'[d] = received[d],
           \A d \in Conns : home[d] = None \/ d \in WSConns => queue'[d] = queue[d]
    PROVE  HandedSoFar' /\ InStreamOrder'
<1>1. /\ TypeOK
      /\ done[p] \in Nat
    BY DEF StreamInv, TypeOK
<1>2. /\ \A q \in Procs \ {p} : current'[q] = current[q] /\ done'[q] = done[q]
      /\ \/ rest = {} /\ current'[p] = Idle /\ done'[p] = done[p] + 1
         \/ /\ done'[p] = done[p]
            /\ current'[p].sending \in rest \cap WSConns
            /\ current'[p].todo = rest \ {current'[p].sending}
    <2>1. ASSUME FinishEntry(p, cs)
          PROVE  /\ \A q \in Procs \ {p} : current'[q] = current[q] /\ done'[q] = done[q]
                 /\ current'[p] = Idle /\ done'[p] = done[p] + 1
        BY <1>1, <2>1 DEF FinishEntry, TypeOK
    <2>2. ASSUME NEW x \in rest \cap WSConns, SuspendIn(p, x, rest \ {x}, cs)
          PROVE  /\ \A q \in Procs \ {p} : current'[q] = current[q] /\ done'[q] = done[q]
                 /\ done'[p] = done[p]
                 /\ current'[p].sending = x
                 /\ current'[p].todo = rest \ {x}
        BY <1>1, <2>2 DEF SuspendIn, TypeOK
    <2> QED
        BY <2>1, <2>2 DEF Hands
<1>3. ASSUME NEW d \in got
      PROVE  /\ Increasing(Handed(d)')
             /\ \A i \in 1 .. Len(Handed(d)') : Handed(d)'[i] <= done[p] + 1
    <2>1. /\ Handed(d)' = Append(Handed(d), done[p] + 1)
          /\ home[d] = p /\ d \in Serving(p)
        BY DEF Hands
    <2>2. /\ Handed(d) \in Seq(Nat)
          /\ Increasing(Handed(d))
          /\ \A i \in 1 .. Len(Handed(d)) : Handed(d)[i] <= done[p]
        BY <1>1, <2>1, HandedType, ServingLimit DEF InStreamOrder, Increasing
    <2>3. /\ Increasing(Append(Handed(d), done[p] + 1))
          /\ \A i \in 1 .. Len(Append(Handed(d), done[p] + 1)) :
                Append(Handed(d), done[p] + 1)[i] <= done[p] + 1
        BY <1>1, <2>2, AppendIncreasing
    <2> QED
        BY <2>1, <2>3, Zenon
<1>4. \A d \in Conns : d \notin got => Handed(d)' = Handed(d)
    BY DEF Hands
<1>5. InStreamOrder'
    <2>1. ASSUME NEW d \in Conns PROVE Increasing(Handed(d)')
        <3>1. CASE d \in got
            BY <1>3, <3>1
        <3>2. CASE d \notin got
            BY <1>4, <3>2, Zenon DEF InStreamOrder, Increasing
        <3> QED
            BY <3>1, <3>2
    <2> QED
        BY <2>1 DEF InStreamOrder, Increasing
<1>6. ASSUME NEW d \in Conns, home[d] # None
      PROVE  \A i \in 1 .. Len(Handed(d)') : Handed(d)'[i] <= HandedLimit(home[d], d)'
    <2>1. home[d] \in Procs
        BY <1>1, <1>6 DEF TypeOK
    <2>2. CASE home[d] # p
        <3>1. Handed(d)' = Handed(d)
            BY <1>4, <2>2 DEF Hands
        <3>2. HandedLimit(home[d], d)' = HandedLimit(home[d], d)
            BY <1>2, <2>1, <2>2 DEF HandedLimit, Unserved
        <3> QED
            BY <1>6, <3>1, <3>2 DEF HandedSoFar
    <2>3. CASE home[d] = p /\ d \in rest
        <3>1. d \in Serving(p) /\ Handed(d)' = Handed(d)
            BY <1>4, <2>3 DEF Hands
        <3>2. HandedLimit(home[d], d)' = done[p]
            BY <1>2, <2>3 DEF HandedLimit, Unserved
        <3> QED
            BY <1>1, <2>3, <3>1, <3>2, ServingLimit
    <2>4. CASE home[d] = p /\ d \notin rest
        <3>1. HandedLimit(home[d], d)' = done[p] + 1
            BY <1>2, <2>4, ConstantsAssumption DEF HandedLimit, Unserved, Idle
        <3>2. CASE d \in got
            BY <1>3, <3>1, <3>2
        <3>3. CASE d \notin got
            BY <1>1, <1>4, <2>4, <3>1, <3>3, ServingLimit
        <3> QED
            BY <3>2, <3>3
    <2> QED
        BY <2>2, <2>3, <2>4
<1>7. HandedSoFar'
    <2>1. ASSUME NEW q \in Procs
          PROVE  /\ current'[q].sending = None => current'[q] = Idle
                 /\ current'[q].sending \notin current'[q].todo
        <3>1. CASE q # p
            BY <1>2, <3>1 DEF HandedSoFar
        <3>2. Idle.todo = {}
            BY DEF Idle
        <3>3. CASE q = p
            BY <1>2, <3>2, <3>3, ConstantsAssumption
        <3> QED
            BY <3>1, <3>3
    <2>2. \A d \in Conns :
             /\ home'[d] = None => received'[d] = <<>>
             /\ home'[d] = None \/ d \in WSConns => queue'[d] = <<>>
             /\ home'[d] # None => Up(home[d])'
        BY DEF HandedSoFar, Up
    <2> QED
        BY <1>6, <2>1, <2>2 DEF HandedSoFar
<1> QED
    BY <1>5, <1>7

LEMMA OrderInit == Init => HandedSoFar /\ InStreamOrder
<1> SUFFICES ASSUME Init PROVE HandedSoFar /\ InStreamOrder
    OBVIOUS
<1>1. \A c \in Conns : home[c] = None /\ received[c] = <<>> /\ queue[c] = <<>>
    BY DEF Init
<1>2. \A c \in Conns : Len(Handed(c)) = 0
    BY <1>1, NothingHanded, Zenon DEF Handed
<1>3. \A p \in Procs : current[p] = Idle /\ current[p].sending \notin current[p].todo
    BY DEF Init, Idle
<1> QED
    BY <1>1, <1>2, <1>3 DEF HandedSoFar, InStreamOrder

(* A connection opens with nothing handed to it. *)
LEMMA OpensKeepOrder ==
    ASSUME StreamInv, HandedSoFar, InStreamOrder, NEW p \in Procs, NEW c \in Conns,
           Opens(p, c), UNCHANGED <<current, done, epoch, queue, received>>
    PROVE  HandedSoFar' /\ InStreamOrder'
<1>1. /\ home' = [home EXCEPT ![c] = p] /\ Up(p)
      /\ home \in [Conns -> Procs \cup {None}]
      /\ home[c] = None
      /\ p # None
    BY ConstantsAssumption DEF Opens, StreamInv, TypeOK, DispatchRefersToOwn
<1>2. received[c] = <<>> /\ queue[c] = <<>>
    BY <1>1 DEF HandedSoFar
<1>3. Len(Handed(c)) = 0
    BY <1>2 DEF Handed
<1>4. \A d \in Conns : /\ Handed(d)' = Handed(d)
                       /\ home'[d] = IF d = c THEN p ELSE home[d]
    BY <1>1 DEF Handed
<1>5. \A q, d : HandedLimit(q, d)' = HandedLimit(q, d)
    BY DEF HandedLimit, Unserved
<1>6. InStreamOrder'
    BY <1>4, Zenon DEF InStreamOrder
<1>7. ASSUME NEW d \in Conns, home'[d] # None
      PROVE  /\ Up(home[d])'
             /\ \A i \in 1 .. Len(Handed(d)') : Handed(d)'[i] <= HandedLimit(home[d], d)'
    <2>1. CASE d = c
        BY <1>1, <1>3, <1>4, <2>1 DEF Up
    <2>2. CASE d # c
        BY <1>4, <1>5, <1>7, <2>2 DEF HandedSoFar, Up
    <2> QED
        BY <2>1, <2>2
<1>8. \A d \in Conns : /\ home'[d] = None => received'[d] = <<>>
                       /\ home'[d] = None \/ d \in WSConns => queue'[d] = <<>>
    BY <1>2, <1>4 DEF HandedSoFar
<1>9. \A q \in Procs : /\ current'[q].sending = None => current'[q] = Idle
                       /\ current'[q].sending \notin current'[q].todo
    BY DEF HandedSoFar
<1> QED
    BY <1>6, <1>7, <1>8, <1>9 DEF HandedSoFar

(* Connections of `gone` close, and what they were handed is forgotten.     *)
LEMMA ClosingKeepsOrder ==
    ASSUME StreamInv, HandedSoFar, InStreamOrder, NEW gone \in SUBSET Conns,
           \A d \in Conns : /\ home'[d] = IF d \in gone THEN None ELSE home[d]
                            /\ received'[d] = IF d \in gone THEN <<>> ELSE received[d]
                            /\ queue'[d] = IF d \in gone THEN <<>> ELSE queue[d],
           \A q \in Procs :
              \/ /\ current'[q] = current[q]
                 /\ done'[q] = done[q]
                 /\ epoch'[q] = epoch[q]
              \/ /\ current'[q] = Idle
                 /\ \A d \in Conns : home[d] = q => d \in gone
    PROVE  HandedSoFar' /\ InStreamOrder'
<1>1. ASSUME NEW d \in Conns
      PROVE  IF d \in gone THEN Len(Handed(d)') = 0 ELSE Handed(d)' = Handed(d)
    <2>1. CASE d \in gone
        <3>1. received'[d] = <<>> /\ queue'[d] = <<>>
            BY <2>1
        <3> QED
            BY <2>1, <3>1, NothingHanded, Zenon DEF Handed
    <2>2. CASE d \notin gone
        BY <2>2 DEF Handed
    <2> QED
        BY <2>1, <2>2
<1>2. InStreamOrder'
    <2>1. ASSUME NEW d \in Conns PROVE Increasing(Handed(d)')
        <3>1. CASE d \in gone
            BY <1>1, <3>1 DEF Increasing
        <3>2. CASE d \notin gone
            BY <1>1, <3>2, Zenon DEF InStreamOrder, Increasing
        <3> QED
            BY <3>1, <3>2
    <2> QED
        BY <2>1 DEF InStreamOrder, Increasing
<1>3. \A d \in Conns : /\ home'[d] = None => received'[d] = <<>>
                       /\ home'[d] = None \/ d \in WSConns => queue'[d] = <<>>
    BY DEF HandedSoFar
<1>4. ASSUME NEW d \in Conns, home'[d] # None
      PROVE  /\ Up(home[d])'
             /\ \A i \in 1 .. Len(Handed(d)') : Handed(d)'[i] <= HandedLimit(home[d], d)'
    <2>1. d \notin gone /\ home'[d] = home[d]
        BY <1>4
    <2>2. home[d] \in Procs
        BY <1>4, <2>1 DEF StreamInv, TypeOK
    <2>3. /\ current'[home[d]] = current[home[d]]
          /\ done'[home[d]] = done[home[d]]
          /\ epoch'[home[d]] = epoch[home[d]]
        BY <2>1, <2>2
    <2>4. HandedLimit(home[d], d)' = HandedLimit(home[d], d)
        BY <2>1, <2>3 DEF HandedLimit, Unserved
    <2>5. Handed(d)' = Handed(d)
        BY <1>1, <2>1
    <2> QED
        BY <1>4, <2>1, <2>3, <2>4, <2>5 DEF HandedSoFar, Up
<1>5. \A q \in Procs : /\ current'[q].sending = None => current'[q] = Idle
                       /\ current'[q].sending \notin current'[q].todo
    <2>1. Idle.todo = {}
        BY DEF Idle
    <2> QED
        BY <2>1 DEF HandedSoFar
<1> QED
    BY <1>2, <1>3, <1>4, <1>5 DEF HandedSoFar

(* The event an SSE connection writes moves from its queue to its client.   *)
LEMMA WriteKeepsHanded ==
    ASSUME TypeOK, NEW c \in Conns, WriteSSE(c), NEW d \in Conns
    PROVE  Handed(d)' = Handed(d)
<1>1. /\ queue[c] # <<>>
      /\ received' = [received EXCEPT ![c] = Append(received[c], Head(queue[c]))]
      /\ queue' = [queue EXCEPT ![c] = Tail(queue[c])]
    BY DEF WriteSSE
<1>2. /\ received[c] \in Seq(Nat) /\ queue[c] \in Seq(Nat)
      /\ received'[c] = Append(received[c], Head(queue[c]))
      /\ queue'[c] = Tail(queue[c])
      /\ d # c => received'[d] = received[d] /\ queue'[d] = queue[d]
    BY <1>1 DEF TypeOK
<1>3. Append(received[c], Head(queue[c])) \o Tail(queue[c]) = received[c] \o queue[c]
    BY <1>1, <1>2, MoveHead
<1>4. Handed(c)' = Handed(c)
    BY <1>2, <1>3, Zenon DEF Handed
<1>5. d # c => Handed(d)' = Handed(d)
    BY <1>2 DEF Handed
<1> QED
    BY <1>4, <1>5

LEMMA OrderStep ==
    StreamInv /\ HandedSoFar /\ InStreamOrder /\ [Next]_vars => HandedSoFar' /\ InStreamOrder'
<1> SUFFICES ASSUME StreamInv, HandedSoFar, InStreamOrder, [Next]_vars
             PROVE  HandedSoFar' /\ InStreamOrder'
    OBVIOUS
<1> USE DEF redisVars, procVars, connVars
<1>0. TypeOK /\ None \notin Procs
    BY ConstantsAssumption DEF StreamInv
<1>1. ASSUME UNCHANGED <<current, home, queue, received>>,
             \A q \in Procs : Up(q) => epoch'[q] = epoch[q],
             \A q \in Procs : Up(q) => done[q] <= done'[q],
             done' \in [Procs -> Nat]
      PROVE  HandedSoFar' /\ InStreamOrder'
    <2>1. \A d \in Conns : Handed(d)' = Handed(d)
        BY <1>1 DEF Handed
    <2>2. InStreamOrder'
        BY <2>1, Zenon DEF InStreamOrder
    <2>3. ASSUME NEW d \in Conns, home[d] # None
          PROVE  /\ Up(home[d])'
                 /\ \A i \in 1 .. Len(Handed(d)') : Handed(d)'[i] <= HandedLimit(home[d], d)'
        <3>1. home[d] \in Procs /\ Up(home[d])
            BY <1>0, <2>3 DEF HandedSoFar, TypeOK
        <3>2. done[home[d]] \in Nat /\ done'[home[d]] \in Nat /\ done[home[d]] <= done'[home[d]]
            BY <1>0, <1>1, <3>1 DEF TypeOK
        <3>3. Unserved(home[d])' = Unserved(home[d])
            BY <1>1 DEF Unserved
        <3>4. /\ HandedLimit(home[d], d) <= HandedLimit(home[d], d)'
              /\ HandedLimit(home[d], d) \in Nat /\ HandedLimit(home[d], d)' \in Nat
            BY <1>1, <3>2, <3>3 DEF HandedLimit
        <3>5. \A i \in 1 .. Len(Handed(d)) :
                 Handed(d)[i] \in Nat /\ Handed(d)[i] <= HandedLimit(home[d], d)
            BY <1>0, <2>3, HandedType DEF HandedSoFar
        <3>6. \A i \in 1 .. Len(Handed(d)) : Handed(d)[i] <= HandedLimit(home[d], d)'
            BY <3>4, <3>5
        <3> QED
            BY <1>1, <2>1, <3>1, <3>6 DEF Up
    <2>4. \A d \in Conns : home'[d] # None =>
             /\ Up(home[d])'
             /\ \A i \in 1 .. Len(Handed(d)') : Handed(d)'[i] <= HandedLimit(home[d], d)'
        BY <1>1, <2>3
    <2> QED
        BY <1>1, <2>2, <2>4 DEF HandedSoFar
<1>2. ASSUME UNCHANGED <<current, home, queue, received, epoch, done>>
      PROVE  HandedSoFar' /\ InStreamOrder'
    BY <1>0, <1>1, <1>2 DEF TypeOK
<1>3. ASSUME NEW p \in Procs, Boot(p) PROVE HandedSoFar' /\ InStreamOrder'
    <2>1. Len(stream) \in Nat /\ group[p] \in Nat
        BY <1>0 DEF TypeOK
    <2>2. done' \in [Procs -> Nat]
        BY <1>0, <1>3, <2>1 DEF Boot, TypeOK
    <2>3. \A q \in Procs : Up(q) => epoch'[q] = epoch[q] /\ done'[q] = done[q]
        BY <1>0, <1>3 DEF Boot, TypeOK
    <2>4. \A q \in Procs : done[q] <= done[q]
        BY <1>0 DEF TypeOK
    <2>5. UNCHANGED <<current, home, queue, received>>
        BY <1>3 DEF Boot
    <2> QED
        BY <1>1, <2>2, <2>3, <2>4, <2>5
<1>4. ASSUME NEW p \in Procs, Crash(p) PROVE HandedSoFar' /\ InStreamOrder'
    <2> DEFINE gone == {d \in Conns : home[d] = p}
    <2>1. \A d \in Conns : /\ home'[d] = IF d \in gone THEN None ELSE home[d]
                           /\ received'[d] = IF d \in gone THEN <<>> ELSE received[d]
                           /\ queue'[d] = IF d \in gone THEN <<>> ELSE queue[d]
        BY <1>4 DEF Crash
    <2>2. \A q \in Procs :
              \/ /\ current'[q] = current[q]
                 /\ done'[q] = done[q]
                 /\ epoch'[q] = epoch[q]
              \/ /\ current'[q] = Idle
                 /\ \A d \in Conns : home[d] = q => d \in gone
        BY <1>0, <1>4 DEF Crash, TypeOK
    <2> QED
        BY <2>1, <2>2, ClosingKeepsOrder
<1>5. ASSUME NEW p \in Procs, XReadGroup(p) PROVE HandedSoFar' /\ InStreamOrder'
    <2> DEFINE first == Larger(group[p], trimmed)
               last == Smaller(first + ReadCount, Len(stream))
    <2>1. /\ first \in Nat /\ last \in Nat
          /\ done[p] <= first /\ done[p] <= last
        BY <1>0, <1>5, ConstantsAssumption DEF XReadGroup, Larger, Smaller, TypeOK
    <2>2. /\ done' = [done EXCEPT ![p] = first] \/ done' = [done EXCEPT ![p] = last]
          /\ UNCHANGED <<current, home, queue, received, epoch>>
        BY <1>5 DEF XReadGroup
    <2>4. done \in [Procs -> Nat]
        BY <1>0 DEF TypeOK
    <2> HIDE DEF first, last
    <2>3. /\ done' \in [Procs -> Nat]
          /\ \A q \in Procs : done[q] <= done'[q]
        BY <2>1, <2>2, <2>4
    <2> QED
        BY <1>1, <2>2, <2>3
<1>6. ASSUME NEW p \in Procs, HandleEntry(p) PROVE HandedSoFar' /\ InStreamOrder'
    <2>1. UNCHANGED <<home, epoch>>
        BY <1>6 DEF HandleEntry
    <2> QED
        BY <1>6, <2>1, HandleEntryHands, HandsKeepOrder, Zenon
<1>7. ASSUME NEW p \in Procs, EndSend(p) PROVE HandedSoFar' /\ InStreamOrder'
    <2>1. UNCHANGED <<home, epoch>>
        BY <1>7 DEF EndSend
    <2> QED
        BY <1>7, <2>1, EndSendHands, HandsKeepOrder, Zenon
<1>8. ASSUME NEW p \in Procs, NEW ch \in Channels, Publish(p, ch) \/ CatchUp(p, ch)
      PROVE  HandedSoFar' /\ InStreamOrder'
    BY <1>2, <1>8 DEF Publish, CatchUp
<1>9. ASSUME NEW r \in publishing, XAdd(r) \/ PublishError(r)
      PROVE  HandedSoFar' /\ InStreamOrder'
    BY <1>2, <1>9 DEF XAdd, PublishError
<1>10. ASSUME NEW p \in Procs, NEW c \in Conns, OpenWS(p, c)
       PROVE  HandedSoFar' /\ InStreamOrder'
    BY <1>10, OpensKeepOrder DEF OpenWS
<1>11. ASSUME NEW p \in Procs, NEW c \in Conns, Close(p, c)
       PROVE  HandedSoFar' /\ InStreamOrder'
    <2>1. \A d \in Conns : /\ home'[d] = IF d \in {c} THEN None ELSE home[d]
                           /\ received'[d] = IF d \in {c} THEN <<>> ELSE received[d]
                           /\ queue'[d] = IF d \in {c} THEN <<>> ELSE queue[d]
        BY <1>0, <1>11 DEF Close, TypeOK
    <2>2. UNCHANGED <<current, done, epoch>> /\ {c} \in SUBSET Conns
        BY <1>11 DEF Close
    <2> QED
        BY <2>1, <2>2, ClosingKeepsOrder
<1>12. ASSUME NEW p \in Procs, NEW c \in Conns, NEW chs \in SUBSET Channels,
              OpenSSE(p, c, chs)
       PROVE  HandedSoFar' /\ InStreamOrder'
    BY <1>12, OpensKeepOrder DEF OpenSSE
<1>13. ASSUME NEW p \in Procs, NEW c \in Conns, NEW chs \in SUBSET Channels,
              SubscribeWS(p, c, chs) \/ UnsubscribeWS(p, c, chs)
       PROVE  HandedSoFar' /\ InStreamOrder'
    BY <1>2, <1>13 DEF SubscribeWS, UnsubscribeWS
<1>14. ASSUME NEW c \in Conns, WriteSSE(c) PROVE HandedSoFar' /\ InStreamOrder'
    <2>1. UNCHANGED <<current, home, epoch, done>>
        BY <1>14 DEF WriteSSE
    <2>2. /\ home[c] # None /\ queue[c] # <<>>
          /\ \A d \in Conns \ {c} : received'[d] = received[d] /\ queue'[d] = queue[d]
        BY <1>0, <1>14 DEF WriteSSE, TypeOK
    <2>6. \A d \in Conns : Handed(d)' = Handed(d)
        BY <1>0, <1>14, WriteKeepsHanded
    <2>7. InStreamOrder'
        BY <2>6, Zenon DEF InStreamOrder
    <2>8. \A q, d : HandedLimit(q, d)' = HandedLimit(q, d)
        BY <2>1 DEF HandedLimit, Unserved
    <2>9. \A d \in Conns : home'[d] # None =>
             /\ Up(home[d])'
             /\ \A i \in 1 .. Len(Handed(d)') : Handed(d)'[i] <= HandedLimit(home[d], d)'
        BY <2>1, <2>6, <2>8 DEF HandedSoFar, Up
    <2>10. \A d \in Conns : /\ home'[d] = None => received'[d] = <<>>
                            /\ home'[d] = None \/ d \in WSConns => queue'[d] = <<>>
        BY <2>1, <2>2 DEF HandedSoFar
    <2> QED
        BY <2>1, <2>7, <2>9, <2>10 DEF HandedSoFar
<1>15. CASE UNCHANGED fanoutVars
    BY <1>2, <1>15 DEF fanoutVars
<1> QED
    BY ReplayBeside, <1>3, <1>4, <1>5, <1>6, <1>7, <1>8, <1>9, <1>10, <1>11, <1>12, <1>13, <1>14,
       <1>15 DEF Next

(* Whatever subscribes, closes, fails or restarts, a connection is handed   *)
(* every entry at most once and in the order of the stream.                 *)
THEOREM HandedInOrder == Spec => []InStreamOrder
<1> QED
    BY OrderInit, OrderStep, StreamInvariant, PTL DEF Spec

-----------------------------------------------------------------------------
(* A connection has been handed the entry at position n; it has after a step.  *)
Got(c, n) == \E i \in 1 .. Len(Handed(c)) : Handed(c)[i] = n
Gets(c, n) == \E i \in 1 .. Len(Handed(c)') : Handed(c)'[i] = n

LEMMA HandsGive ==
    ASSUME TypeOK, NEW p \in Procs,
           NEW got \in SUBSET Conns, NEW rest \in SUBSET Conns, NEW cs \in SUBSET Conns,
           Hands(p, got, rest, cs), NEW c \in Conns
    PROVE  /\ \A n : Got(c, n) => Gets(c, n)
           /\ c \in got => Gets(c, done[p] + 1)
<1>1. CASE c \notin got
    <2>1. Handed(c)' = Handed(c)
        BY <1>1 DEF Hands
    <2> QED
        BY <1>1, <2>1, Zenon DEF Got, Gets
<1>2. CASE c \in got
    <2> DEFINE s == Handed(c)
               t == Append(s, done[p] + 1)
    <2>1. Handed(c)' = t
        BY <1>2 DEF Hands
    <2>2. s \in Seq(Nat) /\ done[p] + 1 \in Nat
        BY HandedType DEF TypeOK
    <2>3. /\ Len(s) + 1 \in 1 .. Len(t)
          /\ t[Len(s) + 1] = done[p] + 1
          /\ \A i \in 1 .. Len(s) : i \in 1 .. Len(t) /\ t[i] = s[i]
        BY <2>2
    <2> HIDE DEF t
    <2>4. \A n : (\E i \in 1 .. Len(s) : s[i] = n) => \E i \in 1 .. Len(t) : t[i] = n
        BY <2>3
    <2>5. \E i \in 1 .. Len(t) : t[i] = done[p] + 1
        BY <2>3
    <2>6. \A n : Gets(c, n) <=> \E i \in 1 .. Len(t) : t[i] = n
        BY <2>1, Zenon DEF Got, Gets
    <2> QED
        BY <2>4, <2>5, <2>6, Zenon DEF Got, Gets
<1> QED
    BY <1>1, <1>2

(* A subscriber of the channel of the entry in hand gets it from this run   *)
(* of the dispatch, is left to the next one, is dead, or has it.            *)
LEMMA HandsReachAll ==
    ASSUME StreamInv, HandedSoFar, EntryInHand, NEW p \in Procs,
           NEW got \in SUBSET Conns, NEW rest \in SUBSET Conns, NEW cs \in SUBSET Conns,
           Hands(p, got, rest, cs),
           NEW c \in Conns, NEW ch \in connChannels[c], home[c] = p,
           stream[done[p] + 1].channel = ch, joined[c][ch] <= done[p]
    PROVE  c \in rest \cup cs \/ Gets(c, done[p] + 1)
<1>1. TypeOK /\ ch \in Channels
    BY DEF StreamInv, TypeOK
<1>2. CASE c \in Serving(p)
    <2>1. c \in rest \cup got \cup cs
        BY <1>2 DEF Hands
    <2> QED
        BY <1>1, <2>1, HandsGive
<1>3. CASE c \notin Serving(p)
    <2>1. current[p] # Idle
        BY <1>1, <1>3 DEF Serving, StreamInv, RegistryConsistent
    <2>2. current[p].sending # None
        BY <2>1 DEF HandedSoFar
    <2>3. c \in InDispatch(p) \/ Got(c, done[p] + 1)
        BY <1>1, <2>2 DEF EntryInHand, Got, Gets
    <2>4. InDispatch(p) \subseteq Serving(p) \cup cs
        BY <2>1 DEF InDispatch, Serving, Unserved, Hands
    <2> QED
        BY <1>1, <1>3, <2>3, <2>4, HandsGive
<1> QED
    BY <1>2, <1>3

LEMMA HandsLeaveNoGap ==
    ASSUME StreamInv, HandedSoFar, EntryInHand, NoGapWhileSubscribed, NEW p \in Procs,
           NEW got \in SUBSET Conns, NEW rest \in SUBSET Conns, NEW cs \in SUBSET Conns,
           Hands(p, got, rest, cs), UNCHANGED <<home, joined, stream>>
    PROVE  EntryInHand' /\ NoGapWhileSubscribed'
<1>1. /\ TypeOK
      /\ None \notin Procs
      /\ done \in [Procs -> Nat]
    BY ConstantsAssumption DEF StreamInv, TypeOK
<1>2. \/ FinishEntry(p, cs) /\ rest = {}
      \/ \E x \in rest \cap WSConns : SuspendIn(p, x, rest \ {x}, cs)
    BY DEF Hands
<1>3. \A c \in Conns : connChannels'[c] \subseteq connChannels[c]
    BY <1>2 DEF FinishEntry, DropFromRegistry, SuspendIn
<1>4. \A q \in Procs \ {p} : current'[q] = current[q] /\ done'[q] = done[q]
    BY <1>1, <1>2 DEF FinishEntry, SuspendIn, TypeOK
<1>5. \A c \in Conns : \A n : Got(c, n) => Gets(c, n)
    BY <1>1, HandsGive
<1>6. \/ /\ current'[p] = Idle
         /\ done'[p] = done[p] + 1
         /\ rest = {}
         /\ \A c \in cs : connChannels'[c] = {}
      \/ /\ done'[p] = done[p]
         /\ rest \cup cs \subseteq InDispatch(p)'
    <2>1. ASSUME FinishEntry(p, cs)
          PROVE  /\ current'[p] = Idle
                 /\ done'[p] = done[p] + 1
                 /\ \A c \in cs : connChannels'[c] = {}
        BY <1>1, <2>1 DEF FinishEntry, DropFromRegistry, TypeOK
    <2>2. ASSUME NEW x \in rest \cap WSConns, SuspendIn(p, x, rest \ {x}, cs)
          PROVE  done'[p] = done[p] /\ rest \cup cs \subseteq InDispatch(p)'
        <3>1. /\ done'[p] = done[p]
              /\ current'[p] = [sending |-> x, todo |-> rest \ {x}, dead |-> cs]
              /\ x # None
            BY <1>1, <2>2, ConstantsAssumption DEF SuspendIn, TypeOK
        <3> QED
            BY <3>1 DEF InDispatch
    <2> QED
        BY <1>2, <2>1, <2>2
<1>7. ASSUME NEW c \in Conns, NEW ch \in Channels, home[c] = p, ch \in connChannels'[c],
             stream[done[p] + 1].channel = ch, joined[c][ch] <= done[p]
      PROVE  Gets(c, done[p] + 1) \/ (done'[p] = done[p] /\ c \in InDispatch(p)')
    <2>1. c \in rest \cup cs \/ Gets(c, done[p] + 1)
        BY <1>3, <1>7, HandsReachAll
    <2> QED
        BY <1>6, <1>7, <2>1
<1>8. ASSUME NEW q \in Procs, NEW c \in Conns, NEW ch \in Channels,
             current'[q].sending # None, home[c] = q, ch \in connChannels'[c],
             stream[done'[q] + 1].channel = ch, joined[c][ch] <= done'[q]
      PROVE  c \in InDispatch(q)' \/ Gets(c, done'[q] + 1)
    <2>1. CASE q # p
        <3>1. c \in InDispatch(q) \/ Got(c, done[q] + 1)
            BY <1>3, <1>4, <1>8, <2>1 DEF EntryInHand, Got, Gets
        <3>2. InDispatch(q)' = InDispatch(q)
            BY <1>4, <2>1 DEF InDispatch
        <3> QED
            BY <1>4, <1>5, <2>1, <3>1, <3>2
    <2>2. CASE q = p
        <3>1. done'[p] = done[p]
            BY <1>6, <1>8, <2>2 DEF Idle
        <3> QED
            BY <1>7, <1>8, <2>2, <3>1
    <2> QED
        BY <2>1, <2>2
<1>9. ASSUME NEW c \in Conns, NEW ch \in connChannels'[c],
             NEW n \in joined[c][ch] + 1 .. done'[home[c]], stream[n].channel = ch
      PROVE  Gets(c, n)
    <2>1. /\ ch \in connChannels[c] /\ ch \in Channels
          /\ home[c] \in Procs
          /\ joined[c][ch] \in Nat
        BY <1>1, <1>3, <1>9 DEF StreamInv, RegistryConsistent, TypeOK
    <2>2. CASE n <= done[home[c]]
        <3>1. n \in joined[c][ch] + 1 .. done[home[c]]
            BY <1>1, <2>1, <2>2
        <3>2. Got(c, n)
            BY <1>9, <2>1, <3>1 DEF NoGapWhileSubscribed, Got, Gets
        <3> QED
            BY <1>5, <3>2
    <2>3. CASE ~(n <= done[home[c]])
        <3>1. home[c] = p /\ done'[p] = done[p] + 1 /\ n = done[p] + 1
            BY <1>1, <1>4, <1>6, <1>9, <2>1, <2>3
        <3>2. joined[c][ch] <= done[p] /\ done'[p] # done[p]
            BY <1>1, <2>1, <3>1
        <3> QED
            BY <1>7, <1>9, <2>1, <3>1, <3>2
    <2> QED
        BY <2>2, <2>3
<1>10. EntryInHand'
    BY <1>8 DEF EntryInHand, Got, Gets
<1>11. NoGapWhileSubscribed'
    BY <1>9 DEF NoGapWhileSubscribed, Got, Gets
<1> QED
    BY <1>10, <1>11

(* Every other step leaves the dispatches alone, and what it does to a      *)
(* subscription is to end it, or to begin it behind the entry in hand.      *)
LEMMA NoGapOpens ==
    ASSUME StreamInv, EntryInHand, NoGapWhileSubscribed,
           \A n \in 1 .. Len(stream) : stream'[n] = stream[n],
           \A c \in Conns : \A ch \in connChannels'[c] :
              LET p == home'[c]
              IN  /\ p \in Procs /\ ch \in Channels
                  /\ done'[p] = done[p] /\ current'[p] = current[p]
                  /\ \/ /\ ch \in connChannels[c]
                        /\ home[c] = p
                        /\ joined'[c][ch] = joined[c][ch]
                        /\ Handed(c)' = Handed(c)
                     \/ /\ joined'[c][ch] \in Nat
                        /\ done[p] <= joined'[c][ch]
                        /\ current[p].sending # None => done[p] + 1 <= joined'[c][ch]
    PROVE  EntryInHand' /\ NoGapWhileSubscribed'
<1>1. /\ TypeOK /\ BatchInStream
      /\ done \in [Procs -> Nat] /\ group \in [Procs -> Nat] /\ Len(stream) \in Nat
    BY DEF StreamInv, TypeOK
<1>2. ASSUME NEW q \in Procs, NEW c \in Conns, NEW ch \in Channels,
             current'[q].sending # None, home'[c] = q, ch \in connChannels'[c],
             stream'[done'[q] + 1].channel = ch, joined'[c][ch] <= done'[q]
      PROVE  c \in InDispatch(q)' \/ Gets(c, done'[q] + 1)
    <2>1. done'[q] = done[q] /\ current'[q] = current[q] /\ done[q] \in Nat
        BY <1>1, <1>2
    <2>2. /\ ch \in connChannels[c] /\ home[c] = q
          /\ joined'[c][ch] = joined[c][ch]
          /\ Handed(c)' = Handed(c)
        BY <1>2, <2>1
    <2>3. done[q] + 1 \in 1 .. Len(stream)
        BY <1>1, <1>2, <2>1 DEF BatchInStream
    <2>4. stream[done[q] + 1].channel = ch
        BY <1>2, <2>1, <2>3
    <2>5. c \in InDispatch(q) \/ Got(c, done[q] + 1)
        BY <1>2, <2>1, <2>2, <2>4 DEF EntryInHand, Got
    <2>6. InDispatch(q)' = InDispatch(q)
        BY <2>1 DEF InDispatch
    <2>7. Got(c, done[q] + 1) => Gets(c, done[q] + 1)
        BY <2>2, Zenon DEF Got, Gets
    <2> QED
        BY <2>1, <2>5, <2>6, <2>7
<1>3. ASSUME NEW c \in Conns, NEW ch \in connChannels'[c],
             NEW n \in joined'[c][ch] + 1 .. done'[home'[c]], stream'[n].channel = ch
      PROVE  Gets(c, n)
    <2> DEFINE p == home'[c]
    <2>1. p \in Procs /\ done'[p] = done[p] /\ done[p] \in Nat
        BY <1>1, <1>3
    <2>2. /\ ch \in connChannels[c] /\ home[c] = p
          /\ joined'[c][ch] = joined[c][ch]
          /\ Handed(c)' = Handed(c)
        BY <1>3, <2>1
    <2>3. n \in 1 .. Len(stream)
        <3>1. joined[c][ch] \in Nat
            BY <1>1, <2>2 DEF TypeOK
        <3>2. done[p] <= group[p] /\ group[p] <= Len(stream)
            BY <1>1, <2>1 DEF BatchInStream
        <3> QED
            BY <1>1, <1>3, <2>1, <2>2, <3>1, <3>2
    <2>4. stream[n].channel = ch /\ n \in joined[c][ch] + 1 .. done[home[c]]
        BY <1>3, <2>1, <2>2, <2>3
    <2>5. Got(c, n)
        BY <2>2, <2>4 DEF NoGapWhileSubscribed, Got
    <2> QED
        BY <2>2, <2>5, Zenon DEF Got, Gets
<1>4. EntryInHand'
    BY <1>2 DEF EntryInHand, Gets
<1>5. NoGapWhileSubscribed'
    BY <1>3 DEF NoGapWhileSubscribed, Gets
<1> QED
    BY <1>4, <1>5

LEMMA SubscribeNoGap ==
    ASSUME StreamInv, HandedSoFar, EntryInHand, NoGapWhileSubscribed,
           NEW p \in Procs, NEW c \in Conns, NEW chs \in SUBSET Channels,
           Subscribe(p, c, chs), home[c] = p \/ c \notin used,
           home' = [home EXCEPT ![c] = p],
           UNCHANGED <<stream, done, current, queue, received>>
    PROVE  EntryInHand' /\ NoGapWhileSubscribed'
<1>1. /\ TypeOK /\ None \notin Procs
      /\ home \in [Conns -> Procs \cup {None}]
      /\ done[p] \in Nat
    BY ConstantsAssumption DEF StreamInv, TypeOK
<1>2. home[c] # p => connChannels[c] = {}
    BY <1>1 DEF StreamInv, DispatchRefersToOwn, RegistryConsistent
<1>3. \A d \in Conns : Handed(d)' = Handed(d)
    BY DEF Handed
<1>4. PICK accepted \in SUBSET chs :
        /\ connChannels' = [connChannels EXCEPT ![c] = connChannels[c] \cup accepted]
        /\ joined' = [joined EXCEPT ![c] = [ch \in Channels |->
              IF ch \notin accepted \ connChannels[c] THEN joined[c][ch]
              ELSE IF current[p] = Idle THEN done[p] ELSE done[p] + 1]]
    BY DEF Subscribe
<1>5. ASSUME NEW d \in Conns, NEW ch \in connChannels'[d]
      PROVE  /\ home'[d] \in Procs /\ ch \in Channels
             /\ \/ /\ ch \in connChannels[d]
                   /\ home[d] = home'[d]
                   /\ joined'[d][ch] = joined[d][ch]
                \/ /\ home'[d] = p
                   /\ joined'[d][ch] = IF current[p] = Idle THEN done[p] ELSE done[p] + 1
    <2>1. CASE d # c
        <3>1. connChannels'[d] = connChannels[d] /\ joined'[d] = joined[d] /\ home'[d] = home[d]
            BY <1>1, <1>4, <2>1 DEF TypeOK
        <3> QED
            BY <1>1, <1>5, <3>1 DEF TypeOK, StreamInv, RegistryConsistent
    <2>2. CASE d = c
        <3>1. /\ connChannels'[c] = connChannels[c] \cup accepted
              /\ home'[c] = p
              /\ connChannels[c] \subseteq Channels
            BY <1>1, <1>4 DEF TypeOK
        <3>2. ch \in Channels
            BY <1>4, <1>5, <2>2, <3>1
        <3>3. joined'[c][ch] = IF ch \notin accepted \ connChannels[c] THEN joined[c][ch]
                               ELSE IF current[p] = Idle THEN done[p] ELSE done[p] + 1
            BY <1>1, <1>4, <3>2 DEF TypeOK
        <3> QED
            BY <1>2, <1>5, <2>2, <3>1, <3>2, <3>3
    <2> QED
        BY <2>1, <2>2
<1>6. current[p].sending # None => current[p] # Idle
    BY DEF Idle
<1>7. \A n \in 1 .. Len(stream) : stream'[n] = stream[n]
    OBVIOUS
<1>8. \A d \in Conns : \A ch \in connChannels'[d] :
              LET q == home'[d]
              IN  /\ q \in Procs /\ ch \in Channels
                  /\ done'[q] = done[q] /\ current'[q] = current[q]
                  /\ \/ /\ ch \in connChannels[d]
                        /\ home[d] = q
                        /\ joined'[d][ch] = joined[d][ch]
                        /\ Handed(d)' = Handed(d)
                     \/ /\ joined'[d][ch] \in Nat
                        /\ done[q] <= joined'[d][ch]
                        /\ current[q].sending # None => done[q] + 1 <= joined'[d][ch]
    BY <1>1, <1>3, <1>5, <1>6
<1> QED
    BY <1>7, <1>8, NoGapOpens

LEMMA NoGapStep ==
    ASSUME ReliableReads
    PROVE  /\ StreamInv /\ TrimBehindReaders /\ HandedSoFar
           /\ EntryInHand /\ NoGapWhileSubscribed /\ [Next]_vars
           => EntryInHand' /\ NoGapWhileSubscribed'
<1> SUFFICES ASSUME StreamInv, TrimBehindReaders, HandedSoFar, EntryInHand,
                    NoGapWhileSubscribed, [Next]_vars
             PROVE  EntryInHand' /\ NoGapWhileSubscribed'
    OBVIOUS
<1> USE DEF redisVars, procVars, connVars
<1>0. /\ TypeOK /\ None \notin Procs
      /\ home \in [Conns -> Procs \cup {None}]
      /\ \A c \in Conns : connChannels[c] \subseteq Channels
    BY ConstantsAssumption DEF StreamInv, TypeOK
<1>1. \A c \in Conns : connChannels[c] # {} => home[c] \in Procs /\ Up(home[c])
    BY <1>0 DEF StreamInv, RegistryConsistent, HandedSoFar
<1>2. ASSUME \A n \in 1 .. Len(stream) : stream'[n] = stream[n],
             \A q \in Procs : Up(q) => done'[q] = done[q] /\ current'[q] = current[q],
             \A c \in Conns : connChannels'[c] \subseteq connChannels[c],
             \A c \in Conns : connChannels'[c] # {} =>
                home'[c] = home[c] /\ joined'[c] = joined[c] /\ Handed(c)' = Handed(c)
      PROVE  EntryInHand' /\ NoGapWhileSubscribed'
    <2>1. ASSUME NEW c \in Conns, NEW ch \in connChannels'[c]
          PROVE  /\ home'[c] \in Procs /\ ch \in Channels
                 /\ done'[home'[c]] = done[home'[c]] /\ current'[home'[c]] = current[home'[c]]
                 /\ ch \in connChannels[c]
                 /\ home[c] = home'[c]
                 /\ joined'[c][ch] = joined[c][ch]
                 /\ Handed(c)' = Handed(c)
        BY <1>0, <1>1, <1>2, <2>1
    <2> QED
        BY <1>2, <2>1, NoGapOpens
<1>3. ASSUME \A n \in 1 .. Len(stream) : stream'[n] = stream[n],
             \A q \in Procs : Up(q) => done'[q] = done[q] /\ current'[q] = current[q],
             UNCHANGED <<connChannels, home, joined, queue, received>>
      PROVE  EntryInHand' /\ NoGapWhileSubscribed'
    <2>1. \A c \in Conns : Handed(c)' = Handed(c)
        BY <1>3 DEF Handed
    <2> QED
        BY <1>2, <1>3, <2>1
<1>4. ASSUME NEW p \in Procs, Boot(p) PROVE EntryInHand' /\ NoGapWhileSubscribed'
    <2>1. \A q \in Procs : Up(q) => done'[q] = done[q]
        BY <1>0, <1>4 DEF Boot, TypeOK
    <2> QED
        BY <1>3, <1>4, <2>1 DEF Boot
<1>5. ASSUME NEW p \in Procs, Crash(p) PROVE EntryInHand' /\ NoGapWhileSubscribed'
    <2>1. \A c \in Conns : connChannels'[c] = IF home[c] = p THEN {} ELSE connChannels[c]
        BY <1>5 DEF Crash
    <2>2. \A c \in Conns : connChannels'[c] # {} =>
             home'[c] = home[c] /\ received'[c] = received[c] /\ queue'[c] = queue[c]
        BY <1>5, <2>1 DEF Crash
    <2>3. \A c \in Conns : connChannels'[c] # {} => Handed(c)' = Handed(c)
        BY <2>2 DEF Handed
    <2>4. \A q \in Procs \ {p} : current'[q] = current[q]
        BY <1>0, <1>5 DEF Crash, TypeOK
    <2>5. /\ joined' = joined /\ done' = done
          /\ \A n \in 1 .. Len(stream) : stream'[n] = stream[n]
        BY <1>5 DEF Crash
    <2>6. ASSUME NEW c \in Conns, NEW ch \in connChannels'[c]
          PROVE  /\ home'[c] \in Procs /\ ch \in Channels
                 /\ done'[home'[c]] = done[home'[c]] /\ current'[home'[c]] = current[home'[c]]
                 /\ ch \in connChannels[c]
                 /\ home[c] = home'[c]
                 /\ joined'[c][ch] = joined[c][ch]
                 /\ Handed(c)' = Handed(c)
        BY <1>0, <1>1, <2>1, <2>2, <2>3, <2>4, <2>5, <2>6
    <2> QED
        BY <2>5, <2>6, NoGapOpens
<1>6. ASSUME NEW p \in Procs, XReadGroup(p) PROVE EntryInHand' /\ NoGapWhileSubscribed'
    <2>1. Larger(group[p], trimmed) = group[p]
        BY <1>0, <1>6 DEF XReadGroup, Larger, TrimBehindReaders, TypeOK
    <2>2. done' = [done EXCEPT ![p] = group[p]] /\ done[p] = group[p]
        BY <1>6, <2>1 DEF XReadGroup, ReliableReads
    <2>3. done' = done
        BY <1>0, <2>2 DEF TypeOK
    <2> QED
        BY <1>3, <1>6, <2>3 DEF XReadGroup
<1>7. ASSUME NEW p \in Procs, HandleEntry(p) PROVE EntryInHand' /\ NoGapWhileSubscribed'
    <2>1. UNCHANGED <<home, joined, stream>>
        BY <1>7 DEF HandleEntry
    <2> QED
        BY <1>7, <2>1, HandleEntryHands, HandsLeaveNoGap, Zenon
<1>8. ASSUME NEW p \in Procs, EndSend(p) PROVE EntryInHand' /\ NoGapWhileSubscribed'
    <2>1. UNCHANGED <<home, joined, stream>>
        BY <1>8 DEF EndSend
    <2> QED
        BY <1>8, <2>1, EndSendHands, HandsLeaveNoGap, Zenon
<1>9. ASSUME NEW p \in Procs, NEW ch \in Channels, Publish(p, ch) \/ CatchUp(p, ch)
      PROVE  EntryInHand' /\ NoGapWhileSubscribed'
    BY <1>3, <1>9 DEF Publish, CatchUp
<1>10. ASSUME NEW r \in publishing, XAdd(r) PROVE EntryInHand' /\ NoGapWhileSubscribed'
    <2>1. [channel |-> r.channel, seq |-> r.seq, epoch |-> r.epoch] \in Event
        BY <1>0 DEF TypeOK, Publication, Event
    <2>2. \A n \in 1 .. Len(stream) : stream'[n] = stream[n]
        BY <1>0, <1>10, <2>1 DEF XAdd, TypeOK
    <2> QED
        BY <1>3, <1>10, <2>2 DEF XAdd
<1>11. ASSUME NEW r \in publishing, PublishError(r)
       PROVE  EntryInHand' /\ NoGapWhileSubscribed'
    BY <1>3, <1>11 DEF PublishError
<1>12. ASSUME NEW p \in Procs, NEW c \in Conns, OpenWS(p, c)
       PROVE  EntryInHand' /\ NoGapWhileSubscribed'
    <2>1. connChannels[c] = {}
        BY <1>0, <1>12 DEF OpenWS, Opens, StreamInv, DispatchRefersToOwn, RegistryConsistent
    <2>2. \A d \in Conns \ {c} : home'[d] = home[d]
        BY <1>0, <1>12 DEF OpenWS, Opens
    <2>3. \A d \in Conns : Handed(d)' = Handed(d)
        BY <1>12 DEF OpenWS, Handed
    <2>4. UNCHANGED <<stream, done, current, connChannels, joined>>
        BY <1>12 DEF OpenWS
    <2> QED
        BY <1>2, <2>1, <2>2, <2>3, <2>4
<1>13. ASSUME NEW p \in Procs, NEW c \in Conns, Close(p, c)
       PROVE  EntryInHand' /\ NoGapWhileSubscribed'
    <2>1. connChannels'[c] = {}
        BY <1>13 DEF Close, DropFromRegistry
    <2>2. \A d \in Conns \ {c} :
             /\ home'[d] = home[d] /\ received'[d] = received[d] /\ queue'[d] = queue[d]
             /\ connChannels'[d] = connChannels[d]
        BY <1>0, <1>13 DEF Close, DropFromRegistry, TypeOK
    <2>3. \A d \in Conns \ {c} : Handed(d)' = Handed(d)
        BY <2>2 DEF Handed
    <2>4. UNCHANGED <<stream, done, current, joined>>
        BY <1>13 DEF Close
    <2>5. \A d \in Conns : connChannels'[d] \subseteq connChannels[d]
        BY <2>1, <2>2
    <2> QED
        BY <1>2, <2>1, <2>2, <2>3, <2>4, <2>5
<1>14. ASSUME NEW p \in Procs, NEW c \in Conns, NEW chs \in SUBSET Channels,
              OpenSSE(p, c, chs)
       PROVE  EntryInHand' /\ NoGapWhileSubscribed'
    BY <1>14, SubscribeNoGap DEF OpenSSE, Opens
<1>15. ASSUME NEW p \in Procs, NEW c \in Conns, NEW chs \in SUBSET Channels,
              SubscribeWS(p, c, chs)
       PROVE  EntryInHand' /\ NoGapWhileSubscribed'
    <2>1. home' = [home EXCEPT ![c] = p] /\ home[c] = p
        BY <1>0, <1>15 DEF SubscribeWS
    <2> QED
        BY <1>15, <2>1, SubscribeNoGap DEF SubscribeWS
<1>16. ASSUME NEW p \in Procs, NEW c \in Conns, NEW chs \in SUBSET Channels,
              UnsubscribeWS(p, c, chs)
       PROVE  EntryInHand' /\ NoGapWhileSubscribed'
    <2>1. \A d \in Conns : connChannels'[d] \subseteq connChannels[d]
        BY <1>0, <1>16 DEF UnsubscribeWS, TypeOK
    <2>2. \A d \in Conns : Handed(d)' = Handed(d)
        BY <1>16 DEF UnsubscribeWS, Handed
    <2> QED
        BY <1>2, <1>16, <2>1, <2>2 DEF UnsubscribeWS
<1>17. ASSUME NEW c \in Conns, WriteSSE(c) PROVE EntryInHand' /\ NoGapWhileSubscribed'
    <2>1. \A d \in Conns : Handed(d)' = Handed(d)
        BY <1>0, <1>17, WriteKeepsHanded
    <2> QED
        BY <1>2, <1>17, <2>1 DEF WriteSSE
<1>18. CASE UNCHANGED fanoutVars
    BY <1>3, <1>18 DEF fanoutVars
<1> QED
    BY ReplayBeside, <1>4, <1>5, <1>6, <1>7, <1>8, <1>9, <1>10, <1>11, <1>12, <1>13, <1>14, <1>15,
       <1>16, <1>17, <1>18 DEF Next

(* With reliable reads a connection misses no entry of a channel while it   *)
(* is registered for it.                                                    *)
THEOREM NoSilentGap ==
    ASSUME ReliableReads
    PROVE  Spec => []NoGapWhileSubscribed
<1>1. Init => EntryInHand /\ NoGapWhileSubscribed
    BY DEF Init, EntryInHand, NoGapWhileSubscribed
<1>2. StreamInv /\ TrimBehindReaders /\ [Next]_vars => TrimBehindReaders'
    BY TrimStep DEF StreamInv
<1> QED
    BY <1>1, <1>2, InitReads, OrderInit, OrderStep, NoGapStep, StreamInvariant, PTL DEF Spec

-----------------------------------------------------------------------------
(* THE REPLAY OF A WEBSOCKET                                                *)

(* The stream only grows at its end, and is trimmed at its start.           *)
Longer ==
    /\ Len(stream) <= Len(stream')
    /\ \A n \in 1 .. Len(stream) : stream'[n] = stream[n]
    /\ trimmed <= trimmed'

LEMMA StreamLonger ==
    ASSUME TypeOK, [Next]_vars
    PROVE  Longer
<1> USE DEF redisVars, procVars, connVars
<1>1. ASSUME UNCHANGED <<stream, trimmed>> PROVE Longer
    BY <1>1 DEF Longer, TypeOK
<1>2. ASSUME NEW r \in publishing, XAdd(r) PROVE Longer
    <2>1. stream \in Seq(Event) /\ trimmed \in Nat
        BY DEF TypeOK
    <2>2. PICK e : stream' = Append(stream, e)
        BY <1>2 DEF XAdd
    <2>3. Len(stream) \in Nat /\ Len(stream') = Len(stream) + 1
        BY <2>1, <2>2
    <2>4. \A n \in 1 .. Len(stream) : stream'[n] = stream[n]
        BY <2>1, <2>2
    <2>5. trimmed <= trimmed'
        BY <1>2, <2>1 DEF XAdd
    <2> QED
        BY <2>1, <2>3, <2>4, <2>5 DEF Longer
<1>3. ASSUME NEW r \in publishing, PublishError(r) PROVE Longer
    BY <1>1, <1>3 DEF PublishError
<1>4. ASSUME NEW p \in Procs,
             \/ Boot(p) \/ Crash(p) \/ XReadGroup(p) \/ HandleEntry(p) \/ EndSend(p)
             \/ \E ch \in Channels : Publish(p, ch) \/ CatchUp(p, ch)
      PROVE  Longer
    BY <1>1, <1>4 DEF Boot, Crash, XReadGroup, HandleEntry, EndSend, Publish, CatchUp
<1>5. ASSUME NEW p \in Procs, NEW c \in Conns,
             \/ OpenWS(p, c) \/ Close(p, c)
             \/ \E chs \in SUBSET Channels :
                   OpenSSE(p, c, chs) \/ SubscribeWS(p, c, chs) \/ UnsubscribeWS(p, c, chs)
      PROVE  Longer
    BY <1>1, <1>5 DEF OpenWS, Close, OpenSSE, SubscribeWS, UnsubscribeWS
<1>6. ASSUME NEW c \in Conns, WriteSSE(c) PROVE Longer
    BY <1>1, <1>6 DEF WriteSSE
<1>7. CASE UNCHANGED fanoutVars
    BY <1>1, <1>7 DEF fanoutVars
<1> QED
    BY ReplayBeside, <1>2, <1>3, <1>4, <1>5, <1>6, <1>7 DEF Next

(* The backlog scan reads to the end of what is retained.                   *)
ScanCovers == Len(stream) - trimmed <= ScanLimit

(* A subscription starts inside the stream: no entry before its start is    *)
(* added later.                                                             *)
JoinedInside ==
    \A c \in Conns, ch \in Channels : joined[c][ch] <= Len(stream)

ReplayInv == JoinedInside /\ ReplayLeavesNoGap

Covered(c, n) ==
    \/ \E i \in 1 .. Len(toReplay[c]) : toReplay[c][i] = n
    \/ n \in replayed[c]

Wanted(c, ch, n) ==
    /\ stream[n].channel = ch
    /\ stream[n].epoch = epoch[home[c]]
    /\ stream[n].seq > askedSince[c][ch]

GapFree(c, ch) ==
    ch \in connChannels[c] /\ ch \notin toFetch[c] =>
        \A n \in trimmed + 1 .. joined[c][ch] : Wanted(c, ch, n) => Covered(c, n)

LEMMA GapFreeEverywhere ==
    ASSUME TypeOK
    PROVE  ReplayLeavesNoGap <=> \A c \in WSConns, ch \in Channels : GapFree(c, ch)
<1>1. \A c \in WSConns : connChannels[c] \subseteq Channels
    BY DEF TypeOK
<1> QED
    BY <1>1 DEF ReplayLeavesNoGap, GapFree, Wanted, Covered

(* What leaves a subscription as it is, and forgets nothing of the replay.  *)
SameAsk(c, ch) ==
    /\ home'[c] = home[c]
    /\ epoch'[home[c]] = epoch[home[c]]
    /\ ch \in connChannels[c]
    /\ ch \notin toFetch[c]
    /\ joined'[c][ch] = joined[c][ch]
    /\ askedSince'[c][ch] = askedSince[c][ch]
    /\ \A n \in Nat : Covered(c, n) => Covered(c, n)'

LEMMA GapFreeStays ==
    ASSUME TypeOK, TypeOK', Longer, JoinedInside, NEW c \in WSConns, NEW ch \in Channels,
           GapFree(c, ch),
           ch \in connChannels'[c] /\ ch \notin toFetch'[c] => SameAsk(c, ch)
    PROVE  GapFree(c, ch)'
<1> SUFFICES ASSUME ch \in connChannels'[c], ch \notin toFetch'[c],
                    NEW n \in trimmed' + 1 .. joined'[c][ch], Wanted(c, ch, n)'
             PROVE  Covered(c, n)'
    BY DEF GapFree
<1>1. SameAsk(c, ch)
    OBVIOUS
<1>2. /\ joined'[c][ch] = joined[c][ch] /\ joined[c][ch] \in Nat
      /\ joined[c][ch] <= Len(stream) /\ Len(stream) \in Nat
      /\ trimmed \in Nat /\ trimmed' \in Nat /\ trimmed <= trimmed'
    BY <1>1 DEF TypeOK, JoinedInside, SameAsk, Longer
<1>3. n \in trimmed + 1 .. joined[c][ch] /\ n \in 1 .. Len(stream) /\ n \in Nat
    BY <1>2
<1>4. stream'[n] = stream[n]
    BY <1>3 DEF Longer
<1>5. Wanted(c, ch, n)
    BY <1>1, <1>4 DEF Wanted, SameAsk
<1> QED
    BY <1>1, <1>3, <1>5 DEF GapFree, SameAsk

(* The dispatch drops registrations, and that is all it does to them.       *)
LEMMA RunDispatchDrops ==
    ASSUME TypeOK, NEW p \in Procs, NEW todo \in SUBSET Conns,
           NEW dead \in SUBSET Conns, RunDispatch(p, todo, dead)
    PROVE  \A c \in Conns : connChannels'[c] \subseteq connChannels[c]
<1>1. \/ \E cs \in SUBSET (dead \cup todo) : FinishEntry(p, cs)
      \/ UNCHANGED connChannels
    BY RunDispatchCases DEF SuspendIn
<1> QED
    BY <1>1 DEF FinishEntry, DropFromRegistry, TypeOK

(* manager.subscribe: where a subscription starts, and what it takes over.  *)
LEMMA SubscribeStarts ==
    ASSUME StreamInv, HandedSoFar, JoinedInside,
           NEW p \in Procs, NEW c \in Conns, NEW chs \in SUBSET Channels, Subscribe(p, c, chs)
    PROVE  /\ \A d \in Conns, ch \in Channels : joined'[d][ch] <= Len(stream)
           /\ \A d \in Conns \ {c} : joined'[d] = joined[d] /\ connChannels'[d] = connChannels[d]
           /\ \A ch \in connChannels[c] : joined'[c][ch] = joined[c][ch]
           /\ connChannels'[c] \subseteq connChannels[c] \cup (chs \cap connChannels'[c])
<1>1. TypeOK /\ BatchInStream
    BY DEF StreamInv
<1>2. PICK accepted \in SUBSET chs :
        /\ connChannels' = [connChannels EXCEPT ![c] = @ \cup accepted]
        /\ joined' = [joined EXCEPT ![c] = [ch \in Channels |->
              IF ch \notin accepted \ connChannels[c] THEN @[ch]
              ELSE IF current[p] = Idle THEN done[p] ELSE done[p] + 1]]
    BY DEF Subscribe
<1>3. joined \in [Conns -> [Channels -> Nat]] /\ connChannels \in [Conns -> SUBSET Channels]
    BY <1>1 DEF TypeOK
<1>4. done[p] \in Nat /\ group[p] \in Nat /\ Len(stream) \in Nat
      /\ done[p] <= group[p] /\ group[p] <= Len(stream)
    BY <1>1 DEF TypeOK, BatchInStream
<1>5. current[p] # Idle => done[p] < group[p]
    BY <1>1 DEF HandedSoFar, BatchInStream
<1>6. \A d \in Conns \ {c} : joined'[d] = joined[d] /\ connChannels'[d] = connChannels[d]
    BY <1>2, <1>3
<1>7. connChannels'[c] = connChannels[c] \cup accepted
    BY <1>2, <1>3
<1>8. \A ch \in connChannels[c] : joined'[c][ch] = joined[c][ch]
    BY <1>2, <1>3
<1>9. ASSUME NEW ch \in Channels PROVE joined'[c][ch] <= Len(stream)
    <2>1. joined'[c][ch] \in {joined[c][ch], done[p]}
          \/ (current[p] # Idle /\ joined'[c][ch] = done[p] + 1)
        BY <1>2, <1>3
    <2>2. joined[c][ch] <= Len(stream)
        BY DEF JoinedInside
    <2> QED
        BY <1>4, <1>5, <2>1, <2>2
<1> QED
    BY <1>2, <1>6, <1>7, <1>8, <1>9 DEF JoinedInside

(* A subscription starts inside the stream in every step.                   *)
LEMMA JoinedStep ==
    ASSUME StreamInv, HandedSoFar, JoinedInside, TypeOK', Longer, [Next]_vars
    PROVE  JoinedInside'
<1> USE DEF redisVars, procVars, connVars
<1>0. TypeOK
    BY DEF StreamInv
<1>1. ASSUME UNCHANGED joined PROVE JoinedInside'
    <2> SUFFICES ASSUME NEW c \in Conns, NEW ch \in Channels
                 PROVE  joined'[c][ch] <= Len(stream')
        BY DEF JoinedInside
    <2>1. joined[c][ch] \in Nat /\ Len(stream) \in Nat /\ Len(stream') \in Nat
        BY <1>0 DEF TypeOK
    <2> QED
        BY <1>1, <2>1 DEF JoinedInside, Longer
<1>2. ASSUME NEW p \in Procs, NEW c \in Conns, NEW chs \in SUBSET Channels,
             Subscribe(p, c, chs), UNCHANGED stream
      PROVE  JoinedInside'
    BY <1>2, SubscribeStarts DEF JoinedInside
<1>3. ASSUME NEW p \in Procs,
             \/ Boot(p) \/ Crash(p) \/ XReadGroup(p) \/ HandleEntry(p) \/ EndSend(p)
             \/ \E ch \in Channels : Publish(p, ch) \/ CatchUp(p, ch)
      PROVE  JoinedInside'
    BY <1>1, <1>3 DEF Boot, Crash, XReadGroup, HandleEntry, EndSend, Publish, CatchUp
<1>4. ASSUME NEW r \in publishing, XAdd(r) \/ PublishError(r) PROVE JoinedInside'
    BY <1>1, <1>4 DEF XAdd, PublishError
<1>5. ASSUME NEW p \in Procs, NEW c \in Conns, OpenWS(p, c) \/ Close(p, c) PROVE JoinedInside'
    BY <1>1, <1>5 DEF OpenWS, Close
<1>6. ASSUME NEW p \in Procs, NEW c \in Conns, NEW chs \in SUBSET Channels,
             OpenSSE(p, c, chs) \/ SubscribeWS(p, c, chs) \/ UnsubscribeWS(p, c, chs)
      PROVE  JoinedInside'
    BY <1>1, <1>2, <1>6 DEF OpenSSE, SubscribeWS, UnsubscribeWS
<1>7. ASSUME NEW c \in Conns, WriteSSE(c) PROVE JoinedInside'
    BY <1>1, <1>7 DEF WriteSSE
<1>8. CASE UNCHANGED fanoutVars
    BY <1>1, <1>8 DEF fanoutVars
<1> QED
    BY ReplayBeside, <1>3, <1>4, <1>5, <1>6, <1>7, <1>8 DEF Next

(* A subscribe message: what it does not ask for again stays as it was, and *)
(* what is new and not asked for wants nothing, for no number is so large.  *)
LEMMA SubscribeGapFree ==
    ASSUME StreamInv, HandedSoFar, JoinedInside, TypeOK', Longer,
           NEW p \in Procs, NEW d \in Conns, NEW chs \in SUBSET Channels, SubscribeWS(p, d, chs),
           NEW c \in WSConns, NEW ch \in Channels, GapFree(c, ch)
    PROVE  GapFree(c, ch)'
<1>1. /\ TypeOK /\ ReplayOK /\ Listening(d) /\ Subscribe(p, d, chs)
      /\ UNCHANGED <<stream, trimmed, epoch, home, toReplay, replayed>>
      /\ AskNothing(d) \/ \E last \in 0 .. MaxEvents - 1 : AskSince(d, chs, last)
    BY DEF StreamInv, TypeOK, SubscribeWS, redisVars
<1>2. /\ \A x \in Conns \ {d} : joined'[x] = joined[x] /\ connChannels'[x] = connChannels[x]
      /\ \A x \in connChannels[d] : joined'[d][x] = joined[d][x]
      /\ connChannels'[d] \subseteq connChannels[d] \cup (chs \cap connChannels'[d])
      /\ \A x \in Conns, y \in Channels : joined'[x][y] <= Len(stream)
    BY <1>1, SubscribeStarts
<1>3. \A n : Covered(c, n) => Covered(c, n)'
    BY <1>1 DEF Covered
<1>4. CASE c # d
    <2>1. /\ toFetch'[c] = toFetch[c]
          /\ askedSince'[c] = askedSince[c]
        BY <1>1, <1>4 DEF AskNothing, AskSince, ReplayOK
    <2> QED
        BY <1>1, <1>2, <1>3, <1>4, <2>1, GapFreeStays DEF SameAsk, GapFree
<1>5. CASE c = d /\ AskNothing(d)
    <2>1. toFetch' = toFetch
          /\ askedSince'[c][ch] = IF ch \in connChannels'[d] \ connChannels[d] THEN MaxEvents
                                  ELSE askedSince[c][ch]
        BY <1>1, <1>5 DEF AskNothing, ReplayOK
    <2>2. CASE ch \in connChannels[c] \/ ch \notin connChannels'[c]
        BY <1>1, <1>2, <1>3, <1>5, <2>1, <2>2, GapFreeStays DEF SameAsk, GapFree, Listening
    <2>3. CASE ch \in connChannels'[c] \ connChannels[c]
        <3> SUFFICES ASSUME NEW n \in trimmed' + 1 .. joined'[c][ch], Wanted(c, ch, n)'
                     PROVE  FALSE
            BY DEF GapFree
        <3>1. joined'[c][ch] \in Nat /\ joined'[c][ch] <= Len(stream) /\ Len(stream) \in Nat
              /\ trimmed' \in Nat
            BY <1>2 DEF TypeOK
        <3>2. n \in 1 .. Len(stream)
            BY <3>1
        <3>3. stream[n].channel \in Channels /\ stream[n].seq \in Nat
            BY <1>1, <3>2, EntryType
        <3>4. stream[n].seq <= seqOf[stream[n].channel] /\ seqOf[stream[n].channel] <= MaxEvents
              /\ seqOf[stream[n].channel] \in Nat
            BY <1>1, <3>2, <3>3 DEF StreamInv, NumbersGivenOut, TypeOK
        <3>5. stream[n].seq > MaxEvents
            BY <1>1, <1>5, <2>1, <2>3 DEF Wanted
        <3> QED
            BY <3>3, <3>4, <3>5, ConstantsAssumption
    <2> QED
        BY <2>2, <2>3
<1>6. ASSUME c = d, NEW last \in 0 .. MaxEvents - 1, AskSince(d, chs, last)
      PROVE  GapFree(c, ch)'
    <2>1. /\ toFetch'[c] = chs \cap connChannels'[c]
          /\ askedSince'[c][ch] = IF ch \in chs \cap connChannels'[c] THEN last
                                  ELSE askedSince[c][ch]
        BY <1>1, <1>6 DEF AskSince, ReplayOK
    <2> QED
        BY <1>1, <1>2, <1>3, <1>6, <2>1, GapFreeStays DEF SameAsk, GapFree, Listening
<1> QED
    BY <1>1, <1>4, <1>5, <1>6

(* The backlog that is read covers what the channel wants.                  *)
LEMMA FetchGapFree ==
    ASSUME StreamInv, JoinedInside, ScanCovers, TypeOK', Longer,
           NEW d \in Conns, NEW x \in Channels, FetchReplay(d, x),
           NEW c \in WSConns, NEW ch \in Channels, GapFree(c, ch)
    PROVE  GapFree(c, ch)'
<1> DEFINE ns == Backlog(home[d], x, askedSince[d][x])
<1>1. /\ TypeOK /\ ReplayOK /\ home[d] # None /\ toReplay[d] = <<>>
      /\ toFetch' = [toFetch EXCEPT ![d] = @ \ {x}]
      /\ UNCHANGED <<stream, trimmed, epoch, home, joined, connChannels, askedSince, replayed>>
    BY DEF StreamInv, TypeOK, FetchReplay, redisVars, procVars
<1>2. home[d] \in Procs /\ askedSince[d][x] \in Nat /\ Len(stream) \in Nat /\ trimmed \in Nat
    BY <1>1 DEF TypeOK, ReplayOK
<1>3. ns \in SUBSET (1 .. Len(stream))
    BY <1>1, <1>2, BacklogType
<1>4. PICK s \in InOrder(ns) : toReplay' = [toReplay EXCEPT ![d] = s]
    BY DEF FetchReplay
<1>5. \A m \in ns : \E i \in 1 .. Len(s) : s[i] = m
    <2> HIDE DEF ns
    <2> QED
        BY <1>2, <1>3, OrderedIsSequence
<1>6. toReplay'[d] = s /\ \A y \in Conns \ {d} : toReplay'[y] = toReplay[y]
    BY <1>1, <1>4 DEF ReplayOK
<1>7. toFetch'[d] = toFetch[d] \ {x} /\ \A y \in Conns \ {d} : toFetch'[y] = toFetch[y]
    BY <1>1 DEF ReplayOK
<1>8. ASSUME NEW n, Covered(c, n) PROVE Covered(c, n)'
    <2>1. CASE c # d
        BY <1>1, <1>6, <1>8, <2>1 DEF Covered
    <2>2. CASE c = d
        <3>1. Len(toReplay[c]) = 0
            BY <1>1, <2>2
        <3> QED
            BY <1>1, <1>8, <3>1 DEF Covered
    <2> QED
        BY <2>1, <2>2
<1>9. CASE ~(c = d /\ ch = x)
    BY <1>1, <1>7, <1>8, <1>9, GapFreeStays DEF SameAsk, GapFree
<1>10. CASE c = d /\ ch = x
    <2> SUFFICES ASSUME NEW n \in trimmed + 1 .. joined[c][ch], Wanted(c, ch, n)
                 PROVE  Covered(c, n)'
        BY <1>1 DEF GapFree, Wanted
    <2>1. joined[c][ch] \in Nat /\ joined[c][ch] <= Len(stream)
        BY <1>1 DEF TypeOK, JoinedInside
    <2>2. n \in Nat /\ n <= Len(stream) /\ n >= trimmed + 1 /\ n <= trimmed + ScanLimit
        BY <1>2, <2>1, ConstantsAssumption DEF ScanCovers
    <2>3. n \in trimmed + 1 .. Smaller(trimmed + ScanLimit, Len(stream))
        BY <1>2, <2>2, ConstantsAssumption DEF Smaller
    <2>4. n \in ns
        BY <1>10, <2>3 DEF Backlog, Wanted
    <2> HIDE DEF ns
    <2> QED
        BY <1>5, <1>6, <1>10, <2>4 DEF Covered
<1> QED
    BY <1>9, <1>10

(* What is sent moves from the one to the other.                            *)
LEMMA SendGapFree ==
    ASSUME StreamInv, JoinedInside, TypeOK', Longer, NEW d \in Conns, SendReplay(d),
           NEW c \in WSConns, NEW ch \in Channels, GapFree(c, ch)
    PROVE  GapFree(c, ch)'
<1>1. /\ TypeOK /\ ReplayOK /\ toReplay[d] # <<>>
      /\ toReplay' = [toReplay EXCEPT ![d] = Tail(@)]
      /\ replayed' = [replayed EXCEPT ![d] = @ \cup {Head(toReplay[d])}]
      /\ UNCHANGED <<stream, trimmed, epoch, home, joined, connChannels, askedSince, toFetch>>
    BY DEF StreamInv, TypeOK, SendReplay, redisVars, procVars
<1>2. ASSUME NEW n, Covered(c, n) PROVE Covered(c, n)'
    <2>1. CASE c # d
        <3>1. toReplay'[c] = toReplay[c] /\ replayed'[c] = replayed[c]
            BY <1>1, <2>1 DEF ReplayOK
        <3> QED
            BY <1>2, <3>1 DEF Covered
    <2>2. CASE c = d
        <3> DEFINE q == toReplay[c]
        <3>1. q \in Seq(Nat) /\ q # <<>> /\ toReplay'[c] = Tail(q)
              /\ replayed'[c] = replayed[c] \cup {Head(q)}
            BY <1>1, <2>2 DEF ReplayOK
        <3>2. CASE n \in replayed[c]
            BY <3>1, <3>2 DEF Covered
        <3>3. ASSUME NEW i \in 1 .. Len(q), q[i] = n PROVE Covered(c, n)'
            <4>1. CASE i = 1
                <5>1. Head(q) = n
                    BY <3>1, <3>3, <4>1
                <5> QED
                    BY <3>1, <5>1 DEF Covered
            <4>2. CASE i # 1
                <5> HIDE DEF q
                <5>1. i - 1 \in 1 .. Len(Tail(q)) /\ Tail(q)[i - 1] = n
                    BY <3>1, <3>3, <4>2
                <5> QED
                    BY <3>1, <5>1 DEF Covered
            <4> QED
                BY <4>1, <4>2
        <3> QED
            BY <1>2, <3>2, <3>3 DEF Covered
    <2> QED
        BY <2>1, <2>2
<1> QED
    BY <1>1, <1>2, GapFreeStays DEF SameAsk, GapFree

(* Steps that neither subscribe nor replay.                                 *)
LEMMA OtherGapFree ==
    ASSUME StreamInv, HandedSoFar, JoinedInside, TypeOK', Longer,
           NEW c \in WSConns, NEW ch \in Channels, GapFree(c, ch),
           \/ connChannels'[c] = {}
           \/ /\ connChannels'[c] \subseteq connChannels[c]
              /\ home'[c] = home[c]
              /\ home[c] # None => epoch'[home[c]] = epoch[home[c]]
              /\ joined'[c] = joined[c] /\ askedSince'[c] = askedSince[c]
              /\ toFetch'[c] = toFetch[c]
              /\ toReplay'[c] = toReplay[c] /\ replayed'[c] = replayed[c]
    PROVE  GapFree(c, ch)'
<1>1. TypeOK /\ (home[c] = None => connChannels[c] = {})
    BY DEF StreamInv, RegistryConsistent
<1>2. CASE connChannels'[c] = {}
    BY <1>2 DEF GapFree
<1>3. CASE /\ connChannels'[c] \subseteq connChannels[c]
           /\ home'[c] = home[c]
           /\ home[c] # None => epoch'[home[c]] = epoch[home[c]]
           /\ joined'[c] = joined[c] /\ askedSince'[c] = askedSince[c]
           /\ toFetch'[c] = toFetch[c]
           /\ toReplay'[c] = toReplay[c] /\ replayed'[c] = replayed[c]
    <2>1. \A n : Covered(c, n) => Covered(c, n)'
        BY <1>3 DEF Covered
    <2> QED
        BY <1>1, <1>3, <2>1, GapFreeStays DEF SameAsk
<1> QED
    BY <1>2, <1>3

LEMMA ReplayStep ==
    ASSUME StreamInv, HandedSoFar, ReplayInv, ScanCovers, [Next]_vars
    PROVE  ReplayInv'
<1> USE DEF redisVars, procVars, connVars, replayVars
<1>0. /\ TypeOK /\ TypeOK' /\ JoinedInside /\ Longer
      /\ \A c \in WSConns, ch \in Channels : GapFree(c, ch)
    <2>1. TypeOK /\ TypeOK'
        BY TypeStep DEF StreamInv
    <2> QED
        BY <2>1, StreamLonger, GapFreeEverywhere DEF ReplayInv
<1>1. JoinedInside'
    BY <1>0, JoinedStep
<1> SUFFICES ASSUME NEW c \in WSConns, NEW ch \in Channels PROVE GapFree(c, ch)'
    <2>1. \A x \in WSConns : connChannels'[x] \subseteq Channels
        BY <1>0 DEF TypeOK, Conns
    <2>2. ReplayLeavesNoGap'
        BY <2>1 DEF ReplayLeavesNoGap, GapFree, Wanted, Covered
    <2> QED
        BY <1>1, <2>2 DEF ReplayInv
<1>2. GapFree(c, ch)
    BY <1>0
<1> DEFINE Kept == /\ connChannels'[c] \subseteq connChannels[c]
                   /\ home'[c] = home[c]
                   /\ home[c] # None => epoch'[home[c]] = epoch[home[c]]
                   /\ joined'[c] = joined[c] /\ askedSince'[c] = askedSince[c]
                   /\ toFetch'[c] = toFetch[c]
                   /\ toReplay'[c] = toReplay[c] /\ replayed'[c] = replayed[c]
<1>3. connChannels'[c] = {} \/ Kept => GapFree(c, ch)'
    BY <1>0, <1>2, OtherGapFree
<1>4. ASSUME UNCHANGED <<home, epoch, joined, connChannels, replayVars>> PROVE Kept
    BY <1>4
<1> HIDE DEF Kept
<1>5. ASSUME NEW p \in Procs, Boot(p) PROVE GapFree(c, ch)'
    <2>1. UNCHANGED <<home, joined, connChannels, replayVars>> /\ ~Up(p)
          /\ epoch' = [epoch EXCEPT ![p] = boots + 1]
        BY <1>5 DEF Boot
    <2>2. home[c] # None => home[c] # p
        BY <2>1 DEF HandedSoFar
    <2>3. Kept
        BY <1>0, <2>1, <2>2 DEF Kept, TypeOK
    <2> QED
        BY <1>3, <2>3
<1>6. ASSUME NEW p \in Procs, Crash(p) PROVE GapFree(c, ch)'
    <2>1. CASE home[c] = p
        <3>1. connChannels'[c] = {}
            BY <1>6, <2>1 DEF Crash
        <3> QED
            BY <1>3, <3>1
    <2>2. CASE home[c] # p
        <3>1. home'[c] = home[c] /\ connChannels'[c] = connChannels[c] /\ joined' = joined
            BY <1>6, <2>2 DEF Crash
        <3>2. home[c] # None => epoch'[home[c]] = epoch[home[c]]
            BY <1>0, <1>6, <2>2 DEF Crash, TypeOK
        <3>3. /\ askedSince'[c] = askedSince[c] /\ toFetch'[c] = toFetch[c]
              /\ toReplay'[c] = toReplay[c] /\ replayed'[c] = replayed[c]
            BY <1>6, <2>2 DEF Crash, ReplayEnds
        <3>4. Kept
            BY <3>1, <3>2, <3>3 DEF Kept
        <3> QED
            BY <1>3, <3>4
    <2> QED
        BY <2>1, <2>2
<1>7. ASSUME NEW p \in Procs, HandleEntry(p) \/ EndSend(p) PROVE GapFree(c, ch)'
    <2>1. UNCHANGED <<home, epoch, joined, replayVars>>
        BY <1>7 DEF HandleEntry, EndSend
    <2>2. PICK todo \in SUBSET Conns, dead \in SUBSET Conns : RunDispatch(p, todo, dead)
        <3>1. CASE HandleEntry(p)
            <4>1. /\ subscribers[p][stream[done[p] + 1].channel] \in SUBSET Conns
                  /\ RunDispatch(p, subscribers[p][stream[done[p] + 1].channel], {})
                BY <1>0, <3>1, SnapshotType DEF HandleEntry, StreamInv
            <4> QED
                BY <4>1
        <3>2. CASE EndSend(p)
            <4>1. /\ current[p].todo \in SUBSET Conns /\ current[p].dead \in SUBSET Conns
                  /\ current[p].sending \in Conns
                BY <1>0, <3>2, SuspendedType DEF EndSend
            <4>2. \/ RunDispatch(p, current[p].todo, current[p].dead)
                  \/ RunDispatch(p, current[p].todo, current[p].dead \cup {current[p].sending})
                BY <3>2 DEF EndSend
            <4>3. current[p].dead \cup {current[p].sending} \in SUBSET Conns
                BY <4>1
            <4> QED
                BY <4>1, <4>2, <4>3
        <3> QED
            BY <1>7, <3>1, <3>2
    <2>3. connChannels'[c] \subseteq connChannels[c]
        BY <1>0, <2>2, RunDispatchDrops
    <2>4. Kept
        BY <2>1, <2>3 DEF Kept
    <2> QED
        BY <1>3, <2>4
<1>8. ASSUME NEW p \in Procs,
             XReadGroup(p) \/ \E x \in Channels : Publish(p, x) \/ CatchUp(p, x)
      PROVE  GapFree(c, ch)'
    <2>1. UNCHANGED <<home, epoch, joined, connChannels, replayVars>>
        BY <1>8 DEF XReadGroup, Publish, CatchUp
    <2> QED
        BY <1>3, <1>4, <2>1
<1>9. ASSUME NEW r \in publishing, XAdd(r) \/ PublishError(r) PROVE GapFree(c, ch)'
    <2>1. UNCHANGED <<home, epoch, joined, connChannels, replayVars>>
        BY <1>9 DEF XAdd, PublishError
    <2> QED
        BY <1>3, <1>4, <2>1
<1>10. ASSUME NEW p \in Procs, NEW d \in Conns, OpenWS(p, d) PROVE GapFree(c, ch)'
    <2>1. /\ UNCHANGED <<epoch, joined, connChannels, replayVars>>
          /\ d \notin used /\ home' = [home EXCEPT ![d] = p]
        BY <1>10 DEF OpenWS, Opens
    <2>2. CASE c = d
        <3>1. home[c] = None
            BY <2>1, <2>2 DEF StreamInv, DispatchRefersToOwn
        <3>2. connChannels'[c] = {}
            BY <2>1, <3>1 DEF StreamInv, RegistryConsistent
        <3> QED
            BY <1>3, <3>2
    <2>3. CASE c # d
        <3>1. Kept
            BY <1>0, <2>1, <2>3 DEF Kept, TypeOK
        <3> QED
            BY <1>3, <3>1
    <2> QED
        BY <2>2, <2>3
<1>11. ASSUME NEW p \in Procs, NEW d \in Conns, NEW chs \in SUBSET Channels, OpenSSE(p, d, chs)
       PROVE  GapFree(c, ch)'
    <2>1. /\ UNCHANGED <<epoch, replayVars>> /\ home' = [home EXCEPT ![d] = p]
          /\ d \in SSEConns /\ Subscribe(p, d, chs)
        BY <1>11 DEF OpenSSE, Opens
    <2>2. c # d
        BY <2>1, ConstantsAssumption
    <2>3. joined'[c] = joined[c] /\ connChannels'[c] = connChannels[c]
        BY <1>0, <2>1, <2>2, SubscribeStarts
    <2>4. Kept
        BY <1>0, <2>1, <2>2, <2>3 DEF Kept, TypeOK
    <2> QED
        BY <1>3, <2>4
<1>12. ASSUME NEW p \in Procs, NEW d \in Conns, Close(p, d) PROVE GapFree(c, ch)'
    <2>1. /\ home' = [home EXCEPT ![d] = None] /\ UNCHANGED <<epoch, joined>>
          /\ connChannels' = [x \in Conns |-> IF x \in {d} THEN {} ELSE connChannels[x]]
          /\ ReplayEnds({d})
        BY <1>12 DEF Close, DropFromRegistry
    <2>2. CASE c = d
        <3>1. connChannels'[c] = {}
            BY <2>1, <2>2
        <3> QED
            BY <1>3, <3>1
    <2>3. CASE c # d
        <3>1. home'[c] = home[c] /\ connChannels'[c] = connChannels[c]
            BY <1>0, <2>1, <2>3 DEF TypeOK
        <3>2. /\ askedSince'[c] = askedSince[c] /\ toFetch'[c] = toFetch[c]
              /\ toReplay'[c] = toReplay[c] /\ replayed'[c] = replayed[c]
            BY <2>1, <2>3 DEF ReplayEnds
        <3>3. Kept
            BY <2>1, <3>1, <3>2 DEF Kept
        <3> QED
            BY <1>3, <3>3
    <2> QED
        BY <2>2, <2>3
<1>13. ASSUME NEW p \in Procs, NEW d \in Conns, NEW chs \in SUBSET Channels, SubscribeWS(p, d, chs)
       PROVE  GapFree(c, ch)'
    BY <1>0, <1>2, <1>13, SubscribeGapFree
<1>14. ASSUME NEW p \in Procs, NEW d \in Conns, NEW chs \in SUBSET Channels, UnsubscribeWS(p, d, chs)
       PROVE  GapFree(c, ch)'
    <2>1. /\ UNCHANGED <<home, epoch, joined, replayVars>>
          /\ connChannels' = [connChannels EXCEPT ![d] = @ \ chs]
        BY <1>14 DEF UnsubscribeWS
    <2>2. connChannels'[c] \subseteq connChannels[c]
        BY <1>0, <2>1 DEF TypeOK
    <2>3. Kept
        BY <2>1, <2>2 DEF Kept
    <2> QED
        BY <1>3, <2>3
<1>15. ASSUME NEW d \in Conns, WriteSSE(d) PROVE GapFree(c, ch)'
    <2>1. UNCHANGED <<home, epoch, joined, connChannels, replayVars>>
        BY <1>15 DEF WriteSSE
    <2> QED
        BY <1>3, <1>4, <2>1
<1>16. ASSUME NEW d \in Conns, SendReplay(d) PROVE GapFree(c, ch)'
    BY <1>0, <1>2, <1>16, SendGapFree
<1>17. ASSUME NEW d \in Conns, NEW x \in Channels, FetchReplay(d, x) PROVE GapFree(c, ch)'
    BY <1>0, <1>2, <1>17, FetchGapFree
<1>18. CASE UNCHANGED vars
    <2>1. UNCHANGED <<home, epoch, joined, connChannels, replayVars>>
        BY <1>18 DEF vars
    <2> QED
        BY <1>3, <1>4, <2>1
<1> QED
    BY <1>5, <1>6, <1>7, <1>8, <1>9, <1>10, <1>11, <1>12, <1>13, <1>14, <1>15, <1>16,
       <1>17, <1>18 DEF Next

(* With a scan that reaches the end of the stream, a WebSocket that asks    *)
(* for what it missed is sent every retained entry of the process's own     *)
(* epoch from before its subscription; NoSilentGap is about those after it. *)
THEOREM ReplaysComplete == Spec /\ []ScanCovers => []ReplayLeavesNoGap
<1>1. Init => ReplayInv
    <2> SUFFICES ASSUME Init PROVE ReplayInv
        OBVIOUS
    <2>1. Len(stream) = 0 /\ \A c \in Conns, ch \in Channels : joined[c][ch] = 0
        BY DEF Init
    <2>2. \A c \in WSConns : connChannels[c] = {}
        BY DEF Init
    <2> QED
        BY <2>1, <2>2 DEF ReplayInv, JoinedInside, ReplayLeavesNoGap
<1>2. Init => HandedSoFar /\ InStreamOrder
    BY OrderInit
<1>3. ReplayInv => ReplayLeavesNoGap
    BY DEF ReplayInv
<1> QED
    BY <1>1, <1>2, <1>3, ReplayStep, OrderStep, StreamInvariant, PTL DEF Spec

-----------------------------------------------------------------------------
(* RESUMING                                                                 *)

HIDE DEF Conns

(* Connections and clients: a connection that was never opened has nothing, *)
(* and one is read by at most one hook, which follows its channel.          *)
ReadersApart ==
    /\ \A c \in SSEConns \ used : wire[c] = <<>>
    /\ \A k \in Clients : conn[k] # None =>
          /\ conn[k] \in used
          /\ request[conn[k]].channel = channelOf[k]
    /\ \A k, l \in Clients : conn[k] # None /\ conn[k] = conn[l] => k = l

(* What a connection was handed, and what is on its way to the client, are  *)
(* entries of the channel that was asked for.                               *)
Asked(c, n) == n \in 1 .. Len(stream) /\ stream[n].channel = request[c].channel

HandedAsAsked ==
    \A c \in SSEConns :
        /\ connChannels[c] \subseteq {request[c].channel}
        /\ home[c] # None => \A i \in 1 .. Len(Handed(c)) : Asked(c, Handed(c)[i])
        /\ \A i \in 1 .. Len(wire[c]) :
              wire[c][i].type = "event" => Asked(c, wire[c][i].position)

(* Why RestartRefetched is kept: what a hook is about to read has the epoch *)
(* it knows, or begins with epoch_changed.                                  *)
OneEpoch(w) == \A i \in 1 .. Len(w) : w[i].epoch = Head(w).epoch

WireFollows(k, c) ==
    LET known(e) == lastEpoch[k] \in {0, e}
    IN  /\ phase[c] = "opening" => wire[c] = <<>> /\ request[c].lastEpoch = lastEpoch[k]
        /\ wire[c] # <<>> =>
              /\ Head(wire[c]).type = "epoch_changed" \/ known(Head(wire[c]).epoch)
              /\ OneEpoch(wire[c])
              /\ home[c] # None => Head(wire[c]).epoch = epoch[home[c]]
        /\ phase[c] # "opening" /\ wire[c] = <<>> /\ home[c] # None => known(epoch[home[c]])

HooksFollow == \A k \in Clients : conn[k] # None => WireFollows(k, conn[k])

ResumeInv == ResumeTypeOK /\ ReadersApart /\ HandedAsAsked /\ HooksFollow

(* Why ResumeComplete is kept, when there is one process: its epochs follow *)
(* one another in the stream, and what it has not dispatched is of its own. *)
EpochsInOrder ==
    /\ \A p \in Procs : Up(p) => epoch[p] = boots
    /\ \A r \in publishing : Up(r.proc) /\ r.epoch = epoch[r.proc]
    /\ \A n \in 1 .. Len(stream) : stream[n].epoch <= boots
    /\ \A m, n \in 1 .. Len(stream) : m <= n => stream[m].epoch <= stream[n].epoch
    /\ \A p \in Procs : Up(p) =>
          \A n \in done[p] + 1 .. Len(stream) : stream[n].epoch = epoch[p]

(* The number and the epoch a client resumes with are those of one entry.   *)
InStream(ch, seq, e) ==
    \E m \in 1 .. Len(stream) : stream[m] = [channel |-> ch, seq |-> seq, epoch |-> e]

ResumePoints ==
    /\ \A c \in SSEConns :
          /\ home[c] # None => \A i \in 1 .. Len(Handed(c)) :
                stream[Handed(c)[i]].epoch = epoch[home[c]]
          /\ \A i \in 1 .. Len(wire[c]) :
                wire[c][i].type = "event" => stream[wire[c][i].position].epoch = wire[c][i].epoch
          /\ request[c].lastSeq # 0 =>
                InStream(request[c].channel, request[c].lastSeq, request[c].lastEpoch)
    /\ \A k \in Clients :
          lastSeq[k] # 0 => InStream(channelOf[k], lastSeq[k], lastEpoch[k])

(* What came before the subscription was replayed, and what the dispatch    *)
(* handed over and left the queue was written.                              *)
Resumes(c) ==
    /\ phase[c] = "live" /\ home[c] # None
    /\ request[c].lastSeq # 0 /\ request[c].lastEpoch = epoch[home[c]]

ReplayedBefore ==
    \A c \in SSEConns :
        /\ \A ch \in Channels : joined[c][ch] <= Len(stream)
        /\ home[c] # None => \A i \in 1 .. Len(received[c]) : received[c][i] \in written[c]
        /\ Resumes(c) =>
              \A n \in trimmed + 1 .. joined[c][request[c].channel] :
                  MissedSince(request[c], n) => n \in written[c]
-----------------------------------------------------------------------------
(* Every step of the endpoint and the hook is one of the fan-out, or none.  *)
LEMMA StepOfStream == [ResumeNext]_resumeVars => [Next]_vars
<1> SUFFICES ASSUME [ResumeNext]_resumeVars PROVE [Next]_vars
    OBVIOUS
<1>1. CASE ServerStep
    BY <1>1 DEF ServerStep, Next
<1>2. ASSUME NEW c \in SSEConns, StartStream(c) \/ ReplayBacklog(c) PROVE [Next]_vars
    BY <1>2 DEF StartStream, ReplayBacklog, vars
<1>3. ASSUME NEW c \in SSEConns, WriteLive(c) PROVE Next
    BY <1>3 DEF WriteLive, Next, Conns
<1>4. ASSUME NEW c \in SSEConns, NEW p \in Procs, EndStream(p, c) PROVE Next
    BY <1>4 DEF EndStream, Next, Conns
<1>5. ASSUME NEW c \in SSEConns, NEW p \in Procs, NEW k \in Clients, Connect(k, p, c)
      PROVE  Next
    <2>1. {channelOf[k]} \in SUBSET Channels /\ c \in Conns
        BY ResumeAssumption DEF Conns
    <2>2. OpenSSE(p, c, {channelOf[k]})
        BY <1>5 DEF Connect
    <2> QED
        BY <2>1, <2>2, Zenon DEF Next
<1>6. ASSUME NEW k \in Clients, OnMessage(k) \/ OnError(k) \/ \E e \in refetching[k] : Refetched(k, e)
      PROVE  [Next]_vars
    BY <1>6 DEF OnMessage, OnError, Refetched, vars
<1>7. CASE UNCHANGED resumeVars
    BY <1>7 DEF resumeVars
<1> QED
    BY <1>1, <1>2, <1>3, <1>4, <1>5, <1>6, <1>7 DEF ResumeNext

(* The composition of endpoint, hook and fan-out behaves as the fan-out     *)
(* does, so each theorem about the fan-out is one about the composition.    *)
THEOREM ResumeImplementsStream == ResumeSpec => Spec
<1>1. ResumeInit => Init
    BY DEF ResumeInit
<1> QED
    BY <1>1, StepOfStream, PTL DEF ResumeSpec, Spec

(* What the fan-out guarantees its endpoint.                                *)
ServerInv == StreamInv /\ HandedSoFar

LEMMA ServerAlways == ResumeSpec => []ServerInv
<1>1. Init => HandedSoFar /\ InStreamOrder
    BY OrderInit
<1> QED
    BY <1>1, OrderStep, StreamInvariant, ResumeImplementsStream, PTL DEF Spec, ServerInv

-----------------------------------------------------------------------------
(* The process of a connection dispatches an entry to it.                   *)
Serves(c) ==
    \E p \in Procs :
        /\ home[c] = p
        /\ done[p] < group[p]
        /\ stream[done[p] + 1].channel \in connChannels[c]
        /\ Handed(c)' = Append(Handed(c), done[p] + 1)

(* Connections go, but come only by Connect, and are written to only by     *)
(* WriteLive.                                                               *)
ConnsKept ==
    /\ used' = used /\ joined' = joined
    /\ \A c \in Conns :
          /\ home'[c] \in {home[c], None}
          /\ connChannels'[c] \subseteq connChannels[c]
          /\ home'[c] # None =>
                /\ epoch'[home[c]] = epoch[home[c]]
                /\ received'[c] = received[c]
                /\ Handed(c)' = Handed(c) \/ Serves(c)

LEMMA ServerKeeps ==
    ASSUME ServerInv, ServerStep
    PROVE  ConnsKept
<1> USE DEF redisVars, procVars, connVars
<1>1. TypeOK /\ HandedSoFar
    BY DEF ServerInv, StreamInv
<1>2. ASSUME UNCHANGED connVars, \A p \in Procs : Up(p) => epoch'[p] = epoch[p]
      PROVE  ConnsKept
    <2>1. \A c \in Conns : Handed(c)' = Handed(c)
        BY <1>2 DEF Handed
    <2>2. \A c \in Conns : home[c] # None => home[c] \in Procs /\ Up(home[c])
        BY <1>1 DEF TypeOK, HandedSoFar
    <2> QED
        BY <1>2, <2>1, <2>2 DEF ConnsKept
<1>3. ASSUME NEW p \in Procs, Boot(p) PROVE ConnsKept
    <2>1. \A q \in Procs : Up(q) => epoch'[q] = epoch[q]
        BY <1>1, <1>3 DEF Boot, TypeOK
    <2> QED
        BY <1>2, <1>3, <2>1 DEF Boot
<1>4. ASSUME NEW p \in Procs, Crash(p) PROVE ConnsKept
    <2>1. used' = used /\ joined' = joined
        BY <1>4 DEF Crash
    <2>2. ASSUME NEW c \in Conns PROVE home'[c] \in {home[c], None}
                                       /\ connChannels'[c] \subseteq connChannels[c]
        BY <1>4 DEF Crash
    <2>3. ASSUME NEW c \in Conns, home'[c] # None
          PROVE  /\ epoch'[home[c]] = epoch[home[c]]
                 /\ received'[c] = received[c]
                 /\ Handed(c)' = Handed(c)
        <3>1. home[c] # p /\ home[c] # None
            BY <1>4, <2>3 DEF Crash
        <3>2. received'[c] = received[c] /\ queue'[c] = queue[c]
            BY <1>4, <3>1 DEF Crash
        <3>3. epoch'[home[c]] = epoch[home[c]]
            BY <1>1, <1>4, <3>1 DEF Crash, TypeOK
        <3> QED
            BY <3>2, <3>3 DEF Handed
    <2> QED
        BY <2>1, <2>2, <2>3 DEF ConnsKept
<1>5. ASSUME NEW p \in Procs, HandleEntry(p) PROVE ConnsKept
    <2>1. /\ current[p] = Idle /\ done[p] < group[p]
          /\ UNCHANGED <<epoch, home, received, used, joined>>
        BY <1>5 DEF HandleEntry
    <2>2. PICK got \in SUBSET Conns, rest \in SUBSET Conns, cs \in SUBSET Conns :
              Hands(p, got, rest, cs)
        BY <1>5, HandleEntryHands DEF ServerInv
    <2>3. Serving(p) = subscribers[p][stream[done[p] + 1].channel]
        BY <2>1 DEF Serving
    <2>4. ASSUME NEW c \in Conns PROVE connChannels'[c] \subseteq connChannels[c]
        BY <2>2 DEF Hands, FinishEntry, DropFromRegistry, SuspendIn
    <2>5. ASSUME NEW c \in Conns PROVE Handed(c)' = Handed(c) \/ Serves(c)
        <3>1. CASE c \in got
            <4>1. c \in subscribers[p][stream[done[p] + 1].channel] /\ home[c] = p
                BY <2>2, <2>3, <3>1 DEF Hands
            <4>2. stream[done[p] + 1].channel \in Channels
                BY <2>1, <1>1, SnapshotType DEF ServerInv, StreamInv
            <4>3. stream[done[p] + 1].channel \in connChannels[c]
                BY <4>1, <4>2 DEF ServerInv, StreamInv, RegistryConsistent
            <4>4. Handed(c)' = Append(Handed(c), done[p] + 1)
                BY <2>2, <3>1 DEF Hands
            <4> QED
                BY <2>1, <4>1, <4>3, <4>4 DEF Serves
        <3>2. CASE c \notin got
            BY <2>2, <3>2 DEF Hands
        <3> QED
            BY <3>1, <3>2
    <2> QED
        BY <2>1, <2>4, <2>5 DEF ConnsKept
<1>6. ASSUME NEW p \in Procs, XReadGroup(p) PROVE ConnsKept
    BY <1>2, <1>6 DEF XReadGroup
<1>7. ASSUME NEW p \in Procs, NEW ch \in Channels, Publish(p, ch) \/ CatchUp(p, ch)
      PROVE  ConnsKept
    BY <1>2, <1>7 DEF Publish, CatchUp
<1>8. ASSUME NEW r \in publishing, XAdd(r) \/ PublishError(r) PROVE ConnsKept
    BY <1>2, <1>8 DEF XAdd, PublishError
<1> QED
    BY <1>3, <1>4, <1>5, <1>6, <1>7, <1>8 DEF ServerStep

LEMMA CloseKeeps ==
    ASSUME ServerInv, NEW p \in Procs, NEW d \in SSEConns, EndStream(p, d)
    PROVE  ConnsKept
<1> USE DEF connVars, redisVars, procVars
<1>1. /\ UNCHANGED <<epoch, used, joined>>
      /\ home' = [home EXCEPT ![d] = None]
      /\ queue' = [queue EXCEPT ![d] = <<>>]
      /\ received' = [received EXCEPT ![d] = <<>>]
      /\ connChannels' = [c \in Conns |-> IF c \in {d} THEN {} ELSE connChannels[c]]
      /\ TypeOK
    BY DEF EndStream, Close, DropFromRegistry, ServerInv, StreamInv
<1>2. ASSUME NEW c \in Conns PROVE home'[c] \in {home[c], None}
                                   /\ connChannels'[c] \subseteq connChannels[c]
    BY <1>1 DEF TypeOK
<1>3. ASSUME NEW c \in Conns, home'[c] # None
      PROVE  received'[c] = received[c] /\ Handed(c)' = Handed(c)
    BY <1>1, <1>3 DEF TypeOK, Handed
<1> QED
    BY <1>1, <1>2, <1>3 DEF ConnsKept

-----------------------------------------------------------------------------
(* TYPES                                                                    *)

LEMMA ResumeInit0 == ResumeInit => ResumeInv
<1> SUFFICES ASSUME ResumeInit PROVE ResumeInv
    OBVIOUS
<1>1. \A c \in SSEConns : wire[c] = <<>> /\ phase[c] = "none"
    BY DEF ResumeInit
<1>2. ResumeTypeOK
    BY ResumeAssumption DEF ResumeInit, ResumeTypeOK
<1>3. ReadersApart
    BY DEF ResumeInit, ReadersApart
<1>4. HandedAsAsked
    <2>1. \A c \in SSEConns : connChannels[c] = {} /\ home[c] = None
        BY DEF ResumeInit, Init, Conns
    <2>2. \A c \in SSEConns : Len(wire[c]) = 0
        BY <1>1
    <2> QED
        BY <2>1, <2>2 DEF HandedAsAsked
<1>5. HooksFollow
    BY DEF ResumeInit, HooksFollow
<1> QED
    BY <1>2, <1>3, <1>4, <1>5 DEF ResumeInv

(* What comes first in the queue was handed over.                           *)
LEMMA QueueHead ==
    ASSUME TypeOK, NEW c \in Conns, queue[c] # <<>>
    PROVE  \E i \in 1 .. Len(Handed(c)) : Handed(c)[i] = Head(queue[c])
<1> DEFINE r == received[c]
           q == queue[c]
<1>1. r \in Seq(Nat) /\ q \in Seq(Nat) /\ q # <<>>
    BY DEF TypeOK
<1> HIDE DEF r, q
<1>2. Len(r) + 1 \in 1 .. Len(r \o q) /\ (r \o q)[Len(r) + 1] = Head(q)
    BY <1>1
<1> QED
    BY <1>2 DEF Handed, r, q

(* The messages that carry the entries of a backlog.                        *)
Carry(s, e) == [i \in DOMAIN s |-> EventAt(s[i], e)]

Carries(t, ns, e) ==
    /\ t \in Seq(Message)
    /\ \A i \in 1 .. Len(t) : t[i].position \in ns /\ t[i].epoch = e

LEMMA CarryType ==
    ASSUME NEW n \in Nat, NEW ns \in SUBSET (1 .. n), NEW s \in InOrder(ns), NEW e \in Nat
    PROVE  Carries(Carry(s, e), ns, e)
<1>1. IsFiniteSet(ns)
    BY FS_Interval, FS_Subset, 1 \in Int, n \in Int
<1>2. Cardinality(ns) \in Nat
    BY <1>1, FS_CardinalityType
<1>3. s \in [1 .. Cardinality(ns) -> ns]
    BY DEF InOrder
<1>4. \A m \in ns : m \in Nat
    OBVIOUS
<1>5. Carry(s, e) \in [1 .. Cardinality(ns) -> Message]
    BY <1>3, <1>4 DEF Carry, EventAt, Message
<1>6. Carry(s, e) \in Seq(Message) /\ Len(Carry(s, e)) = Cardinality(ns)
    BY <1>2, <1>5
<1> QED
    BY <1>3, <1>6 DEF Carries, Carry, EventAt

(* What a step may do to what is on its way to a client.                    *)
LEMMA Elements ==
    ASSUME NEW S, NEW w \in Seq(S)
    PROVE  /\ w # <<>> => /\ Head(w) = w[1] /\ Head(w) \in S /\ 1 \in 1 .. Len(w)
                          /\ Tail(w) \in Seq(S)
                          /\ \A i \in 1 .. Len(Tail(w)) :
                                i + 1 \in 1 .. Len(w) /\ Tail(w)[i] = w[i + 1]
           /\ \A t \in Seq(S) : 
                /\ w \o t \in Seq(S)
                /\ \A i \in 1 .. Len(w \o t) :
                     \/ i \in 1 .. Len(w) /\ (w \o t)[i] = w[i]
                     \/ i - Len(w) \in 1 .. Len(t) /\ (w \o t)[i] = t[i - Len(w)]
                /\ w = <<>> => w \o t = t
                /\ w # <<>> => w \o t # <<>> /\ Head(w \o t) = Head(w)
           /\ \A x \in S : 
                /\ Append(w, x) \in Seq(S) /\ Append(w, x) # <<>>
                /\ \A i \in 1 .. Len(Append(w, x)) :
                     \/ i \in 1 .. Len(w) /\ Append(w, x)[i] = w[i]
                     \/ Append(w, x)[i] = x
                /\ w = <<>> => Head(Append(w, x)) = x
                /\ w # <<>> => Head(Append(w, x)) = Head(w)
<1>1. w # <<>> => /\ Head(w) = w[1] /\ Head(w) \in S /\ 1 \in 1 .. Len(w)
                  /\ Tail(w) \in Seq(S)
                  /\ \A i \in 1 .. Len(Tail(w)) :
                        i + 1 \in 1 .. Len(w) /\ Tail(w)[i] = w[i + 1]
    OBVIOUS
<1>2. ASSUME NEW t \in Seq(S)
      PROVE  /\ w \o t \in Seq(S)
             /\ \A i \in 1 .. Len(w \o t) :
                  \/ i \in 1 .. Len(w) /\ (w \o t)[i] = w[i]
                  \/ i - Len(w) \in 1 .. Len(t) /\ (w \o t)[i] = t[i - Len(w)]
             /\ w = <<>> => w \o t = t
             /\ w # <<>> => w \o t # <<>> /\ Head(w \o t) = Head(w)
    OBVIOUS
<1>3. ASSUME NEW x \in S
      PROVE  /\ Append(w, x) \in Seq(S) /\ Append(w, x) # <<>>
             /\ \A i \in 1 .. Len(Append(w, x)) :
                  \/ i \in 1 .. Len(w) /\ Append(w, x)[i] = w[i]
                  \/ Append(w, x)[i] = x
             /\ w = <<>> => Head(Append(w, x)) = x
             /\ w # <<>> => Head(Append(w, x)) = Head(w)
    OBVIOUS
<1> QED
    BY <1>1, <1>2, <1>3

LEMMA TypesKept ==
    ASSUME ServerInv, ResumeInv, [ResumeNext]_resumeVars
    PROVE  ResumeTypeOK'
<1> USE DEF endpointVars, clientVars, Conns
<1>0. /\ ResumeTypeOK /\ TypeOK /\ TypeOK'
    BY StepOfStream, TypeStep DEF ResumeInv, ServerInv, StreamInv
<1>1. Longer
    BY <1>0, StepOfStream, StreamLonger
<1>2. 1 .. Len(stream) \subseteq 1 .. Len(stream')
    BY <1>0, <1>1 DEF Longer, TypeOK
<1>3. \A ns \in SUBSET (1 .. Len(stream)) : ns \in SUBSET (1 .. Len(stream'))
    BY <1>2
<1>4. written \in [SSEConns -> SUBSET (1 .. Len(stream'))]
    BY <1>0, <1>3 DEF ResumeTypeOK
<1>5. \A c \in SSEConns : home[c] # None => epoch[home[c]] \in Nat
    BY <1>0 DEF TypeOK
<1>6. CASE UNCHANGED <<endpointVars, clientVars>>
    BY <1>0, <1>4, <1>6 DEF ResumeTypeOK
<1>7. ASSUME NEW k \in Clients, NEW p \in Procs, NEW c \in SSEConns, Connect(k, p, c)
      PROVE  ResumeTypeOK'
    <2>1. [channel |-> channelOf[k], lastSeq |-> lastSeq[k], lastEpoch |-> lastEpoch[k]]
             \in [channel : Channels \cup {None}, lastSeq : Nat, lastEpoch : Nat]
        BY <1>0, ResumeAssumption DEF ResumeTypeOK
    <2> QED
        BY <1>0, <1>4, <1>7, <2>1 DEF Connect, ResumeTypeOK
<1>8. ASSUME NEW c \in SSEConns, StartStream(c) PROVE ResumeTypeOK'
    <2>1. EpochChanged(epoch[home[c]]) \in Message
        BY <1>5, <1>8 DEF StartStream, EpochChanged, Message
    <2>2. wire' \in [SSEConns -> Seq(Message)]
        <3>1. Append(wire[c], EpochChanged(epoch[home[c]])) \in Seq(Message)
            BY <1>0, <2>1 DEF ResumeTypeOK
        <3>2. \/ wire' = wire
              \/ wire' = [wire EXCEPT ![c] = Append(@, EpochChanged(epoch[home[c]]))]
            BY <1>8 DEF StartStream
        <3> QED
            BY <1>0, <3>1, <3>2 DEF ResumeTypeOK
    <2>3. phase' \in [SSEConns -> {"none", "opening", "replaying", "live"}]
        BY <1>0, <1>8 DEF StartStream, ResumeTypeOK
    <2> QED
        BY <1>0, <1>4, <1>8, <2>2, <2>3 DEF StartStream, ResumeTypeOK
<1>9. ASSUME NEW c \in SSEConns, ReplayBacklog(c) PROVE ResumeTypeOK'
    <2> DEFINE missed == Backlog(home[c], request[c].channel, request[c].lastSeq)
               here == epoch[home[c]]
    <2>1. PICK s \in InOrder(missed) : wire' = [wire EXCEPT ![c] = @ \o Carry(s, here)]
        BY <1>9 DEF ReplayBacklog, Carry
    <2>2. missed \in SUBSET (1 .. Len(stream)) /\ Len(stream) \in Nat
        <3>1. home[c] \in Procs
            BY <1>0, <1>9 DEF ReplayBacklog, TypeOK
        <3>2. request[c].lastSeq \in Nat /\ Len(stream) \in Nat
            BY <1>0 DEF ResumeTypeOK, TypeOK
        <3> QED
            BY <1>0, <3>1, <3>2, BacklogType
    <2>3. here \in Nat
        BY <1>5, <1>9 DEF ReplayBacklog
    <2> HIDE DEF missed, here
    <2>4. Carry(s, here) \in Seq(Message)
        BY <2>2, <2>3, CarryType DEF Carries
    <2>5. wire[c] \o Carry(s, here) \in Seq(Message)
        BY <1>0, <2>4 DEF ResumeTypeOK
    <2>6. wire' \in [SSEConns -> Seq(Message)]
        BY <1>0, <2>1, <2>5 DEF ResumeTypeOK
    <2>7. written' = [written EXCEPT ![c] = @ \cup missed]
        BY <1>9 DEF ReplayBacklog, missed
    <2>8. written' \in [SSEConns -> SUBSET (1 .. Len(stream'))]
        BY <1>3, <1>4, <2>2, <2>7
    <2> QED
        BY <1>0, <1>9, <2>6, <2>8 DEF ReplayBacklog, ResumeTypeOK
<1>10. ASSUME NEW c \in SSEConns, WriteLive(c) PROVE ResumeTypeOK'
    <2>1. home[c] # None /\ queue[c] # <<>>
        BY <1>10 DEF WriteLive, WriteSSE
    <2>2. Head(queue[c]) \in 1 .. Len(stream)
        BY <1>0, <2>1, QueueHead DEF ResumeInv, HandedAsAsked, Asked
    <2>3. EventAt(Head(queue[c]), epoch[home[c]]) \in Message
        BY <1>5, <2>1, <2>2 DEF EventAt, Message
    <2>4. wire' \in [SSEConns -> Seq(Message)]
        BY <1>0, <1>10, <2>3 DEF WriteLive, ResumeTypeOK
    <2>5. written' \in [SSEConns -> SUBSET (1 .. Len(stream'))]
        BY <1>2, <1>4, <1>10, <2>2 DEF WriteLive
    <2> QED
        BY <1>0, <1>10, <2>4, <2>5 DEF WriteLive, ResumeTypeOK
<1>11. ASSUME NEW k \in Clients, OnMessage(k) PROVE ResumeTypeOK'
    <2> DEFINE c == conn[k]
               m == Head(wire[c])
    <2>1. c \in SSEConns /\ wire[c] \in Seq(Message) /\ wire[c] # <<>>
        BY <1>0, <1>11 DEF OnMessage, ResumeTypeOK
    <2>2. m \in Message /\ Tail(wire[c]) \in Seq(Message) /\ m = wire[c][1] /\ 1 \in 1 .. Len(wire[c])
        BY <2>1, Elements
    <2>3. m.type = "event" => stream[m.position].seq \in Nat
        <3>1. m.type = "event" => m.position \in 1 .. Len(stream)
            BY <2>1, <2>2 DEF ResumeInv, HandedAsAsked, Asked
        <3> QED
            BY <1>0, <3>1, EntryType
    <2> HIDE DEF c, m
    <2>4. m.epoch \in Nat /\ m.type \in {"event", "epoch_changed"}
        BY <2>2 DEF Message
    <2>5. wire' \in [SSEConns -> Seq(Message)]
        BY <1>0, <1>11, <2>2 DEF OnMessage, ResumeTypeOK, c, m
    <2>6. lastEpoch' \in [Clients -> Nat]
        BY <1>0, <1>11, <2>4 DEF OnMessage, ResumeTypeOK, c, m
    <2>7. /\ lastSeq' \in [Clients -> Nat]
          /\ refetching' \in [Clients -> SUBSET Nat]
          /\ synced' \in [Clients -> SUBSET Nat]
        <3>0. /\ refetching[k] \cup {m.epoch} \in SUBSET Nat
              /\ synced[k] \cup {m.epoch} \in SUBSET Nat
            BY <1>0, <2>4 DEF ResumeTypeOK
        <3>1. CASE m.type = "epoch_changed"
            <4>1. /\ lastSeq' = [lastSeq EXCEPT ![k] = 0]
                  /\ refetching' = [refetching EXCEPT ![k] = @ \cup {m.epoch}]
                  /\ synced' = synced
                BY <1>11, <3>1 DEF OnMessage, c, m
            <4> QED
                BY <1>0, <3>0, <4>1 DEF ResumeTypeOK
        <3>2. CASE m.type = "event"
            <4>1. /\ lastSeq' = [lastSeq EXCEPT ![k] = stream[m.position].seq]
                  /\ \/ synced' = synced
                     \/ synced' = [synced EXCEPT ![k] = @ \cup {m.epoch}]
                  /\ refetching' = refetching
                BY <1>11, <3>2 DEF OnMessage, c, m
            <4> QED
                BY <1>0, <2>3, <3>0, <3>2, <4>1 DEF ResumeTypeOK
        <3> QED
            BY <2>4, <3>1, <3>2
    <2> QED
        BY <1>0, <1>4, <1>11, <2>5, <2>6, <2>7 DEF OnMessage, ResumeTypeOK
<1>12. ASSUME NEW k \in Clients, OnError(k) PROVE ResumeTypeOK'
    BY <1>0, <1>4, <1>12 DEF OnError, ResumeTypeOK
<1>13. ASSUME NEW k \in Clients, NEW e \in refetching[k], Refetched(k, e) PROVE ResumeTypeOK'
    <2>1. e \in Nat
        BY <1>0 DEF ResumeTypeOK
    <2> QED
        BY <1>0, <1>4, <1>13, <2>1 DEF Refetched, ResumeTypeOK
<1>14. ASSUME NEW c \in SSEConns, NEW p \in Procs, EndStream(p, c) PROVE ResumeTypeOK'
    BY <1>6, <1>14 DEF EndStream
<1> QED
    BY <1>6, <1>7, <1>8, <1>9, <1>10, <1>11, <1>12, <1>13, <1>14
       DEF ResumeNext, ServerStep, resumeVars

(* Steps that leave the fan-out alone keep the connections too.             *)
LEMMA NothingServed ==
    ASSUME UNCHANGED vars
    PROVE  ConnsKept
<1>1. \A c \in Conns : Handed(c)' = Handed(c)
    BY DEF vars, Handed
<1> QED
    BY <1>1 DEF vars, ConnsKept

-----------------------------------------------------------------------------
(* READERS                                                                  *)

LEMMA ReadersKept ==
    ASSUME ServerInv, ResumeInv, [ResumeNext]_resumeVars
    PROVE  ReadersApart'
<1> USE DEF endpointVars, clientVars, Conns
<1>0. ResumeTypeOK /\ ReadersApart /\ DispatchRefersToOwn /\ None \notin SSEConns
    BY ConstantsAssumption DEF ResumeInv, ServerInv, StreamInv
<1>1. ASSUME UNCHANGED <<wire, conn, request, used>> PROVE ReadersApart'
    BY <1>0, <1>1 DEF ReadersApart
<1>2. CASE ServerStep
    BY <1>1, <1>2, ServerKeeps DEF ServerStep, ConnsKept
<1>3. ASSUME NEW k \in Clients, NEW p \in Procs, NEW c \in SSEConns, Connect(k, p, c)
      PROVE  ReadersApart'
    <2>1. /\ used' = used \cup {c} /\ c \notin used
          /\ conn' = [conn EXCEPT ![k] = c] /\ conn[k] = None
          /\ wire' = wire
          /\ request' = [request EXCEPT ![c] = [channel |-> channelOf[k],
                             lastSeq |-> lastSeq[k], lastEpoch |-> lastEpoch[k]]]
        BY <1>3 DEF Connect, OpenSSE, Opens
    <2>2. \A l \in Clients : conn[l] # None => conn[l] # c /\ conn[l] \in SSEConns
        BY <1>0, <2>1 DEF ReadersApart, ResumeTypeOK
    <2>3. ASSUME NEW l \in Clients, conn'[l] # None
          PROVE  conn'[l] \in used' /\ request'[conn'[l]].channel = channelOf[l]
        <3>1. CASE l = k
            BY <1>0, <2>1, <3>1 DEF ResumeTypeOK
        <3>2. CASE l # k
            BY <1>0, <2>1, <2>2, <2>3, <3>2 DEF ResumeTypeOK, ReadersApart
        <3> QED
            BY <3>1, <3>2
    <2>4. ASSUME NEW l \in Clients, NEW m \in Clients, conn'[l] # None, conn'[l] = conn'[m]
          PROVE  l = m
        BY <1>0, <2>1, <2>2, <2>4 DEF ResumeTypeOK, ReadersApart
    <2>5. \A d \in SSEConns \ used' : wire'[d] = <<>>
        BY <1>0, <2>1 DEF ReadersApart
    <2> QED
        BY <2>3, <2>4, <2>5 DEF ReadersApart
<1>4. ASSUME NEW c \in SSEConns, c \in used, \A d \in SSEConns \ {c} : wire'[d] = wire[d],
             UNCHANGED <<conn, request, used>>
      PROVE  ReadersApart'
    BY <1>0, <1>4 DEF ReadersApart
<1>5. ASSUME NEW c \in SSEConns, StartStream(c) \/ ReplayBacklog(c) \/ WriteLive(c)
      PROVE  ReadersApart'
    <2>1. c \in used
        BY <1>0, <1>5 DEF StartStream, ReplayBacklog, WriteLive, WriteSSE, DispatchRefersToOwn
    <2>2. \A d \in SSEConns \ {c} : wire'[d] = wire[d]
        BY <1>0, <1>5 DEF StartStream, ReplayBacklog, WriteLive, ResumeTypeOK
    <2> QED
        BY <1>4, <1>5, <2>1, <2>2 DEF StartStream, ReplayBacklog, WriteLive, WriteSSE, vars
<1>6. ASSUME NEW k \in Clients, OnMessage(k) PROVE ReadersApart'
    <2>1. conn[k] \in SSEConns /\ conn[k] \in used
        BY <1>0, <1>6 DEF OnMessage, ResumeTypeOK, ReadersApart
    <2>2. \A d \in SSEConns \ {conn[k]} : wire'[d] = wire[d]
        BY <1>0, <1>6 DEF OnMessage, ResumeTypeOK
    <2> QED
        BY <1>4, <1>6, <2>1, <2>2 DEF OnMessage, vars
<1>7. ASSUME NEW k \in Clients, OnError(k) PROVE ReadersApart'
    <2>1. /\ conn' = [conn EXCEPT ![k] = None]
          /\ wire' = [wire EXCEPT ![conn[k]] = <<>>]
          /\ UNCHANGED <<used, request>>
        BY <1>7 DEF OnError, vars
    <2> QED
        BY <1>0, <2>1 DEF ReadersApart, ResumeTypeOK
<1>8. ASSUME NEW k \in Clients, NEW e \in refetching[k], Refetched(k, e) PROVE ReadersApart'
    BY <1>1, <1>8 DEF Refetched, vars
<1>9. ASSUME NEW c \in SSEConns, NEW p \in Procs, EndStream(p, c) PROVE ReadersApart'
    BY <1>1, <1>9 DEF EndStream, Close
<1>10. CASE UNCHANGED resumeVars
    BY <1>1, <1>10 DEF resumeVars, vars
<1> QED
    BY <1>2, <1>3, <1>5, <1>6, <1>7, <1>8, <1>9, <1>10 DEF ResumeNext

-----------------------------------------------------------------------------
(* CHANNELS                                                                 *)

(* What was asked for stays so while the request does.                      *)
AskedNext(c, n) == n \in 1 .. Len(stream') /\ stream'[n].channel = request'[c].channel

LEMMA AskedStays ==
    ASSUME TypeOK, Longer, NEW c, NEW n, Asked(c, n), request'[c] = request[c],
           Len(stream') \in Nat
    PROVE  AskedNext(c, n)
<1>1. Len(stream) \in Nat /\ n \in 1 .. Len(stream) /\ n \in 1 .. Len(stream')
    BY DEF Longer, TypeOK, Asked
<1> QED
    BY <1>1 DEF Longer, Asked, AskedNext

HandedNext(c) ==
    /\ connChannels'[c] \subseteq {request'[c].channel}
    /\ home'[c] # None => \A i \in 1 .. Len(Handed(c)') : AskedNext(c, Handed(c)'[i])

WireNext(c) ==
    \A i \in 1 .. Len(wire'[c]) :
        wire'[c][i].type = "event" => AskedNext(c, wire'[c][i].position)

LEMMA HandedStays ==
    ASSUME ServerInv, ResumeInv, Longer, ConnsKept, Len(stream') \in Nat,
           NEW c \in SSEConns, request'[c] = request[c]
    PROVE  HandedNext(c)
<1> USE DEF Conns
<1>0. TypeOK /\ BatchInStream /\ HandedAsAsked /\ c \in Conns /\ None \notin Procs
    BY ConstantsAssumption DEF ServerInv, StreamInv, ResumeInv
<1>1. connChannels'[c] \subseteq {request'[c].channel}
    BY <1>0 DEF ConnsKept, HandedAsAsked
<1>2. ASSUME home'[c] # None, NEW i \in 1 .. Len(Handed(c)')
      PROVE  AskedNext(c, Handed(c)'[i])
    <2>1. home[c] # None /\ (Handed(c)' = Handed(c) \/ Serves(c))
        BY <1>0, <1>2 DEF ConnsKept
    <2>2. \A n : Asked(c, n) => AskedNext(c, n)
        BY <1>0, AskedStays
    <2>3. CASE Handed(c)' = Handed(c)
        BY <1>0, <1>2, <2>1, <2>2, <2>3 DEF HandedAsAsked
    <2>4. CASE Serves(c)
        <3>1. PICK p \in Procs : /\ home[c] = p /\ done[p] < group[p]
                                 /\ stream[done[p] + 1].channel \in connChannels[c]
                                 /\ Handed(c)' = Append(Handed(c), done[p] + 1)
            BY <2>4 DEF Serves
        <3>2. Asked(c, done[p] + 1)
            BY <1>0, <3>1 DEF TypeOK, BatchInStream, HandedAsAsked, Asked
        <3>3. Handed(c) \in Seq(Nat)
            BY <1>0, HandedType
        <3> done[p] + 1 \in Nat
            BY <1>0 DEF TypeOK
        <3>4. \/ i \in 1 .. Len(Handed(c)) /\ Handed(c)'[i] = Handed(c)[i]
              \/ Handed(c)'[i] = done[p] + 1
            BY <1>2, <3>1, <3>3, Elements
        <3> QED
            BY <1>0, <2>1, <2>2, <3>2, <3>4 DEF HandedAsAsked
    <2> QED
        BY <2>1, <2>3, <2>4
<1> QED
    BY <1>1, <1>2 DEF HandedNext

(* A connection that is opened has been handed nothing.                     *)
LEMMA NothingBefore ==
    ASSUME ServerInv, NEW k \in Clients, NEW p \in Procs, NEW c \in SSEConns, Connect(k, p, c)
    PROVE  /\ home[c] = None /\ c \notin used
           /\ UNCHANGED <<received, queue, done, group, current, stream, trimmed, epoch>>
           /\ home' = [home EXCEPT ![c] = p] /\ used' = used \cup {c}
           /\ received[c] = <<>> /\ queue[c] = <<>>
           /\ connChannels'[c] \subseteq {channelOf[k]}
           /\ \A d \in Conns \ {c} : connChannels'[d] = connChannels[d]
<1> USE DEF Conns, redisVars
<1>1. /\ OpenSSE(p, c, {channelOf[k]}) /\ TypeOK /\ RegistryConsistent
      /\ DispatchRefersToOwn /\ HandedSoFar
    BY DEF Connect, ServerInv, StreamInv
<1>2. c \notin used /\ home[c] = None
    BY <1>1 DEF OpenSSE, Opens, DispatchRefersToOwn
<1>3. received[c] = <<>> /\ queue[c] = <<>>
    BY <1>1, <1>2 DEF HandedSoFar
<1>4. connChannels[c] = {}
    BY <1>1, <1>2 DEF RegistryConsistent
<1>5. PICK accepted \in SUBSET {channelOf[k]} :
            connChannels' = [connChannels EXCEPT ![c] = @ \cup accepted]
    BY <1>1 DEF OpenSSE, Subscribe
<1>6. connChannels \in [Conns -> SUBSET Channels]
    BY <1>1 DEF TypeOK
<1>7. /\ connChannels'[c] \subseteq {channelOf[k]}
      /\ \A d \in Conns \ {c} : connChannels'[d] = connChannels[d]
    BY <1>4, <1>5, <1>6
<1> QED
    BY <1>1, <1>2, <1>3, <1>7 DEF OpenSSE, Opens

LEMMA AskedKept ==
    ASSUME ServerInv, ResumeInv, [ResumeNext]_resumeVars
    PROVE  HandedAsAsked'
<1> USE DEF endpointVars, clientVars, Conns
<1>0. /\ ResumeTypeOK /\ TypeOK /\ HandedAsAsked /\ ReadersApart
      /\ None \notin SSEConns /\ BatchInStream /\ Len(stream') \in Nat
    <2>1. TypeOK /\ TypeOK'
        BY StepOfStream, TypeStep DEF ServerInv, StreamInv
    <2>2. Len(stream') \in Nat
        BY <2>1 DEF TypeOK
    <2> QED
        BY <2>1, <2>2, ConstantsAssumption DEF ResumeInv, ServerInv, StreamInv
<1>1. Longer
    BY <1>0, StepOfStream, StreamLonger
<1>2. SUFFICES ASSUME NEW d \in SSEConns PROVE HandedNext(d) /\ WireNext(d)
    BY DEF HandedNext, WireNext, AskedNext, HandedAsAsked, Asked
<1>3. \A n : Asked(d, n) /\ request'[d] = request[d] => AskedNext(d, n)
    BY <1>0, <1>1, AskedStays
<1>4. ASSUME request'[d] = request[d],
             \A i \in 1 .. Len(wire'[d]) :
                \/ \E j \in 1 .. Len(wire[d]) : wire'[d][i] = wire[d][j]
                \/ Asked(d, wire'[d][i].position)
                \/ wire'[d][i].type # "event"
      PROVE  WireNext(d)
    BY <1>0, <1>3, <1>4 DEF WireNext, HandedAsAsked
<1>5. ASSUME wire'[d] = wire[d], request'[d] = request[d] PROVE WireNext(d)
    BY <1>4, <1>5
<1>6. ASSUME ConnsKept, request' = request PROVE HandedNext(d)
    BY <1>0, <1>1, <1>6, HandedStays
<1>7. CASE ServerStep
    BY <1>5, <1>6, <1>7, ServerKeeps DEF ServerStep
<1>8. ASSUME NEW c \in SSEConns, NEW p \in Procs, EndStream(p, c)
      PROVE  HandedNext(d) /\ WireNext(d)
    BY <1>5, <1>6, <1>8, CloseKeeps DEF EndStream
<1>9. CASE UNCHANGED resumeVars
    BY <1>5, <1>6, <1>9, NothingServed DEF resumeVars
<1>10. ASSUME NEW k \in Clients, NEW e \in refetching[k], Refetched(k, e)
       PROVE  HandedNext(d) /\ WireNext(d)
    BY <1>5, <1>6, <1>10, NothingServed DEF Refetched
<1>11. ASSUME NEW k \in Clients, OnError(k) PROVE HandedNext(d) /\ WireNext(d)
    <2>1. wire'[d] = wire[d] \/ Len(wire'[d]) = 0
        BY <1>0, <1>11 DEF OnError, ResumeTypeOK
    <2> QED
        BY <1>4, <1>5, <1>6, <1>11, <2>1, NothingServed DEF OnError
<1>12. ASSUME NEW k \in Clients, OnMessage(k) PROVE HandedNext(d) /\ WireNext(d)
    <2>1. request' = request /\ UNCHANGED vars
        BY <1>12 DEF OnMessage
    <2>2. CASE d # conn[k]
        BY <1>0, <1>5, <1>6, <1>12, <2>1, <2>2, NothingServed DEF OnMessage, ResumeTypeOK
    <2>3. CASE d = conn[k]
        <3>1. wire'[d] = Tail(wire[d]) /\ wire[d] # <<>> /\ wire[d] \in Seq(Message)
            BY <1>0, <1>12, <2>3 DEF OnMessage, ResumeTypeOK
        <3>2. \A i \in 1 .. Len(wire'[d]) : i + 1 \in 1 .. Len(wire[d])
                                             /\ wire'[d][i] = wire[d][i + 1]
            BY <3>1, Elements
        <3> QED
            BY <1>4, <1>6, <2>1, <3>2, NothingServed
    <2> QED
        BY <2>2, <2>3
<1>13. ASSUME NEW c \in SSEConns, StartStream(c) PROVE HandedNext(d) /\ WireNext(d)
    <2>1. request' = request /\ UNCHANGED vars
        BY <1>13 DEF StartStream
    <2>2. CASE wire'[d] = wire[d]
        BY <1>5, <1>6, <2>1, <2>2, NothingServed
    <2>3. CASE wire'[d] # wire[d]
        <3>1. wire'[d] = Append(wire[d], EpochChanged(epoch[home[c]])) /\ home[c] # None
            BY <1>0, <1>13, <2>3 DEF StartStream, ResumeTypeOK
        <3>2. EpochChanged(epoch[home[c]]) \in Message
            BY <1>0, <3>1 DEF TypeOK, EpochChanged, Message
        <3>3. \A i \in 1 .. Len(wire'[d]) :
                 \/ i \in 1 .. Len(wire[d]) /\ wire'[d][i] = wire[d][i]
                 \/ wire'[d][i] = EpochChanged(epoch[home[c]])
            BY <1>0, <3>1, <3>2, Elements DEF ResumeTypeOK
        <3>4. EpochChanged(epoch[home[c]]).type # "event"
            BY DEF EpochChanged
        <3> QED
            BY <1>4, <1>6, <2>1, <3>3, <3>4, NothingServed
    <2> QED
        BY <2>2, <2>3
<1>14. ASSUME NEW c \in SSEConns, ReplayBacklog(c) PROVE HandedNext(d) /\ WireNext(d)
    <2> DEFINE missed == Backlog(home[c], request[c].channel, request[c].lastSeq)
               here == epoch[home[c]]
    <2>1. request' = request /\ UNCHANGED vars
        BY <1>14 DEF ReplayBacklog
    <2>2. PICK s \in InOrder(missed) : wire' = [wire EXCEPT ![c] = @ \o Carry(s, here)]
        BY <1>14 DEF ReplayBacklog, Carry
    <2>3. CASE d # c
        BY <1>0, <1>5, <1>6, <2>1, <2>2, <2>3, NothingServed DEF ResumeTypeOK
    <2>4. CASE d = c
        <3>1. home[c] \in Procs /\ Len(stream) \in Nat /\ here \in Nat
            BY <1>0, <1>14 DEF ReplayBacklog, TypeOK
        <3>2. request[c].lastSeq \in Nat
            BY <1>0 DEF ResumeTypeOK
        <3>3. missed \in SUBSET (1 .. Len(stream))
            BY <1>0, <3>1, <3>2, BacklogType
        <3>4. \A n \in missed : Asked(c, n)
            BY <3>3 DEF Backlog, Asked
        <3> HIDE DEF missed, here
        <3>5. /\ Carry(s, here) \in Seq(Message)
              /\ \A i \in 1 .. Len(Carry(s, here)) : Carry(s, here)[i].position \in missed
            BY <3>1, <3>3, CarryType DEF Carries
        <3>6. \A i \in 1 .. Len(Carry(s, here)) : Asked(d, Carry(s, here)[i].position)
            BY <2>4, <3>4, <3>5
        <3>7. wire'[d] = wire[d] \o Carry(s, here) /\ wire[d] \in Seq(Message)
            BY <1>0, <2>2, <2>4 DEF ResumeTypeOK
        <3>8. ASSUME NEW i \in 1 .. Len(wire'[d])
              PROVE  \/ \E j \in 1 .. Len(wire[d]) : wire'[d][i] = wire[d][j]
                     \/ Asked(d, wire'[d][i].position)
            <4> DEFINE t == Carry(s, here)
            <4>1. t \in Seq(Message) /\ wire'[d] = wire[d] \o t
                BY <3>5, <3>7
            <4>2. \A j \in 1 .. Len(t) : Asked(d, t[j].position)
                BY <3>6
            <4> HIDE DEF t
            <4>3. \/ i \in 1 .. Len(wire[d]) /\ wire'[d][i] = wire[d][i]
                  \/ i - Len(wire[d]) \in 1 .. Len(t) /\ wire'[d][i] = t[i - Len(wire[d])]
                BY <3>7, <4>1, Elements
            <4> QED
                BY <4>2, <4>3
        <3> QED
            BY <1>4, <1>6, <2>1, <3>8, NothingServed
    <2> QED
        BY <2>3, <2>4
<1>15. ASSUME NEW c \in SSEConns, WriteLive(c) PROVE HandedNext(d) /\ WireNext(d)
    <2>1. /\ WriteSSE(c) /\ request' = request
          /\ UNCHANGED <<stream, home, connChannels>>
        BY <1>15 DEF WriteLive, WriteSSE, redisVars
    <2>2. Handed(d)' = Handed(d)
        BY <1>0, <2>1, WriteKeepsHanded
    <2>3. HandedNext(d)
        BY <1>0, <1>3, <2>1, <2>2 DEF HandedNext, HandedAsAsked
    <2>4. CASE d # c
        BY <1>0, <1>5, <1>15, <2>1, <2>3, <2>4 DEF WriteLive, ResumeTypeOK
    <2>5. CASE d = c
        <3> DEFINE m == EventAt(Head(queue[c]), epoch[home[c]])
        <3>1. Asked(c, Head(queue[c]))
            BY <1>0, <2>1, QueueHead DEF HandedAsAsked, WriteSSE
        <3>2. m \in Message /\ m.position = Head(queue[c])
            BY <1>0, <2>1, <3>1 DEF WriteSSE, TypeOK, EventAt, Message, Asked
        <3>3. wire'[d] = Append(wire[d], m) /\ wire[d] \in Seq(Message)
            BY <1>0, <1>15, <2>5 DEF WriteLive, ResumeTypeOK
        <3> HIDE DEF m
        <3>4. \A i \in 1 .. Len(wire'[d]) :
                 \/ i \in 1 .. Len(wire[d]) /\ wire'[d][i] = wire[d][i]
                 \/ wire'[d][i] = m
            BY <3>2, <3>3, Elements
        <3> QED
            BY <1>4, <2>1, <2>3, <2>5, <3>1, <3>2, <3>4
    <2> QED
        BY <2>3, <2>4, <2>5
<1>16. ASSUME NEW k \in Clients, NEW p \in Procs, NEW c \in SSEConns, Connect(k, p, c)
       PROVE  HandedNext(d) /\ WireNext(d)
    <2>1. /\ home[c] = None /\ c \notin used
          /\ UNCHANGED <<received, queue, stream>>
          /\ home' = [home EXCEPT ![c] = p]
          /\ received[c] = <<>> /\ queue[c] = <<>>
          /\ connChannels'[c] \subseteq {channelOf[k]}
          /\ \A x \in Conns \ {c} : connChannels'[x] = connChannels[x]
        BY <1>16, NothingBefore
    <2>2. wire' = wire /\ wire[c] = <<>>
        BY <1>0, <1>16, <2>1 DEF Connect, ReadersApart
    <2>3. CASE d = c
        <3>1. request'[d].channel = channelOf[k]
            BY <1>0, <1>16, <2>3 DEF Connect, ResumeTypeOK
        <3>2. Len(Handed(d)') = 0 /\ Len(wire'[d]) = 0
            BY <2>1, <2>2, <2>3, NothingHanded DEF Handed
        <3> QED
            BY <2>1, <2>3, <3>1, <3>2 DEF HandedNext, WireNext
    <2>4. CASE d # c
        <3>1. request'[d] = request[d] /\ wire'[d] = wire[d]
            BY <1>0, <1>16, <2>2, <2>4 DEF Connect, ResumeTypeOK
        <3>2. home'[d] = home[d] /\ connChannels'[d] = connChannels[d] /\ Handed(d)' = Handed(d)
            BY <1>0, <2>1, <2>4 DEF TypeOK, Handed
        <3>3. HandedNext(d)
            BY <1>0, <1>3, <3>1, <3>2 DEF HandedNext, HandedAsAsked
        <3> QED
            BY <1>5, <3>1, <3>3
    <2> QED
        BY <2>3, <2>4
<1> QED
    BY <1>7, <1>8, <1>9, <1>10, <1>11, <1>12, <1>13, <1>14, <1>15, <1>16 DEF ResumeNext

-----------------------------------------------------------------------------
(* EPOCHS ON THE WIRE                                                       *)

Known(k, e) == lastEpoch[k] \in {0, e}
KnownNext(k, e) == lastEpoch'[k] \in {0, e}

FollowsNext(k, c) ==
    /\ phase'[c] = "opening" => wire'[c] = <<>> /\ request'[c].lastEpoch = lastEpoch'[k]
    /\ wire'[c] # <<>> =>
          /\ Head(wire'[c]).type = "epoch_changed" \/ KnownNext(k, Head(wire'[c]).epoch)
          /\ OneEpoch(wire'[c])
          /\ home'[c] # None => Head(wire'[c]).epoch = epoch'[home'[c]]
    /\ phase'[c] # "opening" /\ wire'[c] = <<>> /\ home'[c] # None =>
          KnownNext(k, epoch'[home'[c]])

(* A connection whose wire, request and reader stay is followed as before.  *)
LEMMA FollowedStays ==
    ASSUME NEW k, NEW c, WireFollows(k, c),
           wire'[c] = wire[c], request'[c] = request[c], phase'[c] = phase[c],
           lastEpoch'[k] = lastEpoch[k],
           home'[c] # None => home'[c] = home[c] /\ epoch'[home[c]] = epoch[home[c]]
    PROVE  FollowsNext(k, c)
BY DEF WireFollows, FollowsNext, KnownNext

(* What is written carries the epoch of the process.                        *)
LEMMA FollowedGrows ==
    ASSUME NEW k, NEW c, WireFollows(k, c), NEW t \in Seq(Message), wire[c] \in Seq(Message),
           wire'[c] = wire[c] \o t, lastEpoch'[k] = lastEpoch[k],
           phase[c] # "opening", phase'[c] # "opening",
           home[c] # None, home'[c] = home[c], epoch' = epoch,
           \A i \in 1 .. Len(t) : t[i].epoch = epoch[home[c]]
    PROVE  FollowsNext(k, c)
<1> DEFINE w == wire[c]
           e == epoch[home[c]]
<1>1. /\ w # <<>> => /\ Head(w).type = "epoch_changed" \/ Known(k, Head(w).epoch)
                     /\ OneEpoch(w) /\ Head(w).epoch = e
      /\ w = <<>> => Known(k, e)
    BY DEF WireFollows, Known
<1>2. \A i \in 1 .. Len(w) : w[i].epoch = e
    BY <1>1 DEF OneEpoch
<1>3. /\ \A i \in 1 .. Len(w \o t) :
            \/ i \in 1 .. Len(w) /\ (w \o t)[i] = w[i]
            \/ i - Len(w) \in 1 .. Len(t) /\ (w \o t)[i] = t[i - Len(w)]
      /\ w = <<>> => w \o t = t
      /\ w # <<>> => w \o t # <<>> /\ Head(w \o t) = Head(w)
      /\ w \o t \in Seq(Message)
    BY Elements
<1>4. \A i \in 1 .. Len(w \o t) : (w \o t)[i].epoch = e
    BY <1>2, <1>3
<1>5. w \o t # <<>> => Head(w \o t).epoch = e
    <2>1. w \o t # <<>> => 1 \in 1 .. Len(w \o t) /\ Head(w \o t) = (w \o t)[1]
        BY <1>3, Elements
    <2> QED
        BY <1>4, <2>1
<1> HIDE DEF w, e
<1>6. OneEpoch(w \o t)
    <2>1. CASE w \o t = <<>>
        BY <2>1 DEF OneEpoch
    <2>2. CASE w \o t # <<>>
        BY <1>4, <1>5, <2>2 DEF OneEpoch
    <2> QED
        BY <2>1, <2>2
<1>7. w \o t # <<>> => Head(w \o t).type = "epoch_changed" \/ Known(k, Head(w \o t).epoch)
    BY <1>1, <1>3, <1>5
<1>8. w \o t = <<>> => w = <<>>
    BY <1>3
<1> QED
    BY <1>1, <1>5, <1>6, <1>7, <1>8 DEF FollowsNext, Known, KnownNext, w, e

LEMMA HooksKept ==
    ASSUME ServerInv, ResumeInv, [ResumeNext]_resumeVars
    PROVE  HooksFollow'
<1> USE DEF endpointVars, clientVars, Conns
<1>0. /\ ResumeTypeOK /\ TypeOK /\ ReadersApart /\ HooksFollow /\ None \notin SSEConns
    BY ConstantsAssumption DEF ResumeInv, ServerInv, StreamInv
<1>1. SUFFICES ASSUME NEW l \in Clients, conn'[l] # None PROVE FollowsNext(l, conn'[l])
    BY DEF HooksFollow, WireFollows, FollowsNext, KnownNext
<1> DEFINE d == conn'[l]
<1>2. conn[l] = d => d \in SSEConns /\ WireFollows(l, d)
    BY <1>0, <1>1 DEF HooksFollow, ResumeTypeOK
<1>3. ASSUME ConnsKept, conn[l] = d, wire'[d] = wire[d], request'[d] = request[d],
             phase'[d] = phase[d], lastEpoch'[l] = lastEpoch[l]
      PROVE  FollowsNext(l, d)
    <2>1. home'[d] # None => home'[d] = home[d] /\ epoch'[home[d]] = epoch[home[d]]
        BY <1>2, <1>3 DEF ConnsKept
    <2> QED
        BY <1>2, <1>3, <2>1, FollowedStays
<1>4. CASE ServerStep
    BY <1>3, <1>4, ServerKeeps DEF ServerStep
<1>5. ASSUME NEW c \in SSEConns, NEW p \in Procs, EndStream(p, c) PROVE FollowsNext(l, d)
    BY <1>3, <1>5, CloseKeeps DEF EndStream
<1>6. CASE UNCHANGED resumeVars
    BY <1>3, <1>6, NothingServed DEF resumeVars
<1>7. ASSUME NEW k \in Clients, NEW e \in refetching[k], Refetched(k, e)
      PROVE  FollowsNext(l, d)
    BY <1>3, <1>7, NothingServed DEF Refetched
<1>8. ASSUME NEW k \in Clients, OnError(k) PROVE FollowsNext(l, d)
    <2>1. l # k /\ conn[l] = d /\ conn[k] # None
        BY <1>0, <1>1, <1>8 DEF OnError, ResumeTypeOK
    <2>2. conn[k] # d
        BY <1>0, <1>1, <2>1 DEF ReadersApart
    <2>3. wire'[d] = wire[d]
        BY <1>0, <1>2, <1>8, <2>1, <2>2 DEF OnError, ResumeTypeOK
    <2> QED
        BY <1>3, <1>8, <2>1, <2>3, NothingServed DEF OnError
<1>9. ASSUME NEW k \in Clients, OnMessage(k) PROVE FollowsNext(l, d)
    <2>1. conn[l] = d /\ UNCHANGED vars /\ phase' = phase /\ request' = request
        BY <1>9 DEF OnMessage
    <2>2. CASE l # k
        <3>1. conn[k] # d
            BY <1>0, <1>1, <1>9, <2>1, <2>2 DEF OnMessage, ReadersApart
        <3>2. wire'[d] = wire[d] /\ lastEpoch'[l] = lastEpoch[l]
            BY <1>0, <1>2, <1>9, <2>1, <2>2, <3>1 DEF OnMessage, ResumeTypeOK
        <3> QED
            BY <1>3, <2>1, <3>2, NothingServed
    <2>3. CASE l = k
        <3> DEFINE w == wire[d]
        <3>1. /\ w # <<>> /\ w \in Seq(Message)
              /\ wire'[d] = Tail(w) /\ lastEpoch'[l] = Head(w).epoch
            BY <1>0, <1>2, <1>9, <2>1, <2>3 DEF OnMessage, ResumeTypeOK
        <3>2. /\ phase[d] # "opening" /\ OneEpoch(w)
              /\ home[d] # None => Head(w).epoch = epoch[home[d]]
            BY <1>2, <2>1, <3>1 DEF WireFollows
        <3>3. /\ Head(w) = w[1] /\ Tail(w) \in Seq(Message)
              /\ \A i \in 1 .. Len(Tail(w)) : i + 1 \in 1 .. Len(w) /\ Tail(w)[i] = w[i + 1]
            BY <3>1, Elements
        <3>4. \A i \in 1 .. Len(Tail(w)) : Tail(w)[i].epoch = Head(w).epoch
            BY <3>2, <3>3 DEF OneEpoch
        <3>5. Tail(w) # <<>> => Head(Tail(w)) = Tail(w)[1] /\ 1 \in 1 .. Len(Tail(w))
            BY <3>3, Elements
        <3>6. Tail(w) # <<>> => Head(Tail(w)).epoch = Head(w).epoch
            BY <3>4, <3>5
        <3>7. home' = home /\ epoch' = epoch
            BY <2>1 DEF vars
        <3> HIDE DEF w, d
        <3>8. Tail(w) # <<>> => OneEpoch(Tail(w))
            BY <3>4, <3>6 DEF OneEpoch
        <3> QED
            BY <2>1, <3>1, <3>2, <3>6, <3>7, <3>8 DEF FollowsNext, KnownNext
    <2> QED
        BY <2>2, <2>3
<1>10. ASSUME NEW c \in SSEConns, StartStream(c) PROVE FollowsNext(l, d)
    <2> DEFINE here == epoch[home[c]]
    <2>1. /\ conn[l] = d /\ UNCHANGED vars /\ request' = request /\ lastEpoch' = lastEpoch
          /\ phase[c] = "opening" /\ home[c] # None
        BY <1>10 DEF StartStream
    <2>2. CASE d # c
        <3>1. wire'[d] = wire[d] /\ phase'[d] = phase[d]
            BY <1>0, <1>2, <1>10, <2>1, <2>2 DEF StartStream, ResumeTypeOK
        <3> QED
            BY <1>3, <2>1, <3>1, NothingServed
    <2>3. CASE d = c
        <3>1. wire[c] = <<>> /\ request[c].lastEpoch = lastEpoch[l] /\ home' = home /\ epoch' = epoch
            BY <1>2, <2>1, <2>3 DEF WireFollows, vars
        <3>2. phase'[c] # "opening"
            BY <1>0, <1>10 DEF StartStream, ResumeTypeOK
        <3>3. CASE request[c].lastEpoch \notin {0, here}
            <4>1. here \in Nat
                BY <1>0, <2>1 DEF TypeOK
            <4>2. EpochChanged(here) \in Message /\ EpochChanged(here).type = "epoch_changed"
                  /\ EpochChanged(here).epoch = here
                BY <4>1 DEF EpochChanged, Message
            <4> HIDE DEF here
            <4>3. wire'[c] = Append(wire[c], EpochChanged(here)) /\ wire[c] \in Seq(Message)
                BY <1>0, <1>10, <3>3 DEF StartStream, ResumeTypeOK, here
            <4>4. /\ Head(wire'[c]) = EpochChanged(here)
                  /\ \A i \in 1 .. Len(wire'[c]) : wire'[c][i] = EpochChanged(here)
                  /\ wire'[c] # <<>>
                BY <3>1, <4>2, <4>3
            <4> QED
                BY <2>1, <2>3, <3>1, <3>2, <4>2, <4>4 DEF FollowsNext, OneEpoch, here
        <3>4. CASE request[c].lastEpoch \in {0, here}
            <4>1. wire' = wire
                BY <1>10, <3>4 DEF StartStream
            <4> QED
                BY <2>1, <2>3, <3>1, <3>2, <3>4, <4>1 DEF FollowsNext, KnownNext
        <3> QED
            BY <3>3, <3>4
    <2> QED
        BY <2>2, <2>3
<1>11. ASSUME NEW c \in SSEConns, ReplayBacklog(c) PROVE FollowsNext(l, d)
    <2> DEFINE missed == Backlog(home[c], request[c].channel, request[c].lastSeq)
               here == epoch[home[c]]
    <2>1. /\ conn[l] = d /\ UNCHANGED vars /\ request' = request /\ lastEpoch' = lastEpoch
          /\ phase[c] = "replaying" /\ home[c] # None
        BY <1>11 DEF ReplayBacklog
    <2>2. PICK s \in InOrder(missed) : wire' = [wire EXCEPT ![c] = @ \o Carry(s, here)]
        BY <1>11 DEF ReplayBacklog, Carry
    <2>3. CASE d # c
        <3>1. wire'[d] = wire[d] /\ phase'[d] = phase[d]
            BY <1>0, <1>2, <1>11, <2>1, <2>2, <2>3 DEF ReplayBacklog, ResumeTypeOK
        <3> QED
            BY <1>3, <2>1, <3>1, NothingServed
    <2>4. CASE d = c
        <3>1. home[c] \in Procs /\ Len(stream) \in Nat /\ here \in Nat
            BY <1>0, <2>1 DEF TypeOK
        <3>2. request[c].lastSeq \in Nat
            BY <1>0 DEF ResumeTypeOK
        <3>3. missed \in SUBSET (1 .. Len(stream))
            BY <1>0, <3>1, <3>2, BacklogType
        <3>4. phase'[c] # "opening"
            BY <1>0, <1>11 DEF ReplayBacklog, ResumeTypeOK
        <3> HIDE DEF missed, here
        <3>5. Carries(Carry(s, here), missed, here)
            BY <3>1, <3>3, CarryType
        <3>6. /\ Carry(s, here) \in Seq(Message)
              /\ \A i \in 1 .. Len(Carry(s, here)) : Carry(s, here)[i].epoch = here
            BY <3>5 DEF Carries
        <3>7. wire'[c] = wire[c] \o Carry(s, here) /\ wire[c] \in Seq(Message)
            BY <1>0, <2>2 DEF ResumeTypeOK
        <3>8. home'[c] = home[c] /\ epoch' = epoch
            BY <2>1 DEF vars
        <3>9. WireFollows(l, c)
            BY <1>2, <2>1, <2>4
        <3> QED
            BY <2>1, <2>4, <3>4, <3>5, <3>6, <3>7, <3>8, <3>9, FollowedGrows DEF here
    <2> QED
        BY <2>3, <2>4
<1>12. ASSUME NEW c \in SSEConns, WriteLive(c) PROVE FollowsNext(l, d)
    <2> DEFINE m == EventAt(Head(queue[c]), epoch[home[c]])
    <2>1. /\ conn[l] = d /\ UNCHANGED <<request, lastEpoch, phase, home, epoch>>
          /\ phase[c] = "live" /\ home[c] # None /\ queue[c] # <<>>
        BY <1>12 DEF WriteLive, WriteSSE, procVars
    <2>2. CASE d # c
        <3>1. wire'[d] = wire[d]
            BY <1>0, <1>2, <1>12, <2>1, <2>2 DEF WriteLive, ResumeTypeOK
        <3> QED
            BY <1>2, <2>1, <3>1, FollowedStays
    <2>3. CASE d = c
        <3>1. Head(queue[c]) \in Nat /\ epoch[home[c]] \in Nat
            BY <1>0, <2>1 DEF TypeOK
        <3>2. m \in Message /\ m.epoch = epoch[home[c]]
            BY <3>1 DEF EventAt, Message
        <3>3. wire'[c] = Append(wire[c], m) /\ wire[c] \in Seq(Message)
            BY <1>0, <1>12 DEF WriteLive, ResumeTypeOK
        <3> HIDE DEF m
        <3>4. wire'[c] = wire[c] \o <<m>> /\ <<m>> \in Seq(Message)
              /\ \A i \in 1 .. Len(<<m>>) : <<m>>[i].epoch = epoch[home[c]]
            BY <3>2, <3>3
        <3>5. WireFollows(l, c)
            BY <1>2, <2>1, <2>3
        <3> QED
            BY <2>1, <2>3, <3>3, <3>4, <3>5, FollowedGrows
    <2> QED
        BY <2>2, <2>3
<1>13. ASSUME NEW k \in Clients, NEW p \in Procs, NEW c \in SSEConns, Connect(k, p, c)
       PROVE  FollowsNext(l, d)
    <2>1. /\ home[c] = None /\ c \notin used /\ epoch' = epoch
          /\ home' = [home EXCEPT ![c] = p]
        BY <1>13, NothingBefore
    <2>2. /\ wire' = wire /\ wire[c] = <<>> /\ lastEpoch' = lastEpoch
          /\ conn' = [conn EXCEPT ![k] = c]
        BY <1>0, <1>13, <2>1 DEF Connect, ReadersApart
    <2>3. CASE l = k
        <3>1. d = c /\ phase'[c] = "opening" /\ request'[c].lastEpoch = lastEpoch[k]
            BY <1>0, <1>13, <2>2, <2>3 DEF Connect, ResumeTypeOK
        <3> QED
            BY <2>2, <2>3, <3>1 DEF FollowsNext
    <2>4. CASE l # k
        <3>1. conn[l] = d /\ d # c
            BY <1>0, <1>1, <2>1, <2>2, <2>4 DEF ReadersApart, ResumeTypeOK
        <3>2. request'[d] = request[d] /\ phase'[d] = phase[d] /\ home'[d] = home[d]
            BY <1>0, <1>2, <1>13, <2>1, <3>1 DEF Connect, ResumeTypeOK, TypeOK
        <3> QED
            BY <1>2, <2>1, <2>2, <3>1, <3>2, FollowedStays
    <2> QED
        BY <2>3, <2>4
<1> QED
    BY <1>4, <1>5, <1>6, <1>7, <1>8, <1>9, <1>10, <1>11, <1>12, <1>13 DEF ResumeNext

-----------------------------------------------------------------------------
(* The inductive invariant of endpoint and hook, whatever happens to the    *)
(* stream, to processes, connections and refetches.                         *)
THEOREM ResumeInvariant == ResumeSpec => []ResumeInv
<1>1. ResumeInv /\ ServerInv /\ [ResumeNext]_resumeVars => ResumeInv'
    BY TypesKept, ReadersKept, AskedKept, HooksKept DEF ResumeInv
<1> QED
    BY <1>1, ResumeInit0, ServerAlways, PTL DEF ResumeSpec

(* Every variable of the endpoint and the hook keeps its type, and what was *)
(* written is in the stream.                                                *)
THEOREM ResumeTypeCorrect == ResumeSpec => []ResumeTypeOK
<1>1. ResumeInv => ResumeTypeOK
    BY DEF ResumeInv
<1> QED
    BY <1>1, ResumeInvariant, PTL

(* A hook that goes on to another epoch refetches in that step.             *)
THEOREM RestartsRefetched == ResumeSpec => RestartRefetched
<1> DEFINE Refetches(k) == lastEpoch[k] # 0 /\ lastEpoch'[k] # lastEpoch[k]
                           => lastEpoch'[k] \in refetching'[k]
<1>1. ASSUME ResumeInv, [ResumeNext]_resumeVars, NEW k \in Clients PROVE Refetches(k)
    <2> USE DEF endpointVars, clientVars
    <2>0. ResumeTypeOK /\ HooksFollow
        BY <1>1 DEF ResumeInv
    <2>1. ASSUME lastEpoch' = lastEpoch PROVE Refetches(k)
        BY <2>1
    <2>2. ASSUME NEW l \in Clients, OnMessage(l) PROVE Refetches(k)
        <3> DEFINE m == Head(wire[conn[l]])
        <3>1. /\ wire[conn[l]] # <<>> /\ WireFollows(l, conn[l])
              /\ lastEpoch' = [lastEpoch EXCEPT ![l] = m.epoch]
            BY <2>0, <2>2 DEF OnMessage, HooksFollow
        <3>2. m.type = "epoch_changed" \/ lastEpoch[l] \in {0, m.epoch}
            BY <3>1 DEF WireFollows
        <3>3. CASE k # l
            BY <2>0, <3>1, <3>3 DEF ResumeTypeOK
        <3>4. CASE k = l /\ m.type = "epoch_changed"
            <4>1. refetching' = [refetching EXCEPT ![l] = @ \cup {m.epoch}]
                BY <2>2, <3>4 DEF OnMessage
            <4> QED
                BY <2>0, <3>1, <3>4, <4>1 DEF ResumeTypeOK
        <3>5. CASE k = l /\ lastEpoch[l] \in {0, m.epoch}
            BY <2>0, <3>1, <3>5 DEF ResumeTypeOK
        <3> QED
            BY <3>2, <3>3, <3>4, <3>5
    <2> HIDE DEF Refetches
    <2> QED
        BY <1>1, <2>1, <2>2 DEF ResumeNext, ServerStep, StartStream, ReplayBacklog, WriteLive,
           EndStream, Connect, OnError, Refetched, resumeVars
<1>2. ResumeInv /\ [ResumeNext]_resumeVars
        => [\A k \in Clients : Refetches(k)]_resumeVars
    BY <1>1
<1> QED
    BY <1>2, ResumeInvariant, PTL DEF ResumeSpec, RestartRefetched

-----------------------------------------------------------------------------
(* ONE PROCESS                                                              *)

OneProcess == \A p, q \in Procs : p = q

LEMMA EpochsStay ==
    ASSUME TypeOK, EpochsInOrder, UNCHANGED <<epoch, boots, stream>>,
           publishing' \subseteq publishing,
           \A p \in Procs : done'[p] \in Nat /\ done[p] <= done'[p]
    PROVE  EpochsInOrder'
<1>1. \A p \in Procs : done[p] \in Nat
    BY DEF TypeOK
<1>2. Len(stream) \in Nat
    BY DEF TypeOK
<1>3. \A p \in Procs : \A n \in done'[p] + 1 .. Len(stream) : n \in done[p] + 1 .. Len(stream)
    BY <1>1, <1>2
<1> QED
    BY <1>3 DEF EpochsInOrder, Up

LEMMA EpochsStep ==
    ASSUME ReliableReads, OneProcess, StreamInv, EpochsInOrder, [Next]_vars
    PROVE  EpochsInOrder'
<1> USE DEF redisVars, procVars, connVars
<1>0. /\ TypeOK /\ BatchInStream /\ TypeOK'
      /\ Len(stream) \in Nat /\ boots \in Nat
    <2>1. TypeOK /\ BatchInStream /\ TypeOK'
        BY TypeStep DEF StreamInv
    <2>2. Len(stream) \in Nat /\ boots \in Nat
        BY <2>1 DEF TypeOK
    <2> QED
        BY <2>1, <2>2
<1>1. \A p \in Procs : done[p] \in Nat /\ done'[p] \in Nat
    BY <1>0 DEF TypeOK
<1>2. ASSUME UNCHANGED <<epoch, boots, stream, done>>, publishing' \subseteq publishing
      PROVE  EpochsInOrder'
    BY <1>0, <1>1, <1>2, EpochsStay
<1>3. ASSUME NEW p \in Procs, Boot(p) PROVE EpochsInOrder'
    <2>1. /\ boots' = boots + 1 /\ epoch' = [epoch EXCEPT ![p] = boots + 1]
          /\ done' = [done EXCEPT ![p] = Len(stream)]
          /\ UNCHANGED <<publishing, stream>>
        BY <1>3 DEF Boot, ReliableReads
    <2>2. publishing = {}
        BY <1>0, <1>3 DEF Boot, EpochsInOrder, TypeOK, Publication, OneProcess
    <2>3. \A q \in Procs : epoch'[q] = boots + 1 /\ done'[q] = Len(stream)
        BY <1>0, <2>1 DEF OneProcess, TypeOK
    <2>4. \A n \in 1 .. Len(stream) : stream[n].epoch \in Nat
        <3>1. stream \in Seq(Event)
            BY <1>0 DEF TypeOK
        <3>2. \A n \in 1 .. Len(stream) : stream[n] \in Event
            BY <3>1
        <3> QED
            BY <3>2 DEF Event
    <2>5. \A n \in 1 .. Len(stream) : stream[n].epoch <= boots'
        BY <1>0, <2>1, <2>4 DEF EpochsInOrder
    <2>6. \A q \in Procs : \A n : n \notin done'[q] + 1 .. Len(stream)
        BY <1>0, <2>3
    <2> QED
        BY <2>1, <2>2, <2>3, <2>5, <2>6 DEF EpochsInOrder, Up
<1>4. ASSUME NEW p \in Procs, Crash(p) PROVE EpochsInOrder'
    <2>1. /\ epoch' = [epoch EXCEPT ![p] = 0]
          /\ publishing' = {r \in publishing : r.proc # p}
          /\ UNCHANGED <<boots, stream, done>>
        BY <1>4 DEF Crash
    <2>2. \A q \in Procs : epoch'[q] = 0
        BY <1>0, <2>1 DEF OneProcess, TypeOK
    <2>3. publishing' = {}
        BY <1>0, <2>1 DEF OneProcess, TypeOK, Publication
    <2> QED
        BY <2>1, <2>2, <2>3 DEF EpochsInOrder, Up
<1>5. ASSUME NEW p \in Procs, XReadGroup(p) PROVE EpochsInOrder'
    <2> DEFINE first == Larger(group[p], trimmed)
    <2>1. /\ done' = [done EXCEPT ![p] = first] /\ done[p] = group[p]
          /\ UNCHANGED <<epoch, boots, stream, publishing>>
        BY <1>5 DEF XReadGroup, ReliableReads
    <2>2. done[p] <= first
        BY <1>0, <2>1 DEF Larger, TypeOK
    <2>3. \A q \in Procs : done[q] <= done'[q]
        BY <1>0, <2>1, <2>2 DEF TypeOK
    <2> QED
        BY <1>0, <1>1, <2>1, <2>3, EpochsStay
<1>6. ASSUME NEW p \in Procs, NEW todo \in SUBSET Conns, NEW dead \in SUBSET Conns,
             RunDispatch(p, todo, dead), UNCHANGED <<epoch, boots, stream, publishing>>
      PROVE  EpochsInOrder'
    <2>1. done' = [done EXCEPT ![p] = @ + 1] \/ done' = done
        BY <1>0, <1>6, RunDispatchCases DEF FinishEntry, SuspendIn
    <2>2. ASSUME NEW q \in Procs PROVE done[q] <= done'[q]
        <3>1. done'[q] = done[q] + 1 \/ done'[q] = done[q]
            BY <1>0, <2>1 DEF TypeOK
        <3> QED
            BY <1>1, <3>1
    <2> QED
        BY <1>0, <1>1, <1>6, <2>2, EpochsStay
<1>7. ASSUME NEW p \in Procs, HandleEntry(p) PROVE EpochsInOrder'
    <2>1. subscribers[p][stream[done[p] + 1].channel] \in SUBSET Conns
        BY <1>0, <1>7, SnapshotType DEF HandleEntry
    <2> QED
        BY <1>6, <1>7, <2>1 DEF HandleEntry
<1>8. ASSUME NEW p \in Procs, EndSend(p) PROVE EpochsInOrder'
    <2>1. /\ current[p].todo \in SUBSET Conns /\ current[p].dead \in SUBSET Conns
          /\ current[p].sending \in Conns \cup {None}
        BY <1>0, SuspendedType DEF Conns
    <2>2. PICK dead \in SUBSET Conns : RunDispatch(p, current[p].todo, dead)
        BY <1>8, <2>1 DEF EndSend
    <2> QED
        BY <1>6, <1>8, <2>1, <2>2 DEF EndSend
<1>9. ASSUME NEW p \in Procs, NEW ch \in Channels, Publish(p, ch) \/ CatchUp(p, ch)
      PROVE  EpochsInOrder'
    <2>1. UNCHANGED <<epoch, boots, stream, done>>
        BY <1>9 DEF Publish, CatchUp
    <2>2. /\ publishing' = publishing \/ Up(p)
          /\ \A r \in publishing' : r \in publishing \/ (r.proc = p /\ r.epoch = epoch[p])
        BY <1>9 DEF Publish, CatchUp, HIncrBy
    <2> QED
        BY <2>1, <2>2 DEF EpochsInOrder, Up
<1>10. ASSUME NEW r \in publishing, XAdd(r) PROVE EpochsInOrder'
    <2> DEFINE e == [channel |-> r.channel, seq |-> r.seq, epoch |-> r.epoch]
    <2>1. /\ publishing' = publishing \ {r} /\ stream' = Append(stream, e)
          /\ UNCHANGED <<epoch, boots, done>>
        BY <1>10 DEF XAdd
    <2>2. r.proc \in Procs /\ Up(r.proc) /\ r.epoch = boots
        BY <1>0 DEF TypeOK, Publication, EpochsInOrder
    <2>3. \A p \in Procs : Up(p) => e.epoch = epoch[p]
        BY <2>2 DEF OneProcess, EpochsInOrder
    <2>4. stream \in Seq(Event) /\ e \in Event
        BY <1>0 DEF TypeOK, Publication, Event
    <2>5. /\ Len(stream') = Len(stream) + 1
          /\ \A n \in 1 .. Len(stream) : stream'[n] = stream[n]
          /\ stream'[Len(stream) + 1].epoch = boots
        <3> HIDE DEF e
        <3>1. /\ Len(stream') = Len(stream) + 1
              /\ \A n \in 1 .. Len(stream) : stream'[n] = stream[n]
              /\ stream'[Len(stream) + 1] = e
            BY <2>1, <2>4
        <3> QED
            BY <2>2, <3>1 DEF e
    <2>6. \A n \in 1 .. Len(stream') : n \in 1 .. Len(stream) \/ n = Len(stream) + 1
        BY <1>0, <2>5
    <2>7. \A n \in 1 .. Len(stream') : stream'[n].epoch <= boots
        BY <1>0, <2>5, <2>6 DEF EpochsInOrder
    <2>8. ASSUME NEW m \in 1 .. Len(stream'), NEW n \in 1 .. Len(stream'), m <= n
          PROVE  stream'[m].epoch <= stream'[n].epoch
        <3>1. CASE n = Len(stream) + 1
            BY <2>5, <2>7, <3>1
        <3>2. CASE n \in 1 .. Len(stream)
            <4>1. m \in 1 .. Len(stream)
                BY <1>0, <2>8, <3>2
            <4> QED
                BY <2>5, <2>8, <3>2, <4>1 DEF EpochsInOrder
        <3> QED
            BY <2>6, <3>1, <3>2
    <2>9. ASSUME NEW p \in Procs, Up(p), NEW n \in done[p] + 1 .. Len(stream')
          PROVE  stream'[n].epoch = epoch[p]
        <3>1. CASE n = Len(stream) + 1
            BY <2>2, <2>5, <2>9, <3>1 DEF EpochsInOrder
        <3>2. CASE n \in done[p] + 1 .. Len(stream)
            <4>1. n \in 1 .. Len(stream)
                BY <1>0, <1>1, <3>2
            <4> QED
                BY <2>5, <2>9, <3>2, <4>1 DEF EpochsInOrder
        <3> QED
            BY <1>0, <1>1, <2>5, <2>9, <3>1, <3>2
    <2>10. \A s \in publishing' : Up(s.proc) /\ s.epoch = epoch[s.proc]
        BY <2>1 DEF EpochsInOrder
    <2>11. \A p \in Procs : Up(p) => epoch[p] = boots
        BY DEF EpochsInOrder
    <2> QED
        BY <2>1, <2>7, <2>8, <2>9, <2>10, <2>11 DEF EpochsInOrder, Up
<1>11. ASSUME NEW r \in publishing, PublishError(r) PROVE EpochsInOrder'
    BY <1>2, <1>11 DEF PublishError
<1>12. ASSUME NEW p \in Procs, NEW c \in Conns,
              \/ OpenWS(p, c) \/ Close(p, c)
              \/ \E chs \in SUBSET Channels :
                    OpenSSE(p, c, chs) \/ SubscribeWS(p, c, chs) \/ UnsubscribeWS(p, c, chs)
       PROVE  EpochsInOrder'
    BY <1>2, <1>12 DEF OpenWS, Close, OpenSSE, SubscribeWS, UnsubscribeWS
<1>13. ASSUME NEW c \in Conns, WriteSSE(c) PROVE EpochsInOrder'
    BY <1>2, <1>13 DEF WriteSSE
<1>14. CASE UNCHANGED fanoutVars
    BY <1>2, <1>14 DEF fanoutVars
<1> QED
    BY ReplayBeside, <1>3, <1>4, <1>5, <1>7, <1>8, <1>9, <1>10, <1>11, <1>12, <1>13, <1>14 DEF Next

(* What a client resumes with stays in the stream.                          *)
InStreamNext(ch, seq, e) ==
    \E m \in 1 .. Len(stream') : stream'[m] = [channel |-> ch, seq |-> seq, epoch |-> e]

HandedEpochNext(c) ==
    home'[c] # None => \A i \in 1 .. Len(Handed(c)') :
        stream'[Handed(c)'[i]].epoch = epoch'[home'[c]]

Dated(m) == m.position \in 1 .. Len(stream) /\ stream[m.position].epoch = m.epoch

WireDatedNext(c) ==
    \A i \in 1 .. Len(wire'[c]) :
        wire'[c][i].type = "event" => stream'[wire'[c][i].position].epoch = wire'[c][i].epoch

RequestNext(c) ==
    request'[c].lastSeq # 0 =>
        InStreamNext(request'[c].channel, request'[c].lastSeq, request'[c].lastEpoch)

HookNext(k) == lastSeq'[k] # 0 => InStreamNext(channelOf[k], lastSeq'[k], lastEpoch'[k])

LEMMA InStreamStays ==
    ASSUME TypeOK, Longer, Len(stream') \in Nat, NEW ch, NEW seq, NEW e, InStream(ch, seq, e)
    PROVE  InStreamNext(ch, seq, e)
<1>1. PICK m \in 1 .. Len(stream) : stream[m] = [channel |-> ch, seq |-> seq, epoch |-> e]
    BY DEF InStream
<1>2. Len(stream) \in Nat
    BY DEF TypeOK
<1>3. m \in 1 .. Len(stream') /\ stream'[m] = stream[m]
    BY <1>1, <1>2 DEF Longer
<1> QED
    BY <1>1, <1>3 DEF InStreamNext

LEMMA HandedEpochStays ==
    ASSUME ServerInv, ResumeInv, EpochsInOrder, ResumePoints, Longer, ConnsKept,
           NEW c \in SSEConns
    PROVE  HandedEpochNext(c)
<1> USE DEF Conns
<1>0. /\ TypeOK /\ BatchInStream /\ HandedAsAsked /\ HandedSoFar /\ c \in Conns
      /\ None \notin Procs /\ Len(stream) \in Nat
    <2>1. TypeOK
        BY DEF ServerInv, StreamInv
    <2> QED
        BY <2>1, ConstantsAssumption DEF ServerInv, StreamInv, ResumeInv, TypeOK
<1>1. SUFFICES ASSUME home'[c] # None, NEW i \in 1 .. Len(Handed(c)')
               PROVE  stream'[Handed(c)'[i]].epoch = epoch'[home'[c]]
    BY DEF HandedEpochNext
<1>2. /\ home'[c] = home[c] /\ home[c] # None /\ epoch'[home[c]] = epoch[home[c]]
      /\ Handed(c)' = Handed(c) \/ Serves(c)
    BY <1>0, <1>1 DEF ConnsKept
<1>3. \A j \in 1 .. Len(Handed(c)) : stream'[Handed(c)[j]].epoch = epoch[home[c]]
    BY <1>0, <1>2 DEF ResumePoints, HandedAsAsked, Asked, Longer
<1>4. CASE Handed(c)' = Handed(c)
    BY <1>1, <1>2, <1>3, <1>4
<1>5. CASE Serves(c)
    <2>1. PICK p \in Procs : home[c] = p /\ done[p] < group[p]
                             /\ Handed(c)' = Append(Handed(c), done[p] + 1)
        BY <1>5 DEF Serves
    <2>2. done[p] \in Nat /\ done[p] + 1 \in Nat /\ done[p] + 1 \in 1 .. Len(stream)
        BY <1>0, <2>1 DEF TypeOK, BatchInStream
    <2>3. Up(p)
        BY <1>0, <1>2, <2>1 DEF HandedSoFar
    <2>4. stream[done[p] + 1].epoch = epoch[p]
        BY <1>0, <2>2, <2>3 DEF EpochsInOrder
    <2>5. \/ i \in 1 .. Len(Handed(c)) /\ Handed(c)'[i] = Handed(c)[i]
          \/ Handed(c)'[i] = done[p] + 1
        BY <1>0, <1>1, <2>1, <2>2, HandedType, Elements
    <2> QED
        BY <1>2, <1>3, <2>1, <2>2, <2>4, <2>5 DEF Longer
<1> QED
    BY <1>2, <1>4, <1>5

(* Where a message on the wire comes from.                                  *)
Sent(d) ==
    \A i \in 1 .. Len(wire'[d]) :
        \/ \E j \in 1 .. Len(wire[d]) : wire'[d][i] = wire[d][j]
        \/ wire'[d][i].type # "event"
        \/ Dated(wire'[d][i])

LEMMA WireSources ==
    ASSUME ServerInv, ResumeInv, ResumePoints, [ResumeNext]_resumeVars, NEW d \in SSEConns
    PROVE  Sent(d)
<1> USE DEF endpointVars, clientVars, Conns
<1>0. /\ ResumeTypeOK /\ TypeOK /\ HandedAsAsked /\ None \notin SSEConns
      /\ wire[d] \in Seq(Message) /\ Len(stream) \in Nat
    <2>1. TypeOK /\ ResumeTypeOK
        BY DEF ServerInv, StreamInv, ResumeInv
    <2> QED
        BY <2>1, ConstantsAssumption DEF ResumeInv, TypeOK, ResumeTypeOK
<1>1. ASSUME wire'[d] = wire[d] PROVE Sent(d)
    BY <1>1 DEF Sent
<1>2. ASSUME NEW x \in Message, wire'[d] = Append(wire[d], x), x.type # "event" \/ Dated(x)
      PROVE  Sent(d)
    <2>1. \A i \in 1 .. Len(wire'[d]) :
             \/ i \in 1 .. Len(wire[d]) /\ wire'[d][i] = wire[d][i]
             \/ wire'[d][i] = x
        BY <1>0, <1>2, Elements
    <2> QED
        BY <1>2, <2>1 DEF Sent
<1>3. ASSUME NEW k \in Clients, OnError(k) PROVE Sent(d)
    <2>1. wire'[d] = wire[d] \/ Len(wire'[d]) = 0
        BY <1>0, <1>3 DEF OnError, ResumeTypeOK
    <2> QED
        BY <1>1, <2>1 DEF Sent
<1>4. ASSUME NEW k \in Clients, OnMessage(k) PROVE Sent(d)
    <2>1. CASE d # conn[k]
        BY <1>0, <1>1, <1>4, <2>1 DEF OnMessage, ResumeTypeOK
    <2>2. CASE d = conn[k]
        <3>1. wire'[d] = Tail(wire[d]) /\ wire[d] # <<>>
            BY <1>0, <1>4, <2>2 DEF OnMessage, ResumeTypeOK
        <3>2. \A i \in 1 .. Len(wire'[d]) : i + 1 \in 1 .. Len(wire[d])
                                             /\ wire'[d][i] = wire[d][i + 1]
            BY <1>0, <3>1, Elements
        <3> QED
            BY <3>2 DEF Sent
    <2> QED
        BY <2>1, <2>2
<1>5. ASSUME NEW c \in SSEConns, StartStream(c) PROVE Sent(d)
    <2> DEFINE m == EpochChanged(epoch[home[c]])
    <2>1. CASE wire'[d] # wire[d]
        <3>1. wire'[d] = Append(wire[d], m) /\ home[c] # None
            BY <1>0, <1>5, <2>1 DEF StartStream, ResumeTypeOK
        <3>2. m \in Message /\ m.type # "event"
            BY <1>0, <3>1 DEF TypeOK, EpochChanged, Message
        <3> QED
            BY <1>2, <3>1, <3>2
    <2> QED
        BY <1>1, <2>1
<1>6. ASSUME NEW c \in SSEConns, ReplayBacklog(c) PROVE Sent(d)
    <2> DEFINE missed == Backlog(home[c], request[c].channel, request[c].lastSeq)
               here == epoch[home[c]]
    <2>1. PICK s \in InOrder(missed) : wire' = [wire EXCEPT ![c] = @ \o Carry(s, here)]
        BY <1>6 DEF ReplayBacklog, Carry
    <2>2. CASE d # c
        BY <1>0, <1>1, <2>1, <2>2 DEF ResumeTypeOK
    <2>3. CASE d = c
        <3>1. home[c] \in Procs /\ here \in Nat
            BY <1>0, <1>6 DEF ReplayBacklog, TypeOK
        <3>2. request[c].lastSeq \in Nat
            BY <1>0 DEF ResumeTypeOK
        <3>3. missed \in SUBSET (1 .. Len(stream))
            BY <1>0, <3>1, <3>2, BacklogType
        <3>4. \A n \in missed : n \in 1 .. Len(stream) /\ stream[n].epoch = here
            BY <3>3 DEF Backlog
        <3> HIDE DEF missed, here
        <3> DEFINE t == Carry(s, here)
        <3>5. Carries(t, missed, here)
            BY <1>0, <3>1, <3>3, CarryType
        <3>6. wire'[d] = wire[d] \o t
            BY <1>0, <2>1, <2>3 DEF ResumeTypeOK
        <3> HIDE DEF t
        <3>7. t \in Seq(Message) /\ \A j \in 1 .. Len(t) : Dated(t[j])
            BY <3>4, <3>5 DEF Carries, Dated
        <3>8. \A i \in 1 .. Len(wire'[d]) :
                 \/ i \in 1 .. Len(wire[d]) /\ wire'[d][i] = wire[d][i]
                 \/ i - Len(wire[d]) \in 1 .. Len(t) /\ wire'[d][i] = t[i - Len(wire[d])]
            BY <1>0, <3>6, <3>7, Elements
        <3> QED
            BY <3>7, <3>8 DEF Sent
    <2> QED
        BY <2>2, <2>3
<1>7. ASSUME NEW c \in SSEConns, WriteLive(c) PROVE Sent(d)
    <2> DEFINE m == EventAt(Head(queue[c]), epoch[home[c]])
    <2>1. CASE d # c
        BY <1>0, <1>1, <1>7, <2>1 DEF WriteLive, ResumeTypeOK
    <2>2. CASE d = c
        <3>1. home[c] # None /\ queue[c] # <<>>
            BY <1>7 DEF WriteLive, WriteSSE
        <3>2. PICK i \in 1 .. Len(Handed(c)) : Handed(c)[i] = Head(queue[c])
            BY <1>0, <3>1, QueueHead
        <3>3. Asked(c, Head(queue[c])) /\ stream[Head(queue[c])].epoch = epoch[home[c]]
            BY <1>0, <3>1, <3>2 DEF HandedAsAsked, ResumePoints
        <3>4. m \in Message /\ Dated(m)
            BY <1>0, <3>1, <3>3 DEF TypeOK, EventAt, Message, Asked, Dated
        <3>5. wire'[d] = Append(wire[d], m)
            BY <1>0, <1>7, <2>2 DEF WriteLive, ResumeTypeOK
        <3> QED
            BY <1>2, <3>4, <3>5
    <2> QED
        BY <2>1, <2>2
<1>8. ASSUME NEW k \in Clients, NEW p \in Procs, NEW c \in SSEConns,
             Connect(k, p, c) \/ EndStream(p, c)
      PROVE  Sent(d)
    BY <1>1, <1>8 DEF Connect, EndStream
<1>9. CASE UNCHANGED resumeVars
    BY <1>1, <1>9 DEF resumeVars
<1> QED
    BY <1>1, <1>3, <1>4, <1>5, <1>6, <1>7, <1>8, <1>9
       DEF ResumeNext, ServerStep, EndStream, Refetched

LEMMA PointsStep ==
    ASSUME ServerInv, ResumeInv, EpochsInOrder, ResumePoints, [ResumeNext]_resumeVars
    PROVE  ResumePoints'
<1> USE DEF endpointVars, clientVars, Conns
<1>0. /\ ResumeTypeOK /\ TypeOK /\ HandedAsAsked /\ ReadersApart /\ None \notin SSEConns
      /\ Len(stream) \in Nat /\ Len(stream') \in Nat
    <2>1. TypeOK /\ ResumeTypeOK /\ TypeOK'
        BY StepOfStream, TypeStep DEF ServerInv, StreamInv, ResumeInv
    <2> QED
        BY <2>1, ConstantsAssumption DEF ResumeInv, TypeOK
<1>1. Longer
    BY <1>0, StepOfStream, StreamLonger
<1>2. SUFFICES /\ \A d \in SSEConns : HandedEpochNext(d) /\ WireDatedNext(d) /\ RequestNext(d)
               /\ \A k \in Clients : HookNext(k)
    BY DEF ResumePoints, HandedEpochNext, WireDatedNext, RequestNext, HookNext, InStream,
           InStreamNext
<1>3. \A ch, seq, e : InStream(ch, seq, e) => InStreamNext(ch, seq, e)
    BY <1>0, <1>1, InStreamStays
<1>4. ASSUME NEW d \in SSEConns PROVE WireDatedNext(d)
    <2>1. Sent(d)
        BY WireSources
    <2>2. SUFFICES ASSUME NEW i \in 1 .. Len(wire'[d]), wire'[d][i].type = "event"
                   PROVE  stream'[wire'[d][i].position].epoch = wire'[d][i].epoch
        BY DEF WireDatedNext
    <2>3. Dated(wire'[d][i])
        <3>1. CASE Dated(wire'[d][i])
            BY <3>1
        <3>2. CASE \E j \in 1 .. Len(wire[d]) : wire'[d][i] = wire[d][j]
            BY <1>0, <2>2, <3>2 DEF HandedAsAsked, Asked, ResumePoints, Dated
        <3> QED
            BY <2>1, <2>2, <3>1, <3>2 DEF Sent
    <2> QED
        BY <1>1, <2>3 DEF Dated, Longer
<1>5. ASSUME NEW d \in SSEConns, request'[d] = request[d] PROVE RequestNext(d)
    BY <1>3, <1>5 DEF RequestNext, ResumePoints
<1>6. ASSUME NEW k \in Clients, lastSeq'[k] = lastSeq[k], lastEpoch'[k] = lastEpoch[k]
      PROVE  HookNext(k)
    BY <1>3, <1>6 DEF HookNext, ResumePoints
<1>7. ASSUME UNCHANGED <<request, lastSeq, lastEpoch>>, ConnsKept
      PROVE  /\ \A d \in SSEConns : HandedEpochNext(d) /\ WireDatedNext(d) /\ RequestNext(d)
             /\ \A k \in Clients : HookNext(k)
    BY <1>1, <1>4, <1>5, <1>6, <1>7, HandedEpochStays
<1>8. CASE ServerStep
    BY <1>7, <1>8, ServerKeeps DEF ServerStep
<1>9. ASSUME NEW c \in SSEConns, NEW p \in Procs, EndStream(p, c)
      PROVE  UNCHANGED <<request, lastSeq, lastEpoch>> /\ ConnsKept
    BY <1>9, CloseKeeps DEF EndStream
<1>10. ASSUME NEW c \in SSEConns, StartStream(c) \/ ReplayBacklog(c)
       PROVE  UNCHANGED <<request, lastSeq, lastEpoch>> /\ ConnsKept
    BY <1>10, NothingServed DEF StartStream, ReplayBacklog
<1>11. ASSUME NEW k \in Clients, OnError(k) \/ \E e \in refetching[k] : Refetched(k, e)
       PROVE  UNCHANGED <<request, lastSeq, lastEpoch>> /\ ConnsKept
    BY <1>11, NothingServed DEF OnError, Refetched
<1>12. ASSUME UNCHANGED resumeVars
       PROVE  UNCHANGED <<request, lastSeq, lastEpoch>> /\ ConnsKept
    BY <1>12, NothingServed DEF resumeVars
<1>13. ASSUME NEW c \in SSEConns, WriteLive(c)
       PROVE  /\ \A d \in SSEConns : HandedEpochNext(d) /\ WireDatedNext(d) /\ RequestNext(d)
              /\ \A k \in Clients : HookNext(k)
    <2>1. /\ WriteSSE(c) /\ UNCHANGED <<request, lastSeq, lastEpoch, stream, home, epoch>>
        BY <1>13 DEF WriteLive, WriteSSE, redisVars, procVars
    <2>2. ASSUME NEW d \in SSEConns PROVE HandedEpochNext(d)
        <3>1. Handed(d)' = Handed(d)
            BY <1>0, <2>1, WriteKeepsHanded
        <3> QED
            BY <2>1, <3>1 DEF HandedEpochNext, ResumePoints
    <2> QED
        BY <1>4, <1>5, <1>6, <2>1, <2>2
<1>14. ASSUME NEW k \in Clients, NEW p \in Procs, NEW c \in SSEConns, Connect(k, p, c)
       PROVE  /\ \A d \in SSEConns : HandedEpochNext(d) /\ WireDatedNext(d) /\ RequestNext(d)
              /\ \A l \in Clients : HookNext(l)
    <2>1. /\ UNCHANGED <<received, queue, stream, epoch, lastSeq, lastEpoch>>
          /\ home' = [home EXCEPT ![c] = p]
          /\ received[c] = <<>> /\ queue[c] = <<>>
          /\ request' = [request EXCEPT ![c] = [channel |-> channelOf[k],
                             lastSeq |-> lastSeq[k], lastEpoch |-> lastEpoch[k]]]
        BY <1>14, NothingBefore DEF Connect
    <2>2. ASSUME NEW d \in SSEConns PROVE HandedEpochNext(d)
        <3>1. CASE d = c
            <4>1. received'[d] = <<>> /\ queue'[d] = <<>>
                BY <2>1, <3>1
            <4>2. Len(Handed(d)') = 0
                BY <4>1, NothingHanded DEF Handed
            <4> QED
                BY <4>2 DEF HandedEpochNext
        <3>2. CASE d # c
            <4>1. home'[d] = home[d] /\ Handed(d)' = Handed(d)
                BY <1>0, <2>1, <3>2 DEF TypeOK, Handed
            <4> QED
                BY <2>1, <4>1 DEF HandedEpochNext, ResumePoints
        <3> QED
            BY <3>1, <3>2
    <2>3. ASSUME NEW d \in SSEConns PROVE RequestNext(d)
        <3>1. CASE d = c
            <4>1. request'[d] = [channel |-> channelOf[k],
                             lastSeq |-> lastSeq[k], lastEpoch |-> lastEpoch[k]]
                BY <1>0, <2>1, <3>1 DEF ResumeTypeOK
            <4> QED
                BY <1>3, <4>1 DEF RequestNext, ResumePoints
        <3>2. CASE d # c
            BY <1>0, <1>5, <2>1, <3>2 DEF ResumeTypeOK
        <3> QED
            BY <3>1, <3>2
    <2> QED
        BY <1>4, <1>6, <2>1, <2>2, <2>3
<1>15. ASSUME NEW k \in Clients, OnMessage(k)
       PROVE  /\ \A d \in SSEConns : HandedEpochNext(d) /\ WireDatedNext(d) /\ RequestNext(d)
              /\ \A l \in Clients : HookNext(l)
    <2> DEFINE c == conn[k]
               m == Head(wire[c])
    <2>1. /\ c \in SSEConns /\ wire[c] # <<>> /\ UNCHANGED vars /\ request' = request
          /\ lastEpoch' = [lastEpoch EXCEPT ![k] = m.epoch]
        BY <1>0, <1>15 DEF OnMessage, ResumeTypeOK
    <2>2. ConnsKept
        BY <2>1, NothingServed
    <2>3. ASSUME NEW l \in Clients PROVE HookNext(l)
        <3>1. CASE l # k
            BY <1>0, <1>6, <1>15, <2>1, <3>1 DEF OnMessage, ResumeTypeOK
        <3>2. CASE l = k /\ m.type = "epoch_changed"
            BY <1>0, <1>15, <2>1, <3>2 DEF OnMessage, ResumeTypeOK, HookNext
        <3>3. CASE l = k /\ m.type # "epoch_changed"
            <4>1. lastSeq'[k] = stream[m.position].seq /\ lastEpoch'[k] = m.epoch
                BY <1>0, <1>15, <2>1, <3>3 DEF OnMessage, ResumeTypeOK
            <4>2. wire[c] \in Seq(Message)
                BY <1>0, <2>1 DEF ResumeTypeOK
            <4>3. m = wire[c][1] /\ 1 \in 1 .. Len(wire[c]) /\ m \in Message
                BY <2>1, <4>2, Elements
            <4>4. m.type = "event"
                BY <3>3, <4>3 DEF Message
            <4>5. Asked(c, m.position) /\ stream[m.position].epoch = m.epoch
                BY <1>0, <2>1, <4>3, <4>4 DEF HandedAsAsked, ResumePoints
            <4>6. request[c].channel = channelOf[k]
                BY <1>0, <1>15 DEF OnMessage, ReadersApart
            <4>7. stream[m.position] \in Event
                BY <1>0, <4>5 DEF Asked, TypeOK
            <4>8. InStream(channelOf[k], lastSeq'[k], lastEpoch'[k])
                <5> DEFINE n == m.position
                <5>1. /\ stream[n].channel = channelOf[k] /\ stream[n].seq = lastSeq'[k]
                      /\ stream[n].epoch = lastEpoch'[k]
                      /\ stream[n] \in Event /\ n \in 1 .. Len(stream)
                    BY <4>1, <4>5, <4>6, <4>7 DEF Asked
                <5> HIDE DEF n
                <5> QED
                    BY <5>1 DEF InStream, Event
            <4> QED
                BY <1>3, <3>3, <4>8 DEF HookNext
        <3> QED
            BY <3>1, <3>2, <3>3
    <2> QED
        BY <1>1, <1>4, <1>5, <2>1, <2>2, <2>3, HandedEpochStays
<1> QED
    BY <1>7, <1>8, <1>9, <1>10, <1>11, <1>12, <1>13, <1>14, <1>15 DEF ResumeNext

ResumesNext(c) ==
    /\ phase'[c] = "live" /\ home'[c] # None
    /\ request'[c].lastSeq # 0 /\ request'[c].lastEpoch = epoch'[home'[c]]

MissedNext(r, n) ==
    /\ stream'[n].channel = r.channel
    /\ stream'[n].seq > r.lastSeq
    /\ \E m \in 1 .. n : stream'[m].channel = r.channel /\ stream'[m].seq = r.lastSeq

ReplayedNext(c) ==
    /\ \A ch \in Channels : joined'[c][ch] <= Len(stream')
    /\ home'[c] # None => \A i \in 1 .. Len(received'[c]) : received'[c][i] \in written'[c]
    /\ ResumesNext(c) =>
          \A n \in trimmed' + 1 .. joined'[c][request'[c].channel] :
              MissedNext(request'[c], n) => n \in written'[c]

LEMMA ResumesInChannel ==
    ASSUME TypeOK, ResumePoints, NEW c \in SSEConns, request[c].lastSeq # 0
    PROVE  request[c].channel \in Channels
<1> DEFINE r == request[c]
<1>0. PICK m \in 1 .. Len(stream) :
            stream[m] = [channel |-> r.channel, seq |-> r.lastSeq, epoch |-> r.lastEpoch]
    BY DEF ResumePoints, InStream
<1>1. stream[m].channel = request[c].channel
    BY <1>0
<1>2. stream[m] \in Event
    BY DEF TypeOK
<1> QED
    BY <1>1, <1>2 DEF Event

LEMMA MissedBefore ==
    ASSUME TypeOK, Longer, NEW r, NEW n \in 1 .. Len(stream), MissedNext(r, n)
    PROVE  MissedSince(r, n)
<1>1. Len(stream) \in Nat
    BY DEF TypeOK
<1>2. \A m \in 1 .. n : stream'[m] = stream[m]
    BY <1>1 DEF Longer
<1>3. n \in 1 .. n
    BY <1>1
<1> QED
    BY <1>2, <1>3 DEF MissedNext, MissedSince

LEMMA ReplayedStays ==
    ASSUME TypeOK, ResumePoints, ReplayedBefore, Longer, Len(stream') \in Nat, trimmed' \in Nat,
           NEW c \in SSEConns,
           joined'[c] = joined[c], written[c] \subseteq written'[c],
           request'[c] = request[c], phase'[c] = phase[c],
           home'[c] # None => /\ home'[c] = home[c]
                              /\ epoch'[home[c]] = epoch[home[c]]
                              /\ \A i \in 1 .. Len(received'[c]) :
                                    \/ received'[c][i] \in written'[c]
                                    \/ i \in 1 .. Len(received[c]) /\ received'[c][i] = received[c][i]
    PROVE  ReplayedNext(c)
<1>0. /\ c \in Conns /\ Len(stream) \in Nat /\ trimmed \in Nat
      /\ \A ch \in Channels : joined[c][ch] \in Nat
    BY DEF TypeOK, Conns
<1>1. \A ch \in Channels : joined'[c][ch] <= Len(stream')
    BY <1>0 DEF ReplayedBefore, Longer
<1>2. home'[c] # None => \A i \in 1 .. Len(received'[c]) : received'[c][i] \in written'[c]
    BY DEF ReplayedBefore
<1>3. ASSUME ResumesNext(c), NEW n \in trimmed' + 1 .. joined'[c][request'[c].channel],
             MissedNext(request'[c], n)
      PROVE  n \in written'[c]
    <2>1. Resumes(c)
        BY <1>3 DEF ResumesNext, Resumes
    <2>2. request[c].channel \in Channels
        BY <2>1, ResumesInChannel DEF Resumes
    <2>3. joined[c][request[c].channel] \in Nat /\ joined[c][request[c].channel] <= Len(stream)
        BY <1>0, <2>2 DEF ReplayedBefore
    <2>4. n \in trimmed + 1 .. joined[c][request[c].channel] /\ n \in 1 .. Len(stream)
        <3> DEFINE j == joined[c][request[c].channel]
        <3>1. n \in trimmed' + 1 .. j /\ j \in Nat /\ j <= Len(stream)
            BY <1>3, <2>3
        <3>2. trimmed <= trimmed'
            BY DEF Longer
        <3> HIDE DEF j
        <3>3. n \in trimmed + 1 .. j /\ n \in 1 .. Len(stream)
            BY <1>0, <3>1, <3>2
        <3> QED
            BY <3>3 DEF j
    <2>5. MissedSince(request[c], n)
        BY <1>3, <2>4, MissedBefore
    <2> QED
        BY <2>1, <2>4, <2>5 DEF ReplayedBefore
<1> QED
    BY <1>1, <1>2, <1>3 DEF ReplayedNext

(* What a client with a resume point has missed is in the backlog.          *)
LEMMA BacklogCovers ==
    ASSUME ServerInv, ResumeInv, EpochsInOrder, ResumePoints, ReplayedBefore, ScanCovers,
           NEW c \in SSEConns, home[c] # None,
           request[c].lastSeq # 0, request[c].lastEpoch = epoch[home[c]],
           NEW n \in trimmed + 1 .. joined[c][request[c].channel], MissedSince(request[c], n)
    PROVE  n \in Backlog(home[c], request[c].channel, request[c].lastSeq)
<1> DEFINE r == request[c]
           here == epoch[home[c]]
<1>1. TypeOK /\ SeqUnique /\ HandedSoFar /\ c \in Conns
    BY DEF ServerInv, StreamInv, Conns
<1>2. /\ Len(stream) \in Nat /\ trimmed \in Nat /\ boots \in Nat
      /\ \A i \in 1 .. Len(stream) : stream[i] \in Event
    BY <1>1 DEF TypeOK
<1>3. r.channel \in Channels
    BY <1>1, ResumesInChannel
<1>4. joined[c][r.channel] \in Nat /\ joined[c][r.channel] <= Len(stream)
    BY <1>1, <1>3 DEF TypeOK, ReplayedBefore
<1>5. n \in Nat /\ n <= Len(stream) /\ n \in 1 .. Len(stream) /\ n >= trimmed + 1
    BY <1>2, <1>4
<1>6. n <= trimmed + ScanLimit
    BY <1>2, <1>5, ConstantsAssumption DEF ScanCovers
<1>7. n \in trimmed + 1 .. Smaller(trimmed + ScanLimit, Len(stream))
    BY <1>2, <1>5, <1>6, ConstantsAssumption DEF Smaller
<1>8. PICK m \in 1 .. n : stream[m].channel = r.channel /\ stream[m].seq = r.lastSeq
    BY DEF MissedSince
<1>9. PICK i \in 1 .. Len(stream) :
            stream[i] = [channel |-> r.channel, seq |-> r.lastSeq, epoch |-> r.lastEpoch]
    BY DEF ResumePoints, InStream
<1>10. m \in 1 .. Len(stream) /\ m <= n
    BY <1>5
<1>11. m = i
    BY <1>1, <1>8, <1>9, <1>10 DEF SeqUnique
<1>12. stream[m].epoch = here
    BY <1>9, <1>11
<1>13. home[c] \in Procs /\ Up(home[c])
    BY <1>1 DEF TypeOK, HandedSoFar
<1>14. here = boots
    BY <1>13 DEF EpochsInOrder
<1>15. here <= stream[n].epoch /\ stream[n].epoch <= boots
    BY <1>5, <1>10, <1>12 DEF EpochsInOrder
<1>16. stream[n].epoch \in Nat
    BY <1>2, <1>5 DEF Event
<1>17. stream[n].epoch = here
    BY <1>2, <1>14, <1>15, <1>16
<1> QED
    BY <1>7, <1>17 DEF Backlog, MissedSince

(* Where a subscription starts lies in the stream.                          *)
LEMMA JoinedInStream ==
    ASSUME ServerInv, ReplayedBefore, NEW k \in Clients, NEW p \in Procs, NEW c \in SSEConns,
           Connect(k, p, c)
    PROVE  /\ \A ch \in Channels : joined'[c][ch] <= Len(stream)
           /\ \A d \in SSEConns \ {c} : joined'[d] = joined[d]
<1> USE DEF Conns
<1>1. TypeOK /\ BatchInStream /\ HandedSoFar
    BY DEF ServerInv, StreamInv
<1>2. PICK accepted \in SUBSET {channelOf[k]} :
            joined' = [joined EXCEPT ![c] = [ch \in Channels |->
              IF ch \notin accepted \ connChannels[c] THEN @[ch]
              ELSE IF current[p] = Idle THEN done[p] ELSE done[p] + 1]]
    BY DEF Connect, OpenSSE, Subscribe
<1>3. joined \in [Conns -> [Channels -> Nat]]
    BY <1>1 DEF TypeOK
<1>4. done[p] \in Nat /\ group[p] \in Nat /\ Len(stream) \in Nat
      /\ done[p] <= group[p] /\ group[p] <= Len(stream)
    BY <1>1 DEF TypeOK, BatchInStream
<1>5. current[p] # Idle => done[p] < group[p]
    BY <1>1 DEF HandedSoFar, BatchInStream
<1>6. ASSUME NEW ch \in Channels PROVE joined'[c][ch] <= Len(stream)
    <2>1. joined'[c][ch] \in {joined[c][ch], done[p]}
          \/ (current[p] # Idle /\ joined'[c][ch] = done[p] + 1)
        BY <1>2, <1>3
    <2>2. joined[c][ch] <= Len(stream)
        BY DEF ReplayedBefore
    <2> QED
        BY <1>4, <1>5, <2>1, <2>2
<1>7. \A d \in SSEConns \ {c} : joined'[d] = joined[d]
    BY <1>2, <1>3
<1> QED
    BY <1>6, <1>7

LEMMA ReplayedStep ==
    ASSUME ServerInv, ResumeInv, EpochsInOrder, ResumePoints, ReplayedBefore, ScanCovers,
           [ResumeNext]_resumeVars
    PROVE  ReplayedBefore'
<1> USE DEF endpointVars, clientVars, Conns
<1>0. /\ ResumeTypeOK /\ TypeOK /\ None \notin SSEConns
      /\ Len(stream') \in Nat /\ trimmed' \in Nat
    <2>1. TypeOK /\ ResumeTypeOK /\ TypeOK'
        BY StepOfStream, TypeStep DEF ServerInv, StreamInv, ResumeInv
    <2> QED
        BY <2>1, ConstantsAssumption DEF TypeOK
<1>1. Longer
    BY <1>0, StepOfStream, StreamLonger
<1>2. SUFFICES ASSUME NEW d \in SSEConns PROVE ReplayedNext(d)
    BY DEF ReplayedBefore, ReplayedNext, Resumes, ResumesNext, MissedSince, MissedNext
<1>3. ASSUME ConnsKept, request'[d] = request[d], phase'[d] = phase[d],
             written'[d] = written[d]
      PROVE  ReplayedNext(d)
    <2>1. joined'[d] = joined[d]
          /\ (home'[d] # None => /\ home'[d] = home[d]
                                 /\ epoch'[home[d]] = epoch[home[d]]
                                 /\ received'[d] = received[d])
        BY <1>3 DEF ConnsKept
    <2> QED
        BY <1>0, <1>1, <1>3, <2>1, ReplayedStays
<1>4. CASE ServerStep
    BY <1>3, <1>4, ServerKeeps DEF ServerStep
<1>5. ASSUME NEW c \in SSEConns, NEW p \in Procs, EndStream(p, c) PROVE ReplayedNext(d)
    BY <1>3, <1>5, CloseKeeps DEF EndStream
<1>6. ASSUME NEW k \in Clients,
             OnMessage(k) \/ OnError(k) \/ \E e \in refetching[k] : Refetched(k, e)
      PROVE  ReplayedNext(d)
    BY <1>3, <1>6, NothingServed DEF OnMessage, OnError, Refetched
<1>7. CASE UNCHANGED resumeVars
    BY <1>3, <1>7, NothingServed DEF resumeVars
<1>8. ASSUME UNCHANGED vars, request' = request, ~ResumesNext(d), written[d] \subseteq written'[d]
      PROVE  ReplayedNext(d)
    BY <1>8 DEF vars, ReplayedNext, ReplayedBefore
<1>9. ASSUME NEW c \in SSEConns, StartStream(c) PROVE ReplayedNext(d)
    <2>1. UNCHANGED vars /\ request' = request /\ written' = written
        BY <1>9 DEF StartStream
    <2>2. CASE d # c
        BY <1>0, <1>3, <1>9, <2>1, <2>2, NothingServed DEF StartStream, ResumeTypeOK
    <2>3. CASE d = c
        <3>1. home' = home /\ epoch' = epoch
            BY <2>1 DEF vars
        <3>2. ~ResumesNext(c)
            BY <1>0, <1>9, <2>1, <3>1 DEF StartStream, ResumesNext, ResumeTypeOK
        <3> QED
            BY <1>8, <2>1, <2>3, <3>2
    <2> QED
        BY <2>2, <2>3
<1>10. ASSUME NEW c \in SSEConns, ReplayBacklog(c) PROVE ReplayedNext(d)
    <2> DEFINE missed == Backlog(home[c], request[c].channel, request[c].lastSeq)
    <2>1. UNCHANGED vars /\ request' = request
          /\ written' = [written EXCEPT ![c] = @ \cup missed]
        BY <1>10 DEF ReplayBacklog
    <2>2. CASE d # c
        BY <1>0, <1>3, <1>10, <2>1, <2>2, NothingServed DEF ReplayBacklog, ResumeTypeOK
    <2>3. CASE d = c
        <3>1. written'[c] = written[c] \cup missed
            BY <1>0, <2>1 DEF ResumeTypeOK
        <3>2. UNCHANGED <<home, epoch, stream, trimmed, joined>>
            BY <2>1 DEF vars
        <3>3. ASSUME ResumesNext(c), NEW n \in trimmed + 1 .. joined[c][request[c].channel],
                     MissedSince(request[c], n)
              PROVE  n \in missed
            BY <2>1, <3>2, <3>3, BacklogCovers DEF ResumesNext
        <3>4. ASSUME ResumesNext(c), NEW n \in trimmed' + 1 .. joined'[c][request'[c].channel],
                     MissedNext(request'[c], n)
              PROVE  n \in written'[c]
            <4>1. MissedSince(request[c], n) /\ n \in trimmed + 1 .. joined[c][request[c].channel]
                BY <2>1, <3>2, <3>4 DEF MissedNext, MissedSince
            <4> QED
                BY <3>1, <3>3, <3>4, <4>1
        <3>5. \A ch \in Channels : joined'[c][ch] <= Len(stream')
            BY <3>2 DEF ReplayedBefore
        <3>6. home'[c] # None =>
                \A i \in 1 .. Len(received'[c]) : received'[c][i] \in written'[c]
            BY <2>1, <3>1 DEF ReplayedBefore, vars
        <3> QED
            BY <2>3, <3>4, <3>5, <3>6 DEF ReplayedNext
    <2> QED
        BY <2>2, <2>3
<1>11. ASSUME NEW c \in SSEConns, WriteLive(c) PROVE ReplayedNext(d)
    <2>1. /\ UNCHANGED <<home, epoch, joined, request, phase>>
          /\ queue[c] # <<>>
          /\ received' = [received EXCEPT ![c] = Append(@, Head(queue[c]))]
          /\ written' = [written EXCEPT ![c] = @ \cup {Head(queue[c])}]
        BY <1>11 DEF WriteLive, WriteSSE, procVars
    <2>2. written[d] \subseteq written'[d]
        BY <1>0, <2>1 DEF ResumeTypeOK
    <2>3. \A i \in 1 .. Len(received'[d]) :
                \/ received'[d][i] \in written'[d]
                \/ i \in 1 .. Len(received[d]) /\ received'[d][i] = received[d][i]
        <3>1. CASE d # c
            BY <1>0, <2>1, <3>1 DEF TypeOK
        <3>2. CASE d = c
            <4> DEFINE r == received[c]
                       x == Head(queue[c])
            <4>1. r \in Seq(Nat) /\ x \in Nat
                BY <1>0, <2>1 DEF TypeOK
            <4>2. received'[d] = Append(r, x) /\ x \in written'[d]
                BY <1>0, <2>1, <3>2 DEF TypeOK, ResumeTypeOK
            <4> HIDE DEF r, x
            <4>3. \A i \in 1 .. Len(received'[d]) :
                    received'[d][i] = x \/ (i \in 1 .. Len(r) /\ received'[d][i] = r[i])
                BY <4>1, <4>2, Elements
            <4> QED
                BY <3>2, <4>2, <4>3 DEF r
        <3> QED
            BY <3>1, <3>2
    <2> QED
        BY <1>0, <1>1, <2>1, <2>2, <2>3, ReplayedStays
<1>12. ASSUME NEW k \in Clients, NEW p \in Procs, NEW c \in SSEConns, Connect(k, p, c)
       PROVE  ReplayedNext(d)
    <2>1. /\ UNCHANGED <<received, stream, trimmed, epoch, written>>
          /\ home' = [home EXCEPT ![c] = p] /\ received[c] = <<>>
        BY <1>12, NothingBefore DEF Connect
    <2>2. /\ \A ch \in Channels : joined'[c][ch] <= Len(stream)
          /\ \A x \in SSEConns \ {c} : joined'[x] = joined[x]
        BY <1>12, JoinedInStream
    <2>3. CASE d = c
        <3>1. Len(received'[c]) = 0
            BY <2>1
        <3>2. ~ResumesNext(c)
            BY <1>0, <1>12 DEF Connect, ResumesNext, ResumeTypeOK
        <3> QED
            BY <2>1, <2>2, <2>3, <3>1, <3>2 DEF ReplayedNext
    <2>4. CASE d # c
        <3>1. /\ request'[d] = request[d] /\ phase'[d] = phase[d] /\ written'[d] = written[d]
              /\ joined'[d] = joined[d] /\ home'[d] = home[d] /\ received'[d] = received[d]
            BY <1>0, <1>12, <2>1, <2>2, <2>4 DEF Connect, ResumeTypeOK, TypeOK
        <3> QED
            BY <1>0, <1>1, <2>1, <3>1, ReplayedStays
    <2> QED
        BY <2>3, <2>4
<1> QED
    BY <1>4, <1>5, <1>6, <1>7, <1>9, <1>10, <1>11, <1>12 DEF ResumeNext

LEMMA ReplayedInit == ResumeInit => EpochsInOrder /\ ResumePoints /\ ReplayedBefore
<1> SUFFICES ASSUME ResumeInit PROVE EpochsInOrder /\ ResumePoints /\ ReplayedBefore
    OBVIOUS
<1>1. Init /\ Len(stream) = 0
    BY DEF ResumeInit, Init
<1>2. EpochsInOrder
    BY <1>1 DEF Init, EpochsInOrder, Up
<1>3. \A c \in SSEConns : /\ wire[c] = <<>> /\ request[c].lastSeq = 0 /\ home[c] = None
                          /\ phase[c] = "none"
                          /\ joined[c] = [ch \in Channels |-> 0]
    BY DEF ResumeInit, Init, Conns
<1>4. \A c \in SSEConns : Len(wire[c]) = 0
    BY <1>3
<1>5. ResumePoints
    BY <1>3, <1>4 DEF ResumePoints, ResumeInit
<1>6. ReplayedBefore
    BY <1>1, <1>3 DEF ReplayedBefore, Resumes
<1> QED
    BY <1>2, <1>5, <1>6

LEMMA ReplayedThenLive ==
    ASSUME ServerInv, ResumePoints, ReplayedBefore, NoGapWhileSubscribed
    PROVE  ResumeComplete
<1> SUFFICES ASSUME NEW c \in SSEConns, Resumes(c),
                    request[c].channel \in connChannels[c], queue[c] = <<>>,
                    NEW n \in trimmed + 1 .. done[home[c]], MissedSince(request[c], n)
             PROVE  n \in written[c]
    BY DEF ResumeComplete, Resumes
<1> DEFINE ch == request[c].channel
           j == joined[c][ch]
<1>1. TypeOK /\ c \in Conns
    BY DEF ServerInv, StreamInv, Conns
<1>2. ch \in Channels /\ home[c] \in Procs /\ home[c] # None
    BY <1>1, ResumesInChannel DEF Resumes, TypeOK
<1>3. j \in Nat /\ trimmed \in Nat /\ done[home[c]] \in Nat /\ received[c] \in Seq(Nat)
    BY <1>1, <1>2 DEF TypeOK
<1>4. CASE n <= j
    <2>1. n \in trimmed + 1 .. j
        BY <1>3, <1>4
    <2> QED
        BY <2>1 DEF ReplayedBefore
<1>5. CASE ~(n <= j)
    <2>1. n \in j + 1 .. done[home[c]]
        BY <1>3, <1>5
    <2>2. stream[n].channel = ch
        BY DEF MissedSince
    <2>3. PICK i \in 1 .. Len(Handed(c)) : Handed(c)[i] = n
        BY <1>1, <2>1, <2>2 DEF NoGapWhileSubscribed
    <2>4. Handed(c) = received[c]
        <3> DEFINE r == received[c]
        <3>1. r \in Seq(Nat) /\ Handed(c) = r \o <<>>
            BY <1>3 DEF Handed
        <3> HIDE DEF r
        <3>2. Handed(c) = r
            BY <3>1
        <3> QED
            BY <3>2 DEF r
    <2> QED
        BY <1>2, <2>3, <2>4 DEF ReplayedBefore
<1> QED
    BY <1>4, <1>5

(* With one process, reliable reads and a scan that reaches the end of the  *)
(* stream a client that reconnects is replayed, or sent live, everything of *)
(* its channel that it has missed and the process has dispatched.           *)
THEOREM NothingMissedOnResume ==
    ASSUME ReliableReads, OneProcess
    PROVE  ResumeSpec /\ []ScanCovers => []ResumeComplete
<1> DEFINE Replayed == EpochsInOrder /\ ResumePoints /\ ReplayedBefore
<1>1. Replayed /\ ServerInv /\ ResumeInv /\ ScanCovers /\ [ResumeNext]_resumeVars => Replayed'
    <2> SUFFICES ASSUME Replayed, ServerInv, ResumeInv, ScanCovers, [ResumeNext]_resumeVars
                 PROVE  Replayed'
        OBVIOUS
    <2>1. EpochsInOrder'
        BY StepOfStream, EpochsStep DEF ServerInv
    <2> QED
        BY <2>1, PointsStep, ReplayedStep
<1>2. Replayed /\ ServerInv /\ NoGapWhileSubscribed => ResumeComplete
    BY ReplayedThenLive
<1>3. ResumeInit => Replayed
    BY ReplayedInit
<1>4. ResumeSpec => []NoGapWhileSubscribed
    BY NoSilentGap, ResumeImplementsStream, PTL
<1> HIDE DEF Replayed
<1> QED
    BY <1>1, <1>2, <1>3, <1>4, ServerAlways, ResumeInvariant, PTL DEF ResumeSpec
=============================================================================

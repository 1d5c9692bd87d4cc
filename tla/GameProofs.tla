----------------------------- MODULE GameProofs -----------------------------
(* Theorems about a game: first GameLifecycle, for any number of updaters,  *)
(* pollers, feeds and sweeps, and whatever a provider reports; then the     *)
(* game's flow, FlowPipeline, for any number of runs, attempts and losses.  *)
EXTENDS GameLifecycle, FlowPipeline, TLAPS

Game == [status : GameStatus, played : BOOLEAN, fresh : BOOLEAN, end : BOOLEAN,
         social : BOOLEAN, artifact : Artifact]
Update == [status : GameStatus \cup {None}, end : {"keep", "set", "clear"},
           played : BOOLEAN, fresh : BOOLEAN]

(* What a job is about to write: it archives what has had its timeline and  *)
(* its posts, and takes back to be played only what it has seen open.       *)
TakesBack(w) == w.status \in Pending \cup {"postponed"}
JobInv(j) ==
    /\ job[j].write.status = "archived" => row.artifact # "none" /\ row.social
    /\ TakesBack(job[j].write) => job[j].saw = "open"

GameInv == GameTypeOK /\ \A j \in Jobs : JobInv(j)

(* Updates that a job may decide on, given the row it has read.             *)
Decided(w) ==
    /\ w \in Update
    /\ w.status = "archived" => row.artifact # "none" /\ row.social
    /\ TakesBack(w) => row.status \notin Over
-----------------------------------------------------------------------------
LEMMA InitGame == Init => GameInv
<1> SUFFICES ASSUME Init PROVE GameInv
    OBVIOUS
<1>1. row \in Game
    BY DEF Init, Game, GameStatus, Pending, Artifact
<1>2. job \in [Jobs -> [saw : {"over", "open", None}, write : Update]]
    BY DEF Init, Idle, Nothing, Update
<1>3. \A j \in Jobs : JobInv(j)
    BY GameAssumption DEF Init, Idle, Nothing, JobInv, TakesBack, GameStatus, Pending
<1>4. phase \in Early .. Old /\ reads \in 0 .. MaxReads /\ faults \in 0 .. MaxFaults
    BY GameAssumption DEF Init, Early, Old
<1> QED
    BY <1>1, <1>2, <1>3, <1>4 DEF Init, GameInv, GameTypeOK, Game, Update

LEMMA BeginDecided ==
    ASSUME GameInv, NEW j \in Jobs, NEW w, Decided(w), Begin(j, w),
           UNCHANGED <<phase, row, calling, faults>>, reads' \in 0 .. MaxReads
    PROVE  GameInv'
<1> DEFINE saw == IF row.status \in Over THEN "over" ELSE "open"
<1>1. job' = [job EXCEPT ![j] = [saw |-> saw, write |-> w]]
    BY DEF Begin
<1>2. job' \in [Jobs -> [saw : {"over", "open", None}, write : Update]]
    BY <1>1 DEF GameInv, GameTypeOK, Decided, Update
<1>3. ASSUME NEW i \in Jobs PROVE JobInv(i)'
    <2>1. CASE i = j
        BY <1>1, <2>1 DEF GameInv, GameTypeOK, Decided, JobInv, TakesBack
    <2>2. CASE i # j
        BY <1>1, <2>2 DEF GameInv, GameTypeOK, JobInv, TakesBack
    <2> QED
        BY <2>1, <2>2
<1> QED
    BY <1>2, <1>3 DEF GameInv, GameTypeOK, Update

(* What resolve_status_transition may have a job write.                     *)
LEMMA ResolvedDecided ==
    ASSUME GameTypeOK, NEW reported \in Reports
    PROVE  LET to == ResolveStatusTransition(row.status, reported)
           IN /\ to \in GameStatus
              /\ Changed(to) # "archived"
              /\ row.status \in Over => Changed(to) \notin Pending \cup {"postponed"}
<1>1. /\ row.status \in GameStatus /\ reported \in GameStatus
      /\ reported # "archived" /\ reported \notin Recaps
    BY GameAssumption DEF GameTypeOK, Reports
<1>2. NormalizeStatus(row.status) \in GameStatus
    BY <1>1 DEF NormalizeStatus, GameStatus, Pending
<1>3. CASE NormalizeStatus(row.status) = "archived"
    <2>1. row.status = "archived"
        BY <1>3 DEF NormalizeStatus
    <2>2. ResolveStatusTransition(row.status, reported) = "archived"
        BY <1>3 DEF ResolveStatusTransition
    <2> QED
        BY <2>1, <2>2, GameAssumption DEF Changed, GameStatus, Pending
<1>4. CASE NormalizeStatus(row.status) = "final"
    <2>1. row.status = "final"
        BY <1>4 DEF NormalizeStatus
    <2>2. ResolveStatusTransition(row.status, reported) = "final"
        BY <1>1, <1>4 DEF ResolveStatusTransition
    <2> QED
        BY <2>1, <2>2, GameAssumption DEF Changed, GameStatus, Pending
<1>5. CASE NormalizeStatus(row.status) \notin Over
    <2>1. row.status \notin Over
        BY <1>5 DEF NormalizeStatus, Over, Recaps
    <2>2. ResolveStatusTransition(row.status, reported)
              \in {NormalizeStatus(row.status), reported}
        BY <1>5 DEF ResolveStatusTransition, Over
    <2> QED
        BY <1>1, <1>2, <1>5, <2>1, <2>2, GameAssumption DEF Changed, Over, GameStatus
<1> QED
    BY <1>3, <1>4, <1>5 DEF Over

LEMMA ReadFeedStep ==
    ASSUME GameInv, NEW j \in Jobs, ReadFeed(j)
    PROVE  GameInv'
<1>1. PICK reported \in Reports, played \in BOOLEAN :
         Begin(j, [Nothing EXCEPT
                     !.status = Changed(ResolveStatusTransition(row.status, reported)),
                     !.played = played, !.fresh = played])
    BY DEF ReadFeed
<1> DEFINE to == ResolveStatusTransition(row.status, reported)
           w == [Nothing EXCEPT !.status = Changed(to), !.played = played, !.fresh = played]
<1>2. /\ to \in GameStatus /\ Changed(to) # "archived"
      /\ row.status \in Over => Changed(to) \notin Pending \cup {"postponed"}
    BY ResolvedDecided DEF GameInv
<1>3. Decided(w)
    <2> HIDE DEF to
    <2> QED
        BY <1>2 DEF Decided, Nothing, Update, Changed, TakesBack
<1>4. reads' \in 0 .. MaxReads
    BY GameAssumption DEF ReadFeed, GameInv, GameTypeOK
<1> QED
    BY <1>1, <1>3, <1>4, BeginDecided DEF ReadFeed

LEMMA ReadPollStep ==
    ASSUME GameInv, NEW j \in Jobs, ReadPoll(j)
    PROVE  GameInv'
<1>1. PICK reported \in Reports, plays \in BOOLEAN :
         LET resolved == ResolveStatusTransition(row.status, reported)
             to == IF resolved = "pregame" /\ plays THEN "live" ELSE resolved
             fetched == plays /\ resolved \in {"pregame", "live", "final"}
         IN Begin(j, [status |-> Changed(to), end |-> EndOf(to),
                      played |-> fetched, fresh |-> fetched])
    BY DEF ReadPoll
<1> DEFINE resolved == ResolveStatusTransition(row.status, reported)
           to == IF resolved = "pregame" /\ plays THEN "live" ELSE resolved
           fetched == plays /\ resolved \in {"pregame", "live", "final"}
           w == [status |-> Changed(to), end |-> EndOf(to),
                 played |-> fetched, fresh |-> fetched]
<1>2. resolved \in GameStatus /\ Changed(resolved) # "archived"
    BY ResolvedDecided DEF GameInv
<1>3. row.status \notin Over
    BY DEF ReadPoll, Over
<1>4. Decided(w)
    <2> HIDE DEF resolved
    <2>1. to \in GameStatus /\ Changed(to) # "archived"
        BY <1>2, GameAssumption DEF GameStatus, Pending, Changed
    <2>2. EndOf(to) \in {"keep", "set", "clear"}
        BY DEF EndOf
    <2>3. fetched \in BOOLEAN
        OBVIOUS
    <2> HIDE DEF to, fetched
    <2> QED
        BY <1>3, <2>1, <2>2, <2>3 DEF Decided, Update, Changed, TakesBack
<1> QED
    BY <1>1, <1>4, BeginDecided DEF ReadPoll, GameInv, GameTypeOK

LEMMA ReadRepairStep ==
    ASSUME GameInv, NEW j \in Jobs, ReadRepair(j)
    PROVE  GameInv'
<1>1. PICK reported \in Reports :
         LET to == ResolveStatusTransition(row.status, reported)
         IN Begin(j, [Nothing EXCEPT !.status = Changed(to), !.end = EndOf(to)])
    BY DEF ReadRepair
<1> DEFINE to == ResolveStatusTransition(row.status, reported)
           w == [Nothing EXCEPT !.status = Changed(to), !.end = EndOf(to)]
<1>2. to \in GameStatus /\ Changed(to) # "archived"
    BY ResolvedDecided DEF GameInv
<1>3. row.status \notin Over
    BY DEF ReadRepair, Over
<1>4. EndOf(to) \in {"keep", "set", "clear"}
    BY DEF EndOf
<1>5. Decided(w)
    <2> HIDE DEF to
    <2> QED
        BY <1>2, <1>3, <1>4 DEF Decided, Nothing, Update, Changed, TakesBack
<1> QED
    BY <1>1, <1>5, BeginDecided DEF ReadRepair, GameInv, GameTypeOK

LEMMA ReadArchiveStep ==
    ASSUME GameInv, NEW j \in Jobs, ReadArchive(j)
    PROVE  GameInv'
<1>1. Decided([Nothing EXCEPT !.status = "archived"])
    BY DEF ReadArchive, Archivable, Decided, Nothing, Update, TakesBack, GameStatus, Pending
<1> QED
    BY <1>1, BeginDecided DEF ReadArchive, GameInv, GameTypeOK

LEMMA ReadUpdateStep ==
    ASSUME GameInv, NEW j \in Jobs, ReadUpdate(j)
    PROVE  GameInv'
<1> DEFINE s == Promoted(row.status)
           to == IF Archivable(s) THEN "archived" ELSE IF Overdue(s) THEN "final" ELSE s
           cancel == [Nothing EXCEPT !.status = "cancelled", !.end = "clear"]
           promote == [Nothing EXCEPT !.status = Changed(to),
                                      !.end = IF Overdue(s) THEN "set" ELSE "keep"]
<1>1. row.status \in GameStatus
    BY DEF GameInv, GameTypeOK
<1>2. /\ s \in GameStatus
      /\ s = row.status \/ row.status \notin Over
      /\ s = "archived" => row.status = "archived"
    BY <1>1 DEF Promoted, GameStatus, Pending, Over
<1>3. Decided(cancel)
    BY DEF Decided, Nothing, Update, TakesBack, GameStatus, Pending
<1>4. Decided(promote)
    <2>1. to \in GameStatus
        BY <1>2 DEF GameStatus, Pending
    <2>2. Changed(to) = "archived" => row.artifact # "none" /\ row.social
        BY <1>2, GameAssumption DEF Changed, Archivable, GameStatus, Pending
    <2>3. Changed(to) \in Pending \cup {"postponed"} => row.status \notin Over
        BY <1>1, <1>2, GameAssumption DEF Changed, GameStatus, Pending
    <2> HIDE DEF to, s
    <2> QED
        BY <2>1, <2>2, <2>3 DEF Decided, Nothing, Update, Changed, TakesBack
<1>5. Begin(j, cancel) \/ Begin(j, promote)
    BY DEF ReadUpdate
<1> QED
    BY <1>3, <1>4, <1>5, BeginDecided DEF ReadUpdate, GameInv, GameTypeOK
-----------------------------------------------------------------------------
LEMMA CommitStep ==
    ASSUME GameInv, NEW j \in Jobs, Commit(j)
    PROVE  GameInv'
<1> DEFINE w == job[j].write
<1>1. w \in Update /\ row \in Game
    BY DEF GameInv, GameTypeOK, Update, Game
<1>2. row' \in Game
    <2> DEFINE to == IF w.status = None THEN row.status ELSE w.status
               end == w.end = "set" \/ (w.end = "keep" /\ row.end)
               played == row.played \/ w.played
               fresh == row.fresh \/ w.fresh
    <2>1. row' = [row EXCEPT !.status = to, !.end = end, !.played = played, !.fresh = fresh]
        BY DEF Commit, Written
    <2>2. to \in GameStatus
        BY <1>1 DEF Update, Game
    <2>3. end \in BOOLEAN /\ played \in BOOLEAN /\ fresh \in BOOLEAN
        OBVIOUS
    <2> HIDE DEF to, end, played, fresh
    <2> QED
        BY <1>1, <2>1, <2>2, <2>3 DEF Game
<1>3. row'.artifact = row.artifact /\ row'.social = row.social
    BY <1>1 DEF Commit, Written, Game
<1>4. row'.status = "archived" => row'.artifact # "none" /\ row'.social
    BY <1>1, <1>3 DEF Commit, Written, Game, GameInv, GameTypeOK, JobInv
<1>5. job' = [job EXCEPT ![j] = Idle]
    BY DEF Commit
<1>6. job' \in [Jobs -> [saw : {"over", "open", None}, write : Update]]
    BY <1>5 DEF GameInv, GameTypeOK, Idle, Nothing, Update
<1>7. ASSUME NEW i \in Jobs PROVE JobInv(i)'
    BY <1>3, <1>5, GameAssumption
    DEF GameInv, GameTypeOK, JobInv, TakesBack, Idle, Nothing, GameStatus, Pending
<1>8. calling' \in BOOLEAN
    BY DEF Commit, GameInv, GameTypeOK
<1> QED
    BY <1>2, <1>4, <1>6, <1>7, <1>8 DEF Commit, GameInv, GameTypeOK, Game, Update

LEMMA RollbackStep ==
    ASSUME GameInv, NEW j \in Jobs, Rollback(j)
    PROVE  GameInv'
<1>1. job' = [job EXCEPT ![j] = Idle]
    BY DEF Rollback
<1>2. job' \in [Jobs -> [saw : {"over", "open", None}, write : Update]]
    BY <1>1 DEF GameInv, GameTypeOK, Idle, Nothing, Update
<1>3. ASSUME NEW i \in Jobs PROVE JobInv(i)'
    BY <1>1, GameAssumption
    DEF Rollback, GameInv, GameTypeOK, JobInv, TakesBack, Idle, Nothing, GameStatus, Pending
<1>4. faults' \in 0 .. MaxFaults
    BY GameAssumption DEF Rollback, GameInv, GameTypeOK
<1> QED
    BY <1>2, <1>3, <1>4 DEF Rollback, GameInv, GameTypeOK, Update

(* Steps that leave the jobs alone.                                         *)
LEMMA OtherStep ==
    ASSUME GameInv,
           \/ SetRecap \/ LoseTrigger \/ GenerateTimeline \/ DropTimeline
           \/ SocialScrape2 \/ FallSilent \/ Elapse \/ UNCHANGED vars
    PROVE  GameInv'
<1>1. job' = job
    BY DEF SetRecap, LoseTrigger, GenerateTimeline, DropTimeline, SocialScrape2, FallSilent,
           Elapse, vars
<1>2. row \in Game
    BY DEF GameInv, GameTypeOK, Game
<1>3. row' \in Game
    BY <1>2 DEF SetRecap, LoseTrigger, GenerateTimeline, DropTimeline, SocialScrape2, FallSilent,
                Elapse, vars, Game, GameStatus, Pending, Recaps, Artifact
<1>4. (row.artifact # "none" => row'.artifact # "none") /\ (row.social => row'.social)
    BY <1>2
    DEF SetRecap, LoseTrigger, GenerateTimeline, DropTimeline, SocialScrape2, FallSilent,
        Elapse, vars, Game
<1>5. row'.status = "archived" => row.status = "archived"
    BY <1>2
    DEF SetRecap, LoseTrigger, GenerateTimeline, DropTimeline, SocialScrape2, FallSilent,
        Elapse, vars, Game
<1>6. phase' \in Early .. Old
    BY DEF SetRecap, LoseTrigger, GenerateTimeline, DropTimeline, SocialScrape2, FallSilent,
           Elapse, vars, GameInv, GameTypeOK, Early, Old
<1>7. reads' \in 0 .. MaxReads /\ faults' \in 0 .. MaxFaults
    BY GameAssumption
    DEF SetRecap, LoseTrigger, GenerateTimeline, DropTimeline, SocialScrape2, FallSilent,
        Elapse, vars, GameInv, GameTypeOK
<1>8. calling' \in BOOLEAN
    BY DEF SetRecap, LoseTrigger, GenerateTimeline, DropTimeline, SocialScrape2, FallSilent,
           Elapse, vars, GameInv, GameTypeOK
<1> QED
    BY <1>1, <1>3, <1>4, <1>5, <1>6, <1>7, <1>8
    DEF GameInv, GameTypeOK, JobInv, TakesBack, Game

LEMMA NextGame == GameInv /\ [Next]_vars => GameInv'
<1> SUFFICES ASSUME GameInv, [Next]_vars PROVE GameInv'
    OBVIOUS
<1>1. ASSUME NEW j \in Updaters, ReadUpdate(j) PROVE GameInv'
    BY <1>1, ReadUpdateStep DEF Jobs
<1>2. ASSUME NEW j \in Pollers, ReadPoll(j) PROVE GameInv'
    BY <1>2, ReadPollStep DEF Jobs
<1>3. ASSUME NEW j \in Feeds, ReadFeed(j) PROVE GameInv'
    BY <1>3, ReadFeedStep DEF Jobs
<1>4. ASSUME NEW j \in Repairs, ReadRepair(j) \/ ReadArchive(j) PROVE GameInv'
    BY <1>4, ReadRepairStep, ReadArchiveStep DEF Jobs
<1>5. ASSUME NEW j \in Jobs, Commit(j) \/ Rollback(j) PROVE GameInv'
    BY <1>5, CommitStep, RollbackStep
<1>6. CASE ReadTrigger
    <2>1. Decided([Nothing EXCEPT !.status = "recap_pending"])
        BY DEF Decided, Nothing, Update, TakesBack, GameStatus, Pending, Recaps
    <2>2. Trigger \in Jobs
        BY DEF Jobs
    <2> QED
        BY <1>6, <2>1, <2>2, BeginDecided DEF ReadTrigger, GameInv, GameTypeOK
<1> QED
    BY <1>1, <1>2, <1>3, <1>4, <1>5, <1>6, OtherStep DEF Next

THEOREM GameInvariant == Spec => []GameInv
BY InitGame, NextGame, PTL DEF Spec

(* Rows and jobs keep their types, and what is archived has had its posts   *)
(* and its timeline, although the sweep and the updater archive apart, late *)
(* and beside reviewers who delete a timeline.                              *)
THEOREM TypeCorrect == Spec => []GameTypeOK
<1>1. GameInv => GameTypeOK
    BY DEF GameInv
<1> QED
    BY <1>1, GameInvariant, PTL
-----------------------------------------------------------------------------
LateCommit ==
    row.status \in Over /\ row'.status \in Pending \cup {"postponed"} =>
         \E j \in Jobs : job[j].saw = "open" /\ job'[j] = Idle

LEMMA OnlyCommitsTakeBack ==
    ASSUME GameInv, Next
    PROVE  LateCommit
<1> SUFFICES ASSUME row.status \in Over, row'.status \in Pending \cup {"postponed"}
             PROVE  \E j \in Jobs : job[j].saw = "open" /\ job'[j] = Idle
    BY DEF LateCommit
<1>1. row \in Game
    BY DEF GameInv, GameTypeOK, Game
<1>2. row'.status # row.status /\ row'.status \notin Recaps
    BY DEF Over, Pending, Recaps
<1>3. CASE \E j \in Jobs : Commit(j)
    <2>1. PICK j \in Jobs : Commit(j)
        BY <1>3
    <2>2. row'.status = job[j].write.status
        BY <1>1, <1>2, <2>1 DEF Commit, Written, Game
    <2>3. job[j].saw = "open"
        BY <2>2 DEF GameInv, JobInv, TakesBack
    <2>4. job'[j] = Idle
        BY <2>1 DEF Commit, GameInv, GameTypeOK
    <2> QED
        BY <2>3, <2>4
<1>4. CASE SetRecap
    BY <1>1, <1>2, <1>4 DEF SetRecap, Game, Recaps
<1>5. CASE GenerateTimeline \/ DropTimeline \/ SocialScrape2 \/ FallSilent
    BY <1>1, <1>2, <1>5 DEF GenerateTimeline, DropTimeline, SocialScrape2,
                               FallSilent, Game
<1>6. CASE UNCHANGED row
    BY <1>2, <1>6
<1> QED
    BY <1>3, <1>4, <1>5, <1>6
    DEF Next, ReadUpdate, ReadPoll, ReadFeed, ReadRepair, ReadArchive, Rollback, ReadTrigger,
        LoseTrigger, Elapse

(* A game goes back from final or archived only by the commit of a job that *)
(* read it before it was over: resolve_status_transition and the updater    *)
(* never decide on that.                                                    *)
THEOREM FinalGamesHold == Spec => FinalHolds
<1>1. GameInv /\ [Next]_vars => [LateCommit]_vars
    BY OnlyCommitsTakeBack
<1> QED
    BY <1>1, GameInvariant, PTL DEF Spec, FinalHolds, LateCommit
-----------------------------------------------------------------------------
(* THE FLOW                                                                 *)

Call == [pc : {"idle", "work", "write", "commit", "gone"},
         client : Clients \cup {Absent},
         attempt : Attempts, inserts : BOOLEAN, template : BOOLEAN]

(* What a grader holds the content of is there to be written to.            *)
GradersInv == \A g \in gradings : g.of # Absent => flow # Absent

(* The trigger waits for one run; of the others, no client is the trigger.  *)
OneTriggered ==
    \A q, r \in Runs : call[q].client = "trigger" /\ call[r].client = "trigger" => q = r

(* The part of it that is about calls and the trigger.                      *)
CallsOK ==
    /\ trigger \in {"idle", "call", "wait", "ready", "failed"}
    /\ call \in [Runs -> Call]
    /\ runs \in 0 .. MaxRuns
    /\ \A r \in Runs : r > runs => call[r] = NoCall
    /\ trigger = "wait" <=> \E r \in Runs : call[r].client = "trigger"
    /\ trigger # "idle" => locked
    /\ OneTriggered

(* The part that is about what is written and graded.                       *)
FlowOK ==
    /\ flow \in Flow \cup {Absent}
    /\ grades \subseteq Grade /\ regens \subseteq Attempts
    /\ gradings \subseteq Grading
    /\ GradersInv

(* And the counters.                                                        *)
CountsOK ==
    /\ status \in Statuses
    /\ locked \in BOOLEAN /\ queued \in 0 .. MaxQueued
    /\ excused \subseteq {"grade", "regen", "late"}
    /\ losses \in 0 .. MaxLosses

FlowInv == CallsOK /\ FlowOK /\ CountsOK
-----------------------------------------------------------------------------
LEMMA InitFlow == FlowInit => FlowInv
<1> SUFFICES ASSUME FlowInit PROVE FlowInv
    OBVIOUS
<1>1. MaxRuns \in Nat /\ MaxAttempts \in Nat /\ MaxQueued \in Nat /\ MaxLosses \in Nat
    BY FlowAssumption
<1>2. NoCall \in Call
    BY <1>1 DEF NoCall, Call, Clients, Attempts
<1>3. NoCall.client # "trigger"
    BY FlowAssumption DEF NoCall, Clients
<1>4. CallsOK
    <2>1. call \in [Runs -> Call] /\ \A r \in Runs : call[r] = NoCall
        BY <1>2 DEF FlowInit
    <2>2. runs = 0 /\ trigger = "idle"
        BY DEF FlowInit
    <2>3. \A r \in Runs : call[r].client # "trigger"
        BY <1>3, <2>1
    <2>4. runs \in 0 .. MaxRuns
        BY <1>1, <2>2
    <2> QED
        BY <2>1, <2>2, <2>3, <2>4 DEF CallsOK, OneTriggered
<1>5. FlowOK
    BY DEF FlowInit, FlowOK, GradersInv
<1>6. CountsOK
    <2>1. status \in Statuses /\ queued \in 0 .. MaxQueued /\ losses \in 0 .. MaxLosses
        BY <1>1 DEF FlowInit, Statuses
    <2>2. locked = FALSE /\ excused = {}
        BY DEF FlowInit
    <2> QED
        BY <2>1, <2>2 DEF CountsOK
<1> QED
    BY <1>4, <1>5, <1>6 DEF FlowInv
-----------------------------------------------------------------------------
(* Calls whose clients stay: the runs go on, and nobody else waits.         *)
LEMMA ClientsStay ==
    ASSUME CallsOK, UNCHANGED <<trigger, runs, locked>>,
           call' \in [Runs -> Call],
           \A r \in Runs : call'[r].client = call[r].client,
           \A r \in Runs : call[r] = NoCall => call'[r] = NoCall
    PROVE  CallsOK'
BY DEF CallsOK, OneTriggered

LEMMA CallGoesOn ==
    ASSUME CallsOK, UNCHANGED <<trigger, runs, locked>>,
           NEW r \in Runs, call[r] # NoCall, NEW c \in Call, c.client = call[r].client,
           call' = [call EXCEPT ![r] = c]
    PROVE  CallsOK'
<1>1. /\ call' \in [Runs -> Call] /\ call'[r] = c
      /\ \A q \in Runs : q # r => call'[q] = call[q]
    BY DEF CallsOK
<1> QED
    BY <1>1, ClientsStay

LEMMA BegunCalls ==
    ASSUME CallsOK, NEW client \in Clients, NEW attempt \in Attempts,
           BeginRun(client, attempt), locked' = locked,
           client = "trigger" => trigger = "call" /\ trigger' = "wait",
           client # "trigger" => trigger' = trigger
    PROVE  CallsOK'
<1> DEFINE new == [NoCall EXCEPT !.pc = "work", !.client = client, !.attempt = attempt]
<1>1. new \in Call /\ new.client = client
    BY DEF NoCall, Call
<1>2. /\ call' = [call EXCEPT ![runs + 1] = new]
      /\ runs' = runs + 1 /\ runs < MaxRuns /\ runs \in 0 .. MaxRuns
      /\ call \in [Runs -> Call] /\ MaxRuns \in Nat
    BY FlowAssumption DEF BeginRun, CallsOK
<1> HIDE DEF new
<1>3. runs + 1 \in Runs /\ runs' \in 0 .. MaxRuns
    BY <1>2 DEF Runs
<1>4. /\ call' \in [Runs -> Call]
      /\ call'[runs + 1] = new
      /\ \A r \in Runs : r # runs + 1 => call'[r] = call[r]
    BY <1>1, <1>2, <1>3
<1>5. \A r \in Runs : r > runs' => call'[r] = NoCall
    <2> SUFFICES ASSUME NEW r \in Runs, r > runs' PROVE call'[r] = NoCall
        OBVIOUS
    <2>1. r > runs /\ r # runs + 1
        BY <1>2 DEF Runs
    <2> QED
        BY <1>4, <2>1 DEF CallsOK
<1>6. \A r \in Runs : call[r] = NoCall => call[r].client # "trigger"
    BY FlowAssumption DEF NoCall, Clients
<1>7. call[runs + 1] = NoCall
    BY <1>2, <1>3 DEF CallsOK
<1>8. CASE client = "trigger"
    <2>1. \A r \in Runs : call[r].client # "trigger"
        BY <1>8 DEF CallsOK
    <2>2. \A r \in Runs : call'[r].client = "trigger" <=> r = runs + 1
        BY <1>1, <1>4, <1>8, <2>1
    <2>3. trigger' = "wait" /\ locked'
        BY <1>8 DEF CallsOK
    <2> QED
        BY <1>3, <1>4, <1>5, <2>2, <2>3 DEF CallsOK, OneTriggered
<1>9. CASE client # "trigger"
    <2>1. \A r \in Runs : call'[r].client = "trigger" <=> call[r].client = "trigger"
        BY <1>1, <1>4, <1>6, <1>7, <1>9
    <2>2. trigger' = trigger
        BY <1>9
    <2> QED
        BY <1>3, <1>4, <1>5, <2>1, <2>2 DEF CallsOK, OneTriggered
<1> QED
    BY <1>8, <1>9

(* A client of r who stops waiting or has an answer: if it was the trigger, *)
(* nobody waits for it any more.                                            *)
LEMMA ReleasedCalls ==
    ASSUME CallsOK, NEW r \in Runs, call[r] # NoCall, NEW c \in Call,
           c.client # "trigger", call' = [call EXCEPT ![r] = c],
           UNCHANGED <<runs, locked>>,
           trigger' \in {"ready", "failed"} \/ call[r].client # "trigger",
           call[r].client = "trigger" \/ trigger' = trigger
    PROVE  CallsOK'
<1>1. /\ call \in [Runs -> Call]
      /\ call' \in [Runs -> Call] /\ call'[r] = c
      /\ \A q \in Runs : q # r => call'[q] = call[q]
    BY DEF CallsOK
<1>2. \A q \in Runs : q > runs' => call'[q] = NoCall
    BY <1>1 DEF CallsOK
<1>3. CASE call[r].client = "trigger"
    <2>1. \A q \in Runs : call'[q].client # "trigger"
        BY <1>1, <1>3 DEF CallsOK, OneTriggered
    <2>2. trigger' \in {"ready", "failed"} /\ locked'
        BY <1>3 DEF CallsOK
    <2> QED
        BY <1>1, <1>2, <2>1, <2>2 DEF CallsOK, OneTriggered
<1>4. CASE call[r].client # "trigger"
    <2>1. \A q \in Runs : call'[q].client = "trigger" <=> call[q].client = "trigger"
        BY <1>1, <1>4
    <2>2. trigger' = trigger
        BY <1>4
    <2> QED
        BY <1>1, <1>2, <2>1, <2>2 DEF CallsOK, OneTriggered
<1> QED
    BY <1>3, <1>4

LEMMA EndedCalls ==
    ASSUME CallsOK, NEW r \in Runs, call[r].pc # "idle",
           NEW error \in BOOLEAN, End(r, error), UNCHANGED <<runs, locked>>
    PROVE  CallsOK'
<1>1. call' = [call EXCEPT ![r] = NoCall] /\ NoCall \in Call /\ NoCall.client # "trigger"
    BY FlowAssumption DEF End, NoCall, Call, Clients, Attempts
<1>2. call[r] # NoCall
    BY DEF NoCall
<1>3. /\ trigger' \in {"ready", "failed"} \/ call[r].client # "trigger"
      /\ call[r].client = "trigger" \/ trigger' = trigger
    BY DEF End
<1> QED
    BY <1>1, <1>2, <1>3, ReleasedCalls

(* Who is to run again has an attempt that is allowed.                      *)
LEMMA RetriedAttempts ==
    ASSUME CallsOK, regens \subseteq Attempts, NEW r \in Runs
    PROVE  \A again \in {regens} \cup Retried(r) : again \subseteq Attempts
<1>1. call[r].attempt \in Attempts
    BY DEF CallsOK, Call
<1> QED
    BY <1>1 DEF Retried

LEMMA EndedRegens ==
    ASSUME CallsOK, regens \subseteq Attempts, NEW r \in Runs, NEW error \in BOOLEAN,
           End(r, error)
    PROVE  regens' \subseteq Attempts
BY RetriedAttempts DEF End
-----------------------------------------------------------------------------
LEMMA CallsStep == FlowInv /\ FlowNext => CallsOK'
<1> SUFFICES ASSUME FlowInv, FlowNext PROVE CallsOK'
    OBVIOUS
<1>1. CallsOK /\ FlowOK /\ CountsOK
    BY DEF FlowInv
<1>2. CASE \/ DispatchEarly \/ GoFinal \/ Refeed \/ SweepFlows
           \/ GraderStep \/ \E g \in gradings : LoseGrader(g)
    <2>1. UNCHANGED <<call, runs, trigger, locked>>
        BY <1>2 DEF DispatchEarly, GoFinal, Refeed, SweepFlows, GraderStep,
                    FetchFlow, ScoreFlow, ApplyFallback, LoseGrader
    <2> QED
        BY <1>1, <2>1, ClientsStay DEF CallsOK
<1>3. CASE StartTrigger
    <2>1. /\ UNCHANGED <<call, runs>> /\ trigger = "idle" /\ locked'
          /\ trigger' \in {"idle", "call"}
        BY <1>3 DEF StartTrigger
    <2> QED
        BY <1>1, <2>1 DEF CallsOK, OneTriggered
<1>4. CASE CallPipeline
    <2>1. CASE BeginRun("trigger", 0) /\ trigger' = "wait"
        <3>1. trigger = "call" /\ locked' = locked
            BY <1>4 DEF CallPipeline
        <3>2. "trigger" \in Clients /\ 0 \in Attempts
            BY FlowAssumption DEF Clients, Attempts
        <3> QED
            BY <1>1, <2>1, <3>1, <3>2, BegunCalls
    <2>2. CASE trigger' = "ready" /\ UNCHANGED <<call, runs>>
        <3>1. trigger = "call" /\ locked' = locked
            BY <1>4 DEF CallPipeline
        <3> QED
            BY <1>1, <2>2, <3>1 DEF CallsOK, OneTriggered
    <2> QED
        BY <1>4, <2>1, <2>2 DEF CallPipeline
<1>5. CASE EndTrigger
    <2>1. /\ UNCHANGED <<call, runs>>
          /\ trigger \in {"ready", "failed"} /\ trigger' = "idle"
        BY <1>5 DEF EndTrigger
    <2> QED
        BY <1>1, <2>1 DEF CallsOK, OneTriggered
<1>6. CASE DropTrigger
    <2>1. /\ UNCHANGED <<runs, locked>> /\ trigger' = "idle"
          /\ call' = [r \in Runs |-> IF call[r].client = "trigger"
                                     THEN [call[r] EXCEPT !.client = "other"] ELSE call[r]]
        BY <1>6 DEF DropTrigger
    <2>2. \A r \in Runs : call[r] \in Call
        BY <1>1 DEF CallsOK
    <2>3. \A c \in Call : /\ [c EXCEPT !.client = "other"] \in Call
                          /\ [c EXCEPT !.client = "other"].client = "other"
        BY DEF Call, Clients
    <2>4. call' \in [Runs -> Call] /\ \A r \in Runs : call'[r].client # "trigger"
        BY <2>1, <2>2, <2>3
    <2>5. \A r \in Runs : call[r] = NoCall => call'[r] = NoCall
        BY <2>1, FlowAssumption DEF NoCall, Clients
    <2> QED
        BY <1>1, <2>1, <2>4, <2>5 DEF CallsOK, OneTriggered
<1>7. CASE ExpireLock
    BY <1>1, <1>7 DEF ExpireLock, CallsOK, OneTriggered
<1>8. CASE StartRun
    <2>1. /\ BeginRun("other", 0) /\ UNCHANGED <<trigger, locked>>
        BY <1>8 DEF StartRun
    <2>2. "other" \in Clients /\ 0 \in Attempts
        BY FlowAssumption DEF Clients, Attempts
    <2> QED
        BY <1>1, <2>1, <2>2, BegunCalls
<1>9. CASE StartRegen
    <2>1. PICK attempt \in regens :
             /\ BeginRun("regen", attempt) \/ UNCHANGED <<call, runs>>
             /\ UNCHANGED <<trigger, locked>>
        BY <1>9 DEF StartRegen
    <2>2. "regen" \in Clients /\ attempt \in Attempts
        BY <1>1 DEF Clients, FlowOK
    <2>3. CASE BeginRun("regen", attempt)
        BY <1>1, <2>1, <2>2, <2>3, BegunCalls
    <2>4. CASE UNCHANGED <<call, runs>>
        BY <1>1, <2>1, <2>4, ClientsStay DEF CallsOK
    <2> QED
        BY <2>1, <2>3, <2>4
<1>10. ASSUME NEW r \in Runs, RunStep(r) \/ TimeOut(r) \/ LoseRun(r) PROVE CallsOK'
    <2>1. CASE EndWithoutFlow(r) \/ Conflict(r) \/ CommitRun(r) \/ LoseRun(r)
        <3>1. PICK error \in BOOLEAN : End(r, error)
            BY <2>1 DEF EndWithoutFlow, Conflict, CommitRun, LoseRun
        <3>2. call[r].pc # "idle" /\ UNCHANGED <<runs, locked>>
            BY <2>1 DEF EndWithoutFlow, Conflict, CommitRun, LoseRun
        <3> QED
            BY <1>1, <3>1, <3>2, EndedCalls
    <2>2. CASE FindFlow(r)
        <3>1. /\ call' = [call EXCEPT ![r].pc = "write", ![r].inserts = (flow = Absent)]
              /\ call[r].pc = "work" /\ UNCHANGED <<trigger, runs, locked>>
            BY <2>2 DEF FindFlow
        <3> DEFINE c == [call[r] EXCEPT !.pc = "write", !.inserts = (flow = Absent)]
        <3>2. c \in Call /\ c.client = call[r].client
            BY <1>1 DEF CallsOK, Call
        <3>3. call[r] # NoCall
            BY <3>1 DEF NoCall
        <3>4. call \in [Runs -> Call]
            BY <1>1 DEF CallsOK
        <3>5. call' = [call EXCEPT ![r] = c]
            BY <3>1, <3>4
        <3> QED
            BY <1>1, <3>1, <3>2, <3>3, <3>5, CallGoesOn
    <2>3. CASE WriteFlow(r)
        <3>1. PICK template \in BOOLEAN :
                 call' = [call EXCEPT ![r].pc = "commit", ![r].template = template]
            BY <2>3 DEF WriteFlow
        <3>2. call[r].pc = "write" /\ UNCHANGED <<trigger, runs, locked>>
            BY <2>3 DEF WriteFlow
        <3> DEFINE c == [call[r] EXCEPT !.pc = "commit", !.template = template]
        <3>3. c \in Call /\ c.client = call[r].client
            BY <1>1 DEF CallsOK, Call
        <3>4. call[r] # NoCall
            BY <3>2 DEF NoCall
        <3>5. call \in [Runs -> Call]
            BY <1>1 DEF CallsOK
        <3>6. call' = [call EXCEPT ![r] = c]
            BY <3>1, <3>5
        <3> QED
            BY <1>1, <3>2, <3>3, <3>4, <3>6, CallGoesOn
    <2>4. CASE TimeOut(r)
        <3> DEFINE c == [call[r] EXCEPT !.client = "other"]
        <3>1. /\ call' = [call EXCEPT ![r] = c]
              /\ call[r].client \in {"trigger", "regen"}
              /\ trigger' = IF call[r].client = "trigger" THEN "failed" ELSE trigger
              /\ UNCHANGED <<runs, locked>>
            BY <2>4 DEF TimeOut
        <3>2. c \in Call /\ c.client = "other"
            BY <1>1 DEF CallsOK, Call, Clients
        <3>3. call[r] # NoCall
            BY <3>1, FlowAssumption DEF NoCall, Clients
        <3> HIDE DEF c
        <3> QED
            BY <1>1, <3>1, <3>2, <3>3, ReleasedCalls
    <2> QED
        BY <1>10, <2>1, <2>2, <2>3, <2>4 DEF RunStep
<1>11. CASE RejectFlow
    <2>1. /\ UNCHANGED <<trigger, runs, locked>>
          /\ call' = [r \in Runs |-> IF call[r].pc = "write" /\ ~call[r].inserts
                                     THEN [call[r] EXCEPT !.pc = "gone"] ELSE call[r]]
        BY <1>11 DEF RejectFlow
    <2>2. \A c \in Call : /\ [c EXCEPT !.pc = "gone"] \in Call
                          /\ [c EXCEPT !.pc = "gone"].client = c.client
        BY DEF Call
    <2>3. \A r \in Runs : call[r] \in Call
        BY <1>1 DEF CallsOK
    <2>4. call' \in [Runs -> Call] /\ \A r \in Runs : call'[r].client = call[r].client
        BY <2>1, <2>2, <2>3
    <2>5. \A r \in Runs : call[r] = NoCall => call'[r] = NoCall
        BY <2>1 DEF NoCall
    <2> QED
        BY <1>1, <2>1, <2>4, <2>5, ClientsStay
<1> QED
    BY <1>2, <1>3, <1>4, <1>5, <1>6, <1>7, <1>8, <1>9, <1>10, <1>11 DEF FlowNext, TriggerStep

LEMMA CountsStep == FlowInv /\ FlowNext => CountsOK'
<1> SUFFICES ASSUME FlowInv, FlowNext PROVE CountsOK'
    OBVIOUS
<1>1. /\ CountsOK /\ MaxQueued \in Nat /\ MaxLosses \in Nat
    BY FlowAssumption DEF FlowInv
<1>2. ASSUME Loss PROVE losses' \in 0 .. MaxLosses
    BY <1>1, <1>2 DEF Loss, CountsOK
<1>3. CASE DispatchEarly \/ SweepFlows
    <2>1. /\ queued < MaxQueued /\ queued' = queued + 1
          /\ UNCHANGED <<status, locked, excused, losses>>
        BY <1>3 DEF DispatchEarly, SweepFlows
    <2>2. queued' \in 0 .. MaxQueued
        BY <1>1, <2>1 DEF CountsOK
    <2> QED
        BY <1>1, <2>1, <2>2 DEF CountsOK
<1>4. CASE GoFinal
    <2>1. queued' \in 0 .. MaxQueued
        BY <1>1, <1>4 DEF GoFinal, CountsOK
    <2>2. status' = "final" /\ UNCHANGED <<locked, excused, losses>>
        BY <1>4 DEF GoFinal
    <2> QED
        BY <1>1, <2>1, <2>2 DEF CountsOK, Statuses
<1>5. CASE Refeed
    BY <1>1, <1>5 DEF Refeed, CountsOK, Statuses
<1>6. CASE StartTrigger
    <2>1. queued' \in 0 .. MaxQueued
        BY <1>1, <1>6 DEF StartTrigger, CountsOK
    <2>2. status' \in Statuses
        BY <1>1, <1>6 DEF StartTrigger, CountsOK, Statuses
    <2>3. locked' = TRUE /\ UNCHANGED <<excused, losses>>
        BY <1>6 DEF StartTrigger
    <2> QED
        BY <1>1, <2>1, <2>2, <2>3 DEF CountsOK
<1>7. CASE CallPipeline \/ StartRun
    BY <1>1, <1>7 DEF CallPipeline, StartRun, CountsOK
<1>8. CASE EndTrigger
    <2>1. status' \in Statuses /\ locked' \in BOOLEAN
        BY <1>8 DEF EndTrigger, Statuses
    <2> QED
        BY <1>1, <1>8, <2>1 DEF EndTrigger, CountsOK
<1>9. CASE DropTrigger
    BY <1>1, <1>2, <1>9 DEF DropTrigger, CountsOK
<1>10. CASE ExpireLock
    BY <1>1, <1>10 DEF ExpireLock, CountsOK
<1>11. CASE StartRegen
    BY <1>1, <1>11 DEF StartRegen, CountsOK
<1>12. ASSUME NEW r \in Runs, RunStep(r) \/ TimeOut(r) \/ LoseRun(r) PROVE CountsOK'
    <2>1. UNCHANGED <<status, locked, queued>>
        BY <1>12 DEF RunStep, EndWithoutFlow, FindFlow, WriteFlow, Conflict,
                     CommitRun, TimeOut, LoseRun
    <2>2. excused' \in {excused, Excuse(r), excused \cup {"grade", "regen"}, excused \ {"late"}}
        BY <1>12 DEF RunStep, EndWithoutFlow, FindFlow, WriteFlow, Conflict,
                     CommitRun, TimeOut, LoseRun, Lapse
    <2>3. Excuse(r) \in {excused, excused \cup {"regen"}}
        BY DEF Excuse
    <2>4. excused' \subseteq {"grade", "regen", "late"}
        BY <1>1, <2>2, <2>3 DEF CountsOK
    <2>5. Loss \/ losses' = losses
        BY <1>12 DEF RunStep, EndWithoutFlow, FindFlow, WriteFlow, Conflict,
                     CommitRun, TimeOut, LoseRun, Lapse
    <2> QED
        BY <1>1, <1>2, <2>1, <2>4, <2>5 DEF CountsOK
<1>13. CASE FetchFlow \/ RejectFlow
    <2>1. /\ UNCHANGED <<status, locked, queued, losses>>
          /\ excused' \in {excused, excused \cup {"grade", "regen"}}
        BY <1>13 DEF FetchFlow, RejectFlow
    <2> QED
        BY <1>1, <2>1 DEF CountsOK
<1>14. ASSUME NEW g \in gradings, ScoreFlow(g) \/ ApplyFallback(g) \/ LoseGrader(g)
       PROVE  CountsOK'
    <2>1. UNCHANGED <<status, locked, queued>>
        BY <1>14 DEF ScoreFlow, ApplyFallback, LoseGrader
    <2>2. excused' \in {excused, excused \cup {"late"}, excused \cup {"grade", "regen"}}
        BY <1>14 DEF ScoreFlow, ApplyFallback, LoseGrader, Lapse
    <2>3. Loss \/ losses' = losses
        BY <1>14 DEF ScoreFlow, ApplyFallback, LoseGrader, Lapse
    <2> QED
        BY <1>1, <1>2, <2>1, <2>2, <2>3 DEF CountsOK
<1> QED
    BY <1>3, <1>4, <1>5, <1>6, <1>7, <1>8, <1>9, <1>10, <1>11, <1>12, <1>13, <1>14
    DEF FlowNext, TriggerStep, GraderStep

(* A score and a fallback are written to a flow that is there.              *)
LEMMA ScoredFlow ==
    ASSUME FlowOK, NEW g \in gradings, g.of # Absent, NEW low \in BOOLEAN
    PROVE  /\ [flow EXCEPT !.of = g.of, !.low = low] \in Flow
           /\ [flow EXCEPT !.content = Template] \in Flow
<1>1. flow \in Flow /\ g.of \in Contents \cup {Absent}
    BY DEF FlowOK, GradersInv, Grading
<1>2. Template \in Contents
    BY DEF Contents
<1> QED
    BY <1>1, <1>2 DEF Flow

(* What has been done or replaced leaves the other gradings as they were.   *)
LEMMA OtherGradings ==
    ASSUME FlowOK, flow' = flow \/ flow' \in Flow,
           NEW g \in gradings, NEW S \in SUBSET Grading, \A h \in S : h.of = g.of,
           gradings' = (gradings \ {g}) \cup S
    PROVE  gradings' \subseteq Grading /\ GradersInv'
<1>1. gradings' \subseteq Grading
    BY DEF FlowOK
<1>2. Absent \notin Flow
    BY FlowAssumption
<1>3. ASSUME NEW h \in gradings', h.of # Absent PROVE flow' # Absent
    <2>1. \E k \in gradings : k.of = h.of
        OBVIOUS
    <2>2. flow # Absent
        BY <1>3, <2>1 DEF FlowOK, GradersInv
    <2> QED
        BY <1>2, <2>2
<1> QED
    BY <1>1, <1>3 DEF GradersInv

LEMMA DoneGrading ==
    ASSUME FlowOK, flow' = flow \/ flow' \in Flow, NEW g \in gradings,
           gradings' = gradings \ {g}
    PROVE  gradings' \subseteq Grading /\ GradersInv'
<1> DEFINE S == {}
<1>1. S \in SUBSET Grading /\ \A h \in S : h.of = g.of
    OBVIOUS
<1>2. gradings' = (gradings \ {g}) \cup S
    OBVIOUS
<1> HIDE DEF S
<1> QED
    BY <1>1, <1>2, OtherGradings

LEMMA FlowStep == FlowInv /\ FlowNext => FlowOK'
<1> SUFFICES ASSUME FlowInv, FlowNext PROVE FlowOK'
    OBVIOUS
<1>1. CallsOK /\ FlowOK /\ Absent \notin Flow
    BY FlowAssumption DEF FlowInv
<1>2. CASE \/ DispatchEarly \/ GoFinal \/ Refeed \/ SweepFlows \/ TriggerStep
           \/ DropTrigger \/ ExpireLock \/ StartRun
    <2>1. UNCHANGED <<flow, grades, gradings, regens>>
        BY <1>2 DEF DispatchEarly, GoFinal, Refeed, SweepFlows, TriggerStep,
                    StartTrigger, CallPipeline, EndTrigger, DropTrigger,
                    ExpireLock, StartRun
    <2> QED
        BY <1>1, <2>1 DEF FlowOK, GradersInv
<1>3. CASE StartRegen
    <2>1. UNCHANGED <<flow, grades, gradings>> /\ regens' \subseteq regens
        BY <1>3 DEF StartRegen
    <2> QED
        BY <1>1, <2>1 DEF FlowOK, GradersInv
<1>4. ASSUME NEW r \in Runs, RunStep(r) \/ TimeOut(r) \/ LoseRun(r) PROVE FlowOK'
    <2>1. CASE EndWithoutFlow(r) \/ Conflict(r) \/ LoseRun(r)
        <3>1. \E error \in BOOLEAN : End(r, error)
            BY <2>1 DEF EndWithoutFlow, Conflict, LoseRun
        <3>2. regens' \subseteq Attempts
            BY <1>1, <3>1, EndedRegens DEF FlowOK
        <3>3. UNCHANGED <<flow, grades, gradings>>
            BY <2>1 DEF EndWithoutFlow, Conflict, LoseRun
        <3> QED
            BY <1>1, <3>2, <3>3 DEF FlowOK, GradersInv
    <2>2. CASE TimeOut(r)
        <3>1. regens' \subseteq Attempts
            BY <1>1, <2>2, RetriedAttempts DEF FlowOK, TimeOut
        <3>2. UNCHANGED <<flow, grades, gradings>>
            BY <2>2 DEF TimeOut
        <3> QED
            BY <1>1, <3>1, <3>2 DEF FlowOK, GradersInv
    <2>3. CASE FindFlow(r)
        <3>1. UNCHANGED <<flow, grades, gradings, regens>>
            BY <2>3 DEF FindFlow
        <3> QED
            BY <1>1, <3>1 DEF FlowOK, GradersInv
    <2>4. CASE WriteFlow(r)
        <3>1. GradeOf(r) \in Grade
            BY <1>1 DEF GradeOf, Grade, CallsOK, Call
        <3>2. UNCHANGED <<flow, gradings, regens>> /\ grades' \subseteq grades \cup {GradeOf(r)}
            BY <2>4 DEF WriteFlow
        <3> QED
            BY <1>1, <3>1, <3>2 DEF FlowOK, GradersInv
    <2>5. CASE CommitRun(r)
        <3>1. regens' \subseteq Attempts
            BY <1>1, <2>5, EndedRegens DEF FlowOK, CommitRun
        <3>2. flow' = [content |-> IF call[r].template THEN Template ELSE r,
                       of |-> IF flow = Absent THEN Absent ELSE flow.of,
                       low |-> flow # Absent /\ flow.low]
            BY <2>5 DEF CommitRun
        <3>3. flow # Absent => flow.of \in Contents \cup {Absent} /\ flow.low \in BOOLEAN
            BY <1>1 DEF FlowOK, Flow
        <3>4. flow' \in Flow
            BY <3>2, <3>3 DEF Flow, Contents
        <3>5. UNCHANGED <<grades, gradings>>
            BY <2>5 DEF CommitRun
        <3> QED
            BY <1>1, <3>1, <3>4, <3>5 DEF FlowOK, GradersInv
    <2> QED
        BY <1>4, <2>1, <2>2, <2>3, <2>4, <2>5 DEF RunStep
<1>5. CASE FetchFlow
    <2>1. PICK m \in grades :
             /\ grades' = grades \ {m}
             /\ gradings' = IF flow = Absent THEN gradings
                            ELSE gradings \cup {[pc |-> "score", of |-> flow.content,
                                                 run |-> m.run, attempt |-> m.attempt]}
             /\ UNCHANGED <<flow, regens>>
        BY <1>5 DEF FetchFlow
    <2>2. m.run \in Runs /\ m.attempt \in Attempts
        BY <1>1 DEF FlowOK, Grade
    <2>3. CASE flow = Absent
        BY <1>1, <2>1, <2>3 DEF FlowOK, GradersInv
    <2>4. CASE flow # Absent
        <3>1. flow.content \in Contents
            BY <1>1, <2>4 DEF FlowOK, Flow
        <3>2. [pc |-> "score", of |-> flow.content, run |-> m.run, attempt |-> m.attempt]
                 \in Grading
            BY <2>2, <3>1 DEF Grading
        <3>3. gradings' \subseteq Grading /\ grades' \subseteq Grade
            BY <1>1, <2>1, <2>4, <3>2 DEF FlowOK
        <3>4. GradersInv'
            BY <2>1, <2>4 DEF GradersInv
        <3> QED
            BY <1>1, <2>1, <3>3, <3>4 DEF FlowOK
    <2> QED
        BY <2>3, <2>4
<1>6. ASSUME NEW g \in gradings, ScoreFlow(g) PROVE FlowOK'
    <2>1. PICK low \in BOOLEAN :
             LET action == ApplyGradeGate(low, g.attempt)
                 scored == IF g.of = Absent THEN flow
                           ELSE [flow EXCEPT !.of = g.of, !.low = low]
                 wanted == IF action = "regen" THEN regens \cup {g.attempt + 1} ELSE regens
             IN /\ flow' \in {flow, scored} /\ regens' \in {regens, wanted}
                /\ gradings' = (gradings \ {g}) \cup
                               IF action = "template_fallback" THEN {[g EXCEPT !.pc = "fallback"]}
                               ELSE {}
        BY <1>6 DEF ScoreFlow
    <2>2. grades' = grades
        BY <1>6 DEF ScoreFlow
    <2>3. flow' = flow \/ flow' \in Flow
        BY <1>1, <2>1, ScoredFlow
    <2>4. ASSUME ApplyGradeGate(low, g.attempt) = "regen"
          PROVE  g.attempt + 1 \in Attempts
        <3>1. g.attempt < MaxAttempts /\ g.attempt \in Attempts
            BY <1>1, <2>4 DEF ApplyGradeGate, FlowOK, Grading
        <3> QED
            BY <3>1, FlowAssumption DEF Attempts
    <2>5. regens' \subseteq Attempts
        BY <1>1, <2>1, <2>4 DEF FlowOK
    <2>6. [g EXCEPT !.pc = "fallback"] \in Grading /\ [g EXCEPT !.pc = "fallback"].of = g.of
        BY <1>1 DEF FlowOK, Grading
    <2> DEFINE S == IF ApplyGradeGate(low, g.attempt) = "template_fallback"
                    THEN {[g EXCEPT !.pc = "fallback"]} ELSE {}
    <2>7. gradings' = (gradings \ {g}) \cup S
        BY <2>1
    <2>8. S \in SUBSET Grading /\ \A h \in S : h.of = g.of
        BY <2>6
    <2>9. gradings' \subseteq Grading /\ GradersInv'
        <3> HIDE DEF S
        <3> QED
            BY <1>1, <2>3, <2>7, <2>8, OtherGradings
    <2> QED
        BY <1>1, <2>2, <2>3, <2>5, <2>9 DEF FlowOK
<1>7. ASSUME NEW g \in gradings, ApplyFallback(g) PROVE FlowOK'
    <2>1. /\ flow' \in {flow, IF g.of = Absent THEN flow ELSE [flow EXCEPT !.content = Template]}
          /\ gradings' = gradings \ {g} /\ UNCHANGED <<grades, regens>>
        BY <1>7 DEF ApplyFallback
    <2>2. flow' = flow \/ flow' \in Flow
        BY <1>1, <2>1, ScoredFlow
    <2>3. gradings' \subseteq Grading /\ GradersInv'
        BY <1>1, <2>1, <2>2, DoneGrading
    <2> QED
        BY <1>1, <2>1, <2>2, <2>3 DEF FlowOK
<1>8. ASSUME NEW g \in gradings, LoseGrader(g) PROVE FlowOK'
    <2>1. /\ gradings' = gradings \ {g} /\ UNCHANGED <<flow, regens>>
          /\ grades' \subseteq grades \cup {[run |-> g.run, attempt |-> g.attempt]}
        BY <1>8 DEF LoseGrader
    <2>2. [run |-> g.run, attempt |-> g.attempt] \in Grade
        BY <1>1 DEF FlowOK, Grading, Grade
    <2>3. gradings' \subseteq Grading /\ GradersInv'
        BY <1>1, <2>1, DoneGrading
    <2> QED
        BY <1>1, <2>1, <2>2, <2>3 DEF FlowOK
<1>9. CASE RejectFlow
    <2>1. /\ flow' = Absent /\ grades' = {} /\ regens' = regens
          /\ gradings' = {[g EXCEPT !.of = Absent] : g \in gradings}
        BY <1>9 DEF RejectFlow
    <2>2. \A g \in Grading : [g EXCEPT !.of = Absent] \in Grading
                             /\ [g EXCEPT !.of = Absent].of = Absent
        BY DEF Grading
    <2>3. gradings' \subseteq Grading /\ GradersInv'
        BY <1>1, <2>1, <2>2 DEF FlowOK, GradersInv
    <2> QED
        BY <1>1, <2>1, <2>3 DEF FlowOK
<1> QED
    BY <1>2, <1>3, <1>4, <1>5, <1>6, <1>7, <1>8, <1>9 DEF FlowNext, GraderStep

(* While triggers, runs, regenerations, graders and reviewers interleave   *)
(* and fail, every call and message keeps an attempt that is allowed, the   *)
(* trigger waits for one run, and every score has a flow to be written to.  *)
THEOREM FlowInvariant == FlowSpec => []FlowInv
<1>1. FlowInit => FlowInv
    BY InitFlow
<1>2. FlowInv /\ [FlowNext]_flowVars => FlowInv'
    <2> SUFFICES ASSUME FlowInv, [FlowNext]_flowVars PROVE FlowInv'
        OBVIOUS
    <2>1. CASE FlowNext
        BY <2>1, CallsStep, FlowStep, CountsStep DEF FlowInv
    <2>2. CASE UNCHANGED flowVars
        <3>1. CallsOK'
            BY <2>2 DEF flowVars, FlowInv, CallsOK, OneTriggered
        <3>2. FlowOK' /\ CountsOK'
            BY <2>2 DEF flowVars, FlowInv, FlowOK, CountsOK, GradersInv
        <3> QED
            BY <3>1, <3>2 DEF FlowInv
    <2> QED
        BY <2>1, <2>2
<1> QED
    BY <1>1, <1>2, PTL DEF FlowSpec

(* The types, and with them the limit of regenerations: apply_grade_gate    *)
(* never asks for an attempt beyond MAX_REGEN_ATTEMPTS.                     *)
THEOREM FlowTypeCorrect == FlowSpec => []FlowTypeOK
<1>1. FlowInv => FlowTypeOK
    BY DEF FlowInv, FlowTypeOK, CallsOK, FlowOK, CountsOK, Call, Grading
<1> QED
    BY <1>1, FlowInvariant, PTL
=============================================================================

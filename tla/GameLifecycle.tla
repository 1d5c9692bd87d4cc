---------------------------- MODULE GameLifecycle ----------------------------
(* The status of one game and everything that writes it: the updater that   *)
(* promotes games by the clock (services/game_state_updater.py), the live   *)
(* poller (jobs/polling_tasks.py), feeds and boxscores                      *)
(* (persistence/games.py), the daily repair (jobs/sweep_tasks.py) and, as   *)
(* far as it writes the status, the trigger of its flow, whose other steps  *)
(* are those of FlowPipeline (jobs/flow_trigger_tasks.py).                  *)
(*                                                                          *)
(* No writer locks the row.  Each reads it, decides on the status it saw,   *)
(* and later updates by id the columns it changed: the last commit wins.    *)
EXTENDS Naturals

CONSTANTS
    Updaters,     \* one: lock:update_game_states
    Pollers,      \* one: lock:poll_live_pbp
    Feeds,        \* calendars, scoreboards and boxscores, at any time
    Repairs,      \* the daily sweep: stale statuses, old games
    Trigger,      \* trigger_flow_for_game, one per game: its lock
    FeedStatuses, \* what a provider may report in this instance
    None,
    MaxReads,     \* bound: reads by feeds
    MaxFaults     \* bound: rollbacks, lost workers

VARIABLES
    phase,   \* the clock, by what the game's date and leagues' hours make of it
    row,     \* sports_games
    job,     \* [Jobs -> whether it saw the game over, and what it will write]
    calling, \* trigger_flow_for_game waits for the pipeline
    reads,   \* bound: reads by feeds
    faults   \* history: rollbacks and lost workers

vars == <<phase, row, job, calling, reads, faults>>

(* Before the pregame window, in it, in the estimated duration, past it,    *)
(* past the postgame window as well, and a week after the end.              *)
Early == 0
Window == 1
Playing == 2
Ending == 3
Stale == 4
Old == 5

Pending == {"scheduled", "pregame", "live"}
Recaps == {"recap_pending", "recap_ready", "recap_failed"}
GameStatus == Pending \cup Recaps \cup {"final", "archived", "postponed", "cancelled"}

(* The SportsGameTimelineArtifact: not generated yet, or deleted by a        *)
(* reviewer.                                                                *)
Artifact == {"none", "there", "rejected"}

Jobs == Updaters \cup Pollers \cup Feeds \cup Repairs \cup {Trigger}

ASSUME GameAssumption ==
    /\ FeedStatuses \subseteq GameStatus \ (Recaps \cup {"archived"})
    /\ None \notin GameStatus
    /\ MaxReads \in Nat /\ MaxFaults \in Nat

(* What a job's UPDATE changes; None leaves the status.                     *)
Nothing == [status |-> None, end |-> "keep", played |-> FALSE, fresh |-> FALSE]
Idle == [saw |-> None, write |-> Nothing]

(* And what is archived has had its posts and its timeline, of which only a *)
(* reviewer has taken the latter away again.  An end it may lack: the       *)
(* updater may have cancelled it as a phantom after the sweep found it.     *)
GameTypeOK ==
    /\ phase \in Early .. Old
    /\ row \in [status : GameStatus, played : BOOLEAN, fresh : BOOLEAN, end : BOOLEAN,
                social : BOOLEAN, artifact : Artifact]
    /\ job \in [Jobs -> [saw : {"over", "open", None},
                         write : [status : GameStatus \cup {None}, end : {"keep", "set", "clear"},
                                  played : BOOLEAN, fresh : BOOLEAN]]]
    /\ calling \in BOOLEAN
    /\ reads \in 0 .. MaxReads /\ faults \in 0 .. MaxFaults
    /\ row.status = "archived" => row.artifact # "none" /\ row.social

(* find_or_create_game creates a game with the status of the feed.          *)
Init ==
    /\ phase = Early
    /\ row = [status |-> "scheduled", played |-> FALSE, fresh |-> FALSE, end |-> FALSE,
              social |-> FALSE, artifact |-> "none"]
    /\ job = [j \in Jobs |-> Idle]
    /\ calling = FALSE
    /\ reads = 0 /\ faults = 0
-----------------------------------------------------------------------------
(* _normalize_status knows no recap status.                                 *)
NormalizeStatus(s) == IF s \in Recaps THEN "scheduled" ELSE s

Lifecycle == {"scheduled", "pregame", "live", "final", "archived"}
StatusOrder(s) ==
    CASE s = "scheduled" -> 0 [] s = "pregame" -> 1 [] s = "live" -> 2
      [] s = "final" -> 3 [] s = "archived" -> 4

(* (Mutant of ResolveStatusTransition) A postponement is taken at any time. *)
ResolveByOrder(seen, reported) ==
    LET current == NormalizeStatus(seen)
    IN IF {current, reported} \subseteq Lifecycle /\ StatusOrder(reported) < StatusOrder(current)
       THEN current ELSE reported

(* Archived and final games stay, others only move forward; a status that   *)
(* is not of the lifecycle is taken, and left, as it comes.                 *)
ResolveStatusTransition(seen, reported) ==
    LET current == NormalizeStatus(seen)
    IN CASE current = "archived" -> "archived"
         [] current = "final" -> IF reported = "archived" THEN reported ELSE current
         [] OTHER -> IF /\ {current, reported} \subseteq Lifecycle
                        /\ StatusOrder(reported) < StatusOrder(current)
                     THEN current ELSE reported

(* Games do not end, nor start, before their time.                          *)
Reports == {s \in FeedStatuses : s \in {"live", "final"} => phase >= Playing}

Over == {"final", "archived"}

(* A job that has nothing to change leaves no trace.                        *)
Begin(j, write) ==
    /\ job[j] = Idle /\ write # Nothing
    /\ job' = [job EXCEPT ![j] = [saw |-> IF row.status \in Over THEN "over" ELSE "open",
                                 write |-> write]]

(* The status to write when a job saw one and resolved another.             *)
Changed(to) == IF to = row.status THEN None ELSE to

(* update_game_from_live_feed, _enrich_existing, _enrich_game_with_boxscore *)
(* and the NBA's: a feed or boxscore, with or without a score.  No end_time. *)
ReadFeed(j) ==
    /\ reads < MaxReads /\ reads' = reads + 1
    /\ \E reported \in Reports, played \in BOOLEAN :
         /\ played => phase >= Playing
         /\ Begin(j, [Nothing EXCEPT
                        !.status = Changed(ResolveStatusTransition(row.status, reported)),
                        !.played = played, !.fresh = played])
    /\ UNCHANGED <<phase, row, calling, faults>>

EndOf(to) == IF to = "final" /\ row.status # "final" /\ ~row.end THEN "set" ELSE "keep"

(* poll_live_pbp_task, every few minutes for pregame and live games: the    *)
(* scoreboard's status first, then plays, which may make a pregame game     *)
(* live.                                                                    *)
ReadPoll(j) ==
    /\ row.status \in {"pregame", "live"}
    /\ \E reported \in Reports, plays \in BOOLEAN :
         LET resolved == ResolveStatusTransition(row.status, reported)
             to == IF resolved = "pregame" /\ plays THEN "live" ELSE resolved
             fetched == plays /\ resolved \in {"pregame", "live", "final"}
         IN /\ plays => phase >= Playing
            /\ Begin(j, [status |-> Changed(to), end |-> EndOf(to),
                         played |-> fetched, fresh |-> fetched])
    /\ UNCHANGED <<phase, row, calling, reads, faults>>

(* _repair_stale_statuses: once a day, hours after the start.               *)
ReadRepair(j) ==
    /\ row.status \in {"scheduled", "pregame"} /\ phase >= Ending
    /\ \E reported \in Reports :
         LET to == ResolveStatusTransition(row.status, reported)
         IN Begin(j, [Nothing EXCEPT !.status = Changed(to), !.end = EndOf(to)])
    /\ UNCHANGED <<phase, row, calling, reads, faults>>
-----------------------------------------------------------------------------
(* THE UPDATER                                                              *)

Promoted(s) ==
    LET pregame == IF s = "scheduled" /\ phase >= Window THEN "pregame" ELSE s
    IN IF pregame = "pregame" /\ phase = Playing THEN "live" ELSE pregame

(* (Mutant of Overdue) Live games are left to their poller.                 *)
OverdueNotLive(s) == s \in {"scheduled", "pregame"} /\ phase >= Stale

(* _promote_stale_to_final, unless data still comes.                        *)
Overdue(s) == s \in Pending /\ phase >= Stale /\ ~ (s = "live" /\ row.fresh)

(* (Mutant of Phantom) Only games that never were final are cancelled.      *)
PhantomPending(s) == ~row.played /\ Overdue(s)

(* A game nobody has a score, plays or a boxscore of is cancelled, not only *)
(* when it is overdue but also when it is found final.                      *)
Phantom(s) == ~row.played /\ (Overdue(s) \/ s = "final")

(* (Mutant of Archivable) The posts of after the game are not awaited.      *)
ArchivableUnscraped(s) ==
    /\ s = "final" \/ Overdue(s)
    /\ phase = Old /\ (row.end \/ Overdue(s)) /\ row.artifact = "there"

(* _promote_final_to_archived, also of what is final since this pass.       *)
Archivable(s) ==
    /\ s = "final" \/ Overdue(s)
    /\ phase = Old /\ (row.end \/ Overdue(s)) /\ row.artifact = "there" /\ row.social

(* update_game_states: five queries in a transaction, each of which sees    *)
(* what those before have written.                                          *)
ReadUpdate(j) ==
    LET s == Promoted(row.status)
        to == IF Archivable(s) THEN "archived" ELSE IF Overdue(s) THEN "final" ELSE s
        write == IF Phantom(s)
                 THEN [Nothing EXCEPT !.status = "cancelled", !.end = "clear"]
                 ELSE [Nothing EXCEPT !.status = Changed(to),
                                      !.end = IF Overdue(s) THEN "set" ELSE "keep"]
    IN Begin(j, write) /\ UNCHANGED <<phase, row, calling, reads, faults>>

(* _archive_old_games: the sweep does so too, without the updater's lock.   *)
ReadArchive(j) ==
    /\ row.status = "final" /\ Archivable(row.status)
    /\ Begin(j, [Nothing EXCEPT !.status = "archived"])
    /\ UNCHANGED <<phase, row, calling, reads, faults>>

(* UPDATE ... WHERE id, of the changed columns, and the commit.             *)
Written(w) ==
    [row EXCEPT !.status = IF w.status = None THEN @ ELSE w.status,
                !.end = w.end = "set" \/ (w.end = "keep" /\ @),
                !.played = @ \/ w.played,
                !.fresh = @ \/ w.fresh]

Commit(j) ==
    /\ job[j] # Idle
    /\ row' = Written(job[j].write)
    /\ job' = [job EXCEPT ![j] = Idle]
    /\ calling' = (calling \/ j = Trigger)
    /\ UNCHANGED <<phase, reads, faults>>

(* Another game's error rolls a whole poll back, a lost worker any job.     *)
Rollback(j) ==
    /\ job[j] # Idle
    /\ faults < MaxFaults /\ faults' = faults + 1
    /\ job' = [job EXCEPT ![j] = Idle]
    /\ UNCHANGED <<phase, row, calling, reads>>
-----------------------------------------------------------------------------
(* OTHERS                                                                   *)

(* trigger_flow_for_game, whose lock keeps another one away.                *)
ReadTrigger ==
    /\ ~calling /\ row.status \in {"final", "recap_pending", "recap_failed"}
    /\ Begin(Trigger, [Nothing EXCEPT !.status = "recap_pending"])
    /\ UNCHANGED <<phase, row, calling, reads, faults>>

(* _set_game_status after the pipeline's answer, whatever the status is.    *)
SetRecap ==
    /\ calling /\ calling' = FALSE
    /\ \E s \in {"recap_ready", "recap_failed"} : row' = [row EXCEPT !.status = s]
    /\ UNCHANGED <<phase, job, reads, faults>>

(* The worker is lost meanwhile: nothing resumes a recap that is pending.   *)
LoseTrigger ==
    /\ calling /\ calling' = FALSE
    /\ faults < MaxFaults /\ faults' = faults + 1
    /\ UNCHANGED <<phase, row, job, reads>>

(* generate_timeline_artifact, for a final game; _run_social_scrape_2.      *)
GenerateTimeline ==
    /\ row.status = "final" /\ row.artifact # "there"
    /\ row' = [row EXCEPT !.artifact = "there"]
    /\ UNCHANGED <<phase, job, calling, reads, faults>>

(* reject_flow, regenerate_flow: a reviewer's answer deletes the timeline   *)
(* with the flow, whatever the status of the game has become.               *)
DropTimeline ==
    /\ row.artifact = "there"
    /\ row' = [row EXCEPT !.artifact = "rejected"]
    /\ UNCHANGED <<phase, job, calling, reads, faults>>

SocialScrape2 ==
    /\ row.status = "final" /\ row.end /\ ~row.social /\ phase < Old
    /\ row' = [row EXCEPT !.social = TRUE]
    /\ UNCHANGED <<phase, job, calling, reads, faults>>

(* _has_recent_data, pbp_stale_minutes: half an hour without data.          *)
FallSilent ==
    /\ row.fresh
    /\ row' = [row EXCEPT !.fresh = FALSE]
    /\ UNCHANGED <<phase, job, calling, reads, faults>>

(* No job lasts for a week.                                                 *)
Elapse ==
    /\ phase < Old
    /\ phase' = phase + 1
    /\ phase' = Old => ~calling /\ \A j \in Jobs : job[j] = Idle
    /\ UNCHANGED <<row, job, calling, reads, faults>>
-----------------------------------------------------------------------------
Next ==
    \/ \E j \in Updaters : ReadUpdate(j)
    \/ \E j \in Pollers : ReadPoll(j)
    \/ \E j \in Feeds : ReadFeed(j)
    \/ \E j \in Repairs : ReadRepair(j) \/ ReadArchive(j)
    \/ \E j \in Jobs : Commit(j) \/ Rollback(j)
    \/ ReadTrigger \/ SetRecap \/ LoseTrigger
    \/ GenerateTimeline \/ DropTimeline \/ SocialScrape2 \/ FallSilent \/ Elapse

Spec == Init /\ [][Next]_vars

(* The updater runs every few minutes, and a pass of it ends.  Nothing else *)
(* has to happen.                                                           *)
FairSpec ==
    /\ Spec
    /\ \A j \in Updaters : WF_vars(ReadUpdate(j) \/ Commit(j))
-----------------------------------------------------------------------------
(* Nobody decides to take a game back from final or archived to be played   *)
(* or postponed: it goes back only by the late commit of a job that saw an  *)
(* earlier status, or one of a recap, which feeds take for "scheduled".     *)
FinalHolds ==
    [][row.status \in Over /\ row'.status \in Pending \cup {"postponed"} =>
         \E j \in Jobs : job[j].saw = "open" /\ job'[j] = Idle]_vars

(* The safety net: once a game is overdue and data has stopped, it does not *)
(* stay scheduled, pregame or live, whatever its feeds failed to report.    *)
GameEnds == <>[](phase >= Stale /\ ~row.fresh) => []<>(row.status \notin Pending)

(* A final game nobody has any data of does not stay final.                 *)
IsPhantom == row.status = "final" /\ ~row.played
PhantomsGo == IsPhantom ~> ~IsPhantom
=============================================================================

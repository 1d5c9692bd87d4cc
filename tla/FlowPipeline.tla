---------------------------- MODULE FlowPipeline ----------------------------
(* The flow of one final game: its trigger (jobs/flow_trigger_tasks.py),    *)
(* runs of the pipeline (services/pipeline/executor.py, whose callers are   *)
(* the trigger, administrators, the bulk job and the regeneration), the     *)
(* grader and its gate (jobs/grader_task.py, pipeline/grade_gate.py), and   *)
(* reviewers who reject a flow (routers/admin/quality_review.py).           *)
(*                                                                          *)
(* A run is one transaction of the API, and no lock keeps the runs of a     *)
(* game apart; its callers are tasks of the scraper that wait for the HTTP  *)
(* answer, or stop waiting.                                                 *)
EXTENDS Integers, FiniteSets

CONSTANTS
    MaxAttempts, \* MAX_REGEN_ATTEMPTS
    Absent,
    MaxRuns,     \* bound: runs of the pipeline, which number what they write
    MaxAtATime,  \* bound: runs at a time
    MaxQueued,   \* bound: trigger messages at a time
    MaxLosses    \* bound: lost workers and processes, failed writes

VARIABLES
    status,  \* sports_games.status, as far as a flow needs it
    flow,    \* sports_game_stories: what it holds and its grade, or Absent
    locked,  \* pipeline_lock:trigger_flow_for_game:{id}
    queued,  \* messages for the trigger
    trigger, \* where trigger_flow_for_game is
    call,    \* [Runs -> where a run of the pipeline is]
    runs,    \* runs so far
    grades,  \* messages for grade_flow_task
    gradings,\* what each grade_flow_task that runs has read, and where it is
    regens,  \* messages for regen_flow_task
    excused, \* history: why a flow may be ungraded, or low and published
    losses   \* history: what failed

flowVars == <<status, flow, locked, queued, trigger, call, runs, grades, gradings, regens,
              excused, losses>>

Statuses == {"live", "final", "recap_pending", "recap_ready", "recap_failed"}
Template == 0
Runs == 1 .. MaxRuns
Contents == Runs \cup {Template}
Attempts == 0 .. MaxAttempts

(* A flow, the content its grade is of, and whether that was low; and who   *)
(* waits for a run.                                                         *)
Flow == [content : Contents, of : Contents \cup {Absent}, low : BOOLEAN]
Clients == {"trigger", "regen", "other"}

ASSUME FlowAssumption ==
    /\ MaxAttempts \in Nat /\ MaxRuns \in Nat /\ MaxQueued \in Nat
    /\ MaxAtATime \in Nat /\ MaxLosses \in Nat
    /\ Absent \notin Int \cup Flow \cup Clients

NoCall == [pc |-> "idle", client |-> Absent, attempt |-> 0, inserts |-> FALSE,
           template |-> FALSE]

(* A message for the grader; and a flow it has read and is to score, or to  *)
(* replace: Absent once that row is gone.                                   *)
Grade == [run : Runs, attempt : Attempts]
Grading == [pc : {"score", "fallback"}, of : Contents \cup {Absent}, run : Runs,
            attempt : Attempts]

(* What is written was generated by a run, and a run is of an attempt that  *)
(* is allowed; who waits for an answer has a run.                           *)
FlowTypeOK ==
    /\ status \in Statuses
    /\ flow \in Flow \cup {Absent}
    /\ locked \in BOOLEAN /\ queued \in 0 .. MaxQueued
    /\ trigger \in {"idle", "call", "wait", "ready", "failed"}
    /\ call \in [Runs -> [pc : {"idle", "work", "write", "commit", "gone"},
                          client : Clients \cup {Absent}, attempt : Attempts,
                          inserts : BOOLEAN, template : BOOLEAN]]
    /\ runs \in 0 .. MaxRuns
    /\ \A r \in Runs : r > runs => call[r] = NoCall
    /\ grades \subseteq Grade /\ gradings \subseteq Grading /\ regens \subseteq Attempts
    /\ excused \subseteq {"grade", "regen", "late"}
    /\ losses \in 0 .. MaxLosses
    /\ trigger = "wait" <=> \E r \in Runs : call[r].client = "trigger"
    /\ trigger # "idle" => locked

FlowInit ==
    /\ status = "live" /\ flow = Absent
    /\ locked = FALSE /\ queued = 0 /\ trigger = "idle"
    /\ call = [r \in Runs |-> NoCall] /\ runs = 0
    /\ grades = {} /\ gradings = {} /\ regens = {}
    /\ excused = {} /\ losses = 0

Loss == losses < MaxLosses /\ losses' = losses + 1
-----------------------------------------------------------------------------
(* THE STATUS                                                               *)

(* The poller dispatches the trigger of a game it sees end before it        *)
(* commits, which may fail; and so does the hook of the ORM if another      *)
(* session of the thread commits first.                                     *)
DispatchEarly ==
    /\ status = "live"
    /\ queued < MaxQueued /\ queued' = queued + 1
    /\ UNCHANGED <<status, flow, locked, trigger, call, runs, grades, gradings, regens, excused,
                   losses>>

(* Whoever commits the end, the hook sends the trigger a message, unless    *)
(* another session of the thread had it forgotten; it expires in an hour.   *)
GoFinal ==
    /\ status = "live" /\ status' = "final"
    /\ queued' \in {queued, queued + 1} /\ queued' <= MaxQueued
    /\ UNCHANGED <<flow, locked, trigger, call, runs, grades, gradings, regens, excused, losses>>

(* A feed takes a recap for "scheduled" (see GameLifecycle).                *)
Refeed ==
    /\ status \in {"recap_pending", "recap_ready", "recap_failed"}
    /\ status' = "final"
    /\ UNCHANGED <<flow, locked, queued, trigger, call, runs, grades, gradings, regens, excused,
                   losses>>

(* sweep_missing_flows, backfill_missing_flows.  (They look for a timeline  *)
(* artifact, of which a flow is none.)                                      *)
SweepFlows ==
    /\ status \in {"final", "recap_failed"}
    /\ queued < MaxQueued /\ queued' = queued + 1
    /\ UNCHANGED <<status, flow, locked, trigger, call, runs, grades, gradings, regens, excused,
                   losses>>
-----------------------------------------------------------------------------
(* THE TRIGGER                                                              *)

(* A message that finds the lock taken ends.  One that takes it keeps it if *)
(* the game has no plays, or is in no status for a flow: Celery's retries   *)
(* then find the lock taken.  Otherwise the recap is pending.               *)
StartTrigger ==
    /\ trigger = "idle"
    /\ queued > 0 /\ queued' = queued - 1
    /\ locked' = TRUE
    /\ \/ UNCHANGED <<status, trigger>>
       \/ /\ ~locked /\ status \in {"final", "recap_pending", "recap_failed"}
          /\ status' = "recap_pending"
          /\ trigger' = "call"
    /\ UNCHANGED <<flow, call, runs, grades, gradings, regens, excused, losses>>

BeginRun(client, attempt) ==
    /\ runs < MaxRuns /\ Cardinality({r \in Runs : call[r] # NoCall}) < MaxAtATime
    /\ runs' = runs + 1
    /\ call' = [call EXCEPT ![runs + 1] = [NoCall EXCEPT !.pc = "work", !.client = client,
                                                         !.attempt = attempt]]

Retried(r) == IF call[r].client = "regen" THEN {regens \cup {call[r].attempt}} ELSE {}

(* _call_pipeline_api.  The game has to be final again by now, else the API *)
(* refuses (400), which is no error: the task goes on to "ready", as it     *)
(* does without a call if the game has a timeline artifact.                 *)
CallPipeline ==
    /\ trigger = "call"
    /\ \/ /\ status = "final"
          /\ BeginRun("trigger", 0)
          /\ trigger' = "wait"
       \/ /\ trigger' = "ready"
          /\ UNCHANGED <<call, runs>>
    /\ UNCHANGED <<status, flow, locked, queued, grades, gradings, regens, excused, losses>>

(* The client stops waiting, after two minutes or five; the run goes on.    *)
(* The trigger has failed, and Celery runs regen_flow_task again, once.     *)
TimeOut(r) ==
    /\ call[r].client \in {"trigger", "regen"}
    /\ call' = [call EXCEPT ![r].client = "other"]
    /\ trigger' = IF call[r].client = "trigger" THEN "failed" ELSE trigger
    /\ regens' \in {regens} \cup Retried(r)
    /\ UNCHANGED <<status, flow, locked, queued, runs, grades, gradings, excused, losses>>

(* (Mutant of EndTrigger) Without a flow the status is left.                  *)
EndTriggerIfFlow ==
    /\ trigger \in {"ready", "failed"} /\ trigger' = "idle"
    /\ status' = IF trigger = "failed" THEN "recap_failed"
                 ELSE IF flow # Absent THEN "recap_ready" ELSE status
    /\ locked' = (trigger = "failed")
    /\ UNCHANGED <<flow, queued, call, runs, grades, gradings, regens, excused, losses>>

(* _set_game_status, whatever the status is by then.  After an error the    *)
(* lock is left to expire.                                                  *)
EndTrigger ==
    /\ trigger \in {"ready", "failed"} /\ trigger' = "idle"
    /\ status' = IF trigger = "ready" THEN "recap_ready" ELSE "recap_failed"
    /\ locked' = (trigger = "failed")
    /\ UNCHANGED <<flow, queued, call, runs, grades, gradings, regens, excused, losses>>

(* The worker is lost, or _set_game_status fails, which is only logged.     *)
DropTrigger ==
    /\ trigger # "idle" /\ trigger' = "idle" /\ Loss
    /\ call' = [r \in Runs |-> IF call[r].client = "trigger"
                               THEN [call[r] EXCEPT !.client = "other"] ELSE call[r]]
    /\ UNCHANGED <<status, flow, locked, queued, runs, grades, gradings, regens, excused>>

(* After an hour: no trigger takes so long.                                 *)
ExpireLock ==
    /\ locked /\ trigger = "idle" /\ locked' = FALSE
    /\ UNCHANGED <<status, flow, queued, trigger, call, runs, grades, gradings, regens, excused,
                   losses>>
-----------------------------------------------------------------------------
(* A RUN OF THE PIPELINE                                                    *)

(* run-full by an administrator, or _run_bulk_generation_async.             *)
StartRun ==
    /\ status = "final"
    /\ BeginRun("other", 0)
    /\ UNCHANGED <<status, flow, locked, queued, trigger, grades, gradings, regens, excused,
                   losses>>

(* regen_flow_task: a refusal or a failed run is not tried again.           *)
StartRegen ==
    \E attempt \in regens :
        /\ \/ /\ status = "final"
              /\ BeginRun("regen", attempt)
              /\ UNCHANGED excused
           \/ /\ status # "final" \/ runs = MaxRuns
              /\ excused' = excused \cup {"regen"}
              /\ UNCHANGED <<call, runs>>
        /\ regens' = regens \ {attempt}
        /\ UNCHANGED <<status, flow, locked, queued, trigger, grades, gradings, losses>>

(* The answer: 200 whether the run completed or failed, or 500, which has   *)
(* Celery run regen_flow_task again, once.  The bulk job goes on, with what *)
(* it takes for a success or with an error.                                 *)
End(r, error) ==
    /\ call' = [call EXCEPT ![r] = NoCall]
    /\ trigger' = IF call[r].client # "trigger" THEN trigger
                  ELSE IF error THEN "failed" ELSE "ready"
    /\ regens' \in {regens} \cup IF error THEN Retried(r) ELSE {}

Excuse(r) == IF call[r].attempt > 0 THEN excused \cup {"regen"} ELSE excused

(* A stage fails, normalize_pbp because the game is not final any more, or  *)
(* the score differs from the boxscore's (execute_finalize_moments).        *)
EndWithoutFlow(r) ==
    /\ call[r].pc = "work"
    /\ End(r, FALSE)
    /\ excused' = Excuse(r)
    /\ UNCHANGED <<status, flow, locked, queued, runs, grades, gradings, losses>>

(* execute_finalize_moments looks for the flow to update.                   *)
FindFlow(r) ==
    /\ call[r].pc = "work"
    /\ call' = [call EXCEPT ![r].pc = "write", ![r].inserts = (flow = Absent)]
    /\ UNCHANGED <<status, flow, locked, queued, trigger, runs, grades, gradings, regens, excused,
                   losses>>

(* A message or a write that fails is only logged.                          *)
Lapse == Loss /\ excused' = excused \cup {"grade", "regen"}

GradeOf(r) == [run |-> r, attempt |-> call[r].attempt]

(* (Mutant of WriteFlow) The grader is told after attempts only.            *)
WriteFlowRegen(r) ==
    /\ call[r].pc = "write"
    /\ call[r].inserts => flow = Absent /\ \A q \in Runs : ~ (call[q].pc = "commit" /\ call[q].inserts)
    /\ call' = [call EXCEPT ![r].pc = "commit"]
    /\ grades' = IF call[r].attempt > 0 THEN grades \cup {GradeOf(r)} ELSE grades
    /\ UNCHANGED <<status, flow, locked, queued, trigger, runs, gradings, regens, excused, losses>>

(* It inserts or updates, and sends the grader a message, before the commit. *)
(* The unique key has an insert wait for another one.  What the run itself  *)
(* made of templates is not graded.                                         *)
WriteFlow(r) ==
    /\ call[r].pc = "write"
    /\ call[r].inserts => flow = Absent /\ \A q \in Runs : ~ (call[q].pc = "commit" /\ call[q].inserts)
    /\ \E template \in BOOLEAN :
         /\ call' = [call EXCEPT ![r].pc = "commit", ![r].template = template]
         /\ \/ /\ grades' = IF template THEN grades ELSE grades \cup {GradeOf(r)}
               /\ UNCHANGED <<excused, losses>>
            \/ ~template /\ Lapse /\ UNCHANGED grades
    /\ UNCHANGED <<status, flow, locked, queued, trigger, runs, gradings, regens>>

(* The other one is committed and the key refuses, or the flow to update    *)
(* was deleted: the run is undone.                                          *)
Conflict(r) ==
    /\ \/ call[r].pc = "write" /\ call[r].inserts /\ flow # Absent
       \/ call[r].pc = "gone"
    /\ End(r, TRUE)
    /\ excused' = Excuse(r)
    /\ UNCHANGED <<status, flow, locked, queued, runs, grades, gradings, losses>>

(* The commit.  An update leaves the grade of what was there before, and    *)
(* makes the late one that came before it no worse.                         *)
CommitRun(r) ==
    /\ call[r].pc = "commit"
    /\ flow' = [content |-> IF call[r].template THEN Template ELSE r,
                of |-> IF flow = Absent THEN Absent ELSE flow.of,
                low |-> flow # Absent /\ flow.low]
    /\ End(r, FALSE)
    /\ excused' = excused \ {"late"}
    /\ UNCHANGED <<status, locked, queued, runs, grades, gradings, losses>>

(* The process is lost, or a statement fails: nothing of the run is left,   *)
(* but the grader's message.                                                *)
LoseRun(r) ==
    /\ call[r].pc # "idle" /\ Loss
    /\ End(r, TRUE)
    /\ excused' = Excuse(r)
    /\ UNCHANGED <<status, flow, locked, queued, runs, grades, gradings>>
-----------------------------------------------------------------------------
(* THE GRADER                                                               *)

(* grade_flow_task reads what is there, beside others that the worker runs. *)
(* The run may not be committed yet: then there is no flow, and nothing     *)
(* more is done, or an older one.                                           *)
FetchFlow ==
    /\ \E m \in grades :
         /\ grades' = grades \ {m}
         /\ gradings' = IF flow = Absent THEN gradings
                        ELSE gradings \cup {[pc |-> "score", of |-> flow.content,
                                             run |-> m.run, attempt |-> m.attempt]}
         /\ excused' = IF flow = Absent \/ flow.content # m.run
                       THEN excused \cup {"grade", "regen"} ELSE excused
    /\ UNCHANGED <<status, flow, locked, queued, trigger, call, runs, regens, losses>>

(* (Mutants of ApplyGradeGate)                                              *)
ApplyGradeGateOnceMore(low, attempt) ==
    IF ~low THEN "publish" ELSE IF attempt <= MaxAttempts THEN "regen" ELSE "template_fallback"
ApplyGradeGateNoFallback(low, attempt) ==
    IF low /\ attempt < MaxAttempts THEN "regen" ELSE "publish"

ApplyGradeGate(low, attempt) ==
    IF ~low THEN "publish" ELSE IF attempt < MaxAttempts THEN "regen" ELSE "template_fallback"

(* The grade of what the flow holds now gives way to an older content's.    *)
Late(g) ==
    g.of # Absent /\ flow # Absent /\ flow.content = flow.of /\ g.of # flow.content

(* The score is written to the flow, whatever it holds by now, and the gate *)
(* is asked what to do.                                                     *)
ScoreFlow(g) ==
    /\ g.pc = "score"
    /\ \E low \in BOOLEAN :
         LET action == ApplyGradeGate(low, g.attempt)
             scored == IF g.of = Absent THEN flow ELSE [flow EXCEPT !.of = g.of, !.low = low]
             wanted == IF action = "regen" THEN regens \cup {g.attempt + 1} ELSE regens
         IN /\ \/ /\ flow' = scored /\ regens' = wanted
                  /\ excused' = IF Late(g) THEN excused \cup {"late"} ELSE excused
                  /\ UNCHANGED losses
               \/ flow' \in {flow, scored} /\ regens' \in {regens, wanted} /\ Lapse
            /\ gradings' = (gradings \ {g}) \cup
                           IF action = "template_fallback" THEN {[g EXCEPT !.pc = "fallback"]}
                           ELSE {}
    /\ UNCHANGED <<status, locked, queued, trigger, call, runs, grades>>

(* _apply_template_fallback overwrites the flow, whatever it holds.         *)
ApplyFallback(g) ==
    /\ g.pc = "fallback"
    /\ \/ /\ flow' = IF g.of = Absent THEN flow ELSE [flow EXCEPT !.content = Template]
          /\ UNCHANGED <<excused, losses>>
       \/ Lapse /\ UNCHANGED flow
    /\ gradings' = gradings \ {g}
    /\ UNCHANGED <<status, locked, queued, trigger, call, runs, grades, regens>>

(* The worker is lost and the message comes again.                          *)
LoseGrader(g) ==
    /\ Loss
    /\ grades' = IF g.of = Absent THEN grades
                 ELSE grades \cup {[run |-> g.run, attempt |-> g.attempt]}
    /\ gradings' = gradings \ {g}
    /\ UNCHANGED <<status, flow, locked, queued, trigger, call, runs, regens, excused>>

(* reject_flow, regenerate_flow: a flow that was graded may be in the queue *)
(* of reviewers, who delete it, when no run has updated it and will commit. *)
(* Messages and writes of graders name its row, and no other.  The message  *)
(* to the trigger goes to a queue whose worker has no such task; and what   *)
(* else is deleted, a timeline, is GameLifecycle's.                         *)
RejectFlow ==
    /\ flow # Absent /\ flow.of # Absent
    /\ runs < MaxRuns \* bound: else no run follows
    /\ \A r \in Runs : call[r].pc # "commit"
    /\ flow' = Absent
    /\ call' = [r \in Runs |-> IF call[r].pc = "write" /\ ~call[r].inserts
                               THEN [call[r] EXCEPT !.pc = "gone"] ELSE call[r]]
    /\ grades' = {}
    /\ gradings' = {[g EXCEPT !.of = Absent] : g \in gradings}
    /\ UNCHANGED <<status, locked, queued, trigger, runs, regens, excused, losses>>
-----------------------------------------------------------------------------
TriggerStep == StartTrigger \/ CallPipeline \/ EndTrigger
RunStep(r) == EndWithoutFlow(r) \/ FindFlow(r) \/ WriteFlow(r) \/ Conflict(r) \/ CommitRun(r)
GraderStep == FetchFlow \/ \E g \in gradings : ScoreFlow(g) \/ ApplyFallback(g)

FlowNext ==
    \/ DispatchEarly \/ GoFinal \/ Refeed \/ SweepFlows
    \/ TriggerStep \/ DropTrigger \/ ExpireLock
    \/ StartRun \/ StartRegen
    \/ \E r \in Runs : RunStep(r) \/ TimeOut(r) \/ LoseRun(r)
    \/ GraderStep \/ (\E g \in gradings : LoseGrader(g)) \/ RejectFlow

FlowSpec == FlowInit /\ [][FlowNext]_flowVars

(* Workers take the trigger's messages, and while there is a run, a grading *)
(* or a regeneration to do, one of them goes on: there are finitely many    *)
(* runs, so each comes to its end.                                          *)
FairFlowSpec ==
    /\ FlowSpec
    /\ WF_flowVars(TriggerStep)
    /\ WF_flowVars(StartRegen \/ GraderStep \/ \E r \in Runs : RunStep(r))
-----------------------------------------------------------------------------
(* A recap that is pending does not stay so, unless a worker was lost or a  *)
(* write failed: nothing resumes it, since the sweep leaves it out.         *)
IsPending == status = "recap_pending" /\ losses = 0
RecapSettles == IsPending ~> ~IsPending

(* What a run wrote is graded, or replaced, unless the grader came before   *)
(* the commit, a message or a write of the score was lost, or the grade was *)
(* overwritten by that of an older content, which was read before.          *)
IsUngraded ==
    flow # Absent /\ flow.content \notin {Template, flow.of} /\ excused \cap {"grade", "late"} = {}
FlowGraded == IsUngraded ~> ~IsUngraded

(* A low grade ends in a flow that was found good, a template, or none,     *)
(* unless a regeneration was refused or failed, the grader came before a    *)
(* commit, or a message or a write was lost.                                *)
GradedNow == flow # Absent /\ flow.of = flow.content
IsLow == GradedNow /\ flow.content # Template /\ flow.low /\ "regen" \notin excused
IsCured ==
    \/ flow = Absent \/ flow.content = Template \/ (GradedNow /\ ~flow.low)
    \/ "regen" \in excused
LowReplaced == IsLow ~> IsCured
=============================================================================

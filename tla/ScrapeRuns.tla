----------------------------- MODULE ScrapeRuns -----------------------------
(* The scrape runs of one league: requests that create them, the task       *)
(* run_scrape_job with the lock of the league, cancellations, and workers   *)
(* that start, shut down and are lost.  A run is a row of                   *)
(* sports_scrape_runs, and of sports_job_runs if an administrator asked for *)
(* it; both are named by the message that executes it.                      *)
EXTENDS Naturals, FiniteSets

CONSTANTS
    Manual, Scheduled,      \* messages: of administrators, of the scheduler
    Main, Others,           \* the worker of the queue; those of other queues
    None,
    MaxIncidents            \* bound

Tasks == Manual \cup Scheduled
Workers == {Main} \cup Others

Ended == {"success", "error", "skipped", "canceled", "interrupted"}

ASSUME RunAssumption ==
    /\ Manual \cap Scheduled = {} /\ Main \notin Others
    /\ None \notin Tasks /\ None \notin {"queued", "running"} \cup Ended
    /\ MaxIncidents \in Nat

VARIABLES
    run,        \* sports_scrape_runs.status, None if there is no such row
    job,        \* sports_job_runs.status
    request,    \* the transaction that creates the rows
    message,    \* in the queue, taken and not acknowledged, or none
    exec,       \* the execution of a message
    lock,       \* lock:ingest:{league}: whose token it holds
    worker,     \* what a worker does, and the rows it read before
    revokes,    \* revocations on their way to the worker of the queue
    revoked,    \* those it remembers
    cancel,     \* the cancellation under way
    held,       \* sports:tasks_held
    lost,       \* executions whose lock was taken from them
    excused,    \* rows, of a run or a job run, that may stay as they are
    incidents   \* how many cancellations, shutdowns, holds and failures there were

vars == <<run, job, request, message, exec, lock, worker, revokes, revoked,
          cancel, held, lost, excused, incidents>>

RunStatus == {None, "pending", "running"} \cup Ended
JobStatus == {None, "queued", "running"} \cup Ended
OpenRuns == {t \in Tasks : run[t] \in {"pending", "running"}}
OpenJobs == {t \in Tasks : job[t] \in {"queued", "running"}}

NoExec == [pc |-> "idle", tracked |-> FALSE, saw |-> None, result |-> None]
NoCancel == [pc |-> "idle", task |-> None]
At(pc) == [pc |-> pc, runs |-> {}, jobs |-> {}]
Rows == {"run", "job"}
Executing == {t \in Tasks : exec[t].pc # "idle"}

Incident == incidents < MaxIncidents /\ incidents' = incidents + 1

Init ==
    /\ run = [t \in Tasks |-> None] /\ job = [t \in Tasks |-> None]
    /\ request = [t \in Tasks |-> "none"] /\ message = [t \in Tasks |-> "none"]
    /\ exec = [t \in Tasks |-> NoExec]
    /\ lock = None /\ lost = {}
    /\ worker = [w \in Workers |-> At(IF w = Main THEN "up" ELSE "down")]
    /\ revokes = {} /\ revoked = {} /\ cancel = NoCancel
    /\ held = FALSE
    /\ excused = {}
    /\ incidents = 0

Excuse(t, rows) == excused' = excused \cup ({t} \X rows)
-----------------------------------------------------------------------------
(* create_scrape_run of the API or of the scheduler: the rows are flushed,  *)
(* the message is sent, and the transaction is committed some time after.   *)
CreateRun(t) ==
    /\ request[t] = "none"
    /\ request' = [request EXCEPT ![t] = "sent"]
    /\ message' = [message EXCEPT ![t] = "queued"]
    /\ UNCHANGED <<run, job, exec, lock, worker, revokes, revoked, cancel, held, lost,
                   excused, incidents>>

CommitRun(t) ==
    /\ request[t] = "sent"
    /\ request' = [request EXCEPT ![t] = "done"]
    /\ run' = [run EXCEPT ![t] = "pending"]
    /\ job' = [job EXCEPT ![t] = IF t \in Manual THEN "queued" ELSE None]
    /\ UNCHANGED <<message, exec, lock, worker, revokes, revoked, cancel, held, lost,
                   excused, incidents>>

(* Nothing is stored, and the message is executed all the same.             *)
RollBackRun(t) ==
    /\ request[t] = "sent" /\ Incident
    /\ request' = [request EXCEPT ![t] = "done"]
    /\ UNCHANGED <<run, job, message, exec, lock, worker, revokes, revoked, cancel, held,
                   lost, excused>>
-----------------------------------------------------------------------------
(* The execution of a message.                                              *)

Acknowledge(t) == message' = [message EXCEPT ![t] = "none"]
ToStep(t, e) == exec' = [exec EXCEPT ![t] = e]
Go(t, pc) == ToStep(t, [exec[t] EXCEPT !.pc = pc])

(* A revoked message is dropped; _HoldAwareTask drops one that is held.     *)
(* The rows stay as they are: the scheduler's have no job run to skip.      *)
Take(t) ==
    /\ message[t] = "queued" /\ worker[Main].pc = "up"
    /\ \/ request[t] = "done" /\ UNCHANGED incidents
       \/ request[t] = "sent" /\ Incident
    /\ IF \/ t \in revoked
          \/ held /\ t \in Scheduled
       THEN Acknowledge(t) /\ Excuse(t, Rows) /\ UNCHANGED exec
       ELSE /\ message' = [message EXCEPT ![t] = "taken"]
            /\ ToStep(t, [NoExec EXCEPT !.pc = "find"])
            /\ UNCHANGED excused
    /\ UNCHANGED <<run, job, request, lock, worker, revokes, revoked, cancel, held, lost>>

(* _activate_job_run_for_task: only a queued job run is found, and what is  *)
(* not found is executed without one.  The row is read twice, of which this *)
(* is the last; the new row that replaces one interrupted in between is     *)
(* left out.  A failure of either step is that of finding nothing.          *)
FindJobRun(t) ==
    /\ exec[t].pc = "find"
    /\ ToStep(t, IF job[t] = "queued"
                 THEN [exec[t] EXCEPT !.pc = "activate", !.tracked = TRUE, !.saw = job[t]]
                 ELSE [exec[t] EXCEPT !.pc = "lock"])
    /\ IF request[t] = "sent" THEN Excuse(t, {"job"}) ELSE UNCHANGED excused
    /\ UNCHANGED <<run, job, request, message, lock, worker, revokes, revoked, cancel, held,
                   lost, incidents>>

FailToFind(t) ==
    /\ exec[t].pc \in {"find", "activate"} /\ Incident
    /\ ToStep(t, [NoExec EXCEPT !.pc = "lock"])
    /\ Excuse(t, {"job"})
    /\ UNCHANGED <<run, job, request, message, lock, worker, revokes, revoked, cancel, held,
                   lost>>

(* activate_queued_job_run writes the row it read by its id.                *)
Activate(t) ==
    /\ exec[t].pc = "activate"
    /\ job' = [job EXCEPT ![t] = "running"]
    /\ ToStep(t, [exec[t] EXCEPT !.pc = "lock", !.saw = None])
    /\ UNCHANGED <<run, request, message, lock, worker, revokes, revoked, cancel, held, lost,
                   excused, incidents>>

(* acquire_redis_lock, and again after five seconds and force_release_lock. *)
AcquireLock(t) ==
    /\ exec[t].pc \in {"lock", "again"} /\ lock = None
    /\ lock' = t /\ lost' = lost \ {t}
    /\ Go(t, "start")
    /\ UNCHANGED <<run, job, request, message, worker, revokes, revoked, cancel, held, excused,
                   incidents>>

(* The lock is taken, or Redis does not answer: the key may then be set,    *)
(* with a token that nobody knows.                                          *)
FailLock(t) ==
    /\ exec[t].pc \in {"lock", "again"}
    /\ \/ lock # None /\ UNCHANGED <<lock, incidents>>
       \/ Incident /\ lock' \in {lock, IF lock = None THEN t ELSE lock}
    /\ Go(t, IF exec[t].pc = "lock" THEN "wait" ELSE "skip")
    /\ UNCHANGED <<run, job, request, message, worker, revokes, revoked, cancel, held, lost,
                   excused>>

(* Whoever holds the lock does not any more.  A Redis that does not answer  *)
(* is ignored.                                                              *)
TakeAway == lock' = None /\ lost' = lost \cup ({lock} \ {None})
TakeAwayOrFail ==
    \/ TakeAway /\ UNCHANGED incidents
    \/ Incident /\ UNCHANGED <<lock, lost>>

ForceRelease(t) ==
    /\ exec[t].pc = "wait"
    /\ TakeAwayOrFail
    /\ Go(t, "again")
    /\ UNCHANGED <<run, job, request, message, worker, revokes, revoked, cancel, held, excused>>

(* _update_run writes the status by the id, whatever it is; if the row is   *)
(* not there it only logs.                                                  *)
UpdateRun(t, status) ==
    /\ run' = IF run[t] = None THEN run ELSE [run EXCEPT ![t] = status]
    /\ IF request[t] = "sent" THEN Excuse(t, {"run"}) ELSE UNCHANGED excused

StartIngestion(t) ==
    /\ exec[t].pc = "start"
    /\ UpdateRun(t, "running")
    /\ Go(t, "ingest")
    /\ UNCHANGED <<job, request, message, lock, worker, revokes, revoked, cancel, held, lost,
                   incidents>>

(* No scraper for the league, a configuration that is not valid, or a       *)
(* status that cannot be written: an error before the try of the manager,   *)
(* which writes no status of the run.                                       *)
RefuseIngestion(t) ==
    /\ exec[t].pc = "start"
    /\ ToStep(t, [exec[t] EXCEPT !.pc = "complete", !.result = "error"])
    /\ Excuse(t, {"run"})
    /\ UNCHANGED <<run, job, request, message, lock, worker, revokes, revoked, cancel, held,
                   lost, incidents>>

(* (Mutant of EndIngestion) Only a success is written.                      *)
EndIngestionUnwritten(t) ==
    /\ exec[t].pc = "ingest"
    /\ \E result \in {"success", "error"} :
         /\ IF result = "success" THEN UpdateRun(t, result) ELSE UNCHANGED <<run, excused>>
         /\ ToStep(t, [exec[t] EXCEPT !.pc = "complete", !.result = result])
    /\ UNCHANGED <<job, request, message, lock, worker, revokes, revoked, cancel, held, lost,
                   incidents>>

(* The phases end: if all of them failed the run is an error and the job    *)
(* run is not.  Or an error ends the task, which writes it, unless that     *)
(* fails too.                                                               *)
EndIngestion(t) ==
    /\ exec[t].pc = "ingest"
    /\ \/ \E result \in {"success", "error"} :
            /\ \/ UpdateRun(t, result)
               \/ result = "success" /\ UpdateRun(t, "error")
            /\ ToStep(t, [exec[t] EXCEPT !.pc = "complete", !.result = result])
            /\ UNCHANGED incidents
       \/ /\ Incident /\ Excuse(t, {"run"}) /\ UNCHANGED run
          /\ ToStep(t, [exec[t] EXCEPT !.pc = "complete", !.result = "error"])
    /\ UNCHANGED <<job, request, message, lock, worker, revokes, revoked, cancel, held, lost>>

(* If the run cannot be written, the job run is not either.                 *)
Skip(t) ==
    /\ exec[t].pc = "skip"
    /\ \/ /\ UpdateRun(t, "skipped") /\ UNCHANGED incidents
          /\ ToStep(t, [exec[t] EXCEPT !.pc = "complete", !.result = "skipped"])
       \/ /\ Incident /\ Excuse(t, Rows) /\ UNCHANGED run
          /\ ToStep(t, [exec[t] EXCEPT !.pc = "release", !.result = "skipped"])
    /\ UNCHANGED <<job, request, message, lock, worker, revokes, revoked, cancel, held, lost>>

(* (Mutant of ReadJobRun) Cancellation is not terminal.                     *)
ReadJobRunAny(t) ==
    /\ exec[t].pc = "complete"
    /\ ToStep(t, IF exec[t].tracked
                 THEN [exec[t] EXCEPT !.pc = "write", !.saw = job[t]]
                 ELSE [exec[t] EXCEPT !.pc = "release"])
    /\ UNCHANGED <<run, job, request, message, lock, worker, revokes, revoked, cancel, held,
                   lost, excused, incidents>>

(* complete_job_run reads the row, and writes it unless it was canceled.    *)
ReadJobRun(t) ==
    /\ exec[t].pc = "complete"
    /\ ToStep(t, IF exec[t].tracked /\ job[t] # "canceled"
                 THEN [exec[t] EXCEPT !.pc = "write", !.saw = job[t]]
                 ELSE [exec[t] EXCEPT !.pc = "release"])
    /\ UNCHANGED <<run, job, request, message, lock, worker, revokes, revoked, cancel, held,
                   lost, excused, incidents>>

CompleteJobRun(t) ==
    /\ exec[t].pc = "write"
    /\ job' = [job EXCEPT ![t] = exec[t].result]
    /\ ToStep(t, [exec[t] EXCEPT !.pc = "release", !.saw = None])
    /\ UNCHANGED <<run, request, message, lock, worker, revokes, revoked, cancel, held, lost,
                   excused, incidents>>

(* A success that cannot be written is an error of the task, which tries to *)
(* write that; what fails otherwise leaves the row as it is.                *)
FailCompletion(t) ==
    /\ exec[t].pc \in {"complete", "write"} /\ exec[t].tracked /\ Incident
    /\ LET e == [exec[t] EXCEPT !.saw = None]
       IN  IF e.result = "success"
           THEN ToStep(t, [e EXCEPT !.pc = "complete", !.result = "error"]) /\ UNCHANGED excused
           ELSE ToStep(t, [e EXCEPT !.pc = "release"]) /\ Excuse(t, {"job"})
    /\ UNCHANGED <<run, job, request, message, lock, worker, revokes, revoked, cancel, held,
                   lost>>

(* (Mutant of ReleaseLock) The key is deleted whatever token it holds.      *)
ReleaseAnyLock(t) ==
    /\ exec[t].pc = "release"
    /\ lock' = IF exec[t].result # "skipped" THEN None ELSE lock
    /\ ToStep(t, NoExec) /\ Acknowledge(t)
    /\ UNCHANGED <<run, job, request, worker, revokes, revoked, cancel, held, lost, excused,
                   incidents>>

(* release_redis_lock deletes the key if it holds this token, and the       *)
(* message is acknowledged.  A skipped task has no token.                   *)
ReleaseLock(t) ==
    /\ exec[t].pc = "release"
    /\ \/ /\ lock' = IF lock = t /\ exec[t].result # "skipped" THEN None ELSE lock
          /\ UNCHANGED incidents
       \/ Incident /\ UNCHANGED lock
    /\ ToStep(t, NoExec) /\ Acknowledge(t)
    /\ UNCHANGED <<run, job, request, worker, revokes, revoked, cancel, held, lost, excused>>

(* The process of the task dies, of a lack of memory or at the hard limit:  *)
(* the message is acknowledged, and the rows and the lock stay.             *)
KillTask(t) ==
    /\ t \in Executing /\ Incident
    /\ ToStep(t, NoExec) /\ Acknowledge(t) /\ Excuse(t, Rows)
    /\ UNCHANGED <<run, job, request, lock, worker, revokes, revoked, cancel, held, lost>>

(* An ingestion may last longer than the hour of its lock.                  *)
ExpireLock ==
    /\ lock # None /\ Incident
    /\ TakeAway
    /\ UNCHANGED <<run, job, request, message, exec, worker, revokes, revoked, cancel, held,
                   excused>>
-----------------------------------------------------------------------------
(* Cancellations.  Both routes read the row, revoke the message, and write  *)
(* the row by its id.  They know of one of the two rows each.               *)

Cancel(t, pc) ==
    /\ cancel = NoCancel /\ Incident
    /\ cancel' = [pc |-> pc, task |-> t]
    /\ revokes' = revokes \cup {t}
    /\ UNCHANGED <<run, job, request, message, exec, lock, worker, revoked, held, lost, excused>>

CancelScrapeRun(t) == t \in OpenRuns /\ Cancel(t, "run")
CancelJobRun(t) == t \in OpenJobs /\ Cancel(t, "lock")

(* For a backfill the lock of the league is deleted, whoever holds it.      *)
DeleteLock ==
    /\ cancel.pc = "lock"
    /\ TakeAway \/ UNCHANGED <<lock, lost>>
    /\ cancel' = [cancel EXCEPT !.pc = "job"]
    /\ UNCHANGED <<run, job, request, message, exec, worker, revokes, revoked, held, excused,
                   incidents>>

CommitCancel ==
    /\ cancel.pc \in {"run", "job"}
    /\ \/ /\ cancel.pc = "run" /\ run' = [run EXCEPT ![cancel.task] = "canceled"]
          /\ UNCHANGED job
       \/ /\ cancel.pc = "job" /\ job' = [job EXCEPT ![cancel.task] = "canceled"]
          /\ UNCHANGED run
       \/ UNCHANGED <<run, job>>
    /\ cancel' = NoCancel
    /\ UNCHANGED <<request, message, exec, lock, worker, revokes, revoked, held, lost, excused,
                   incidents>>

(* The worker remembers a revocation and kills the process that executes    *)
(* the message, whose lock and rows stay; or it hears nothing of it.        *)
Revoke(t) ==
    /\ t \in revokes
    /\ revokes' = revokes \ {t}
    /\ \/ UNCHANGED <<revoked, message, exec, excused>>
       \/ /\ worker[Main].pc # "down"
          /\ revoked' = revoked \cup {t}
          /\ IF t \in Executing
             THEN Acknowledge(t) /\ ToStep(t, NoExec) /\ Excuse(t, Rows)
             ELSE UNCHANGED <<message, exec, excused>>
    /\ UNCHANGED <<run, job, request, lock, worker, cancel, held, lost, incidents>>

(* task_control: hold and release of what is not manual.                    *)
ToggleHold ==
    /\ Incident
    /\ held' = ~held
    /\ UNCHANGED <<run, job, request, message, exec, lock, worker, revokes, revoked, cancel,
                   lost, excused>>
-----------------------------------------------------------------------------
(* Workers.  Each of them, whatever its queue, takes all open rows for its  *)
(* own predecessor's.                                                       *)

Become(w, state) == worker' = [worker EXCEPT ![w] = state]

(* on_worker_shutting_down reads the open rows and marks them; the tasks of *)
(* the worker go on to their end.                                           *)
ShutDown(w) ==
    /\ worker[w].pc = "up" /\ Incident
    /\ Become(w, [pc |-> "stopping", runs |-> {t \in OpenRuns : run[t] = "running"},
                  jobs |-> OpenJobs])
    /\ UNCHANGED <<run, job, request, message, exec, lock, revokes, revoked, cancel, held, lost,
                   excused>>

MarkRuns(w) ==
    run' = [t \in Tasks |-> IF t \in worker[w].runs THEN "interrupted" ELSE run[t]]
MarkJobs(w) ==
    job' = [t \in Tasks |-> IF t \in worker[w].jobs THEN "interrupted" ELSE job[t]]

MarkAtShutdown(w) ==
    /\ worker[w].pc = "stopping"
    /\ MarkRuns(w) /\ MarkJobs(w)
    /\ Become(w, At("draining"))
    /\ UNCHANGED <<request, message, exec, lock, revokes, revoked, cancel, held, lost, excused,
                   incidents>>

Stop(w) ==
    /\ worker[w].pc = "draining" /\ (w = Main => Executing = {})
    /\ Become(w, At("down"))
    /\ revoked' = IF w = Main THEN {} ELSE revoked
    /\ UNCHANGED <<run, job, request, message, exec, lock, revokes, cancel, held, lost, excused,
                   incidents>>

(* The worker is lost with its tasks, and their locks remain.               *)
LoseWorker(w) ==
    /\ worker[w].pc # "down" /\ Incident
    /\ Become(w, At("down"))
    /\ IF w = Main THEN exec' = [t \in Tasks |-> NoExec] /\ revoked' = {}
       ELSE UNCHANGED <<exec, revoked>>
    /\ UNCHANGED <<run, job, request, message, lock, revokes, cancel, held, lost, excused>>

(* visibility_timeout: what was not acknowledged is delivered again.        *)
Redeliver(t) ==
    /\ message[t] = "taken" /\ t \notin Executing
    /\ message' = [message EXCEPT ![t] = "queued"]
    /\ UNCHANGED <<run, job, request, exec, lock, worker, revokes, revoked, cancel, held, lost,
                   excused, incidents>>

(* on_worker_ready: clear_all_locks, then mark_stale_runs_interrupted, the  *)
(* scrape runs and then the job runs.  Messages are taken after it.         *)
ClearLocks(w) ==
    /\ worker[w].pc = "down"
    /\ TakeAwayOrFail
    /\ Become(w, [At("runs") EXCEPT !.runs = OpenRuns])
    /\ UNCHANGED <<run, job, request, message, exec, revokes, revoked, cancel, held, excused>>

MarkStaleRuns(w) ==
    /\ worker[w].pc = "runs"
    /\ MarkRuns(w)
    /\ Become(w, [At("jobs") EXCEPT !.jobs = OpenJobs])
    /\ UNCHANGED <<job, request, message, exec, lock, revokes, revoked, cancel, held, lost,
                   excused, incidents>>

MarkStaleJobs(w) ==
    /\ worker[w].pc = "jobs"
    /\ MarkJobs(w)
    /\ Become(w, At("up"))
    /\ UNCHANGED <<run, request, message, exec, lock, revokes, revoked, cancel, held, lost,
                   excused, incidents>>

(* A failure in either handler leaves the rows as they are.                 *)
FailMarking(w) ==
    /\ worker[w].pc \in {"runs", "jobs", "stopping"} /\ Incident
    /\ Become(w, At(IF worker[w].pc = "stopping" THEN "draining" ELSE "up"))
    /\ excused' = excused \cup (OpenRuns \X {"run"}) \cup (OpenJobs \X {"job"})
    /\ UNCHANGED <<run, job, request, message, exec, lock, revokes, revoked, cancel, held, lost>>
-----------------------------------------------------------------------------
Request(t) == CreateRun(t) \/ CommitRun(t) \/ RollBackRun(t)
TaskStep(t) ==
    \/ Take(t) \/ FindJobRun(t) \/ FailToFind(t) \/ Activate(t)
    \/ AcquireLock(t) \/ FailLock(t) \/ ForceRelease(t)
    \/ StartIngestion(t) \/ RefuseIngestion(t) \/ EndIngestion(t) \/ Skip(t)
    \/ ReadJobRun(t) \/ CompleteJobRun(t) \/ FailCompletion(t) \/ ReleaseLock(t)
WorkerStep(w) ==
    \/ MarkAtShutdown(w) \/ Stop(w)
    \/ ClearLocks(w) \/ MarkStaleRuns(w) \/ MarkStaleJobs(w)

Next ==
    \/ \E t \in Tasks : \/ Request(t) \/ TaskStep(t) \/ KillTask(t) \/ Redeliver(t) \/ Revoke(t)
                        \/ CancelScrapeRun(t) \/ CancelJobRun(t)
    \/ DeleteLock \/ CommitCancel \/ ExpireLock \/ ToggleHold
    \/ \E w \in Workers : ShutDown(w) \/ LoseWorker(w) \/ FailMarking(w)
                          \/ WorkerStep(w)

Spec == Init /\ [][Next]_vars

(* The worker of the queue takes messages, those it lost come again after   *)
(* the visibility timeout, a task ends (it has a time limit), workers are   *)
(* restarted, and a cancellation ends.                                      *)
FairSpec ==
    /\ Spec
    /\ \A t \in Tasks : WF_vars(TaskStep(t) \/ Redeliver(t))
    /\ \A w \in Workers : WF_vars(WorkerStep(w))
    /\ WF_vars(DeleteLock \/ CommitCancel)
-----------------------------------------------------------------------------
Steps == {"idle", "find", "activate", "lock", "wait", "again", "start", "ingest", "skip",
          "complete", "write", "release"}
Execution == [pc : Steps, tracked : BOOLEAN, saw : JobStatus, result : {None} \cup Ended]
Working == [pc : {"up", "stopping", "draining", "down", "runs", "jobs"},
            runs : SUBSET Tasks, jobs : SUBSET Tasks]

RunTypeOK ==
    /\ run \in [Tasks -> RunStatus] /\ job \in [Tasks -> JobStatus]
    /\ request \in [Tasks -> {"none", "sent", "done"}]
    /\ message \in [Tasks -> {"none", "queued", "taken"}]
    /\ exec \in [Tasks -> Execution]
    /\ lock \in Tasks \cup {None}
    /\ worker \in [Workers -> Working]
    /\ revokes \subseteq Tasks /\ revoked \subseteq Tasks
    /\ cancel \in [pc : {"idle", "run", "lock", "job"}, task : Tasks \cup {None}]
    /\ held \in BOOLEAN
    /\ lost \subseteq Tasks /\ excused \subseteq Tasks \X Rows
    /\ incidents \in 0 .. MaxIncidents

(* An ingestion holds the lock of its league unless the lock expired or was *)
(* deleted: by a worker that started, a cancellation, or another run that   *)
(* takes it for an orphan.  The end of an ingestion that lost its lock does *)
(* not cost the next one its own.                                           *)
HeldWhileIngesting ==
    \A t \in Tasks : exec[t].pc \in {"start", "ingest"} => lock = t \/ t \in lost

(* "Cancellation is terminal": a job run leaves that status only by the     *)
(* write of a task or a worker that had read it before.                     *)
CanceledStays ==
    [][\A t \in Tasks :
         job[t] = "canceled" /\ job'[t] # "canceled" =>
           \/ exec[t].saw \notin {None, "canceled"} /\ exec'[t].saw = None
           \/ \E w \in Workers : t \in worker[w].jobs /\ t \notin worker'[w].jobs]_vars

(* No row stays open for ever, whatever workers start, stop and are lost,   *)
(* unless the task was killed (a cancellation knows of one row only), came  *)
(* before the commit of the row, was held, or could not write it.  The run  *)
(* of an ingestion that is refused is never written, only its job run is.   *)
Unsettled(t) ==
    \/ t \in OpenRuns /\ <<t, "run">> \notin excused
    \/ t \in OpenJobs /\ <<t, "job">> \notin excused
RowsSettle == \A t \in Tasks : Unsettled(t) ~> ~Unsettled(t)
=============================================================================
